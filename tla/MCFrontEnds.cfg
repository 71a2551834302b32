CONSTANTS
    c1 = c1
    c2 = c2
    Calls = {c1, c2}
    Slots = 1
    Capacity = 1
    TerminateDuration = 2
    Latency = 1
    Invocations <- AllInvocations
    Hosts <- AllHosts
    SocketFiles <- RuntimeFiles
    SocketDirs <- RuntimeDirs
    MaxQueue = 2
    Readers = {"r1"}
    Asked = {0, 9}
    Default = 1
    Most = 2
    Size = 2
    Block = 2
    FileSize = 5
    MaxEntries = 3
SPECIFICATION FrontSpec
INVARIANTS
    ProxyInv ProxyExitIsClean
    ExecInv StartedRunsAreOnRecord ReturnedExecLeavesNothing SandboxHides
PROPERTIES
    AgentGoneEndsProxy AbandonedRunsEnd
    SignaledExecReturns
    TailViewIsExact
CHECK_DEADLOCK FALSE
