-------------------------- MODULE PolicyProxyProofs --------------------------
(* Proofs about PolicyProxy, for any set of calls and any number of slots on    *)
(* either side.                                                                 *)
EXTENDS PolicyProxy, FiniteSetTheorems, TLAPS

USE DEF service, link, commands, proxyVars

(* The proxy's slots.                                                           *)

\* What a step does to the account: nothing, or one call more or less on both sides.
Balanced ==
    \/ taken' = taken /\ Calling' = Calling
    \/ \E c \in Calls \ Calling : taken' = taken + 1 /\ taken < Capacity /\ Calling' = Calling \cup {c}
    \/ \E c \in Calling : taken' = taken - 1 /\ Calling' = Calling \ {c}

\* The calls that wait are finitely many.
LEMMA CallingFinite == IsFiniteSet(Calling)
  BY RunServiceAssumption, FS_Subset DEF Calling

\* A balanced step keeps the account exact and within its bounds.
LEMMA BalancedKeepsCapacity ==
    ASSUME taken \in 0..Capacity, CapacityExact, Balanced
    PROVE  taken' \in 0..Capacity /\ CapacityExact'
<1> USE CapacityAssumption
<1>1. CASE taken' = taken /\ Calling' = Calling
  BY <1>1 DEF CapacityExact
<1>2. CASE \E c \in Calls \ Calling : taken' = taken + 1 /\ taken < Capacity /\ Calling' = Calling \cup {c}
  <2>1. PICK c \in Calls \ Calling : taken' = taken + 1 /\ taken < Capacity /\ Calling' = Calling \cup {c}
    BY <1>2
  <2>2. Cardinality(Calling \cup {c}) = Cardinality(Calling) + 1
    BY <2>1, CallingFinite, FS_AddElement
  <2> QED BY <2>1, <2>2 DEF CapacityExact
<1>3. CASE \E c \in Calling : taken' = taken - 1 /\ Calling' = Calling \ {c}
  <2>1. PICK c \in Calling : taken' = taken - 1 /\ Calling' = Calling \ {c}
    BY <1>3
  <2>2. Cardinality(Calling \ {c}) = Cardinality(Calling) - 1
    BY <2>1, CallingFinite, FS_RemoveElement
  <2>3. taken # 0
    BY <2>1, CallingFinite, FS_EmptySet DEF CapacityExact
  <2> QED BY <2>1, <2>2, <2>3 DEF CapacityExact
<1> QED BY <1>1, <1>2, <1>3 DEF Balanced

\* Only a call that goes out or comes back moves the account.
LEMMA StepsBalanced == ProxyTypeOK /\ [ProxyNext]_proxyVars => Balanced
<1> SUFFICES ASSUME ProxyTypeOK, [ProxyNext]_proxyVars PROVE Balanced
  OBVIOUS
<1>1. ASSUME UNCHANGED <<taken, stage>> PROVE Balanced
  BY <1>1 DEF Balanced, Calling
<1>2. ASSUME NEW c \in Calls, CallUpstream(c) PROVE Balanced
  <2>1. c \notin Calling /\ Calling' = Calling \cup {c}
    BY <1>2 DEF CallUpstream, Calling, ProxyTypeOK
  <2> QED BY <1>2, <2>1 DEF CallUpstream, Balanced
<1>3. ASSUME NEW c \in Calls, ReturnStatus(c) PROVE Balanced
  <2>1. c \in Calling /\ Calling' = Calling \ {c}
    BY <1>3 DEF ReturnStatus, Leave, Calling, ProxyTypeOK
  <2> QED BY <1>3, <2>1 DEF ReturnStatus, Balanced
<1>4. ASSUME NEW c \in Calls, TurnAway(c) PROVE Balanced
  BY <1>4 DEF TurnAway, Leave, Calling, ProxyTypeOK, Balanced
<1>5. ASSUME NEW c \in Calls, WaitEnds(c) PROVE Balanced
  BY <1>5, <1>1 DEF WaitEnds
<1>6. CASE Serve \/ ServeFails \/ AgentLeaves \/ CloseUpstream \/ Elapse \/ KillUpstream \/ ProxyExits
  BY <1>6, <1>1 DEF Serve, ServeFails, AgentLeaves, CloseUpstream, Elapse, KillUpstream, ProxyExits
<1>7. CASE Upstream \/ UNCHANGED proxyVars
  BY <1>7, <1>1 DEF Upstream
<1>8. ASSUME NEW c \in Calls, GroupEnds(c) PROVE Balanced
  BY <1>8, <1>1 DEF GroupEnds
<1> QED BY <1>2, <1>3, <1>4, <1>5, <1>6, <1>7, <1>8 DEF ProxyNext

-----------------------------------------------------------------------------
(* How long a group can live once the proxy has closed stdin.                   *)

\* Three steps of the news after the close no group is left.
LEMMA GroupsGoInTime ==
    ASSUME ProxyInv, age > 3 * Latency
    PROVE  alive = {}
<1> SUFFICES ASSUME NEW c \in alive PROVE FALSE
  OBVIOUS
<1>1. c \in Calls /\ phase[c] = "running" /\ Taken(c)
  BY DEF ProxyInv, TimeOrder, Running, Taken
<1>2. server # "exited"
  BY <1>1 DEF ProxyInv, SessionOrder
<1>3. age \in Nat /\ Latency \in Nat /\ heardAt \in Nat /\ endedAt[c] \in Nat
  BY <1>1, LatencyAssumption DEF ProxyInv, ProxyTypeOK
<1>4. InTime(age) /\ heardAt <= Latency /\ endedAt[c] <= 2 * Latency
  BY <1>1 DEF ProxyInv, TimeOrder
<1>5. CASE ctx[c] # "live"
  BY <1>1, <1>3, <1>4, <1>5 DEF InTime
<1>6. CASE ctx[c] = "live" /\ server = "up"
  BY <1>3, <1>4, <1>6 DEF InTime
<1>7. CASE ctx[c] = "live" /\ server # "up"
  BY <1>1, <1>3, <1>4, <1>7 DEF InTime
<1> QED BY <1>5, <1>6, <1>7

\* When the context of a run ends, at most two steps of the news have passed.
LEMMA ContextsEndInTime ==
    ASSUME ProxyInv, NEW c \in Calls, Taken(c), ctx[c] = "live"
    PROVE  age <= 2 * Latency
<1>1. age \in Nat /\ Latency \in Nat /\ heardAt \in Nat
  BY LatencyAssumption DEF ProxyInv, ProxyTypeOK
<1>2. InTime(age) /\ heardAt <= Latency
  BY DEF ProxyInv, TimeOrder
<1>3. CASE server = "up"
  BY <1>1, <1>2, <1>3 DEF InTime
<1>4. CASE server # "up"
  BY <1>1, <1>2, <1>4 DEF InTime
<1> QED BY <1>3, <1>4

\* The steps that time is not about.
LEMMA UntimedKeepTime ==
    ASSUME ProxyInv, UNCHANGED <<server, phase, ctx, age, alive, heardAt, endedAt>>,
           proxy' \in {"starting", "serving", "canceled"} => proxy' = proxy \/ age = 0
    PROVE  TimeOrder'
BY DEF ProxyInv, TimeOrder, InTime, Taken, Running

LEMMA ElapseKeepsTime == ASSUME ProxyInv, Elapse PROVE TimeOrder'
<1>1. InTime(age + 1) /\ age' = age + 1
  BY DEF Elapse
<1>2. InTime(age)'
  BY <1>1 DEF Elapse, InTime, Taken
<1> QED BY <1>2 DEF Elapse, ProxyInv, TimeOrder, Running

LEMMA UpstreamKeepsTime ==
    ASSUME ProxyInv, Upstream
    PROVE  TimeOrder'
<1> USE DEF ProxyInv, ProxyTypeOK
<1>1. /\ age \in Nat /\ Latency \in Nat /\ heardAt \in Nat /\ endedAt \in [Calls -> Nat]
      /\ age' = age /\ proxy' = proxy
      /\ server \in {"up", "canceled", "exited"} /\ ctx \in [Calls -> {"live", "canceled", "deadline"}]
      /\ phase \in [Calls -> {"idle", "pending", "running", "returned"}] /\ alive \subseteq Calls
  BY LatencyAssumption DEF Upstream
<1>2. /\ proxy \in {"starting", "serving", "canceled"} => age = 0
      /\ InTime(age) /\ heardAt <= Latency /\ alive \subseteq Running
      /\ \A c \in Calls : endedAt[c] <= 2 * Latency
  BY DEF TimeOrder
<1> USE DEF TimeOrder, InTime, Taken, Running
<1>3. CASE HungUp
  BY <1>1, <1>2, <1>3 DEF HungUp, ClientLeaves
<1>4. CASE Exit /\ UNCHANGED commands
  BY <1>1, <1>2, <1>4 DEF Exit
<1>5. ASSUME NEW c \in Calls, Delivered(c) PROVE TimeOrder'
  BY <1>1, <1>2, <1>5 DEF Delivered, Take
<1>6. ASSUME NEW c \in Calls, NEW cause \in {"canceled", "deadline"}, EndRun(c, cause) PROVE TimeOrder'
  <2>1. age <= 2 * Latency
    BY <1>6, ContextsEndInTime DEF EndRun, End
  <2> QED BY <1>1, <1>2, <1>6, <2>1 DEF EndRun, End
<1>7. ASSUME NEW c \in Calls, StartCommand(c) PROVE TimeOrder'
  BY <1>1, <1>2, <1>7 DEF StartCommand, Begin
<1>8. ASSUME NEW c \in Calls, FinishRun(c) PROVE TimeOrder'
  BY <1>1, <1>2, <1>8 DEF FinishRun, Complete, Answer
<1>9. ASSUME NEW c \in Calls, Decline(c), UNCHANGED commands PROVE TimeOrder'
  BY <1>1, <1>2, <1>9 DEF Decline, Answer
<1> QED BY <1>3, <1>4, <1>5, <1>6, <1>7, <1>8, <1>9 DEF Upstream, Withdrawn, EndsItself

LEMMA GroupEndsKeepsTime ==
    ASSUME ProxyInv, NEW c \in Calls, GroupEnds(c)
    PROVE  TimeOrder'
<1>1. endedAt \in [Calls -> Nat] /\ Latency \in Nat
  BY LatencyAssumption DEF ProxyInv, ProxyTypeOK
<1> QED BY <1>1 DEF GroupEnds, ProxyInv, ProxyTypeOK, TimeOrder, InTime, Taken, Running

-----------------------------------------------------------------------------
(* The rest of the invariant, one kind of step at a time.                       *)

Rest == SessionOrder /\ CallOrder /\ StatusIsTrue

\* The steps of a proxied call.
LEMMA CallKeeps ==
    ASSUME ProxyInv, NEW c \in Calls, taken' \in 0..Capacity,
           TurnAway(c) \/ CallUpstream(c) \/ WaitEnds(c) \/ ReturnStatus(c) \/ GroupEnds(c)
    PROVE  ProxyTypeOK' /\ Rest' /\ TimeOrder'
<1> USE DEF ProxyInv, ProxyTypeOK, Declined, Completed
<1>1. CASE TurnAway(c)
  <2>1. TimeOrder'
    BY <1>1, UntimedKeepTime DEF TurnAway, Leave
  <2> QED BY <1>1, <2>1 DEF TurnAway, Leave, Rest, SessionOrder, CallOrder, StatusIsTrue, Calling, Running
<1>2. CASE CallUpstream(c)
  <2>1. TimeOrder'
    BY <1>2, UntimedKeepTime DEF CallUpstream
  <2> QED BY <1>2, <2>1 DEF CallUpstream, Rest, SessionOrder, CallOrder, StatusIsTrue, Calling, Running
<1>3. CASE WaitEnds(c)
  <2>1. TimeOrder'
    BY <1>3, UntimedKeepTime DEF WaitEnds
  <2> QED BY <1>3, <2>1 DEF WaitEnds, Rest, SessionOrder, CallOrder, StatusIsTrue, Calling, Running
<1>4. CASE ReturnStatus(c)
  <2>1. Report(c) \in {"failed", "success", "timed_out"}
    BY DEF Report
  <2>2. Report(c) = "success" => told[c] = "success" /\ wait[c] = "live"
    BY DEF Report
  <2>3. Report(c) = "timed_out" => wait[c] = "deadline" \/ (told[c] = "timed_out" /\ ctx[c] = "deadline")
    BY DEF Report, CallOrder
  <2>4. TimeOrder'
    BY <1>4, UntimedKeepTime DEF ReturnStatus
  <2> QED BY <1>4, <2>1, <2>2, <2>3, <2>4
          DEF ReturnStatus, Leave, Rest, SessionOrder, CallOrder, StatusIsTrue, Calling, Running
<1>5. CASE GroupEnds(c)
  <2>1. TimeOrder'
    BY <1>5, GroupEndsKeepsTime
  <2> QED BY <1>5, <2>1 DEF GroupEnds, Rest, SessionOrder, CallOrder, StatusIsTrue, Calling, Running
<1> QED BY <1>1, <1>2, <1>3, <1>4, <1>5

\* The steps of the session. The kill is where time is needed: it asks for nothing but its age.
LEMMA SessionKeeps ==
    ASSUME ProxyInv, taken' \in 0..Capacity,
           Serve \/ ServeFails \/ AgentLeaves \/ CloseUpstream \/ Elapse \/ KillUpstream \/ ProxyExits
    PROVE  ProxyTypeOK' /\ Rest' /\ TimeOrder'
<1>1. TimeOrder'
  <2>1. CASE Elapse
    BY <2>1, ElapseKeepsTime
  <2>2. CASE Serve \/ ServeFails \/ AgentLeaves \/ CloseUpstream \/ KillUpstream \/ ProxyExits
    BY <2>2, UntimedKeepTime
       DEF Serve, ServeFails, AgentLeaves, CloseUpstream, KillUpstream, ProxyExits, ProxyInv, TimeOrder
  <2> QED BY <2>1, <2>2
<1> USE <1>1 DEF ProxyInv, ProxyTypeOK, Declined, Completed, Rest, SessionOrder, CallOrder, StatusIsTrue, Calling, Running
<1>2. CASE Serve \/ AgentLeaves
  BY <1>2 DEF Serve, AgentLeaves
<1>3. CASE ServeFails
  BY <1>3 DEF ServeFails, TimeOrder
<1>4. CASE CloseUpstream
  BY <1>4 DEF CloseUpstream
<1>5. CASE Elapse
  BY <1>5 DEF Elapse
<1>6. CASE KillUpstream
  <2>1. age > 3 * Latency
    BY <1>6, LatencyAssumption DEF KillUpstream
  <2>2. alive = {}
    BY <2>1, GroupsGoInTime
  <2> QED BY <1>6, <2>2 DEF KillUpstream
<1>7. CASE ProxyExits
  BY <1>7 DEF ProxyExits
<1> QED BY <1>2, <1>3, <1>4, <1>5, <1>6, <1>7

\* The steps of the upstream.
LEMMA UpstreamKeeps ==
    ASSUME ProxyInv, Upstream
    PROVE  ProxyTypeOK' /\ Rest' /\ TimeOrder'
<1>1. TimeOrder'
  BY UpstreamKeepsTime
<1> USE <1>1 DEF ProxyInv, ProxyTypeOK, Declined, Completed, Rest, SessionOrder, CallOrder, StatusIsTrue, Calling, Running
<1>2. CASE HungUp \/ (Exit /\ UNCHANGED commands)
  BY <1>2 DEF Upstream, HungUp, ClientLeaves, Exit
<1>3. ASSUME NEW c \in Calls, Delivered(c) PROVE ProxyTypeOK' /\ Rest'
  BY <1>3 DEF Upstream, Delivered, Take
<1>4. ASSUME NEW c \in Calls, Withdrawn(c) \/ EndsItself(c) PROVE ProxyTypeOK' /\ Rest'
  BY <1>4 DEF Upstream, Withdrawn, EndsItself, EndRun, End
<1>5. ASSUME NEW c \in Calls, StartCommand(c) PROVE ProxyTypeOK' /\ Rest'
  BY <1>5 DEF Upstream, StartCommand, Begin
<1>6. ASSUME NEW c \in Calls, Decline(c), UNCHANGED commands PROVE ProxyTypeOK' /\ Rest'
  BY <1>6 DEF Upstream, Decline, Answer
<1>7. ASSUME NEW c \in Calls, FinishRun(c) PROVE ProxyTypeOK' /\ Rest'
  BY <1>7 DEF Upstream, FinishRun, Complete, Answer
<1> QED BY <1>2, <1>3, <1>4, <1>5, <1>6, <1>7 DEF Upstream

\* Initially the invariant holds.
LEMMA InitProxyInv == ProxyInit => ProxyInv
<1> SUFFICES ASSUME ProxyInit PROVE ProxyInv
  OBVIOUS
<1>1. Calling = {} /\ Running = {}
  BY DEF ProxyInit, ServiceInit, Calling, Running
<1>2. ProxyTypeOK
  <2>1. taken \in 0..Capacity
    BY CapacityAssumption DEF ProxyInit
  <2> QED BY <2>1 DEF ProxyInit, ServiceInit, ProxyTypeOK, Declined, Completed
<1>3. CapacityExact
  BY <1>1, FS_EmptySet DEF ProxyInit, CapacityExact
<1>4. Rest
  BY <1>1 DEF ProxyInit, ServiceInit, Rest, SessionOrder, CallOrder, StatusIsTrue
<1>5. TimeOrder
  BY LatencyAssumption DEF ProxyInit, ServiceInit, TimeOrder, InTime, Taken
<1> QED BY <1>2, <1>3, <1>4, <1>5 DEF ProxyInv, Rest

\* Every step keeps it.
LEMMA StepProxyInv == ProxyInv /\ [ProxyNext]_proxyVars => ProxyInv'
<1> SUFFICES ASSUME ProxyInv, [ProxyNext]_proxyVars PROVE ProxyInv'
  OBVIOUS
<1>1. taken' \in 0..Capacity /\ CapacityExact'
  BY StepsBalanced, BalancedKeepsCapacity DEF ProxyInv, ProxyTypeOK
<1>2. ProxyTypeOK' /\ Rest' /\ TimeOrder'
  <2>1. CASE UNCHANGED proxyVars
    <3>1. TimeOrder'
      BY <2>1, UntimedKeepTime
    <3> QED BY <2>1, <3>1 DEF ProxyInv, ProxyTypeOK, Rest, SessionOrder, CallOrder, StatusIsTrue, Calling, Running
  <2> QED BY <1>1, <2>1, CallKeeps, SessionKeeps, UpstreamKeeps DEF ProxyNext
<1> QED BY <1>1, <1>2 DEF ProxyInv, Rest

\* At every step the slots taken are exactly the calls that wait, and every status an agent got
\* is one the upstream or the proxy's own deadline stands for: no way out of a call leaks a slot
\* or turns a time-out, a cancellation or a refusal into a success.
THEOREM ProxyInvariant == ProxySpec => []ProxyInv
  BY InitProxyInv, StepProxyInv, PTL DEF ProxySpec

\* The proxy never exits over a group that its upstream started, although the SDK kills after
\* fixed times whatever runs: with two TerminateDurations longer than the three steps of the
\* news (LatencyAssumption), the last group is gone before the kill.
THEOREM ProxyOrphansNothing == ProxySpec => []ProxyExitIsClean
<1>1. ProxyInv => ProxyExitIsClean
  BY DEF ProxyInv, SessionOrder, TimeOrder, Running, ProxyExitIsClean
<1> QED BY <1>1, ProxyInvariant, PTL
=============================================================================
