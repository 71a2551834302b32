---------------------------- MODULE McpRunProofs ----------------------------
(* Proofs about McpRun, for any set of calls, number of slots and requests, and *)
(* that it implements RunService.                                               *)
EXTENDS McpRunRefinement, FiniteSetTheorems, TLAPS

(* The slots.                                                                   *)

\* What a step does to the account: nothing, or one call more or less on both sides.
Balanced ==
    \/ slots' = slots /\ Counted' = Counted
    \/ \E c \in Calls \ Counted : slots' = slots + 1 /\ slots < Slots /\ Counted' = Counted \cup {c}
    \/ \E c \in Counted : slots' = slots - 1 /\ Counted' = Counted \ {c}

\* The calls that hold a slot are finitely many.
LEMMA CountedFinite == IsFiniteSet(Counted)
  BY CallsAssumption, FS_Subset DEF Counted

\* A balanced step keeps the account exact and within its bounds.
LEMMA BalancedKeepsSlots ==
    ASSUME slots \in 0..Slots, SlotsExact, Balanced
    PROVE  slots' \in 0..Slots /\ SlotsExact'
<1> USE SlotsAssumption
<1>1. CASE slots' = slots /\ Counted' = Counted
  BY <1>1 DEF SlotsExact
<1>2. CASE \E c \in Calls \ Counted : slots' = slots + 1 /\ slots < Slots /\ Counted' = Counted \cup {c}
  <2>1. PICK c \in Calls \ Counted : slots' = slots + 1 /\ slots < Slots /\ Counted' = Counted \cup {c}
    BY <1>2
  <2>2. Cardinality(Counted \cup {c}) = Cardinality(Counted) + 1
    BY <2>1, CountedFinite, FS_AddElement
  <2> QED BY <2>1, <2>2 DEF SlotsExact
<1>3. CASE \E c \in Counted : slots' = slots - 1 /\ Counted' = Counted \ {c}
  <2>1. PICK c \in Counted : slots' = slots - 1 /\ Counted' = Counted \ {c}
    BY <1>3
  <2>2. Cardinality(Counted \ {c}) = Cardinality(Counted) - 1
    BY <2>1, CountedFinite, FS_RemoveElement
  <2>3. slots # 0
    BY <2>1, CountedFinite, FS_EmptySet DEF SlotsExact
  <2> QED BY <2>1, <2>2, <2>3 DEF SlotsExact
<1> QED BY <1>1, <1>2, <1>3 DEF Balanced

\* A step that moves one call between two places that both hold a slot, or both do not.
LEMMA StaysBalanced ==
    ASSUME TypeOK, NEW c \in Calls, NEW p,
           pc' = [pc EXCEPT ![c] = p], slots' = slots, (pc[c] \in Holding) <=> (p \in Holding)
    PROVE  Balanced
  BY DEF Balanced, Counted, TypeOK

\* The handler of a call that holds a slot returns it.
LEMMA ReturnBalanced ==
    ASSUME TypeOK, NEW c \in Calls, NEW reply, pc[c] \in Holding, Return(c, reply)
    PROVE  Balanced
<1>1. Counted' = Counted \ {c}
  BY DEF Counted, Return, TypeOK, Holding, Preparing, Executing, Concluding
<1>2. c \in Counted /\ slots' = slots - 1
  BY DEF Counted, Return
<1> QED BY <1>1, <1>2 DEF Balanced

\* Every step is balanced.
LEMMA StepsBalanced == TypeOK /\ [Next]_vars => Balanced
<1> SUFFICES ASSUME TypeOK, [Next]_vars PROVE Balanced
  OBVIOUS
<1> USE DEF Holding, Preparing, Executing, Concluding
<1>1. ASSUME UNCHANGED <<slots, pc>> PROVE Balanced
  BY <1>1 DEF Balanced, Counted
<1>2. ASSUME NEW c \in Calls, Handler(c) PROVE Balanced
  <2>1. CASE Admit(c)
    <3>1. Counted' = Counted \cup {c} /\ c \notin Counted
      BY <2>1 DEF Admit, Counted, TypeOK
    <3> QED BY <2>1, <3>1 DEF Balanced, Admit
  <2>2. CASE Refuse(c)
    BY <2>2, StaysBalanced DEF Refuse
  <2>3. CASE Reject(c)
    BY <2>3, ReturnBalanced DEF Reject
  <2>4. CASE Accept(c)
    BY <2>4, StaysBalanced DEF Accept
  <2>5. CASE Resolve(c)
    BY <2>5, <1>1 DEF Resolve
  <2>6. CASE Deny(c)
    BY <2>6, ReturnBalanced DEF Deny
  <2>7. CASE CheckContext(c)
    BY <2>7, ReturnBalanced, StaysBalanced DEF CheckContext
  <2>8. CASE Announce(c)
    BY <2>8, StaysBalanced DEF Announce
  <2>9. CASE StartFails(c) \/ Start(c)
    BY <2>9, StaysBalanced DEF StartFails, Start
  <2>10. CASE Reap(c) \/ Join(c)
    BY <2>10, StaysBalanced DEF Reap, Join
  <2>11. CASE Drained(c) \/ DelayExpires(c)
    BY <2>11, StaysBalanced DEF Drained, DelayExpires
  <2>12. CASE StopChildProcesses(c) \/ Classify(c)
    BY <2>12, StaysBalanced DEF StopChildProcesses, Classify
  <2>13. CASE Report(c)
    BY <2>13, ReturnBalanced DEF Report
  <2> QED BY <1>2, <2>1, <2>2, <2>3, <2>4, <2>5, <2>6, <2>7, <2>8, <2>9, <2>10, <2>11, <2>12, <2>13 DEF Handler
<1>3. ASSUME NEW c \in Calls, Environment(c) PROVE Balanced
  <2>1. CASE Enter(c)
    BY <2>1, StaysBalanced DEF Enter
  <2>2. CASE ~Enter(c)
    BY <1>3, <2>2, <1>1 DEF Environment, ClientCancels, Deadline, AfterFunc, ContextEnds, Exits, Forks,
                            DescendantsEnd, OutputEnds, CancelRun, WatchExpires
  <2> QED BY <2>1, <2>2
<1>4. CASE Disconnect \/ ServerExits \/ UNCHANGED vars
  BY <1>4, <1>1 DEF Disconnect, ServerExits, vars
<1> QED BY <1>2, <1>3, <1>4 DEF Next

-----------------------------------------------------------------------------
(* The types.                                                                   *)

\* Every step keeps the types.
LEMMA TypesKept == TypeOK /\ SlotsExact /\ [Next]_vars => TypeOK'
<1> SUFFICES ASSUME TypeOK, SlotsExact, [Next]_vars PROVE TypeOK'
  OBVIOUS
<1>1. slots' \in 0..Slots
  BY StepsBalanced, BalancedKeepsSlots DEF TypeOK
<1> USE <1>1 DEF TypeOK, Holding, Preparing, Executing, Concluding, Outside,
                 session, command, machinery, entries
<1>2. ASSUME NEW c \in Calls, Handler(c) PROVE TypeOK'
  <2>1. CASE Admit(c) \/ Refuse(c) \/ Accept(c) \/ Resolve(c)
    BY <2>1 DEF Admit, Refuse, Accept, Resolve
  <2>2. CASE Reject(c) \/ Deny(c) \/ CheckContext(c)
    BY <2>2 DEF Reject, Deny, CheckContext, Return
  <2>3. CASE Announce(c) \/ StartFails(c) \/ Start(c)
    BY <2>3 DEF Announce, Append, StartFails, Start
  <2>4. CASE Reap(c) \/ Join(c)
    BY <2>4 DEF Reap, Join, Keep
  <2>5. CASE Drained(c) \/ DelayExpires(c)
    BY <2>5 DEF Drained, DelayExpires, CutPipes, Keep
  <2>6. CASE StopChildProcesses(c) \/ Classify(c)
    BY <2>6 DEF StopChildProcesses, KillGroup, Survivors, Classify, Verdict
  <2>7. CASE Report(c)
    BY <2>7 DEF Report, Return, Append
  <2> QED BY <1>2, <2>1, <2>2, <2>3, <2>4, <2>5, <2>6, <2>7 DEF Handler
<1>3. ASSUME NEW c \in Calls, Environment(c) PROVE TypeOK'
  <2>1. CASE Enter(c)
    BY <2>1 DEF Enter
  <2>2. CASE ClientCancels(c) \/ Deadline(c) \/ AfterFunc(c)
    BY <2>2 DEF ClientCancels, Deadline, AfterFunc, ContextEnds
  <2>3. CASE \E status \in {"zero", "failed"} : Exits(c, status)
    BY <2>3 DEF Exits, Survivors
  <2>4. CASE Forks(c) \/ \E which \in {"group", "stray"} : DescendantsEnd(c, which)
    BY <2>4 DEF Forks, DescendantsEnd
  <2>5. CASE OutputEnds(c)
    BY <2>5 DEF OutputEnds
  <2>6. CASE CancelRun(c) \/ WatchExpires(c)
    BY <2>6 DEF CancelRun, KillGroup, Survivors, GroupFound, WatchExpires, CutPipes, Keep
  <2> QED BY <1>3, <2>1, <2>2, <2>3, <2>4, <2>5, <2>6 DEF Environment
<1>4. CASE Disconnect \/ ServerExits \/ UNCHANGED vars
  BY <1>4 DEF Disconnect, ServerExits, vars
<1> QED BY <1>2, <1>3, <1>4 DEF Next

-----------------------------------------------------------------------------
(* What every call keeps.                                                       *)

\* Every step of a handler keeps what the calls keep.
LEMMA HandlerKeeps ==
    ASSUME TypeOK, CallInv, NEW c \in Calls, Handler(c)
    PROVE  CallInv'
<1> USE DEF TypeOK, CallInv, BeforeTheCommand, CommandState, ErrorState, AnswerState, EntryState,
            Holding, Preparing, Executing, Concluding, Outside, Started, session, command, machinery, entries
<1>1. CASE Admit(c)
  BY <1>1 DEF Admit
<1>2. CASE Refuse(c)
  BY <1>2 DEF Refuse
<1>3. CASE Reject(c)
  BY <1>3 DEF Reject, Return
<1>4. CASE Accept(c)
  BY <1>4 DEF Accept
<1>5. CASE Resolve(c)
  BY <1>5 DEF Resolve
<1>6. CASE Deny(c)
  BY <1>6 DEF Deny, Return
<1>7. CASE CheckContext(c)
  BY <1>7 DEF CheckContext, Return
<1>8. CASE Announce(c)
  BY <1>8 DEF Announce, Append
<1>9. CASE StartFails(c)
  BY <1>9 DEF StartFails
<1>10. CASE Start(c)
  BY <1>10 DEF Start
<1>11. CASE Reap(c)
  BY <1>11 DEF Reap
<1>12. CASE Join(c)
  BY <1>12 DEF Join, Keep
<1>13. CASE Drained(c)
  BY <1>13 DEF Drained
<1>14. CASE DelayExpires(c)
  BY <1>14 DEF DelayExpires, CutPipes, Keep
<1>15. CASE StopChildProcesses(c)
  BY <1>15 DEF StopChildProcesses, KillGroup, Survivors
<1>16. CASE Classify(c)
  BY <1>16 DEF Classify, Verdict
<1>17. CASE Report(c)
  BY <1>17 DEF Report, Return, Append
<1> QED BY <1>1, <1>2, <1>3, <1>4, <1>5, <1>6, <1>7, <1>8, <1>9, <1>10, <1>11, <1>12, <1>13, <1>14,
           <1>15, <1>16, <1>17 DEF Handler

\* Every step of the contexts, of a command and of the watching goroutine keeps it too.
LEMMA EnvironmentKeeps ==
    ASSUME TypeOK, CallInv, NEW c \in Calls, Environment(c)
    PROVE  CallInv'
<1> USE DEF TypeOK, CallInv, BeforeTheCommand, CommandState, ErrorState, AnswerState, EntryState,
            Holding, Preparing, Executing, Concluding, Outside, Started, session, command, machinery, entries
<1>1. CASE Enter(c)
  BY <1>1 DEF Enter
<1>2. CASE ClientCancels(c) \/ Deadline(c) \/ AfterFunc(c)
  BY <1>2 DEF ClientCancels, Deadline, AfterFunc, ContextEnds
<1>3. CASE \E status \in {"zero", "failed"} : Exits(c, status)
  BY <1>3 DEF Exits, Survivors
<1>4. CASE Forks(c)
  BY <1>4 DEF Forks
<1>5. CASE \E which \in {"group", "stray"} : DescendantsEnd(c, which)
  BY <1>5 DEF DescendantsEnd
<1>6. CASE OutputEnds(c)
  BY <1>6 DEF OutputEnds
<1>7. CASE CancelRun(c)
  BY <1>7 DEF CancelRun, KillGroup, Survivors, GroupFound
<1>8. CASE WatchExpires(c)
  BY <1>8 DEF WatchExpires, CutPipes, Keep
<1> QED BY <1>1, <1>2, <1>3, <1>4, <1>5, <1>6, <1>7, <1>8 DEF Environment

\* Initially the invariant holds.
LEMMA InitIndInv == Init => IndInv
<1> SUFFICES ASSUME Init PROVE IndInv
  OBVIOUS
<1>1. TypeOK
  BY SlotsAssumption DEF Init, TypeOK, Outside
<1>2. SlotsExact
  <2>1. Counted = {}
    BY DEF Init, Counted, Holding, Preparing, Executing, Concluding
  <2> QED BY <2>1, FS_EmptySet DEF Init, SlotsExact
<1>3. CallInv
  BY DEF Init, CallInv, BeforeTheCommand, CommandState, ErrorState, AnswerState, EntryState,
         Holding, Preparing, Executing, Concluding, Started
<1> QED BY <1>1, <1>2, <1>3 DEF IndInv

\* Every step keeps the invariant.
LEMMA StepIndInv == IndInv /\ [Next]_vars => IndInv'
<1> SUFFICES ASSUME IndInv, [Next]_vars PROVE IndInv'
  OBVIOUS
<1>1. TypeOK' /\ SlotsExact'
  BY TypesKept, StepsBalanced, BalancedKeepsSlots DEF IndInv, TypeOK
<1>2. CallInv'
  <2>1. CASE \E c \in Calls : Handler(c) \/ Environment(c)
    BY <2>1, HandlerKeeps, EnvironmentKeeps DEF IndInv
  <2>2. CASE Disconnect \/ ServerExits \/ UNCHANGED vars
    BY <2>2 DEF IndInv, CallInv, BeforeTheCommand, CommandState, ErrorState, AnswerState, EntryState,
                Disconnect, ServerExits, vars, session, command, machinery, entries
  <2> QED BY <2>1, <2>2 DEF Next
<1> QED BY <1>1, <1>2 DEF IndInv

\* The types, the exact account of the slots and what every call keeps hold at every step,
\* for any number of calls and slots: no path out of the handler leaks a slot.
THEOREM McpRunInvariant == Spec => []IndInv
  BY InitIndInv, StepIndInv, PTL DEF Spec

\* A returned call has no process of its group, no copier, no goroutine and no secret left.
THEOREM ReturnedCallsLeaveNothing == Spec => []NothingLeftBehind
<1>1. IndInv => NothingLeftBehind
  BY DEF IndInv, TypeOK, CallInv, CommandState, NothingLeftBehind, Holding, Preparing, Executing, Concluding, Outside
<1> QED BY <1>1, McpRunInvariant, PTL

\* Success means an exit status of zero and the whole output; a deadline's victim timed out.
THEOREM AnswersHold == Spec => []AnswersAreTrue
<1>1. IndInv => AnswersAreTrue
  BY DEF IndInv, CallInv, AnswerState, AnswersAreTrue
<1> QED BY <1>1, McpRunInvariant, PTL

\* The network is never used on an announcement that a dead context suppressed.
THEOREM NetworkHolds == Spec => []NetworkIsAnnounced
<1>1. IndInv => NetworkIsAnnounced
  BY DEF IndInv, TypeOK, CallInv, EntryState, BeforeTheCommand, NetworkIsAnnounced
<1> QED BY <1>1, McpRunInvariant, PTL

\* A command that was started has its completion entry when its call returns.
THEOREM AuditHolds == Spec => []RunsAreAudited
<1>1. IndInv => RunsAreAudited
  BY DEF IndInv, CallInv, EntryState, RunsAreAudited
<1> QED BY <1>1, McpRunInvariant, PTL

\* A request that reaches its handler after the lifetime ended starts nothing.
THEOREM LateCallsHold == Spec => []LateCallsStartNothing
<1>1. IndInv => LateCallsStartNothing
  BY DEF IndInv, CallInv, EntryState, LateCallsStartNothing
<1> QED BY <1>1, McpRunInvariant, PTL

-----------------------------------------------------------------------------
(* The refinement. The invariant says why a command that starts finds a place:  *)
(* running commands are among the calls that hold a slot, and so is the one     *)
(* that is about to start, which does not run yet.                              *)


\* A call is only told of a time-out after its deadline, and never how a command ended that
\* was not started.
AnswersAreDue ==
    \A c \in Calls :
        /\ pc[c] \in {"report", "returned"} /\ answer[c] = "timed_out" => ctx[c] = "deadline"
        /\ pc[c] = "report" => answer[c] \in Service!Completed
        /\ pc[c] = "report" /\ leader[c] = "none" => answer[c] \in Service!Declined

RefInv == IndInv /\ AnswersAreDue

Phase == [c \in Calls |-> PhaseOf(c)]
Told == [c \in Calls |-> ToldOf(c)]

\* Every step keeps it.
LEMMA AnswersKept == IndInv /\ AnswersAreDue /\ [Next]_vars => AnswersAreDue'
<1> SUFFICES ASSUME IndInv, AnswersAreDue, [Next]_vars PROVE AnswersAreDue'
  OBVIOUS
<1> USE DEF IndInv, TypeOK, AnswersAreDue, Holding, Preparing, Executing, Concluding, Outside
<1>1. ASSUME UNCHANGED <<pc, answer, ctx, leader>> PROVE AnswersAreDue'
  BY <1>1
<1>2. ASSUME NEW c \in Calls, Handler(c) PROVE AnswersAreDue'
  <2>1. CASE Admit(c) \/ Refuse(c) \/ Accept(c) \/ Resolve(c)
    BY <2>1 DEF Admit, Refuse, Accept, Resolve, command
  <2>2. CASE Reject(c) \/ Deny(c) \/ CheckContext(c)
    BY <2>2 DEF Reject, Deny, CheckContext, Return, command
  <2>3. CASE Announce(c) \/ StartFails(c) \/ Start(c)
    BY <2>3 DEF Announce, StartFails, Start, command
  <2>4. CASE Reap(c) \/ Join(c) \/ Drained(c) \/ DelayExpires(c) \/ StopChildProcesses(c)
    BY <2>4 DEF Reap, Join, Drained, DelayExpires, StopChildProcesses, KillGroup, command
  <2>5. CASE Classify(c)
    <3>1. leader[c] = "none" => runErr[c] = "start"
      BY <2>5 DEF Classify, CallInv, ErrorState
    <3> QED BY <2>5, <3>1 DEF Classify, Verdict, command, Service!Completed, Service!Declined
  <2>6. CASE Report(c)
    BY <2>6 DEF Report, Return, command
  <2> QED BY <1>2, <2>1, <2>2, <2>3, <2>4, <2>5, <2>6 DEF Handler
<1>3. ASSUME NEW c \in Calls, Environment(c) PROVE AnswersAreDue'
  <2>1. CASE Enter(c)
    BY <2>1 DEF Enter, command
  <2>2. CASE ClientCancels(c) \/ Deadline(c) \/ AfterFunc(c)
    BY <2>2 DEF ClientCancels, Deadline, AfterFunc, ContextEnds, command
  <2>3. CASE \E status \in {"zero", "failed"} : Exits(c, status)
    BY <2>3 DEF Exits, CallInv, BeforeTheCommand, CommandState
  <2>4. CASE CancelRun(c)
    BY <2>4 DEF CancelRun, KillGroup, CallInv, CommandState
  <2>5. CASE UNCHANGED <<pc, answer, ctx, leader>>
    BY <2>5
  <2> QED BY <1>3, <2>1, <2>2, <2>3, <2>4, <2>5 DEF Environment, Forks, DescendantsEnd, OutputEnds, WatchExpires, command
<1>4. CASE Disconnect \/ ServerExits \/ UNCHANGED vars
  BY <1>4, <1>1 DEF Disconnect, ServerExits, vars, command
<1> QED BY <1>2, <1>3, <1>4 DEF Next

\* The invariant of the refinement holds at every step.
LEMMA RefInvHolds == Spec => []RefInv
<1>1. Init => AnswersAreDue
  BY DEF Init, AnswersAreDue
<1>2. IndInv /\ AnswersAreDue /\ [Next]_vars => AnswersAreDue'
  BY AnswersKept
<1> QED BY <1>1, <1>2, InitIndInv, StepIndInv, PTL DEF Spec, RefInv

-----------------------------------------------------------------------------
(* Steps a client cannot see, and steps of one call.                            *)

\* What the client sees of a call is made of these four variables.
LEMMA Unseen ==
    ASSUME UNCHANGED <<server, ctx>>,
           \A c \in Calls : PhaseOf(c)' = PhaseOf(c) /\ ToldOf(c)' = ToldOf(c)
    PROVE  UNCHANGED Service!service
  BY DEF Service!service

\* A step that leaves the handlers, the answers and the start of the commands alone is unseen.
LEMMA SamePlaces ==
    ASSUME TypeOK, UNCHANGED <<server, ctx, pc, answer>>,
           \A c \in Calls : (leader'[c] = "none") <=> (leader[c] = "none")
    PROVE  UNCHANGED Service!service
  BY Unseen DEF PhaseOf, ToldOf, TypeOK

\* A call that moves between two inner places of its handler is unseen.
LEMMA InnerMove ==
    ASSUME TypeOK, NEW c \in Calls, NEW p, pc' = [pc EXCEPT ![c] = p],
           pc[c] \notin {"idle", "returned"}, p \notin {"idle", "returned"},
           UNCHANGED <<server, ctx>>,
           \A d \in Calls : (leader'[d] = "none") <=> (leader[d] = "none"),
           \A d \in Calls \ {c} : answer'[d] = answer[d]
    PROVE  UNCHANGED Service!service
  BY Unseen DEF PhaseOf, ToldOf, TypeOK

\* A handler that returns before its command was started declines the request.
LEMMA Declines ==
    ASSUME TypeOK, NEW c \in Calls, NEW reply \in Service!Declined,
           pc[c] \notin {"idle", "returned"}, leader[c] = "none",
           pc' = [pc EXCEPT ![c] = "returned"], answer' = [answer EXCEPT ![c] = reply],
           reply = "timed_out" => ctx[c] = "deadline",
           UNCHANGED <<server, ctx, leader>>
    PROVE  Service!Decline(c)
<1>1. Phase[c] = "pending" /\ Phase' = [Phase EXCEPT ![c] = "returned"]
  BY DEF Phase, PhaseOf, TypeOK
<1>2. Told' = [Told EXCEPT ![c] = reply]
  BY DEF Told, ToldOf, TypeOK
<1> QED BY <1>1, <1>2 DEF Service!Decline, Service!Answer, Phase, Told

\* A handler that returns after its command was started completes it.
LEMMA Completes ==
    ASSUME TypeOK, NEW c \in Calls, NEW reply \in Service!Completed,
           pc[c] \notin {"idle", "returned"}, leader[c] # "none",
           pc' = [pc EXCEPT ![c] = "returned"], answer' = [answer EXCEPT ![c] = reply],
           reply = "timed_out" => ctx[c] = "deadline",
           UNCHANGED <<server, ctx, leader>>
    PROVE  Service!Complete(c)
<1>1. Phase[c] = "running" /\ Phase' = [Phase EXCEPT ![c] = "returned"]
  <2>1. Phase[c] = "running"
    BY DEF Phase, PhaseOf
  <2>2. PhaseOf(c)' = "returned" /\ \A d \in Calls \ {c} : PhaseOf(d)' = PhaseOf(d)
    BY DEF PhaseOf, TypeOK
  <2> QED BY <2>1, <2>2 DEF Phase
<1>2. Told' = [Told EXCEPT ![c] = reply]
  BY DEF Told, ToldOf, TypeOK
<1> QED BY <1>1, <1>2 DEF Service!Complete, Service!Answer, Phase, Told

\* The service counts with the same operator.
LEMMA SameCardinality == \A S : Service!Cardinality(S) = Cardinality(S)
  BY DEF Service!Cardinality, Cardinality

\* A command that is about to start finds fewer than Slots running.
LEMMA RoomToStart ==
    ASSUME IndInv, NEW c \in Calls, pc[c] = "start"
    PROVE  Service!Cardinality(Service!Running) < Slots
<1> USE DEF IndInv, TypeOK, CallInv, BeforeTheCommand, Holding, Preparing, Executing, Concluding, Outside, Started
<1>1. Service!Running \cup {c} \subseteq Counted
  BY DEF Service!Running, PhaseOf, Counted
<1>2. c \notin Service!Running
  BY DEF Service!Running, PhaseOf
<1>3. IsFiniteSet(Service!Running)
  BY <1>1, CountedFinite, FS_Subset
<1>4. Cardinality(Service!Running \cup {c}) <= Cardinality(Counted)
  BY <1>1, CountedFinite, FS_Subset
<1>5. Cardinality(Service!Running \cup {c}) = Cardinality(Service!Running) + 1
  BY <1>2, <1>3, FS_AddElement
<1>6. Cardinality(Service!Running) \in Nat
  BY <1>3, FS_CardinalityType
<1>7. Cardinality(Counted) = slots /\ slots <= Slots /\ slots \in Nat
  BY SlotsAssumption DEF SlotsExact
<1> QED BY <1>4, <1>5, <1>6, <1>7, SlotsAssumption, SameCardinality

-----------------------------------------------------------------------------
(* Every step is a step of the service, or unseen.                              *)

\* The steps of a handler.
LEMMA HandlerImplements ==
    ASSUME RefInv, NEW c \in Calls, Handler(c)
    PROVE  Service!ServiceNext \/ UNCHANGED Service!service
<1> USE DEF RefInv, IndInv, Holding, Preparing, Executing, Concluding, Outside
<1>0. TypeOK
  OBVIOUS
<1>1. pc[c] \notin Started => leader[c] = "none"
  BY DEF CallInv, BeforeTheCommand
<1>2. ASSUME Service!Decline(c) \/ Service!Complete(c) \/ Service!Begin(c) PROVE Service!ServiceNext
  BY <1>2 DEF Service!ServiceNext
<1>3. CASE Admit(c) \/ Accept(c)
  BY <1>3, <1>0, InnerMove DEF Admit, Accept, session, command
<1>4. CASE Resolve(c)
  BY <1>4, <1>0, SamePlaces DEF Resolve, session, command
<1>5. CASE Refuse(c)
  <2>1. \E reply \in Service!Declined :
           answer' = [answer EXCEPT ![c] = reply] /\ reply # "timed_out"
    BY <1>5 DEF Refuse, Service!Declined
  <2> QED BY <1>5, <1>0, <1>1, <1>2, <2>1, Declines DEF Refuse, Started, session, command
<1>6. CASE Reject(c) \/ Deny(c)
  <2>1. \E reply \in Service!Declined :
           answer' = [answer EXCEPT ![c] = reply] /\ reply # "timed_out"
    BY <1>6 DEF Reject, Deny, Return, Service!Declined
  <2> QED BY <1>6, <1>0, <1>1, <1>2, <2>1, Declines DEF Reject, Deny, Return, Started, session, command
<1>7. CASE CheckContext(c)
  <2>1. CASE ctx[c] = "live"
    <3>1. pc[c] = "resolve" /\ \E p \in {"announce", "start"} : pc' = [pc EXCEPT ![c] = p]
      BY <1>7, <2>1 DEF CheckContext
    <3> QED BY <1>7, <2>1, <1>0, <3>1, InnerMove DEF CheckContext, session, command
  <2>2. CASE ctx[c] # "live"
    <3>1. Return(c, "request_canceled") /\ "request_canceled" \in Service!Declined
      BY <1>7, <2>2 DEF CheckContext, Service!Declined
    <3> QED BY <1>7, <1>0, <1>1, <1>2, <3>1, Declines DEF CheckContext, Return, Started, session, command
  <2> QED BY <2>1, <2>2
<1>8. CASE Announce(c) \/ StartFails(c)
  BY <1>8, <1>0, InnerMove DEF Announce, StartFails, session, command
<1>9. CASE Start(c)
  <2>1. leader[c] = "none" /\ pc[c] = "start"
    BY <1>9, <1>1 DEF Start, Started
  <2>2. Phase[c] = "pending" /\ Phase' = [Phase EXCEPT ![c] = "running"]
    BY <1>9, <2>1, <1>0 DEF Start, Phase, PhaseOf, TypeOK
  <2>3. Told' = Told
    BY <1>9, <1>0 DEF Start, Told, ToldOf, TypeOK
  <2>4. Service!Begin(c)
    BY <1>9, <2>1, <2>2, <2>3, RoomToStart DEF Start, Service!Begin, Phase, Told, session
  <2> QED BY <2>4, <1>2
<1>10. CASE Reap(c) \/ Drained(c) \/ DelayExpires(c)
  BY <1>10, <1>0, InnerMove DEF Reap, Drained, DelayExpires, session, command
<1>11. CASE Join(c)
  <2>1. pc[c] = "join" /\ \E p \in {"stop", "drain"} : pc' = [pc EXCEPT ![c] = p]
    BY <1>11 DEF Join
  <2> QED BY <1>11, <1>0, <2>1, InnerMove DEF Join, session, command
<1>12. CASE StopChildProcesses(c)
  <2>1. \A d \in Calls : (leader'[d] = "none") <=> (leader[d] = "none")
    BY <1>12 DEF StopChildProcesses, KillGroup, TypeOK
  <2> QED BY <1>12, <1>0, <2>1, InnerMove DEF StopChildProcesses, session
<1>13. CASE Classify(c)
  <2>1. \A d \in Calls \ {c} : answer'[d] = answer[d]
    BY <1>13 DEF Classify, TypeOK
  <2> QED BY <1>13, <1>0, <2>1, InnerMove DEF Classify, session, command
<1>14. CASE Report(c)
  <2>1. answer[c] = "timed_out" => ctx[c] = "deadline"
    BY <1>14 DEF Report, AnswersAreDue
  <2>2. CASE leader[c] = "none"
    <3>1. answer[c] \in Service!Declined
      BY <1>14, <2>2 DEF Report, AnswersAreDue
    <3> QED BY <1>14, <1>0, <1>2, <2>1, <2>2, <3>1, Declines DEF Report, Return, session, command
  <2>3. CASE leader[c] # "none"
    <3>1. answer[c] \in Service!Completed
      BY <1>14, <2>3 DEF Report, AnswersAreDue
    <3> QED BY <1>14, <1>0, <1>2, <2>1, <2>3, <3>1, Completes DEF Report, Return, session, command
  <2> QED BY <2>2, <2>3
<1> QED BY <1>3, <1>4, <1>5, <1>6, <1>7, <1>8, <1>9, <1>10, <1>11, <1>12, <1>13, <1>14 DEF Handler

\* The steps of the contexts, of a command and of the watching goroutine.
LEMMA EnvironmentImplements ==
    ASSUME RefInv, NEW c \in Calls, Environment(c)
    PROVE  Service!ServiceNext \/ UNCHANGED Service!service
<1> USE DEF RefInv, IndInv, Holding, Preparing, Executing, Concluding, Outside
<1>0. TypeOK
  OBVIOUS
<1>1. CASE Enter(c)
  <2>1. leader[c] = "none"
    BY <1>1 DEF Enter, CallInv, BeforeTheCommand, Started
  <2>2. Phase[c] = "idle" /\ Phase' = [Phase EXCEPT ![c] = "pending"]
    <3>1. Phase[c] = "idle"
      BY <1>1 DEF Enter, Phase, PhaseOf
    <3>2. PhaseOf(c)' = "pending" /\ \A d \in Calls \ {c} : PhaseOf(d)' = PhaseOf(d)
      BY <1>1, <2>1, <1>0 DEF Enter, PhaseOf, TypeOK, command
    <3> QED BY <3>1, <3>2 DEF Phase
  <2>3. Told' = Told
    BY <1>1, <1>0 DEF Enter, Told, ToldOf, TypeOK
  <2>4. Service!Take(c)
    BY <1>1, <2>2, <2>3 DEF Enter, Service!Take, Phase, Told
  <2> QED BY <2>4 DEF Service!ServiceNext
<1>2. CASE ClientCancels(c) \/ Deadline(c) \/ AfterFunc(c)
  <2>1. \E cause \in {"canceled", "deadline"} : ContextEnds(c, cause)
    BY <1>2 DEF ClientCancels, Deadline, AfterFunc
  <2>2. PICK cause \in {"canceled", "deadline"} : ContextEnds(c, cause)
    BY <2>1
  <2>3. Phase' = Phase /\ Told' = Told
    BY <2>2, <1>0 DEF ContextEnds, Phase, PhaseOf, Told, ToldOf, TypeOK, command
  <2>4. Phase[c] \in {"pending", "running"}
    BY <2>2, <1>0 DEF ContextEnds, Phase, PhaseOf, TypeOK
  <2>5. Service!End(c, cause)
    BY <2>2, <2>3, <2>4 DEF ContextEnds, Service!End, Phase, Told, session
  <2> QED BY <2>5 DEF Service!ServiceNext
<1>3. CASE \E status \in {"zero", "failed"} : Exits(c, status)
  <2>1. \A d \in Calls : (leader'[d] = "none") <=> (leader[d] = "none")
    BY <1>3 DEF Exits, TypeOK
  <2> QED BY <1>3, <1>0, <2>1, SamePlaces DEF Exits, session
<1>4. CASE CancelRun(c)
  <2>1. \A d \in Calls : (leader'[d] = "none") <=> (leader[d] = "none")
    BY <1>4 DEF CancelRun, KillGroup, TypeOK
  <2> QED BY <1>4, <1>0, <2>1, SamePlaces DEF CancelRun, session
<1>5. CASE Forks(c) \/ OutputEnds(c) \/ WatchExpires(c) \/ \E which \in {"group", "stray"} : DescendantsEnd(c, which)
  <2>1. UNCHANGED <<server, ctx, pc, answer, leader>>
    BY <1>5 DEF Forks, OutputEnds, WatchExpires, DescendantsEnd, session, command
  <2> QED BY <1>0, <2>1, SamePlaces
<1> QED BY <1>1, <1>2, <1>3, <1>4, <1>5 DEF Environment

\* Every step of McpRun is a step of the service or one that a client cannot see.
LEMMA StepImplements == RefInv /\ [Next]_vars => [Service!ServiceNext]_Service!service
<1> SUFFICES ASSUME RefInv, [Next]_vars PROVE Service!ServiceNext \/ UNCHANGED Service!service
  OBVIOUS
<1>0. TypeOK
  BY DEF RefInv, IndInv
<1>1. CASE \E c \in Calls : Handler(c) \/ Environment(c)
  BY <1>1, HandlerImplements, EnvironmentImplements
<1>2. CASE Disconnect \/ ServerExits
  <2>1. Phase' = Phase /\ Told' = Told
    BY <1>2, <1>0 DEF Disconnect, ServerExits, Phase, PhaseOf, Told, ToldOf, TypeOK, command
  <2>2. CASE Disconnect
    <3>1. Service!ClientLeaves
      BY <2>1, <2>2 DEF Disconnect, Service!ClientLeaves, Phase, Told
    <3> QED BY <3>1 DEF Service!ServiceNext
  <2>3. CASE ServerExits
    <3>1. \A c \in Calls : Phase[c] \in {"idle", "returned"}
      BY <2>3 DEF ServerExits, Phase, PhaseOf
    <3>2. Service!Exit
      BY <2>1, <2>3, <3>1 DEF ServerExits, Service!Exit, Phase, Told
    <3> QED BY <3>2 DEF Service!ServiceNext
  <2> QED BY <1>2, <2>2, <2>3
<1>3. CASE UNCHANGED vars
  BY <1>3, <1>0, SamePlaces DEF vars, session, command
<1> QED BY <1>1, <1>2, <1>3 DEF Next

\* The first state of McpRun is the first of the service.
LEMMA InitImplements == Init => Service!ServiceInit
  BY DEF Init, Service!ServiceInit, PhaseOf, ToldOf

\* The server keeps what RunService promises its clients: in particular no request starts a
\* command after it ended or beyond Slots, and every answer is one its history allows.
THEOREM McpRunImplementsService == Spec => ImplementsService
  BY RefInvHolds, InitImplements, StepImplements, PTL DEF Spec, ImplementsService, Service!ServiceSpec
=============================================================================
