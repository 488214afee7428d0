---------------------------- MODULE EngineProofs ----------------------------
(***************************************************************************)
(* Proofs about Engine, for any capacity of the channel, any number of     *)
(* background tasks and any bounds.                                        *)
(*                                                                         *)
(* Most steps of the engine touch neither the registry of the tasks nor    *)
(* the approvals: two frame lemmas list those that do, and the invariants  *)
(* of the two are proved over these.                                       *)
(***************************************************************************)
EXTENDS Engine, Integers, TLAPS

\* The owners are numbers of turns; nothing below depends on them.
Futures(owners) == [pc : Stations, owner : owners, outcome : Outcomes]

TasksShape ==
    /\ \E owners : task \in [Tasks -> Futures(owners)]
    /\ status \in [Tasks -> Statuses]
    /\ \E marks : aborted \in [Tasks -> marks]
    /\ told \in [Tasks -> Seq(Settled)]

\* What is known of the task t.
TaskInv(t) ==
    /\ told[t] \in {<<>>, <<status[t]>>}
    /\ status[t] = "Running" => told[t] = <<>>
    /\ t \in cancelling => status[t] = "Cancelled" /\ told[t] = <<>>
    /\ aborted[t] => status[t] = "Cancelled"
    /\ task[t].pc = "none" => status[t] = "none" /\ told[t] = <<>>
    /\ task[t].pc \in {"acquire", "run", "gate", "check", "write"}
          => status[t] \in {"Running", "Cancelled"}
    /\ task[t].pc \in {"check", "write", "notify"} => task[t].outcome \in {"Completed", "Failed"}
    /\ task[t].pc = "notify" => status[t] = task[t].outcome /\ told[t] = <<>>

TasksInv == TasksShape /\ \A t \in Tasks : TaskInv(t)

AsksInv ==
    /\ nextRequest \in Nat
    /\ asks \in [Askers -> [stage : Stages, id : Nat]]
    /\ \A id \in announced : id \in Nat /\ id < nextRequest
    /\ \A a \in Askers :
          /\ asks[a].stage # "none" => asks[a].id < nextRequest
          /\ asks[a].stage \in {"insert", "announce"} => asks[a].id \notin announced
          /\ asks[a].stage \in {"announce", "wait"} => asks[a].id \in pending
    /\ \A a, b \in Askers :
          a # b /\ asks[a].stage # "none" /\ asks[b].stage # "none" => asks[a].id # asks[b].id

(***************************************************************************)
(* The frames.                                                             *)
(***************************************************************************)
approvalVars == <<nextRequest, pending, announced, asks>>

LEMMA ApprovalFrame ==
    Next => \/ UNCHANGED approvalVars
            \/ \E a \in Askers : Ask(a) \/ InsertPending(a) \/ Announce(a) \/ Forget(a)
            \/ \E id \in 0..MaxAsks : Approve(id)
<1> SUFFICES ASSUME Next
             PROVE \/ UNCHANGED approvalVars
                   \/ \E a \in Askers : Ask(a) \/ InsertPending(a) \/ Announce(a) \/ Forget(a)
                   \/ \E id \in 0..MaxAsks : Approve(id)
    OBVIOUS
<1> USE DEF approvalVars, busVars, Submit, Take, Close, Step
<1>1. CASE FrontendStep
    BY <1>1 DEF FrontendStep, Send, SendShutdown, Interrupt, RequestInterrupt, Answer
<1>2. CASE PumpStep
    BY <1>2 DEF PumpStep, Pump, Stop
<1>3. Turn \in Askers /\ Tasks \subseteq Askers
    BY DEF Askers
<1>4. ASSUME NEW t, NEW again, Decide(t, again)
      PROVE  UNCHANGED approvalVars \/ Ask(Turn)
    BY <1>4 DEF Decide
<1>5. CASE TurnStep
  <2>1. CASE FillSlot \/ RegisterInterrupt \/ EndRun \/ EndRunErr \/ CatchPanic
      BY <2>1 DEF FillSlot, RegisterInterrupt, EndRun, EndRunErr, CatchPanic
  <2>2. CASE Iterate \/ Spend \/ Infer \/ Limited \/ Stalled \/ CallFails \/ Retry \/ RetryFails \/ RunTools
      BY <2>2 DEF Iterate, Spend, Infer, Limited, Stalled, CallFails, Retry, RetryFails, RunTools
  <2>3. CASE CallCancelled \/ Respond \/ RetryResponds
      BY <2>3, <1>3, <1>4 DEF CallCancelled, Respond, RetryResponds
  <2>4. CASE Approved
      BY <2>4, <1>3 DEF Approved
  <2>5. CASE Delegate \/ StoreHandle
      BY <2>5 DEF Delegate, StoreHandle
  <2> QED  BY <1>5, <2>1, <2>2, <2>3, <2>4, <2>5 DEF TurnStep, LoopStep
<1>6. CASE \E t \in Tasks : BackgroundStep(t) \/ CancelTask(t)
  <2> PICK t \in Tasks : BackgroundStep(t) \/ CancelTask(t)
      BY <1>6
  <2>1. CASE TaskAsks(t) \/ TaskResumes(t) \/ Drop(t)
      BY <2>1, <1>3 DEF TaskAsks, TaskResumes, Drop
  <2>2. CASE Acquire(t) \/ Return(t) \/ CheckStatus(t) \/ WriteStatus(t) \/ Panics(t) \/ CancelTask(t)
      BY <2>2 DEF Acquire, Return, CheckStatus, WriteStatus, Panics, CancelTask, Cancel
  <2>3. CASE Notify(t) \/ CancelNotify(t)
      BY <2>3 DEF Notify, CancelNotify, Tell
  <2> QED  BY <2>1, <2>2, <2>3 DEF BackgroundStep, TaskStep
<1>7. CASE \E a \in Askers : BusStep(a)
    BY <1>7 DEF BusStep, AskStep
<1> QED  BY <1>1, <1>2, <1>5, <1>6, <1>7 DEF Next

\* What of the tasks the invariant speaks about: handle is left out.
registryVars == <<task, status, aborted, cancelling, told>>

LEMMA RegistryFrame ==
    Next => \/ UNCHANGED registryVars
            \/ \E t \in Tasks : SubmitTask(t, turn.number) \/ TaskStep(t) \/ CancelNotify(t) \/ Cancel(t)
<1> SUFFICES ASSUME Next
             PROVE \/ UNCHANGED registryVars
                   \/ \E t \in Tasks : SubmitTask(t, turn.number) \/ TaskStep(t) \/ CancelNotify(t) \/ Cancel(t)
    OBVIOUS
<1> USE DEF registryVars, taskVars, Step
<1>1. CASE FrontendStep
    BY <1>1 DEF FrontendStep, Send, SendShutdown, Interrupt, RequestInterrupt, Answer
<1>2. CASE PumpStep
    BY <1>2 DEF PumpStep, Pump, Stop
<1>4. ASSUME NEW t, NEW again, Decide(t, again)
      PROVE  UNCHANGED registryVars
    BY <1>4 DEF Decide
<1>5. CASE TurnStep
  <2>1. CASE FillSlot \/ RegisterInterrupt \/ EndRun \/ EndRunErr \/ CatchPanic
      BY <2>1 DEF FillSlot, RegisterInterrupt, EndRun, EndRunErr, CatchPanic
  <2>2. CASE Iterate \/ Spend \/ Infer \/ Limited \/ Stalled \/ CallFails \/ Retry \/ RetryFails \/ RunTools
      BY <2>2 DEF Iterate, Spend, Infer, Limited, Stalled, CallFails, Retry, RetryFails, RunTools
  <2>3. CASE CallCancelled \/ Respond \/ RetryResponds
      BY <2>3, <1>4 DEF CallCancelled, Respond, RetryResponds
  <2>4. CASE Approved
      BY <2>4 DEF Approved
  <2>5. CASE Delegate \/ StoreHandle
      BY <2>5 DEF Delegate, StoreHandle, SetHandle
  <2> QED  BY <1>5, <2>1, <2>2, <2>3, <2>4, <2>5 DEF TurnStep, LoopStep
<1>6. CASE \E t \in Tasks : BackgroundStep(t) \/ CancelTask(t)
    BY <1>6 DEF BackgroundStep, CancelTask
<1>7. CASE \E a \in Askers : BusStep(a)
    BY <1>7 DEF BusStep
<1> QED  BY <1>1, <1>2, <1>5, <1>6, <1>7 DEF Next

(***************************************************************************)
(* The approvals.                                                          *)
(***************************************************************************)
LEMMA AsksInit == Init => AsksInv
<1> SUFFICES ASSUME Init PROVE AsksInv
    OBVIOUS
<1>1. nextRequest = 0 /\ announced = {}
    BY DEF Init, BusInit
<1>2. asks = [a \in Askers |-> [stage |-> "none", id |-> 0]]
    BY DEF Init, BusInit, NotAsking
<1> QED  BY <1>1, <1>2 DEF AsksInv, Stages

LEMMA AsksStep == AsksInv /\ [Next]_vars => AsksInv'
<1> SUFFICES ASSUME AsksInv, [Next]_vars PROVE AsksInv'
    OBVIOUS
<1>1. CASE UNCHANGED approvalVars
    BY <1>1 DEF AsksInv, Stages, approvalVars
<1>2. ASSUME NEW a \in Askers, Ask(a) PROVE AsksInv'
  <2>1. /\ nextRequest' = nextRequest + 1
        /\ asks' = [asks EXCEPT ![a] = [stage |-> "insert", id |-> nextRequest]]
        /\ UNCHANGED <<pending, announced>>
      BY <1>2 DEF Ask
  <2>2. asks'[a] = [stage |-> "insert", id |-> nextRequest] /\ \A b \in Askers \ {a} : asks'[b] = asks[b]
      BY <2>1 DEF AsksInv, Stages
  <2>3. asks' \in [Askers -> [stage : Stages, id : Nat]]
      BY <2>1 DEF AsksInv, Stages
  <2> QED  BY <2>1, <2>2, <2>3 DEF AsksInv, Stages
<1>3. ASSUME NEW a \in Askers, InsertPending(a) PROVE AsksInv'
    BY <1>3 DEF AsksInv, Stages, InsertPending, Advance
<1>4. ASSUME NEW a \in Askers, Announce(a) PROVE AsksInv'
    BY <1>4 DEF AsksInv, Stages, Announce, Advance
<1>5. ASSUME NEW a \in Askers, Forget(a) PROVE AsksInv'
    BY <1>5 DEF AsksInv, Stages, Forget, NotAsking
<1>6. ASSUME NEW id \in 0..MaxAsks, Approve(id) PROVE AsksInv'
    BY <1>6 DEF AsksInv, Stages, Approve, Answers
<1> QED
    BY <1>1, <1>2, <1>3, <1>4, <1>5, <1>6, ApprovalFrame DEF vars, busVars, approvalVars

\* For any number of tasks and requests: an approval that a frontend has seen
\* can be answered, and the answer finds its requester.
THEOREM Answerable == Spec => []AnnouncedIsAnswerable
<1>1. AsksInv => AnnouncedIsAnswerable
    BY DEF AsksInv, Stages, AnnouncedIsAnswerable
<1> QED  BY <1>1, AsksInit, AsksStep, PTL DEF Spec

(***************************************************************************)
(* The background tasks.                                                   *)
(***************************************************************************)
LEMMA GotoMoves ==
    ASSUME NEW owners, task \in [Tasks -> Futures(owners)],
           NEW t \in Tasks, NEW pc \in Stations, Goto(t, pc)
    PROVE  /\ task' \in [Tasks -> Futures(owners)]
           /\ task'[t].pc = pc /\ task'[t].outcome = task[t].outcome
           /\ \A u \in Tasks \ {t} : task'[u] = task[u]
  BY DEF Goto, Futures

LEMMA EndMoves ==
    ASSUME NEW owners, task \in [Tasks -> Futures(owners)],
           NEW t \in Tasks, NEW pc \in Ended, End(t, pc)
    PROVE  /\ task' \in [Tasks -> Futures(owners \cup {0})]
           /\ task'[t].pc = pc
           /\ \A u \in Tasks \ {t} : task'[u] = task[u]
<1>1. [Unborn EXCEPT !.pc = pc] = [pc |-> pc, owner |-> 0, outcome |-> "none"]
    BY DEF Unborn
<1>2. [pc |-> pc, owner |-> 0, outcome |-> "none"] \in Futures(owners \cup {0})
    BY DEF Futures, Stations, Ended, Outcomes
<1>3. task \in [Tasks -> Futures(owners \cup {0})]
    BY DEF Futures
<1> QED  BY <1>1, <1>2, <1>3 DEF End

LEMMA ToldOf ==
    ASSUME told \in [Tasks -> Seq(Settled)], NEW t \in Tasks, told[t] = <<>>,
           NEW result \in Settled, told' = [told EXCEPT ![t] = Append(@, result)]
    PROVE  told'[t] = <<result>> /\ told' \in [Tasks -> Seq(Settled)]
<1>1. Append(told[t], result) = <<result>>
    OBVIOUS
<1>2. <<result>> \in Seq(Settled)
    OBVIOUS
<1>3. told' = [told EXCEPT ![t] = <<result>>]
    BY <1>1
<1> QED  BY <1>2, <1>3

\* Only the task t has moved.
LEMMA OthersKeep ==
    ASSUME NEW t \in Tasks, NEW u \in Tasks \ {t}, TaskInv(u),
           task'[u] = task[u], status'[u] = status[u], aborted'[u] = aborted[u],
           u \in cancelling' <=> u \in cancelling, told'[u] = told[u]
    PROVE  TaskInv(u)'
  BY DEF TaskInv

LEMMA TasksInitially == Init => TasksInv
<1> SUFFICES ASSUME Init PROVE TasksInv
    OBVIOUS
<1>1. /\ task = [t \in Tasks |-> [pc |-> "none", owner |-> 0, outcome |-> "none"]]
      /\ status = [t \in Tasks |-> "none"]
      /\ aborted = [t \in Tasks |-> FALSE]
      /\ cancelling = {} /\ told = [t \in Tasks |-> <<>>]
    BY DEF Init, TasksInit, Unborn
<1>2. task \in [Tasks -> Futures({0})]
    BY <1>1 DEF Futures, Stations, Ended, Outcomes
<1>3. aborted \in [Tasks -> {FALSE}]
    BY <1>1
<1>4. status \in [Tasks -> Statuses] /\ told \in [Tasks -> Seq(Settled)]
    BY <1>1 DEF Statuses
<1>5. TasksShape
    BY <1>2, <1>3, <1>4 DEF TasksShape
<1> QED  BY <1>1, <1>5 DEF TasksInv, TaskInv

LEMMA TasksStep == TasksInv /\ [Next]_vars => TasksInv'
<1> SUFFICES ASSUME TasksInv, [Next]_vars PROVE TasksInv'
    OBVIOUS
<1> PICK owners : task \in [Tasks -> Futures(owners)]
    BY DEF TasksInv, TasksShape
<1> USE DEF TasksInv
<1>1. CASE UNCHANGED registryVars
    BY <1>1 DEF TasksShape, TaskInv, registryVars
<1>2. ASSUME NEW t \in Tasks, SubmitTask(t, turn.number) PROVE TasksInv'
  <2>1. task' \in [Tasks -> Futures(owners \cup {turn.number})]
      BY <1>2 DEF SubmitTask, Futures, Stations, Outcomes
  <2>2. task'[t].pc = "acquire" /\ \A u \in Tasks \ {t} : task'[u] = task[u]
      BY <1>2 DEF SubmitTask
  <2>3. TasksShape'
      BY <1>2, <2>1 DEF SubmitTask, TasksShape, Statuses
  <2>4. TaskInv(t)'
      BY <1>2, <2>2 DEF SubmitTask, Unused, TasksShape, TaskInv
  <2>5. ASSUME NEW u \in Tasks \ {t} PROVE TaskInv(u)'
      BY <1>2, <2>2, OthersKeep DEF SubmitTask, TasksShape
  <2> QED  BY <2>3, <2>4, <2>5
<1>3. ASSUME NEW t \in Tasks, Acquire(t) \/ TaskAsks(t) \/ TaskResumes(t) PROVE TasksInv'
  <2>1. PICK pc \in {"run", "gate"} : Goto(t, pc) /\ task[t].pc \in {"acquire", "run", "gate"}
      BY <1>3 DEF Acquire, TaskAsks, TaskResumes
  <2>2. UNCHANGED <<status, aborted, cancelling, told>>
      BY <1>3 DEF Acquire, TaskAsks, TaskResumes
  <2>3. /\ task' \in [Tasks -> Futures(owners)]
        /\ task'[t].pc = pc /\ \A u \in Tasks \ {t} : task'[u] = task[u]
      BY <2>1, GotoMoves DEF Stations
  <2>4. TasksShape'
      BY <2>2, <2>3 DEF TasksShape
  <2>5. TaskInv(t)'
      BY <2>1, <2>2, <2>3 DEF TaskInv
  <2>6. ASSUME NEW u \in Tasks \ {t} PROVE TaskInv(u)'
      BY <2>2, <2>3, OthersKeep
  <2> QED  BY <2>4, <2>5, <2>6
<1>4. ASSUME NEW t \in Tasks, Return(t) PROVE TasksInv'
  <2>1. PICK o \in {"Completed", "Failed"} : task' = [task EXCEPT ![t].pc = "check", ![t].outcome = o]
      BY <1>4 DEF Return
  <2>2. /\ task' \in [Tasks -> Futures(owners)]
        /\ task'[t].pc = "check" /\ task'[t].outcome = o
        /\ \A u \in Tasks \ {t} : task'[u] = task[u]
      BY <2>1 DEF Futures, Stations, Outcomes
  <2>3. task[t].pc = "run" /\ UNCHANGED <<status, aborted, cancelling, told>>
      BY <1>4 DEF Return
  <2>4. TasksShape'
      BY <2>2, <2>3 DEF TasksShape
  <2>5. TaskInv(t)'
      BY <2>2, <2>3 DEF TaskInv
  <2>6. ASSUME NEW u \in Tasks \ {t} PROVE TaskInv(u)'
      BY <2>2, <2>3, OthersKeep
  <2> QED  BY <2>4, <2>5, <2>6
<1>5. ASSUME NEW t \in Tasks, CheckStatus(t), status[t] # "Cancelled" PROVE TasksInv'
  <2>1. Goto(t, "write") /\ task[t].pc = "check" /\ UNCHANGED <<status, aborted, cancelling, told>>
      BY <1>5 DEF CheckStatus
  <2>2. /\ task' \in [Tasks -> Futures(owners)]
        /\ task'[t].pc = "write" /\ task'[t].outcome = task[t].outcome
        /\ \A u \in Tasks \ {t} : task'[u] = task[u]
      BY <2>1, GotoMoves DEF Stations
  <2>4. TasksShape'
      BY <2>1, <2>2 DEF TasksShape
  <2>5. TaskInv(t)'
      BY <2>1, <2>2 DEF TaskInv
  <2>6. ASSUME NEW u \in Tasks \ {t} PROVE TaskInv(u)'
      BY <2>1, <2>2, OthersKeep
  <2> QED  BY <2>4, <2>5, <2>6
<1>6. ASSUME NEW t \in Tasks, WriteStatus(t), status[t] # "Cancelled" PROVE TasksInv'
  <2>1. /\ Goto(t, "notify") /\ task[t].pc = "write"
        /\ status' = [status EXCEPT ![t] = task[t].outcome]
        /\ UNCHANGED <<aborted, cancelling, told>>
      BY <1>6 DEF WriteStatus
  <2>2. /\ task' \in [Tasks -> Futures(owners)]
        /\ task'[t].pc = "notify" /\ task'[t].outcome = task[t].outcome
        /\ \A u \in Tasks \ {t} : task'[u] = task[u]
      BY <2>1, GotoMoves DEF Stations
  <2>3. task[t].outcome \in {"Completed", "Failed"} /\ status[t] = "Running"
      BY <1>6, <2>1 DEF TaskInv
  <2>4. TasksShape'
      BY <2>1, <2>2, <2>3 DEF TasksShape, Statuses, Settled
  <2>5. TaskInv(t)'
      BY <2>1, <2>2, <2>3 DEF TaskInv, TasksShape
  <2>6. ASSUME NEW u \in Tasks \ {t} PROVE TaskInv(u)'
      BY <2>1, <2>2, OthersKeep DEF TasksShape
  <2> QED  BY <2>4, <2>5, <2>6
<1>7. ASSUME NEW t \in Tasks, NEW pc \in Ended, End(t, pc), UNCHANGED <<status, aborted, cancelling, told>>,
             task[t].pc # "none" \/ aborted[t]
      PROVE  TasksInv'
  <2>1. /\ task' \in [Tasks -> Futures(owners \cup {0})]
        /\ task'[t].pc = pc /\ \A u \in Tasks \ {t} : task'[u] = task[u]
      BY <1>7, EndMoves
  <2>2. TasksShape'
      BY <1>7, <2>1 DEF TasksShape
  <2>3. TaskInv(t)'
      BY <1>7, <2>1 DEF TaskInv, Ended
  <2>4. ASSUME NEW u \in Tasks \ {t} PROVE TaskInv(u)'
      BY <1>7, <2>1, OthersKeep
  <2> QED  BY <2>2, <2>3, <2>4
<1>8. ASSUME NEW t \in Tasks, Notify(t) PROVE TasksInv'
  <2>1. /\ task[t].pc = "notify" /\ End(t, "done")
        /\ UNCHANGED <<status, aborted, cancelling>>
        /\ told' = [told EXCEPT ![t] = Append(@, task[t].outcome)] \/ told' = told
      BY <1>8 DEF Notify, Tell
  <2>2. /\ task' \in [Tasks -> Futures(owners \cup {0})]
        /\ task'[t].pc = "done" /\ \A u \in Tasks \ {t} : task'[u] = task[u]
      BY <2>1, EndMoves DEF Ended
  <2>3. /\ status[t] = task[t].outcome /\ status[t] \in Settled /\ status[t] # "Cancelled"
        /\ told[t] = <<>>
      BY <2>1 DEF TaskInv, Settled
  <2>4. told'[t] \in {<<>>, <<status[t]>>} /\ told' \in [Tasks -> Seq(Settled)]
      BY <2>1, <2>3, ToldOf DEF TasksShape
  <2>5. TasksShape'
      BY <2>1, <2>2, <2>4 DEF TasksShape
  <2>6. TaskInv(t)'
      BY <2>1, <2>2, <2>3, <2>4 DEF TaskInv, Settled
  <2>7. ASSUME NEW u \in Tasks \ {t} PROVE TaskInv(u)'
      BY <2>1, <2>2, OthersKeep DEF TasksShape
  <2> QED  BY <2>5, <2>6, <2>7
<1>9. ASSUME NEW t \in Tasks, Cancel(t) PROVE TasksInv'
  <2>1. /\ status[t] = "Running" /\ status' = [status EXCEPT ![t] = "Cancelled"]
        /\ aborted' = [aborted EXCEPT ![t] = handle[t]]
        /\ cancelling' = cancelling \cup {t} /\ UNCHANGED <<task, told>>
      BY <1>9 DEF Cancel
  <2> PICK marks : aborted \in [Tasks -> marks]
      BY DEF TasksShape
  <2>2. aborted' \in [Tasks -> marks \cup {handle[t]}]
      BY <2>1
  <2>3. /\ status'[t] = "Cancelled" /\ told'[t] = <<>>
        /\ task[t].pc # "none" /\ task[t].pc # "notify"
        /\ task[t].pc \in {"check", "write", "notify"} => task[t].outcome \in {"Completed", "Failed"}
      BY <2>1 DEF TaskInv, TasksShape
  <2>4. TasksShape'
      BY <2>1, <2>2 DEF TasksShape, Statuses, Settled
  <2>5. TaskInv(t)'
      BY <2>1, <2>3 DEF TaskInv
  <2>6. ASSUME NEW u \in Tasks \ {t} PROVE TaskInv(u)'
      BY <2>1, OthersKeep DEF TasksShape
  <2> QED  BY <2>4, <2>5, <2>6
<1>10. ASSUME NEW t \in Tasks, CancelNotify(t) PROVE TasksInv'
  <2>1. /\ t \in cancelling /\ cancelling' = cancelling \ {t}
        /\ UNCHANGED <<task, status, aborted>>
        /\ told' = [told EXCEPT ![t] = Append(@, "Cancelled")] \/ told' = told
      BY <1>10 DEF CancelNotify, Tell
  <2>2. status[t] = "Cancelled" /\ told[t] = <<>>
      BY <2>1 DEF TaskInv
  <2>3. told'[t] \in {<<>>, <<status[t]>>} /\ told' \in [Tasks -> Seq(Settled)]
    <3>1. "Cancelled" \in Settled
        BY DEF Settled
    <3> QED  BY <2>1, <2>2, <3>1, ToldOf DEF TasksShape
  <2>4. TasksShape'
      BY <2>1, <2>3 DEF TasksShape
  <2>5. TaskInv(t)'
      BY <2>1, <2>2, <2>3 DEF TaskInv
  <2>6. ASSUME NEW u \in Tasks \ {t} PROVE TaskInv(u)'
      BY <2>1, OthersKeep DEF TasksShape
  <2> QED  BY <2>4, <2>5, <2>6
<1>11. ASSUME NEW t \in Tasks, TaskStep(t) PROVE TasksInv'
  <2>1. CASE CheckStatus(t) /\ status[t] = "Cancelled"
      BY <2>1, <1>7 DEF CheckStatus, Ended
  <2>2. CASE WriteStatus(t) /\ status[t] = "Cancelled"
      BY <2>2, <1>7 DEF WriteStatus, Ended
  <2>3. CASE Drop(t)
      BY <2>3, <1>7 DEF Drop, Ended
  <2>4. CASE Panics(t)
      BY <2>4, <1>7 DEF Panics, Ended
  <2> QED
      BY <1>3, <1>4, <1>5, <1>6, <1>8, <1>11, <2>1, <2>2, <2>3, <2>4 DEF TaskStep
<1> QED
    BY <1>1, <1>2, <1>9, <1>10, <1>11, RegistryFrame DEF vars, taskVars, registryVars

\* For any number of tasks: the parent is told of each at most once, and what
\* it is told is the status that the registry keeps from then on.
THEOREM ToldOnce == Spec => []ToldOnceAndTrue
<1>1. TasksInv => ToldOnceAndTrue
    BY DEF TasksInv, TaskInv, ToldOnceAndTrue
<1> QED  BY <1>1, TasksInitially, TasksStep, PTL DEF Spec
=============================================================================
