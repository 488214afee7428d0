-------------------------- MODULE BackgroundTasks ---------------------------
(***************************************************************************)
(* BackgroundTaskRegistry and AsyncTaskRunner: sub-agents that run beside  *)
(* the turns of their parent.  The end of a task, or its cancellation, is  *)
(* told to the parent once: as a UserMessage submitted to the bus, which   *)
(* begins a new turn.  A cancellation may come at any step of the task.    *)
(*                                                                         *)
(* The ids of the registry are the numbers of the submissions, and there   *)
(* is no budget pool (the default policy).                                 *)
(***************************************************************************)
EXTENDS EngineBus, FiniteSets

CONSTANTS MaxConcurrent      \* max_concurrent of the DelegationPolicy

ASSUME PolicyAssumption == MaxConcurrent \in Nat \ {0}

VARIABLES
    task,        \* per task: where its future is, its owner and its outcome
    status,      \* TaskStatus in the registry
    handle,      \* join_handle is set
    aborted,     \* the handle was aborted
    cancelling,  \* the tasks whose canceller has still to notify the parent
    told         \* history: per task, what was submitted to its parent

taskVars == <<task, status, handle, aborted, cancelling, told>>

Settled == {"Completed", "Failed", "Cancelled"}
Ended   == {"done", "dropped", "panicked"}

Stations == Ended \cup {"none", "acquire", "run", "gate", "check", "write", "notify"}
Statuses == Settled \cup {"none", "Running"}
Outcomes == {"none", "Completed", "Failed"}

TasksTypeOK ==
    /\ task \in [Tasks -> [pc : Stations, owner : Nat, outcome : Outcomes]]
    /\ status \in [Tasks -> Statuses]
    /\ handle \in [Tasks -> BOOLEAN] /\ aborted \in [Tasks -> BOOLEAN]
    /\ cancelling \subseteq Tasks
    /\ told \in [Tasks -> Seq(Settled)]

Unborn == [pc |-> "none", owner |-> 0, outcome |-> "none"]

TasksInit ==
    /\ task = [t \in Tasks |-> Unborn]
    /\ status = [t \in Tasks |-> "none"]
    /\ handle = [t \in Tasks |-> FALSE] /\ aborted = [t \in Tasks |-> FALSE]
    /\ cancelling = {}
    /\ told = [t \in Tasks |-> <<>>]

Goto(t, pc) == task' = [task EXCEPT ![t].pc = pc]

\* The future is over, and its variables are gone.
End(t, pc) == task' = [task EXCEPT ![t] = [Unborn EXCEPT !.pc = pc]]

(***************************************************************************)
(* submit_delegate: insert the task as Running and spawn it; then, with    *)
(* the task already running, put its handle into the registry.             *)
(***************************************************************************)
Unused == {t \in Tasks : task[t].pc = "none"}

SubmitTask(t, turn) ==
    /\ t \in Unused /\ \A u \in Unused : t <= u
    /\ task' = [task EXCEPT ![t] = [pc |-> "acquire", owner |-> turn, outcome |-> "none"]]
    /\ status' = [status EXCEPT ![t] = "Running"]
    /\ UNCHANGED <<handle, aborted, cancelling, told>>

SetHandle(t) ==
    /\ handle' = [handle EXCEPT ![t] = TRUE]
    /\ UNCHANGED <<task, status, aborted, cancelling, told>>

(***************************************************************************)
(* The spawned future.                                                     *)
(***************************************************************************)
\* The permit is held until the sub-agent has returned.
Holders(turn) == {t \in Tasks : task[t].owner = turn /\ task[t].pc \in {"run", "gate"}}

Acquire(t) ==
    /\ task[t].pc = "acquire"
    /\ Cardinality(Holders(task[t].owner)) < MaxConcurrent
    /\ Goto(t, "run")
    /\ UNCHANGED <<status, handle, aborted, cancelling, told, busVars>>

\* A tool of the sub-agent needs an approval, through the bus of its parent.
TaskAsks(t) ==
    /\ task[t].pc = "run" /\ Ask(t)
    /\ Goto(t, "gate")
    /\ UNCHANGED <<status, handle, aborted, cancelling, told>>

TaskResumes(t) ==
    /\ task[t].pc = "gate" /\ asks[t].stage = "answered" /\ Forget(t)
    /\ Goto(t, "run")
    /\ UNCHANGED <<status, handle, aborted, cancelling, told>>

\* A summary, completed or not, or an Err.
Return(t) ==
    /\ task[t].pc = "run"
    /\ \E o \in {"Completed", "Failed"} :
          task' = [task EXCEPT ![t].pc = "check", ![t].outcome = o]
    /\ UNCHANGED <<status, handle, aborted, cancelling, told, busVars>>

\* The status under the read lock: a cancelled task ends here.
CheckStatus(t) ==
    /\ task[t].pc = "check"
    /\ IF status[t] = "Cancelled" THEN End(t, "done") ELSE Goto(t, "write")
    /\ UNCHANGED <<status, handle, aborted, cancelling, told, busVars>>

\* Faulty variant: the status read before is not read again.
WriteUnchecked(t) ==
    /\ task[t].pc = "write"
    /\ Goto(t, "notify") /\ status' = [status EXCEPT ![t] = task[t].outcome]
    /\ UNCHANGED <<handle, aborted, cancelling, told, busVars>>

\* The same status under the write lock, and the terminal one.
WriteStatus(t) ==
    /\ task[t].pc = "write"
    /\ \/ /\ status[t] = "Cancelled"
          /\ End(t, "done") /\ UNCHANGED status
       \/ /\ status[t] # "Cancelled"
          /\ Goto(t, "notify") /\ status' = [status EXCEPT ![t] = task[t].outcome]
    /\ UNCHANGED <<handle, aborted, cancelling, told, busVars>>

(***************************************************************************)
(* BusBackgroundSink::notify: submits the result; when the bus is closed   *)
(* it is dropped with a warning.                                           *)
(***************************************************************************)
Tell(t, result) ==
    \/ /\ Submit([kind |-> "result", task |-> t])
       /\ told' = [told EXCEPT ![t] = Append(@, result)]
    \/ /\ closed /\ UNCHANGED <<busVars, told>>

\* Faulty variant: nobody is told of a task that failed.
NotifySuccess(t) ==
    /\ task[t].pc = "notify"
    /\ IF task[t].outcome = "Completed" THEN Tell(t, task[t].outcome) ELSE UNCHANGED <<busVars, told>>
    /\ End(t, "done")
    /\ UNCHANGED <<status, handle, aborted, cancelling>>

Notify(t) ==
    /\ task[t].pc = "notify" /\ Tell(t, task[t].outcome)
    /\ End(t, "done")
    /\ UNCHANGED <<status, handle, aborted, cancelling>>

\* An aborted future is dropped where it awaits.
Drop(t) ==
    /\ aborted[t] /\ task[t].pc \notin Ended
    /\ End(t, "dropped")
    /\ Forget(t)
    /\ UNCHANGED <<status, handle, aborted, cancelling, told>>

\* Nothing catches a panic of the sub-agent: the task stays Running.
Panics(t) ==
    /\ task[t].pc = "run"
    /\ End(t, "panicked")
    /\ UNCHANGED <<status, handle, aborted, cancelling, told, busVars>>

TaskStep(t) ==
    \/ Acquire(t) \/ TaskAsks(t) \/ TaskResumes(t) \/ Return(t)
    \/ CheckStatus(t) \/ WriteStatus(t) \/ Notify(t) \/ Drop(t) \/ Panics(t)

(***************************************************************************)
(* cancel: under the write lock, only of a Running task; then the notice.  *)
(* cancel_all is a cancel of each running task, one after the other.       *)
(***************************************************************************)
Cancel(t) ==
    /\ status[t] = "Running"
    /\ status' = [status EXCEPT ![t] = "Cancelled"]
    /\ aborted' = [aborted EXCEPT ![t] = handle[t]]
    /\ cancelling' = cancelling \cup {t}
    /\ UNCHANGED <<task, handle, told, busVars>>

CancelNotify(t) ==
    /\ t \in cancelling /\ Tell(t, "Cancelled")
    /\ cancelling' = cancelling \ {t}
    /\ UNCHANGED <<task, status, handle, aborted>>
=============================================================================
