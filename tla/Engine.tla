------------------------------- MODULE Engine -------------------------------
(***************************************************************************)
(* One session of the engine: the directive pump, the turns it runs one    *)
(* after the other, the frontend that interrupts them and answers their    *)
(* requests, and the background tasks that outlive them.                   *)
(*                                                                         *)
(* A turn is AppSession::run_turn_via_bus around AgentLoop::run_loop: each *)
(* iteration calls the provider and acts on its response.  Of a response   *)
(* only the kind of decision is kept; of an answer to an approval nothing, *)
(* as tools may end a turn or let it go on whatever the answer was.        *)
(***************************************************************************)
EXTENDS BackgroundTasks

CONSTANTS
    HardMax,         \* hard_max_iterations
    MaxRateLimits,   \* MAX_CONSECUTIVE_RATE_LIMIT_ERRORS
    MaxStalls,       \* MAX_CONSECUTIVE_STREAM_STALLS
    MaxMessages      \* bound on the messages of the user

ASSUME EngineAssumption ==
    /\ HardMax \in Nat \ {0} /\ MaxRateLimits \in Nat \ {0} /\ MaxStalls \in Nat
    /\ MaxMessages \in Nat

VARIABLES
    streaming,   \* use_streaming
    turn,        \* the turn of the pump, or the last one
    slot,        \* the turn whose loop is in interrupt_slot, 0 for none
    token,       \* the turn whose token is registered with the bus, 0 for none
    sent         \* messages submitted by the user

vars == <<busVars, taskVars, streaming, turn, slot, token, sent>>

NoTurn == [pc |-> "idle", number |-> 0, iterations |-> 0, limits |-> 0, stalls |-> 0,
           flag |-> FALSE, cancelled |-> FALSE, end |-> "none", yields |-> {},
           kept |-> FALSE, calls |-> 0, late |-> 0]

Begun(n) == [NoTurn EXCEPT !.pc = "build", !.number = n]

\* How run_loop ends: with a result that has no error; with one that has an
\* error; or with Err, and then without a result.
Ends == {"answered", "paused", "limited", "spent", "aborted", "failed", "panicked"}

Places == {"idle", "build", "slotted", "loop", "infer", "call", "retry", "recall",
           "tools", "gate", "delegate", "handle", "done", "lost"}

TypeOK ==
    /\ BusTypeOK /\ TasksTypeOK
    /\ streaming \in BOOLEAN
    /\ turn \in [pc : Places, number : Nat, iterations : 0..HardMax,
                 limits : 0..MaxRateLimits, stalls : 0..(MaxStalls + 1),
                 flag : BOOLEAN, cancelled : BOOLEAN, end : Ends \cup {"none"},
                 yields : SUBSET {"complete", "error"}, kept : BOOLEAN,
                 calls : Nat, late : Nat]
    /\ slot \in 0..turn.number /\ token \in 0..turn.number
    /\ sent \in 0..MaxMessages

Init ==
    /\ BusInit /\ TasksInit
    /\ streaming \in BOOLEAN
    /\ turn = NoTurn /\ slot = 0 /\ token = 0 /\ sent = 0

(***************************************************************************)
(* The frontend.                                                           *)
(***************************************************************************)
Send ==
    /\ sent < MaxMessages
    /\ Submit([kind |-> "user", task |-> Turn]) /\ sent' = sent + 1
    /\ UNCHANGED <<taskVars, streaming, turn, slot, token>>

SendShutdown ==
    /\ \A i \in DOMAIN queue : queue[i] # Shutdown
    /\ Submit(Shutdown)
    /\ UNCHANGED <<taskVars, streaming, turn, slot, token, sent>>

\* Directive::Interrupt: cancels the registered token.  Before the turn has
\* registered its own this is the token of an earlier turn.  What a token
\* does to the background tasks of its turn is left to their outcome.
InLoop == turn.pc \notin {"idle", "build", "slotted", "done", "lost"}

Interrupt ==
    /\ InLoop /\ token = turn.number
    /\ turn' = [turn EXCEPT !.cancelled = TRUE]
    /\ UNCHANGED <<busVars, taskVars, streaming, slot, token, sent>>

\* request_interrupt of the loop in the slot.
RequestInterrupt ==
    /\ (InLoop \/ turn.pc = "slotted") /\ slot = turn.number
    /\ turn' = [turn EXCEPT !.cancelled = TRUE, !.flag = TRUE]
    /\ UNCHANGED <<busVars, taskVars, streaming, slot, token, sent>>

Answer == /\ \E id \in 0..MaxAsks : Approve(id)
          /\ UNCHANGED <<taskVars, streaming, turn, slot, token, sent>>

(***************************************************************************)
(* The pump, and the frame of a turn: TurnStart, the slot, the token.      *)
(***************************************************************************)
Idle == turn.pc = "idle" /\ ~closed

Pump ==
    /\ Idle /\ Take
    /\ Head(queue) # Shutdown
    /\ turn' = Begun(turn.number + 1)
    /\ UNCHANGED <<taskVars, streaming, slot, token, sent>>

Stop ==
    /\ Idle /\ queue # <<>> /\ Head(queue) = Shutdown
    /\ Close
    /\ UNCHANGED <<taskVars, streaming, turn, slot, token, sent>>

FillSlot ==
    /\ turn.pc = "build"
    /\ slot' = turn.number /\ turn' = [turn EXCEPT !.pc = "slotted"]
    /\ UNCHANGED <<busVars, taskVars, streaming, token, sent>>

RegisterInterrupt ==
    /\ turn.pc = "slotted"
    /\ token' = turn.number /\ turn' = [turn EXCEPT !.pc = "loop"]
    /\ UNCHANGED <<busVars, taskVars, streaming, slot, sent>>

\* A step of the turn alone.
Step(t) == turn' = t /\ UNCHANGED <<busVars, taskVars, streaming, slot, token, sent>>

\* The loop returns, and its own state is gone.
Leave(t, pc, end, yields) ==
    [NoTurn EXCEPT !.pc = pc, !.number = t.number, !.end = end, !.yields = yields]

\* on_complete, and a result.
Complete(t, end) == Leave(t, "done", end, {"complete"})

\* An Err that leaves the loop at once (the ? operator).
Lose(t, end) == Leave(t, "lost", end, {})

\* Faulty variant: the error is raised again before the merge.
ReturnErrorFirst ==
    /\ turn.pc = "done"
    /\ turn' = [turn EXCEPT !.pc = "idle", !.kept = (turn.end # "aborted"),
                            !.yields = IF turn.end = "aborted" THEN @ \cup {"error"} ELSE @]
    /\ slot' = 0
    /\ UNCHANGED <<busVars, taskVars, streaming, token, sent>>

\* run_agent_with_content after the loop: clears the slot, merges and saves
\* the conversation, and then raises the error of the result again, or that
\* of the reflection which ends the run.
EndRun ==
    /\ turn.pc = "done"
    /\ \E failed \in (IF turn.end = "aborted" THEN {TRUE} ELSE BOOLEAN) :
          turn' = [turn EXCEPT !.pc = "idle", !.kept = TRUE,
                               !.yields = IF failed THEN @ \cup {"error"} ELSE @]
    /\ slot' = 0
    /\ UNCHANGED <<busVars, taskVars, streaming, token, sent>>

\* The same after an Err: there is nothing to merge.
EndRunErr ==
    /\ turn.pc = "lost"
    /\ turn' = [turn EXCEPT !.pc = "idle", !.yields = @ \cup {"error"}]
    /\ slot' = 0
    /\ UNCHANGED <<busVars, taskVars, streaming, token, sent>>

\* Where a panic may strike: everywhere but in the wait for an answer and in
\* the two statements that store a handle or pass an Err on.
Panicking == Places \ {"idle", "gate", "handle", "lost"}

\* Faulty variant: nothing catches the panic of a turn.
PumpDies ==
    /\ turn.pc \in Panicking
    /\ Step(Leave(turn, "idle", "panicked", turn.yields))

\* The pump catches a panic anywhere in the turn.  After TurnComplete, in the
\* maintenance before the merge, the slot may have been cleared and the
\* conversation is lost; a panic after the merge is an error of EndRun.
CatchPanic ==
    /\ turn.pc \in Panicking
    /\ turn' = Leave(turn, "idle", "panicked", turn.yields \cup {"error"})
    /\ slot' \in IF turn.pc = "done" THEN {0, slot} ELSE {slot}
    /\ UNCHANGED <<busVars, taskVars, streaming, token, sent>>

(***************************************************************************)
(* run_loop.                                                               *)
(***************************************************************************)
\* The head of an iteration.  An open circuit breaker uses it up.
Iterate ==
    /\ turn.pc = "loop" /\ turn.iterations < HardMax
    /\ \/ turn.flag  /\ Step(Complete(turn, "paused"))
       \/ ~turn.flag /\ \E t \in {[turn EXCEPT !.iterations = @ + 1]} :
            \/ Step([t EXCEPT !.pc = "infer"])
            \/ Step(t)                       \* the breaker of the provider is open
            \/ Step(Lose(t, "failed"))       \* assembly or compression of the context

Spend ==
    /\ turn.pc = "loop" /\ turn.iterations >= HardMax
    /\ Step(Complete(turn, "spent"))

\* Faulty variant: the select of the call is not biased to the cancellation.
CallAnyway ==
    /\ turn.pc = "infer"
    /\ Step([turn EXCEPT !.pc = "call", !.calls = @ + 1])

\* The select is biased: with the token cancelled no call begins.
Infer ==
    /\ turn.pc = "infer"
    /\ Step(IF turn.cancelled THEN Complete(turn, "aborted")
                              ELSE [turn EXCEPT !.pc = "call", !.calls = @ + 1])

\* What the response asks for: a final answer, text that is empty, another
\* attempt as the answer fails its schema, tools of which one may need an
\* approval, or background tasks.
Decide(t, again) ==
    LET late == [t EXCEPT !.late = IF t.cancelled THEN @ + 1 ELSE @]
    IN  \/ Step(Complete(t, "answered"))
        \/ ~again /\ Step([t EXCEPT !.pc = "retry"])
        \/ Step([late EXCEPT !.pc = "loop"])
        \/ Step([late EXCEPT !.pc = "tools"])
        \/ /\ Ask(Turn) /\ turn' = [late EXCEPT !.pc = "gate"]
           /\ UNCHANGED <<taskVars, streaming, slot, token, sent>>
        \/ Step([late EXCEPT !.pc = "delegate"])

\* A cancelled stream ends with the part that was received as the response;
\* a request without a stream, or before its first byte, is an error.
CallCancelled ==
    /\ turn.pc = "call" /\ turn.cancelled
    /\ \/ streaming /\ Decide([turn EXCEPT !.limits = 0, !.stalls = 0], FALSE)
       \/ Step(Complete(turn, "aborted"))

Respond ==
    /\ turn.pc = "call" /\ ~turn.cancelled
    /\ Decide([turn EXCEPT !.limits = 0, !.stalls = 0], FALSE)

\* The same iteration again, which is not counted twice.
Again(t) == [t EXCEPT !.pc = "loop", !.iterations = @ - 1]

Limited ==
    /\ turn.pc = "call" /\ ~turn.cancelled
    /\ LET t == [turn EXCEPT !.limits = @ + 1]
       IN  Step(IF t.limits >= MaxRateLimits THEN Complete(t, "limited") ELSE Again(t))

\* Faulty variant: a stall forgets the limits before it.
StalledAfresh ==
    /\ turn.pc = "call" /\ streaming /\ ~turn.cancelled
    /\ LET t == [turn EXCEPT !.stalls = @ + 1, !.limits = 0]
       IN  Step(IF t.stalls > MaxStalls THEN Complete(t, "aborted") ELSE Again(t))

Stalled ==
    /\ turn.pc = "call" /\ streaming /\ ~turn.cancelled
    /\ LET t == [turn EXCEPT !.stalls = @ + 1]
       IN  Step(IF t.stalls > MaxStalls THEN Complete(t, "aborted") ELSE Again(t))

CallFails ==
    /\ turn.pc = "call" /\ ~turn.cancelled
    /\ Step(Complete(turn, "aborted"))

\* An empty answer is asked for once more.  Without streaming this call is
\* not part of a select; every error of it leaves the loop.
Retry ==
    /\ turn.pc = "retry"
    /\ Step(IF streaming /\ turn.cancelled THEN Lose(turn, "aborted")
                                           ELSE [turn EXCEPT !.pc = "recall", !.calls = @ + 1])

RetryResponds == turn.pc = "recall" /\ Decide(turn, TRUE)

RetryFails == turn.pc = "recall" /\ Step(Lose(turn, "aborted"))

\* Neither the wait for an approval nor a tool looks at the token.
Approved ==
    /\ turn.pc = "gate" /\ asks[Turn].stage = "answered"
    /\ Forget(Turn) /\ turn' = [turn EXCEPT !.pc = "tools"]
    /\ UNCHANGED <<taskVars, streaming, slot, token, sent>>

\* The results of tools, errors among them, go into the conversation; a tool
\* that was denied completes the turn.  An Err of a blocking delegation, of
\* error recovery or of a switch of paradigm leaves the loop.
RunTools ==
    /\ turn.pc = "tools"
    /\ \/ Step([turn EXCEPT !.pc = "loop"])
       \/ Step(Complete(turn, "answered"))
       \/ Step(Lose(turn, "failed"))

Delegate ==
    /\ turn.pc = "delegate"
    /\ \/ /\ \E t \in Tasks : SubmitTask(t, turn.number)
          /\ turn' = [turn EXCEPT !.pc = "handle"]
          /\ UNCHANGED <<busVars, streaming, slot, token, sent>>
       \/ Step([turn EXCEPT !.pc = "loop"])

StoreHandle ==
    /\ turn.pc = "handle"
    /\ \E t \in Tasks \ Unused : ~handle[t] /\ SetHandle(t)
    /\ turn' = [turn EXCEPT !.pc = "delegate"]
    /\ UNCHANGED <<busVars, streaming, slot, token, sent>>

LoopStep ==
    \/ Iterate \/ Spend \/ Infer \/ CallCancelled \/ Respond \/ Limited \/ Stalled
    \/ CallFails \/ Retry \/ RetryResponds \/ RetryFails \/ Approved \/ RunTools
    \/ Delegate \/ StoreHandle

TurnStep == FillSlot \/ RegisterInterrupt \/ LoopStep \/ EndRun \/ EndRunErr \/ CatchPanic

PumpStep == Pump \/ Stop

BackgroundStep(t) ==
    \/ TaskStep(t) /\ UNCHANGED <<streaming, turn, slot, token, sent>>
    \/ CancelNotify(t) /\ UNCHANGED <<streaming, turn, slot, token, sent>>

CancelTask(t) == Cancel(t) /\ UNCHANGED <<streaming, turn, slot, token, sent>>

BusStep(a) == AskStep(a) /\ UNCHANGED <<taskVars, streaming, turn, slot, token, sent>>

FrontendStep == Send \/ SendShutdown \/ Interrupt \/ RequestInterrupt \/ Answer

Next ==
    \/ FrontendStep \/ PumpStep \/ TurnStep
    \/ \E t \in Tasks : BackgroundStep(t) \/ CancelTask(t)
    \/ \E a \in Askers : BusStep(a)

Spec == Init /\ [][Next]_vars

\* Every future the runtime has is polled.  Nothing is assumed of the user.
FairSpec ==
    /\ Spec
    /\ WF_vars(PumpStep) /\ WF_vars(TurnStep)
    /\ \A t \in Tasks : /\ WF_vars(TaskStep(t) /\ UNCHANGED <<streaming, turn, slot, token, sent>>)
                        /\ WF_vars(CancelNotify(t) /\ UNCHANGED <<streaming, turn, slot, token, sent>>)
    /\ \A a \in Askers : WF_vars(BusStep(a))

(***************************************************************************)
(* Properties.                                                             *)
(***************************************************************************)
\* A parent is told of a task once, and what it is told is the status that
\* the registry keeps: a cancellation that comes between the end of the
\* sub-agent and the write of its status wins over both (cancel,
\* submit_delegate).
ToldOnceAndTrue ==
    \A t \in Tasks : told[t] \in {<<>>, <<status[t]>>}

\* The answer to a request that a frontend has seen finds its requester:
\* the oneshot is registered before the broadcast (request_approval).
AnnouncedIsAnswerable ==
    \A a \in Askers :
        asks[a].stage \in {"insert", "announce", "wait"} /\ asks[a].id \in announced
            => asks[a].id \in pending

\* After its token is cancelled a turn acts on one more decision at most,
\* with or without streaming (the selects of run_loop and of
\* run_streaming_iteration_async).  That it then ends soon is not said: the
\* part of a stream that was received is acted on, and neither a tool that
\* runs nor the wait for an approval looks at the token.
ActsOnceAfterInterrupt == turn.late <= 1

\* A turn calls its provider a bounded number of times, however rate limits,
\* stalls and empty responses follow each other (run_loop).
CallsBounded == turn.calls <= HardMax * ((MaxRateLimits - 1) + MaxStalls + 2)

\* The messages of a turn that was reported complete are in the conversation
\* of the session when the next turn begins (run_agent_with_content), unless
\* the turn panicked between the report and the merge, in the reflection or
\* the decay of memories: such a turn is reported complete and then failed,
\* and its messages are lost.
CompletedIsKept ==
    turn.pc = "idle" /\ "complete" \in turn.yields /\ turn.end # "panicked" => turn.kept

\* "A failed turn must not silently discard its history" (run_loop): also
\* the history of a turn whose call failed or was interrupted is kept.
AbortedIsKept == turn.pc = "idle" /\ turn.end = "aborted" => turn.kept

\* Every turn ends with a TurnComplete or an Error for the frontend, or waits
\* for an approval (spawn_directive_pump).
TurnsSettle ==
    turn.pc # "idle" ~> \/ turn.pc = "idle" /\ turn.yields # {}
                        \/ turn.pc = "gate"

\* The parent is told of every task, unless the pump has stopped, the task
\* panicked, or somebody waits for an approval (submit_delegate, cancel).
Unanswered == \E a \in Askers : asks[a].stage = "wait"

TasksAreTold ==
    \A t \in Tasks :
        status[t] # "none" ~> \/ told[t] # <<>> \/ closed \/ Unanswered
                              \/ task[t].pc = "panicked"
=============================================================================
