----------------------------- MODULE EngineBus ------------------------------
(***************************************************************************)
(* InProcessBus: the channel of directives to the directive pump, and the  *)
(* approvals that are asked for by the engine and answered by a frontend.  *)
(*                                                                         *)
(* The channel is a bounded tokio mpsc: a sender waits for room, and gets  *)
(* BusError::Closed once the pump has dropped the receiver.  Approve and   *)
(* Interrupt never enter it.  Whoever asks for an approval puts the sender *)
(* of its oneshot into pending_approvals, broadcasts the request, waits.   *)
(***************************************************************************)
EXTENDS Naturals, Sequences

CONSTANTS
    Capacity,    \* DIRECTIVE_CAPACITY
    MaxTasks,    \* bound on background tasks
    MaxAsks      \* bound on requests for approval

Tasks == 1..MaxTasks                 \* in the order of their submission
Turn == 0                            \* the running turn, as one who asks
Askers == {Turn} \cup Tasks

ASSUME BusAssumption ==
    /\ Capacity \in Nat \ {0} /\ MaxTasks \in Nat /\ MaxAsks \in Nat

VARIABLES
    queue,       \* the directives in the channel
    closed,      \* the receiver is dropped
    nextRequest, \* next_request_id
    pending,     \* keys of pending_approvals
    announced,   \* requests broadcast as ApprovalRequest
    asks         \* per asker: the stage of request_approval it is in

busVars == <<queue, closed, nextRequest, pending, announced, asks>>

Message  == [kind : {"user", "result"}, task : Askers]
Shutdown == [kind |-> "shutdown", task |-> Turn]

Stages == {"none", "insert", "announce", "wait", "answered"}

NotAsking == [stage |-> "none", id |-> 0]

BusTypeOK ==
    /\ queue \in Seq(Message \cup {Shutdown}) /\ Len(queue) <= Capacity
    /\ closed \in BOOLEAN
    /\ nextRequest \in 0..MaxAsks
    /\ pending \subseteq 0..MaxAsks /\ announced \subseteq 0..MaxAsks
    /\ asks \in [Askers -> [stage : Stages, id : 0..MaxAsks]]

BusInit ==
    /\ queue = <<>> /\ closed = FALSE
    /\ nextRequest = 0 /\ pending = {} /\ announced = {}
    /\ asks = [a \in Askers |-> NotAsking]

(***************************************************************************)
(* submit of a directive that is forwarded.                                *)
(***************************************************************************)
HasRoom == ~closed /\ Len(queue) < Capacity

Submit(d) ==
    /\ HasRoom
    /\ queue' = Append(queue, d)
    /\ UNCHANGED <<closed, nextRequest, pending, announced, asks>>

Take ==
    /\ queue # <<>>
    /\ queue' = Tail(queue)
    /\ UNCHANGED <<closed, nextRequest, pending, announced, asks>>

\* The pump ends; what is still in the channel is dropped with the receiver.
Close ==
    /\ queue' = <<>> /\ closed' = TRUE
    /\ UNCHANGED <<nextRequest, pending, announced, asks>>

(***************************************************************************)
(* request_approval.                                                       *)
(***************************************************************************)
CanAsk == nextRequest < MaxAsks

\* alloc_request_id
Ask(a) ==
    /\ CanAsk
    /\ nextRequest' = nextRequest + 1
    /\ asks' = [asks EXCEPT ![a] = [stage |-> "insert", id |-> nextRequest]]
    /\ UNCHANGED <<queue, closed, pending, announced>>

Advance(a, stage) == asks' = [asks EXCEPT ![a].stage = stage]

InsertPending(a) ==
    /\ asks[a].stage = "insert"
    /\ pending' = pending \cup {asks[a].id}
    /\ Advance(a, "announce")
    /\ UNCHANGED <<queue, closed, nextRequest, announced>>

Announce(a) ==
    /\ asks[a].stage = "announce"
    /\ announced' = announced \cup {asks[a].id}
    /\ Advance(a, "wait")
    /\ UNCHANGED <<queue, closed, nextRequest, pending>>

Answers(a, id) == asks[a].stage = "wait" /\ asks[a].id = id

\* Directive::Approve, or resolve_approval.  A frontend knows the ids that
\* were broadcast.  An id that is not pending is refused (NotAcceptable); a
\* send to a requester that is gone is ignored.
Approve(id) ==
    /\ id \in announced /\ id \in pending
    /\ pending' = pending \ {id}
    /\ asks' = [a \in Askers |-> IF Answers(a, id) THEN [asks[a] EXCEPT !.stage = "answered"]
                                                   ELSE asks[a]]
    /\ UNCHANGED <<queue, closed, nextRequest, announced>>

\* The requester goes on with the answer, or its future is dropped: the
\* entry of a request that was not answered stays in pending_approvals.
Forget(a) ==
    /\ asks' = [asks EXCEPT ![a] = NotAsking]
    /\ UNCHANGED <<queue, closed, nextRequest, pending, announced>>

\* Faulty variant: the request is broadcast before its oneshot is registered.
BroadcastFirst(a) ==
    \/ /\ asks[a].stage = "insert"
       /\ announced' = announced \cup {asks[a].id}
       /\ Advance(a, "announce")
       /\ UNCHANGED <<queue, closed, nextRequest, pending>>
    \/ /\ asks[a].stage = "announce"
       /\ pending' = pending \cup {asks[a].id}
       /\ Advance(a, "wait")
       /\ UNCHANGED <<queue, closed, nextRequest, announced>>

AskStep(a) == InsertPending(a) \/ Announce(a)
=============================================================================
