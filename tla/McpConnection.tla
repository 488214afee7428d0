--------------------------- MODULE McpConnection ----------------------------
(***************************************************************************)
(* McpConnection over stdio: the pipes to the subprocess of an MCP server, *)
(* and the JSON-RPC calls that take turns on them.                         *)
(*                                                                         *)
(* A call holds the mutex of its connection while it writes its request    *)
(* and reads frames until the response with its id.  In between it answers *)
(* the requests of the server.  There is no timeout below the one of the   *)
(* tool executor, which drops the future of the call wherever it is; the   *)
(* parser is a local of that future, so what it has read is lost with it.  *)
(*                                                                         *)
(* A frame is written to the pipe as two pieces, as a read may end in the  *)
(* middle of it.  A parser whose input begins with the second piece finds  *)
(* no Content-Length line, and never yields a frame.  Requests are shorter *)
(* than the buffer of the writer, so a dropped call leaves no half of one. *)
(* The two rounds of the handshake are one, and do not wait for a mutex.   *)
(***************************************************************************)
EXTENDS Naturals, Sequences, FiniteSets

CONSTANTS
    Tasks,       \* futures that use the connections
    MaxConns,    \* bound on subprocesses started
    MaxChats,    \* bound on requests and notifications of the servers
    MaxDeaths    \* bound on subprocesses that die by themselves

ASSUME ConnectionAssumption ==
    MaxConns \in Nat /\ MaxChats \in Nat /\ MaxDeaths \in Nat

Conns == 1..MaxConns       \* in the order they are started
None  == 0

VARIABLES
    up,        \* the subprocess is alive
    open,      \* stdin_writer and stdout_reader are set
    nextId,    \* next_id
    stdin,     \* messages in the pipe to the server
    stdout,    \* pieces of frames in the pipe from it
    server,    \* what it has to answer, and the answer it waits for itself
    task,      \* per task: operation, place, connection, request, parser
    requests,  \* number of requests sent, on all connections
    chats,
    died,      \* subprocesses that died by themselves
    answers    \* history: <<request, request it got the answer of>>

pipes    == <<stdin, stdout>>
connVars == <<up, open, nextId, pipes, server, requests, chats, died, answers>>

Places == {"idle", "lock", "read", "reply",
           "check", "connect", "bind", "remove", "await", "snapshot", "register"}
Working == {"lock", "read", "reply", "bind", "await", "register"}
Ops == {"none", "call", "ensure", "connect", "reconnect", "disconnect", "reload"}

Entry == [id : Nat, call : Nat]
\* An unread request has an id that is not a number (u64).
Frame == [kind : {"response", "ask", "unread", "note"}, id : Nat, call : Nat]
Piece == [of : Frame, part : {"head", "tail"}]
Input == [kind : {"request", "reply"}, id : Nat, call : Nat]
Row   == [op : Ops, pc : Places, c : Conns \cup {None}, id : Nat, call : Nat, buf : Seq(Piece)]

IdleTask == [op |-> "none", pc |-> "idle", c |-> None, id |-> 0, call |-> 0, buf |-> <<>>]

HasFrame(buf) == Len(buf) >= 2 /\ buf[1].part = "head"

\* A task that is at work has a connection, one that replies the request.
RowOK(r) ==
    /\ r.pc \in Working => r.c \in Conns
    /\ r.pc = "reply" => HasFrame(r.buf)

ConnTypeOK ==
    /\ up \in [Conns -> BOOLEAN] /\ open \in [Conns -> BOOLEAN]
    /\ nextId \in [Conns -> Nat \ {0}] /\ requests \in Nat
    /\ stdin \in [Conns -> Seq(Input)] /\ stdout \in [Conns -> Seq(Piece)]
    /\ server \in [Conns -> [todo : SUBSET Entry, asked : Nat]]
    /\ task \in [Tasks -> Row]
    /\ \A t \in Tasks : RowOK(task[t])
    /\ chats \in 0..MaxChats /\ died \subseteq Conns
    /\ answers \subseteq Nat \X Nat

ConnInit ==
    /\ up = [c \in Conns |-> FALSE] /\ open = [c \in Conns |-> FALSE]
    /\ nextId = [c \in Conns |-> 1] /\ requests = 0
    /\ stdin = [c \in Conns |-> <<>>] /\ stdout = [c \in Conns |-> <<>>]
    /\ server = [c \in Conns |-> [todo |-> {}, asked |-> 0]]
    /\ task = [t \in Tasks |-> IdleTask]
    /\ chats = 0 /\ died = {} /\ answers = {}

Goto(t, pc) == task' = [task EXCEPT ![t].pc = pc]
End(t)      == task' = [task EXCEPT ![t] = IdleTask]

\* The guard of the connection's mutex is held from the write of the request
\* to the end of the call, and while the connection is shut down.
Holding(t) == task[t].pc \in {"read", "reply"}
Free(c)    == \A t \in Tasks : ~(task[t].c = c /\ Holding(t))

(***************************************************************************)
(* The client.                                                             *)
(***************************************************************************)
\* Allocate an id, write the request, begin to read.
Send(t, c) ==
    /\ requests' = requests + 1
    /\ nextId' = [nextId EXCEPT ![c] = @ + 1]
    /\ stdin' = [stdin EXCEPT ![c] = Append(@, [kind |-> "request", id |-> nextId[c], call |-> requests + 1])]
    /\ task' = [task EXCEPT ![t] = [@ EXCEPT !.pc = "read", !.c = c, !.id = nextId[c],
                                             !.call = requests + 1]]

\* On a connection that was shut down the call returns a failure, and the
\* write to a subprocess that has died is an error; both use up an id.
CallTool(t) ==
    LET c == task[t].c IN
    /\ task[t].pc = "lock" /\ Free(c)
    /\ \/ /\ open[c] /\ up[c] /\ Send(t, c)
       \/ /\ ~(open[c] /\ up[c]) /\ End(t)
          /\ nextId' = [nextId EXCEPT ![c] = @ + 1]
          /\ UNCHANGED <<stdin, requests>>
    /\ UNCHANGED <<up, open, stdout, server, chats, died, answers>>

Rest(t)       == SubSeq(task[t].buf, 3, Len(task[t].buf))
Reading(t)    == task[t].pc = "read"

\* A read returns some of what is in the pipe, but nothing is read before
\* the frames of the last read are dealt with.
Receive(t) ==
    LET c == task[t].c IN
    /\ Reading(t) /\ ~HasFrame(task[t].buf)
    /\ \E n \in 1..Len(stdout[c]) :
          /\ task' = [task EXCEPT ![t].buf = @ \o SubSeq(stdout[c], 1, n)]
          /\ stdout' = [stdout EXCEPT ![c] = SubSeq(@, n + 1, Len(@))]
    /\ UNCHANGED <<up, open, nextId, stdin, server, requests, chats, died, answers>>

\* Faulty variant: a read of nothing is tried again.
ReadAgain(t) == Reading(t) /\ UNCHANGED <<task, connVars>>

\* The subprocess has closed its end: an error.
EndOfFile(t) ==
    /\ Reading(t) /\ ~HasFrame(task[t].buf)
    /\ stdout[task[t].c] = <<>> /\ ~up[task[t].c]
    /\ End(t) /\ UNCHANGED connVars

\* Faulty variant: the next response is taken for the answer.
IsAnyAnswer(f, t) == f.kind = "response"

IsAnswer(f, t) == f.kind = "response" /\ f.id = task[t].id

\* The call returns, and the parser goes with what else it has read.  A
\* handshake goes on to bind the connection, unless the response is an error.
Answered(t) ==
    LET f == task[t].buf[1].of IN
    /\ Reading(t) /\ HasFrame(task[t].buf) /\ IsAnswer(f, t)
    /\ answers' = answers \cup {<<task[t].call, f.call>>}
    /\ \/ End(t)
       \/ /\ task[t].op # "call"
          /\ task' = [task EXCEPT ![t] = [@ EXCEPT !.pc = "bind", !.buf = <<>>]]
    /\ UNCHANGED <<up, open, nextId, pipes, server, requests, chats, died>>

\* Responses to requests of dropped calls, notifications, and requests whose
\* id is not a number, which are taken for notifications.
Skip(t) ==
    LET f == task[t].buf[1].of IN
    /\ Reading(t) /\ HasFrame(task[t].buf)
    /\ ~IsAnswer(f, t) /\ f.kind # "ask"
    /\ task' = [task EXCEPT ![t].buf = Rest(t)]
    /\ UNCHANGED connVars

Asked(t) ==
    LET f == task[t].buf[1].of IN
    Reading(t) /\ HasFrame(task[t].buf) /\ f.kind = "ask" /\ ~IsAnswer(f, t)

\* An elicitation is taken to the reviewer, and waits for the user.
HandleServerRequest(t) == Asked(t) /\ Goto(t, "reply") /\ UNCHANGED connVars

\* The reply is sent; an error of that is only logged.
SendReply(t) ==
    LET c == task[t].c
        f == task[t].buf[1].of
    IN
    /\ stdin' = IF up[c] THEN [stdin EXCEPT ![c] = Append(@, [kind |-> "reply", id |-> f.id, call |-> 0])]
                         ELSE stdin
    /\ task' = [task EXCEPT ![t] = [@ EXCEPT !.pc = "read", !.buf = Rest(t)]]
    /\ UNCHANGED <<up, open, nextId, stdout, server, requests, chats, died, answers>>

\* Without a reviewer an elicitation is declined at once, and so is every
\* other request.
Refuse(t) == Asked(t) /\ SendReply(t)

Reply(t) == task[t].pc = "reply" /\ SendReply(t)

(***************************************************************************)
(* The server.  It answers the requests in any order.  While it serves one *)
(* it may send a request of its own, and then answers that one only after  *)
(* the reply.  The ids of its requests are its own: they may be equal to   *)
(* those of the client, or no numbers; then the reply never comes.         *)
(***************************************************************************)
ServerUnchanged == UNCHANGED <<open, nextId, task, requests, answers>>

Write(c, f) ==
    stdout' = [stdout EXCEPT ![c] = @ \o <<[of |-> f, part |-> "head"], [of |-> f, part |-> "tail"]>>]

TakeMessage(c) ==
    /\ up[c] /\ stdin[c] # <<>>
    /\ stdin' = [stdin EXCEPT ![c] = Tail(@)]
    /\ LET m == Head(stdin[c]) IN
       server' = IF m.kind = "request"
                 THEN [server EXCEPT ![c].todo = @ \cup {[id |-> m.id, call |-> m.call]}]
                 ELSE [server EXCEPT ![c].asked = IF m.id = @ THEN 0 ELSE @]
    /\ UNCHANGED <<up, stdout, chats, died>> /\ ServerUnchanged

Answer(c) ==
    /\ up[c]
    /\ \E e \in server[c].todo :
          /\ e.id # server[c].asked
          /\ Write(c, [kind |-> "response", id |-> e.id, call |-> e.call])
          /\ server' = [server EXCEPT ![c].todo = @ \ {e}]
    /\ UNCHANGED <<up, stdin, chats, died>> /\ ServerUnchanged

Ask(c) ==
    /\ up[c] /\ chats < MaxChats /\ chats' = chats + 1
    /\ server[c].asked = 0
    /\ \E e \in server[c].todo, kind \in {"ask", "unread"} :
          /\ Write(c, [kind |-> kind, id |-> e.id, call |-> 0])
          /\ server' = [server EXCEPT ![c].asked = e.id]
    /\ UNCHANGED <<up, stdin, died>> /\ ServerUnchanged

Notify(c) ==
    /\ up[c] /\ chats < MaxChats /\ chats' = chats + 1
    /\ Write(c, [kind |-> "note", id |-> 0, call |-> 0])
    /\ UNCHANGED <<up, stdin, server, died>> /\ ServerUnchanged

Die(c) ==
    /\ up[c] /\ Cardinality(died) < MaxDeaths /\ died' = died \cup {c}
    /\ up' = [up EXCEPT ![c] = FALSE]
    /\ UNCHANGED <<pipes, server, chats>> /\ ServerUnchanged

ClientStep(t) ==
    \/ CallTool(t) \/ Receive(t) \/ EndOfFile(t) \/ Answered(t) \/ Skip(t)
    \/ HandleServerRequest(t) \/ Refuse(t) \/ Reply(t)

ServerStep(c) == TakeMessage(c) \/ Answer(c)
=============================================================================
