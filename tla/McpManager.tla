----------------------------- MODULE McpManager -----------------------------
(***************************************************************************)
(* McpServerManager and McpPluginRegistry: which connection is bound to    *)
(* the name of a server, and which one the tools in the ToolRegistry call. *)
(*                                                                         *)
(* One server.  The bindings are behind a lock that is held for the change *)
(* of the map only: the handshake of a connect comes before it, and the    *)
(* shutdown of a disconnect after it.  The tools of a new connection are   *)
(* registered by a reload, from a list taken before.                       *)
(***************************************************************************)
EXTENDS McpConnection

CONSTANTS
    MaxOps,      \* bound on operations begun
    MaxDrops     \* bound on futures dropped by a timeout or an abort

ASSUME ManagerAssumption == MaxOps \in Nat /\ MaxDrops \in Nat

VARIABLES
    started,     \* the last connection spawned
    bound,       \* the connection in bindings, if any
    registered,  \* the connection of the wrappers in the ToolRegistry
    ops, drops

managerVars == <<started, bound, registered, ops, drops>>
vars == <<task, connVars, managerVars>>

TypeOK ==
    /\ ConnTypeOK
    /\ started \in 0..MaxConns
    /\ bound \in Conns \cup {None} /\ registered \in Conns \cup {None}
    /\ ops \in 0..MaxOps /\ drops \in 0..MaxDrops

Init ==
    /\ ConnInit
    /\ started = 0 /\ bound = None /\ registered = None
    /\ ops = 0 /\ drops = 0

(***************************************************************************)
(* Operations begin: a call of a tool of the server, the lazy-connect tool *)
(* (or the start of the app), the reload tool, and the explicit operations *)
(* of the registry: connect, which does not look at the binding,           *)
(* reconnect and disconnect.                                               *)
(***************************************************************************)
First(op) == CASE op = "call" -> "lock"
               [] op = "ensure" -> "check"
               [] op = "connect" -> "connect"
               [] op = "reload" -> "snapshot"
               [] OTHER -> "remove"

Begin(t) ==
    /\ task[t].pc = "idle" /\ ops < MaxOps /\ ops' = ops + 1
    /\ \E op \in Ops \ {"none"} :
          /\ op = "call" => registered # None
          /\ task' = [task EXCEPT ![t] = [IdleTask EXCEPT
                 !.op = op, !.pc = First(op), !.c = IF op = "call" THEN registered ELSE None]]
    /\ UNCHANGED <<connVars, started, bound, registered, drops>>

\* ensure_connected: a binding is taken as it is.
Check(t) ==
    /\ task[t].pc = "check"
    /\ Goto(t, IF bound # None THEN "snapshot" ELSE "connect")
    /\ UNCHANGED <<connVars, managerVars>>

\* connect_server_with_policy: spawn the subprocess and shake hands.  Nobody
\* else knows of the connection yet.
Connect(t) ==
    /\ task[t].pc = "connect" /\ started < MaxConns
    /\ started' = started + 1
    /\ up' = [up EXCEPT ![started + 1] = TRUE]
    /\ open' = [open EXCEPT ![started + 1] = TRUE]
    /\ Send(t, started + 1)
    /\ UNCHANGED <<stdout, server, chats, died, answers,
                   bound, registered, ops, drops>>

SpawnFails(t) ==
    /\ task[t].pc = "connect"
    /\ End(t) /\ UNCHANGED <<connVars, managerVars>>

\* The binding replaces whatever is there, a live connection too.  The
\* lazy-connect tool goes on to reload, the others return.
Bind(t) ==
    /\ task[t].pc = "bind"
    /\ bound' = task[t].c
    /\ IF task[t].op = "ensure" THEN Goto(t, "snapshot") ELSE End(t)
    /\ UNCHANGED <<connVars, started, registered, ops, drops>>

\* register_tools: the wrappers of the binding, ...
Snapshot(t) ==
    /\ task[t].pc = "snapshot"
    /\ IF bound = None THEN End(t)
       ELSE task' = [task EXCEPT ![t] = [@ EXCEPT !.pc = "register", !.c = bound]]
    /\ UNCHANGED <<connVars, managerVars>>

\* ... put into the ToolRegistry, where they replace those of the same name.
Register(t) ==
    /\ task[t].pc = "register"
    /\ registered' = task[t].c /\ End(t)
    /\ UNCHANGED <<connVars, started, bound, ops, drops>>

\* What follows the disconnect: a reconnect connects.
AfterDisconnect(t) ==
    IF task[t].op = "reconnect"
    THEN task' = [task EXCEPT ![t] = [@ EXCEPT !.pc = "connect", !.c = None]]
    ELSE End(t)

\* Faulty variant: the binding is looked up and not taken out.
RemoveNothing(t) ==
    /\ task[t].pc = "remove"
    /\ IF bound = None THEN AfterDisconnect(t)
       ELSE task' = [task EXCEPT ![t] = [@ EXCEPT !.pc = "await", !.c = bound]]
    /\ UNCHANGED <<connVars, managerVars>>

\* disconnect_server, shutdown_all: take the binding out of the map, ...
Remove(t) ==
    /\ task[t].pc = "remove"
    /\ bound' = None
    /\ IF bound = None THEN AfterDisconnect(t)
       ELSE task' = [task EXCEPT ![t] = [@ EXCEPT !.pc = "await", !.c = bound]]
    /\ UNCHANGED <<connVars, started, registered, ops, drops>>

\* Faulty variant: the shutdown does not wait for the call in flight.
ShutdownAtOnce(t) ==
    /\ task[t].pc = "await"
    /\ up' = [up EXCEPT ![task[t].c] = FALSE]
    /\ open' = [open EXCEPT ![task[t].c] = FALSE]
    /\ AfterDisconnect(t)
    /\ UNCHANGED <<nextId, pipes, server, requests, chats, died, answers, managerVars>>

\* ... wait for the mutex of the connection, kill the subprocess and close
\* the pipes.
ShutdownConnection(t) ==
    /\ task[t].pc = "await" /\ Free(task[t].c)
    /\ up' = [up EXCEPT ![task[t].c] = FALSE]
    /\ open' = [open EXCEPT ![task[t].c] = FALSE]
    /\ AfterDisconnect(t)
    /\ UNCHANGED <<nextId, pipes, server, requests, chats, died, answers, managerVars>>

\* The kill, or the wait for the exit after it, is an error: the pipes stay
\* open, a reconnect does not connect, and the binding is gone all the same.
ShutdownFails(t) ==
    /\ task[t].pc = "await" /\ Free(task[t].c)
    /\ up' \in {up, [up EXCEPT ![task[t].c] = FALSE]}
    /\ End(t)
    /\ UNCHANGED <<open, nextId, pipes, server, requests, chats, died, answers, managerVars>>

\* The timeout of the executor, or the abort of a sub-agent, drops the
\* future of a tool where it stands.
Drop(t) ==
    /\ task[t].op \in {"call", "ensure", "reload"} /\ drops < MaxDrops
    /\ drops' = drops + 1
    /\ End(t)
    /\ UNCHANGED <<connVars, started, bound, registered, ops>>

\* A connection that nothing refers to is dropped, which closes the stdin of
\* its subprocess; the server exits.
Held(c) == bound = c \/ registered = c \/ \E t \in Tasks : task[t].c = c

ServerExits(c) ==
    /\ up[c] /\ ~Held(c)
    /\ up' = [up EXCEPT ![c] = FALSE]
    /\ UNCHANGED <<task, open, nextId, pipes, server, requests, chats, died, answers, managerVars>>

TaskStep(t) ==
    \/ ClientStep(t) /\ UNCHANGED managerVars
    \/ Check(t) \/ Connect(t) \/ SpawnFails(t) \/ Bind(t) \/ Snapshot(t) \/ Register(t)
    \/ Remove(t) \/ ShutdownConnection(t) \/ ShutdownFails(t)

Environment(c) == (Ask(c) \/ Notify(c) \/ Die(c)) /\ UNCHANGED managerVars

Serving(c) == ServerStep(c) /\ UNCHANGED managerVars

Next ==
    \/ \E t \in Tasks : Begin(t) \/ TaskStep(t) \/ Drop(t)
    \/ \E c \in Conns : Serving(c) \/ Environment(c) \/ ServerExits(c)

Spec == Init /\ [][Next]_vars

\* The runtime polls every future.  Nothing is assumed of the user, who may
\* never answer an elicitation, nor of the server: it may never read, answer
\* or exit, as when it is blocked on its stderr, which nobody reads.
Polled(t) == TaskStep(t) /\ task[t].pc # "reply"

FairSpec == Spec /\ \A t \in Tasks : WF_vars(Polled(t))

(***************************************************************************)
(* Properties.                                                             *)
(***************************************************************************)
\* A call that returns has the answer to its own request, although calls
\* are dropped and leave their responses, and the requests of the server,
\* in the pipe (read_jsonrpc_response_for).
OwnAnswer == \A a \in answers : a[1] = a[2]

\* The parser of the call began in the middle of a frame: an earlier call was
\* dropped, or has returned, when it had read the frame by half.
Stuck(t) == task[t].buf # <<>> /\ task[t].buf[1].part = "tail"

\* What may keep a call for ever: the user, a server that is alive and says
\* nothing, and a parser that is out of step.
AtTheMercy(t) ==
    \/ task[t].pc = "reply"
    \/ Reading(t) /\ Stuck(t)
    \/ Reading(t) /\ ~HasFrame(task[t].buf) /\ stdout[task[t].c] = <<>> /\ up[task[t].c]

\* Nothing else keeps an operation for ever: as long as no call is left at the
\* mercy of the user, the server or its parser, every call, connect,
\* disconnect, reconnect and reload ends, however they wait for one another
\* and wherever the server dies (read_jsonrpc_response_for,
\* disconnect_server).  A call that is left so keeps its mutex, and with it
\* the disconnect that would end it.
OperationsEnd ==
    (\A t \in Tasks : []<>~AtTheMercy(t)) =>
        \A t \in Tasks : task[t].pc # "idle" ~> task[t].pc = "idle"

\* A call that has sent its request is not cut off by a disconnect, by a
\* reconnect or by another connect: it finds the subprocess gone only when
\* that died by itself (disconnect_server, shutdown).
CallsAreSpared ==
    \A t \in Tasks : Holding(t) /\ ~up[task[t].c] => task[t].c \in died

\* The binding that ensure_connected takes as it is, and reload registers,
\* never names a connection that was shut down: its pipes are open, and its
\* subprocess runs unless that died by itself, whatever connects, disconnects
\* and drops are under way (disconnect_server, connect_server_with_policy).
\* What runs beside the bound one is not said: after a kill that failed, and
\* when a connect has replaced a live binding, registered tools go on calling
\* the older subprocess.
BoundIsAlive ==
    bound # None => open[bound] /\ (up[bound] \/ bound \in died)
=============================================================================
