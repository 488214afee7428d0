----------------------------- MODULE McpProofs ------------------------------
(***************************************************************************)
(* Proofs about McpManager, for any number of tasks, subprocesses and      *)
(* operations.                                                             *)
(*                                                                         *)
(* The invariant of the pipes says of everything in them, and in the       *)
(* parsers, that it was sent under an id the connection has given out, and *)
(* that a call which waits for this id now is the one that sent it.  It is *)
(* stated as the sets the pipes are sequences over: these sets grow with   *)
(* every step, and every step writes elements of them.                     *)
(***************************************************************************)
EXTENDS McpManager, SequenceTheorems, TLAPS

LEMMA SeqGrows ==
    ASSUME NEW S, NEW T, S \subseteq T, NEW s \in Seq(S)
    PROVE  s \in Seq(T)
<1>1. \A i \in 1..Len(s) : s[i] \in T
    OBVIOUS
<1> QED  BY <1>1, SeqDef, SMT

LEMMA PiecesGrow ==
    ASSUME NEW S, NEW s \in Seq(S), NEW p \in S, NEW q \in S
    PROVE  s \o <<p, q>> \in Seq(S)
OBVIOUS

LEMMA SubSeqIn ==
    ASSUME NEW S, NEW s \in Seq(S), NEW m \in Nat, NEW n \in Nat, 1 <= m, n <= Len(s)
    PROVE  SubSeq(s, m, n) \in Seq(S)
<1>1. \A i \in m..n : s[i] \in S
    OBVIOUS
<1> QED  BY <1>1, SubSeqProperties

(***************************************************************************)
(* Types.                                                                  *)
(***************************************************************************)
LEMMA SendTypes ==
    ASSUME ConnTypeOK, NEW t \in Tasks, NEW c \in Conns, Send(t, c)
    PROVE  /\ requests' \in Nat /\ nextId' \in [Conns -> Nat \ {0}]
           /\ stdin' \in [Conns -> Seq(Input)]
           /\ task' \in [Tasks -> Row]
           /\ \A u \in Tasks : RowOK(task'[u])
<1>1. requests' \in Nat /\ nextId' \in [Conns -> Nat \ {0}]
    BY DEF ConnTypeOK, Send
<1>2. [kind |-> "request", id |-> nextId[c], call |-> requests + 1] \in Input
    BY DEF Input, ConnTypeOK
<1>3. stdin' \in [Conns -> Seq(Input)]
    BY <1>2 DEF ConnTypeOK, Send
<1>4. [task[t] EXCEPT !.pc = "read", !.c = c, !.id = nextId[c], !.call = requests + 1] \in Row
  <2>1. task[t] \in Row /\ nextId[c] \in Nat /\ requests \in Nat
      BY DEF ConnTypeOK
  <2>2. requests + 1 \in Nat /\ "read" \in Places /\ c \in Conns \cup {None}
      BY <2>1 DEF Places
  <2> DEFINE r == [task[t] EXCEPT !.pc = "read", !.c = c]
  <2>3. r \in Row
      BY <2>1, <2>2 DEF Row
  <2> HIDE DEF r
  <2>4. [r EXCEPT !.id = nextId[c], !.call = requests + 1] \in Row
      BY <2>1, <2>2, <2>3 DEF Row
  <2> QED  BY <2>4, Zenon DEF r
<1>5. task' \in [Tasks -> Row]
    BY <1>4 DEF ConnTypeOK, Send
<1>6. \A u \in Tasks : RowOK(task'[u])
    BY DEF ConnTypeOK, Send, Row, RowOK
<1> QED  BY <1>1, <1>3, <1>5, <1>6

\* What becomes of a task in a step that starts no request.
TaskTypes(r) == r \in Row /\ RowOK(r)

LEMMA IdleTyped ==
    TaskTypes(IdleTask)
BY DEF TaskTypes, RowOK, Row, IdleTask, Ops, Places, Conns, None, Working

LEMMA TaskTyped ==
    ASSUME ConnTypeOK, NEW t \in Tasks, NEW r, TaskTypes(r), task' = [task EXCEPT ![t] = r]
    PROVE  /\ task' \in [Tasks -> Row]
           /\ \A u \in Tasks : RowOK(task'[u])
BY DEF ConnTypeOK, TaskTypes

LEMMA FrameTyped ==
    ASSUME ConnTypeOK, NEW t \in Tasks, HasFrame(task[t].buf)
    PROVE  task[t].buf[1].of \in Frame /\ Rest(t) \in Seq(Piece)
<1>1. task[t].buf \in Seq(Piece) /\ Len(task[t].buf) >= 2
    BY DEF ConnTypeOK, HasFrame, Row
<1>2. task[t].buf[1] \in Piece
    BY <1>1
<1>3. Rest(t) \in Seq(Piece)
    BY <1>1, SubSeqIn DEF Rest
<1> QED  BY <1>2, <1>3 DEF Piece

LEMMA WriteTyped ==
    ASSUME ConnTypeOK, NEW c \in Conns, NEW f \in Frame, Write(c, f)
    PROVE  stdout' \in [Conns -> Seq(Piece)]
<1>1. [of |-> f, part |-> "head"] \in Piece /\ [of |-> f, part |-> "tail"] \in Piece
    BY DEF Piece
<1>2. stdout[c] \o <<[of |-> f, part |-> "head"], [of |-> f, part |-> "tail"]>> \in Seq(Piece)
    BY <1>1, PiecesGrow DEF ConnTypeOK
<1> QED  BY <1>2 DEF ConnTypeOK, Write

LEMMA ClientTypes ==
    ASSUME ConnTypeOK, NEW t \in Tasks, ClientStep(t)
    PROVE  ConnTypeOK'
<1> DEFINE c == task[t].c
           f == task[t].buf[1].of
<1>0. /\ task[t] \in Row /\ (task[t].pc \in Working => c \in Conns)
      /\ task[t].pc = "reply" => HasFrame(task[t].buf)
    BY DEF ConnTypeOK, RowOK
<1>1. CASE CallTool(t)
  <2>1. c \in Conns
      BY <1>0, <1>1 DEF CallTool, Working
  <2>2. CASE Send(t, c)
      BY <1>1, <2>1, <2>2, SendTypes DEF CallTool, ConnTypeOK
  <2>3. CASE End(t) /\ nextId' = [nextId EXCEPT ![c] = @ + 1] /\ UNCHANGED <<stdin, requests>>
    <3>1. nextId' \in [Conns -> Nat \ {0}]
        BY <2>1, <2>3 DEF ConnTypeOK
    <3> QED  BY <1>1, <2>3, <3>1, IdleTyped, TaskTyped DEF CallTool, ConnTypeOK, End
  <2> QED  BY <1>1, <2>2, <2>3 DEF CallTool
<1>2. CASE Receive(t)
  <2>1. c \in Conns
      BY <1>0, <1>2 DEF Receive, Reading, Working
  <2>2. PICK n \in 1..Len(stdout[c]) :
            /\ task' = [task EXCEPT ![t].buf = @ \o SubSeq(stdout[c], 1, n)]
            /\ stdout' = [stdout EXCEPT ![c] = SubSeq(@, n + 1, Len(@))]
      BY <1>2 DEF Receive
  <2>3. stdout[c] \in Seq(Piece)
      BY <2>1 DEF ConnTypeOK
  <2>4. SubSeq(stdout[c], 1, n) \in Seq(Piece) /\ SubSeq(stdout[c], n + 1, Len(stdout[c])) \in Seq(Piece)
      BY <2>3, SubSeqIn
  <2>5. stdout' \in [Conns -> Seq(Piece)]
      BY <2>2, <2>4 DEF ConnTypeOK
  <2>6. task[t].buf \o SubSeq(stdout[c], 1, n) \in Seq(Piece)
      BY <1>0, <2>4 DEF Row
  <2>7. TaskTypes([task[t] EXCEPT !.buf = @ \o SubSeq(stdout[c], 1, n)])
      BY <1>0, <2>6, <1>2 DEF TaskTypes, RowOK, Row, Receive, Reading
  <2>8. task' = [task EXCEPT ![t] = [task[t] EXCEPT !.buf = @ \o SubSeq(stdout[c], 1, n)]]
      BY <2>2
  <2> QED  BY <1>2, <2>5, <2>7, <2>8, TaskTyped DEF Receive, ConnTypeOK
<1>3. CASE EndOfFile(t)
    BY <1>3, IdleTyped, TaskTyped DEF EndOfFile, End, connVars, pipes, ConnTypeOK
<1>4. CASE Answered(t)
  <2>1. f \in Frame
      BY <1>4, FrameTyped DEF Answered
  <2>2. answers' \subseteq Nat \X Nat
      BY <1>0, <1>4, <2>1 DEF Answered, ConnTypeOK, Row, Frame
  <2>3. CASE End(t)
      BY <1>4, <2>2, <2>3, IdleTyped, TaskTyped DEF Answered, End, pipes, ConnTypeOK
  <2>4. CASE task' = [task EXCEPT ![t] = [@ EXCEPT !.pc = "bind", !.buf = <<>>]]
    <3>1. c \in Conns
        BY <1>0, <1>4 DEF Answered, Reading, Working
    <3>2. TaskTypes([task[t] EXCEPT !.pc = "bind", !.buf = <<>>])
        BY <1>0, <3>1, <<>> \in Seq(Piece) DEF TaskTypes, RowOK, Row, Places
    <3> QED  BY <1>4, <2>2, <2>4, <3>2, TaskTyped DEF Answered, pipes, ConnTypeOK
  <2> QED  BY <1>4, <2>3, <2>4 DEF Answered
<1>5. CASE Skip(t)
  <2>1. TaskTypes([task[t] EXCEPT !.buf = Rest(t)])
      BY <1>0, <1>5, FrameTyped DEF TaskTypes, RowOK, Row, Skip, Reading
  <2>2. task' = [task EXCEPT ![t] = [task[t] EXCEPT !.buf = Rest(t)]]
      BY <1>5 DEF Skip
  <2> QED  BY <1>5, <2>1, <2>2, TaskTyped DEF Skip, connVars, pipes, ConnTypeOK
<1>6. CASE HandleServerRequest(t)
  <2>1. TaskTypes([task[t] EXCEPT !.pc = "reply"])
      BY <1>0, <1>6 DEF TaskTypes, RowOK, Row, Places, Working, HandleServerRequest, Asked, Reading
  <2>2. task' = [task EXCEPT ![t] = [task[t] EXCEPT !.pc = "reply"]]
      BY <1>6 DEF HandleServerRequest, Goto
  <2> QED  BY <1>6, <2>1, <2>2, TaskTyped DEF HandleServerRequest, connVars, pipes, ConnTypeOK
<1>7. CASE Reply(t) \/ Refuse(t)
  <2>1. c \in Conns /\ HasFrame(task[t].buf) /\ SendReply(t)
      BY <1>0, <1>7 DEF Reply, Refuse, Asked, Reading, Working
  <2>2. f \in Frame /\ Rest(t) \in Seq(Piece)
      BY <2>1, FrameTyped
  <2>3. [kind |-> "reply", id |-> f.id, call |-> 0] \in Input
      BY <2>2 DEF Frame, Input
  <2>4. stdin' \in [Conns -> Seq(Input)]
      BY <2>1, <2>3 DEF SendReply, ConnTypeOK
  <2>5. TaskTypes([task[t] EXCEPT !.pc = "read", !.buf = Rest(t)])
      BY <1>0, <2>1, <2>2 DEF TaskTypes, RowOK, Row, Places
  <2>6. task' = [task EXCEPT ![t] = [task[t] EXCEPT !.pc = "read", !.buf = Rest(t)]]
      BY <2>1 DEF SendReply
  <2> QED  BY <2>1, <2>4, <2>5, <2>6, TaskTyped DEF SendReply, ConnTypeOK
<1> QED
    BY <1>1, <1>2, <1>3, <1>4, <1>5, <1>6, <1>7 DEF ClientStep

LEMMA ServerTypes ==
    ASSUME ConnTypeOK, NEW c \in Conns, ServerStep(c) \/ Ask(c) \/ Notify(c) \/ Die(c)
    PROVE  ConnTypeOK'
<1>0. /\ server[c] \in [todo : SUBSET Entry, asked : Nat] /\ chats \in Nat
      /\ server \in [Conns -> [todo : SUBSET Entry, asked : Nat]]
    BY ConnectionAssumption DEF ConnTypeOK
<1>1. CASE TakeMessage(c)
  <2>1. Head(stdin[c]) \in Input /\ Tail(stdin[c]) \in Seq(Input)
      BY <1>1 DEF TakeMessage, ConnTypeOK
  <2>2. stdin' \in [Conns -> Seq(Input)]
      BY <1>1, <2>1 DEF TakeMessage, ConnTypeOK
  <2>3. [id |-> Head(stdin[c]).id, call |-> Head(stdin[c]).call] \in Entry
      BY <2>1 DEF Input, Entry
  <2>4. server' \in [Conns -> [todo : SUBSET Entry, asked : Nat]]
    <3> DEFINE m == Head(stdin[c])
    <3>1. m.id \in Nat
        BY <2>1 DEF Input
    <3>2. CASE m.kind = "request"
      <4>1. server' = [server EXCEPT ![c].todo = @ \cup {[id |-> m.id, call |-> m.call]}]
          BY <1>1, <3>2 DEF TakeMessage
      <4> QED  BY <1>0, <2>3, <4>1
    <3>3. CASE m.kind # "request"
      <4>1. server' = [server EXCEPT ![c].asked = IF m.id = @ THEN 0 ELSE @]
          BY <1>1, <3>3 DEF TakeMessage
      <4> QED  BY <1>0, <3>1, <4>1
    <3> QED  BY <3>2, <3>3
  <2> QED  BY <1>1, <2>2, <2>4 DEF TakeMessage, ServerUnchanged, ConnTypeOK
<1>2. CASE Answer(c)
  <2>1. PICK e \in server[c].todo :
            /\ Write(c, [kind |-> "response", id |-> e.id, call |-> e.call])
            /\ server' = [server EXCEPT ![c].todo = @ \ {e}]
      BY <1>2 DEF Answer
  <2>2. [kind |-> "response", id |-> e.id, call |-> e.call] \in Frame
      BY <1>0 DEF Entry, Frame
  <2>3. server' \in [Conns -> [todo : SUBSET Entry, asked : Nat]]
      BY <1>0, <2>1
  <2> QED  BY <1>2, <2>1, <2>2, <2>3, WriteTyped DEF Answer, ServerUnchanged, ConnTypeOK
<1>3. CASE Ask(c)
  <2>1. PICK e \in server[c].todo, kind \in {"ask", "unread"} :
            /\ Write(c, [kind |-> kind, id |-> e.id, call |-> 0])
            /\ server' = [server EXCEPT ![c].asked = e.id]
      BY <1>3 DEF Ask
  <2>2. [kind |-> kind, id |-> e.id, call |-> 0] \in Frame /\ e.id \in Nat
      BY <1>0 DEF Entry, Frame
  <2>3. server' \in [Conns -> [todo : SUBSET Entry, asked : Nat]]
      BY <1>0, <2>1, <2>2
  <2>4. chats' \in 0..MaxChats
      BY <1>0, <1>3, ConnectionAssumption DEF Ask
  <2> QED  BY <1>3, <2>1, <2>2, <2>3, <2>4, WriteTyped DEF Ask, ServerUnchanged, ConnTypeOK
<1>4. CASE Notify(c)
  <2>1. [kind |-> "note", id |-> 0, call |-> 0] \in Frame
      BY DEF Frame
  <2>2. chats' \in 0..MaxChats
      BY <1>0, <1>4, ConnectionAssumption DEF Notify
  <2> QED  BY <1>4, <2>1, <2>2, WriteTyped DEF Notify, ServerUnchanged, ConnTypeOK
<1>5. CASE Die(c)
    BY <1>5 DEF Die, ServerUnchanged, pipes, ConnTypeOK
<1> QED  BY <1>1, <1>2, <1>3, <1>4, <1>5 DEF ServerStep

\* The steps of the manager write rows of tasks, and little else.
LEMMA ManagerTypes ==
    ASSUME TypeOK, NEW t \in Tasks,
           \/ Begin(t) \/ Check(t) \/ SpawnFails(t) \/ Bind(t) \/ Snapshot(t) \/ Register(t)
           \/ Remove(t) \/ ShutdownConnection(t) \/ ShutdownFails(t) \/ Drop(t)
    PROVE  TypeOK'
<1> DEFINE r == task'[t]
<1>0. /\ task[t] \in Row /\ RowOK(task[t]) /\ ConnTypeOK
      /\ ops \in Nat /\ drops \in Nat
    BY ManagerAssumption DEF TypeOK, ConnTypeOK
<1>1. TaskTypes(IdleTask)
    BY IdleTyped
<1>2. /\ TaskTypes([task[t] EXCEPT !.pc = "snapshot"])
      /\ TaskTypes([task[t] EXCEPT !.pc = "connect"])
      /\ TaskTypes([task[t] EXCEPT !.pc = "connect", !.c = None])
    BY <1>0 DEF TaskTypes, RowOK, Row, Places, Working
<1>3. ASSUME bound # None
      PROVE  /\ TaskTypes([task[t] EXCEPT !.pc = "register", !.c = bound])
             /\ TaskTypes([task[t] EXCEPT !.pc = "await", !.c = bound])
    BY <1>0, <1>3 DEF TaskTypes, RowOK, Row, Places, Working, TypeOK
<1>4. ASSUME NEW s, TaskTypes(s), task' = [task EXCEPT ![t] = s],
             UNCHANGED connVars
      PROVE  ConnTypeOK'
    BY <1>0, <1>4, TaskTyped DEF connVars, pipes, ConnTypeOK
<1>5. CASE Begin(t)
  <2>1. PICK op \in Ops \ {"none"} :
            /\ op = "call" => registered # None
            /\ task' = [task EXCEPT ![t] = [IdleTask EXCEPT
                   !.op = op, !.pc = First(op), !.c = IF op = "call" THEN registered ELSE None]]
      BY <1>5 DEF Begin
  <2>2. First(op) \in Places /\ (First(op) \in Working => op = "call") /\ First(op) # "reply"
      BY DEF First, Places, Working, Ops
  <2>3. TaskTypes([IdleTask EXCEPT
            !.op = op, !.pc = First(op), !.c = IF op = "call" THEN registered ELSE None])
      BY <1>1, <2>1, <2>2 DEF IdleTask, TaskTypes, RowOK, Row, TypeOK
  <2>4. ConnTypeOK'
      BY <1>4, <1>5, <2>1, <2>3 DEF Begin
  <2>5. ops' \in 0..MaxOps
    <3>1. ops < MaxOps /\ ops' = ops + 1
        BY <1>5, Zenon DEF Begin
    <3> QED  BY <1>0, <3>1, ManagerAssumption
  <2> QED  BY <1>5, <2>4, <2>5 DEF Begin, TypeOK
<1>6. CASE Check(t) \/ SpawnFails(t) \/ Snapshot(t)
    BY <1>1, <1>2, <1>3, <1>4, <1>6
       DEF Check, SpawnFails, Snapshot, Goto, End, managerVars, TypeOK
<1>7. CASE Bind(t)
  <2>1. task[t].c \in Conns
      BY <1>0, <1>7 DEF Bind, RowOK, Working
  <2> QED  BY <1>1, <1>2, <1>4, <1>7, <2>1 DEF Bind, Goto, End, TypeOK
<1>8. CASE Register(t)
  <2>1. task[t].c \in Conns
      BY <1>0, <1>8 DEF Register, RowOK, Working
  <2> QED  BY <1>1, <1>4, <1>8, <2>1 DEF Register, End, TypeOK
<1>9. CASE Remove(t)
    BY <1>1, <1>2, <1>3, <1>4, <1>9 DEF Remove, AfterDisconnect, End, TypeOK
<1>10. CASE ShutdownConnection(t) \/ ShutdownFails(t)
  <2>1. PICK s : TaskTypes(s) /\ task' = [task EXCEPT ![t] = s]
      BY <1>1, <1>2, <1>10 DEF ShutdownConnection, ShutdownFails, AfterDisconnect, End
  <2>2. up' \in [Conns -> BOOLEAN] /\ open' \in [Conns -> BOOLEAN]
      BY <1>0, <1>10 DEF ShutdownConnection, ShutdownFails, ConnTypeOK
  <2> QED  BY <1>0, <1>10, <2>1, <2>2, TaskTyped
             DEF ShutdownConnection, ShutdownFails, pipes, managerVars, ConnTypeOK, TypeOK
<1>11. CASE Drop(t)
  <2>1. ConnTypeOK'
      BY <1>1, <1>4, <1>11 DEF Drop, End
  <2>2. drops' \in 0..MaxDrops
      BY <1>0, <1>11, ManagerAssumption DEF Drop
  <2> QED  BY <1>11, <2>1, <2>2 DEF Drop, TypeOK
<1> QED  BY <1>5, <1>6, <1>7, <1>8, <1>9, <1>10, <1>11

LEMMA ConnectTypes ==
    ASSUME TypeOK, NEW t \in Tasks, Connect(t)
    PROVE  TypeOK'
<1>1. ConnTypeOK /\ started + 1 \in Conns /\ started' \in 0..MaxConns
    BY ConnectionAssumption DEF TypeOK, Connect, Conns
<1>2. up' \in [Conns -> BOOLEAN] /\ open' \in [Conns -> BOOLEAN]
    BY <1>1 DEF Connect, ConnTypeOK
<1>3. Send(t, started + 1)
    BY DEF Connect
<1> QED  BY <1>1, <1>2, <1>3, SendTypes DEF Connect, ConnTypeOK, TypeOK

LEMMA TypesAreKept ==
    ASSUME TypeOK, [Next]_vars
    PROVE  TypeOK'
<1>1. CASE \E t \in Tasks : Begin(t) \/ TaskStep(t) \/ Drop(t)
  <2>1. PICK t \in Tasks : Begin(t) \/ TaskStep(t) \/ Drop(t)
      BY <1>1
  <2>2. CASE ClientStep(t) /\ UNCHANGED managerVars
      BY <2>2, ClientTypes DEF TypeOK, managerVars
  <2> QED  BY <2>1, <2>2, ConnectTypes, ManagerTypes DEF TaskStep
<1>2. CASE \E c \in Conns : Serving(c) \/ Environment(c)
    BY <1>2, ServerTypes DEF Serving, Environment, TypeOK, managerVars
<1>3. CASE \E c \in Conns : ServerExits(c)
    BY <1>3 DEF ServerExits, TypeOK, ConnTypeOK, pipes, managerVars
<1>4. CASE UNCHANGED vars
    BY <1>4 DEF vars, connVars, pipes, managerVars, TypeOK, ConnTypeOK
<1> QED  BY <1>1, <1>2, <1>3, <1>4 DEF Next

LEMMA TypesAtFirst ==
    Init => TypeOK
<1>1. <<>> \in Seq(Input) /\ <<>> \in Seq(Piece)
    OBVIOUS
<1>2. ASSUME Init PROVE ConnTypeOK
    BY <1>1, <1>2, IdleTyped, ConnectionAssumption DEF Init, ConnInit, ConnTypeOK, TaskTypes
<1>3. ASSUME Init
      PROVE  /\ started \in 0..MaxConns /\ ops \in 0..MaxOps /\ drops \in 0..MaxDrops
             /\ bound = None /\ registered = None
  <2>1. started = 0 /\ ops = 0 /\ drops = 0 /\ bound = None /\ registered = None
      BY <1>3, Zenon DEF Init
  <2>2. 0 \in 0..MaxConns /\ 0 \in 0..MaxOps /\ 0 \in 0..MaxDrops
      BY ConnectionAssumption, ManagerAssumption, SMT
  <2> QED  BY <2>1, <2>2, Zenon
<1> QED  BY <1>2, <1>3 DEF TypeOK

\* Tasks, connections, pipes and bindings keep their types.
THEOREM TypeCorrect == Spec => []TypeOK
<1> QED  BY TypesAtFirst, TypesAreKept, PTL DEF Spec

(***************************************************************************)
(* Every call gets the answer to its own request.                          *)
(***************************************************************************)
\* The id was given out, and the call that waits for it is the one it was
\* given to.
Own(c, id, call) ==
    /\ id < nextId[c]
    /\ \A t \in Tasks : Holding(t) /\ task[t].c = c /\ task[t].id = id => task[t].call = call

OwnInput(c) == {m \in Input : m.kind = "request" => Own(c, m.id, m.call)}
OwnPiece(c) == {p \in Piece : p.of.kind = "response" => Own(c, p.of.id, p.of.call)}

PipeOK(c) ==
    /\ stdin[c] \in Seq(OwnInput(c)) /\ stdout[c] \in Seq(OwnPiece(c))
    /\ \A e \in server[c].todo : Own(c, e.id, e.call)

CallOK(t) ==
    IF Holding(t) THEN task[t].id < nextId[task[t].c] /\ task[t].buf \in Seq(OwnPiece(task[t].c))
                  ELSE task[t].buf = <<>>

PipesInv == (\A c \in Conns : PipeOK(c)) /\ (\A t \in Tasks : CallOK(t))

\* A step that starts no request leaves a task in its call, or out of any.
SameCall(t) ==
    IF Holding(t)'
    THEN /\ Holding(t) /\ task'[t].c = task[t].c /\ task'[t].id = task[t].id
         /\ task'[t].call = task[t].call /\ task'[t].buf \in Seq(OwnPiece(task[t].c))
    ELSE task'[t].buf = <<>>

\* What belongs to a call still does after a step that gives out no id twice.
LEMMA OwnGrows ==
    ASSUME TypeOK, TypeOK', \A c \in Conns : nextId[c] <= nextId'[c],
           \A t \in Tasks : Holding(t)' =>
               \/ /\ Holding(t) /\ task'[t].c = task[t].c
                  /\ task'[t].id = task[t].id /\ task'[t].call = task[t].call
               \/ task'[t].id >= nextId[task'[t].c],
           NEW c \in Conns
    PROVE  /\ \A id, call \in Nat : Own(c, id, call) => Own(c, id, call)'
           /\ OwnInput(c) \subseteq OwnInput(c)' /\ OwnPiece(c) \subseteq OwnPiece(c)'
<1>1. ASSUME NEW id \in Nat, NEW call \in Nat, Own(c, id, call)
      PROVE  Own(c, id, call)'
  <2>1. nextId[c] \in Nat /\ nextId'[c] \in Nat /\ id < nextId'[c]
      BY <1>1 DEF Own, TypeOK, ConnTypeOK
  <2>2. ASSUME NEW t \in Tasks, Holding(t)', task'[t].c = c, task'[t].id = id
        PROVE  task'[t].call = call
      BY <1>1, <2>1, <2>2 DEF Own
  <2> QED  BY <2>1, <2>2 DEF Own
<1>2. OwnInput(c) \subseteq OwnInput(c)'
    BY <1>1 DEF OwnInput, Input
<1>3. OwnPiece(c) \subseteq OwnPiece(c)'
    BY <1>1 DEF OwnPiece, Piece, Frame
<1> QED  BY <1>1, <1>2, <1>3

LEMMA PipesAreKept ==
    ASSUME TypeOK, TypeOK', PipesInv,
           \A c \in Conns : /\ nextId[c] <= nextId'[c]
                            /\ stdin'[c] \in Seq(OwnInput(c)) /\ stdout'[c] \in Seq(OwnPiece(c))
                            /\ \A e \in server'[c].todo : Own(c, e.id, e.call),
           \A t \in Tasks : SameCall(t)
    PROVE  PipesInv'
<1>1. \A c \in Conns : /\ \A id, call \in Nat : Own(c, id, call) => Own(c, id, call)'
                       /\ OwnInput(c) \subseteq OwnInput(c)' /\ OwnPiece(c) \subseteq OwnPiece(c)'
    BY OwnGrows DEF SameCall
<1>2. ASSUME NEW c \in Conns
      PROVE  PipeOK(c)'
  <2>1. stdin'[c] \in Seq(OwnInput(c)') /\ stdout'[c] \in Seq(OwnPiece(c)')
      BY <1>1, SeqGrows
  <2>2. \A e \in server'[c].todo : e.id \in Nat /\ e.call \in Nat
      BY DEF TypeOK, ConnTypeOK, Entry
  <2> QED  BY <1>1, <2>1, <2>2 DEF PipeOK
<1>3. ASSUME NEW t \in Tasks
      PROVE  CallOK(t)'
  <2>1. CASE Holding(t)'
    <3>1. /\ Holding(t) /\ task'[t].c = task[t].c /\ task'[t].id = task[t].id
          /\ task'[t].buf \in Seq(OwnPiece(task[t].c)) /\ task[t].id < nextId[task[t].c]
        BY <2>1 DEF SameCall, PipesInv, CallOK
    <3> DEFINE c == task[t].c
    <3>2. c \in Conns /\ task[t].id \in Nat /\ nextId[c] \in Nat /\ nextId'[c] \in Nat
        BY <3>1 DEF Holding, TypeOK, ConnTypeOK, RowOK, Working, Row
    <3>3. task'[t].id < nextId'[c]
        BY <3>1, <3>2
    <3>4. \A d \in Conns : \A s \in Seq(OwnPiece(d)) : s \in Seq(OwnPiece(d)')
        BY <1>1, SeqGrows
    <3>5. \A d \in Conns : task'[t].c = d => task'[t].buf \in Seq(OwnPiece(d)')
        BY <3>1, <3>4
    <3> QED  BY <2>1, <3>1, <3>2, <3>3, <3>5 DEF CallOK
  <2>2. CASE ~Holding(t)'
      BY <2>2 DEF SameCall, CallOK
  <2> QED  BY <2>1, <2>2
<1> QED  BY <1>2, <1>3 DEF PipesInv

\* A request is sent under a new id.
LEMMA SendKeepsPipes ==
    ASSUME TypeOK, TypeOK', PipesInv, NEW t \in Tasks, NEW c \in Conns, Send(t, c), ~Holding(t),
           UNCHANGED <<stdout, server>>
    PROVE  PipesInv'
<1>1. /\ nextId' = [nextId EXCEPT ![c] = @ + 1]
      /\ nextId \in [Conns -> Nat] /\ requests \in Nat /\ task \in [Tasks -> Row]
    BY DEF Send, TypeOK, ConnTypeOK
<1>2. /\ task'[t].c = c /\ task'[t].id = nextId[c] /\ task'[t].call = requests + 1
      /\ task'[t].buf = <<>> /\ task'[t].pc = "read"
      /\ \A u \in Tasks : u # t => task'[u] = task[u]
    BY <1>1 DEF Send, Row, PipesInv, CallOK
<1>3. \A d \in Conns : nextId[d] <= nextId'[d]
    BY <1>1
<1>4. ASSUME NEW u \in Tasks, Holding(u)'
      PROVE  \/ /\ Holding(u) /\ task'[u].c = task[u].c
                /\ task'[u].id = task[u].id /\ task'[u].call = task[u].call
             \/ task'[u].id >= nextId[task'[u].c]
    BY <1>1, <1>2, <1>4 DEF Holding
<1>5. \A d \in Conns : /\ \A id, call \in Nat : Own(d, id, call) => Own(d, id, call)'
                       /\ OwnInput(d) \subseteq OwnInput(d)' /\ OwnPiece(d) \subseteq OwnPiece(d)'
    BY <1>3, <1>4, OwnGrows
<1>6. ASSUME NEW id, NEW call, id = nextId[c], call = requests + 1
      PROVE  Own(c, id, call)'
  <2>1. id < nextId'[c]
      BY <1>1, <1>6
  <2>2. ASSUME NEW u \in Tasks, Holding(u)', task'[u].c = c, task'[u].id = id
        PROVE  task'[u].call = call
    <3>1. CASE u = t
        BY <1>2, <1>6, <3>1
    <3>2. CASE u # t
      <4>1. Holding(u) /\ task[u].c = c /\ task[u].id = nextId[c]
          BY <1>2, <1>6, <2>2, <3>2 DEF Holding
      <4>2. task[u].id < nextId[c] /\ nextId[c] \in Nat
          BY <1>1, <4>1 DEF PipesInv, CallOK
      <4> QED  BY <4>1, <4>2
    <3> QED  BY <3>1, <3>2
  <2> QED  BY <2>1, <2>2 DEF Own
<1>7. ASSUME NEW d \in Conns
      PROVE  PipeOK(d)'
  <2>1. stdin[d] \in Seq(OwnInput(d)') /\ stdout[d] \in Seq(OwnPiece(d)')
      BY <1>5, SeqGrows DEF PipesInv, PipeOK
  <2>2. \A e \in server[d].todo : Own(d, e.id, e.call) /\ e.id \in Nat /\ e.call \in Nat
    <3>1. server[d].todo \subseteq Entry
        BY DEF TypeOK, ConnTypeOK
    <3> QED  BY <3>1 DEF PipesInv, PipeOK, Entry
  <2>3. stdin'[d] \in Seq(OwnInput(d)')
    <3>1. CASE d = c
      <4> DEFINE m == [kind |-> "request", id |-> nextId[c], call |-> requests + 1]
      <4>1. m \in Input
          BY <1>1 DEF Input
      <4>2. \A id, call : id = nextId[c] /\ call = requests + 1 => Own(c, id, call)'
          BY <1>6
      <4>3. \A m1 \in Input : m1.id = nextId[c] /\ m1.call = requests + 1 => m1 \in OwnInput(c)'
          BY <4>2 DEF OwnInput
      <4>4. m \in OwnInput(d)'
          BY <3>1, <4>1, <4>3
      <4>5. stdin'[d] = Append(stdin[d], m)
          BY <3>1 DEF Send, TypeOK, ConnTypeOK
      <4> HIDE DEF m
      <4> QED  BY <2>1, <4>4, <4>5
    <3>2. CASE d # c
        BY <2>1, <3>2 DEF Send, TypeOK, ConnTypeOK
    <3> QED  BY <3>1, <3>2
  <2> QED  BY <1>5, <2>1, <2>2, <2>3 DEF PipeOK
<1>8. ASSUME NEW u \in Tasks
      PROVE  CallOK(u)'
  <2>1. CASE u = t
    <3>1. \A S : <<>> \in Seq(S)
        OBVIOUS
    <3>2. Holding(t)' /\ task'[t].buf \in Seq(OwnPiece(task[t].c)')
        BY <1>2, <3>1 DEF Holding
    <3>3. task'[t].id < nextId'[task'[t].c]
        BY <1>1, <1>2
    <3> QED  BY <1>2, <2>1, <3>1, <3>2, <3>3 DEF CallOK
  <2>2. CASE u # t /\ Holding(u)
    <3> DEFINE d == task[u].c
    <3>1. task'[u] = task[u] /\ task[u].id < nextId[d] /\ task[u].buf \in Seq(OwnPiece(d))
        BY <1>2, <2>2 DEF PipesInv, CallOK
    <3>2. d \in Conns /\ task[u].id \in Nat /\ nextId[d] \in Nat /\ nextId'[d] \in Nat
        BY <2>2 DEF Holding, TypeOK, ConnTypeOK, RowOK, Working, Row
    <3>3. task[u].id < nextId'[d]
        BY <1>3, <3>1, <3>2
    <3>4. \A e \in Conns : \A s \in Seq(OwnPiece(e)) : s \in Seq(OwnPiece(e)')
        BY <1>5, SeqGrows
    <3>5. \A e \in Conns : task'[u].c = e => task'[u].buf \in Seq(OwnPiece(e)')
        BY <3>1, <3>4
    <3> QED  BY <2>2, <3>1, <3>2, <3>3, <3>5 DEF CallOK, Holding
  <2>3. CASE u # t /\ ~Holding(u)
      BY <1>2, <2>3 DEF PipesInv, CallOK, Holding
  <2> QED  BY <2>1, <2>2, <2>3
<1> QED  BY <1>7, <1>8 DEF PipesInv

\* A step that takes a task on in its call, or out of it, and leaves the pipes.
GoesOn(t, r) ==
    IF r.pc \in {"read", "reply"}
    THEN /\ Holding(t) /\ r.c = task[t].c /\ r.id = task[t].id /\ r.call = task[t].call
         /\ r.buf \in Seq(OwnPiece(task[t].c))
    ELSE r.buf = <<>>

LEMMA CallsGoOn ==
    ASSUME TypeOK, PipesInv, NEW t \in Tasks, NEW r, GoesOn(t, r),
           task' = [task EXCEPT ![t] = r]
    PROVE  \A u \in Tasks : SameCall(u)
<1>1. task'[t] = r /\ \A u \in Tasks : u # t => task'[u] = task[u]
    BY DEF TypeOK, ConnTypeOK
<1>2. SameCall(t)
    BY <1>1 DEF GoesOn, SameCall, Holding
<1>3. ASSUME NEW u \in Tasks, u # t
      PROVE  SameCall(u)
    BY <1>1, <1>3 DEF PipesInv, CallOK, SameCall, Holding
<1> QED  BY <1>2, <1>3

LEMMA QuietPipes ==
    ASSUME TypeOK, PipesInv, UNCHANGED <<nextId, pipes, server>>
    PROVE  \A c \in Conns : /\ nextId[c] <= nextId'[c]
                            /\ stdin'[c] \in Seq(OwnInput(c)) /\ stdout'[c] \in Seq(OwnPiece(c))
                            /\ \A e \in server'[c].todo : Own(c, e.id, e.call)
<1>1. \A c \in Conns : nextId[c] <= nextId'[c]
    BY DEF TypeOK, ConnTypeOK
<1> QED  BY <1>1 DEF PipesInv, PipeOK, pipes

LEMMA RestOwned ==
    ASSUME TypeOK, PipesInv, NEW t \in Tasks, Holding(t), HasFrame(task[t].buf)
    PROVE  task[t].buf[1] \in OwnPiece(task[t].c) /\ Rest(t) \in Seq(OwnPiece(task[t].c))
<1>1. task[t].buf \in Seq(OwnPiece(task[t].c)) /\ Len(task[t].buf) >= 2
    BY DEF PipesInv, CallOK, HasFrame
<1>2. task[t].buf[1] \in OwnPiece(task[t].c)
    BY <1>1
<1>3. Rest(t) \in Seq(OwnPiece(task[t].c))
    BY <1>1, SubSeqIn DEF Rest
<1> QED  BY <1>2, <1>3

\* The steps of a call keep the pipes.
LEMMA ClientKeepsPipes ==
    ASSUME TypeOK, TypeOK', PipesInv, NEW t \in Tasks, ClientStep(t)
    PROVE  PipesInv'
<1> DEFINE c == task[t].c
<1>0. /\ task[t] \in Row /\ (task[t].pc \in Working => c \in Conns)
      /\ Holding(t) => c \in Conns /\ task[t].buf \in Seq(OwnPiece(c))
      /\ ~Holding(t) => task[t].buf = <<>>
      /\ task[t].pc = "reply" => HasFrame(task[t].buf)
    BY DEF TypeOK, ConnTypeOK, RowOK, PipesInv, CallOK, Holding, Working
<1>1. GoesOn(t, IdleTask)
    BY DEF GoesOn, IdleTask
<1>2. CASE CallTool(t)
  <2>1. c \in Conns /\ ~Holding(t)
      BY <1>0, <1>2 DEF CallTool, Working, Holding
  <2>2. CASE Send(t, c)
      BY <1>2, <2>1, <2>2, SendKeepsPipes DEF CallTool
  <2>3. CASE End(t) /\ nextId' = [nextId EXCEPT ![c] = @ + 1] /\ UNCHANGED <<stdin, requests>>
    <3>1. \A d \in Conns : nextId[d] <= nextId'[d]
      <4>1. nextId \in [Conns -> Nat]
          BY DEF TypeOK, ConnTypeOK
      <4> QED  BY <2>1, <2>3, <4>1
    <3>2. \A u \in Tasks : SameCall(u)
        BY <1>1, <2>3, CallsGoOn DEF End
    <3>3. \A d \in Conns : PipeOK(d)
        BY DEF PipesInv
    <3>4. UNCHANGED <<stdin, stdout, server>>
        BY <1>2, <2>3 DEF CallTool
    <3> QED  BY <3>1, <3>2, <3>3, <3>4, PipesAreKept DEF PipeOK
  <2> QED  BY <1>2, <2>2, <2>3 DEF CallTool
<1>3. CASE Receive(t)
  <2>1. c \in Conns /\ Holding(t)
      BY <1>0, <1>3 DEF Receive, Reading, Working, Holding
  <2>2. PICK n \in 1..Len(stdout[c]) :
            /\ task' = [task EXCEPT ![t].buf = @ \o SubSeq(stdout[c], 1, n)]
            /\ stdout' = [stdout EXCEPT ![c] = SubSeq(@, n + 1, Len(@))]
      BY <1>3 DEF Receive
  <2>3. stdout[c] \in Seq(OwnPiece(c))
      BY <2>1 DEF PipesInv, PipeOK
  <2>4. /\ SubSeq(stdout[c], 1, n) \in Seq(OwnPiece(c))
        /\ SubSeq(stdout[c], n + 1, Len(stdout[c])) \in Seq(OwnPiece(c))
      BY <2>3, SubSeqIn
  <2> DEFINE r == [task[t] EXCEPT !.buf = @ \o SubSeq(stdout[c], 1, n)]
  <2>5. task[t].buf \o SubSeq(stdout[c], 1, n) \in Seq(OwnPiece(c))
      BY <1>0, <2>1, <2>4
  <2>6. GoesOn(t, r)
      BY <1>0, <1>3, <2>1, <2>5 DEF GoesOn, Row, Receive, Reading
  <2>7. task' = [task EXCEPT ![t] = r]
      BY <2>2
  <2>8. \A u \in Tasks : SameCall(u)
      BY <2>6, <2>7, CallsGoOn
  <2>9. \A d \in Conns : stdout'[d] \in Seq(OwnPiece(d))
      BY <2>2, <2>4 DEF PipesInv, PipeOK, TypeOK, ConnTypeOK
  <2>10. UNCHANGED <<nextId, stdin, server>> /\ \A d \in Conns : nextId[d] <= nextId'[d]
      BY <1>3 DEF Receive, TypeOK, ConnTypeOK
  <2>11. \A d \in Conns : PipeOK(d)
      BY DEF PipesInv
  <2> QED  BY <2>8, <2>9, <2>10, <2>11, PipesAreKept DEF PipeOK
<1>4. CASE EndOfFile(t)
    BY <1>1, <1>4, CallsGoOn, QuietPipes, PipesAreKept DEF EndOfFile, End, connVars
<1>5. CASE Answered(t)
  <2>1. GoesOn(t, [task[t] EXCEPT !.pc = "bind", !.buf = <<>>])
      BY <1>0 DEF GoesOn, Row
  <2>2. \A u \in Tasks : SameCall(u)
      BY <1>1, <1>5, <2>1, CallsGoOn DEF Answered, End
  <2> QED  BY <1>5, <2>2, QuietPipes, PipesAreKept DEF Answered
<1>6. CASE Skip(t)
  <2>1. Holding(t) /\ HasFrame(task[t].buf)
      BY <1>6 DEF Skip, Reading, Holding
  <2>2. GoesOn(t, [task[t] EXCEPT !.buf = Rest(t)])
      BY <1>0, <1>6, <2>1, RestOwned DEF GoesOn, Row, Skip, Reading
  <2>3. \A u \in Tasks : SameCall(u)
      BY <1>6, <2>2, CallsGoOn DEF Skip
  <2> QED  BY <1>6, <2>3, QuietPipes, PipesAreKept DEF Skip, connVars
<1>7. CASE HandleServerRequest(t)
  <2>1. Holding(t)
      BY <1>7 DEF HandleServerRequest, Asked, Reading, Holding
  <2>2. GoesOn(t, [task[t] EXCEPT !.pc = "reply"])
      BY <1>0, <2>1 DEF GoesOn, Row
  <2>3. \A u \in Tasks : SameCall(u)
      BY <1>7, <2>2, CallsGoOn DEF HandleServerRequest, Goto
  <2> QED  BY <1>7, <2>3, QuietPipes, PipesAreKept DEF HandleServerRequest, connVars
<1>8. CASE Reply(t) \/ Refuse(t)
  <2>1. c \in Conns /\ Holding(t) /\ HasFrame(task[t].buf) /\ SendReply(t)
      BY <1>0, <1>8 DEF Reply, Refuse, Asked, Reading, Working, Holding
  <2>2. GoesOn(t, [task[t] EXCEPT !.pc = "read", !.buf = Rest(t)])
      BY <1>0, <2>1, RestOwned DEF GoesOn, Row
  <2>3. \A u \in Tasks : SameCall(u)
      BY <2>1, <2>2, CallsGoOn DEF SendReply
  <2> DEFINE m == [kind |-> "reply", id |-> task[t].buf[1].of.id, call |-> 0]
  <2>4. m \in OwnInput(c)
    <3>1. task[t].buf[1].of \in Frame
        BY <2>1, FrameTyped DEF TypeOK
    <3> QED  BY <3>1 DEF OwnInput, Input, Frame
  <2>5. \A d \in Conns : stdin[d] \in Seq(OwnInput(d))
      BY DEF PipesInv, PipeOK
  <2>6. stdin' = stdin \/ stdin' = [stdin EXCEPT ![c] = Append(@, m)]
      BY <2>1 DEF SendReply
  <2> HIDE DEF m
  <2>7. \A d \in Conns : stdin'[d] \in Seq(OwnInput(d))
    <3>1. Append(stdin[c], m) \in Seq(OwnInput(c))
        BY <2>1, <2>4, <2>5
    <3>2. stdin \in [Conns -> Seq(Input)]
        BY DEF TypeOK, ConnTypeOK
    <3> QED  BY <2>1, <2>5, <2>6, <3>1, <3>2
  <2>8. UNCHANGED <<nextId, stdout, server>> /\ \A d \in Conns : nextId[d] <= nextId'[d]
      BY <2>1 DEF SendReply, TypeOK, ConnTypeOK
  <2>9. \A d \in Conns : PipeOK(d)
      BY DEF PipesInv
  <2> QED  BY <2>3, <2>7, <2>8, <2>9, PipesAreKept DEF PipeOK
<1> QED
    BY <1>2, <1>3, <1>4, <1>5, <1>6, <1>7, <1>8 DEF ClientStep

LEMMA WriteOwned ==
    ASSUME TypeOK, PipesInv, NEW c \in Conns, NEW f \in Frame, Write(c, f),
           f.kind = "response" => Own(c, f.id, f.call)
    PROVE  \A d \in Conns : stdout'[d] \in Seq(OwnPiece(d))
<1>1. [of |-> f, part |-> "head"] \in OwnPiece(c) /\ [of |-> f, part |-> "tail"] \in OwnPiece(c)
    BY DEF OwnPiece, Piece
<1>2. \A d \in Conns : stdout[d] \in Seq(OwnPiece(d))
    BY DEF PipesInv, PipeOK
<1>3. stdout[c] \o <<[of |-> f, part |-> "head"], [of |-> f, part |-> "tail"]>> \in Seq(OwnPiece(c))
    BY <1>1, <1>2, PiecesGrow
<1>4. stdout \in [Conns -> Seq(Piece)]
    BY DEF TypeOK, ConnTypeOK
<1> QED  BY <1>2, <1>3, <1>4 DEF Write

\* The steps of a server keep the pipes.
LEMMA ServerKeepsPipes ==
    ASSUME TypeOK, TypeOK', PipesInv, NEW c \in Conns,
           ServerStep(c) \/ Ask(c) \/ Notify(c) \/ Die(c)
    PROVE  PipesInv'
<1>1. UNCHANGED <<nextId, task>>
    BY DEF ServerStep, TakeMessage, Answer, Ask, Notify, Die, ServerUnchanged
<1>2. \A u \in Tasks : SameCall(u)
    BY <1>1 DEF PipesInv, CallOK, SameCall, Holding
<1>3. \A d \in Conns : /\ nextId[d] <= nextId'[d]
                       /\ stdin[d] \in Seq(OwnInput(d)) /\ stdout[d] \in Seq(OwnPiece(d))
                       /\ \A e \in server[d].todo : Own(d, e.id, e.call)
                       /\ server[d].todo \subseteq Entry
  <2>1. \A d \in Conns : nextId[d] <= nextId'[d] /\ server[d].todo \subseteq Entry
    <3>1. nextId \in [Conns -> Nat] /\ server \in [Conns -> [todo : SUBSET Entry, asked : Nat]]
        BY DEF TypeOK, ConnTypeOK
    <3> QED  BY <1>1, <3>1
  <2> QED  BY <2>1 DEF PipesInv, PipeOK
<1>4. server \in [Conns -> [todo : SUBSET Entry, asked : Nat]] /\ stdin \in [Conns -> Seq(Input)]
    BY DEF TypeOK, ConnTypeOK
<1>5. CASE TakeMessage(c)
  <2> DEFINE m == Head(stdin[c])
             e == [id |-> m.id, call |-> m.call]
  <2>1. m \in OwnInput(c) /\ Tail(stdin[c]) \in Seq(OwnInput(c))
      BY <1>3, <1>5 DEF TakeMessage
  <2>2. \A d \in Conns : stdin'[d] \in Seq(OwnInput(d))
      BY <1>3, <1>4, <1>5, <2>1 DEF TakeMessage
  <2>3. m.kind = "request" => Own(c, e.id, e.call)
      BY <2>1 DEF OwnInput
  <2>4. \/ m.kind = "request" /\ server' = [server EXCEPT ![c].todo = @ \cup {e}]
        \/ server' = [server EXCEPT ![c].asked = IF m.id = @ THEN 0 ELSE @]
      BY <1>5 DEF TakeMessage
  <2> HIDE DEF e, m
  <2>5. ASSUME NEW d \in Conns, NEW a \in server'[d].todo
        PROVE  Own(d, a.id, a.call)
    <3>1. a \in server[d].todo \/ (d = c /\ a = e /\ m.kind = "request")
      <4>1. CASE m.kind = "request" /\ server' = [server EXCEPT ![c].todo = @ \cup {e}]
        <5>1. server'[d].todo = IF d = c THEN server[d].todo \cup {e} ELSE server[d].todo
            BY <1>4, <4>1
        <5> QED  BY <2>5, <4>1, <5>1
      <4>2. CASE server' = [server EXCEPT ![c].asked = IF m.id = @ THEN 0 ELSE @]
        <5>1. server'[d].todo = server[d].todo
            BY <1>4, <4>2
        <5> QED  BY <2>5, <5>1
      <4> QED  BY <2>4, <4>1, <4>2
    <3> QED  BY <1>3, <2>3, <3>1
  <2>6. stdout' = stdout
      BY <1>5 DEF TakeMessage
  <2> QED  BY <1>2, <1>3, <2>2, <2>5, <2>6, PipesAreKept
<1>6. CASE Answer(c)
  <2>1. PICK e \in server[c].todo :
            /\ Write(c, [kind |-> "response", id |-> e.id, call |-> e.call])
            /\ server' = [server EXCEPT ![c].todo = @ \ {e}]
      BY <1>6 DEF Answer
  <2> DEFINE f == [kind |-> "response", id |-> e.id, call |-> e.call]
  <2>2. f \in Frame /\ Own(c, f.id, f.call)
      BY <1>3 DEF Entry, Frame
  <2>3. Write(c, f)
      BY <2>1
  <2> HIDE DEF f
  <2>4. \A d \in Conns : stdout'[d] \in Seq(OwnPiece(d))
      BY <2>2, <2>3, WriteOwned
  <2>5. \A d \in Conns : \A a \in server'[d].todo : a \in server[d].todo
      BY <1>4, <2>1
  <2>6. stdin' = stdin
      BY <1>6 DEF Answer
  <2> QED  BY <1>2, <1>3, <2>4, <2>5, <2>6, PipesAreKept
<1>7. CASE Ask(c) \/ Notify(c)
  <2>1. PICK f \in Frame : f.kind # "response" /\ Write(c, f)
    <3>1. CASE Ask(c)
      <4>1. PICK e \in server[c].todo, kind \in {"ask", "unread"} :
                Write(c, [kind |-> kind, id |-> e.id, call |-> 0])
          BY <3>1 DEF Ask
      <4>2. [kind |-> kind, id |-> e.id, call |-> 0] \in Frame
          BY <1>3 DEF Entry, Frame
      <4> QED  BY <4>1, <4>2
    <3>2. CASE Notify(c)
      <4>1. [kind |-> "note", id |-> 0, call |-> 0] \in Frame
          BY DEF Frame
      <4> QED  BY <3>2, <4>1 DEF Notify
    <3> QED  BY <1>7, <3>1, <3>2
  <2>2. \A d \in Conns : stdout'[d] \in Seq(OwnPiece(d))
      BY <2>1, WriteOwned
  <2>3. \A d \in Conns : server'[d].todo = server[d].todo
    <3>1. CASE server' = server
        BY <3>1
    <3>2. ASSUME NEW n, server' = [server EXCEPT ![c].asked = n]
          PROVE  \A d \in Conns : server'[d].todo = server[d].todo
        BY <1>4, <3>2
    <3> QED  BY <1>7, <3>1, <3>2 DEF Ask, Notify
  <2>4. stdin' = stdin
      BY <1>7 DEF Ask, Notify
  <2> QED  BY <1>2, <1>3, <2>2, <2>3, <2>4, PipesAreKept
<1>8. CASE Die(c)
    BY <1>2, <1>8, QuietPipes, PipesAreKept DEF Die, ServerUnchanged
<1> QED  BY <1>5, <1>6, <1>7, <1>8 DEF ServerStep

\* The manager opens connections, and otherwise leaves the pipes alone.
LEMMA ManagerKeepsPipes ==
    ASSUME TypeOK, TypeOK', PipesInv, NEW t \in Tasks,
           \/ Begin(t) \/ Check(t) \/ SpawnFails(t) \/ Bind(t) \/ Snapshot(t) \/ Register(t)
           \/ Remove(t) \/ ShutdownConnection(t) \/ ShutdownFails(t) \/ Drop(t)
    PROVE  PipesInv'
<1>0. UNCHANGED <<nextId, pipes, server>> /\ task[t] \in Row
    BY DEF Begin, Check, SpawnFails, Bind, Snapshot, Register, Remove, ShutdownConnection,
           ShutdownFails, Drop, connVars, TypeOK, ConnTypeOK
<1>1. GoesOn(t, IdleTask)
    BY DEF GoesOn, IdleTask
<1>2. CASE Begin(t)
  <2>1. PICK op \in Ops \ {"none"} :
            task' = [task EXCEPT ![t] = [IdleTask EXCEPT
                   !.op = op, !.pc = First(op), !.c = IF op = "call" THEN registered ELSE None]]
      BY <1>2 DEF Begin
  <2>2. First(op) \notin {"read", "reply"}
      BY DEF First, Ops
  <2>3. GoesOn(t, [IdleTask EXCEPT
            !.op = op, !.pc = First(op), !.c = IF op = "call" THEN registered ELSE None])
      BY <2>2 DEF IdleTask, GoesOn
  <2>4. \A u \in Tasks : SameCall(u)
      BY <2>1, <2>3, CallsGoOn
  <2> QED  BY <1>0, <2>4, QuietPipes, PipesAreKept
<1>3. CASE Drop(t) \/ SpawnFails(t) \/ Register(t) \/ ShutdownFails(t)
  <2>1. \A u \in Tasks : SameCall(u)
      BY <1>1, <1>3, CallsGoOn DEF Drop, SpawnFails, Register, ShutdownFails, End
  <2> QED  BY <1>0, <2>1, QuietPipes, PipesAreKept
<1>4. CASE Check(t) \/ Bind(t) \/ Snapshot(t) \/ Remove(t) \/ ShutdownConnection(t)
  <2>1. task[t].pc \notin {"read", "reply"} /\ task[t].buf = <<>>
      BY <1>4 DEF Check, Bind, Snapshot, Remove, ShutdownConnection, PipesInv, CallOK, Holding
  <2>2. /\ GoesOn(t, [task[t] EXCEPT !.pc = "snapshot"])
        /\ GoesOn(t, [task[t] EXCEPT !.pc = "connect"])
        /\ GoesOn(t, [task[t] EXCEPT !.pc = "connect", !.c = None])
        /\ GoesOn(t, [task[t] EXCEPT !.pc = "register", !.c = bound])
        /\ GoesOn(t, [task[t] EXCEPT !.pc = "await", !.c = bound])
      BY <1>0, <2>1 DEF GoesOn, Row
  <2>3. PICK r : GoesOn(t, r) /\ task' = [task EXCEPT ![t] = r]
      BY <1>1, <1>4, <2>2
         DEF Check, Bind, Snapshot, Remove, ShutdownConnection, AfterDisconnect, Goto, End
  <2>4. \A u \in Tasks : SameCall(u)
      BY <2>3, CallsGoOn
  <2> QED  BY <1>0, <2>4, QuietPipes, PipesAreKept
<1> QED  BY <1>2, <1>3, <1>4

LEMMA ConnectKeepsPipes ==
    ASSUME TypeOK, TypeOK', PipesInv, NEW t \in Tasks, Connect(t)
    PROVE  PipesInv'
<1>1. started + 1 \in Conns /\ ~Holding(t)
    BY ConnectionAssumption DEF TypeOK, Connect, Conns, Holding
<1> QED  BY <1>1, SendKeepsPipes DEF Connect

AnswerInv == TypeOK /\ PipesInv /\ OwnAnswer

LEMMA AnsweredTruly ==
    ASSUME AnswerInv, NEW t \in Tasks, Answered(t)
    PROVE  OwnAnswer'
<1> DEFINE f == task[t].buf[1].of
<1>1. TypeOK /\ PipesInv /\ Holding(t) /\ HasFrame(task[t].buf)
    BY DEF Answered, Reading, Holding, AnswerInv
<1>2. task[t].buf[1] \in OwnPiece(task[t].c)
    BY <1>1, RestOwned
<1>3. Own(task[t].c, f.id, f.call) /\ f.id = task[t].id
    BY <1>2 DEF OwnPiece, Answered, IsAnswer
<1>4. task[t].call = f.call
    BY <1>1, <1>3 DEF Own
<1>5. answers' = answers \cup {<<task[t].call, f.call>>}
    BY DEF Answered
<1> QED  BY <1>4, <1>5 DEF AnswerInv, OwnAnswer

LEMMA AnswerInvIsKept ==
    ASSUME AnswerInv, [Next]_vars
    PROVE  AnswerInv'
<1>1. TypeOK' /\ TypeOK /\ PipesInv
    BY TypesAreKept DEF AnswerInv
<1>2. ASSUME UNCHANGED answers PROVE OwnAnswer'
    BY <1>2 DEF AnswerInv, OwnAnswer
<1>3. CASE \E t \in Tasks : Begin(t) \/ TaskStep(t) \/ Drop(t)
  <2>1. PICK t \in Tasks : Begin(t) \/ TaskStep(t) \/ Drop(t)
      BY <1>3
  <2>2. PipesInv'
      BY <1>1, <2>1, ClientKeepsPipes, ConnectKeepsPipes, ManagerKeepsPipes DEF TaskStep
  <2>3. CASE Answered(t)
      BY <1>1, <2>2, <2>3, AnsweredTruly DEF AnswerInv
  <2>4. CASE ~Answered(t)
    <3>1. UNCHANGED answers
      <4>1. CASE ClientStep(t)
          BY <2>4, <4>1 DEF ClientStep, CallTool, Receive, EndOfFile, Skip, HandleServerRequest,
             Reply, Refuse, SendReply, connVars
      <4> QED  BY <2>1, <4>1
             DEF TaskStep, Begin, Check, Connect, SpawnFails, Bind, Snapshot, Register, Remove,
                 ShutdownConnection, ShutdownFails, Drop, connVars
    <3> QED  BY <1>1, <1>2, <2>2, <3>1 DEF AnswerInv
  <2> QED  BY <2>3, <2>4
<1>4. CASE \E c \in Conns : Serving(c) \/ Environment(c)
  <2>1. PipesInv'
      BY <1>1, <1>4, ServerKeepsPipes DEF Serving, Environment
  <2>2. UNCHANGED answers
      BY <1>4 DEF Serving, Environment, ServerStep, TakeMessage, Answer, Ask, Notify, Die,
         ServerUnchanged
  <2> QED  BY <1>1, <1>2, <2>1, <2>2 DEF AnswerInv
<1>5. CASE (\E c \in Conns : ServerExits(c)) \/ UNCHANGED vars
  <2>1. UNCHANGED <<task, nextId, pipes, server, answers>>
      BY <1>5 DEF ServerExits, vars, connVars
  <2>2. \A u \in Tasks : SameCall(u)
      BY <2>1 DEF AnswerInv, PipesInv, CallOK, SameCall, Holding
  <2>3. PipesInv'
      BY <1>1, <2>1, <2>2, QuietPipes, PipesAreKept
  <2> QED  BY <1>1, <1>2, <2>1, <2>3 DEF AnswerInv
<1> QED  BY <1>3, <1>4, <1>5 DEF Next

\* A call gets the answer to its own request, although calls are dropped and
\* leave their responses in the pipe (read_jsonrpc_response_for).
THEOREM AnswersAreOwn == Spec => []OwnAnswer
<1>1. Init => AnswerInv
  <2>1. \A S : <<>> \in Seq(S)
      OBVIOUS
  <2>2. Init => PipesInv
      BY <2>1 DEF Init, ConnInit, PipesInv, PipeOK, CallOK, Holding, IdleTask
  <2> QED  BY <2>2, TypesAtFirst DEF AnswerInv, OwnAnswer, Init, ConnInit
<1>2. AnswerInv => OwnAnswer
    BY DEF AnswerInv
<1> QED  BY <1>1, <1>2, AnswerInvIsKept, PTL DEF Spec

(***************************************************************************)
(* A call in flight is not cut off.                                        *)
(***************************************************************************)
SparedInv == TypeOK /\ CallsAreSpared

LEMMA SparedIsKept ==
    ASSUME SparedInv, [Next]_vars
    PROVE  SparedInv'
<1>0. /\ TypeOK' /\ task \in [Tasks -> Row] /\ up \in [Conns -> BOOLEAN]
      /\ \A u \in Tasks : Holding(u) => task[u].c \in Conns
    BY TypesAreKept DEF SparedInv, TypeOK, ConnTypeOK, Holding, RowOK, Working
<1> DEFINE Spared(u) == \/ ~Holding(u)' \/ up'[task'[u].c] \/ task'[u].c \in died'
                        \/ /\ Holding(u) /\ task'[u].c = task[u].c /\ died \subseteq died'
                           /\ up[task[u].c] => up'[task[u].c]
<1>1. ASSUME \A u \in Tasks : Spared(u)
      PROVE  SparedInv'
    BY <1>0, <1>1 DEF SparedInv, CallsAreSpared
<1>2. ASSUME NEW t \in Tasks, Begin(t) \/ TaskStep(t) \/ Drop(t),
             ~(ShutdownConnection(t) \/ ShutdownFails(t))
      PROVE  \A u \in Tasks : Spared(u)
  <2>1. died' = died /\ (up' = up \/ Connect(t))
      BY <1>2 DEF TaskStep, ClientStep, CallTool, Receive, EndOfFile, Answered, Skip,
         HandleServerRequest, Reply, Refuse, SendReply, Begin, Check, Connect, SpawnFails, Bind, Snapshot, Register,
         Remove, Drop, connVars
  <2>2. CASE Connect(t)
    <3>1. /\ up' = [up EXCEPT ![started + 1] = TRUE] /\ started + 1 \in Conns
          /\ task' = [task EXCEPT ![t] = [@ EXCEPT !.pc = "read", !.c = started + 1,
                         !.id = nextId[started + 1], !.call = requests + 1]]
        BY <2>2, ConnectionAssumption DEF Connect, Send, SparedInv, TypeOK, Conns
    <3>2. task'[t].c = started + 1 /\ \A u \in Tasks : u # t => task'[u] = task[u]
        BY <1>0, <3>1 DEF Row
    <3> QED  BY <1>0, <2>1, <3>1, <3>2 DEF Holding
  <2>3. CASE ~Connect(t)
    <3>1. up' = up
        BY <2>1, <2>3
    <3>2. \A u \in Tasks : u # t => task'[u] = task[u]
        BY <1>0, <1>2, <2>3 DEF TaskStep, ClientStep, CallTool, Send, Receive, EndOfFile, Answered,
           Skip, HandleServerRequest, Reply, Refuse, SendReply, Begin, Check, SpawnFails, Bind, Snapshot, Register,
           Remove, AfterDisconnect, Drop, Goto, End
    <3>3. ASSUME Holding(t)'
          PROVE  \/ up[task'[t].c]
                 \/ Holding(t) /\ task'[t].c = task[t].c
      <4>0. ASSUME task' = [task EXCEPT ![t] = IdleTask]
            PROVE  ~Holding(t)'
          BY <1>0, <4>0 DEF IdleTask, Holding
      <4>1. CASE ClientStep(t)
        <5>1. CASE CallTool(t)
          <6> DEFINE c == task[t].c
          <6>1. CASE up[c] /\ Send(t, c)
            <7>1. task'[t].c = c
                BY <1>0, <6>1 DEF Send, Row
            <7> QED  BY <6>1, <7>1
          <6>2. CASE End(t)
              BY <3>3, <4>0, <6>2 DEF End
          <6> QED  BY <5>1, <6>1, <6>2 DEF CallTool
        <5>2. CASE EndOfFile(t)
            BY <3>3, <4>0, <5>2 DEF EndOfFile, End
        <5>3. CASE Receive(t) \/ Skip(t)
          <6>1. ASSUME NEW b, task' = [task EXCEPT ![t].buf = b]
                PROVE  task'[t].c = task[t].c
              BY <1>0, <6>1 DEF Row
          <6> QED  BY <5>3, <6>1 DEF Receive, Skip, Reading, Holding
        <5>4. CASE HandleServerRequest(t)
            BY <1>0, <5>4 DEF HandleServerRequest, Asked, Reading, Goto, Holding, Row
        <5>5. CASE Reply(t) \/ Refuse(t)
          <6>1. ASSUME NEW b, task' = [task EXCEPT ![t] = [@ EXCEPT !.pc = "read", !.buf = b]]
                PROVE  task'[t].c = task[t].c
              BY <1>0, <6>1 DEF Row
          <6> QED  BY <5>5, <6>1 DEF Reply, Refuse, SendReply, Asked, Reading, Holding
        <5>6. CASE Answered(t)
          <6>1. CASE End(t)
              BY <3>3, <4>0, <6>1 DEF End
          <6>2. CASE task' = [task EXCEPT ![t] = [@ EXCEPT !.pc = "bind", !.buf = <<>>]]
              BY <1>0, <3>3, <6>2 DEF Holding, Row
          <6> QED  BY <5>6, <6>1, <6>2 DEF Answered
        <5> QED  BY <4>1, <5>1, <5>2, <5>3, <5>4, <5>5, <5>6 DEF ClientStep
      <4>2. CASE Begin(t)
        <5>1. \A op \in Ops : First(op) \notin {"read", "reply"}
            BY DEF First, Ops
        <5> QED  BY <1>0, <3>3, <4>2, <5>1 DEF Begin, IdleTask, Holding
      <4>3. CASE \/ Check(t) \/ SpawnFails(t) \/ Bind(t) \/ Snapshot(t) \/ Register(t)
                \/ Remove(t) \/ Drop(t)
        <5>1. ASSUME NEW p, p \notin {"read", "reply"}, NEW c,
                     \/ task' = [task EXCEPT ![t].pc = p]
                     \/ task' = [task EXCEPT ![t] = [@ EXCEPT !.pc = p, !.c = c]]
              PROVE  ~Holding(t)'
          <6>1. task'[t].pc = p
              BY <1>0, <5>1 DEF Row
          <6> QED  BY <5>1, <6>1 DEF Holding
        <5> QED  BY <3>3, <4>0, <4>3, <5>1
               DEF Check, SpawnFails, Bind, Snapshot, Register, Remove, AfterDisconnect, Drop,
                   Goto, End
      <4> QED  BY <1>2, <2>3, <4>1, <4>2, <4>3 DEF TaskStep
    <3> QED  BY <2>1, <3>1, <3>2, <3>3 DEF Holding
  <2> QED  BY <2>2, <2>3
<1>3. ASSUME NEW t \in Tasks, ShutdownConnection(t) \/ ShutdownFails(t)
      PROVE  \A u \in Tasks : Spared(u)
  <2>1. ~Holding(t)' /\ \A u \in Tasks : u # t => task'[u] = task[u]
    <3>1. CASE task' = [task EXCEPT ![t] = IdleTask]
        BY <1>0, <3>1 DEF IdleTask, Holding
    <3>2. CASE task' = [task EXCEPT ![t] = [@ EXCEPT !.pc = "connect", !.c = None]]
        BY <1>0, <3>2 DEF Holding, Row
    <3> QED  BY <1>3, <3>1, <3>2 DEF ShutdownConnection, ShutdownFails, AfterDisconnect, End
  <2>2. died' = died /\ \A u \in Tasks : Holding(u) => up'[task[u].c] = up[task[u].c]
      BY <1>0, <1>3 DEF ShutdownConnection, ShutdownFails, Free
  <2> QED  BY <2>1, <2>2 DEF Holding
<1>4. ASSUME NEW c \in Conns, Serving(c) \/ Environment(c) \/ ServerExits(c)
      PROVE  \A u \in Tasks : Spared(u)
  <2>1. task' = task /\ died \subseteq died'
      BY <1>4 DEF Serving, Environment, ServerExits, ServerStep, TakeMessage, Answer, Ask, Notify,
         Die, ServerUnchanged
  <2>2. \A u \in Tasks : Holding(u) => up'[task[u].c] = up[task[u].c] \/ task[u].c \in died'
      BY <1>0, <1>4 DEF Serving, Environment, ServerExits, ServerStep, TakeMessage, Answer, Ask,
         Notify, Die, Held
  <2> QED  BY <2>1, <2>2 DEF Holding
<1>5. CASE UNCHANGED vars
    BY <1>1, <1>5 DEF vars, connVars, Holding
<1> QED  BY <1>1, <1>2, <1>3, <1>4, <1>5 DEF Next

\* A call that has sent its request finds the subprocess gone only when that
\* died by itself: no disconnect or reconnect cuts it off (shutdown waits for
\* the mutex, disconnect_server).
THEOREM CallsSpared == Spec => []CallsAreSpared
<1>1. Init => SparedInv
    BY TypesAtFirst DEF SparedInv, CallsAreSpared, Init, ConnInit, Holding, IdleTask
<1>2. SparedInv => CallsAreSpared
    BY DEF SparedInv
<1> QED  BY <1>1, <1>2, SparedIsKept, PTL DEF Spec

(***************************************************************************)
(* The bound connection is alive.  A connection is fresh until its         *)
(* handshake is over and it is bound: until then it belongs to one task    *)
(* only.  One that a task waits to shut down is bound no more, and never   *)
(* will be.                                                                *)
(***************************************************************************)
FreshRow(r) == r.op # "call" /\ r.pc \in {"read", "reply", "bind"}
Fresh(t, c) == FreshRow(task[t]) /\ task[t].c = c

RowKnows(r) ==
    /\ r.pc = "lock" => r.op = "call"
    /\ r.pc \in {"check", "connect", "bind"} => r.op # "call"
    /\ r.pc \in {"remove", "await"} => r.op \in {"disconnect", "reconnect"}

Started ==
    /\ bound <= started /\ registered <= started
    /\ \A t \in Tasks : task[t].c <= started

FreshAlone ==
    \A t \in Tasks : \A c \in Conns : Fresh(t, c) =>
        /\ bound # c /\ registered # c
        /\ \A u \in Tasks : u # t => task[u].c # c

Usable(c) == open[c] /\ (up[c] \/ c \in died)

UsedAreUsable ==
    \A c \in Conns : bound = c \/ (\E t \in Tasks : Fresh(t, c)) => Usable(c)

AwaitedIsUnbound == \A t \in Tasks : task[t].pc = "await" => task[t].c # bound

AliveInv == /\ TypeOK /\ Started /\ (\A t \in Tasks : RowKnows(task[t]))
            /\ FreshAlone /\ UsedAreUsable /\ AwaitedIsUnbound

\* A task goes on with its connection, or lets go of it, or takes one that is
\* bound or registered.
LEMMA RowMovesOn ==
    ASSUME AliveInv, TypeOK', NEW t \in Tasks, NEW r \in Row, RowKnows(r),
           task' = [task EXCEPT ![t] = r], UNCHANGED <<up, open, died, started, bound, registered>>,
           r.pc # "await",
           \/ r.c = task[t].c /\ (FreshRow(r) <=> FreshRow(task[t]))
           \/ r.c = None
           \/ r.c \in {bound, registered} /\ ~FreshRow(r) /\ ~FreshRow(task[t])
    PROVE  AliveInv'
<1>1. /\ task'[t] = r /\ \A u \in Tasks : u # t => task'[u] = task[u]
      /\ \A c \in Conns : c # None
    BY DEF AliveInv, TypeOK, ConnTypeOK, Conns, None
<1>2. \A u \in Tasks : RowKnows(task'[u])
    BY <1>1 DEF AliveInv
<1>5. Started'
  <2>1. r.c <= started
      BY ConnectionAssumption DEF AliveInv, Started, TypeOK, None
  <2> QED  BY <1>1, <2>1 DEF AliveInv, Started
<1>3. FreshAlone'
  <2>1. ASSUME NEW c \in Conns, Fresh(t, c)'
        PROVE  bound # c /\ registered # c /\ \A u \in Tasks : u # t => task[u].c # c
    <3>1. Fresh(t, c)
        BY <1>1, <2>1 DEF Fresh
    <3> QED  BY <3>1 DEF AliveInv, FreshAlone
  <2>2. ASSUME NEW c \in Conns, NEW u \in Tasks, u # t, Fresh(u, c)'
        PROVE  bound # c /\ registered # c /\ \A v \in Tasks : v # u => task'[v].c # c
    <3>1. Fresh(u, c)
        BY <1>1, <2>2 DEF Fresh
    <3>2. bound # c /\ registered # c /\ \A v \in Tasks : v # u => task[v].c # c
        BY <3>1 DEF AliveInv, FreshAlone
    <3> QED  BY <1>1, <2>2, <3>2
  <2> QED  BY <1>1, <2>1, <2>2 DEF FreshAlone
<1>4. UsedAreUsable' /\ AwaitedIsUnbound'
  <2>1. \A c \in Conns : Fresh(t, c)' => Fresh(t, c)
      BY <1>1 DEF Fresh
  <2>2. \A c \in Conns : \A u \in Tasks : Fresh(u, c)' => Fresh(u, c)
      BY <1>1, <2>1 DEF Fresh
  <2> QED  BY <1>1, <2>2 DEF AliveInv, UsedAreUsable, Usable, AwaitedIsUnbound
<1> QED  BY <1>2, <1>3, <1>4, <1>5 DEF AliveInv

\* A subprocess dies by itself, or was told to exit as nobody uses it.
LEMMA OthersDie ==
    ASSUME AliveInv, TypeOK', UNCHANGED <<task, open, started, bound, registered>>,
           died \subseteq died',
           \A c \in Conns : up[c] /\ ~up'[c] =>
               c \in died' \/ ~(bound = c \/ \E t \in Tasks : task[t].c = c)
    PROVE  AliveInv'
<1>1. Started' /\ FreshAlone' /\ AwaitedIsUnbound' /\ \A u \in Tasks : RowKnows(task'[u])
    BY DEF AliveInv, Started, FreshAlone, Fresh, AwaitedIsUnbound
<1>2. UsedAreUsable'
    BY DEF AliveInv, UsedAreUsable, Usable, Fresh
<1> QED  BY <1>1, <1>2 DEF AliveInv

LEMMA ClientAlive ==
    ASSUME AliveInv, TypeOK', NEW t \in Tasks, ClientStep(t), UNCHANGED managerVars
    PROVE  AliveInv'
<1>0. /\ task \in [Tasks -> Row] /\ task[t] \in Row /\ RowKnows(task[t])
      /\ UNCHANGED <<up, open, died, started, bound, registered>>
    BY DEF AliveInv, TypeOK, ConnTypeOK, managerVars, ClientStep, CallTool, Receive, EndOfFile,
       Answered, Skip, HandleServerRequest, Reply, Refuse, SendReply, connVars
<1>1. ASSUME End(t) PROVE AliveInv'
    BY <1>0, <1>1, IdleTyped, RowMovesOn DEF End, IdleTask, RowKnows, TaskTypes, None
<1>2. task' \in [Tasks -> Row]
    BY DEF TypeOK, ConnTypeOK
<1>3. ASSUME NEW r, task' = [task EXCEPT ![t] = r], r.c = task[t].c, r.op = task[t].op,
             r.pc \in {"read", "reply", "bind"}, r.pc = "bind" => r.op # "call",
             FreshRow(task[t]) \/ task[t].op = "call"
      PROVE  AliveInv'
  <2>1. r \in Row
      BY <1>2, <1>3
  <2>2. RowKnows(r) /\ (FreshRow(r) <=> FreshRow(task[t]))
      BY <1>3 DEF RowKnows, FreshRow
  <2> QED  BY <1>0, <1>3, <2>1, <2>2, RowMovesOn
<1>4. CASE CallTool(t)
  <2>1. CASE Send(t, task[t].c)
    <3> DEFINE r == [task[t] EXCEPT !.pc = "read", !.c = task[t].c, !.id = nextId[task[t].c],
                                   !.call = requests + 1]
    <3>1. task' = [task EXCEPT ![t] = r] /\ r.c = task[t].c /\ r.op = task[t].op /\ r.pc = "read"
        BY <1>0, <2>1 DEF Send, Row
    <3>2. task[t].op = "call"
        BY <1>0, <1>4 DEF CallTool, RowKnows
    <3> HIDE DEF r
    <3> QED  BY <1>3, <3>1, <3>2
  <2> QED  BY <1>1, <1>4, <2>1 DEF CallTool
<1>5. CASE EndOfFile(t)
    BY <1>1, <1>5 DEF EndOfFile
<1>6. CASE Receive(t) \/ Skip(t)
  <2>1. PICK b : task' = [task EXCEPT ![t].buf = b]
      BY <1>6 DEF Receive, Skip
  <2> DEFINE r == [task[t] EXCEPT !.buf = b]
  <2>2. task' = [task EXCEPT ![t] = r] /\ r.c = task[t].c /\ r.op = task[t].op /\ r.pc = "read"
      BY <1>0, <1>6, <2>1 DEF Receive, Skip, Reading, Row
  <2>3. FreshRow(task[t]) \/ task[t].op = "call"
      BY <1>6 DEF Receive, Skip, Reading, FreshRow
  <2> HIDE DEF r
  <2> QED  BY <1>3, <2>2, <2>3
<1>7. CASE HandleServerRequest(t)
  <2> DEFINE r == [task[t] EXCEPT !.pc = "reply"]
  <2>2. task' = [task EXCEPT ![t] = r] /\ r.c = task[t].c /\ r.op = task[t].op /\ r.pc = "reply"
      BY <1>0, <1>7 DEF HandleServerRequest, Goto, Row
  <2>3. FreshRow(task[t]) \/ task[t].op = "call"
      BY <1>7 DEF HandleServerRequest, Asked, Reading, FreshRow
  <2> HIDE DEF r
  <2> QED  BY <1>3, <2>2, <2>3
<1>8. CASE Reply(t) \/ Refuse(t)
  <2> DEFINE r == [task[t] EXCEPT !.pc = "read", !.buf = Rest(t)]
  <2>2. task' = [task EXCEPT ![t] = r] /\ r.c = task[t].c /\ r.op = task[t].op /\ r.pc = "read"
      BY <1>0, <1>8 DEF Reply, Refuse, SendReply, Row
  <2>3. FreshRow(task[t]) \/ task[t].op = "call"
      BY <1>8 DEF Reply, Refuse, Asked, Reading, FreshRow
  <2> HIDE DEF r
  <2> QED  BY <1>3, <2>2, <2>3
<1>9. CASE Answered(t)
  <2>1. CASE task[t].op # "call" /\ task' = [task EXCEPT ![t] = [@ EXCEPT !.pc = "bind", !.buf = <<>>]]
    <3> DEFINE r == [task[t] EXCEPT !.pc = "bind", !.buf = <<>>]
    <3>2. task' = [task EXCEPT ![t] = r] /\ r.c = task[t].c /\ r.op = task[t].op /\ r.pc = "bind"
        BY <1>0, <2>1 DEF Row
    <3>3. FreshRow(task[t]) /\ task[t].op # "call"
        BY <1>9, <2>1 DEF Answered, Reading, FreshRow
    <3> HIDE DEF r
    <3> QED  BY <1>3, <3>2, <3>3
  <2> QED  BY <1>1, <1>9, <2>1 DEF Answered
<1> QED
    BY <1>4, <1>5, <1>6, <1>7, <1>8, <1>9 DEF ClientStep

\* The steps of the manager that start, bind or shut down nothing.
LEMMA ManagerAlive ==
    ASSUME AliveInv, TypeOK', NEW t \in Tasks,
           \/ Begin(t) \/ Check(t) \/ SpawnFails(t) \/ Snapshot(t) \/ Drop(t)
           \/ Remove(t) /\ bound = None
    PROVE  AliveInv'
<1>0. /\ task \in [Tasks -> Row] /\ task[t] \in Row /\ RowKnows(task[t]) /\ task' \in [Tasks -> Row]
    BY DEF AliveInv, TypeOK, ConnTypeOK
<1>1. /\ UNCHANGED <<up, open, died, started, bound, registered>>
      /\ Drop(t) \/ ~FreshRow(task[t])
    BY <1>0 DEF Begin, Check, SpawnFails, Snapshot, Drop, Remove, RowKnows, FreshRow, connVars, managerVars
<1>2. ASSUME End(t) PROVE AliveInv'
    BY <1>0, <1>1, <1>2, IdleTyped, RowMovesOn DEF End, IdleTask, RowKnows, TaskTypes, None
<1>3. ASSUME NEW r, task' = [task EXCEPT ![t] = r], RowKnows(r), ~FreshRow(r), ~FreshRow(task[t]),
             r.c \in {task[t].c, None, bound, registered}, r.pc # "await"
      PROVE  AliveInv'
  <2>1. r \in Row
      BY <1>0, <1>3
  <2> QED  BY <1>0, <1>1, <1>3, <2>1, RowMovesOn
<1>4. CASE Begin(t)
  <2>1. PICK op \in Ops \ {"none"} :
            task' = [task EXCEPT ![t] = [IdleTask EXCEPT
                   !.op = op, !.pc = First(op), !.c = IF op = "call" THEN registered ELSE None]]
      BY <1>4 DEF Begin
  <2> DEFINE r == [IdleTask EXCEPT
                   !.op = op, !.pc = First(op), !.c = IF op = "call" THEN registered ELSE None]
  <2>2. RowKnows(r) /\ ~FreshRow(r) /\ r.c \in {None, registered} /\ r.pc # "await"
      BY DEF IdleTask, First, Ops, RowKnows, FreshRow
  <2>3. ~FreshRow(task[t])
      BY <1>4 DEF Begin, FreshRow
  <2> HIDE DEF r
  <2> QED  BY <1>3, <2>1, <2>2, <2>3 DEF r
<1>5. CASE Check(t) \/ SpawnFails(t) \/ Snapshot(t) \/ (Remove(t) /\ bound = None)
  <2>1. ASSUME NEW r, task' = [task EXCEPT ![t] = r], r.op = task[t].op,
               r.pc \in {"snapshot", "connect", "register"}, r.pc = "connect" => task[t].op # "call",
               r.c \in {task[t].c, None, bound}
        PROVE  AliveInv'
    <3>1. RowKnows(r) /\ ~FreshRow(r) /\ ~FreshRow(task[t])
        BY <1>1, <1>5, <2>1 DEF RowKnows, FreshRow, Drop, Check, SpawnFails, Snapshot, Remove
    <3> QED  BY <1>3, <2>1, <3>1
  <2>2. CASE Check(t)
    <3>1. PICK p \in {"snapshot", "connect"} : task' = [task EXCEPT ![t] = [task[t] EXCEPT !.pc = p]]
        BY <2>2 DEF Check, Goto
    <3> DEFINE r == [task[t] EXCEPT !.pc = p]
    <3>2. r.op = task[t].op /\ r.pc = p /\ r.c = task[t].c /\ task[t].op # "call"
        BY <1>0, <2>2 DEF Row, RowKnows, Check
    <3> HIDE DEF r
    <3> QED  BY <2>1, <3>1, <3>2 DEF r
  <2>3. CASE SpawnFails(t)
      BY <1>2, <2>3 DEF SpawnFails
  <2>4. CASE Snapshot(t)
    <3> DEFINE r == [task[t] EXCEPT !.pc = "register", !.c = bound]
    <3>1. r.op = task[t].op /\ r.pc = "register" /\ r.c = bound
        BY <1>0 DEF Row
    <3>2. End(t) \/ task' = [task EXCEPT ![t] = r]
        BY <2>4 DEF Snapshot
    <3> HIDE DEF r
    <3> QED  BY <1>2, <2>1, <3>1, <3>2
  <2>5. CASE Remove(t) /\ bound = None
    <3> DEFINE r == [task[t] EXCEPT !.pc = "connect", !.c = None]
    <3>1. r.op = task[t].op /\ r.pc = "connect" /\ r.c = None
        BY <1>0 DEF Row
    <3>2. End(t) \/ (task' = [task EXCEPT ![t] = r] /\ task[t].op # "call")
        BY <2>5 DEF Remove, AfterDisconnect
    <3> HIDE DEF r
    <3> QED  BY <1>2, <2>1, <3>1, <3>2
  <2> QED  BY <1>5, <2>2, <2>3, <2>4, <2>5
<1>6. CASE Drop(t)
    BY <1>2, <1>6 DEF Drop
<1> QED  BY <1>4, <1>5, <1>6

\* A new connection is its task's alone.
LEMMA ConnectAlive ==
    ASSUME AliveInv, TypeOK', NEW t \in Tasks, Connect(t)
    PROVE  AliveInv'
<1> DEFINE n == started + 1
<1>0. /\ task \in [Tasks -> Row] /\ n \in Conns /\ started \in Nat /\ RowKnows(task[t])
      /\ up \in [Conns -> BOOLEAN] /\ open \in [Conns -> BOOLEAN] /\ \A c \in Conns : c \in Nat
      /\ bound \in Nat /\ registered \in Nat /\ \A u \in Tasks : task[u].c \in Nat
  <2>1. /\ task \in [Tasks -> Row] /\ RowKnows(task[t]) /\ started \in 0..MaxConns
        /\ up \in [Conns -> BOOLEAN] /\ open \in [Conns -> BOOLEAN] /\ bound \in Conns \cup {None} /\ registered \in Conns \cup {None}
      BY DEF AliveInv, TypeOK, ConnTypeOK
  <2>2. (\A c \in Conns \cup {None} : c \in Nat) /\ started \in Nat
      BY <2>1, ConnectionAssumption DEF Conns, None
  <2>3. n \in Conns
      BY <2>1, ConnectionAssumption DEF Connect, Conns
  <2>4. \A u \in Tasks : task[u].c \in Conns \cup {None}
      BY <2>1 DEF Row
  <2> QED  BY <2>1, <2>2, <2>3, <2>4
<1>1. /\ started' = n /\ up' = [up EXCEPT ![n] = TRUE] /\ open' = [open EXCEPT ![n] = TRUE]
      /\ task[t].pc = "connect" /\ UNCHANGED <<died, bound, registered>>
    BY DEF Connect
<1>2. /\ task'[t].pc = "read" /\ task'[t].op = task[t].op /\ task'[t].c = n /\ task[t].op # "call"
      /\ \A u \in Tasks : u # t => task'[u] = task[u]
    BY <1>0 DEF Connect, Send, Row, RowKnows
<1>3. bound < n /\ registered < n /\ \A u \in Tasks : task[u].c < n
    BY <1>0 DEF AliveInv, Started
<1>4. Started' /\ \A u \in Tasks : RowKnows(task'[u])
    BY <1>0, <1>1, <1>2, <1>3 DEF AliveInv, Started, RowKnows
<1>5. FreshAlone'
    BY <1>0, <1>1, <1>2, <1>3 DEF AliveInv, FreshAlone, Fresh, FreshRow
<1>6. UsedAreUsable' /\ AwaitedIsUnbound'
  <2>1. \A c \in Conns : c = n \/ Usable(c) => Usable(c)'
      BY <1>0, <1>1 DEF Usable
  <2>2. \A c \in Conns : c # n => \A u \in Tasks : Fresh(u, c)' => Fresh(u, c)
      BY <1>2 DEF Fresh
  <2> QED  BY <1>0, <1>1, <1>2, <2>1, <2>2 DEF AliveInv, UsedAreUsable, AwaitedIsUnbound
<1> QED  BY <1>4, <1>5, <1>6 DEF AliveInv

\* A binding is made, given to the registry, or taken out to be shut down.
LEMMA BindingAlive ==
    ASSUME AliveInv, TypeOK', NEW t \in Tasks,
           Bind(t) \/ Register(t) \/ (Remove(t) /\ bound # None)
    PROVE  AliveInv'
<1>0. /\ task \in [Tasks -> Row] /\ RowKnows(task[t]) /\ \A c \in Conns : c # None
      /\ None <= started /\ UNCHANGED <<up, open, died, started>>
      /\ \A u \in Tasks : u # t => task'[u] = task[u]
  <2>1. task \in [Tasks -> Row] /\ RowKnows(task[t]) /\ started \in 0..MaxConns
      BY DEF AliveInv, TypeOK, ConnTypeOK
  <2>2. UNCHANGED <<up, open, died, started>>
      BY DEF Bind, Register, Remove, connVars
  <2>3. \A u \in Tasks : u # t => task'[u] = task[u]
      BY <2>1 DEF Bind, Register, Remove, Goto, End
  <2>4. (\A c \in Conns : c # None) /\ None <= started
      BY <2>1, ConnectionAssumption DEF Conns, None
  <2> QED  BY <2>1, <2>2, <2>3, <2>4
<1>1. CASE Bind(t)
  <2> DEFINE d == task[t].c
  <2>1. /\ bound' = d /\ registered' = registered
        /\ d \in Conns /\ Fresh(t, d)
      BY <1>0, <1>1 DEF Bind, Fresh, FreshRow, RowKnows, AliveInv, TypeOK, ConnTypeOK, RowOK, Working
  <2>2. task'[t].c \in {d, None} /\ ~FreshRow(task'[t]) /\ RowKnows(task'[t])
    <3>1. CASE End(t)
        BY <1>0, <3>1 DEF End, IdleTask, FreshRow, RowKnows
    <3>2. CASE Goto(t, "snapshot")
      <4>1. task'[t].pc = "snapshot" /\ task'[t].c = d
          BY <1>0, <3>2 DEF Goto, Row
      <4> QED  BY <4>1 DEF FreshRow, RowKnows
    <3> QED  BY <1>1, <3>1, <3>2 DEF Bind
  <2>3. /\ d # bound /\ d # registered /\ \A u \in Tasks : u # t => task[u].c # d
      BY <2>1 DEF AliveInv, FreshAlone
  <2>4. Started' /\ \A u \in Tasks : RowKnows(task'[u])
      BY <1>0, <2>1, <2>2 DEF AliveInv, Started
  <2>5. FreshAlone'
      BY <1>0, <2>1, <2>2, <2>3 DEF AliveInv, FreshAlone, Fresh
  <2>6 UsedAreUsable' /\ AwaitedIsUnbound'
    <3>1. \A c \in Conns : \A u \in Tasks : Fresh(u, c)' => Fresh(u, c)
        BY <1>0, <2>2 DEF Fresh
    <3>2. Usable(d)
        BY <2>1 DEF AliveInv, UsedAreUsable
    <3>3. task'[t].pc # "await"
        BY <1>0, <1>1 DEF Bind, Goto, End, IdleTask, Row
    <3> QED  BY <1>0, <2>1, <2>3, <3>1, <3>2, <3>3
               DEF AliveInv, UsedAreUsable, Usable, AwaitedIsUnbound
  <2> QED  BY <2>4, <2>5, <2>6 DEF AliveInv
<1>2. CASE Register(t)
  <2> DEFINE d == task[t].c
  <2>1. /\ registered' = d /\ UNCHANGED bound /\ d \in Conns
        /\ task'[t] = IdleTask /\ task[t].pc = "register"
      BY <1>0, <1>2 DEF Register, End, AliveInv, TypeOK, ConnTypeOK, RowOK, Working
  <2>2. ~FreshRow(task'[t]) /\ RowKnows(task'[t]) /\ task'[t].c = None
      BY <2>1 DEF IdleTask, FreshRow, RowKnows
  <2>3. Started' /\ \A u \in Tasks : RowKnows(task'[u])
      BY <1>0, <2>1, <2>2 DEF AliveInv, Started
  <2>4. FreshAlone'
      BY <1>0, <2>1, <2>2 DEF AliveInv, FreshAlone, Fresh
  <2>5 UsedAreUsable' /\ AwaitedIsUnbound'
    <3>1. \A c \in Conns : \A u \in Tasks : Fresh(u, c)' => Fresh(u, c)
        BY <1>0, <2>2 DEF Fresh
    <3> QED  BY <1>0, <2>1, <3>1 DEF AliveInv, UsedAreUsable, Usable, AwaitedIsUnbound, IdleTask
  <2> QED  BY <2>3, <2>4, <2>5 DEF AliveInv
<1>3. CASE Remove(t) /\ bound # None
  <2>1. /\ bound' = None /\ UNCHANGED registered /\ bound \in Conns
        /\ task[t].pc = "remove"
      BY <1>3 DEF Remove, AliveInv, TypeOK
  <2>2. /\ task'[t].pc = "await" /\ task'[t].c = bound /\ task'[t].op = task[t].op
        /\ task[t].op \in {"disconnect", "reconnect"}
      BY <1>0, <1>3 DEF Remove, Row, RowKnows
  <2>3. ~FreshRow(task'[t]) /\ RowKnows(task'[t])
      BY <2>2 DEF FreshRow, RowKnows
  <2>4. Started' /\ \A u \in Tasks : RowKnows(task'[u])
      BY <1>0, <2>1, <2>2, <2>3 DEF AliveInv, Started
  <2>5. FreshAlone'
      BY <1>0, <2>1, <2>2, <2>3 DEF AliveInv, FreshAlone, Fresh
  <2>6 UsedAreUsable' /\ AwaitedIsUnbound'
    <3>1. \A c \in Conns : \A u \in Tasks : Fresh(u, c)' => Fresh(u, c)
        BY <1>0, <2>3 DEF Fresh
    <3>2. \A u \in Tasks : task[u].pc = "await" => task[u].c # None
        BY <1>0 DEF AliveInv, TypeOK, ConnTypeOK, RowOK, Working
    <3> QED  BY <1>0, <2>1, <2>2, <3>1, <3>2
               DEF AliveInv, UsedAreUsable, Usable, AwaitedIsUnbound
  <2> QED  BY <2>4, <2>5, <2>6 DEF AliveInv
<1> QED  BY <1>1, <1>2, <1>3

\* What was taken out of the bindings is shut down, or the kill of it
\* fails.
LEMMA ShutdownAlive ==
    ASSUME AliveInv, TypeOK', NEW t \in Tasks, ShutdownConnection(t) \/ ShutdownFails(t)
    PROVE  AliveInv'
<1> DEFINE d == task[t].c
<1>0. /\ task \in [Tasks -> Row] /\ RowKnows(task[t]) /\ \A c \in Conns : c # None
      /\ None <= started /\ d \in Conns /\ task[t].pc = "await"
      /\ UNCHANGED <<died, started, bound, registered>>
      /\ \A c \in Conns : c # d => up'[c] = up[c] /\ open'[c] = open[c]
      /\ \A u \in Tasks : u # t => task'[u] = task[u]
  <2>1. /\ task \in [Tasks -> Row] /\ RowKnows(task[t]) /\ RowOK(task[t]) /\ started \in 0..MaxConns
        /\ up \in [Conns -> BOOLEAN] /\ open \in [Conns -> BOOLEAN]
      BY DEF AliveInv, TypeOK, ConnTypeOK
  <2>2. /\ task[t].pc = "await" /\ UNCHANGED <<died, managerVars>>
        /\ \A c \in Conns : c # d => up'[c] = up[c] /\ open'[c] = open[c]
      BY <2>1 DEF ShutdownConnection, ShutdownFails
  <2>3. \A u \in Tasks : u # t => task'[u] = task[u]
      BY <2>1 DEF ShutdownConnection, ShutdownFails, AfterDisconnect, End
  <2>4. (\A c \in Conns : c # None) /\ None <= started
      BY <2>1, ConnectionAssumption DEF Conns, None
  <2> QED  BY <2>1, <2>2, <2>3, <2>4 DEF RowOK, Working, managerVars
<1>1. task'[t].c = None /\ task'[t].pc # "await" /\ ~FreshRow(task'[t]) /\ RowKnows(task'[t])
  <2>1. CASE End(t)
      BY <1>0, <2>1 DEF End, IdleTask, FreshRow, RowKnows
  <2>2. CASE task[t].op = "reconnect" /\ task' = [task EXCEPT ![t] = [@ EXCEPT !.pc = "connect", !.c = None]]
    <3>1. task'[t].pc = "connect" /\ task'[t].c = None /\ task'[t].op = "reconnect"
        BY <1>0, <2>2 DEF Row
    <3> QED  BY <3>1 DEF FreshRow, RowKnows
  <2> QED  BY <2>1, <2>2 DEF ShutdownConnection, ShutdownFails, AfterDisconnect
<1>2. Started' /\ \A u \in Tasks : RowKnows(task'[u])
    BY <1>0, <1>1 DEF AliveInv, Started
<1>3. FreshAlone'
    BY <1>0, <1>1 DEF AliveInv, FreshAlone, Fresh
<1>4. UsedAreUsable' /\ AwaitedIsUnbound'
  <2>1. \A c \in Conns : \A u \in Tasks : Fresh(u, c)' => Fresh(u, c)
      BY <1>0, <1>1 DEF Fresh
  <2>2. d # bound /\ \A c \in Conns : \A u \in Tasks : Fresh(u, c)' => c # d
    <3>1. d # bound /\ \A c \in Conns : ~Fresh(t, c)'
        BY <1>0, <1>1 DEF AliveInv, AwaitedIsUnbound, Fresh
    <3>2. \A c \in Conns : \A u \in Tasks : u # t /\ Fresh(u, c) => c # d
        BY <1>0 DEF AliveInv, FreshAlone
    <3> QED  BY <2>1, <3>1, <3>2
  <2> QED  BY <1>0, <1>1, <2>1, <2>2 DEF AliveInv, UsedAreUsable, Usable, AwaitedIsUnbound
<1> QED  BY <1>2, <1>3, <1>4 DEF AliveInv

LEMMA AliveInvIsKept ==
    ASSUME AliveInv, [Next]_vars
    PROVE  AliveInv'
<1>1. TypeOK'
    BY TypesAreKept DEF AliveInv
<1>2. CASE \E t \in Tasks : Begin(t) \/ TaskStep(t) \/ Drop(t)
    BY <1>1, <1>2, ClientAlive, ManagerAlive, ConnectAlive, BindingAlive, ShutdownAlive
       DEF TaskStep
<1>3. CASE (\E c \in Conns : Serving(c) \/ Environment(c) \/ ServerExits(c)) \/ UNCHANGED vars
  <2>1. /\ UNCHANGED <<task, open, started, bound, registered>> /\ died \subseteq died'
        /\ \A c \in Conns : up[c] /\ ~up'[c] => c \in died' \/ ~Held(c)
      BY <1>3 DEF Serving, Environment, ServerExits, ServerStep, TakeMessage, Answer, Ask, Notify,
         Die, ServerUnchanged, managerVars, vars, connVars, AliveInv, TypeOK, ConnTypeOK
  <2> QED  BY <1>1, <2>1, OthersDie DEF Held
<1> QED  BY <1>2, <1>3 DEF Next

\* The binding that ensure_connected trusts never names a connection that was
\* shut down, and its subprocess runs unless it died by itself
\* (disconnect_server, connect_server_with_policy).
THEOREM BoundAlive == Spec => []BoundIsAlive
<1>1. Init => AliveInv
    BY TypesAtFirst DEF Init, ConnInit, AliveInv, Started, FreshAlone, UsedAreUsable,
       AwaitedIsUnbound, Fresh, FreshRow, RowKnows, IdleTask, None, Conns
<1>2. AliveInv => BoundIsAlive
    BY DEF AliveInv, UsedAreUsable, Usable, BoundIsAlive, TypeOK
<1> QED  BY <1>1, <1>2, AliveInvIsKept, PTL DEF Spec
=============================================================================
