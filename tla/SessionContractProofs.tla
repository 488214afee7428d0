------------------------ MODULE SessionContractProofs ------------------------
(***************************************************************************)
(* Theorems about the file backend, for any number of sessions, requests   *)
(* and restarts: the replica implements SessionContract and so keeps the   *)
(* quota; a Running row names the newest container; the deep archive keeps *)
(* its red line.                                                           *)
(*                                                                         *)
(* Every store operation but one moves a row along an edge of the contract *)
(* by itself.  The exception is the force_update of the reconciliation,    *)
(* which overwrites whatever the row has become: it needs that nobody else *)
(* runs while a replica boots (OneReplica, LiveTasks), so that the rows it *)
(* listed are the rows of the store (BootInv), and that a row in Creating  *)
(* has no handle to be found alive (NoEarlyHandle).  On a shared store a   *)
(* row can move between the listing and the overwrite: ~Leasing is needed. *)
(***************************************************************************)
EXTENDS SessionExclusionProofs, FiniteSetTheorems

\* Of the processes on one session file at most one runs.
OneReplica ==
    \A p, q \in Procs :
        proc[p] \in {"boot", "up"} /\ proc[q] \in {"boot", "up"} => p = q

\* A handler or a resume in flight belongs to a replica that is up.
LiveTasks ==
    /\ \A c \in Requests : InFlight(req[c]) => proc[req[c].p] = "up"
    /\ \A v \in Visits : InFlight(res[v]) => proc[res[v].p] = "up"

\* A create commits the handle together with Running.
NoEarlyHandle ==
    \A s \in Sessions : entry[s].state = "Creating" => entry[s].handle = NoHandle

\* What a reconciliation b has listed and not yet settled is what the store
\* holds in the rows e.
Current(b, e, s) == b.rows[s] = e[s] /\ e[s].state \in Interrupted

Consistent(b, e) ==
    /\ \A s \in b.todo : Current(b, e, s)
    /\ b.pc \in {"probe", "reread", "force"} =>
          /\ Current(b, e, b.s) /\ b.s \notin b.todo
          /\ b.pc # "probe" /\ b.alive => e[b.s].handle # NoHandle
          /\ b.pc = "force" => b.fresh = e[b.s]

BootInv == \A p \in Procs : proc[p] = "boot" => Consistent(boot[p], entry)

FileInv == OneReplica /\ LiveTasks /\ NoEarlyHandle /\ BootInv

State == [s \in Sessions |-> entry[s].state]

-----------------------------------------------------------------------------
(* What one store operation does to the rows.                              *)

\* The moves of the contract that take no new slot of the quota.
Allowed(from, to) ==
    \/ to = from \/ to = Absent \/ <<from, to>> \in Edges
    \/ from \in {"Running", "Resuming"} /\ to = "Running"
    \/ from \in Interrupted /\ to = "Crashed"

Admitted(from, to) ==
    from = Absent /\ to = "Creating" /\ Cardinality(Active) < MaxConcurrent

RowMoves ==
    \/ UNCHANGED entry
    \/ \E s \in Sessions, e \in Row :
          /\ entry' = [entry EXCEPT ![s] = e]
          /\ e.state = "Creating" => e.handle = NoHandle
          /\ Allowed(entry[s].state, e.state) \/ Admitted(entry[s].state, e.state)

LEMMA CasMoves ==
    ASSUME StoreOK, NoEarlyHandle, NEW s \in Sessions, NEW from,
           NEW to \in States, NEW h \in Nat, Cas(s, from, to, h)
    PROVE  RowMoves
<1> DEFINE e == CasTransition(entry[s], from, to, h)
<1>1. e \in Row
  BY CasType DEF StoreOK
<1>2. CASE CasHit(entry[s], from, to)
  <2>1. e.state = to /\ to # "Creating"
    BY <1>2 DEF CasTransition, CasHit, StoreOK, Row, Edges, States
  <2>2. <<entry[s].state, e.state>> \in Edges
    BY <1>2, <2>1 DEF CasHit
  <2> QED
    BY <1>1, <2>1, <2>2 DEF RowMoves, Allowed, Cas
<1>3. CASE ~CasHit(entry[s], from, to)
  BY <1>3 DEF RowMoves, Cas, CasTransition, StoreOK
<1> QED
  BY <1>2, <1>3

\* RowMoves keeps the handles out of Creating rows, and is a step of the
\* contract or leaves its state alone.
LEMMA MovesKeepHandles ==
    ASSUME StoreOK, NoEarlyHandle, RowMoves PROVE NoEarlyHandle'
BY DEF StoreOK, NoEarlyHandle, RowMoves

LEMMA MovesSimulate ==
    ASSUME StoreOK, RowMoves PROVE Contract!Next \/ UNCHANGED State
<1>1. CASE UNCHANGED entry
  BY <1>1 DEF State
<1>0. \A S : Contract!Cardinality(S) = Cardinality(S)
  BY DEF Contract!Cardinality, Cardinality
<1>2. ASSUME NEW s \in Sessions, NEW e \in Row, entry' = [entry EXCEPT ![s] = e],
             Allowed(entry[s].state, e.state) \/ Admitted(entry[s].state, e.state)
      PROVE  Contract!Next \/ UNCHANGED State
  <2>1. State' = [State EXCEPT ![s] = e.state] /\ State[s] = entry[s].state
    BY <1>2 DEF State, StoreOK
  <2>2. e.state \in States \cup {Absent} /\ entry[s].state \in States \cup {Absent}
    BY <1>2 DEF StoreOK, Row
  <2>3. Active = Contract!Holding
    BY DEF Active, Contract!Holding, Contract!Counted, Contract!States,
           Exists, Counted, Absent, States
  <2>4. CASE e.state = entry[s].state
    BY <2>1, <2>4 DEF State
  <2>5. CASE Admitted(entry[s].state, e.state)
    <3>1. Contract!Create(s)
      BY <1>0, <2>1, <2>3, <2>5
         DEF Admitted, Contract!Create, Contract!Set, Contract!Absent, Absent, State
    <3> QED
      BY <3>1 DEF Contract!Next
  <2>6. CASE e.state = Absent /\ entry[s].state # Absent
    <3>1. Contract!Remove(s)
      BY <2>1, <2>6 DEF Contract!Remove, Contract!Set, Contract!Absent, Absent, State
    <3> QED
      BY <3>1 DEF Contract!Next
  <2>7. CASE <<entry[s].state, e.state>> \in Edges
    <3>1. e.state \in States
      BY <2>7 DEF Edges, States
    <3>2. Contract!Move(s)
      BY <2>1, <2>7, <3>1
         DEF Contract!Move, Contract!Set, Contract!States, Contract!Edges, States, Edges, State
    <3> QED
      BY <3>2 DEF Contract!Next
  <2>8. CASE \/ entry[s].state \in {"Running", "Resuming"} /\ e.state = "Running"
             \/ entry[s].state \in Interrupted /\ e.state = "Crashed"
    <3>1. Contract!Restart(s)
      BY <2>1, <2>8 DEF Contract!Restart, Contract!Set, State, Interrupted
    <3> QED
      BY <3>1 DEF Contract!Next
  <2> QED
    BY <1>2, <2>4, <2>5, <2>6, <2>7, <2>8 DEF Allowed
<1> QED
  BY <1>1, <1>2 DEF RowMoves

-----------------------------------------------------------------------------
(* Steps of a replica that is up, and of the tasks on it.                  *)

LEMMA ReqMoves ==
    ASSUME TasksOK, LiveTasks, NEW c \in Requests, UNCHANGED <<proc, res>>,
           NEW t, req' = [req EXCEPT ![c] = t], InFlight(t) => proc[t.p] = "up"
    PROVE  LiveTasks'
BY DEF TasksOK, LiveTasks, InFlight

LEMMA ResMoves ==
    ASSUME TasksOK, LiveTasks, NEW v \in Visits, UNCHANGED <<proc, req>>,
           NEW t, res' = [res EXCEPT ![v] = t], InFlight(t) => proc[t.p] = "up"
    PROVE  LiveTasks'
BY DEF TasksOK, LiveTasks, InFlight

\* A task in flight moves on, or ends.
LEMMA GotoLives ==
    ASSUME TasksOK, LiveTasks, UNCHANGED proc
    PROVE  /\ \A c \in Requests : Finish(c) /\ UNCHANGED res => LiveTasks'
           /\ \A c \in Requests : \A pc :
                 Goto(c, pc) /\ InFlight(req[c]) /\ UNCHANGED res => LiveTasks'
           /\ \A v \in Visits : FinishRes(v) /\ UNCHANGED req => LiveTasks'
           /\ \A v \in Visits : \A pc :
                 GotoRes(v, pc) /\ InFlight(res[v]) /\ UNCHANGED req => LiveTasks'
<1>1. ~InFlight(Done)
  BY DEF InFlight, Done, Task
<1>2. ASSUME NEW c \in Requests, Finish(c), UNCHANGED res PROVE LiveTasks'
  BY <1>1, <1>2, ReqMoves DEF Finish
<1>3. ASSUME NEW c \in Requests, NEW pc, Goto(c, pc), InFlight(req[c]), UNCHANGED res
      PROVE  LiveTasks'
  BY <1>3 DEF Goto, LiveTasks, TasksOK, InFlight
<1>4. ASSUME NEW v \in Visits, FinishRes(v), UNCHANGED req PROVE LiveTasks'
  BY <1>1, <1>4, ResMoves DEF FinishRes
<1>5. ASSUME NEW v \in Visits, NEW pc, GotoRes(v, pc), InFlight(res[v]), UNCHANGED req
      PROVE  LiveTasks'
  BY <1>5 DEF GotoRes, LiveTasks, TasksOK, InFlight
<1> QED
  BY <1>2, <1>3, <1>4, <1>5

\* While a replica is up, or nobody runs a reconciliation for any other
\* reason, the rows may move.
LEMMA UpStep ==
    ASSUME FileInv, StoreOK, NEW p \in Procs, proc[p] = "up",
           UNCHANGED <<proc, boot>>, RowMoves, LiveTasks'
    PROVE  FileInv'
<1>1. \A q \in Procs : proc[q] # "boot"
  BY DEF FileInv, OneReplica
<1>2. BootInv'
  BY <1>1 DEF BootInv
<1>3. OneReplica'
  BY DEF FileInv, OneReplica
<1> QED
  BY <1>2, <1>3, MovesKeepHandles DEF FileInv

\* A step that leaves the rows and the processes alone.
LEMMA QuietStep ==
    ASSUME FileInv, UNCHANGED <<entry, proc, boot>>, LiveTasks'
    PROVE  FileInv'
BY DEF FileInv, OneReplica, NoEarlyHandle, BootInv

LEMMA PostKeeps ==
    ASSUME TypeOK, FileInv, NEW c \in Posts, Post(c)
    PROVE  RowMoves /\ FileInv'
<1> TasksOK /\ StoreOK /\ LiveTasks /\ NoEarlyHandle /\ c \in Requests
  BY DEF TypeOK, FileInv, Requests
<1>1. UNCHANGED <<proc, boot, res>>
  BY DEF Post, PostInsert, PostClaim, PostSpawn, PostHealth, PostCommit,
         PostCleanup, PostFail, replicas
<1>2. CASE PostInsert(c)
  <2>1. PICK p \in Procs, s \in Sessions :
            /\ proc[p] = "up" /\ ~Exists(entry[s]) /\ Cardinality(Active) < MaxConcurrent
            /\ entry' = [entry EXCEPT ![s] = FreshEntry]
            /\ req' = [req EXCEPT ![c] = Task("claim", s, p)]
    BY <1>2 DEF PostInsert
  <2>2. RowMoves
    BY <2>1, ConstantRows DEF RowMoves, Admitted, Exists, FreshEntry, NoHandle
  <2>3. LiveTasks'
    BY <1>1, <2>1, ReqMoves DEF Task
  <2> QED
    BY <1>1, <2>1, <2>2, <2>3, UpStep
<1>3. CASE ~PostInsert(c)
  <2>1. InFlight(req[c])
    BY <1>3 DEF Post, PostClaim, PostSpawn, PostHealth, PostCommit, PostCleanup,
                PostFail, InFlight
  <2>2. req[c].s \in Sessions /\ req[c].p \in Procs /\ req[c].port \in Nat /\ proc[req[c].p] = "up"
    BY <2>1, BusyFields DEF TasksOK, LiveTasks
  <2>3. LiveTasks'
    <3>1. CASE \E pc : Goto(c, pc)
      BY <1>1, <2>1, <3>1, GotoLives
    <3>2. CASE Finish(c)
      BY <1>1, <3>2, GotoLives
    <3>3. CASE req' = [req EXCEPT ![c].pc = "health", ![c].port = box[req[c].s].port + 1]
      BY <1>1, <2>2, <3>3 DEF LiveTasks, InFlight, TasksOK
    <3> QED
      BY <1>3, <3>1, <3>2, <3>3 DEF Post, PostClaim, PostSpawn, PostHealth,
                                   PostCommit, PostCleanup, PostFail
  <2>4. RowMoves
    <3>1. CASE UNCHANGED entry
      BY <3>1 DEF RowMoves
    <3>2. CASE PostCommit(c) \/ PostFail(c)
      BY <2>2, <3>2, CasMoves DEF PostCommit, PostFail, States, NoHandle
    <3> QED
      BY <1>3, <3>1, <3>2 DEF Post, PostClaim, PostSpawn, PostHealth, PostCleanup, store
  <2> QED
    BY <1>1, <2>2, <2>3, <2>4, UpStep
<1> QED
  BY <1>2, <1>3

LEMMA VisitKeeps ==
    ASSUME TypeOK, FileInv, NEW v \in Visits, Visit(v)
    PROVE  RowMoves /\ FileInv'
<1> TasksOK /\ StoreOK /\ LiveTasks /\ NoEarlyHandle /\ v \in Requests
  BY DEF TypeOK, FileInv, Requests
<1>1. UNCHANGED <<proc, boot>>
  BY DEF Visit, VisitArrive, VisitRead, VisitConnect, VisitMark, VisitLook,
         VisitLeave, VisitRelease, replicas
<1>2. CASE VisitArrive(v)
  <2>1. PICK p \in Procs, s \in Sessions :
            proc[p] = "up" /\ req' = [req EXCEPT ![v] = Task("probe", s, p)]
    BY <1>2 DEF VisitArrive
  <2>2. LiveTasks'
    BY <1>1, <1>2, <2>1, ReqMoves DEF Task, VisitArrive
  <2> QED
    BY <1>1, <1>2, <2>1, <2>2, UpStep DEF VisitArrive, RowMoves
<1>3. CASE ~VisitArrive(v)
  <2>1. InFlight(req[v])
    BY <1>3 DEF Visit, VisitRead, VisitConnect, VisitMark, VisitLook, VisitLeave,
                VisitRelease, InFlight, Guarding
  <2>2. req[v].s \in Sessions /\ req[v].p \in Procs /\ proc[req[v].p] = "up"
    BY <2>1, BusyFields DEF TasksOK, LiveTasks
  <2>3. ASSUME NEW e, Proceed(v, e) PROVE LiveTasks'
    <3>1. CASE UNCHANGED res /\ \E pc : Goto(v, pc)
      BY <1>1, <2>1, <3>1, GotoLives
    <3>2. CASE Goto(v, "hold") /\ res' = [res EXCEPT ![v] = Task("read", req[v].s, req[v].p)]
      BY <1>1, <2>2, <3>2 DEF LiveTasks, TasksOK, InFlight, Goto, Task
    <3> QED
      BY <2>3, <3>1, <3>2 DEF Proceed
  <2>4. LiveTasks'
    <3>1. CASE VisitRead(v)
      <4>1. CASE /\ req' = [req EXCEPT ![v].pc = "connect", ![v].seen = entry[req[v].s]]
                 /\ UNCHANGED res
        BY <1>1, <2>2, <4>1 DEF LiveTasks, InFlight, TasksOK
      <4> QED
        BY <2>3, <3>1, <4>1 DEF VisitRead
    <3>2. CASE VisitConnect(v)
      <4>1. PICK pc : req' = [req EXCEPT ![v].pc = pc, ![v].seen = NoEntry]
        BY <3>2 DEF VisitConnect
      <4> QED
        BY <1>1, <2>2, <3>2, <4>1 DEF LiveTasks, InFlight, TasksOK, VisitConnect
    <3>3. CASE VisitLook(v)
      BY <2>3, <3>3 DEF VisitLook
    <3>4. CASE UNCHANGED res /\ (Finish(v) \/ \E pc : Goto(v, pc))
      BY <1>1, <2>1, <3>4, GotoLives
    <3> QED
      BY <1>3, <3>1, <3>2, <3>3, <3>4 DEF Visit, VisitMark, VisitLeave, VisitRelease
  <2>5. RowMoves
    <3>1. CASE VisitMark(v)
      BY <2>2, <3>1, CasMoves DEF VisitMark, States, NoHandle
    <3> QED
      BY <1>3, <3>1 DEF Visit, VisitRead, VisitConnect, VisitLook, VisitLeave,
                        VisitRelease, RowMoves, store
  <2> QED
    BY <1>1, <2>2, <2>4, <2>5, UpStep
<1> QED
  BY <1>2, <1>3

LEMMA ResumeKeeps ==
    ASSUME TypeOK, FileInv, NEW v \in Visits, Resume(v)
    PROVE  RowMoves /\ FileInv'
<1> TasksOK /\ StoreOK /\ LiveTasks /\ NoEarlyHandle
  BY DEF TypeOK, FileInv
<1>1. UNCHANGED <<proc, boot, req>>
  BY DEF Resume, ResumeRead, ResumeCas, ResumeRestore, ResumeOp, ResumeHealth,
         ResumeCommit, ResumeUnmark, ResumeRmFiles, ResumeFail, replicas
<1>2. InFlight(res[v])
  BY DEF Resume, ResumeRead, ResumeCas, ResumeRestore, ResumeOp, ResumeHealth,
         ResumeCommit, ResumeUnmark, ResumeRmFiles, ResumeFail, InFlight
<1>3. res[v].s \in Sessions /\ res[v].p \in Procs /\ res[v].port \in Nat /\ proc[res[v].p] = "up"
  BY <1>2, BusyFields DEF TasksOK, LiveTasks
<1>4. LiveTasks'
  <2>1. CASE FinishRes(v) \/ \E pc : GotoRes(v, pc)
    BY <1>1, <1>2, <2>1, GotoLives
  <2>2. ASSUME NEW pc, NEW e, res' = [res EXCEPT ![v].pc = pc, ![v].seen = e] PROVE LiveTasks'
    BY <1>1, <1>3, <2>2 DEF LiveTasks, InFlight, TasksOK
  <2>3. ASSUME NEW pc, NEW h, res' = [res EXCEPT ![v].pc = pc, ![v].port = h] PROVE LiveTasks'
    BY <1>1, <1>3, <2>3 DEF LiveTasks, InFlight, TasksOK
  <2>4. CASE ResumeRead(v)
    BY <2>1, <2>2, <2>4 DEF ResumeRead
  <2>5. CASE ResumeOp(v)
    BY <2>1, <2>3, <2>5 DEF ResumeOp
  <2>6. CASE ResumeCas(v) \/ ResumeCommit(v)
    BY <2>1, <2>6 DEF ResumeCas, ResumeCommit
  <2> QED
    BY <2>1, <2>4, <2>5, <2>6 DEF Resume, ResumeRestore, ResumeHealth, ResumeUnmark,
                                 ResumeRmFiles, ResumeFail
<1>5. RowMoves
  <2>1. CASE ResumeCas(v) \/ ResumeCommit(v) \/ ResumeFail(v)
    BY <1>3, <2>1, CasMoves DEF ResumeCas, ResumeCommit, ResumeFail, States, NoHandle
  <2>2. CASE ResumeUnmark(v)
    <3>1. ClearArchived(entry[res[v].s]) \in Row
      BY <1>3 DEF ClearArchived, StoreOK, Row
    <3>2. /\ ClearArchived(entry[res[v].s]).state = entry[res[v].s].state
          /\ ClearArchived(entry[res[v].s]).handle = entry[res[v].s].handle
      BY <1>3 DEF ClearArchived, StoreOK, Row
    <3> QED
      BY <1>3, <2>2, <3>1, <3>2 DEF ResumeUnmark, RowMoves, Allowed, NoEarlyHandle
  <2> QED
    BY <2>1, <2>2 DEF Resume, ResumeRead, ResumeRestore, ResumeOp, ResumeHealth,
                      ResumeRmFiles, RowMoves, store
<1> QED
  BY <1>1, <1>3, <1>4, <1>5, UpStep

LEMMA DeleteKeeps ==
    ASSUME TypeOK, FileInv, NEW d \in Deletes, Delete(d)
    PROVE  RowMoves /\ FileInv'
<1> TasksOK /\ StoreOK /\ LiveTasks /\ NoEarlyHandle /\ d \in Requests
  BY DEF TypeOK, FileInv, Requests
<1>1. UNCHANGED <<proc, boot, res>>
  BY DEF Delete, DeleteRead, DeleteCas, DeleteRetry, DeleteDestroy, DeleteRmFiles,
         DeleteRemove, replicas
<1>2. CASE DeleteRead(d)
  <2>1. PICK p \in Procs, s \in Sessions :
            /\ proc[p] = "up"
            /\ req' = [req EXCEPT ![d] = [Task("cas", s, p) EXCEPT !.seen = entry[s]]]
    BY <1>2 DEF DeleteRead
  <2>2. LiveTasks'
    BY <1>1, <2>1, ReqMoves DEF Task
  <2> QED
    BY <1>1, <1>2, <2>1, <2>2, UpStep DEF DeleteRead, RowMoves, store
<1>3. CASE ~DeleteRead(d)
  <2>1. InFlight(req[d])
    BY <1>3 DEF Delete, DeleteCas, DeleteRetry, DeleteDestroy, DeleteRmFiles,
                DeleteRemove, InFlight
  <2>2. req[d].s \in Sessions /\ req[d].p \in Procs /\ proc[req[d].p] = "up"
    BY <2>1, BusyFields DEF TasksOK, LiveTasks
  <2>3. LiveTasks'
    <3>1. CASE Finish(d) \/ \E pc : Goto(d, pc)
      BY <1>1, <2>1, <3>1, GotoLives
    <3>2. CASE \E e : req' = [req EXCEPT ![d].pc = "cas2", ![d].seen = e]
      BY <1>1, <2>2, <3>2 DEF LiveTasks, InFlight, TasksOK
    <3>3. CASE DeleteCas(d)
      BY <3>1, <3>3 DEF DeleteCas
    <3> QED
      BY <1>3, <3>1, <3>2, <3>3 DEF Delete, DeleteRetry, DeleteDestroy,
                                   DeleteRmFiles, DeleteRemove
  <2>4. RowMoves
    <3>1. CASE DeleteCas(d)
      BY <2>2, <3>1, CasMoves DEF DeleteCas, States, NoHandle
    <3>2. CASE DeleteRemove(d)
      BY <2>2, <3>2, ConstantRows DEF DeleteRemove, RowMoves, Allowed, NoEntry, Absent
    <3> QED
      BY <1>3, <3>1, <3>2 DEF Delete, DeleteRetry, DeleteDestroy, DeleteRmFiles,
                              RowMoves, store
  <2> QED
    BY <1>1, <2>2, <2>3, <2>4, UpStep
<1> QED
  BY <1>2, <1>3

LEMMA SweepKeeps ==
    ASSUME TypeOK, FileInv, NEW p \in Procs, Sweep(p)
    PROVE  RowMoves /\ FileInv'
<1> TasksOK /\ StoreOK /\ LiveTasks /\ NoEarlyHandle
  BY DEF TypeOK, FileInv
<1>1. UNCHANGED <<proc, boot, req, res>> /\ proc[p] = "up"
  BY DEF Sweep, SweepList, SweepClaim, SweepCas, SweepGet, SweepStop, DeepRead,
         DeepClaim, DeepExport, DeepMark, DeepDestroy, DeepRelease, Sweeping, tasks
<1>2. LiveTasks'
  BY <1>1 DEF LiveTasks
<1>3. SweepCas(p) \/ DeepMark(p) => sweep[p].s \in Sessions
  BY BusyFields DEF SweepCas, DeepMark, Sweeping, TypeOK, ReplicasOK, InFlight
<1>4. RowMoves
  <2>1. CASE SweepCas(p)
    BY <1>3, <2>1, CasMoves DEF SweepCas, States, NoHandle
  <2>2. CASE DeepMark(p)
    <3> DEFINE e == SetArchived(entry[sweep[p].s])
    <3>1. e \in Row /\ e.state = entry[sweep[p].s].state
      BY <1>3, <2>2 DEF SetArchived, StoreOK, Row, NoHandle
    <3>2. e.state = "Creating" => e.handle = NoHandle
      BY <1>3, <2>2 DEF SetArchived, MarkHit, NoEarlyHandle, StoreOK, Row
    <3>3. entry' = [entry EXCEPT ![sweep[p].s] = e]
      BY <2>2 DEF DeepMark
    <3> HIDE DEF e
    <3> QED
      BY <1>3, <2>2, <3>1, <3>2, <3>3 DEF RowMoves, Allowed
  <2> QED
    BY <2>1, <2>2 DEF Sweep, SweepList, SweepClaim, SweepGet, SweepStop, DeepRead,
       DeepClaim, DeepExport, DeepDestroy, DeepRelease, RowMoves, store
<1> QED
  BY <1>1, <1>2, <1>4, UpStep

-----------------------------------------------------------------------------
(* The reconciliation of the one replica that boots.                       *)

LEMMA BootKeeps ==
    ASSUME TypeOK, FileInv, ~Leasing, NEW p \in Procs, Boot(p)
    PROVE  RowMoves /\ FileInv'
<1> StoreOK /\ LiveTasks /\ NoEarlyHandle /\ OneReplica /\ BootInv
  BY DEF TypeOK, FileInv
<1>0. boot \in [Procs -> BootType] /\ proc \in [Procs -> {"off", "boot", "up", "down"}]
  BY DEF TypeOK, ReplicasOK
<1>1. UNCHANGED <<req, res>>
  BY DEF Boot, BootStart, BootClaim, BootProbe, BootReread, BootForce,
         BootRelease, BootDone, tasks
\* Nobody else runs, and so no task is in flight.
<1>2. /\ \A q \in Procs \ {p} : proc[q] \notin {"boot", "up"} /\ proc'[q] = proc[q]
      /\ proc[p] \in {"off", "boot"} /\ proc'[p] \in {"boot", "up"}
      /\ \A q \in Procs \ {p} : boot'[q] = boot[q]
  BY <1>0 DEF Boot, BootStart, BootClaim, BootProbe, BootReread, BootForce,
         BootRelease, BootDone, Booting, OneReplica
<1>3. OneReplica'
  BY <1>2 DEF OneReplica
<1>4. LiveTasks'
  BY <1>1, <1>2, BusyFields DEF LiveTasks, TypeOK, TasksOK
<1>5. ASSUME RowMoves, proc'[p] = "boot" => Consistent(boot'[p], entry')
      PROVE  RowMoves /\ FileInv'
  <2>1. BootInv'
    <3> SUFFICES ASSUME NEW q \in Procs, proc'[q] = "boot" PROVE Consistent(boot'[q], entry')
      BY DEF BootInv
    <3>1. q = p
      BY <1>2
    <3> QED
      BY <1>5, <3>1
  <2> QED
    BY <1>3, <1>4, <1>5, <2>1, MovesKeepHandles DEF FileInv
<1>6. proc[p] = "boot" => Consistent(boot[p], entry)
  BY DEF BootInv
<1>7. CASE BootStart(p)
  <2>1. boot'[p] = [BootIdle EXCEPT !.rows = entry,
                       !.todo = {s \in Sessions : entry[s].state \in Interrupted}]
    BY <1>0, <1>7 DEF BootStart
  <2>2. Consistent(boot'[p], entry)
    BY <2>1 DEF Consistent, Current, BootIdle
  <2> QED
    BY <1>5, <1>7, <2>2 DEF BootStart, RowMoves, store
<1>8. CASE \E s \in Sessions : BootClaim(p, s)
  <2>1. PICK s \in Sessions : BootClaim(p, s)
    BY <1>8
  <2>2. /\ boot'[p].todo = boot[p].todo \ {s} /\ boot'[p].rows = boot[p].rows
        /\ boot'[p].s = s /\ boot'[p].pc \in {"probe", "next"}
        /\ s \in boot[p].todo /\ proc[p] = "boot" /\ UNCHANGED entry
    BY <1>0, <2>1 DEF BootClaim, Booting, BootType
  <2>3. Consistent(boot'[p], entry)
    BY <1>6, <2>2 DEF Consistent, Current
  <2> QED
    BY <1>5, <2>2, <2>3 DEF RowMoves
<1>9. CASE BootProbe(p)
  <2>1. PICK alive \in BOOLEAN :
            boot' = [boot EXCEPT ![p].pc = "reread",
                        ![p].alive = alive /\ boot[p].rows[boot[p].s].handle # NoHandle]
    BY <1>9 DEF BootProbe, ProbeResults, Healthy
  <2>2. /\ boot'[p].todo = boot[p].todo /\ boot'[p].rows = boot[p].rows
        /\ boot'[p].s = boot[p].s /\ boot'[p].pc = "reread"
        /\ boot'[p].alive => boot[p].rows[boot[p].s].handle # NoHandle
    BY <1>0, <2>1 DEF BootType
  <2>3. boot[p].pc = "probe" /\ proc[p] = "boot" /\ UNCHANGED entry
    BY <1>9 DEF BootProbe, Booting, store
  <2>4. Consistent(boot'[p], entry)
    BY <1>6, <2>2, <2>3 DEF Consistent, Current
  <2> QED
    BY <1>5, <2>3, <2>4 DEF RowMoves
<1>10. CASE BootReread(p)
  <2>1. /\ boot'[p].todo = boot[p].todo /\ boot'[p].rows = boot[p].rows
        /\ boot'[p].s = boot[p].s /\ boot'[p].alive = boot[p].alive
        /\ boot'[p].fresh = entry[boot[p].s]
    BY <1>0, <1>10 DEF BootReread, BootType
  <2>2. boot[p].pc = "reread" /\ proc[p] = "boot" /\ UNCHANGED entry
    BY <1>10 DEF BootReread, Booting, store
  <2>3. Consistent(boot'[p], entry)
    BY <1>6, <2>1, <2>2 DEF Consistent, Current
  <2> QED
    BY <1>5, <2>2, <2>3 DEF RowMoves
<1>11. CASE BootForce(p)
  <2> DEFINE s == boot[p].s
             e == ForceUpdate(entry[s], Reconciled(boot[p]))
  <2>1. boot[p].pc = "force" /\ proc[p] = "boot" /\ s \in Sessions
    BY <1>11 DEF BootForce, Booting, TypeOK, ReplicasOK
  <2>2. /\ boot[p].fresh = entry[s] /\ entry[s].state \in Interrupted /\ s \notin boot[p].todo
        /\ boot[p].alive => entry[s].handle # NoHandle
    BY <1>6, <2>1 DEF Consistent, Current
  <2>3. entry' = [entry EXCEPT ![s] = e]
    BY <1>11 DEF BootForce
  <2>4. /\ e = [entry[s] EXCEPT !.state = IF boot[p].alive THEN "Running" ELSE "Crashed"]
        /\ entry[s] \in Row
    BY <2>1, <2>2 DEF ForceUpdate, Reconciled, Exists, Interrupted, Absent, StoreOK
  <2>5. e \in Row /\ e.state = IF boot[p].alive THEN "Running" ELSE "Crashed"
    BY <2>4 DEF Row, States
  <2>6. entry[s].state = "Creating" => ~boot[p].alive
    BY <2>1, <2>2 DEF NoEarlyHandle
  <2>7. RowMoves
    <3> HIDE DEF e, s
    <3> QED
      BY <2>1, <2>2, <2>3, <2>5, <2>6 DEF RowMoves, Allowed, Interrupted
  <2>8. /\ boot'[p].todo = boot[p].todo /\ boot'[p].rows = boot[p].rows
        /\ boot'[p].pc \in {"release", "next"}
    BY <1>0, <1>11 DEF BootForce, BootType
  <2>9. \A t \in boot[p].todo : entry'[t] = entry[t]
    BY <1>0, <2>2, <2>3 DEF StoreOK, BootType
  <2>10. Consistent(boot'[p], entry')
    BY <1>6, <2>1, <2>8, <2>9 DEF Consistent, Current
  <2> QED
    BY <1>5, <2>7, <2>10
<1>12. CASE BootRelease(p)
  <2>1. /\ boot'[p].todo = boot[p].todo /\ boot'[p].rows = boot[p].rows
        /\ boot'[p].pc = "next" /\ proc[p] = "boot" /\ UNCHANGED entry
    BY <1>0, <1>12 DEF BootRelease, Booting, BootType
  <2>2. Consistent(boot'[p], entry)
    BY <1>6, <2>1 DEF Consistent, Current
  <2> QED
    BY <1>5, <2>1, <2>2 DEF RowMoves
<1>13. CASE BootDone(p)
  <2>1. proc'[p] = "up" /\ UNCHANGED entry
    BY <1>0, <1>13 DEF BootDone, store
  <2> QED
    BY <1>5, <2>1 DEF RowMoves
<1> QED
  BY <1>7, <1>8, <1>9, <1>10, <1>11, <1>12, <1>13 DEF Boot

LEMMA EnvironmentKeeps ==
    ASSUME TypeOK, FileInv, Environment
    PROVE  RowMoves /\ FileInv'
<1> TasksOK /\ LiveTasks /\ OneReplica /\ NoEarlyHandle /\ BootInv
  BY DEF TypeOK, FileInv
<1>1. UNCHANGED entry
  BY DEF Environment, Crash, Shutdown, DeepRenew, Expire, ContainerDies,
         EngineWrites, HangUp, VisitRenew, store
<1>2. ASSUME NEW p \in Procs, Halt(p) PROVE FileInv'
  <2>1. ~InFlight(Done)
    BY DEF InFlight, Done, Task
  <2>2. \A q \in Procs : proc'[q] = IF q = p THEN "down" ELSE proc[q]
    BY <1>2 DEF Halt, TypeOK, ReplicasOK
  <2>3. LiveTasks'
    <3>1. ASSUME NEW c \in Requests, InFlight(req'[c]) PROVE proc'[req'[c].p] = "up"
      <4>1. req'[c] = req[c] /\ req[c].p # p
        BY <1>2, <2>1, <3>1 DEF Halt
      <4> QED
        BY <2>2, <3>1, <4>1, BusyFields DEF LiveTasks, TasksOK
    <3>2. ASSUME NEW v \in Visits, InFlight(res'[v]) PROVE proc'[res'[v].p] = "up"
      <4>1. res'[v] = res[v] /\ res[v].p # p
        BY <1>2, <2>1, <3>2 DEF Halt
      <4> QED
        BY <2>2, <3>2, <4>1, BusyFields DEF LiveTasks, TasksOK
    <3> QED
      BY <3>1, <3>2 DEF LiveTasks, InFlight
  <2>4. OneReplica'
    BY <2>2 DEF OneReplica
  <2>5. BootInv'
    BY <1>1, <1>2, <2>2 DEF BootInv, Halt, TypeOK, ReplicasOK
  <2> QED
    BY <1>1, <2>3, <2>4, <2>5 DEF FileInv, NoEarlyHandle
<1>3. ASSUME UNCHANGED <<proc, boot, req, res>> PROVE FileInv'
  BY <1>1, <1>3, QuietStep DEF LiveTasks
<1>4. ASSUME NEW c \in Requests, HangUp(c) PROVE FileInv'
  BY <1>1, <1>4, GotoLives, QuietStep DEF HangUp, replicas
<1>5. FileInv'
  BY <1>2, <1>3, <1>4 DEF Environment, Crash, Shutdown, DeepRenew, Expire,
     ContainerDies, EngineWrites, VisitRenew, tasks, replicas
<1> QED
  BY <1>1, <1>5 DEF RowMoves

LEMMA InitKeeps == Init => FileInv /\ Contract!Init
BY DEF Init, FileInv, OneReplica, LiveTasks, InFlight, Idle, Task, NoEarlyHandle,
       NoEntry, Absent, BootInv, Contract!Init, Contract!Absent

LEMMA NextKeeps ==
    ASSUME TypeOK, FileInv, ~Leasing, [Next]_vars
    PROVE  RowMoves /\ FileInv'
<1>1. CASE Next
  BY <1>1, PostKeeps, VisitKeeps, ResumeKeeps, DeleteKeeps, SweepKeeps, BootKeeps,
     EnvironmentKeeps DEF Next
<1>2. CASE UNCHANGED vars
  <2>1. UNCHANGED <<entry, proc, boot, req, res>>
    BY <1>2 DEF vars, store, replicas, tasks
  <2> QED
    BY <2>1, QuietStep DEF RowMoves, LiveTasks, FileInv
<1> QED
  BY <1>1, <1>2

LEMMA FileAlways == ASSUME ~Leasing PROVE Spec => [](TypeOK /\ FileInv)
<1>1. Init => TypeOK /\ FileInv
  BY InitType, InitKeeps
<1>2. TypeOK /\ FileInv /\ [Next]_vars => (TypeOK /\ FileInv)'
  BY NextType, NextKeeps
<1> QED
  BY <1>1, <1>2, PTL DEF Spec

\* On the file backend every step of the replica, its sweeps and its restarts
\* is a step of the contract with the client, or none (KeepsContract).
THEOREM ContractKept == ASSUME ~Leasing PROVE Spec => KeepsContract
<1>1. Init => Contract!Init
  BY InitKeeps
<1>2. TypeOK /\ FileInv /\ [Next]_vars => [Contract!Next]_State
  BY NextKeeps, MovesSimulate DEF TypeOK
<1> QED
  BY <1>1, <1>2, FileAlways, PTL DEF Spec, KeepsContract, Contract!Spec, State

-----------------------------------------------------------------------------
(* The quota: a row is counted only by an insert, which looks at the count.*)

QuotaInv == IsFiniteSet(Active) /\ Cardinality(Active) <= MaxConcurrent

LEMMA MovesKeepQuota ==
    ASSUME StoreOK, QuotaInv, RowMoves PROVE QuotaInv'
<1>1. CASE UNCHANGED entry
  BY <1>1 DEF QuotaInv, Active
<1>2. ASSUME NEW s \in Sessions, NEW e \in Row, entry' = [entry EXCEPT ![s] = e],
             Allowed(entry[s].state, e.state) \/ Admitted(entry[s].state, e.state)
      PROVE  QuotaInv'
  <2>1. Active' \in {Active, Active \ {s}, Active \cup {s}}
    BY <1>2 DEF Active, StoreOK
  <2>2. s \in Active' => s \in Active \/ Cardinality(Active) < MaxConcurrent
    <3>1. e.state \in Counted => \/ entry[s].state \in Counted
                                \/ Admitted(entry[s].state, e.state)
      BY <1>2 DEF Allowed, Edges, States, Counted, Absent, Interrupted
    <3>2. s \in Active' => e.state \in Counted
      BY <1>2 DEF Active, StoreOK
    <3> QED
      BY <1>2, <3>1, <3>2 DEF Admitted, Active, Exists, Counted, States, Absent
  <2>3. Cardinality(Active) \in Nat
    BY FS_CardinalityType DEF QuotaInv
  <2>4. IsFiniteSet(Active \ {s}) /\ Cardinality(Active \ {s}) <= Cardinality(Active)
    BY <2>3, FS_RemoveElement DEF QuotaInv
  <2>5. /\ IsFiniteSet(Active \cup {s})
        /\ Cardinality(Active \cup {s}) = IF s \in Active THEN Cardinality(Active)
                                                        ELSE Cardinality(Active) + 1
    BY FS_AddElement DEF QuotaInv
  <2>6. IsFiniteSet(Active') /\ Cardinality(Active') <= MaxConcurrent
    <3>1. CASE Active' = Active \cup {s}
      BY <2>2, <2>3, <2>5, <3>1, ConfigurationIsValid DEF QuotaInv
    <3>2. CASE Active' = Active \ {s}
      <4>1. Cardinality(Active \ {s}) \in Nat
        BY <2>4, FS_CardinalityType
      <4> QED
        BY <2>3, <2>4, <3>2, <4>1, ConfigurationIsValid DEF QuotaInv
    <3> QED
      BY <2>1, <3>1, <3>2 DEF QuotaInv
  <2> QED
    BY <2>6 DEF QuotaInv
<1> QED
  BY <1>1, <1>2 DEF RowMoves

\* On the file backend, for any number of sessions and concurrent creates:
\* the rows that hold resources never exceed max_concurrent_sessions.
THEOREM Quota == ASSUME ~Leasing PROVE Spec => []QuotaIsKept
<1>1. Init => QuotaInv
  <2>1. Init => Active = {}
    BY DEF Init, Active, Exists, NoEntry, Absent
  <2> QED
    BY <2>1, FS_EmptySet, ConfigurationIsValid DEF QuotaInv
<1>2. TypeOK /\ FileInv /\ QuotaInv /\ [Next]_vars => QuotaInv'
  BY NextKeeps, MovesKeepQuota DEF TypeOK
<1>3. TypeOK /\ QuotaInv => QuotaIsKept
  <2>1. TypeOK => Active = {s \in Sessions : entry[s].state \notin {Absent, "Failed", "Destroyed"}}
    BY DEF TypeOK, StoreOK, Row, Active, Exists, Counted, Absent, States
  <2> QED
    BY <2>1 DEF QuotaInv, QuotaIsKept
<1> QED
  BY <1>1, <1>2, <1>3, FileAlways, PTL DEF Spec

-----------------------------------------------------------------------------
(* The handles: a Running row names the container that was started last,   *)
(* and so do the task that is about to make it Running and the probe that  *)
(* a reconciliation relies on.                                             *)

Names(h, s) == h = box[s].port /\ h # NoHandle

\* A task between the start of a container and the commit of its handle.
Ready(t, s) == t.s = s /\ t.pc \in {"health", "commit"}

RowNames(s) == entry[s].state = "Running" => Names(entry[s].handle, s)

TasksName(s) ==
    /\ \A c \in Posts : Ready(req[c], s) => Names(req[c].port, s)
    /\ \A v \in Visits : Ready(res[v], s) => Names(res[v].port, s)

ProbeNames ==
    \A p \in Procs :
        proc[p] = "boot" /\ boot[p].pc \in {"reread", "force"} /\ boot[p].alive
            => entry[boot[p].s].handle = box[boot[p].s].port

UpHasPort == \A s \in Sessions : box[s].up = "up" => box[s].port # NoHandle

AllNamed == \A s \in Sessions \ disturbed : RowNames(s) /\ TasksName(s)

HandleInv == AllNamed /\ ProbeNames /\ UpHasPort

\* What a step that starts no container and commits no handle leaves alone.
PortKept(s) == box'[s].port = box[s].port

RowKept(s) == entry'[s].state = "Running" =>
                 entry[s].state = "Running" /\ entry'[s].handle = entry[s].handle

NoneReadied(s) ==
    /\ \A c \in Posts :
          Ready(req'[c], s) => Ready(req[c], s) /\ req'[c].port = req[c].port
    /\ \A v \in Visits :
          Ready(res'[v], s) => Ready(res[v], s) /\ res'[v].port = res[v].port

LEMMA NamesKept ==
    ASSUME HandleInv, NEW s \in Sessions \ disturbed, PortKept(s)
    PROVE  /\ RowKept(s) => RowNames(s)'
           /\ NoneReadied(s) => TasksName(s)'
BY DEF HandleInv, AllNamed, RowNames, TasksName, Names, Ready, PortKept, RowKept, NoneReadied

\* A task that moves on, unless it has just started a container, or ends.
LEMMA ReqCalm ==
    ASSUME TasksOK, NEW c \in Requests, UNCHANGED res,
           \/ Finish(c)
           \/ \E pc : /\ Goto(c, pc)
                      /\ pc \in {"health", "commit"} => req[c].pc \in {"health", "commit"}
    PROVE  \A s \in Sessions : NoneReadied(s)
<1>1. req[c] \in TaskType /\ req \in [Requests -> TaskType] /\ Posts \subseteq Requests
  BY DEF TasksOK, Requests
<1>2. CASE Finish(c)
  BY <1>1, <1>2 DEF Finish, NoneReadied, Ready, Done, Task
<1>3. ASSUME NEW pc, Goto(c, pc),
             pc \in {"health", "commit"} => req[c].pc \in {"health", "commit"}
      PROVE  \A s \in Sessions : NoneReadied(s)
  <2>1. /\ req'[c].s = req[c].s /\ req'[c].port = req[c].port /\ req'[c].pc = pc
        /\ \A d \in Requests \ {c} : req'[d] = req[d]
    BY <1>1, <1>3 DEF Goto, TaskType, BusyTask, Idle, Done, Task
  <2> QED
    BY <1>1, <1>3, <2>1 DEF NoneReadied, Ready
<1> QED
  BY <1>2, <1>3

LEMMA ResCalm ==
    ASSUME TasksOK, NEW v \in Visits, UNCHANGED req,
           \/ FinishRes(v)
           \/ \E pc : /\ GotoRes(v, pc)
                      /\ pc \in {"health", "commit"} => res[v].pc \in {"health", "commit"}
    PROVE  \A s \in Sessions : NoneReadied(s)
<1>1. res[v] \in TaskType /\ res \in [Visits -> TaskType]
  BY DEF TasksOK
<1>2. CASE FinishRes(v)
  BY <1>1, <1>2 DEF FinishRes, NoneReadied, Ready, Done, Task
<1>3. ASSUME NEW pc, GotoRes(v, pc),
             pc \in {"health", "commit"} => res[v].pc \in {"health", "commit"}
      PROVE  \A s \in Sessions : NoneReadied(s)
  <2>1. /\ res'[v].s = res[v].s /\ res'[v].port = res[v].port /\ res'[v].pc = pc
        /\ \A w \in Visits \ {v} : res'[w] = res[w]
    BY <1>1, <1>3 DEF GotoRes, TaskType, BusyTask, Idle, Done, Task
  <2> QED
    BY <1>3, <2>1 DEF NoneReadied, Ready
<1> QED
  BY <1>2, <1>3

\* A transition to a state other than Running, hit or miss, and the other
\* ways in which a row is written.
LEMMA RowsKept ==
    ASSUME StoreOK, NEW r \in Sessions
    PROVE  /\ UNCHANGED entry => \A s \in Sessions : RowKept(s)
           /\ \A from, to, h : Cas(r, from, to, h) /\ to # "Running"
                  => \A s \in Sessions : RowKept(s)
           /\ \A e \in {NoEntry, FreshEntry, SetArchived(entry[r]), ClearArchived(entry[r])} :
                 entry' = [entry EXCEPT ![r] = e] => \A s \in Sessions : RowKept(s)
<1>1. ASSUME UNCHANGED entry, NEW s \in Sessions PROVE RowKept(s)
  BY <1>1 DEF RowKept
<1>2. ASSUME NEW from, NEW to, NEW h, Cas(r, from, to, h), to # "Running",
             NEW s \in Sessions
      PROVE  RowKept(s)
  BY <1>2 DEF Cas, CasTransition, RowKept, StoreOK, Row
<1>3. ASSUME NEW e \in {NoEntry, FreshEntry, SetArchived(entry[r]), ClearArchived(entry[r])},
             entry' = [entry EXCEPT ![r] = e], NEW s \in Sessions
      PROVE  RowKept(s)
  <2>1. e.state = "Running" => entry[r].state = "Running" /\ e.handle = entry[r].handle
    <3>0. entry[r] \in Row
      BY DEF StoreOK
    <3>1. CASE e \in {NoEntry, FreshEntry}
      BY <3>1 DEF NoEntry, FreshEntry, Absent
    <3>2. CASE e = SetArchived(entry[r])
      BY <3>0, <3>2 DEF SetArchived, MarkHit, Row
    <3>3. CASE e = ClearArchived(entry[r])
      BY <3>0, <3>3 DEF ClearArchived, Row
    <3> QED
      BY <1>3, <3>1, <3>2, <3>3
  <2> QED
    BY <1>3, <2>1 DEF RowKept, StoreOK
<1> QED
  BY <1>1, <1>2, <1>3

\* Containers that are removed or stopped keep their port.
LEMMA PortsKept ==
    ASSUME EngineOK, UpHasPort, NEW r \in Sessions,
           \/ UNCHANGED box \/ box' \in Removed(r)
           \/ box' = [box EXCEPT ![r] = Gone(@)]
           \/ box' = [box EXCEPT ![r] = Stopped(@)]
    PROVE  UpHasPort' /\ \A s \in Sessions : PortKept(s)
<1>0. box[r] \in [up : {"absent", "stopped", "up"}, port : Nat]
  BY DEF EngineOK
<1>1. PICK b \in {box[r], Gone(box[r]), Stopped(box[r])} : box' = [box EXCEPT ![r] = b]
  BY DEF EngineOK, Removed
<1>2. b.port = box[r].port /\ (b.up = "up" => box[r].up = "up")
  BY <1>0, <1>1 DEF Gone, Stopped
<1> QED
  BY <1>1, <1>2 DEF EngineOK, UpHasPort, PortKept

LEMMA CalmNames ==
    ASSUME HandleInv, disturbed \subseteq disturbed',
           \A s \in Sessions : PortKept(s) /\ RowKept(s) /\ NoneReadied(s)
    PROVE  AllNamed'
BY NamesKept DEF AllNamed

\* The operator of a container may start it and commit its handle: its row
\* is pending until the commit, and no other task operates it.
LEMMA OperatorNames ==
    ASSUME HandleInv, UNCHANGED disturbed, NEW s \in Sessions,
           \A r \in Sessions \ {s} : PortKept(r) /\ RowKept(r) /\ NoneReadied(r),
           s \notin disturbed => RowNames(s)' /\ TasksName(s)'
    PROVE  AllNamed'
<1> SUFFICES ASSUME NEW r \in Sessions \ disturbed PROVE RowNames(r)' /\ TasksName(r)'
  BY DEF AllNamed
<1> QED
  BY NamesKept

LEMMA PostNames ==
    ASSUME TypeOK, SoleOperator, HandleInv, NEW c \in Posts, Post(c)
    PROVE  AllNamed' /\ UpHasPort'
<1> TasksOK /\ StoreOK /\ EngineOK /\ UpHasPort /\ c \in Requests /\ Posts \subseteq Requests
  BY DEF TypeOK, HandleInv, Requests
<1>0. req[c] \in TaskType /\ req \in [Requests -> TaskType]
  BY DEF TasksOK
<1>1. UNCHANGED <<res, disturbed>>
  BY DEF Post, PostInsert, PostClaim, PostSpawn, PostHealth, PostCommit,
         PostCleanup, PostFail, ghosts
<1>2. CASE PostInsert(c)
  <2>1. PICK p \in Procs, s \in Sessions :
            /\ entry' = [entry EXCEPT ![s] = FreshEntry]
            /\ req' = [req EXCEPT ![c] = Task("claim", s, p)]
            /\ UNCHANGED box
    BY <1>2 DEF PostInsert
  <2>2. \A r \in Sessions : NoneReadied(r)
    BY <1>0, <1>1, <2>1 DEF NoneReadied, Ready, Task
  <2>3. \A r \in Sessions : RowKept(r)
    BY <2>1, RowsKept
  <2>4. UpHasPort' /\ \A r \in Sessions : PortKept(r)
    BY <2>1, PortsKept
  <2> QED
    BY <1>1, <2>2, <2>3, <2>4, CalmNames
<1>3. CASE ~PostInsert(c)
  <2>1. InFlight(req[c])
    BY <1>3 DEF Post, PostClaim, PostSpawn, PostHealth, PostCommit, PostCleanup,
                PostFail, InFlight
  <2>2. req[c].s \in Sessions /\ req[c].port \in Nat
    BY <2>1, BusyFields DEF TasksOK
  <2> PICK s \in Sessions : s = req[c].s
    BY <2>2
  <2>3. ASSUME s \notin disturbed, Creating(c, s)
        PROVE  /\ entry[s].state = "Creating"
               /\ \A d \in Posts \ {c} : ~Ready(req[d], s)
               /\ \A v \in Visits : ~Ready(res[v], s)
    BY <2>3, OnlyOperator
       DEF SoleOperator, CreateExcludes, Creating, Resuming, CreateOps, ResumeOps, Ready
  <2>4. CASE PostClaim(c) \/ PostHealth(c) \/ PostCleanup(c) \/ PostFail(c)
    <3>1. \A r \in Sessions : RowKept(r)
      BY <2>4, RowsKept DEF PostClaim, PostHealth, PostCleanup, PostFail, store
    <3>2. UpHasPort' /\ \A r \in Sessions : PortKept(r)
      BY <2>4, PortsKept DEF PostClaim, PostHealth, PostCleanup, PostFail, engine
    <3>3. \A r \in Sessions : NoneReadied(r)
      BY <1>1, <2>4, ReqCalm DEF PostClaim, PostHealth, PostCleanup, PostFail
    <3> QED
      BY <1>1, <3>1, <3>2, <3>3, CalmNames
  <2>5. CASE PostSpawn(c)
    <3>1. Creating(c, s) /\ UNCHANGED entry
      BY <2>5 DEF PostSpawn, Creating, CreateOps, store
    <3>2. CASE SpawnFails(s) /\ Goto(c, "fail")
      <4>1. CASE box' \in Removed(s)
        <5>1. UpHasPort' /\ \A r \in Sessions : PortKept(r)
          BY <4>1, PortsKept
        <5> QED
          BY <1>1, <3>1, <3>2, <5>1, ReqCalm, RowsKept, CalmNames
      <4>2. CASE box' = [box EXCEPT ![s] = Spawned(@)]
        <5>1. /\ req'[c].s = s /\ req'[c].pc = "fail"
              /\ \A d \in Requests \ {c} : req'[d] = req[d]
          BY <1>0, <2>1, <3>2, BusyIffInFlight DEF BusyTask, Goto
        <5>2. /\ box'[s].port = box[s].port + 1 /\ box[s].port \in Nat
              /\ \A r \in Sessions \ {s} : box'[r] = box[r]
          BY <4>2 DEF Spawned, EngineOK
        <5>3. UpHasPort'
          BY <5>2 DEF UpHasPort, NoHandle
        <5>4. \A r \in Sessions \ {s} : PortKept(r) /\ RowKept(r) /\ NoneReadied(r)
          BY <1>1, <3>1, <5>1, <5>2 DEF PortKept, RowKept, NoneReadied, Ready
        <5>5. s \notin disturbed => RowNames(s)' /\ TasksName(s)'
          BY <1>1, <2>3, <3>1, <5>1, <5>2 DEF RowNames, TasksName, Names, Ready, NoHandle
        <5> QED
          BY <1>1, <5>3, <5>4, <5>5, OperatorNames
      <4> QED
        BY <3>2, <4>1, <4>2 DEF SpawnFails
    <3>3. CASE Spawn(s) /\ req' = [req EXCEPT ![c].pc = "health", ![c].port = box[s].port + 1]
      <4>1. /\ req'[c].s = s /\ req'[c].port = box[s].port + 1
            /\ \A d \in Requests \ {c} : req'[d] = req[d]
        BY <1>0, <2>1, <3>3, BusyIffInFlight DEF BusyTask
      <4>2. /\ box'[s].port = box[s].port + 1 /\ box[s].port \in Nat
            /\ \A r \in Sessions \ {s} : box'[r] = box[r]
        BY <3>3 DEF Spawn, Spawned, EngineOK
      <4>3. UpHasPort'
        BY <4>2 DEF UpHasPort, NoHandle
      <4>4. \A r \in Sessions \ {s} : PortKept(r) /\ RowKept(r) /\ NoneReadied(r)
        BY <1>1, <3>1, <4>1, <4>2 DEF PortKept, RowKept, NoneReadied, Ready
      <4>5. s \notin disturbed => RowNames(s)' /\ TasksName(s)'
        BY <1>1, <2>3, <3>1, <4>1, <4>2 DEF RowNames, TasksName, Names, Ready, NoHandle
      <4> QED
        BY <1>1, <4>3, <4>4, <4>5, OperatorNames
    <3> QED
      BY <2>5, <3>2, <3>3 DEF PostSpawn
  <2>6. CASE PostCommit(c)
    <3>1. Creating(c, s) /\ Ready(req[c], s) /\ UNCHANGED box
      BY <2>6 DEF PostCommit, Creating, CreateOps, Ready, engine
    <3>2. UpHasPort' /\ \A r \in Sessions : PortKept(r)
      BY <3>1, PortsKept
    <3>3. \A r \in Sessions : NoneReadied(r)
      BY <1>1, <2>6, ReqCalm DEF PostCommit
    <3>4. entry' = [entry EXCEPT ![s] = CasTransition(@, "Creating", "Running", req[c].port)]
      BY <2>6 DEF PostCommit, Cas
    <3>5. \A r \in Sessions \ {s} : RowKept(r)
      BY <3>4 DEF RowKept, StoreOK
    <3>6. ASSUME s \notin disturbed PROVE RowNames(s)' /\ TasksName(s)'
      <4>1. Names(req[c].port, s)
        BY <3>1, <3>6 DEF HandleInv, AllNamed, TasksName
      <4>2. entry'[s].handle = req[c].port
        BY <2>3, <3>1, <3>4, <3>6, <4>1
           DEF CasTransition, CasHit, Edges, States, StoreOK, Row, Names
      <4> QED
        BY <3>1, <3>2, <3>3, <3>6, <4>1, <4>2, NamesKept DEF RowNames, Names
    <3> QED
      BY <1>1, <3>2, <3>3, <3>5, <3>6, OperatorNames
  <2> QED
    BY <1>3, <2>4, <2>5, <2>6 DEF Post
<1> QED
  BY <1>2, <1>3

LEMMA VisitNames ==
    ASSUME TypeOK, HandleInv, NEW v \in Visits, Visit(v)
    PROVE  AllNamed' /\ UpHasPort'
<1> TasksOK /\ StoreOK /\ EngineOK /\ UpHasPort /\ v \in Requests
  BY DEF TypeOK, HandleInv, Requests
<1>1. UNCHANGED <<box, disturbed>>
  BY DEF Visit, VisitArrive, VisitRead, VisitConnect, VisitMark, VisitLook,
         VisitLeave, VisitRelease, engine, ghosts
<1>2. UpHasPort' /\ \A s \in Sessions : PortKept(s)
  BY <1>1 DEF UpHasPort, PortKept
<1>3. \A s \in Sessions : RowKept(s)
  <2>1. CASE VisitMark(v)
    BY <2>1, RowsKept, BusyFields DEF VisitMark, TasksOK, InFlight
  <2>2. CASE UNCHANGED entry
    BY <2>2 DEF RowKept
  <2> QED
    BY <2>1, <2>2 DEF Visit, VisitArrive, VisitRead, VisitConnect, VisitLook,
                      VisitLeave, VisitRelease, store
<1>4. \A s \in Sessions : NoneReadied(s)
  <2>1. \A c \in Posts : req'[c] = req[c]
    BY RequestsAreDistinct
       DEF Visit, VisitArrive, VisitRead, VisitConnect, VisitMark, VisitLook, VisitLeave,
           VisitRelease, Proceed, Goto, Finish, TasksOK, Requests
  <2>2. \A w \in Visits : res'[w] = res[w] \/ res'[w].pc = "read"
    BY DEF Visit, VisitArrive, VisitRead, VisitConnect, VisitMark, VisitLook, VisitLeave,
           VisitRelease, Proceed, Task, TasksOK
  <2> QED
    BY <2>1, <2>2 DEF NoneReadied, Ready
<1> QED
  BY <1>1, <1>2, <1>3, <1>4, CalmNames

LEMMA ResumeNames ==
    ASSUME TypeOK, SoleOperator, HandleInv, NEW v \in Visits, Resume(v)
    PROVE  AllNamed' /\ UpHasPort'
<1> TasksOK /\ StoreOK /\ EngineOK /\ UpHasPort
  BY DEF TypeOK, HandleInv
<1>0. res[v] \in TaskType /\ res \in [Visits -> TaskType]
  BY DEF TasksOK
<1>1. UNCHANGED <<req, disturbed>>
  BY DEF Resume, ResumeRead, ResumeCas, ResumeRestore, ResumeOp, ResumeHealth,
         ResumeCommit, ResumeUnmark, ResumeRmFiles, ResumeFail, ghosts
<1>2. InFlight(res[v])
  BY DEF Resume, ResumeRead, ResumeCas, ResumeRestore, ResumeOp, ResumeHealth,
         ResumeCommit, ResumeUnmark, ResumeRmFiles, ResumeFail, InFlight
<1>3. res[v].s \in Sessions /\ res[v].port \in Nat /\ res[v].seen \in Row
  BY <1>2, BusyFields DEF TasksOK
<1> PICK s \in Sessions : s = res[v].s
  BY <1>3
<1>4. ASSUME s \notin disturbed, Resuming(v, s)
      PROVE  /\ entry[s].state = "Resuming"
             /\ \A c \in Posts : ~Ready(req[c], s)
             /\ \A w \in Visits \ {v} : ~Ready(res[w], s)
  BY <1>4, OnlyOperator
     DEF SoleOperator, ResumeExcludes, Creating, Resuming, CreateOps, ResumeOps, Ready
<1>5. CASE UNCHANGED box /\ ~ResumeCommit(v) /\ ~ResumeOp(v)
  <2>1. UpHasPort' /\ \A r \in Sessions : PortKept(r)
    BY <1>5, PortsKept
  <2>2. \A r \in Sessions : RowKept(r)
    <3>1. CASE ResumeCas(v) \/ ResumeFail(v)
      BY <1>3, <3>1, RowsKept DEF ResumeCas, ResumeFail
    <3>2. CASE ResumeUnmark(v)
      BY <1>3, <3>2, RowsKept DEF ResumeUnmark
    <3>3. CASE UNCHANGED entry
      BY <3>3, RowsKept
    <3> QED
      BY <1>5, <3>1, <3>2, <3>3
         DEF Resume, ResumeRead, ResumeRestore, ResumeHealth, ResumeRmFiles, store
  <2>3. \A r \in Sessions : NoneReadied(r)
    <3>1. CASE ResumeRead(v)
      <4>1. \A w \in Visits : res'[w] = res[w] \/ res'[w].pc \in {"cas", "done"}
        BY <1>0, <1>2, <3>1, BusyIffInFlight
           DEF ResumeRead, FinishRes, BusyTask, Done, Task
      <4> QED
        BY <1>1, <4>1 DEF NoneReadied, Ready
    <3>2. CASE ResumeCas(v)
      BY <1>1, <3>2, ResCalm DEF ResumeCas
    <3>3. CASE ResumeRestore(v) \/ ResumeHealth(v) \/ ResumeUnmark(v) \/ ResumeRmFiles(v)
               \/ ResumeFail(v)
      BY <1>1, <3>3, ResCalm
         DEF ResumeRestore, ResumeHealth, ResumeUnmark, ResumeRmFiles, ResumeFail
    <3> QED
      BY <1>5, <3>1, <3>2, <3>3 DEF Resume
  <2> QED
    BY <1>1, <2>1, <2>2, <2>3, CalmNames
<1>6. CASE ResumeOp(v)
  <2>1. Resuming(v, s) /\ UNCHANGED entry
    BY <1>6 DEF ResumeOp, Resuming, ResumeOps, store
  <2>2. ASSUME NEW b, box' = [box EXCEPT ![s] = b], b.port \in Nat,
               b.up = "up" => b.port # NoHandle,
               \/ \E pc \in {"fail"} : GotoRes(v, pc)
               \/ /\ res' = [res EXCEPT ![v].pc = "health", ![v].port = b.port]
                  /\ b.port # NoHandle
        PROVE  AllNamed' /\ UpHasPort'
    <3>1. /\ res'[v].s = s
          /\ Ready(res'[v], s) => res'[v].port = b.port /\ b.port # NoHandle
          /\ \A w \in Visits \ {v} : res'[w] = res[w]
      BY <1>0, <1>2, <2>2, BusyIffInFlight DEF BusyTask, GotoRes, Ready
    <3>2. box'[s] = b /\ \A r \in Sessions \ {s} : box'[r] = box[r]
      BY <2>2 DEF EngineOK
    <3>3. UpHasPort'
      BY <2>2, <3>2 DEF UpHasPort
    <3>4. \A r \in Sessions \ {s} : PortKept(r) /\ RowKept(r) /\ NoneReadied(r)
      BY <1>1, <2>1, <3>1, <3>2 DEF PortKept, RowKept, NoneReadied, Ready
    <3>5. s \notin disturbed => RowNames(s)' /\ TasksName(s)'
      BY <1>1, <1>4, <2>1, <3>1, <3>2 DEF RowNames, TasksName, Names, Ready
    <3> QED
      BY <1>1, <3>3, <3>4, <3>5, OperatorNames
  <2>3. /\ box[s] \in [up : {"absent", "stopped", "up"}, port : Nat]
        /\ box = [box EXCEPT ![s] = box[s]]
    BY DEF EngineOK
  <2>4. \A b \in {box[s], Gone(box[s]), Spawned(box[s]), Started(box[s])} :
           b.port \in Nat /\ (b.up = "up" => b.port # NoHandle)
    BY <2>3 DEF Gone, Spawned, Started, NoHandle, UpHasPort
  <2>5. Started(box[s]).port # NoHandle
    BY <2>3 DEF Spawned, Started, NoHandle, UpHasPort
  <2>6. Spawned(box[s]).port = box[s].port + 1 /\ box[s].port + 1 # NoHandle
    BY <2>3 DEF Spawned, NoHandle
  <2>7. CASE Start(s) /\ res' = [res EXCEPT ![v].pc = "health", ![v].port = Started(box[s]).port]
    BY <2>2, <2>4, <2>5, <2>7 DEF Start
  <2>8. CASE (Start(s) \/ UNCHANGED box) /\ GotoRes(v, "fail")
    BY <2>2, <2>3, <2>4, <2>8 DEF Start
  <2>9. CASE Spawn(s) /\ res' = [res EXCEPT ![v].pc = "health", ![v].port = box[s].port + 1]
    BY <2>2, <2>4, <2>6, <2>9 DEF Spawn
  <2>10. CASE SpawnFails(s) /\ GotoRes(v, "fail")
    BY <2>2, <2>3, <2>4, <2>10 DEF SpawnFails, Removed
  <2> QED
    BY <1>6, <2>7, <2>8, <2>9, <2>10 DEF ResumeOp
<1>7. CASE ResumeCommit(v)
  <2>1. Resuming(v, s) /\ Ready(res[v], s) /\ UNCHANGED box
    BY <1>7 DEF ResumeCommit, Resuming, ResumeOps, Ready, engine
  <2>2. UpHasPort' /\ \A r \in Sessions : PortKept(r)
    BY <2>1, PortsKept
  <2>3. \A r \in Sessions : NoneReadied(r)
    BY <1>1, <1>7, ResCalm DEF ResumeCommit
  <2>4. entry' = [entry EXCEPT ![s] = CasTransition(@, "Resuming", "Running", res[v].port)]
    BY <1>7 DEF ResumeCommit, Cas
  <2>5. \A r \in Sessions \ {s} : RowKept(r)
    BY <2>4 DEF RowKept, StoreOK
  <2>6. ASSUME s \notin disturbed PROVE RowNames(s)' /\ TasksName(s)'
    <3>1. Names(res[v].port, s)
      BY <2>1, <2>6 DEF HandleInv, AllNamed, TasksName
    <3>2. entry'[s].handle = res[v].port
      BY <1>4, <2>1, <2>4, <2>6, <3>1
         DEF CasTransition, CasHit, Edges, States, StoreOK, Row, Names
    <3> QED
      BY <2>1, <2>2, <2>3, <2>6, <3>1, <3>2, NamesKept DEF RowNames, Names
  <2> QED
    BY <1>1, <2>2, <2>3, <2>5, <2>6, OperatorNames
<1>8. UNCHANGED box \/ ResumeOp(v)
  BY DEF Resume, ResumeRead, ResumeCas, ResumeRestore, ResumeHealth,
         ResumeCommit, ResumeUnmark, ResumeRmFiles, ResumeFail, engine
<1> QED
  BY <1>5, <1>6, <1>7, <1>8

LEMMA DeleteNames ==
    ASSUME TypeOK, HandleInv, NEW d \in Deletes, Delete(d)
    PROVE  AllNamed' /\ UpHasPort'
<1> TasksOK /\ StoreOK /\ EngineOK /\ UpHasPort /\ d \in Requests
  BY DEF TypeOK, HandleInv, Requests
<1>1. UNCHANGED res /\ disturbed \subseteq disturbed'
  BY DEF Delete, DeleteRead, DeleteCas, DeleteRetry, DeleteDestroy, DeleteRmFiles,
         DeleteRemove, Override, ghosts
<1>2. ~DeleteRead(d) => req[d].s \in Sessions
  BY BusyFields DEF Delete, DeleteCas, DeleteRetry, DeleteDestroy, DeleteRmFiles,
     DeleteRemove, InFlight, TasksOK
<1>3. \A s \in Sessions : NoneReadied(s)
  <2>1. \A c \in Posts : req'[c] = req[c]
    BY RequestsAreDistinct
       DEF Delete, DeleteRead, DeleteCas, DeleteRetry, DeleteDestroy, DeleteRmFiles,
           DeleteRemove, Goto, Finish, TasksOK, Requests
  <2> QED
    BY <1>1, <2>1 DEF NoneReadied
<1>4. \A s \in Sessions : RowKept(s)
  <2>1. CASE DeleteCas(d)
    BY <1>2, <2>1, RowsKept DEF DeleteCas, DeleteRead
  <2>2. CASE DeleteRemove(d)
    BY <1>2, <2>2, RowsKept DEF DeleteRemove, DeleteRead
  <2>3. CASE UNCHANGED entry
    BY <2>3 DEF RowKept
  <2> QED
    BY <2>1, <2>2, <2>3 DEF Delete, DeleteRead, DeleteRetry, DeleteDestroy,
                            DeleteRmFiles, store
<1>5. UpHasPort' /\ \A s \in Sessions : PortKept(s)
  <2>1. CASE DeleteDestroy(d)
    BY <1>2, <2>1, PortsKept DEF DeleteDestroy, Destroy, DeleteRead
  <2>2. CASE UNCHANGED box
    BY <2>2 DEF UpHasPort, PortKept
  <2> QED
    BY <2>1, <2>2 DEF Delete, DeleteRead, DeleteCas, DeleteRetry, DeleteRmFiles,
                      DeleteRemove, engine
<1> QED
  BY <1>1, <1>3, <1>4, <1>5, CalmNames

LEMMA SweepNames ==
    ASSUME TypeOK, HandleInv, NEW p \in Procs, Sweep(p)
    PROVE  AllNamed' /\ UpHasPort'
<1> StoreOK /\ EngineOK /\ UpHasPort
  BY DEF TypeOK, HandleInv
<1>1. UNCHANGED <<req, res>> /\ disturbed \subseteq disturbed'
  BY DEF Sweep, SweepList, SweepClaim, SweepCas, SweepGet, SweepStop, DeepRead,
         DeepClaim, DeepExport, DeepMark, DeepDestroy, DeepRelease, tasks, ghosts
<1>2. sweep[p].pc \in {"cas", "stop", "mark", "destroy"} => sweep[p].s \in Sessions
  BY BusyFields DEF TypeOK, ReplicasOK, InFlight
<1>3. \A s \in Sessions : NoneReadied(s)
  BY <1>1 DEF NoneReadied
<1>4. \A s \in Sessions : RowKept(s)
  <2>1. CASE SweepCas(p)
    BY <1>2, <2>1, RowsKept DEF SweepCas, Sweeping
  <2>2. CASE DeepMark(p)
    BY <1>2, <2>2, RowsKept DEF DeepMark, Sweeping
  <2>3. CASE UNCHANGED entry
    BY <2>3 DEF RowKept
  <2> QED
    BY <2>1, <2>2, <2>3 DEF Sweep, SweepList, SweepClaim, SweepGet, SweepStop,
       DeepRead, DeepClaim, DeepExport, DeepDestroy, DeepRelease, store
<1>5. UpHasPort' /\ \A s \in Sessions : PortKept(s)
  <2>1. CASE SweepStop(p)
    BY <1>2, <2>1, PortsKept DEF SweepStop, Sweeping
  <2>2. CASE DeepDestroy(p)
    BY <1>2, <2>2, PortsKept DEF DeepDestroy, Destroy, Sweeping
  <2>3. CASE UNCHANGED box
    BY <2>3 DEF UpHasPort, PortKept
  <2> QED
    BY <2>1, <2>2, <2>3 DEF Sweep, SweepList, SweepClaim, SweepCas, SweepGet,
       DeepRead, DeepClaim, DeepExport, DeepMark, DeepRelease, engine
<1> QED
  BY <1>1, <1>3, <1>4, <1>5, CalmNames

\* While a replica serves, nobody reconciles.
LEMMA ServingSteps ==
    ASSUME TypeOK, FileInv,
           \/ \E c \in Posts : Post(c)
           \/ \E v \in Visits : Visit(v) \/ Resume(v)
           \/ \E d \in Deletes : Delete(d)
           \/ \E p \in Procs : Sweep(p)
    PROVE  UNCHANGED <<proc, boot>> /\ \A q \in Procs : proc[q] # "boot"
<1> TasksOK /\ LiveTasks /\ OneReplica
  BY DEF TypeOK, FileInv
<1>1. \A c \in Requests : InFlight(req[c]) => \A q \in Procs : proc[q] # "boot"
  BY BusyFields DEF TasksOK, LiveTasks, OneReplica
<1>2. \A v \in Visits : InFlight(res[v]) => \A q \in Procs : proc[q] # "boot"
  BY BusyFields DEF TasksOK, LiveTasks, OneReplica
<1>3. \A p \in Procs : proc[p] = "up" => \A q \in Procs : proc[q] # "boot"
  BY DEF OneReplica
<1>4. ASSUME NEW c \in Posts, Post(c)
      PROVE  UNCHANGED <<proc, boot>> /\ \A q \in Procs : proc[q] # "boot"
  BY <1>1, <1>3, <1>4 DEF Requests, InFlight, Post, PostInsert, PostClaim, PostSpawn,
     PostHealth, PostCommit, PostCleanup, PostFail, replicas
<1>5. ASSUME NEW v \in Visits, Visit(v)
      PROVE  UNCHANGED <<proc, boot>> /\ \A q \in Procs : proc[q] # "boot"
  BY <1>1, <1>3, <1>5 DEF Requests, InFlight, Visit, VisitArrive, VisitRead,
     VisitConnect, VisitMark, VisitLook, VisitLeave, VisitRelease, Guarding, replicas
<1>6. ASSUME NEW v \in Visits, Resume(v)
      PROVE  UNCHANGED <<proc, boot>> /\ \A q \in Procs : proc[q] # "boot"
  BY <1>2, <1>6 DEF InFlight, Resume, ResumeRead, ResumeCas, ResumeRestore, ResumeOp,
     ResumeHealth, ResumeCommit, ResumeUnmark, ResumeRmFiles, ResumeFail, replicas
<1>7. ASSUME NEW d \in Deletes, Delete(d)
      PROVE  UNCHANGED <<proc, boot>> /\ \A q \in Procs : proc[q] # "boot"
  BY <1>1, <1>3, <1>7 DEF Requests, InFlight, Delete, DeleteRead, DeleteCas,
     DeleteRetry, DeleteDestroy, DeleteRmFiles, DeleteRemove, replicas
<1>8. ASSUME NEW p \in Procs, Sweep(p)
      PROVE  UNCHANGED <<proc, boot>> /\ \A q \in Procs : proc[q] # "boot"
  BY <1>3, <1>8 DEF Sweep, SweepList, SweepClaim, SweepCas, SweepGet, SweepStop,
     DeepRead, DeepClaim, DeepExport, DeepMark, DeepDestroy, DeepRelease, Sweeping
<1> QED
  BY <1>4, <1>5, <1>6, <1>7, <1>8

\* A reconciliation finds alive only the container of the handle it listed,
\* which the row still holds when it is forced.
LEMMA BootNames ==
    ASSUME TypeOK, FileInv, HandleInv, ~Leasing, NEW p \in Procs, Boot(p)
    PROVE  HandleInv'
<1> StoreOK /\ BootInv /\ OneReplica /\ UpHasPort /\ ProbeNames /\ AllNamed
  BY DEF TypeOK, FileInv, HandleInv
<1>0. boot \in [Procs -> BootType] /\ proc \in [Procs -> {"off", "boot", "up", "down"}]
  BY DEF TypeOK, ReplicasOK
<1>1. UNCHANGED <<req, res, box>> /\ disturbed \subseteq disturbed'
  BY DEF Boot, BootStart, BootClaim, BootProbe, BootReread, BootForce,
         BootRelease, BootDone, tasks, engine, ghosts
<1>2. UpHasPort' /\ \A s \in Sessions : PortKept(s) /\ NoneReadied(s)
  BY <1>1 DEF UpHasPort, PortKept, NoneReadied
<1>3. /\ \A q \in Procs \ {p} : proc'[q] # "boot"
      /\ \A q \in Procs \ {p} : boot'[q] = boot[q]
  BY <1>0 DEF Boot, BootStart, BootClaim, BootProbe, BootReread, BootForce,
         BootRelease, BootDone, Booting, OneReplica
<1>4. proc[p] = "boot" => Consistent(boot[p], entry)
  BY DEF BootInv
<1>5. ASSUME UNCHANGED entry,
             \/ boot'[p].pc \notin {"reread", "force"}
             \/ /\ proc[p] = "boot" /\ boot[p].pc \in {"reread", "force"}
                /\ boot'[p].s = boot[p].s /\ boot'[p].alive = boot[p].alive
             \/ boot'[p].alive => entry[boot'[p].s].handle = box[boot'[p].s].port
      PROVE  HandleInv'
  <2>1. \A s \in Sessions : RowKept(s)
    BY <1>5 DEF RowKept
  <2>2. ProbeNames'
    BY <1>1, <1>3, <1>5 DEF ProbeNames
  <2> QED
    BY <1>1, <1>2, <2>1, <2>2, CalmNames DEF HandleInv
<1>6. CASE BootStart(p)
  BY <1>0, <1>5, <1>6 DEF BootStart, BootIdle, store
<1>7. CASE \E s \in Sessions : BootClaim(p, s)
  <2>1. PICK s \in Sessions : BootClaim(p, s)
    BY <1>7
  <2>2. boot'[p].pc \in {"probe", "next"}
    BY <1>0, <2>1 DEF BootClaim, BootType
  <2> QED
    BY <1>5, <2>1, <2>2 DEF BootClaim
<1>8. CASE BootProbe(p)
  <2> DEFINE s == boot[p].s
             handle == boot[p].rows[s].handle
  <2>1. PICK alive \in ProbeResults(s, handle) :
            boot' = [boot EXCEPT ![p].pc = "reread",
                        ![p].alive = alive /\ handle # NoHandle]
    BY <1>8 DEF BootProbe
  <2>2. boot'[p].s = s /\ (boot'[p].alive => alive)
    BY <1>0, <2>1 DEF BootType
  <2>3. boot[p].pc = "probe" /\ proc[p] = "boot" /\ UNCHANGED entry
    BY <1>8 DEF BootProbe, Booting, store
  <2>4. handle = entry[s].handle
    BY <1>4, <2>3 DEF Consistent, Current
  <2>5. alive => handle = box[s].port
    BY <2>1 DEF ProbeResults, Healthy
  <2> QED
    BY <1>5, <2>2, <2>3, <2>4, <2>5
<1>9. CASE BootReread(p)
  <2>1. boot'[p].s = boot[p].s /\ boot'[p].alive = boot[p].alive
    BY <1>0, <1>9 DEF BootReread, BootType
  <2> QED
    BY <1>5, <1>9, <2>1 DEF BootReread, Booting, store
<1>10. CASE BootForce(p)
  <2>0. boot[p].pc = "force" /\ proc[p] = "boot" /\ boot[p].s \in Sessions
    BY <1>10 DEF BootForce, Booting, TypeOK, ReplicasOK
  <2>1. PICK s \in Sessions : s = boot[p].s
    BY <2>0
  <2>10. PICK e : e = ForceUpdate(entry[s], Reconciled(boot[p]))
    OBVIOUS
  <2>2. /\ boot[p].fresh = entry[s] /\ entry[s].state \in Interrupted
        /\ boot[p].alive => entry[s].handle # NoHandle /\ entry[s].handle = box[s].port
    BY <1>4, <2>0, <2>1 DEF Consistent, Current, ProbeNames
  <2>3. entry' = [entry EXCEPT ![s] = e]
    BY <1>10, <2>1, <2>10 DEF BootForce
  <2>4. /\ e = [entry[s] EXCEPT !.state = IF boot[p].alive THEN "Running" ELSE "Crashed"]
        /\ entry[s] \in Row
    BY <2>10, <2>2 DEF ForceUpdate, Reconciled, Exists, Interrupted, Absent, StoreOK
  <2>5. e.handle = entry[s].handle /\ (e.state = "Running" => boot[p].alive)
    BY <2>4 DEF Row
  <2>6. entry'[s] = e /\ \A r \in Sessions \ {s} : entry'[r] = entry[r]
    BY <2>3 DEF StoreOK
  <2>7. RowNames(s)'
    BY <1>1, <2>2, <2>5, <2>6 DEF RowNames, Names
  <2>8. AllNamed'
    <3> SUFFICES ASSUME NEW r \in Sessions \ disturbed' PROVE RowNames(r)' /\ TasksName(r)'
      BY DEF AllNamed
    <3>1. TasksName(r)'
      BY <1>1, <1>2, NamesKept
    <3>2. CASE r # s
      BY <1>1, <1>2, <2>6, <3>1, <3>2, NamesKept DEF RowKept
    <3> QED
      BY <2>7, <3>1, <3>2
  <2>9. ProbeNames'
    <3>1. boot'[p].pc \in {"release", "next"}
      BY <1>0, <1>10 DEF BootForce, BootType
    <3> QED
      BY <1>3, <3>1 DEF ProbeNames
  <2> QED
    BY <1>2, <2>8, <2>9 DEF HandleInv
<1>11. CASE BootRelease(p)
  <2>1. boot'[p].pc = "next"
    BY <1>0, <1>11 DEF BootRelease, BootType
  <2> QED
    BY <1>5, <1>11, <2>1 DEF BootRelease
<1>12. CASE BootDone(p)
  BY <1>0, <1>5, <1>12 DEF BootDone, BootIdle, store
<1> QED
  BY <1>6, <1>7, <1>8, <1>9, <1>10, <1>11, <1>12 DEF Boot

LEMMA EnvironmentNames ==
    ASSUME TypeOK, HandleInv, Environment
    PROVE  HandleInv'
<1> TasksOK /\ StoreOK /\ EngineOK /\ UpHasPort /\ ProbeNames
  BY DEF TypeOK, HandleInv
<1>0. boot \in [Procs -> BootType] /\ proc \in [Procs -> {"off", "boot", "up", "down"}]
  BY DEF TypeOK, ReplicasOK
<1>1. UNCHANGED <<entry, disturbed>>
  BY DEF Environment, Crash, Shutdown, DeepRenew, Expire, ContainerDies,
         EngineWrites, HangUp, VisitRenew, store, ghosts
<1>2. UpHasPort' /\ \A s \in Sessions : PortKept(s)
  <2>1. CASE \E s \in Sessions : ContainerDies(s)
    BY <2>1, PortsKept DEF ContainerDies
  <2>2. CASE UNCHANGED box
    BY <2>2 DEF UpHasPort, PortKept
  <2> QED
    BY <2>1, <2>2 DEF Environment, Crash, Shutdown, DeepRenew, Expire,
                      EngineWrites, HangUp, VisitRenew, engine
<1>3. \A s \in Sessions : NoneReadied(s)
  <2>1. /\ \A c \in Requests : req'[c] = req[c] \/ req'[c] = Done
        /\ \A v \in Visits : res'[v] = res[v] \/ res'[v] = Done
    BY DEF Environment, Crash, Shutdown, Halt, DeepRenew, Expire, ContainerDies,
           EngineWrites, HangUp, Finish, VisitRenew, tasks, TasksOK
  <2> QED
    BY <2>1 DEF NoneReadied, Ready, Done, Task, Requests
<1>4. \A q \in Procs : \/ boot'[q] = boot[q] /\ proc'[q] = proc[q]
                       \/ proc'[q] = "down"
  BY <1>0 DEF Environment, Crash, Shutdown, Halt, DeepRenew, Expire, ContainerDies,
         EngineWrites, HangUp, VisitRenew, replicas
<1>5. ProbeNames'
  <2> SUFFICES ASSUME NEW q \in Procs, proc'[q] = "boot",
                      boot'[q].pc \in {"reread", "force"}, boot'[q].alive
               PROVE  entry'[boot'[q].s].handle = box'[boot'[q].s].port
    BY DEF ProbeNames
  <2>1. boot'[q] = boot[q] /\ proc'[q] = proc[q]
    BY <1>4
  <2>2. boot[q].s \in Sessions
    BY <2>1 DEF TypeOK, ReplicasOK
  <2> QED
    BY <1>1, <1>2, <2>1, <2>2 DEF ProbeNames, PortKept
<1> QED
  BY <1>1, <1>2, <1>3, <1>5, CalmNames DEF HandleInv, RowKept

LEMMA NextNames ==
    ASSUME TypeOK, FileInv, SoleOperator, HandleInv, ~Leasing, [Next]_vars
    PROVE  HandleInv'
<1>1. ASSUME \/ \E c \in Posts : Post(c)
             \/ \E v \in Visits : Visit(v) \/ Resume(v)
             \/ \E d \in Deletes : Delete(d)
             \/ \E p \in Procs : Sweep(p)
      PROVE  HandleInv'
  <2>1. ProbeNames'
    BY <1>1, ServingSteps DEF ProbeNames
  <2> QED
    BY <1>1, <2>1, PostNames, VisitNames, ResumeNames, DeleteNames, SweepNames DEF HandleInv
<1>2. CASE UNCHANGED vars
  BY <1>2 DEF HandleInv, AllNamed, RowNames, TasksName, Names, Ready, ProbeNames, UpHasPort,
              vars, store, engine, replicas, tasks, ghosts
<1> QED
  BY <1>1, <1>2, BootNames, EnvironmentNames DEF Next

\* On the file backend, through every hibernation, container death, deletion
\* and restart: the handle of a Running row is the port of the container
\* that was started last, so the proxy never connects to an older one
\* (RunningNamesNewest).
THEOREM HandlesNewest == ASSUME ~Leasing PROVE Spec => []RunningNamesNewest
<1>1. Init => HandleInv
  BY DEF Init, HandleInv, AllNamed, RowNames, TasksName, Ready, ProbeNames, UpHasPort,
         NoEntry, Absent, Idle, Task, Requests
<1>2. TypeOK /\ FileInv /\ SoleOperator /\ HandleInv /\ [Next]_vars => HandleInv'
  BY NextNames
<1>3. HandleInv => RunningNamesNewest
  BY DEF HandleInv, AllNamed, RowNames, Names, RunningNamesNewest
<1> QED
  BY <1>1, <1>2, <1>3, FileAlways, Exclusion, PTL DEF Spec

-----------------------------------------------------------------------------
(* The deep archive: from its validation to the destruction of the volume, *)
(* a pass owns the row that stays Hibernating.  No resume is past its claim *)
(* of it, and what the pass has exported is what the volume holds.         *)

\* The sweep of a replica ends with it.
SweepLive == \A p \in Procs : sweep[p].pc # "idle" => proc[p] = "up"

\* A DELETE that is past its transition.
Deleting(s) ==
    \E d \in Deletes : req[d].s = s /\ req[d].pc \in {"destroy", "rmfiles", "remove"}

Archiving(p, s) ==
    /\ sweep[p].s = s /\ sweep[p].pc \in {"dclaim", "export", "mark", "destroy"}
    /\ entry[s].state = "Hibernating" /\ ~Deleting(s)

\* A resume between its claim and its end.
Claimed(v, s) == res[v].s = s /\ res[v].pc \in ResumeOps \cup {"unmark", "rmfiles"}

ArchiveSafe(p, s) ==
    /\ \A v \in Visits : ~Claimed(v, s)
    /\ sweep[p].pc \in {"mark", "destroy"} => files[s] = vol[s] /\ vol[s] # Nothing
    /\ sweep[p].pc = "destroy" => entry[s].archived

ArchiveInv ==
    /\ SweepLive
    /\ \A p \in Procs, s \in Sessions : Archiving(p, s) => ArchiveSafe(p, s)

\* What a step does that leaves a pass for s alone.
Apart(s) ==
    entry'[s].state = "Hibernating" /\ ~Deleting(s)' =>
        /\ entry[s].state = "Hibernating" /\ ~Deleting(s)
        /\ (\A v \in Visits : ~Claimed(v, s)) =>
              /\ \A v \in Visits : ~Claimed(v, s)'
              /\ files'[s] = files[s]
              /\ vol[s] # Nothing => vol'[s] = vol[s]
              /\ entry[s].archived => entry'[s].archived

LEMMA ApartSafe ==
    ASSUME ArchiveInv, NEW p \in Procs, NEW s \in Sessions,
           sweep'[p] = sweep[p], Apart(s), Archiving(p, s)'
    PROVE  ArchiveSafe(p, s)'
BY DEF ArchiveInv, Archiving, ArchiveSafe, Apart

\* The step property: the volume of a session that is asleep goes.
VolumeGoes(s) ==
    /\ entry[s].state = "Hibernating"
    /\ \A d \in Deletes : req[d].s # s
    /\ vol[s] # Nothing /\ vol'[s] = Nothing

LEMMA VolumeStays ==
    ASSUME EngineOK, NEW r \in Sessions, NEW h, h # Nothing,
           \/ vol' \in {vol, [vol EXCEPT ![r] = Ensured(@)]}
           \/ vol' = [vol EXCEPT ![r] = h]
    PROVE  \A s \in Sessions : ~VolumeGoes(s)
BY DEF EngineOK, Ensured, Empty, Nothing, VolumeGoes

\* A row that is Hibernating after the step was so before, and its marker, if
\* it had one, is still there.
StaysAsleep(s) ==
    entry'[s].state = "Hibernating" =>
        /\ entry[s].state = "Hibernating"
        /\ entry[s].archived => entry'[s].archived

\* No step but the transition of a sweep makes a row Hibernating, and none but
\* the cleanup after a resume clears a marker.
LEMMA NoneHibernates ==
    ASSUME StoreOK, NEW r \in Sessions,
           \/ UNCHANGED entry
           \/ \E from, to, h : Cas(r, from, to, h) /\ to # "Hibernating"
           \/ \E e \in {NoEntry, FreshEntry, SetArchived(entry[r])} :
                 entry' = [entry EXCEPT ![r] = e]
    PROVE  \A s \in Sessions : StaysAsleep(s)
<1>1. CASE UNCHANGED entry
  BY <1>1 DEF StaysAsleep
<1>2. ASSUME NEW e, entry' = [entry EXCEPT ![r] = e],
             e.state = "Hibernating" =>
                entry[r].state = "Hibernating" /\ (entry[r].archived => e.archived)
      PROVE  \A s \in Sessions : StaysAsleep(s)
  BY <1>2 DEF StaysAsleep, StoreOK
<1>3. ASSUME NEW from, NEW to, NEW h, Cas(r, from, to, h), to # "Hibernating"
      PROVE  \A s \in Sessions : StaysAsleep(s)
  <2> DEFINE e == CasTransition(entry[r], from, to, h)
  <2>1. entry' = [entry EXCEPT ![r] = e]
    BY <1>3 DEF Cas
  <2>2. e = entry[r] \/ e.state = to
    BY DEF CasTransition, StoreOK, Row
  <2> QED
    BY <1>2, <1>3, <2>1, <2>2
<1>4. ASSUME NEW e \in {NoEntry, FreshEntry, SetArchived(entry[r])},
             entry' = [entry EXCEPT ![r] = e]
      PROVE  \A s \in Sessions : StaysAsleep(s)
  <2>0. entry[r] \in Row
    BY DEF StoreOK
  <2>1. CASE e \in {NoEntry, FreshEntry}
    BY <1>2, <1>4, <2>1 DEF NoEntry, FreshEntry, Absent
  <2>2. CASE e = SetArchived(entry[r])
    <3>1. e = entry[r] \/ (MarkHit(entry[r]) /\ e.archived)
      BY <2>0, <2>2 DEF SetArchived, Row
    <3> QED
      BY <1>2, <1>4, <3>1 DEF MarkHit
  <2> QED
    BY <1>4, <2>1, <2>2
<1> QED
  BY <1>1, <1>3, <1>4

\* A step that writes no volume and no archive, and makes no row Hibernating
\* and no resume a claimant.
LEMMA ApartSteps ==
    ASSUME UNCHANGED <<vol, files>>, \A s \in Sessions : StaysAsleep(s),
           \A d \in Deletes : req'[d] = req[d],
           \A v \in Visits, s \in Sessions : Claimed(v, s)' => Claimed(v, s)
    PROVE  \A s \in Sessions : Apart(s) /\ ~VolumeGoes(s)
BY DEF Apart, StaysAsleep, VolumeGoes, Deleting

\* A create may still be at a volume, but it only mounts it.
LEMMA PostApart ==
    ASSUME TypeOK, NEW c \in Posts, Post(c)
    PROVE  \A s \in Sessions : Apart(s) /\ ~VolumeGoes(s)
<1> TasksOK /\ StoreOK /\ EngineOK /\ c \in Requests
  BY DEF TypeOK, Requests
<1>1. UNCHANGED <<res, files>>
  BY DEF Post, PostInsert, PostClaim, PostSpawn, PostHealth, PostCommit,
         PostCleanup, PostFail, engine
<1>2. \A d \in Deletes : req'[d] = req[d]
  BY RequestsAreDistinct
     DEF Post, PostInsert, PostClaim, PostSpawn, PostHealth, PostCommit, PostCleanup,
         PostFail, Goto, Finish, TasksOK, Requests
<1>3. ~PostInsert(c) => req[c].s \in Sessions
  BY BusyFields DEF Post, PostClaim, PostSpawn, PostHealth, PostCommit, PostCleanup,
     PostFail, InFlight, TasksOK
<1>4. \A s \in Sessions : StaysAsleep(s)
  <2>1. CASE PostInsert(c)
    BY <2>1, NoneHibernates DEF PostInsert
  <2>2. CASE ~PostInsert(c) /\ (PostCommit(c) \/ PostFail(c))
    BY <1>3, <2>2, NoneHibernates DEF PostCommit, PostFail
  <2>3. CASE UNCHANGED entry
    BY <2>3 DEF StaysAsleep
  <2> QED
    BY <2>1, <2>2, <2>3 DEF Post, PostClaim, PostSpawn, PostHealth, PostCleanup, store
<1>5. \A v \in Visits, s \in Sessions : Claimed(v, s)' => Claimed(v, s)
  BY <1>1 DEF Claimed
<1>6. CASE UNCHANGED vol
  BY <1>1, <1>2, <1>4, <1>5, <1>6, ApartSteps
<1>7. CASE PostSpawn(c)
  <2> PICK r \in Sessions : r = req[c].s
    BY <1>3, <1>7 DEF PostSpawn, PostInsert
  <2>1. vol' \in {vol, [vol EXCEPT ![r] = Ensured(@)]} /\ UNCHANGED entry
    BY <1>7 DEF PostSpawn, Spawn, SpawnFails, store
  <2>2. \A s \in Sessions : vol[s] # Nothing => vol'[s] = vol[s]
    BY <2>1 DEF EngineOK, Ensured
  <2>3. \A s \in Sessions : Apart(s)
    BY <1>1, <1>2, <1>5, <2>1, <2>2 DEF Apart, Deleting
  <2>4. \A s \in Sessions : ~VolumeGoes(s)
    BY <2>1, VolumeStays DEF Nothing
  <2> QED
    BY <2>3, <2>4
<1> QED
  BY <1>6, <1>7 DEF Post, PostInsert, PostClaim, PostHealth, PostCommit, PostCleanup,
                    PostFail, engine

LEMMA VisitApart ==
    ASSUME TypeOK, NEW v \in Visits, Visit(v)
    PROVE  \A s \in Sessions : Apart(s) /\ ~VolumeGoes(s)
<1> TasksOK /\ StoreOK /\ v \in Requests
  BY DEF TypeOK, Requests
<1>1. UNCHANGED <<vol, files>>
  BY DEF Visit, VisitArrive, VisitRead, VisitConnect, VisitMark, VisitLook,
         VisitLeave, VisitRelease, engine
<1>2. \A d \in Deletes : req'[d] = req[d]
  BY RequestsAreDistinct
     DEF Visit, VisitArrive, VisitRead, VisitConnect, VisitMark, VisitLook, VisitLeave,
         VisitRelease, Proceed, Goto, Finish, TasksOK, Requests
<1>3. \A s \in Sessions : StaysAsleep(s)
  <2>1. CASE VisitMark(v)
    BY <2>1, NoneHibernates, BusyFields DEF VisitMark, TasksOK, InFlight
  <2>2. CASE UNCHANGED entry
    BY <2>2 DEF StaysAsleep
  <2> QED
    BY <2>1, <2>2 DEF Visit, VisitArrive, VisitRead, VisitConnect, VisitLook,
                      VisitLeave, VisitRelease, store
<1>4. \A w \in Visits, s \in Sessions : Claimed(w, s)' => Claimed(w, s)
  <2>1. \A w \in Visits : res'[w] = res[w] \/ res'[w].pc = "read"
    BY DEF Visit, VisitArrive, VisitRead, VisitConnect, VisitMark, VisitLook, VisitLeave,
           VisitRelease, Proceed, Task, TasksOK
  <2> QED
    BY <2>1 DEF Claimed, ResumeOps
<1> QED
  BY <1>1, <1>2, <1>3, <1>4, ApartSteps

\* A resume past its claim writes the volume and clears the marker and the
\* archive; the claim itself takes the row out of Hibernating.
LEMMA ResumeApart ==
    ASSUME TypeOK, NEW v \in Visits, Resume(v)
    PROVE  \A s \in Sessions : Apart(s) /\ ~VolumeGoes(s)
<1> TasksOK /\ StoreOK /\ EngineOK
  BY DEF TypeOK
<1>0. res[v] \in TaskType /\ res \in [Visits -> TaskType]
  BY DEF TasksOK
<1>1. UNCHANGED req
  BY DEF Resume, ResumeRead, ResumeCas, ResumeRestore, ResumeOp, ResumeHealth,
         ResumeCommit, ResumeUnmark, ResumeRmFiles, ResumeFail
<1>2. InFlight(res[v])
  BY DEF Resume, ResumeRead, ResumeCas, ResumeRestore, ResumeOp, ResumeHealth,
         ResumeCommit, ResumeUnmark, ResumeRmFiles, ResumeFail, InFlight
<1>3. res[v].s \in Sessions
  BY <1>2, BusyFields DEF TasksOK
<1> PICK r \in Sessions : r = res[v].s
  BY <1>3
<1>4. \A s \in Sessions \ {r} : StaysAsleep(s)
  BY DEF Resume, ResumeRead, ResumeCas, ResumeRestore, ResumeOp, ResumeHealth,
         ResumeCommit, ResumeUnmark, ResumeRmFiles, ResumeFail, Cas, store, StoreOK,
         StaysAsleep
<1>5. \A w \in Visits \ {v} : res'[w] = res[w]
  BY <1>0 DEF Resume, ResumeRead, ResumeCas, ResumeRestore, ResumeOp, ResumeHealth,
         ResumeCommit, ResumeUnmark, ResumeRmFiles, ResumeFail, GotoRes, FinishRes
<1>6. res'[v] = Done \/ res'[v].s = r
  BY <1>0, <1>2, BusyIffInFlight
     DEF Resume, ResumeRead, ResumeCas, ResumeRestore, ResumeOp, ResumeHealth,
         ResumeCommit, ResumeUnmark, ResumeRmFiles, ResumeFail, GotoRes, FinishRes, BusyTask
<1>7. \A w \in Visits, s \in Sessions \ {r} : Claimed(w, s)' => Claimed(w, s)
  BY <1>5, <1>6 DEF Claimed, ResumeOps, Done, Task
<1>8. /\ \/ vol' \in {vol, [vol EXCEPT ![r] = Ensured(@)]}
         \/ files[r] # Nothing /\ vol' = [vol EXCEPT ![r] = files[r]]
      /\ files' \in {files, [files EXCEPT ![r] = Nothing]}
  BY DEF Resume, ResumeRead, ResumeCas, ResumeRestore, ResumeOp, ResumeHealth,
         ResumeCommit, ResumeUnmark, ResumeRmFiles, ResumeFail, Spawn, SpawnFails, engine
<1>9. \A s \in Sessions \ {r} : vol'[s] = vol[s] /\ files'[s] = files[s]
  BY <1>8 DEF EngineOK
<1>10. \A s \in Sessions \ {r} : Apart(s)
  BY <1>1, <1>4, <1>7, <1>9 DEF Apart, Deleting, StaysAsleep
<1>11. Apart(r)
  <2>1. CASE Claimed(v, r)
    <3>1. entry'[r].state = "Hibernating" => entry[r].state = "Hibernating"
      <4>1. CASE ResumeCommit(v) \/ ResumeFail(v)
        BY <1>3, <4>1, NoneHibernates DEF ResumeCommit, ResumeFail, StaysAsleep
      <4>2. CASE ResumeUnmark(v)
        BY <4>2 DEF ResumeUnmark, ClearArchived, StoreOK, Row
      <4>3. CASE UNCHANGED entry
        BY <4>3
      <4> QED
        BY <2>1, <4>1, <4>2, <4>3
           DEF Resume, ResumeRead, ResumeCas, ResumeRestore, ResumeOp, ResumeHealth,
               ResumeRmFiles, store, Claimed, ResumeOps
    <3> QED
      BY <1>1, <2>1, <3>1 DEF Apart, Deleting
  <2>2. CASE ResumeRead(v)
    <3>1. ~Claimed(v, r)' /\ UNCHANGED <<entry, vol, files>>
      BY <1>0, <1>2, <2>2, BusyIffInFlight
         DEF ResumeRead, FinishRes, BusyTask, Claimed, ResumeOps, Done, Task, engine, store
    <3>2. \A w \in Visits : Claimed(w, r)' => Claimed(w, r)
      BY <1>5, <3>1 DEF Claimed
    <3> QED
      BY <1>1, <3>1, <3>2 DEF Apart, Deleting
  <2>3. CASE ResumeCas(v)
    <3>1. CASE Hit(r, res[v].seen.state, "Resuming")
      <4>1. entry'[r].state = "Resuming"
        BY <2>3, <3>1 DEF ResumeCas, Cas, Hit, CasTransition, StoreOK, Row
      <4> QED
        BY <4>1 DEF Apart
    <3>2. CASE ~Hit(r, res[v].seen.state, "Resuming")
      <4>1. ~Claimed(v, r)' /\ UNCHANGED <<vol, files>> /\ entry'[r] = entry[r]
        BY <1>0, <2>3, <3>2
           DEF ResumeCas, Cas, Hit, CasTransition, StoreOK, FinishRes, Claimed, ResumeOps,
               Done, Task, engine
      <4>2. \A w \in Visits : Claimed(w, r)' => Claimed(w, r)
        BY <1>5, <4>1 DEF Claimed
      <4> QED
        BY <1>1, <4>1, <4>2 DEF Apart, Deleting
    <3> QED
      BY <3>1, <3>2
  <2> QED
    BY <2>1, <2>2, <2>3
       DEF Resume, ResumeRestore, ResumeOp, ResumeHealth, ResumeCommit, ResumeUnmark,
           ResumeRmFiles, ResumeFail, ResumeOps, Claimed
<1>12. \A s \in Sessions : ~VolumeGoes(s)
  BY <1>8, VolumeStays DEF Nothing
<1> QED
  BY <1>10, <1>11, <1>12

\* A DELETE removes the volume and the archive of a session only after its
\* transition, and is at work on it until the row is gone.
LEMMA DeleteApart ==
    ASSUME TypeOK, NEW d \in Deletes, Delete(d)
    PROVE  \A s \in Sessions : Apart(s) /\ ~VolumeGoes(s)
<1> TasksOK /\ StoreOK /\ EngineOK /\ d \in Requests /\ Deletes \subseteq Requests
  BY DEF TypeOK, Requests
<1>1. UNCHANGED res /\ \A e \in Deletes \ {d} : req'[e] = req[e]
  BY DEF Delete, DeleteRead, DeleteCas, DeleteRetry, DeleteDestroy, DeleteRmFiles,
         DeleteRemove, Goto, Finish, TasksOK
<1>2. \A v \in Visits, s \in Sessions : Claimed(v, s)' => Claimed(v, s)
  BY <1>1 DEF Claimed
<1>3. CASE DeleteRead(d)
  <2>1. UNCHANGED <<vol, files, entry>> /\ req[d].pc = "idle"
    BY <1>3 DEF DeleteRead, store, engine
  <2> QED
    BY <1>1, <1>2, <2>1 DEF Apart, Deleting, VolumeGoes
<1>4. CASE ~DeleteRead(d)
  <2>1. InFlight(req[d])
    BY <1>4 DEF Delete, DeleteCas, DeleteRetry, DeleteDestroy, DeleteRmFiles,
                DeleteRemove, InFlight
  <2>2. req[d].s \in Sessions /\ req[d] \in BusyTask
    BY <2>1, BusyFields, BusyIffInFlight DEF TasksOK
  <2> PICK r \in Sessions : r = req[d].s
    BY <2>2
  <2>3. \A s \in Sessions \ {r} : vol'[s] = vol[s] /\ files'[s] = files[s]
    BY <1>4 DEF Delete, DeleteCas, DeleteRetry, DeleteDestroy, DeleteRmFiles,
                DeleteRemove, Destroy, engine, EngineOK
  <2>4. \A s \in Sessions : StaysAsleep(s)
    <3>1. CASE DeleteCas(d)
      BY <2>2, <3>1, NoneHibernates DEF DeleteCas
    <3>2. CASE DeleteRemove(d)
      BY <2>2, <3>2, NoneHibernates DEF DeleteRemove
    <3>3. CASE UNCHANGED entry
      BY <3>3 DEF StaysAsleep
    <3> QED
      BY <1>4, <3>1, <3>2, <3>3 DEF Delete, DeleteRetry, DeleteDestroy, DeleteRmFiles, store
  <2>5. \A s \in Sessions \ {r} : Apart(s)
    BY <1>1, <1>2, <2>3, <2>4 DEF Apart, Deleting, StaysAsleep
  <2>6. CASE DeleteDestroy(d) \/ DeleteRmFiles(d)
    <3>1. req'[d].s = r /\ req'[d].pc \in {"rmfiles", "remove"}
      BY <2>2, <2>6 DEF DeleteDestroy, DeleteRmFiles, Goto, TasksOK, BusyTask
    <3>2. Deleting(r)'
      BY <3>1 DEF Deleting
    <3> QED
      BY <2>5, <3>2, <2>3 DEF Apart, VolumeGoes
  <2>7. CASE DeleteRemove(d)
    <3>1. UNCHANGED vol /\ entry'[r].state # "Hibernating"
      BY <2>7 DEF DeleteRemove, engine, StoreOK, NoEntry, Absent
    <3> QED
      BY <2>5, <3>1 DEF Apart, VolumeGoes
  <2>8. CASE DeleteCas(d) \/ DeleteRetry(d)
    <3>1. UNCHANGED <<vol, files>> /\ req[d].pc \notin {"destroy", "rmfiles", "remove"}
      BY <2>8 DEF DeleteCas, DeleteRetry, engine
    <3> QED
      BY <1>1, <1>2, <2>4, <2>5, <3>1 DEF Apart, VolumeGoes, Deleting, StaysAsleep
  <2> QED
    BY <1>4, <2>6, <2>7, <2>8 DEF Delete
<1> QED
  BY <1>3, <1>4

\* The pass itself: it validates the row when no resume is left, under the
\* timing assumption, exports the volume before it marks the row, and goes no
\* further when the export failed.
LEMMA SweepArchives ==
    ASSUME TypeOK, FileInv, ArchiveInv, Prompt, NEW p \in Procs, Sweep(p)
    PROVE  /\ ArchiveInv'
           /\ \A s \in Sessions : VolumeGoes(s) => entry[s].archived /\ files[s] = vol[s]
<1> StoreOK /\ EngineOK /\ sweep \in [Procs -> TaskType] /\ sweep[p] \in TaskType
  BY DEF TypeOK, ReplicasOK
<1>1. /\ UNCHANGED <<proc, req, res>> /\ proc[p] = "up"
      /\ \A q \in Procs \ {p} : sweep'[q] = sweep[q]
  BY DEF Sweep, SweepList, SweepClaim, SweepCas, SweepGet, SweepStop, DeepRead,
         DeepClaim, DeepExport, DeepMark, DeepDestroy, DeepRelease, Sweeping, GotoSweep,
         FinishSweep, tasks
<1>2. \A q \in Procs \ {p} : sweep[q].pc = "idle"
  BY <1>1 DEF FileInv, OneReplica, ArchiveInv, SweepLive
<1>3. SweepLive'
  BY <1>1, <1>2 DEF SweepLive
<1>4. ~DeepRead(p) /\ ~SweepList(p) => InFlight(sweep[p])
  BY DEF Sweep, SweepClaim, SweepCas, SweepGet, SweepStop, DeepClaim, DeepExport,
         DeepMark, DeepDestroy, DeepRelease, Sweeping, InFlight
<1>5. ASSUME NEW pc, GotoSweep(p, pc), InFlight(sweep[p])
      PROVE  sweep'[p].pc = pc /\ sweep'[p].s = sweep[p].s
  BY <1>5, BusyIffInFlight DEF GotoSweep, BusyTask
<1>6. ASSUME NEW s \in Sessions, Archiving(p, s)'
      PROVE  ArchiveSafe(p, s)'
  <2>1. Deleting(s) <=> Deleting(s)'
    BY <1>1 DEF Deleting
  <2>2. \A v \in Visits : Claimed(v, s)' => Claimed(v, s)
    BY <1>1 DEF Claimed
  <2>4. ASSUME UNCHANGED entry \/ DeepMark(p), sweep[p].s = s,
               sweep[p].pc \in {"dclaim", "export", "mark", "destroy"}
        PROVE  ArchiveSafe(p, s)
    <3>1. entry[s].state = "Hibernating"
      BY <1>6, <2>4 DEF DeepMark, SetArchived, MarkHit, Archiving, StoreOK, Row
    <3> QED
      BY <1>6, <2>1, <2>4, <3>1 DEF ArchiveInv, Archiving
  <2>5. CASE SweepList(p) \/ SweepClaim(p) \/ SweepCas(p) \/ SweepGet(p) \/ SweepStop(p)
             \/ DeepRelease(p) \/ DeepDestroy(p)
    <3>1. sweep'[p].pc \in {"claim", "cas", "get", "stop", "idle", "release"}
      BY <1>4, <1>5, <2>5
         DEF SweepList, SweepClaim, SweepCas, SweepGet, SweepStop, DeepRelease,
             DeepDestroy, FinishSweep, Idle, Task, Sweeping, InFlight
    <3> QED
      BY <1>6, <3>1 DEF Archiving
  <2>6. CASE DeepRead(p)
    <3>1. PICK r \in Sessions : /\ \A v \in Visits : res[v].s # r
                                /\ sweep' = [sweep EXCEPT ![p] = Task("dclaim", r, p)]
      BY <2>6 DEF DeepRead
    <3>2. s = r /\ sweep'[p].pc = "dclaim"
      BY <1>6, <3>1 DEF Archiving, Task
    <3> QED
      BY <2>2, <3>1, <3>2 DEF ArchiveSafe, Claimed
  <2>7. CASE DeepClaim(p)
    <3>1. sweep[p].pc = "dclaim" /\ UNCHANGED entry
      BY <2>7 DEF DeepClaim, Sweeping
    <3>2. sweep'[p].pc = "export" /\ sweep'[p].s = sweep[p].s
      BY <1>4, <1>5, <1>6, <2>7, <3>1
         DEF DeepClaim, FinishSweep, Archiving, Idle, Task, InFlight
    <3>3. ArchiveSafe(p, s)
      BY <1>6, <2>4, <3>1, <3>2 DEF Archiving
    <3> QED
      BY <2>2, <3>2, <3>3 DEF ArchiveSafe
  <2>8. CASE DeepExport(p)
    <3>1. sweep[p].pc = "export" /\ UNCHANGED entry
      BY <2>8 DEF DeepExport, Sweeping, store
    <3>2. /\ GotoSweep(p, "mark") /\ sweep[p].s = s
          /\ files' = [files EXCEPT ![s] = Ensured(vol[s])]
          /\ vol' = [vol EXCEPT ![s] = Ensured(@)]
      BY <1>4, <1>5, <1>6, <2>8, <3>1 DEF DeepExport, Archiving, InFlight
    <3>3. ArchiveSafe(p, s)
      BY <2>4, <3>1, <3>2
    <3>4. files'[s] = vol'[s] /\ vol'[s] # Nothing
      BY <3>2 DEF EngineOK, Ensured, Empty, Nothing
    <3>5. sweep'[p].pc = "mark"
      BY <1>4, <1>5, <2>8, <3>1, <3>2 DEF InFlight
    <3> QED
      BY <2>2, <3>3, <3>4, <3>5 DEF ArchiveSafe
  <2>9. CASE DeepMark(p)
    <3>1. sweep[p].pc = "mark" /\ UNCHANGED <<files, vol>>
      BY <2>9 DEF DeepMark, Sweeping, engine
    <3>2. sweep[p].s = s
      BY <1>4, <1>5, <1>6, <2>9, <3>1 DEF DeepMark, Archiving, InFlight
    <3>3. ArchiveSafe(p, s)
      BY <2>4, <2>9, <3>1, <3>2
    <3>4. entry'[s].archived
      <4>1. MarkHit(entry[s])
        BY <1>4, <1>5, <1>6, <2>9, <3>1 DEF DeepMark, Archiving, InFlight
      <4> QED
        BY <2>9, <3>2, <4>1 DEF DeepMark, SetArchived, StoreOK, Row
    <3> QED
      BY <2>2, <3>1, <3>3, <3>4 DEF ArchiveSafe
  <2> QED
    BY <2>5, <2>6, <2>7, <2>8, <2>9 DEF Sweep
<1>7. ArchiveInv'
  <2>1. \A q \in Procs \ {p}, s \in Sessions : ~Archiving(q, s)'
    BY <1>1, <1>2 DEF Archiving
  <2> QED
    BY <1>3, <1>6, <2>1 DEF ArchiveInv
<1>8. ASSUME NEW s \in Sessions, VolumeGoes(s)
      PROVE  entry[s].archived /\ files[s] = vol[s]
  <2>1. vol' # vol
    BY <1>8 DEF VolumeGoes
  <2>2. ~DeepExport(p)
    <3>1. DeepExport(p) => sweep[p].s \in Sessions
      BY BusyFields DEF DeepExport, Sweeping, InFlight
    <3> QED
      BY <1>8, <3>1, VolumeStays DEF DeepExport, Nothing
  <2>3. DeepDestroy(p)
    BY <2>1, <2>2 DEF Sweep, SweepList, SweepClaim, SweepCas, SweepGet, SweepStop,
       DeepRead, DeepClaim, DeepMark, DeepRelease, engine
  <2>4. sweep[p].s = s
    BY <1>8, <2>3 DEF DeepDestroy, Destroy, VolumeGoes, EngineOK
  <2>5. Archiving(p, s)
    BY <1>8, <2>3, <2>4 DEF DeepDestroy, Sweeping, Archiving, Deleting, VolumeGoes
  <2>6. ArchiveSafe(p, s)
    BY <2>5 DEF ArchiveInv
  <2> QED
    BY <2>3, <2>6 DEF ArchiveSafe, DeepDestroy, Sweeping
<1> QED
  BY <1>7, <1>8

LEMMA BootApart ==
    ASSUME TypeOK, NEW p \in Procs, Boot(p)
    PROVE  \A s \in Sessions : Apart(s) /\ ~VolumeGoes(s)
<1>1. UNCHANGED <<vol, files, req, res, sweep>>
  BY DEF Boot, BootStart, BootClaim, BootProbe, BootReread, BootForce,
         BootRelease, BootDone, engine, tasks
<1>2. \A s \in Sessions : StaysAsleep(s)
  <2>1. CASE BootForce(p)
    <3>1. boot[p].fresh \in Row /\ boot[p].s \in Sessions
      BY <2>1 DEF BootForce, Booting, TypeOK, ReplicasOK, BootType
    <3>2. PICK r \in Sessions : r = boot[p].s
      BY <3>1
    <3>3. PICK e : e = ForceUpdate(entry[r], Reconciled(boot[p]))
      OBVIOUS
    <3>4. e = entry[r] \/ e.state \in {"Running", "Crashed"}
      BY <3>1, <3>3 DEF ForceUpdate, Reconciled, Row
    <3>5. entry' = [entry EXCEPT ![r] = e]
      BY <2>1, <3>2, <3>3 DEF BootForce
    <3> QED
      BY <3>4, <3>5 DEF TypeOK, StoreOK, StaysAsleep
  <2>2. CASE UNCHANGED entry
    BY <2>2 DEF StaysAsleep
  <2> QED
    BY <2>1, <2>2 DEF Boot, BootStart, BootClaim, BootProbe, BootReread,
                      BootRelease, BootDone, store
<1> QED
  BY <1>1, <1>2, ApartSteps DEF Claimed

\* Nothing in the environment hurts: the engine writes only while the row is
\* Running, and no client of a DELETE hangs up.
LEMMA EnvironmentApart ==
    ASSUME TypeOK, Impatient \cap Deletes = {}, Environment,
           \A p \in Procs : ~Crash(p) /\ ~Shutdown(p)
    PROVE  \A s \in Sessions : Apart(s) /\ ~VolumeGoes(s)
<1> TasksOK /\ EngineOK /\ Deletes \subseteq Requests
  BY DEF TypeOK, Requests
<1>1. UNCHANGED <<entry, files, res>>
  BY DEF Environment, DeepRenew, Expire, ContainerDies, EngineWrites, HangUp,
         VisitRenew, store, engine, tasks
<1>2. \A d \in Deletes : req'[d] = req[d]
  BY DEF Environment, DeepRenew, Expire, ContainerDies, EngineWrites, HangUp, Finish,
         VisitRenew, TasksOK, tasks
<1>3. CASE UNCHANGED vol
  BY <1>1, <1>2, <1>3, ApartSteps DEF Claimed, StaysAsleep
<1>4. ASSUME NEW r \in Sessions, EngineWrites(r)
      PROVE  \A s \in Sessions : Apart(s) /\ ~VolumeGoes(s)
  <2>1. entry[r].state = "Running" /\ vol' = [vol EXCEPT ![r] = latest[r] + 1]
    BY <1>4 DEF EngineWrites
  <2>2. Apart(r)
    BY <1>1, <2>1 DEF Apart
  <2>3. \A s \in Sessions \ {r} : vol'[s] = vol[s]
    BY <2>1 DEF EngineOK
  <2>4. \A s \in Sessions \ {r} : Apart(s)
    BY <1>1, <1>2, <2>3 DEF Apart, Deleting, Claimed
  <2>5. latest[r] + 1 # Nothing
    BY DEF EngineOK, Nothing
  <2> QED
    BY <2>1, <2>2, <2>4, <2>5, VolumeStays
<1> QED
  BY <1>3, <1>4 DEF Environment, DeepRenew, Expire, ContainerDies, HangUp,
                    VisitRenew, engine

LEMMA HaltArchives ==
    ASSUME TypeOK, FileInv, ArchiveInv, NEW p \in Procs, Crash(p) \/ Shutdown(p)
    PROVE  ArchiveInv' /\ \A s \in Sessions : ~VolumeGoes(s)
<1>1. UNCHANGED <<vol, files>> /\ Halt(p) /\ proc[p] \in {"boot", "up"}
  BY DEF Crash, Shutdown, engine
<1>2. \A q \in Procs : sweep'[q].pc = "idle"
  BY <1>1 DEF Halt, Idle, Task, TypeOK, ReplicasOK, FileInv, OneReplica, ArchiveInv, SweepLive
<1>3. ArchiveInv'
  BY <1>2 DEF ArchiveInv, SweepLive, Archiving
<1> QED
  BY <1>1, <1>3 DEF VolumeGoes

LEMMA NextArchives ==
    ASSUME TypeOK, FileInv, ArchiveInv,
           ~Leasing, Prompt, Impatient \cap Deletes = {}, [Next]_vars
    PROVE  /\ ArchiveInv'
           /\ \A s \in Sessions : VolumeGoes(s) => entry[s].archived /\ files[s] = vol[s]
<1>1. ASSUME UNCHANGED sweep,
             \A p \in Procs : sweep[p].pc # "idle" => proc'[p] = "up",
             \A s \in Sessions : Apart(s) /\ ~VolumeGoes(s)
      PROVE  ArchiveInv' /\ \A s \in Sessions : ~VolumeGoes(s)
  <2>1. SweepLive'
    BY <1>1 DEF SweepLive
  <2> QED
    BY <1>1, <2>1, ApartSafe DEF ArchiveInv
<1>2. ASSUME \/ \E c \in Posts : Post(c)
             \/ \E v \in Visits : Visit(v) \/ Resume(v)
             \/ \E d \in Deletes : Delete(d)
      PROVE  ArchiveInv' /\ \A s \in Sessions : ~VolumeGoes(s)
  <2>1. UNCHANGED <<proc, sweep>>
    BY <1>2 DEF Post, PostInsert, PostClaim, PostSpawn, PostHealth, PostCommit,
       PostCleanup, PostFail, Visit, VisitArrive, VisitRead, VisitConnect, VisitMark,
       VisitLook, VisitLeave, VisitRelease, Resume, ResumeRead, ResumeCas,
       ResumeRestore, ResumeOp, ResumeHealth, ResumeCommit, ResumeUnmark, ResumeRmFiles,
       ResumeFail, Delete, DeleteRead, DeleteCas, DeleteRetry, DeleteDestroy,
       DeleteRmFiles, DeleteRemove, replicas
  <2>2. \A s \in Sessions : Apart(s) /\ ~VolumeGoes(s)
    BY <1>2, PostApart, VisitApart, ResumeApart, DeleteApart
  <2> QED
    BY <1>1, <2>1, <2>2 DEF ArchiveInv, SweepLive
<1>3. ASSUME NEW p \in Procs, Boot(p)
      PROVE  ArchiveInv' /\ \A s \in Sessions : ~VolumeGoes(s)
  <2>1. /\ UNCHANGED sweep
        /\ \A q \in Procs : proc'[q] = proc[q] \/ proc[q] # "up"
    BY <1>3 DEF Boot, BootStart, BootClaim, BootProbe, BootReread, BootForce,
       BootRelease, BootDone, Booting, TypeOK, ReplicasOK
  <2> QED
    BY <1>1, <1>3, <2>1, BootApart DEF ArchiveInv, SweepLive
<1>4. CASE Environment /\ \A p \in Procs : ~Crash(p) /\ ~Shutdown(p)
  <2>1. UNCHANGED <<sweep, proc>>
    BY <1>4 DEF Environment, DeepRenew, Expire, ContainerDies, EngineWrites, HangUp,
       VisitRenew, replicas
  <2> QED
    BY <1>1, <1>4, <2>1, EnvironmentApart DEF ArchiveInv, SweepLive
<1>5. CASE UNCHANGED vars
  <2>1. UNCHANGED <<sweep, proc, vol, files, entry, req, res>>
    BY <1>5 DEF vars, store, engine, replicas, tasks
  <2>2. \A s \in Sessions : Apart(s) /\ ~VolumeGoes(s)
    BY <2>1, ApartSteps DEF Claimed, StaysAsleep
  <2> QED
    BY <1>1, <2>1, <2>2 DEF ArchiveInv, SweepLive
<1> QED
  BY <1>2, <1>3, <1>4, <1>5, SweepArchives, HaltArchives DEF Next

(***************************************************************************)
(* On the file backend, when a resume ends within the deep-archive timeout *)
(* and the client of a DELETE waits for it, for any number of sessions,    *)
(* sweeps, visits, crashes and restarts: the volume of a session that is   *)
(* asleep goes only when the archive holds what it holds and the row says  *)
(* so (RedLineAsleep).  It says nothing of a session that was resumed      *)
(* between the marker and the destroy.                                     *)
(***************************************************************************)
THEOREM RedLineKept ==
    ASSUME ~Leasing, Prompt, Impatient \cap Deletes = {}
    PROVE  Spec => RedLineAsleep
<1>1. Init => ArchiveInv
  BY DEF Init, ArchiveInv, SweepLive, Archiving, Idle, Task
<1>2. TypeOK /\ FileInv /\ ArchiveInv /\ [Next]_vars => ArchiveInv'
  BY NextArchives
<1>3. TypeOK /\ FileInv /\ ArchiveInv /\ [Next]_vars =>
        [\A s \in Sessions :
            /\ entry[s].state = "Hibernating"
            /\ \A d \in Deletes : req[d].s # s
            /\ vol[s] # Nothing /\ vol'[s] = Nothing
            => entry[s].archived /\ files[s] = vol[s]]_vars
  BY NextArchives DEF VolumeGoes
<1> QED
  BY <1>1, <1>2, <1>3, FileAlways, PTL DEF Spec, RedLineAsleep

=============================================================================
