----------------------- MODULE SessionLifecycleProofs -----------------------
(***************************************************************************)
(* Theorems about SessionLifecycle for any number of replicas, sessions    *)
(* and requests, with or without leases and deep archive.                  *)
(***************************************************************************)
EXTENDS SessionLifecycle, TLAPS

-----------------------------------------------------------------------------
(* Types of the building blocks.                                           *)

LEMMA ConstantRows ==
    /\ NoEntry \in Row /\ FreshEntry \in Row
    /\ NoLease \in [owner : Procs \cup {NoOwner}, live : BOOLEAN]
    /\ Idle \in TaskType /\ Done \in TaskType
BY DEF NoEntry, FreshEntry, Row, States, Absent, NoHandle, NoLease, TaskType

LEMMA BusyIffInFlight ==
    ASSUME NEW t \in TaskType
    PROVE  InFlight(t) <=> t \in BusyTask
BY DEF InFlight, TaskType, BusyTask, BusyPcs, Idle, Done, Task

LEMMA CasType ==
    ASSUME NEW e \in Row, NEW from, NEW to \in States, NEW h \in Nat
    PROVE  CasTransition(e, from, to, h) \in Row
BY DEF CasTransition, Row, NoHandle

LEMMA GotoType ==
    ASSUME NEW f, NEW D, f \in [D -> TaskType], NEW c \in D,
           InFlight(f[c]), NEW pc \in BusyPcs
    PROVE  [f EXCEPT ![c].pc = pc] \in [D -> TaskType]
<1>1. f[c] \in BusyTask
  BY BusyIffInFlight
<1>2. [f[c] EXCEPT !.pc = pc] \in BusyTask
  BY <1>1 DEF BusyTask
<1> QED
  BY <1>2 DEF TaskType

LEMMA TaskTypes ==
    ASSUME NEW pc \in BusyPcs, NEW s \in Sessions, NEW p \in Procs
    PROVE  Task(pc, s, p) \in BusyTask
BY ConstantRows DEF Task, BusyTask, NoHandle

\* Updating one session's row, lease, container or volume keeps the type.
LEMMA StoreCas ==
    ASSUME StoreOK, NEW s, NEW from, NEW to \in States, NEW h \in Nat,
           Cas(s, from, to, h), UNCHANGED lease
    PROVE  StoreOK'
<1>1. s \in Sessions => CasTransition(entry[s], from, to, h) \in Row
  BY CasType DEF StoreOK
<1> QED
  BY <1>1 DEF StoreOK, Cas

LEMMA StoreClaim ==
    ASSUME StoreOK, NEW s, NEW p \in Procs, Claim(s, p), UNCHANGED entry
    PROVE  StoreOK'
BY DEF StoreOK, Claim, ClaimLease

LEMMA StoreRelease ==
    ASSUME StoreOK, NEW s, NEW p, Release(s, p), UNCHANGED entry
    PROVE  StoreOK'
BY ConstantRows DEF StoreOK, Release, ReleaseLease

LEMMA EngineSpawn ==
    ASSUME EngineOK, NEW s \in Sessions, Spawn(s) \/ SpawnFails(s),
           UNCHANGED <<files, latest>>
    PROVE  EngineOK'
<1>1. Spawned(box[s]) \in [up : {"absent", "stopped", "up"}, port : Nat]
  BY DEF Spawned, EngineOK
<1>2. Gone(box[s]) \in [up : {"absent", "stopped", "up"}, port : Nat]
  BY DEF Gone, EngineOK
<1>3. Ensured(vol[s]) \in Nat \cup {Nothing}
  BY DEF Ensured, EngineOK, Empty
<1>4. box' \in {box, [box EXCEPT ![s] = Spawned(@)], [box EXCEPT ![s] = Gone(@)]}
  BY DEF Spawn, SpawnFails, Removed
<1>5. vol' \in {vol, [vol EXCEPT ![s] = Ensured(@)]}
  BY DEF Spawn, SpawnFails
<1>6. box' \in [Sessions -> [up : {"absent", "stopped", "up"}, port : Nat]]
  BY <1>1, <1>2, <1>4 DEF EngineOK
<1>7. vol' \in [Sessions -> Nat \cup {Nothing}]
  BY <1>3, <1>5 DEF EngineOK
<1> QED
  BY <1>6, <1>7 DEF EngineOK

LEMMA EngineGone ==
    ASSUME EngineOK, NEW s, UNCHANGED <<files, latest>>,
           Destroy(s) \/ (box' \in Removed(s) /\ UNCHANGED vol)
    PROVE  EngineOK'
BY DEF EngineOK, Destroy, Removed, Gone

LEMMA EngineStop ==
    ASSUME EngineOK, NEW s, box' \in {box, [box EXCEPT ![s] = Stopped(@)]},
           UNCHANGED <<vol, files, latest>>
    PROVE  EngineOK'
<1>1. s \in Sessions =>
        Stopped(box[s]) \in [up : {"absent", "stopped", "up"}, port : Nat]
  BY DEF EngineOK, Stopped
<1> QED
  BY <1>1 DEF EngineOK

LEMMA BusyFields ==
    ASSUME NEW t \in TaskType, InFlight(t)
    PROVE  /\ t.s \in Sessions /\ t.p \in Procs
           /\ t.seen \in Row /\ t.port \in Nat
BY BusyIffInFlight DEF BusyTask

LEMMA ReqGoto ==
    ASSUME TasksOK, NEW c \in Requests, InFlight(req[c]), NEW pc \in BusyPcs,
           Goto(c, pc), UNCHANGED res
    PROVE  TasksOK'
BY GotoType DEF TasksOK, Goto

LEMMA ReqFinish ==
    ASSUME TasksOK, NEW c \in Requests, Finish(c), UNCHANGED res
    PROVE  TasksOK'
BY ConstantRows DEF TasksOK, Finish

LEMMA ResGoto ==
    ASSUME TasksOK, NEW v \in Visits, InFlight(res[v]), NEW pc \in BusyPcs,
           GotoRes(v, pc), UNCHANGED req
    PROVE  TasksOK'
BY GotoType DEF TasksOK, GotoRes

LEMMA ResFinish ==
    ASSUME TasksOK, NEW v \in Visits, FinishRes(v), UNCHANGED req
    PROVE  TasksOK'
BY ConstantRows DEF TasksOK, FinishRes

LEMMA SweepGoto ==
    ASSUME ReplicasOK, NEW p \in Procs, InFlight(sweep[p]), NEW pc \in BusyPcs,
           GotoSweep(p, pc), UNCHANGED <<proc, boot>>
    PROVE  ReplicasOK'
BY GotoType DEF ReplicasOK, GotoSweep

LEMMA SweepFinish ==
    ASSUME ReplicasOK, NEW p \in Procs, FinishSweep(p), UNCHANGED <<proc, boot>>
    PROVE  ReplicasOK'
BY ConstantRows DEF ReplicasOK, FinishSweep

\* What a step does not touch keeps its type.
LEMMA Untouched ==
    /\ StoreOK /\ UNCHANGED store => StoreOK'
    /\ EngineOK /\ UNCHANGED engine => EngineOK'
    /\ ReplicasOK /\ UNCHANGED replicas => ReplicasOK'
    /\ TasksOK /\ UNCHANGED tasks => TasksOK'
    /\ GhostsOK /\ UNCHANGED ghosts => GhostsOK'
BY DEF StoreOK, EngineOK, ReplicasOK, TasksOK, GhostsOK,
       store, engine, replicas, tasks, ghosts

-----------------------------------------------------------------------------
(* Type correctness, one lemma per kind of task.                           *)

LEMMA PostType ==
    ASSUME TypeOK, NEW c \in Posts, Post(c)
    PROVE  TypeOK'
<1> c \in Requests
  BY DEF Requests
<1> req[c] \in TaskType
  BY DEF TypeOK, TasksOK
<1> USE Untouched DEF TypeOK
<1>1. CASE PostInsert(c)
  <2> PICK p \in Procs, s \in Sessions : PostInsert(c)!(p, s)
    BY <1>1 DEF PostInsert
  <2>1. StoreOK'
    BY ConstantRows DEF StoreOK
  <2>2. EngineOK'
    BY DEF EngineOK
  <2>3. TasksOK'
    BY TaskTypes DEF TasksOK, BusyPcs, TaskType
  <2> QED
    BY <2>1, <2>2, <2>3
<1>2. CASE PostClaim(c)
  <2>1. StoreOK'
    BY <1>2, BusyFields, StoreClaim DEF PostClaim, InFlight
  <2>2. TasksOK'
    BY <1>2, ReqGoto DEF PostClaim, InFlight, BusyPcs
  <2> QED
    BY <1>2, <2>1, <2>2 DEF PostClaim
<1>3. CASE PostSpawn(c)
  <2>1. InFlight(req[c])
    BY <1>3 DEF PostSpawn, InFlight
  <2>2. EngineOK'
    BY <1>3, <2>1, BusyFields, EngineSpawn DEF PostSpawn
  <2>3. CASE req' = [req EXCEPT ![c].pc = "health",
                                ![c].port = box[req[c].s].port + 1]
    <3>1. box[req[c].s].port + 1 \in Nat
      BY <2>1, BusyFields DEF EngineOK
    <3>2. [req[c] EXCEPT !.pc = "health", !.port = box[req[c].s].port + 1]
            \in BusyTask
      BY <2>1, <3>1, BusyIffInFlight DEF BusyTask, BusyPcs
    <3>3. TasksOK'
      BY <1>3, <2>3, <3>2 DEF PostSpawn, TasksOK, TaskType
    <3> QED
      BY <1>3, <2>2, <3>3 DEF PostSpawn
  <2>4. CASE Goto(c, "fail")
    <3>1. TasksOK'
      BY <1>3, <2>1, <2>4, ReqGoto DEF PostSpawn, BusyPcs
    <3> QED
      BY <1>3, <2>2, <3>1 DEF PostSpawn
  <2> QED
    BY <1>3, <2>3, <2>4 DEF PostSpawn
<1>4. CASE PostHealth(c)
  <2>1. PICK pc \in {"commit", "cleanup"} : Goto(c, pc)
    BY <1>4 DEF PostHealth
  <2>2. InFlight(req[c]) /\ pc \in BusyPcs /\ UNCHANGED res
    BY <1>4 DEF PostHealth, InFlight, BusyPcs
  <2>3. TasksOK'
    BY <2>1, <2>2, ReqGoto
  <2> QED
    BY <1>4, <2>3 DEF PostHealth
<1>5. CASE PostCommit(c)
  <2>1. StoreOK'
    BY <1>5, BusyFields, StoreCas DEF PostCommit, InFlight, States
  <2>2. TasksOK'
    BY <1>5, ReqFinish DEF PostCommit
  <2> QED
    BY <1>5, <2>1, <2>2 DEF PostCommit
<1>6. CASE PostCleanup(c)
  <2>1. EngineOK'
    BY <1>6, EngineGone DEF PostCleanup, store
  <2>2. TasksOK'
    BY <1>6, ReqGoto DEF PostCleanup, InFlight, BusyPcs
  <2> QED
    BY <1>6, <2>1, <2>2 DEF PostCleanup
<1>7. CASE PostFail(c)
  <2>1. StoreOK'
    BY <1>7, StoreCas DEF PostFail, States, NoHandle
  <2>2. TasksOK'
    BY <1>7, ReqFinish DEF PostFail
  <2> QED
    BY <1>7, <2>1, <2>2 DEF PostFail
<1> QED
  BY <1>1, <1>2, <1>3, <1>4, <1>5, <1>6, <1>7 DEF Post

LEMMA ProceedType ==
    ASSUME TasksOK, NEW v \in Visits, InFlight(req[v]), NEW e, Proceed(v, e)
    PROVE  TasksOK'
<1> v \in Requests
  BY DEF Requests
<1>1. req[v] \in TaskType
  BY DEF TasksOK
<1>2. CASE ~Exists(e)
  BY <1>2, ReqGoto DEF Proceed, BusyPcs
<1>3. CASE Exists(e)
  <2>1. Task("read", req[v].s, req[v].p) \in BusyTask
    BY <1>1, BusyFields, TaskTypes DEF BusyPcs
  <2>2. res' \in [Visits -> TaskType]
    BY <1>3, <2>1 DEF Proceed, TasksOK, TaskType
  <2>3. req' = [req EXCEPT ![v].pc = "hold"]
    BY <1>3 DEF Proceed, Goto
  <2>4. "hold" \in BusyPcs /\ req \in [Requests -> TaskType]
    BY DEF BusyPcs, TasksOK
  <2>5. req' \in [Requests -> TaskType]
    BY <2>3, <2>4, GotoType
  <2> QED
    BY <2>2, <2>5 DEF TasksOK
<1> QED
  BY <1>2, <1>3

LEMMA VisitType ==
    ASSUME TypeOK, NEW v \in Visits, Visit(v) \/ VisitRenew(v)
    PROVE  TypeOK'
<1> v \in Requests
  BY DEF Requests
<1> req[v] \in TaskType
  BY DEF TypeOK, TasksOK
<1> USE Untouched DEF TypeOK
<1>1. CASE VisitArrive(v)
  <2> PICK p \in Procs, s \in Sessions : VisitArrive(v)!(p, s)
    BY <1>1 DEF VisitArrive
  <2>1. StoreOK'
    BY StoreClaim
  <2>2. TasksOK'
    BY TaskTypes DEF TasksOK, BusyPcs, TaskType
  <2> QED
    BY <2>1, <2>2
<1>2. CASE VisitRead(v)
  <2>1. InFlight(req[v])
    BY <1>2 DEF VisitRead, InFlight
  <2>2. TasksOK'
    <3>1. CASE entry[req[v].s].state = "Running"
      <4>1. entry[req[v].s] \in Row
        BY <2>1, BusyFields DEF StoreOK
      <4>2. [req[v] EXCEPT !.pc = "connect", !.seen = entry[req[v].s]]
              \in BusyTask
        BY <2>1, <4>1, BusyIffInFlight DEF BusyTask, BusyPcs
      <4> QED
        BY <1>2, <3>1, <4>2 DEF VisitRead, TasksOK, TaskType
    <3>2. CASE entry[req[v].s].state # "Running"
      BY <1>2, <2>1, <3>2, ProceedType DEF VisitRead
    <3> QED
      BY <3>1, <3>2
  <2> QED
    BY <1>2, <2>2 DEF VisitRead
<1>3. CASE VisitConnect(v)
  <2>1. InFlight(req[v])
    BY <1>3 DEF VisitConnect, InFlight
  <2>2. PICK pc \in {"hold", "mark"} :
            req' = [req EXCEPT ![v].pc = pc, ![v].seen = NoEntry]
    BY <1>3 DEF VisitConnect
  <2>3. [req[v] EXCEPT !.pc = pc, !.seen = NoEntry] \in BusyTask
    BY <2>1, ConstantRows, BusyIffInFlight DEF BusyTask, BusyPcs
  <2>4. TasksOK'
    BY <1>3, <2>2, <2>3 DEF VisitConnect, TasksOK, TaskType
  <2> QED
    BY <1>3, <2>4 DEF VisitConnect
<1>4. CASE VisitMark(v)
  <2>1. StoreOK'
    BY <1>4, StoreCas DEF VisitMark, States, NoHandle
  <2>2. TasksOK'
    BY <1>4, ReqGoto DEF VisitMark, InFlight, BusyPcs
  <2> QED
    BY <1>4, <2>1, <2>2 DEF VisitMark
<1>5. CASE VisitLook(v)
  <2>1. TasksOK'
    BY <1>5, ProceedType DEF VisitLook, InFlight
  <2> QED
    BY <1>5, <2>1 DEF VisitLook
<1>6. CASE VisitLeave(v)
  <2>1. TasksOK'
    BY <1>6, ReqGoto DEF VisitLeave, Guarding, InFlight, BusyPcs
  <2> QED
    BY <1>6, <2>1 DEF VisitLeave
<1>7. CASE VisitRelease(v)
  <2>1. StoreOK'
    BY <1>7, StoreRelease DEF VisitRelease
  <2>2. TasksOK'
    BY <1>7, ReqFinish DEF VisitRelease
  <2> QED
    BY <1>7, <2>1, <2>2 DEF VisitRelease
<1>8. CASE VisitRenew(v)
  <2>1. StoreOK'
    BY <1>8 DEF VisitRenew, StoreOK
  <2> QED
    BY <1>8, <2>1 DEF VisitRenew
<1> QED
  BY <1>1, <1>2, <1>3, <1>4, <1>5, <1>6, <1>7, <1>8 DEF Visit

LEMMA ResumeType ==
    ASSUME TypeOK, NEW v \in Visits, Resume(v)
    PROVE  TypeOK'
<1> res[v] \in TaskType
  BY DEF TypeOK, TasksOK
<1> USE Untouched DEF TypeOK
<1>1. CASE ResumeRead(v)
  <2>1. InFlight(res[v])
    BY <1>1 DEF ResumeRead, InFlight
  <2>2. TasksOK'
    <3>1. entry[res[v].s] \in Row
      BY <2>1, BusyFields DEF StoreOK
    <3>2. [res[v] EXCEPT !.pc = "cas", !.seen = entry[res[v].s]] \in BusyTask
      BY <2>1, <3>1, BusyIffInFlight DEF BusyTask, BusyPcs
    <3>3. CASE entry[res[v].s].state \in Resumable
      BY <1>1, <3>2, <3>3 DEF ResumeRead, TasksOK, TaskType
    <3>4. CASE entry[res[v].s].state \notin Resumable
      BY <1>1, <3>4, ResFinish DEF ResumeRead
    <3> QED
      BY <3>3, <3>4
  <2> QED
    BY <1>1, <2>2 DEF ResumeRead
<1>2. CASE ResumeCas(v)
  <2>1. StoreOK'
    BY <1>2, StoreCas DEF ResumeCas, States, NoHandle
  <2>2. FinishRes(v) \/ \E pc \in {"restore", "op"} : GotoRes(v, pc)
    BY <1>2 DEF ResumeCas
  <2>3. TasksOK'
    BY <1>2, <2>2, ResGoto, ResFinish DEF ResumeCas, InFlight, BusyPcs
  <2> QED
    BY <1>2, <2>1, <2>3 DEF ResumeCas
<1>3. CASE ResumeRestore(v)
  <2>1. InFlight(res[v])
    BY <1>3 DEF ResumeRestore, InFlight
  <2>2. EngineOK'
    <3>1. Ensured(vol[res[v].s]) \in Nat \cup {Nothing}
      BY <2>1, BusyFields DEF EngineOK, Ensured, Empty
    <3> QED
      BY <1>3, <3>1 DEF ResumeRestore, EngineOK
  <2>3. \E pc \in {"op", "fail"} : GotoRes(v, pc)
    BY <1>3 DEF ResumeRestore
  <2>4. TasksOK'
    BY <1>3, <2>1, <2>3, ResGoto DEF ResumeRestore, BusyPcs
  <2> QED
    BY <1>3, <2>2, <2>4 DEF ResumeRestore
<1>4. CASE ResumeOp(v)
  <2> DEFINE s == res[v].s
  <2>1. InFlight(res[v]) /\ s \in Sessions
    BY <1>4, BusyFields DEF ResumeOp, InFlight
  <2>2. Started(box[s]) \in [up : {"absent", "stopped", "up"}, port : Nat]
    BY <2>1 DEF Started, Spawned, EngineOK
  <2>3. EngineOK'
    <3>1. CASE Spawn(s) \/ SpawnFails(s)
      BY <1>4, <2>1, <3>1, EngineSpawn DEF ResumeOp
    <3>2. CASE Start(s) /\ UNCHANGED vol
      BY <1>4, <2>1, <2>2, <3>2 DEF ResumeOp, Start, EngineOK
    <3>3. CASE UNCHANGED <<box, vol>>
      BY <1>4, <3>3 DEF ResumeOp, EngineOK
    <3> QED
      BY <1>4, <3>1, <3>2, <3>3 DEF ResumeOp
  <2>4. TasksOK'
    <3>1. CASE GotoRes(v, "fail")
      BY <1>4, <2>1, <3>1, ResGoto DEF ResumeOp, BusyPcs
    <3>2. ASSUME NEW h \in Nat,
                 res' = [res EXCEPT ![v].pc = "health", ![v].port = h]
          PROVE  TasksOK'
      <4>1. [res[v] EXCEPT !.pc = "health", !.port = h] \in BusyTask
        BY <2>1, BusyIffInFlight DEF BusyTask, BusyPcs
      <4> QED
        BY <1>4, <3>2, <4>1 DEF ResumeOp, TasksOK, TaskType
    <3>3. box[s].port + 1 \in Nat /\ Started(box[s]).port \in Nat
      BY <2>1, <2>2 DEF EngineOK
    <3> QED
      BY <1>4, <3>1, <3>2, <3>3 DEF ResumeOp
  <2> QED
    BY <1>4, <2>3, <2>4 DEF ResumeOp
<1>5. CASE ResumeHealth(v)
  <2>1. PICK pc \in {"commit", "fail"} : GotoRes(v, pc)
    BY <1>5 DEF ResumeHealth
  <2>2. TasksOK'
    BY <1>5, <2>1, ResGoto DEF ResumeHealth, InFlight, BusyPcs
  <2> QED
    BY <1>5, <2>2 DEF ResumeHealth
<1>6. CASE ResumeCommit(v)
  <2>1. StoreOK'
    BY <1>6, BusyFields, StoreCas DEF ResumeCommit, InFlight, States
  <2>2. TasksOK'
    BY <1>6, ResGoto, ResFinish DEF ResumeCommit, InFlight, BusyPcs
  <2> QED
    BY <1>6, <2>1, <2>2 DEF ResumeCommit
<1>7. CASE ResumeUnmark(v)
  <2>1. StoreOK'
    BY <1>7 DEF ResumeUnmark, StoreOK, ClearArchived, Row
  <2>2. TasksOK'
    BY <1>7, ResGoto DEF ResumeUnmark, InFlight, BusyPcs
  <2> QED
    BY <1>7, <2>1, <2>2 DEF ResumeUnmark
<1>8. CASE ResumeRmFiles(v)
  <2>1. EngineOK'
    BY <1>8 DEF ResumeRmFiles, EngineOK
  <2>2. TasksOK'
    BY <1>8, ResFinish DEF ResumeRmFiles
  <2> QED
    BY <1>8, <2>1, <2>2 DEF ResumeRmFiles
<1>9. CASE ResumeFail(v)
  <2>1. StoreOK'
    BY <1>9, StoreCas DEF ResumeFail, States, NoHandle
  <2>2. TasksOK'
    BY <1>9, ResFinish DEF ResumeFail
  <2> QED
    BY <1>9, <2>1, <2>2 DEF ResumeFail
<1> QED
  BY <1>1, <1>2, <1>3, <1>4, <1>5, <1>6, <1>7, <1>8, <1>9 DEF Resume

LEMMA DeleteType ==
    ASSUME TypeOK, NEW d \in Deletes, Delete(d)
    PROVE  TypeOK'
<1> d \in Requests
  BY DEF Requests
<1> req[d] \in TaskType
  BY DEF TypeOK, TasksOK
<1> USE Untouched DEF TypeOK
<1>1. CASE DeleteRead(d)
  <2> PICK p \in Procs, s \in Sessions : DeleteRead(d)!(p, s)
    BY <1>1 DEF DeleteRead
  <2>1. entry[s] \in Row /\ Task("cas", s, p) \in BusyTask
    BY TaskTypes DEF StoreOK, BusyPcs
  <2>2. [Task("cas", s, p) EXCEPT !.seen = entry[s]] \in BusyTask
    BY <2>1 DEF BusyTask
  <2>3. TasksOK'
    BY <2>2 DEF TasksOK, TaskType
  <2> QED
    BY <2>3
<1>2. CASE DeleteCas(d)
  <2>1. InFlight(req[d])
    BY <1>2 DEF DeleteCas, InFlight
  <2>2. StoreOK'
    BY <1>2, StoreCas DEF DeleteCas, States, NoHandle
  <2>3. GhostsOK'
    BY <1>2, <2>1, BusyFields DEF DeleteCas, Override, GhostsOK
  <2>4. Finish(d) \/ \E pc \in {"destroy", "retry"} : Goto(d, pc)
    BY <1>2 DEF DeleteCas
  <2>5. TasksOK'
    BY <1>2, <2>1, <2>4, ReqGoto, ReqFinish DEF DeleteCas, BusyPcs
  <2> QED
    BY <1>2, <2>2, <2>3, <2>5 DEF DeleteCas
<1>3. CASE DeleteRetry(d)
  <2>1. InFlight(req[d])
    BY <1>3 DEF DeleteRetry, InFlight
  <2>2. TasksOK'
    <3>1. entry[req[d].s] \in Row
      BY <2>1, BusyFields DEF StoreOK
    <3>2. [req[d] EXCEPT !.pc = "cas2", !.seen = entry[req[d].s]] \in BusyTask
      BY <2>1, <3>1, BusyIffInFlight DEF BusyTask, BusyPcs
    <3>3. CASE Exists(entry[req[d].s])
      BY <1>3, <3>2, <3>3 DEF DeleteRetry, TasksOK, TaskType
    <3>4. CASE ~Exists(entry[req[d].s])
      BY <1>3, <3>4, ReqFinish DEF DeleteRetry
    <3> QED
      BY <3>3, <3>4
  <2> QED
    BY <1>3, <2>2 DEF DeleteRetry
<1>4. CASE DeleteDestroy(d)
  <2>1. EngineOK'
    BY <1>4, EngineGone DEF DeleteDestroy
  <2>2. TasksOK'
    BY <1>4, ReqGoto DEF DeleteDestroy, InFlight, BusyPcs
  <2> QED
    BY <1>4, <2>1, <2>2 DEF DeleteDestroy
<1>5. CASE DeleteRmFiles(d)
  <2>1. EngineOK'
    BY <1>5 DEF DeleteRmFiles, EngineOK
  <2>2. TasksOK'
    BY <1>5, ReqGoto DEF DeleteRmFiles, InFlight, BusyPcs
  <2> QED
    BY <1>5, <2>1, <2>2 DEF DeleteRmFiles
<1>6. CASE DeleteRemove(d)
  <2>1. StoreOK'
    BY <1>6, ConstantRows DEF DeleteRemove, StoreOK
  <2>2. GhostsOK'
    BY <1>6, BusyFields DEF DeleteRemove, InFlight, Override, GhostsOK
  <2>3. TasksOK'
    BY <1>6, ReqFinish DEF DeleteRemove
  <2> QED
    BY <1>6, <2>1, <2>2, <2>3 DEF DeleteRemove
<1> QED
  BY <1>1, <1>2, <1>3, <1>4, <1>5, <1>6 DEF Delete

LEMMA SweepType ==
    ASSUME TypeOK, NEW p \in Procs, Sweep(p)
    PROVE  TypeOK'
<1> sweep[p] \in TaskType
  BY DEF TypeOK, ReplicasOK
<1> USE Untouched DEF TypeOK, Sweeping
<1>1. CASE SweepList(p)
  <2> PICK s \in Sessions : SweepList(p)!(s)
    BY <1>1 DEF SweepList
  <2>1. ReplicasOK'
    BY TaskTypes DEF ReplicasOK, BusyPcs, TaskType
  <2> QED
    BY <2>1
<1>2. CASE SweepClaim(p)
  <2>1. StoreOK'
    BY <1>2, StoreClaim DEF SweepClaim
  <2>2. ReplicasOK'
    BY <1>2, SweepGoto, SweepFinish DEF SweepClaim, InFlight, BusyPcs
  <2> QED
    BY <1>2, <2>1, <2>2 DEF SweepClaim
<1>3. CASE SweepCas(p)
  <2>1. StoreOK'
    BY <1>3, StoreCas DEF SweepCas, States, NoHandle
  <2>2. ReplicasOK'
    BY <1>3, SweepGoto, SweepFinish DEF SweepCas, InFlight, BusyPcs
  <2> QED
    BY <1>3, <2>1, <2>2 DEF SweepCas
<1>4. CASE SweepGet(p)
  <2>1. ReplicasOK'
    BY <1>4, SweepGoto, SweepFinish DEF SweepGet, InFlight, BusyPcs
  <2> QED
    BY <1>4, <2>1 DEF SweepGet
<1>5. CASE SweepStop(p)
  <2>1. EngineOK'
    BY <1>5, EngineStop DEF SweepStop
  <2>2. ReplicasOK'
    BY <1>5, SweepFinish DEF SweepStop
  <2> QED
    BY <1>5, <2>1, <2>2 DEF SweepStop
<1>6. CASE DeepRead(p)
  <2> PICK s \in Sessions : DeepRead(p)!(s)
    BY <1>6 DEF DeepRead
  <2>1. ReplicasOK'
    BY TaskTypes DEF ReplicasOK, BusyPcs, TaskType
  <2> QED
    BY <2>1
<1>7. CASE DeepClaim(p)
  <2>1. StoreOK'
    BY <1>7, StoreClaim DEF DeepClaim
  <2>2. ReplicasOK'
    BY <1>7, SweepGoto, SweepFinish DEF DeepClaim, InFlight, BusyPcs
  <2> QED
    BY <1>7, <2>1, <2>2 DEF DeepClaim
<1>8. CASE DeepExport(p)
  <2>1. InFlight(sweep[p])
    BY <1>8 DEF DeepExport, InFlight
  <2>2. Ensured(vol[sweep[p].s]) \in Nat \cup {Nothing}
    BY <2>1, BusyFields DEF EngineOK, Ensured, Empty
  <2>3. EngineOK'
    BY <1>8, <2>2 DEF DeepExport, EngineOK
  <2>4. ReplicasOK'
    BY <1>8, <2>1, SweepGoto DEF DeepExport, BusyPcs
  <2> QED
    BY <1>8, <2>3, <2>4 DEF DeepExport
<1>9. CASE DeepMark(p)
  <2>1. StoreOK'
    BY <1>9 DEF DeepMark, StoreOK, SetArchived, Row, NoHandle
  <2>2. ReplicasOK'
    BY <1>9, SweepGoto DEF DeepMark, InFlight, BusyPcs
  <2> QED
    BY <1>9, <2>1, <2>2 DEF DeepMark
<1>10. CASE DeepDestroy(p)
  <2>1. Destroy(sweep[p].s) /\ UNCHANGED <<files, latest>>
    BY <1>10 DEF DeepDestroy
  <2>2. EngineOK'
    BY <2>1, EngineGone
  <2>3. ReplicasOK'
    BY <1>10, SweepGoto DEF DeepDestroy, InFlight, BusyPcs
  <2> QED
    BY <1>10, <2>2, <2>3 DEF DeepDestroy
<1>11. CASE DeepRelease(p)
  <2>1. StoreOK'
    BY <1>11, StoreRelease DEF DeepRelease
  <2>2. ReplicasOK'
    BY <1>11, SweepFinish DEF DeepRelease
  <2> QED
    BY <1>11, <2>1, <2>2 DEF DeepRelease
<1> QED
  BY <1>1, <1>2, <1>3, <1>4, <1>5, <1>6, <1>7, <1>8, <1>9, <1>10, <1>11
     DEF Sweep


\* Moving a reconciliation on to its next step keeps the type.
LEMMA BootGoto ==
    ASSUME ReplicasOK, NEW p \in Procs, NEW b \in BootType,
           b.pc # "next" => b.s \in Sessions,
           boot' = [boot EXCEPT ![p] = b], UNCHANGED sweep,
           proc' \in [Procs -> {"off", "boot", "up", "down"}]
    PROVE  ReplicasOK'
BY DEF ReplicasOK

LEMMA BootIdleType == BootIdle \in BootType /\ BootIdle.pc = "next"
BY ConstantRows DEF BootIdle, BootType

LEMMA ReconcileType ==
    ASSUME TypeOK, NEW p \in Procs, Boot(p)
    PROVE  TypeOK'
<1> boot[p] \in BootType /\ (boot[p].pc # "next" => boot[p].s \in Sessions)
  BY DEF TypeOK, ReplicasOK
<1> USE Untouched DEF TypeOK, Booting
<1>1. CASE BootStart(p)
  <2> DEFINE b == [BootIdle EXCEPT !.rows = entry,
                     !.todo = {s \in Sessions : entry[s].state \in Interrupted}]
  <2>1. b \in BootType /\ b.pc = "next"
    BY BootIdleType DEF BootType, BootIdle, StoreOK
  <2>2. boot' = [boot EXCEPT ![p] = b]
    BY <1>1 DEF BootStart
  <2>3. proc' \in [Procs -> {"off", "boot", "up", "down"}] /\ UNCHANGED sweep
    BY <1>1 DEF BootStart, ReplicasOK
  <2> HIDE DEF b
  <2>4. ReplicasOK'
    BY <2>1, <2>2, <2>3, BootGoto
  <2> QED
    BY <1>1, <2>4 DEF BootStart
<1>2. CASE \E s \in Sessions : BootClaim(p, s)
  <2> PICK s \in Sessions : BootClaim(p, s)
    BY <1>2
  <2> DEFINE b == [boot[p] EXCEPT !.todo = @ \ {s}, !.s = s,
                     !.pc = IF CanClaim(s, p) THEN "probe" ELSE "next"]
  <2>1. StoreOK'
    BY StoreClaim DEF BootClaim
  <2>2. b \in BootType /\ b.s \in Sessions
    BY DEF BootType
  <2>3. boot' = [boot EXCEPT ![p] = b]
    BY DEF BootClaim
  <2>4. proc' \in [Procs -> {"off", "boot", "up", "down"}] /\ UNCHANGED sweep
    BY DEF BootClaim, ReplicasOK
  <2> HIDE DEF b
  <2>5. ReplicasOK'
    BY <2>2, <2>3, <2>4, BootGoto
  <2> QED
    BY <2>1, <2>5 DEF BootClaim
<1>3. CASE BootProbe(p)
  <2>1. PICK up \in BOOLEAN :
          boot' = [boot EXCEPT ![p].pc = "reread", ![p].alive = up]
    BY <1>3 DEF BootProbe, ProbeResults, Healthy
  <2> DEFINE b == [boot[p] EXCEPT !.pc = "reread", !.alive = up]
  <2>2. b \in BootType /\ b.s = boot[p].s
    BY DEF BootType
  <2>3. boot' = [boot EXCEPT ![p] = b]
    BY <2>1
  <2>4. proc' \in [Procs -> {"off", "boot", "up", "down"}] /\ UNCHANGED sweep
    BY <1>3 DEF BootProbe, ReplicasOK
  <2>5. b.s \in Sessions
    BY <1>3, <2>2 DEF BootProbe
  <2> HIDE DEF b
  <2>6. ReplicasOK'
    BY <2>2, <2>3, <2>4, <2>5, BootGoto
  <2> QED
    BY <1>3, <2>6 DEF BootProbe
<1>4. CASE BootReread(p)
  <2>1. boot[p].s \in Sessions
    BY <1>4 DEF BootReread
  <2>2. PICK pc \in {"next", "force"} :
          boot' = [boot EXCEPT ![p].pc = pc, ![p].fresh = entry[boot[p].s]]
    BY <1>4 DEF BootReread
  <2> DEFINE b == [boot[p] EXCEPT !.pc = pc, !.fresh = entry[boot[p].s]]
  <2>3. entry[boot[p].s] \in Row
    BY <2>1 DEF StoreOK
  <2>4. b \in BootType /\ b.s \in Sessions
    BY <2>1, <2>3 DEF BootType
  <2>5. boot' = [boot EXCEPT ![p] = b]
    BY <2>2
  <2>6. proc' \in [Procs -> {"off", "boot", "up", "down"}] /\ UNCHANGED sweep
    BY <1>4 DEF BootReread, ReplicasOK
  <2> HIDE DEF b
  <2>7. ReplicasOK'
    BY <2>4, <2>5, <2>6, BootGoto
  <2> QED
    BY <1>4, <2>7 DEF BootReread
<1>5. CASE BootForce(p)
  <2>1. boot[p].s \in Sessions
    BY <1>5 DEF BootForce
  <2>2. Reconciled(boot[p]) \in Row
    BY DEF Reconciled, BootType, Row, States
  <2>3. StoreOK'
    BY <1>5, <2>2 DEF BootForce, StoreOK, ForceUpdate
  <2>4. PICK pc \in {"release", "next"} : boot' = [boot EXCEPT ![p].pc = pc]
    BY <1>5 DEF BootForce
  <2> DEFINE b == [boot[p] EXCEPT !.pc = pc]
  <2>5. b \in BootType /\ b.s \in Sessions
    BY <2>1 DEF BootType
  <2>6. boot' = [boot EXCEPT ![p] = b]
    BY <2>4
  <2>7. proc' \in [Procs -> {"off", "boot", "up", "down"}] /\ UNCHANGED sweep
    BY <1>5 DEF BootForce, ReplicasOK
  <2> HIDE DEF b
  <2>8. ReplicasOK'
    BY <2>5, <2>6, <2>7, BootGoto
  <2>9. GhostsOK'
    BY <1>5, <2>1 DEF BootForce, GhostsOK
  <2> QED
    BY <1>5, <2>3, <2>8, <2>9 DEF BootForce
<1>6. CASE BootRelease(p)
  <2> DEFINE b == [boot[p] EXCEPT !.pc = "next"]
  <2>1. StoreOK'
    BY <1>6, StoreRelease DEF BootRelease
  <2>2. b \in BootType /\ b.pc = "next"
    BY DEF BootType
  <2>3. boot' = [boot EXCEPT ![p] = b]
    BY <1>6 DEF BootRelease
  <2>4. proc' \in [Procs -> {"off", "boot", "up", "down"}] /\ UNCHANGED sweep
    BY <1>6 DEF BootRelease, ReplicasOK
  <2> HIDE DEF b
  <2>5. ReplicasOK'
    BY <2>2, <2>3, <2>4, BootGoto
  <2> QED
    BY <1>6, <2>1, <2>5 DEF BootRelease
<1>7. CASE BootDone(p)
  <2>1. ReplicasOK'
    BY <1>7, BootIdleType, BootGoto DEF BootDone, ReplicasOK
  <2> QED
    BY <1>7, <2>1 DEF BootDone
<1> QED
  BY <1>1, <1>2, <1>3, <1>4, <1>5, <1>6, <1>7 DEF Boot

LEMMA EnvironmentType ==
    ASSUME TypeOK, Environment
    PROVE  TypeOK'
<1> USE Untouched DEF TypeOK
<1>1. ASSUME NEW p \in Procs, Halt(p)
      PROVE  ReplicasOK' /\ TasksOK'
  BY <1>1, ConstantRows, BootIdleType DEF Halt, ReplicasOK, TasksOK
<1>2. CASE \E p \in Procs : Crash(p)
  BY <1>1, <1>2 DEF Crash
<1>3. CASE \E p \in Procs : Shutdown(p)
  <2> PICK p \in Procs : Shutdown(p)
    BY <1>3
  <2>1. StoreOK'
    BY ConstantRows DEF Shutdown, StoreOK, ReleaseLease
  <2> QED
    BY <1>1, <2>1 DEF Shutdown
<1>4. CASE \E s \in Sessions : Expire(s)
  <2> PICK s \in Sessions : Expire(s)
    BY <1>4
  <2>1. StoreOK'
    BY DEF Expire, StoreOK
  <2> QED
    BY <2>1 DEF Expire
<1>5. CASE \E s \in Sessions : ContainerDies(s)
  <2> PICK s \in Sessions : ContainerDies(s)
    BY <1>5
  <2>1. EngineOK /\ box' \in {box, [box EXCEPT ![s] = Stopped(@)]}
    BY DEF ContainerDies
  <2>2. UNCHANGED <<vol, files, latest>>
    BY DEF ContainerDies
  <2>3. EngineOK'
    BY <2>1, <2>2, EngineStop
  <2>4. GhostsOK'
    BY DEF ContainerDies, GhostsOK
  <2> QED
    BY <2>3, <2>4 DEF ContainerDies
<1>6. CASE \E s \in Sessions : EngineWrites(s)
  <2> PICK s \in Sessions : EngineWrites(s)
    BY <1>6
  <2>1. latest[s] + 1 \in Nat
    BY DEF EngineOK
  <2>2. EngineOK'
    BY <2>1 DEF EngineWrites, EngineOK
  <2> QED
    BY <2>2 DEF EngineWrites
<1>7. CASE \E c \in Requests : HangUp(c)
  <2> PICK c \in Requests : HangUp(c)
    BY <1>7
  <2>1. TasksOK'
    BY ReqFinish DEF HangUp
  <2> QED
    BY <2>1 DEF HangUp
<1>8. CASE \E v \in Visits : VisitRenew(v)
  BY <1>8, VisitType
<1>9. CASE \E p \in Procs : DeepRenew(p)
  <2> PICK p \in Procs : DeepRenew(p)
    BY <1>9
  <2>1. StoreOK'
    BY DEF DeepRenew, StoreOK
  <2> QED
    BY <2>1 DEF DeepRenew
<1> QED
  BY <1>2, <1>3, <1>4, <1>5, <1>6, <1>7, <1>8, <1>9 DEF Environment

LEMMA InitType == Init => TypeOK
BY ConstantRows, BootIdleType
   DEF Init, TypeOK, StoreOK, EngineOK, ReplicasOK, TasksOK, GhostsOK, Row,
       NoHandle, Nothing

LEMMA NextType == TypeOK /\ [Next]_vars => TypeOK'
<1> SUFFICES ASSUME TypeOK, [Next]_vars PROVE TypeOK'
  OBVIOUS
<1>1. CASE Next
  BY <1>1, PostType, VisitType, ResumeType, DeleteType, SweepType,
     ReconcileType, EnvironmentType DEF Next
<1>2. CASE UNCHANGED vars
  BY <1>2, Untouched DEF TypeOK, vars
<1> QED
  BY <1>1, <1>2

(***************************************************************************)
(* Type correctness: in every reachable state each variable has its type,  *)
(* and a task in flight, or a reconciliation past the choice of a row, is  *)
(* working on a session (TypeOK).                                          *)
(***************************************************************************)
THEOREM TypeCorrect == Spec => []TypeOK
<1>1. Init => TypeOK
  BY InitType
<1>2. TypeOK /\ [Next]_vars => TypeOK'
  BY NextType
<1> QED
  BY <1>1, <1>2, PTL DEF Spec

=============================================================================
