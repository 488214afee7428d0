----------------------- MODULE SessionExclusionProofs -----------------------
(***************************************************************************)
(* The compare-and-set on the lifecycle state excludes: of the tasks of    *)
(* all replicas, at most one operates the container of a session.          *)
(*                                                                         *)
(* SoleOperator is inductive relative to TypeOK.  Only two steps make a    *)
(* task an operator, the insert of a create and the claim of a resume, and *)
(* both move the row out of a state in which nobody operates.  Every other *)
(* step leaves the state of the row alone, or ends the one operation, or   *)
(* finds nobody operating, or declares the session disturbed (lemma Frame).*)
(***************************************************************************)
EXTENDS SessionLifecycleProofs

\* In a state other than Creating and Resuming nobody operates.
LEMMA NobodyOperates ==
    ASSUME SoleOperator, NEW s \in Sessions \ disturbed,
           entry[s].state \notin Pending
    PROVE  ~Operated(s)
BY DEF SoleOperator, CreateExcludes, ResumeExcludes, Operated, Pending

\* What an operator excludes.
LEMMA OnlyOperator ==
    ASSUME SoleOperator, NEW s \in Sessions \ disturbed
    PROVE  /\ \A c \in Posts : Creating(c, s) =>
                 /\ \A d \in Posts : Creating(d, s) => d = c
                 /\ \A v \in Visits : ~Resuming(v, s)
           /\ \A v \in Visits : Resuming(v, s) =>
                 /\ \A w \in Visits : Resuming(w, s) => w = v
                 /\ \A c \in Posts : ~Creating(c, s)
BY DEF SoleOperator, CreateExcludes, ResumeExcludes

\* A step that makes no task an operator keeps exclusion, if each row it
\* moves is disturbed or has no operator afterwards.
LEMMA Frame ==
    ASSUME SoleOperator, disturbed \subseteq disturbed',
           \A s \in Sessions, c \in Posts : Creating(c, s)' => Creating(c, s),
           \A s \in Sessions, v \in Visits : Resuming(v, s)' => Resuming(v, s),
           \A s \in Sessions \ disturbed' :
               entry'[s].state = entry[s].state \/ ~Operated(s)'
    PROVE  SoleOperator'
<1> SUFFICES ASSUME NEW s \in Sessions \ disturbed'
             PROVE  CreateExcludes(s)' /\ ResumeExcludes(s)'
  BY DEF SoleOperator
<1>1. CreateExcludes(s) /\ ResumeExcludes(s)
  BY DEF SoleOperator
<1>2. CASE entry'[s].state = entry[s].state
  BY <1>1, <1>2 DEF CreateExcludes, ResumeExcludes
<1>3. CASE ~Operated(s)'
  BY <1>3 DEF CreateExcludes, ResumeExcludes, Operated
<1> QED
  BY <1>2, <1>3

\* Nobody becomes an operator when the tasks are left alone, when a create or
\* a resume in flight moves on or ends, and when others do anything.
LEMMA CreatorMoves ==
    ASSUME TasksOK, NEW c \in Posts, UNCHANGED res,
           \/ Finish(c)
           \/ \E pc : Goto(c, pc) /\ req[c].pc \in CreateOps
           \/ \E pc, h : /\ req' = [req EXCEPT ![c].pc = pc, ![c].port = h]
                         /\ req[c].pc \in CreateOps
    PROVE  /\ \A s \in Sessions, d \in Posts : Creating(d, s)' => Creating(d, s)
           /\ \A s \in Sessions, v \in Visits : Resuming(v, s)' => Resuming(v, s)
<1> c \in Requests /\ Posts \subseteq Requests
  BY DEF Requests
<1>1. req[c] \in TaskType /\ req \in [Requests -> TaskType]
  BY DEF TasksOK
<1>2. CASE Finish(c)
  BY <1>1, <1>2 DEF Finish, Creating, CreateOps, Resuming, Done, Task
<1>3. ASSUME NEW pc, Goto(c, pc), req[c].pc \in CreateOps
      PROVE  \A s \in Sessions, d \in Posts : Creating(d, s)' => Creating(d, s)
  <2>1. req'[c].s = req[c].s /\ \A d \in Posts \ {c} : req'[d] = req[d]
    <3>1. req' = [req EXCEPT ![c].pc = pc]
      BY <1>3 DEF Goto
    <3> QED
      BY <1>1, <3>1 DEF TaskType, BusyTask, Idle, Done, Task
  <2> SUFFICES ASSUME NEW s \in Sessions, NEW d \in Posts, Creating(d, s)'
               PROVE  Creating(d, s)
    OBVIOUS
  <2>2. CASE d = c
    BY <1>3, <2>1, <2>2 DEF Creating
  <2>3. CASE d # c
    BY <2>1, <2>3 DEF Creating
  <2> QED
    BY <2>2, <2>3
<1>4. ASSUME NEW pc, NEW h, req' = [req EXCEPT ![c].pc = pc, ![c].port = h],
             req[c].pc \in CreateOps
      PROVE  \A s \in Sessions, d \in Posts : Creating(d, s)' => Creating(d, s)
  <2>1. req'[c].s = req[c].s
    BY <1>1, <1>4 DEF TaskType, BusyTask, Idle, Done, Task
  <2>2. \A d \in Posts \ {c} : req'[d] = req[d]
    BY <1>1, <1>4
  <2> SUFFICES ASSUME NEW s \in Sessions, NEW d \in Posts, Creating(d, s)'
               PROVE  Creating(d, s)
    OBVIOUS
  <2>3. CASE d = c
    BY <1>4, <2>1, <2>3 DEF Creating
  <2>4. CASE d # c
    BY <2>2, <2>4 DEF Creating
  <2> QED
    BY <2>3, <2>4
<1> QED
  BY <1>2, <1>3, <1>4 DEF Resuming

LEMMA ResumerMoves ==
    ASSUME TasksOK, NEW v \in Visits, UNCHANGED req,
           \/ FinishRes(v)
           \/ \E pc : GotoRes(v, pc) /\ (pc \in ResumeOps => res[v].pc \in ResumeOps)
           \/ \E pc, h : /\ res' = [res EXCEPT ![v].pc = pc, ![v].port = h]
                         /\ res[v].pc \in ResumeOps
    PROVE  /\ \A s \in Sessions, c \in Posts : Creating(c, s)' => Creating(c, s)
           /\ \A s \in Sessions, w \in Visits : Resuming(w, s)' => Resuming(w, s)
<1>1. res[v] \in TaskType /\ res \in [Visits -> TaskType]
  BY DEF TasksOK
<1>2. CASE FinishRes(v)
  BY <1>1, <1>2 DEF FinishRes, Creating, Resuming, ResumeOps, Done, Task
<1>3. ASSUME NEW pc, GotoRes(v, pc), pc \in ResumeOps => res[v].pc \in ResumeOps
      PROVE  \A s \in Sessions, w \in Visits : Resuming(w, s)' => Resuming(w, s)
  <2>1. res'[v].s = res[v].s /\ \A w \in Visits \ {v} : res'[w] = res[w]
    <3>1. res' = [res EXCEPT ![v].pc = pc]
      BY <1>3 DEF GotoRes
    <3> QED
      BY <1>1, <3>1 DEF TaskType, BusyTask, Idle, Done, Task
  <2>2. res'[v].pc = pc
    BY <1>1, <1>3 DEF GotoRes, TaskType, BusyTask, Idle, Done, Task
  <2> SUFFICES ASSUME NEW s \in Sessions, NEW w \in Visits, Resuming(w, s)'
               PROVE  Resuming(w, s)
    OBVIOUS
  <2>3. CASE w = v
    BY <1>3, <2>1, <2>2, <2>3 DEF Resuming
  <2>4. CASE w # v
    BY <2>1, <2>4 DEF Resuming
  <2> QED
    BY <2>3, <2>4
<1>4. ASSUME NEW pc, NEW h, res' = [res EXCEPT ![v].pc = pc, ![v].port = h],
             res[v].pc \in ResumeOps
      PROVE  \A s \in Sessions, w \in Visits : Resuming(w, s)' => Resuming(w, s)
  <2>1. res'[v].s = res[v].s
    BY <1>1, <1>4 DEF TaskType, BusyTask, Idle, Done, Task
  <2>2. \A w \in Visits \ {v} : res'[w] = res[w]
    BY <1>1, <1>4
  <2> SUFFICES ASSUME NEW s \in Sessions, NEW w \in Visits, Resuming(w, s)'
               PROVE  Resuming(w, s)
    OBVIOUS
  <2>3. CASE w = v
    BY <1>4, <2>1, <2>3 DEF Resuming
  <2>4. CASE w # v
    BY <2>2, <2>4 DEF Resuming
  <2> QED
    BY <2>3, <2>4
<1> QED
  BY <1>2, <1>3, <1>4 DEF Creating

\* Requests other than creates are nobody's operation.
LEMMA OthersMove ==
    ASSUME UNCHANGED res, \A c \in Posts : req'[c] = req[c]
    PROVE  /\ \A s \in Sessions, c \in Posts : Creating(c, s)' => Creating(c, s)
           /\ \A s \in Sessions, v \in Visits : Resuming(v, s)' => Resuming(v, s)
BY DEF Creating, Resuming

-----------------------------------------------------------------------------
(* One lemma per kind of task.                                             *)

LEMMA PostExcludes ==
    ASSUME TypeOK, SoleOperator, NEW c \in Posts, Post(c)
    PROVE  SoleOperator'
<1> c \in Requests /\ TasksOK
  BY DEF Requests, TypeOK
<1>1. CASE PostInsert(c)
  <2> PICK p \in Procs, s \in Sessions : PostInsert(c)!(p, s)
    BY <1>1 DEF PostInsert
  <2> SUFFICES ASSUME NEW t \in Sessions \ disturbed
               PROVE  CreateExcludes(t)' /\ ResumeExcludes(t)'
    BY DEF SoleOperator, ghosts
  <2>1. /\ req'[c] = Task("claim", s, p) /\ req'[c].s = s
        /\ \A d \in Posts \ {c} : req'[d] = req[d]
    BY DEF TasksOK, Requests, Task
  <2>2. CreateExcludes(t) /\ ResumeExcludes(t)
    BY DEF SoleOperator
  <2>3. CASE t = s
    <3>1. ~Operated(s)
      BY <2>3, NobodyOperates DEF Exists, Absent, Pending
    <3>2. \A d \in Posts : Creating(d, s)' => d = c
      BY <2>1, <3>1 DEF Operated, Creating
    <3>3. \A v \in Visits : ~Resuming(v, s)'
      BY <3>1 DEF Operated, Resuming
    <3>4. entry'[s].state = "Creating"
      BY DEF TypeOK, StoreOK, FreshEntry
    <3> QED
      BY <2>3, <3>2, <3>3, <3>4 DEF CreateExcludes, ResumeExcludes
  <2>4. CASE t # s
    <3>1. entry'[t] = entry[t]
      BY <2>4 DEF TypeOK, StoreOK
    <3>2. \A d \in Posts : Creating(d, t)' => Creating(d, t)
      BY <2>1, <2>4 DEF Creating
    <3>3. \A v \in Visits : Resuming(v, t)' => Resuming(v, t)
      BY DEF Resuming
    <3> QED
      BY <2>2, <3>1, <3>2, <3>3 DEF CreateExcludes, ResumeExcludes
  <2> QED
    BY <2>3, <2>4
<1>2. ASSUME UNCHANGED <<entry, disturbed, res>>,
             req[c].pc \in CreateOps,
             \/ \E pc : Goto(c, pc)
             \/ \E pc, h : req' = [req EXCEPT ![c].pc = pc, ![c].port = h]
      PROVE  SoleOperator'
  BY <1>2, CreatorMoves, Frame
<1>3. CASE PostClaim(c)
  BY <1>2, <1>3 DEF PostClaim, CreateOps, ghosts
<1>4. CASE PostSpawn(c)
  BY <1>2, <1>4 DEF PostSpawn, CreateOps, ghosts, store
<1>5. CASE PostHealth(c)
  BY <1>2, <1>5 DEF PostHealth, CreateOps, ghosts, store
<1>6. CASE PostCleanup(c)
  BY <1>2, <1>6 DEF PostCleanup, CreateOps, ghosts, store
<1>7. ASSUME NEW to, NEW h, req[c].pc \in CreateOps,
             Cas(req[c].s, "Creating", to, h), Finish(c),
             UNCHANGED <<res, disturbed>>
      PROVE  SoleOperator'
  <2>1. /\ \A s \in Sessions, d \in Posts : Creating(d, s)' => Creating(d, s)
        /\ \A s \in Sessions, v \in Visits : Resuming(v, s)' => Resuming(v, s)
    BY <1>7, CreatorMoves
  <2>2. ASSUME NEW s \in Sessions \ disturbed
        PROVE  entry'[s].state = entry[s].state \/ ~Operated(s)'
    <3>1. CASE s # req[c].s
      BY <1>7, <3>1 DEF Cas, TypeOK, StoreOK
    <3>2. CASE s = req[c].s
      <4>1. Creating(c, s)
        BY <1>7, <3>2 DEF Creating
      <4>2. /\ \A d \in Posts : Creating(d, s) => d = c
            /\ \A v \in Visits : ~Resuming(v, s)
        BY <4>1, OnlyOperator
      <4>3. ~Creating(c, s)'
        BY <1>7 DEF Finish, Creating, CreateOps, TasksOK, Done, Task
      <4> QED
        BY <2>1, <4>2, <4>3 DEF Operated
    <3> QED
      BY <3>1, <3>2
  <2> QED
    BY <1>7, <2>1, <2>2, Frame
<1>8. CASE PostCommit(c)
  BY <1>7, <1>8 DEF PostCommit, CreateOps, ghosts
<1>9. CASE PostFail(c)
  BY <1>7, <1>9 DEF PostFail, CreateOps, ghosts
<1> QED
  BY <1>1, <1>3, <1>4, <1>5, <1>6, <1>8, <1>9 DEF Post

\* A step that starts no operation, and transitions at most the row of a
\* session that is in a state in which nobody operates.
LEMMA CasExcludes ==
    ASSUME TypeOK, SoleOperator, NEW s, NEW from, NEW to, NEW h,
           from \notin Pending, Cas(s, from, to, h),
           disturbed \subseteq disturbed',
           \A t \in Sessions, c \in Posts : Creating(c, t)' => Creating(c, t),
           \A t \in Sessions, v \in Visits : Resuming(v, t)' => Resuming(v, t)
    PROVE  SoleOperator'
<1>1. ASSUME NEW t \in Sessions \ disturbed'
      PROVE  entry'[t].state = entry[t].state \/ ~Operated(t)'
  <2>1. CASE t = s /\ Hit(s, from, to)
    <3>1. ~Operated(t)
      BY <2>1, NobodyOperates DEF Hit, CasHit
    <3> QED
      BY <3>1 DEF Operated
  <2>2. CASE ~(t = s /\ Hit(s, from, to))
    BY <2>2 DEF Cas, CasTransition, Hit, TypeOK, StoreOK
  <2> QED
    BY <2>1, <2>2
<1> QED
  BY <1>1, Frame

\* A visit only ever spawns a resume task that has claimed nothing yet.
LEMMA ProceedStarts ==
    ASSUME TasksOK, NEW v \in Visits, NEW e, Proceed(v, e)
    PROVE  /\ \A s \in Sessions, c \in Posts : Creating(c, s)' => Creating(c, s)
           /\ \A s \in Sessions, w \in Visits : Resuming(w, s)' => Resuming(w, s)
<1>1. \A c \in Posts : req'[c] = req[c]
  BY RequestsAreDistinct DEF Proceed, Goto, TasksOK, Requests
<1>2. \A w \in Visits : res'[w] = res[w] \/ res'[w].pc = "read"
  BY DEF Proceed, TasksOK, Task
<1> QED
  BY <1>1, <1>2 DEF Creating, Resuming, ResumeOps

LEMMA VisitExcludes ==
    ASSUME TypeOK, SoleOperator, NEW v \in Visits, Visit(v) \/ VisitRenew(v)
    PROVE  SoleOperator'
<1> TasksOK
  BY DEF TypeOK
<1>1. ASSUME NEW e, Proceed(v, e), UNCHANGED <<entry, disturbed>>
      PROVE  SoleOperator'
  BY <1>1, ProceedStarts, Frame
<1>2. ASSUME UNCHANGED <<res, disturbed>>, \E t : req' = [req EXCEPT ![v] = t]
      PROVE  /\ \A s \in Sessions, c \in Posts : Creating(c, s)' => Creating(c, s)
             /\ \A s \in Sessions, w \in Visits : Resuming(w, s)' => Resuming(w, s)
  <2>1. \A c \in Posts : req'[c] = req[c]
    BY <1>2, RequestsAreDistinct DEF TasksOK, Requests
  <2> QED
    BY <1>2, <2>1, OthersMove
<1>3. ASSUME UNCHANGED <<entry, res, disturbed>>,
             \E t : req' = [req EXCEPT ![v] = t]
      PROVE  SoleOperator'
  BY <1>2, <1>3, Frame
<1>4. CASE VisitArrive(v)
  BY <1>3, <1>4 DEF VisitArrive, ghosts
<1>5. CASE VisitRead(v)
  <2>1. CASE entry[req[v].s].state = "Running"
    <3>1. req' = [req EXCEPT ![v] =
                     [@ EXCEPT !.pc = "connect", !.seen = entry[req[v].s]]]
      BY <1>5, <2>1 DEF VisitRead
    <3>2. UNCHANGED <<entry, res, disturbed>>
      BY <1>5, <2>1 DEF VisitRead, store, ghosts
    <3> QED
      BY <1>3, <3>1, <3>2
  <2>2. CASE entry[req[v].s].state # "Running"
    BY <1>1, <1>5, <2>2 DEF VisitRead, store, ghosts
  <2> QED
    BY <2>1, <2>2
<1>6. CASE VisitConnect(v)
  <2>1. PICK pc : req' = [req EXCEPT ![v] = [@ EXCEPT !.pc = pc, !.seen = NoEntry]]
    BY <1>6 DEF VisitConnect
  <2> QED
    BY <1>3, <1>6, <2>1 DEF VisitConnect, store, ghosts
<1>7. CASE VisitMark(v)
  <2>1. req' = [req EXCEPT ![v] = [@ EXCEPT !.pc = "look"]]
    BY <1>7 DEF VisitMark, Goto
  <2>2. UNCHANGED <<res, disturbed>>
    BY <1>7 DEF VisitMark, ghosts
  <2>3. "Running" \notin Pending /\ Cas(req[v].s, "Running", "Crashed", NoHandle)
    BY <1>7 DEF VisitMark, Pending
  <2>4. /\ \A s \in Sessions, c \in Posts : Creating(c, s)' => Creating(c, s)
        /\ \A s \in Sessions, w \in Visits : Resuming(w, s)' => Resuming(w, s)
    BY <1>2, <2>1, <2>2
  <2> QED
    BY <2>2, <2>3, <2>4, CasExcludes
<1>8. CASE VisitLook(v)
  BY <1>1, <1>8 DEF VisitLook, store, ghosts
<1>9. CASE VisitLeave(v)
  BY <1>3, <1>9 DEF VisitLeave, Goto, store, ghosts
<1>10. CASE VisitRelease(v)
  BY <1>3, <1>10 DEF VisitRelease, Finish, ghosts
<1>11. CASE VisitRenew(v)
  BY <1>11, OthersMove, Frame DEF VisitRenew, tasks, ghosts
<1> QED
  BY <1>4, <1>5, <1>6, <1>7, <1>8, <1>9, <1>10, <1>11 DEF Visit

LEMMA ResumeIsExclusive ==
    ASSUME TypeOK, SoleOperator, NEW v \in Visits, Resume(v)
    PROVE  SoleOperator'
<1> TasksOK
  BY DEF TypeOK
<1>1. ASSUME UNCHANGED <<entry, disturbed, req>>,
             \/ FinishRes(v)
             \/ \E pc : /\ GotoRes(v, pc)
                        /\ pc \in ResumeOps => res[v].pc \in ResumeOps
             \/ \E pc, h : /\ res' = [res EXCEPT ![v].pc = pc, ![v].port = h]
                           /\ res[v].pc \in ResumeOps
      PROVE  SoleOperator'
  BY <1>1, ResumerMoves, Frame
<1>2. CASE ResumeRead(v)
  <2>1. \A w \in Visits : res'[w] = res[w] \/ res'[w].pc \notin ResumeOps
    BY <1>2 DEF ResumeRead, FinishRes, TasksOK, TaskType, BusyTask, Idle, Done,
                Task, ResumeOps
  <2>2. /\ \A s \in Sessions, c \in Posts : Creating(c, s)' => Creating(c, s)
        /\ \A s \in Sessions, w \in Visits : Resuming(w, s)' => Resuming(w, s)
    BY <1>2, <2>1 DEF ResumeRead, Creating, Resuming
  <2> QED
    BY <1>2, <2>2, Frame DEF ResumeRead, store, ghosts
<1>3. CASE ResumeCas(v)
  <2>1. res[v].s \in Sessions
    BY <1>3, BusyFields DEF ResumeCas, InFlight, TasksOK
  <2> PICK s \in Sessions : s = res[v].s
    BY <2>1
  <2> PICK from : from = res[v].seen.state
    OBVIOUS
  <2>2. CASE ~Hit(s, from, "Resuming")
    <3>1. UNCHANGED entry
      BY <1>3, <2>2 DEF ResumeCas, Cas, CasTransition, Hit, TypeOK, StoreOK
    <3> QED
      BY <1>1, <1>3, <2>2, <3>1 DEF ResumeCas, ghosts
  <2>3. CASE Hit(s, from, "Resuming")
    <3>1. entry[s].state \in Resumable
      BY <2>3 DEF Hit, CasHit, Edges, Resumable, States
    <3>2. entry' = [entry EXCEPT ![s] = CasTransition(@, from, "Resuming", NoHandle)]
      BY <1>3 DEF ResumeCas, Cas
    <3>3. /\ entry'[s].state = "Resuming"
          /\ \A t \in Sessions \ {s} : entry'[t] = entry[t]
      BY <2>3, <3>2 DEF CasTransition, Hit, TypeOK, StoreOK, Row
    <3>4. /\ res'[v].s = s
          /\ \A w \in Visits \ {v} : res'[w] = res[w]
          /\ UNCHANGED <<req, disturbed>>
      BY <1>3, <2>3 DEF ResumeCas, GotoRes, TasksOK, TaskType, BusyTask, Idle,
                        Done, Task, ghosts
    <3> SUFFICES ASSUME NEW t \in Sessions \ disturbed
                 PROVE  CreateExcludes(t)' /\ ResumeExcludes(t)'
      BY <3>4 DEF SoleOperator
    <3>5. CASE t = s
      <4>1. ~Operated(s)
        BY <3>1, <3>5, NobodyOperates DEF Resumable, Pending
      <4>2. \A c \in Posts : ~Creating(c, s)'
        BY <3>4, <4>1 DEF Operated, Creating
      <4>3. \A w \in Visits : Resuming(w, s)' => w = v
        BY <3>4, <4>1 DEF Operated, Resuming
      <4> QED
        BY <3>3, <3>5, <4>2, <4>3 DEF CreateExcludes, ResumeExcludes
    <3>6. CASE t # s
      <4>1. CreateExcludes(t) /\ ResumeExcludes(t)
        BY DEF SoleOperator
      <4>2. /\ \A c \in Posts : Creating(c, t)' => Creating(c, t)
            /\ \A w \in Visits : Resuming(w, t)' => Resuming(w, t)
        BY <3>4, <3>6 DEF Creating, Resuming
      <4> QED
        BY <3>3, <3>6, <4>1, <4>2 DEF CreateExcludes, ResumeExcludes
    <3> QED
      BY <3>5, <3>6
  <2> QED
    BY <2>2, <2>3
<1>4. CASE ResumeRestore(v)
  BY <1>1, <1>4 DEF ResumeRestore, ResumeOps, store, ghosts
<1>5. CASE ResumeOp(v)
  BY <1>1, <1>5 DEF ResumeOp, ResumeOps, store, ghosts
<1>6. CASE ResumeHealth(v)
  BY <1>1, <1>6 DEF ResumeHealth, ResumeOps, store, ghosts
<1>7. ASSUME NEW to, NEW h, res[v].pc \in ResumeOps,
             Cas(res[v].s, "Resuming", to, h), UNCHANGED <<req, disturbed>>,
             FinishRes(v) \/ GotoRes(v, "unmark")
      PROVE  SoleOperator'
  <2>1. /\ \A s \in Sessions, c \in Posts : Creating(c, s)' => Creating(c, s)
        /\ \A s \in Sessions, w \in Visits : Resuming(w, s)' => Resuming(w, s)
    BY <1>7, ResumerMoves DEF ResumeOps
  <2>2. ASSUME NEW s \in Sessions \ disturbed
        PROVE  entry'[s].state = entry[s].state \/ ~Operated(s)'
    <3>1. CASE s # res[v].s
      BY <1>7, <3>1 DEF Cas, TypeOK, StoreOK
    <3>2. CASE s = res[v].s
      <4>1. Resuming(v, s)
        BY <1>7, <3>2 DEF Resuming
      <4>2. /\ \A w \in Visits : Resuming(w, s) => w = v
            /\ \A c \in Posts : ~Creating(c, s)
        BY <4>1, OnlyOperator
      <4>3. ~Resuming(v, s)'
        BY <1>7 DEF FinishRes, GotoRes, Resuming, ResumeOps, TasksOK, TaskType,
                    BusyTask, Idle, Done, Task
      <4> QED
        BY <2>1, <4>2, <4>3 DEF Operated
    <3> QED
      BY <3>1, <3>2
  <2> QED
    BY <1>7, <2>1, <2>2, Frame
<1>8. CASE ResumeCommit(v)
  BY <1>7, <1>8 DEF ResumeCommit, ResumeOps, ghosts
<1>9. CASE ResumeUnmark(v)
  <2>1. \A s \in Sessions : entry'[s].state = entry[s].state
    BY <1>9 DEF ResumeUnmark, ClearArchived, TypeOK, StoreOK, Row
  <2>2. UNCHANGED <<req, disturbed>> /\ GotoRes(v, "rmfiles")
    BY <1>9 DEF ResumeUnmark, ghosts
  <2>3. /\ \A s \in Sessions, c \in Posts : Creating(c, s)' => Creating(c, s)
        /\ \A s \in Sessions, w \in Visits : Resuming(w, s)' => Resuming(w, s)
    BY <2>2, ResumerMoves DEF ResumeOps
  <2> QED
    BY <2>1, <2>2, <2>3, Frame
<1>10. CASE ResumeRmFiles(v)
  BY <1>1, <1>10 DEF ResumeRmFiles, store, ghosts
<1>11. CASE ResumeFail(v)
  BY <1>7, <1>11 DEF ResumeFail, ResumeOps, ghosts
<1> QED
  BY <1>2, <1>3, <1>4, <1>5, <1>6, <1>8, <1>9, <1>10, <1>11 DEF Resume

\* A DELETE that overrides an operation declares the session disturbed.
LEMMA DeleteExcludes ==
    ASSUME TypeOK, SoleOperator, NEW d \in Deletes, Delete(d)
    PROVE  SoleOperator'
<1> TasksOK /\ d \in Requests
  BY DEF TypeOK, Requests
<1>1. /\ \A s \in Sessions, c \in Posts : Creating(c, s)' => Creating(c, s)
      /\ \A s \in Sessions, v \in Visits : Resuming(v, s)' => Resuming(v, s)
  <2>1. UNCHANGED res
    BY DEF Delete, DeleteRead, DeleteCas, DeleteRetry, DeleteDestroy,
           DeleteRmFiles, DeleteRemove
  <2>2. \E t : req' = [req EXCEPT ![d] = t]
    BY DEF Delete, DeleteRead, DeleteCas, DeleteRetry, DeleteDestroy,
           DeleteRmFiles, DeleteRemove, Goto, Finish
  <2>3. \A c \in Posts : req'[c] = req[c]
    BY <2>2, RequestsAreDistinct DEF TasksOK, Requests
  <2> QED
    BY <2>1, <2>3, OthersMove
<1>2. CASE UNCHANGED <<entry, disturbed>>
  BY <1>1, <1>2, Frame
<1>3. ASSUME NEW s, NEW e, entry' = [entry EXCEPT ![s] = e], Override(s)
      PROVE  SoleOperator'
  <2>1. ASSUME NEW t \in Sessions \ disturbed'
        PROVE  entry'[t].state = entry[t].state \/ ~Operated(t)'
    <3>1. CASE t = s
      BY <1>1, <1>3, <3>1 DEF Override, Operated
    <3>2. CASE t # s
      BY <1>3, <3>2 DEF TypeOK, StoreOK
    <3> QED
      BY <3>1, <3>2
  <2>2. disturbed \subseteq disturbed'
    BY <1>3 DEF Override
  <2> QED
    BY <1>1, <2>1, <2>2, Frame
<1>4. CASE DeleteCas(d)
  <2>1. CASE Hit(req[d].s, req[d].seen.state, "Destroyed")
    BY <1>3, <1>4, <2>1 DEF DeleteCas, Cas
  <2>2. CASE ~Hit(req[d].s, req[d].seen.state, "Destroyed")
    <3>1. UNCHANGED <<entry, disturbed>>
      BY <1>4, <2>2 DEF DeleteCas, Cas, CasTransition, Hit, TypeOK, StoreOK
    <3> QED
      BY <1>2, <3>1
  <2> QED
    BY <2>1, <2>2
<1>5. CASE DeleteRemove(d)
  BY <1>3, <1>5 DEF DeleteRemove
<1> QED
  BY <1>2, <1>4, <1>5 DEF Delete, DeleteRead, DeleteRetry, DeleteDestroy,
                          DeleteRmFiles, store, ghosts

\* The sweeps and the reconciliation of a starting replica run no operation.
LEMMA SweepExcludes ==
    ASSUME TypeOK, SoleOperator, NEW p \in Procs, Sweep(p)
    PROVE  SoleOperator'
<1>1. UNCHANGED tasks
  BY DEF Sweep, SweepList, SweepClaim, SweepCas, SweepGet, SweepStop, DeepRead,
         DeepClaim, DeepExport, DeepMark, DeepDestroy, DeepRelease
<1>2. /\ \A s \in Sessions, c \in Posts : Creating(c, s)' => Creating(c, s)
      /\ \A s \in Sessions, v \in Visits : Resuming(v, s)' => Resuming(v, s)
  BY <1>1, OthersMove DEF tasks
<1>3. CASE SweepCas(p)
  <2>1. "Running" \notin Pending /\ UNCHANGED disturbed
    BY <1>3 DEF SweepCas, Pending, ghosts
  <2> QED
    BY <1>2, <1>3, <2>1, CasExcludes DEF SweepCas
<1>4. CASE DeepMark(p)
  <2>1. \A s \in Sessions : entry'[s].state = entry[s].state
    BY <1>4 DEF DeepMark, SetArchived, TypeOK, StoreOK, Row
  <2> QED
    BY <1>2, <1>4, <2>1, Frame DEF DeepMark, ghosts
<1>5. CASE UNCHANGED <<entry, disturbed>>
  BY <1>2, <1>5, Frame
<1> QED
  BY <1>3, <1>4, <1>5
     DEF Sweep, SweepList, SweepClaim, SweepGet, SweepStop, DeepRead, DeepClaim,
         DeepExport, DeepDestroy, DeepRelease, store, ghosts

LEMMA ReconcileExcludes ==
    ASSUME TypeOK, SoleOperator, NEW p \in Procs, Boot(p)
    PROVE  SoleOperator'
<1>1. UNCHANGED tasks
  BY DEF Boot, BootStart, BootClaim, BootProbe, BootReread, BootForce,
         BootRelease, BootDone
<1>2. /\ \A s \in Sessions, c \in Posts : Creating(c, s)' => Creating(c, s)
      /\ \A s \in Sessions, v \in Visits : Resuming(v, s)' => Resuming(v, s)
  BY <1>1, OthersMove DEF tasks
<1>3. CASE BootForce(p)
  <2>1. disturbed \subseteq disturbed'
    BY <1>3 DEF BootForce
  <2>2. ASSUME NEW s \in Sessions \ disturbed'
        PROVE  entry'[s].state = entry[s].state \/ ~Operated(s)'
    <3>1. CASE s = boot[p].s
      BY <1>2, <1>3, <3>1 DEF BootForce, Operated
    <3>2. CASE s # boot[p].s
      BY <1>3, <3>2 DEF BootForce, TypeOK, StoreOK
    <3> QED
      BY <3>1, <3>2
  <2> QED
    BY <1>2, <2>1, <2>2, Frame
<1>4. CASE UNCHANGED <<entry, disturbed>>
  BY <1>2, <1>4, Frame
<1> QED
  BY <1>3, <1>4 DEF Boot, BootStart, BootClaim, BootProbe, BootReread,
                    BootRelease, BootDone, store, ghosts

\* Crashes, shutdowns and clients that hang up only end operations.
LEMMA EnvironmentExcludes ==
    ASSUME TypeOK, SoleOperator, Environment
    PROVE  SoleOperator'
<1> TasksOK
  BY DEF TypeOK
<1>1. ASSUME \A c \in Posts : req'[c] = req[c] \/ req'[c] = Done,
             \A v \in Visits : res'[v] = res[v] \/ res'[v] = Done,
             UNCHANGED <<entry, disturbed>>
      PROVE  SoleOperator'
  <2>1. /\ \A s \in Sessions, c \in Posts : Creating(c, s)' => Creating(c, s)
        /\ \A s \in Sessions, v \in Visits : Resuming(v, s)' => Resuming(v, s)
    BY <1>1 DEF Creating, CreateOps, Resuming, ResumeOps, Done, Task
  <2> QED
    BY <1>1, <2>1, Frame
<1>2. ASSUME NEW p \in Procs, Crash(p) \/ Shutdown(p)
      PROVE  SoleOperator'
  <2>1. Halt(p) /\ UNCHANGED <<entry, disturbed>>
    BY <1>2 DEF Crash, Shutdown, store, ghosts
  <2> QED
    BY <1>1, <2>1 DEF Halt, Requests
<1>3. ASSUME NEW s \in Sessions, Expire(s) \/ ContainerDies(s) \/ EngineWrites(s)
      PROVE  SoleOperator'
  BY <1>1, <1>3 DEF Expire, ContainerDies, EngineWrites, store, tasks, ghosts
<1>4. ASSUME NEW c \in Requests, HangUp(c)
      PROVE  SoleOperator'
  <2>1. \A d \in Posts : req'[d] = req[d] \/ req'[d] = Done
    BY <1>4 DEF HangUp, Finish, TasksOK, Requests
  <2> QED
    BY <1>1, <1>4, <2>1 DEF HangUp, store, ghosts
<1>5. ASSUME NEW v \in Visits, VisitRenew(v)
      PROVE  SoleOperator'
  BY <1>5, VisitExcludes
<1>6. ASSUME NEW p \in Procs, DeepRenew(p)
      PROVE  SoleOperator'
  BY <1>1, <1>6 DEF DeepRenew, tasks, ghosts
<1> QED
  BY <1>2, <1>3, <1>4, <1>5, <1>6 DEF Environment

LEMMA InitExcludes == Init => SoleOperator
BY DEF Init, SoleOperator, CreateExcludes, ResumeExcludes, Creating, CreateOps,
       Resuming, ResumeOps, Idle, Task, Requests

LEMMA NextExcludes == TypeOK /\ SoleOperator /\ [Next]_vars => SoleOperator'
<1> SUFFICES ASSUME TypeOK, SoleOperator, [Next]_vars PROVE SoleOperator'
  OBVIOUS
<1>1. CASE Next
  BY <1>1, PostExcludes, VisitExcludes, ResumeIsExclusive, DeleteExcludes,
     SweepExcludes, ReconcileExcludes, EnvironmentExcludes DEF Next
<1>2. CASE UNCHANGED vars
  BY <1>2, OthersMove, Frame DEF vars, store, tasks, ghosts
<1> QED
  BY <1>1, <1>2

(***************************************************************************)
(* For any number of replicas and requests, with or without leases: while  *)
(* a create operates the container of a session its row is Creating, while *)
(* a resume does it is Resuming, and no other task does (SoleOperator).    *)
(***************************************************************************)
THEOREM Exclusion == Spec => []SoleOperator
<1>1. Init => TypeOK /\ SoleOperator
  BY InitType, InitExcludes
<1>2. TypeOK /\ SoleOperator /\ [Next]_vars => (TypeOK /\ SoleOperator)'
  BY NextType, NextExcludes
<1> QED
  BY <1>1, <1>2, PTL DEF Spec

=============================================================================
