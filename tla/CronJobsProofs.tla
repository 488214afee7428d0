--------------------------- MODULE CronJobsProofs ---------------------------
(***************************************************************************)
(* Proofs about CronJobs, for any jobs, schedules, callers, files and      *)
(* bounds.                                                                 *)
(***************************************************************************)
EXTENDS CronJobs, WellFoundedInduction, TLAPS

(***************************************************************************)
(* Schedules.                                                              *)
(***************************************************************************)
LEMMA EarliestIn ==
    ASSUME NEW S \in SUBSET Nat, S # {}
    PROVE  Earliest(S) \in S
<1>1. PICK n \in S : \A m \in S : ~ (<<m, n>> \in OpToRel(<, Nat))
    BY NatLessThanWellFounded, WFMin
<1>2. ASSUME NEW m \in S PROVE n <= m
  <2>1. m \in Nat /\ n \in Nat /\ (m < n => <<m, n>> \in OpToRel(<, Nat))
      BY DEF OpToRel
  <2>2. ~ (m < n)
      BY <1>1, <2>1, Zenon
  <2>3. m \in Nat /\ n \in Nat
      OBVIOUS
  <2> QED  BY <2>2, <2>3
<1> QED  BY <1>2 DEF Earliest

\* next_fire_after names an instant strictly after t, if any.
LEMMA NextIsLater ==
    ASSUME NEW j \in Jobs, NEW t \in Nat
    PROVE  /\ NextFireAfter(j, t) \in Instant
           /\ NextFireAfter(j, t) = Never \/ t < NextFireAfter(j, t)
<1> DEFINE later == {i \in Fires[j] : i > t}
<1>1. later \subseteq 1..Horizon /\ later \subseteq Nat /\ Horizon \in Nat
    BY CronAssumption
<1>2. CASE later = {}
    BY <1>1, <1>2 DEF NextFireAfter, Never, Instant
<1>3. CASE later # {}
  <2>1. Earliest(later) \in later
      BY <1>1, <1>3, EarliestIn
  <2> QED  BY <1>1, <1>3, <2>1 DEF NextFireAfter, Instant
<1> QED  BY <1>2, <1>3

LEMMA NoJobsType == NoJob \in Row /\ NoJobs \in [Jobs -> Row] /\ Never \in Instant /\ Instant \subseteq Nat
BY CronAssumption DEF NoJob, NoJobs, Row, Never, Instant

LEMMA ArmedType ==
    ASSUME NEW next \in Instant, NEW last \in Instant
    PROVE  /\ Armed(next, last) \in Row
           /\ Armed(next, last).known /\ Armed(next, last).next = next /\ Armed(next, last).last = last
BY DEF Armed, Row

(***************************************************************************)
(* Types.                                                                  *)
(***************************************************************************)
TaskType == [op : Ops, step : Steps, job : Jobs, at : Instant, win : Instant,
             snap : [Jobs -> Row], file : Files \cup {NoFile},
             listed : [Jobs -> Row], todo : SUBSET Jobs]

LEMMA IdleType == IdleTask \in TaskType
<1>1. (CHOOSE j \in Jobs : TRUE) \in Jobs
    BY CronAssumption
<1> QED  BY <1>1, NoJobsType DEF IdleTask, TaskType, Ops, Steps

\* What a panic leaves of the task of p.
Panicked(p) == IF p = Ticker THEN [IdleTask EXCEPT !.step = "dead"] ELSE IdleTask

LEMMA PanicType ==
    ASSUME NEW p \in Procs
    PROVE  /\ Panicked(p) \in TaskType
           /\ Panicked(p) = (IF p = Ticker THEN [IdleTask EXCEPT !.step = "dead"] ELSE IdleTask)
           /\ Panicked(p).op = "none" /\ Panicked(p).step \in {"idle", "dead"}
           /\ Panicked(p).todo = {} /\ Panicked(p).win = Never /\ Panicked(p).at = Never
           /\ Panicked(p).snap = NoJobs /\ Panicked(p).listed = NoJobs /\ Panicked(p).file = NoFile
<1>1. [IdleTask EXCEPT !.step = "dead"] \in TaskType
    BY IdleType DEF TaskType, Steps
<1> QED  BY <1>1, IdleType DEF Panicked, IdleTask

LEMMA ContinueType == ASSUME NEW t \in TaskType PROVE Continue(t) \in TaskType
BY IdleType, NoJobsType DEF Continue, TaskType, Steps

\* What the steps write into task, mem and the files keeps the types.
StateType ==
    /\ now \in Instant
    /\ mem \in [Jobs -> Row] /\ content \in [Files -> [Jobs -> Row]]
    /\ main \in Files \cup {NoFile} /\ tmp \in Files \cup {NoFile}
    /\ task \in [Procs -> TaskType]
    /\ taken \in [Jobs -> SUBSET Instant]

LEMMA ChangeType ==
    ASSUME StateType, NEW p \in Procs, NEW j \in Jobs, NEW row \in Row, NEW win \in Instant,
           Change(p, j, row, win)
    PROVE  /\ mem' \in [Jobs -> Row] /\ task' \in [Procs -> TaskType]
           /\ UNCHANGED <<now, content, main, tmp>>
<1>1. mem' \in [Jobs -> Row]
    BY DEF Change, StateType
<1> DEFINE t == [task[p] EXCEPT !.step = "snap", !.job = j, !.win = win, !.todo = @ \ {j}]
<1>2. t \in TaskType
  <2>1. task[p] \in TaskType /\ task[p].todo \ {j} \in SUBSET Jobs
      BY DEF StateType, TaskType
  <2>2. [[task[p] EXCEPT !.step = "snap"] EXCEPT !.job = j] \in TaskType
      BY <2>1 DEF TaskType, Steps
  <2>3. \A u \in TaskType : [[u EXCEPT !.win = win] EXCEPT !.todo = task[p].todo \ {j}] \in TaskType
      BY <2>1 DEF TaskType
  <2>4. t = [[[[task[p] EXCEPT !.step = "snap"] EXCEPT !.job = j] EXCEPT !.win = win]
                  EXCEPT !.todo = task[p].todo \ {j}]
      BY <2>1 DEF TaskType
  <2> QED  BY <2>2, <2>3, <2>4
<1>3. task' \in [Procs -> TaskType]
    BY <1>2 DEF Change, StateType
<1> QED  BY <1>1, <1>3 DEF Change

LEMMA MissType ==
    ASSUME StateType, NEW p \in Procs, NEW j \in Jobs, Miss(p, j)
    PROVE  task' \in [Procs -> TaskType] /\ UNCHANGED <<now, store>>
<1>1. [task[p] EXCEPT !.todo = @ \ {j}] \in TaskType
    BY DEF StateType, TaskType
<1>2. Continue([task[p] EXCEPT !.todo = @ \ {j}]) \in TaskType
    BY <1>1, ContinueType
<1>3. task' \in [Procs -> TaskType]
    BY <1>2 DEF Miss, StateType
<1> QED  BY <1>3 DEF Miss

LEMMA TypeInit == Init => StateType
<1> SUFFICES ASSUME Init PROVE StateType
    OBVIOUS
<1>0. ASSUME NEW unarmed \in SUBSET Stored PROVE Before(unarmed) \in [Jobs -> Row]
  <2>1. \A j \in Jobs : NextFireAfter(j, 0) \in Instant
      BY NextIsLater
  <2> QED  BY <2>1, ArmedType, NoJobsType DEF Before
<1>1. content \in [Files -> [Jobs -> Row]]
    BY <1>0, NoJobsType DEF Init
<1>2. main \in Files \cup {NoFile}
    BY CronAssumption DEF Init
<1> QED  BY <1>1, <1>2, IdleType, NoJobsType DEF Init, StateType, Never, Instant

LEMMA TypeStep == StateType /\ [Next]_vars => StateType'
<1> SUFFICES ASSUME StateType, [Next]_vars PROVE StateType'
    OBVIOUS
<1>0. now \in Nat /\ \A p \in Procs : task[p] \in TaskType
    BY NoJobsType DEF StateType
<1>1. CASE UNCHANGED vars
    BY <1>1 DEF vars, store, history, StateType
<1>2. CASE Advance
    BY <1>2, CronAssumption DEF Advance, store, history, StateType, Instant
<1>3. CASE Crash
    BY <1>3, IdleType, NoJobsType DEF Crash, StateType
<1>4. CASE Restart
  <2>1. Loaded \in [Jobs -> Row]
      BY NoJobsType DEF Loaded, StateType
  <2>2. [IdleTask EXCEPT !.op = "reconcile", !.step = "list"] \in TaskType
      BY IdleType DEF TaskType, Ops, Steps
  <2> QED  BY <1>4, <2>1, <2>2 DEF Restart, history, StateType
<1>5. ASSUME NEW p \in Procs, Reconcile(p) \/ Tick(p) PROVE StateType'
  <2>0. Known \subseteq Jobs
      BY DEF Known
  <2>1. CASE Reconcile(p)
    <3>1. [task[p] EXCEPT !.at = now, !.listed = mem, !.todo = Known] \in TaskType
        BY <1>0, <2>0 DEF TaskType, StateType
    <3>2. Continue([task[p] EXCEPT !.at = now, !.listed = mem, !.todo = Known]) \in TaskType
        BY <3>1, ContinueType
    <3> QED  BY <2>1, <3>2 DEF Reconcile, store, history, StateType
  <2>2. CASE Tick(p)
    <3>1. [task[p] EXCEPT !.op = "tick", !.at = now, !.todo = Known] \in TaskType
        BY <1>0, <2>0 DEF TaskType, StateType, Ops
    <3>2. Continue([task[p] EXCEPT !.op = "tick", !.at = now, !.todo = Known]) \in TaskType
        BY <3>1, ContinueType
    <3> QED  BY <2>2, <3>2 DEF Tick, store, history, StateType
  <2> QED  BY <1>5, <2>1, <2>2
<1>6. ASSUME NEW p \in Procs, NEW j \in Jobs, NEW row \in Row, NEW win \in Instant,
             Change(p, j, row, win), taken' \in [Jobs -> SUBSET Instant]
      PROVE  StateType'
    BY <1>6, ChangeType DEF StateType
<1>7. ASSUME NEW p \in Procs, NEW j \in Jobs, Miss(p, j) PROVE StateType'
    BY <1>7, MissType DEF Miss, store, history, StateType
<1>8. ASSUME NEW p \in Procs, NEW j \in Jobs, CasMarkFired(p, j) PROVE StateType'
  <2>1. task[p].at \in Instant /\ task[p].at \in Nat /\ mem[j].next \in Instant
      BY <1>0, NoJobsType DEF TaskType, StateType, Row
  <2>2. Fired(j, task[p].at) \in Row
      BY <2>1, NextIsLater, ArmedType DEF Fired
  <2>3. CASE Due(j, task[p].at)
    <3>1. taken' \in [Jobs -> SUBSET Instant]
        BY <1>8, <2>1, <2>3 DEF CasMarkFired, StateType
    <3> QED  BY <1>6, <1>8, <2>1, <2>2, <2>3, <3>1 DEF CasMarkFired
  <2> QED  BY <1>7, <1>8, <2>3 DEF CasMarkFired
<1>9. ASSUME NEW p \in Procs, ReconcileJob(p) PROVE StateType'
  <2>1. PICK j \in task[p].todo :
            \/ /\ Change(p, j, Armed(NextFireAfter(j, task[p].at), task[p].listed[j].last), Never)
               /\ UNCHANGED taken
            \/ Miss(p, j)
      BY <1>9 DEF ReconcileJob
  <2>2. /\ j \in Jobs /\ task[p].at \in Nat /\ task[p].listed[j].last \in Instant
        /\ taken \in [Jobs -> SUBSET Instant]
      BY <1>0, <2>1, NoJobsType DEF TaskType, Row, StateType
  <2>3. Armed(NextFireAfter(j, task[p].at), task[p].listed[j].last) \in Row
      BY <2>2, NextIsLater, ArmedType
  <2> QED  BY <1>6, <1>7, <2>1, <2>2, <2>3, NoJobsType
<1>10. ASSUME NEW p \in Procs, TickJob(p) PROVE StateType'
  <2>1. PICK j \in task[p].todo : CasMarkFired(p, j)
      BY <1>10 DEF TickJob
  <2>2. j \in Jobs
      BY <1>0, <2>1 DEF TaskType
  <2> QED  BY <1>8, <2>1, <2>2
<1>11. ASSUME NEW p \in Procs, Finish(p) PROVE task' \in [Procs -> TaskType]
    BY <1>0, <1>11, ContinueType DEF Finish, StateType
<1>12. ASSUME NEW p \in Procs, NEW step \in Steps, GoTo(p, step) PROVE task' \in [Procs -> TaskType]
    BY <1>0, <1>12 DEF GoTo, StateType, TaskType
<1>13. ASSUME NEW p \in Procs, Snapshot(p) \/ OpenTmp(p) \/ WriteTmp(p) PROVE StateType'
  <2>1. CASE Snapshot(p)
    <3>1. [task[p] EXCEPT !.snap = mem, !.step = "open"] \in TaskType
        BY <1>0 DEF TaskType, StateType, Steps
    <3> QED  BY <2>1, <3>1 DEF Snapshot, store, history, StateType
  <2>2. CASE OpenTmp(p)
    <3>1. PICK f \in Files : /\ tmp' = f /\ content' = [content EXCEPT ![f] = NoJobs]
                             /\ task' = [task EXCEPT ![p].file = f, ![p].step = "write"]
        BY <2>2 DEF OpenTmp, StateType
    <3>2. [task[p] EXCEPT !.file = f, !.step = "write"] \in TaskType
        BY <1>0 DEF TaskType, Steps
    <3>3. task' \in [Procs -> TaskType]
        BY <3>1, <3>2 DEF StateType
    <3> QED  BY <2>2, <3>1, <3>3, NoJobsType DEF OpenTmp, history, StateType
  <2>3. CASE WriteTmp(p)
    <3>1. task' \in [Procs -> TaskType]
        BY <1>12, <2>3 DEF WriteTmp, Steps
    <3>2. task[p].snap \in [Jobs -> Row]
        BY <1>0 DEF TaskType
    <3>3. content' \in [Files -> [Jobs -> Row]]
        BY <2>3, <3>2, NoJobsType DEF WriteTmp, StateType
    <3> QED  BY <2>3, <3>1, <3>3 DEF WriteTmp, history, StateType
  <2> QED  BY <1>13, <2>1, <2>2, <2>3
<1>14. ASSUME NEW p \in Procs, WriteFails(p) \/ RenameTmp(p) \/ Deliver(p) \/ TurnEnds(p) \/ TurnPanics(p)
       PROVE  StateType'
  <2>1. task' \in [Procs -> TaskType]
    <3>1. CASE TurnPanics(p)
        BY <3>1, PanicType DEF TurnPanics, StateType
    <3> QED  BY <1>11, <1>12, <1>14, <3>1 DEF WriteFails, RenameTmp, Deliver, TurnEnds, Steps
  <2> QED  BY <1>14, <2>1 DEF WriteFails, RenameTmp, Deliver, TurnEnds, TurnPanics, store, history, StateType
<1>15. ASSUME NEW c \in Callers, Serve(c) PROVE StateType'
  <2>0. c \in Procs /\ task[c].job \in Jobs /\ task[c].at \in Instant /\ task[c].at \in Nat
      BY <1>0, NoJobsType DEF Procs, TaskType
  <2>1. Fired(task[c].job, task[c].at) \in Row
      BY <2>0, NextIsLater, ArmedType DEF Fired
  <2>2. Armed(NextFireAfter(task[c].job, task[c].at), Never) \in Row
      BY <2>0, NextIsLater, ArmedType, NoJobsType
  <2>3. taken \in [Jobs -> SUBSET Instant]
      BY DEF StateType
  <2>4. CASE TriggerJob(c)
      BY <1>8, <2>0, <2>4 DEF TriggerJob
  <2>5. CASE ForceJob(c)
      BY <1>6, <1>7, <2>0, <2>1, <2>3, <2>5, NoJobsType DEF ForceJob
  <2>6. CASE AddJob(c)
      BY <1>6, <2>0, <2>2, <2>3, <2>6, NoJobsType DEF AddJob
  <2>7. CASE RemoveJob(c)
      BY <1>6, <1>7, <2>0, <2>3, <2>7, NoJobsType DEF RemoveJob
  <2> QED  BY <1>15, <2>4, <2>5, <2>6, <2>7 DEF Serve
<1>16. ASSUME NEW c \in Callers, HangUp(c) PROVE StateType'
    BY <1>16, IdleType DEF HangUp, store, history, StateType
<1>17. ASSUME NEW c \in Callers, NEW op \in {"trigger", "force", "add", "remove"}, NEW j \in Jobs, Call(c, op, j)
       PROVE  StateType'
  <2>1. [IdleTask EXCEPT !.op = op, !.step = "lock", !.job = j, !.at = now] \in TaskType
    <3>1. [[IdleTask EXCEPT !.op = op] EXCEPT !.step = "lock"] \in TaskType
        BY IdleType DEF TaskType, Ops, Steps
    <3>2. \A t \in TaskType : [[t EXCEPT !.job = j] EXCEPT !.at = now] \in TaskType
        BY DEF TaskType, StateType
    <3> QED  BY <3>1, <3>2
  <2> QED  BY <1>17, <2>1 DEF Call, store, history, StateType
<1>18. ASSUME NEW p \in Procs, Work(p) PROVE StateType'
    BY <1>5, <1>9, <1>10, <1>13, <1>14, <1>18 DEF Work
<1> QED  BY <1>1, <1>2, <1>3, <1>4, <1>14, <1>15, <1>16, <1>17, <1>18 DEF Next

LEMMA TypeAlways == Spec => []StateType
BY TypeInit, TypeStep, PTL DEF Spec

(***************************************************************************)
(* The jobs that are known, and the ones whose add waits for the lock.     *)
(***************************************************************************)
Adding(p, j) == task[p].op = "add" /\ task[p].step = "lock" /\ task[p].job = j

KnownInv ==
    /\ \A j \in Jobs : mem[j].known \/ taken[j] # {} => j \in added
    /\ \A f \in Files, j \in Jobs : content[f][j].known => j \in added
    /\ \A p \in Procs, j \in Jobs : task[p].snap[j].known => j \in added
    /\ \A p \in Procs : task[p].todo \subseteq added

\* Ids are given out once: a job that is being added is nowhere yet.
AddInv ==
    \A c \in Procs, j \in Jobs : Adding(c, j) =>
        /\ j \in added /\ ~mem[j].known /\ taken[j] = {}
        /\ \A p \in Procs : j \notin task[p].todo /\ (p # c => ~Adding(p, j))

\* The CAS is called only when the reconciliation of this life is over.
LifeInv ==
    /\ ~up => (\A p \in Procs : task[p] = IdleTask) /\ \A j \in Jobs : taken[j] = {}
    /\ \A p \in Procs : task[p].op \in {"tick", "reconcile"} => p = Ticker
    /\ task[Ticker].op = "reconcile" =>
          (\A p \in Procs : task[p].op # "trigger") /\ \A j \in Jobs : taken[j] = {}

\* A job waits for an instant after all those that were handed out; while it
\* is known, none of them is later than its last fire.
ArmInv(j) ==
    /\ mem[j].next = Never \/ \A d \in taken[j] : d < mem[j].next
    /\ mem[j].known => \A d \in taken[j] : d <= mem[j].last

JobsInv == KnownInv /\ AddInv /\ LifeInv /\ \A j \in Jobs \ rewound : ArmInv(j)

\* A step of p that changes no row.
LEMMA QuietStep ==
    ASSUME StateType, JobsInv, NEW p \in Procs, NEW u \in TaskType,
           task' = [task EXCEPT ![p] = u], up, UNCHANGED <<up, mem, taken, rewound, added>>,
           u.op \in {task[p].op, "none"} \/ (u.op = "tick" /\ p = Ticker),
           u.op # "add" \/ u.step # "lock",
           u.todo \subseteq task[p].todo \/ u.todo \subseteq Known,
           \A j \in Jobs : u.snap[j].known => j \in added,
           \A f \in Files, j \in Jobs : content'[f][j].known => j \in added
    PROVE  JobsInv'
<1>1. task'[p] = u /\ \A q \in Procs \ {p} : task'[q] = task[q]
    BY DEF StateType
<1>2. u.todo \subseteq added
    BY DEF JobsInv, KnownInv, Known
<1>3. KnownInv'
    BY <1>1, <1>2 DEF JobsInv, KnownInv
<1>4. AddInv'
  <2>1. \A j \in Jobs : ~Adding(p, j)'
      BY <1>1 DEF Adding
  <2>2. \A q \in Procs \ {p}, j \in Jobs : Adding(q, j)' <=> Adding(q, j)
      BY <1>1 DEF Adding
  <2>3. ASSUME NEW c \in Procs \ {p}, NEW j \in Jobs, Adding(c, j)
        PROVE  /\ j \in added /\ ~mem[j].known /\ taken[j] = {}
               /\ \A q \in Procs : j \notin task[q].todo /\ (q # c => ~Adding(q, j))
      BY <2>3 DEF JobsInv, AddInv
  <2>4. ASSUME NEW c \in Procs \ {p}, NEW j \in Jobs, Adding(c, j), NEW q \in Procs
        PROVE  j \notin task'[q].todo
      BY <1>1, <2>3, <2>4 DEF Known
  <2> QED  BY <2>1, <2>2, <2>3, <2>4 DEF AddInv
<1>5. LifeInv'
    BY <1>1 DEF JobsInv, LifeInv
<1> QED  BY <1>3, <1>4, <1>5 DEF JobsInv, ArmInv

\* A step of p that writes the row of j: one of the operations that find it
\* known, or the add of p.
LEMMA RowStep ==
    ASSUME StateType, JobsInv, up, NEW p \in Procs, NEW j \in Jobs, NEW row \in Row, NEW win \in Instant,
           Change(p, j, row, win), j \in added,
           \A c \in Procs \ {p} : ~Adding(c, j),
           taken' \in [Jobs -> SUBSET Instant],
           \A i \in Jobs \ {j} : taken'[i] = taken[i],
           taken'[j] = taken[j] \/ task[Ticker].op # "reconcile",
           rewound \subseteq rewound', j \notin rewound' => ArmInv(j)'
    PROVE  JobsInv'
<1> DEFINE u == [task[p] EXCEPT !.step = "snap", !.job = j, !.win = win, !.todo = @ \ {j}]
<1>1. task' \in [Procs -> TaskType] /\ mem' \in [Jobs -> Row] /\ UNCHANGED <<content, up, added>>
    BY ChangeType DEF Change
<1>2. /\ task'[p].step = "snap" /\ task'[p].op = task[p].op /\ task'[p].todo = task[p].todo \ {j}
      /\ task'[p].snap = task[p].snap
      /\ \A q \in Procs \ {p} : task'[q] = task[q]
    BY DEF StateType, TaskType, Change
<1>3. mem'[j] = row /\ \A i \in Jobs \ {j} : mem'[i] = mem[i]
    BY DEF Change, StateType
<1>4. KnownInv'
    BY <1>1, <1>2, <1>3 DEF JobsInv, KnownInv
<1>5. AddInv'
  <2>1. \A i \in Jobs : ~Adding(p, i)'
      BY <1>2 DEF Adding
  <2>2. \A q \in Procs \ {p}, i \in Jobs : Adding(q, i)' <=> Adding(q, i)
      BY <1>2 DEF Adding
  <2>3. ASSUME NEW c \in Procs \ {p}, NEW i \in Jobs, Adding(c, i)
        PROVE  /\ i # j /\ i \in added /\ ~mem[i].known /\ taken[i] = {}
               /\ \A q \in Procs : i \notin task[q].todo /\ (q # c => ~Adding(q, i))
      BY <2>3 DEF JobsInv, AddInv
  <2>4. ASSUME NEW c \in Procs \ {p}, NEW i \in Jobs, Adding(c, i)
        PROVE  ~mem'[i].known /\ taken'[i] = {} /\ \A q \in Procs : i \notin task'[q].todo
      BY <1>2, <1>3, <2>3, <2>4
  <2> QED  BY <1>1, <2>1, <2>2, <2>3, <2>4 DEF AddInv
<1>6. LifeInv'
    BY <1>1, <1>2 DEF JobsInv, LifeInv, Procs
<1>7. ASSUME NEW i \in Jobs \ {j}, i \notin rewound' PROVE ArmInv(i)'
    BY <1>3, <1>7 DEF JobsInv, ArmInv
<1> QED  BY <1>4, <1>5, <1>6, <1>7 DEF JobsInv

\* What Continue makes of a task.
LEMMA ContinueIs ==
    ASSUME NEW t \in TaskType
    PROVE  /\ Continue(t).op \in {t.op, "none"}
           /\ Continue(t).op # "add" \/ Continue(t).step # "lock"
           /\ Continue(t).todo \subseteq t.todo
           /\ \A j \in Jobs : ~Continue(t).snap[j].known
           /\ Continue(t) \in TaskType
<1>1. /\ IdleTask.op = "none" /\ IdleTask.todo = {} /\ IdleTask.snap = NoJobs
      /\ IdleTask.step = "idle"
    BY DEF IdleTask
<1>2. \A j \in Jobs : ~NoJobs[j].known
    BY DEF NoJobs, NoJob
<1> DEFINE u == [t EXCEPT !.step = "lock", !.win = Never, !.snap = NoJobs, !.file = NoFile]
<1>3. u.op = t.op /\ u.todo = t.todo /\ u.snap = NoJobs
    BY DEF TaskType
<1> HIDE DEF u
<1>4. (Continue(t) = u /\ t.op \in {"reconcile", "tick"}) \/ Continue(t) = IdleTask
    BY DEF Continue, u
<1> QED  BY <1>1, <1>2, <1>3, <1>4, ContinueType

LEMMA FinishStep ==
    ASSUME StateType, JobsInv, up, NEW p \in Procs, NEW t \in TaskType,
           t.op = task[p].op \/ (t.op = "tick" /\ p = Ticker),
           t.todo \subseteq task[p].todo \/ t.todo \subseteq Known,
           task' = [task EXCEPT ![p] = Continue(t)],
           UNCHANGED <<up, mem, content, taken, rewound, added>>
    PROVE  JobsInv'
<1> DEFINE u == Continue(t)
<1>1. /\ u.op \in {t.op, "none"} /\ (u.op # "add" \/ u.step # "lock")
      /\ u.todo \subseteq t.todo /\ u \in TaskType /\ \A j \in Jobs : ~u.snap[j].known
    BY ContinueIs
<1>2. task' = [task EXCEPT ![p] = u]
    OBVIOUS
<1> HIDE DEF u
<1>3. \A f \in Files, j \in Jobs : content'[f][j].known => j \in added
    BY DEF JobsInv, KnownInv
<1>4. u.op \in {task[p].op, "none"} \/ (u.op = "tick" /\ p = Ticker)
    BY <1>1
<1>5. u.todo \subseteq task[p].todo \/ u.todo \subseteq Known
    BY <1>1
<1> QED  BY <1>1, <1>2, <1>3, <1>4, <1>5, QuietStep

\* The row of a job that fires now, and was not fired by a later clock.
LEMMA FiredArms ==
    ASSUME StateType, NEW j \in Jobs, NEW t \in Nat, mem' \in [Jobs -> Row],
           mem'[j] = Fired(j, t), \A d \in taken'[j] : d <= t, t \in Instant,
           taken' \in [Jobs -> SUBSET Instant]
    PROVE  ArmInv(j)'
<1>1. mem'[j].next = NextFireAfter(j, t) /\ mem'[j].last = t
  <2>1. NextFireAfter(j, t) \in Instant
      BY NextIsLater
  <2> QED  BY <2>1 DEF Fired, Armed
<1>2. /\ NextFireAfter(j, t) \in Nat /\ (NextFireAfter(j, t) = Never \/ t < NextFireAfter(j, t))
      /\ \A d \in taken'[j] : d \in Nat
    BY NextIsLater, NoJobsType
<1> QED  BY <1>1, <1>2 DEF ArmInv

LEMMA JobsInit == Init => JobsInv
<1> SUFFICES ASSUME Init PROVE JobsInv
    OBVIOUS
<1>1. /\ \A j \in Jobs : mem[j] = NoJob /\ taken[j] = {}
      /\ \A p \in Procs : task[p] = IdleTask
      /\ ~up /\ added = Stored
    BY DEF Init, NoJobs
<1>2. IdleTask.op = "none" /\ IdleTask.todo = {} /\ IdleTask.snap = NoJobs
    BY DEF IdleTask
<1>3. \A j \in Jobs : ~NoJobs[j].known /\ ~NoJob.known
    BY DEF NoJobs, NoJob
<1>4. ASSUME NEW f \in Files, NEW j \in Jobs, content[f][j].known PROVE j \in Stored
  <2>1. content[f] = NoJobs \/ \E unarmed \in SUBSET Stored : content[f] = Before(unarmed)
      BY DEF Init
  <2> QED  BY <1>3, <1>4, <2>1 DEF Before
<1>5. KnownInv
    BY <1>1, <1>2, <1>3, <1>4 DEF KnownInv
<1>6. AddInv
    BY <1>1, <1>2 DEF AddInv, Adding
<1>7. LifeInv
    BY <1>1, <1>2 DEF LifeInv, Procs
<1>8. \A j \in Jobs : ArmInv(j)
    BY <1>1 DEF ArmInv
<1> QED  BY <1>5, <1>6, <1>7, <1>8 DEF JobsInv

\* cas_mark_fired hands out the instant the job waits for, and re-arms it.
LEMMA CasStep ==
    ASSUME StateType, JobsInv, up, NEW p \in Procs, NEW j \in Jobs, CasMarkFired(p, j),
           task[Ticker].op # "reconcile"
    PROVE  JobsInv'
<1>0. task[p] \in TaskType /\ task[p].at \in Instant /\ task[p].at \in Nat
      /\ mem[j] \in Row /\ mem[j].next \in Instant /\ mem[j].next \in Nat
    BY NoJobsType DEF StateType, TaskType, Row
<1>1. CASE Due(j, task[p].at)
  <2>1. /\ Change(p, j, Fired(j, task[p].at), mem[j].next)
        /\ taken' = [taken EXCEPT ![j] = @ \cup {mem[j].next}] /\ rewound' = rewound
      BY <1>1 DEF CasMarkFired
  <2>2. Fired(j, task[p].at) \in Row
      BY <1>0, NextIsLater, ArmedType DEF Fired
  <2>3. /\ taken' \in [Jobs -> SUBSET Instant] /\ taken'[j] = taken[j] \cup {mem[j].next}
        /\ \A i \in Jobs \ {j} : taken'[i] = taken[i]
      BY <1>0, <2>1 DEF StateType
  <2>4. mem[j].known /\ mem[j].next # Never /\ mem[j].next <= task[p].at
      BY <1>1 DEF Due
  <2>5. j \in added /\ \A c \in Procs \ {p} : ~Adding(c, j)
      BY <2>4 DEF JobsInv, KnownInv, AddInv
  <2>6. ASSUME j \notin rewound' PROVE ArmInv(j)'
    <3>1. \A d \in taken[j] : d < mem[j].next /\ d \in Nat
        BY <2>1, <2>4, <2>6, NoJobsType DEF JobsInv, ArmInv, StateType
    <3>2. \A d \in taken'[j] : d <= task[p].at
        BY <1>0, <2>3, <2>4, <3>1
    <3>3. mem' \in [Jobs -> Row] /\ mem'[j] = Fired(j, task[p].at)
        BY <2>1, <2>2 DEF Change, StateType
    <3> QED  BY <1>0, <2>3, <3>2, <3>3, FiredArms
  <2> QED  BY <1>0, <2>1, <2>2, <2>3, <2>5, <2>6, RowStep
<1>2. CASE ~Due(j, task[p].at)
  <2>1. Miss(p, j)
      BY <1>2 DEF CasMarkFired
  <2> DEFINE t == [task[p] EXCEPT !.todo = @ \ {j}]
  <2>2. t \in TaskType /\ t.op = task[p].op /\ t.todo \subseteq task[p].todo
      BY <1>0 DEF TaskType
  <2>3. /\ task' = [task EXCEPT ![p] = Continue(t)]
        /\ UNCHANGED <<up, mem, content, taken, rewound, added>>
      BY <2>1 DEF Miss, store, history
  <2> HIDE DEF t
  <2> QED  BY <2>2, <2>3, FinishStep
<1> QED  BY <1>1, <1>2

LEMMA JobsStep == StateType /\ JobsInv /\ [Next]_vars => JobsInv'
<1> SUFFICES ASSUME StateType, JobsInv, [Next]_vars PROVE JobsInv'
    OBVIOUS
<1>0. ASSUME NEW p \in Procs
      PROVE  task[p] \in TaskType /\ task[p].at \in Instant /\ task[p].at \in Nat /\ task[p].job \in Jobs
    BY NoJobsType DEF StateType, TaskType
<1>1. CASE UNCHANGED <<mem, taken, rewound, added, content, task, up>>
    BY <1>1 DEF JobsInv, KnownInv, AddInv, Adding, LifeInv, ArmInv
<1>2. CASE UNCHANGED vars \/ Advance
    BY <1>1, <1>2 DEF vars, store, history, Advance
<1>3. CASE Crash \/ Restart
  <2>1. CASE Crash
    <3>1. /\ \A p \in Procs : task'[p] = IdleTask
          /\ \A j \in Jobs : mem'[j] = NoJob /\ taken'[j] = {}
          /\ ~up' /\ UNCHANGED <<content, added, rewound>>
        BY <2>1 DEF Crash, NoJobs
    <3>2. IdleTask.op = "none" /\ IdleTask.todo = {} /\ IdleTask.snap = NoJobs /\ ~NoJob.known /\ NoJob.next = Never
        BY DEF IdleTask, NoJob
    <3>3. KnownInv' /\ AddInv'
        BY <3>1, <3>2 DEF JobsInv, KnownInv, AddInv, Adding, NoJobs
    <3>4. LifeInv' /\ \A j \in Jobs : ArmInv(j)'
        BY <3>1, <3>2 DEF LifeInv, ArmInv, Procs
    <3> QED  BY <3>3, <3>4 DEF JobsInv
  <2>2. CASE Restart
    <3> DEFINE r == [IdleTask EXCEPT !.op = "reconcile", !.step = "list"]
    <3>1. /\ ~up /\ up' /\ mem' = Loaded /\ UNCHANGED <<content, added, rewound, taken>>
          /\ \A p \in Procs : task[p] = IdleTask
          /\ \A j \in Jobs : taken[j] = {}
        BY <2>2 DEF Restart, history, JobsInv, LifeInv
    <3>2. /\ task'[Ticker] = r
          /\ \A p \in Procs \ {Ticker} : task'[p] = IdleTask
        BY <2>2, <3>1 DEF Restart, StateType, Procs
    <3>3. /\ IdleTask.op = "none" /\ IdleTask.todo = {} /\ IdleTask.snap = NoJobs
          /\ r.op = "reconcile" /\ r.todo = {} /\ r.snap = NoJobs
        BY DEF IdleTask
    <3> HIDE DEF r
    <3>4. \A j \in Jobs : mem'[j].known => j \in added
      <4>1. CASE main = NoFile
          BY <3>1, <4>1 DEF Loaded, NoJobs, NoJob
      <4>2. CASE main \in Files
          BY <3>1, <4>2, CronAssumption DEF Loaded, JobsInv, KnownInv
      <4> QED  BY <4>1, <4>2 DEF StateType
    <3>5. KnownInv'
        BY <3>1, <3>2, <3>3, <3>4 DEF JobsInv, KnownInv, NoJobs, NoJob
    <3>6. AddInv'
        BY <3>2, <3>3 DEF AddInv, Adding
    <3>7. LifeInv' /\ \A j \in Jobs : ArmInv(j)'
        BY <3>1, <3>2, <3>3 DEF LifeInv, ArmInv, Procs
    <3> QED  BY <3>5, <3>6, <3>7 DEF JobsInv
  <2> QED  BY <1>3, <2>1, <2>2
<1>4. ASSUME NEW p \in Procs, up, NEW t \in TaskType,
             t.op = task[p].op \/ (t.op = "tick" /\ p = Ticker), t.todo = Known,
             task' = [task EXCEPT ![p] = Continue(t)],
             UNCHANGED <<up, mem, content, taken, rewound, added>>
      PROVE  JobsInv'
    BY <1>4, FinishStep
<1>5. ASSUME NEW p \in Procs, Reconcile(p) PROVE JobsInv'
  <2> DEFINE t == [task[p] EXCEPT !.at = now, !.listed = mem, !.todo = Known]
  <2>1. t \in TaskType /\ t.op = task[p].op /\ t.todo = Known
      BY <1>0 DEF TaskType, StateType, Known
  <2>2. /\ task' = [task EXCEPT ![p] = Continue(t)] /\ up
        /\ UNCHANGED <<up, mem, content, taken, rewound, added>>
      BY <1>5 DEF Reconcile, store, history
  <2> HIDE DEF t
  <2> QED  BY <1>4, <2>1, <2>2
<1>6. ASSUME NEW p \in Procs, Tick(p) PROVE JobsInv'
  <2> DEFINE t == [task[p] EXCEPT !.op = "tick", !.at = now, !.todo = Known]
  <2>1. t \in TaskType /\ t.op = "tick" /\ t.todo = Known
      BY <1>0 DEF TaskType, StateType, Known, Ops
  <2>2. /\ task' = [task EXCEPT ![p] = Continue(t)] /\ up /\ p = Ticker
        /\ UNCHANGED <<up, mem, content, taken, rewound, added>>
      BY <1>6 DEF Tick, store, history
  <2> HIDE DEF t
  <2> QED  BY <1>4, <2>1, <2>2
<1>7. ASSUME NEW p \in Procs, NEW j \in Jobs, Miss(p, j), up PROVE JobsInv'
  <2> DEFINE t == [task[p] EXCEPT !.todo = @ \ {j}]
  <2>1. t \in TaskType /\ t.op = task[p].op /\ t.todo \subseteq task[p].todo
      BY <1>0 DEF TaskType
  <2>2. /\ task' = [task EXCEPT ![p] = Continue(t)]
        /\ UNCHANGED <<up, mem, content, taken, rewound, added>>
      BY <1>7 DEF Miss, store, history
  <2> HIDE DEF t
  <2> QED  BY <1>7, <2>1, <2>2, FinishStep
<1>8. ASSUME NEW p \in Procs, Finish(p), up, UNCHANGED <<up, mem, content, taken, rewound, added>>
      PROVE  JobsInv'
    BY <1>0, <1>8, FinishStep DEF Finish
\* Within persist and the delivery nothing is begun.
<1>9. ASSUME NEW p \in Procs, NEW u \in TaskType, task' = [task EXCEPT ![p] = u], up,
             UNCHANGED <<up, mem, taken, rewound, added>>,
             u.op = task[p].op, u.step # "lock", u.todo = task[p].todo,
             \A j \in Jobs : u.snap[j].known => j \in added,
             \A f \in Files, j \in Jobs : content'[f][j].known => j \in added
      PROVE  JobsInv'
    BY <1>9, QuietStep
<1>10. ASSUME NEW p \in Procs, NEW step \in Steps \ {"lock"}, GoTo(p, step), up,
              UNCHANGED <<up, mem, taken, rewound, added>>,
              \A f \in Files, j \in Jobs : content'[f][j].known => j \in added
       PROVE  JobsInv'
  <2> DEFINE u == [task[p] EXCEPT !.step = step]
  <2>1. u \in TaskType /\ u.op = task[p].op /\ u.step = step /\ u.todo = task[p].todo /\ u.snap = task[p].snap
      BY <1>0 DEF TaskType
  <2>2. task' = [task EXCEPT ![p] = u]
      BY <1>10 DEF GoTo
  <2> HIDE DEF u
  <2>3. \A j \in Jobs : u.snap[j].known => j \in added
      BY <2>1 DEF JobsInv, KnownInv
  <2> QED  BY <1>9, <1>10, <2>1, <2>2, <2>3
<1>11. ASSUME NEW p \in Procs, Snapshot(p) PROVE JobsInv'
  <2> DEFINE u == [task[p] EXCEPT !.snap = mem, !.step = "open"]
  <2>1. u \in TaskType /\ u.op = task[p].op /\ u.step = "open" /\ u.todo = task[p].todo /\ u.snap = mem
      BY <1>0 DEF TaskType, StateType, Steps
  <2>2. task' = [task EXCEPT ![p] = u] /\ up /\ UNCHANGED <<up, mem, content, taken, rewound, added>>
      BY <1>11 DEF Snapshot, store, history
  <2> HIDE DEF u
  <2>3. \A j \in Jobs : u.snap[j].known => j \in added
      BY <2>1 DEF JobsInv, KnownInv
  <2>4. \A f \in Files, j \in Jobs : content'[f][j].known => j \in added
      BY <2>2 DEF JobsInv, KnownInv
  <2> QED  BY <1>9, <2>1, <2>2, <2>3, <2>4
<1>12. ASSUME NEW p \in Procs, OpenTmp(p) PROVE JobsInv'
  <2>1. PICK f \in Files : /\ content' = [content EXCEPT ![f] = NoJobs]
                           /\ task' = [task EXCEPT ![p].file = f, ![p].step = "write"]
      BY <1>12 DEF OpenTmp, StateType
  <2> DEFINE u == [task[p] EXCEPT !.file = f, !.step = "write"]
  <2>2. u \in TaskType /\ u.op = task[p].op /\ u.step = "write" /\ u.todo = task[p].todo /\ u.snap = task[p].snap
      BY <1>0 DEF TaskType, Steps
  <2>3. task' = [task EXCEPT ![p] = u]
      BY <2>1
  <2>6. up /\ UNCHANGED <<up, mem, taken, rewound, added>>
      BY <1>12 DEF OpenTmp, history
  <2> HIDE DEF u
  <2>4. \A j \in Jobs : u.snap[j].known => j \in added
      BY <2>2 DEF JobsInv, KnownInv
  <2>5. \A g \in Files, j \in Jobs : content'[g][j].known => j \in added
      BY <2>1 DEF JobsInv, KnownInv, StateType, NoJobs, NoJob
  <2> QED  BY <1>9, <2>2, <2>3, <2>4, <2>5, <2>6
<1>13. ASSUME NEW p \in Procs, WriteTmp(p) PROVE JobsInv'
  <2>1. PICK c \in {task[p].snap, NoJobs} : content' = [content EXCEPT ![task[p].file] = c]
      BY <1>13 DEF WriteTmp
  <2>2. \A g \in Files, j \in Jobs : content'[g][j].known => j \in added
      BY <2>1 DEF JobsInv, KnownInv, StateType, NoJobs, NoJob
  <2>3. GoTo(p, "rename") /\ up /\ UNCHANGED <<up, mem, taken, rewound, added>>
      BY <1>13 DEF WriteTmp, history
  <2> QED  BY <1>10, <2>2, <2>3 DEF Steps
<1>14. ASSUME NEW p \in Procs, WriteFails(p) \/ Deliver(p) \/ TurnEnds(p) \/ TurnPanics(p) PROVE JobsInv'
  <2>0. up /\ UNCHANGED <<up, mem, content, taken, rewound, added>>
      BY <1>14 DEF WriteFails, Deliver, TurnEnds, TurnPanics, store, history
  <2>1. \A g \in Files, j \in Jobs : content'[g][j].known => j \in added
      BY <2>0 DEF JobsInv, KnownInv
  <2>2. CASE WriteFails(p) \/ TurnEnds(p)
      BY <1>8, <2>0, <2>2 DEF WriteFails, TurnEnds
  <2>3. CASE Deliver(p)
      BY <1>10, <2>0, <2>1, <2>3 DEF Deliver, Steps
  <2>4. CASE TurnPanics(p)
    <3>1. task' = [task EXCEPT ![p] = Panicked(p)]
        BY <2>4, PanicType DEF TurnPanics
    <3>2. \A j \in Jobs : ~Panicked(p).snap[j].known
        BY PanicType DEF NoJobs, NoJob
    <3> QED  BY <2>0, <2>1, <3>1, <3>2, PanicType, QuietStep
  <2> QED  BY <1>14, <2>2, <2>3, <2>4
<1>15. ASSUME NEW p \in Procs, RenameTmp(p) PROVE JobsInv'
  <2>1. up /\ UNCHANGED <<up, mem, content, taken, rewound, added>> /\ (Finish(p) \/ GoTo(p, "deliver"))
      BY <1>15 DEF RenameTmp
  <2>2. \A g \in Files, j \in Jobs : content'[g][j].known => j \in added
      BY <2>1 DEF JobsInv, KnownInv
  <2> QED  BY <1>8, <1>10, <2>1, <2>2 DEF Steps
<1>16. ASSUME NEW p \in Procs, ReconcileJob(p) PROVE JobsInv'
  <2>0. up /\ task[p].op = "reconcile" /\ p = Ticker
      BY <1>16 DEF ReconcileJob, JobsInv, LifeInv
  <2>1. PICK j \in task[p].todo :
            \/ /\ Change(p, j, Armed(NextFireAfter(j, task[p].at), task[p].listed[j].last), Never)
               /\ UNCHANGED <<taken, rewound>>
            \/ Miss(p, j)
      BY <1>16 DEF ReconcileJob
  <2>2. j \in Jobs /\ task[p].listed[j].last \in Instant
      BY <1>0, <2>1 DEF TaskType, Row
  <2>3. Armed(NextFireAfter(j, task[p].at), task[p].listed[j].last) \in Row
      BY <1>0, <2>2, NextIsLater, ArmedType
  <2>4. j \in added /\ (\A c \in Procs \ {p} : ~Adding(c, j)) /\ taken[j] = {}
      BY <2>0, <2>1, <2>2 DEF JobsInv, KnownInv, AddInv, LifeInv
  <2>5. CASE Miss(p, j)
      BY <1>7, <2>0, <2>2, <2>5
  <2>6. CASE /\ Change(p, j, Armed(NextFireAfter(j, task[p].at), task[p].listed[j].last), Never)
             /\ UNCHANGED <<taken, rewound>>
    <3>1. ArmInv(j)'
        BY <2>4, <2>6 DEF ArmInv
    <3>2. taken' \in [Jobs -> SUBSET Instant] /\ \A i \in Jobs \ {j} : taken'[i] = taken[i]
        BY <2>6 DEF StateType
    <3> QED  BY <2>0, <2>2, <2>3, <2>4, <2>6, <3>1, <3>2, NoJobsType, RowStep
  <2> QED  BY <2>1, <2>5, <2>6
<1>17. ASSUME NEW p \in Procs, TickJob(p) PROVE JobsInv'
  <2>1. up /\ task[p].op = "tick" /\ p = Ticker
      BY <1>17 DEF TickJob, JobsInv, LifeInv
  <2>2. PICK j \in task[p].todo : CasMarkFired(p, j)
      BY <1>17 DEF TickJob
  <2>3. j \in Jobs /\ task[Ticker].op # "reconcile"
      BY <1>0, <2>1, <2>2 DEF TaskType
  <2> QED  BY <2>1, <2>2, <2>3, CasStep
<1>18. ASSUME NEW c \in Callers, TriggerJob(c) PROVE JobsInv'
  <2>1. c \in Procs /\ up /\ CasMarkFired(c, task[c].job) /\ task[c].op = "trigger"
      BY <1>18 DEF TriggerJob, Locked, Procs
  <2>2. task[Ticker].op # "reconcile"
      BY <2>1 DEF JobsInv, LifeInv
  <2> QED  BY <1>0, <2>1, <2>2, CasStep
<1>19. ASSUME NEW c \in Callers, ForceJob(c) PROVE JobsInv'
  <2>0. /\ c \in Procs /\ up /\ task[c].job \in Jobs
        /\ task[c].at \in Instant /\ task[c].at \in Nat
      BY <1>0, <1>19 DEF ForceJob, Locked, Procs
  <2>a. PICK j \in Jobs : j = task[c].job
      BY <2>0
  <2>b. PICK t \in Instant : t = task[c].at
      BY <2>0
  <2>1. c \in Procs /\ up /\ t \in Nat
      BY <2>0, <2>b
  <2>2. Fired(j, t) \in Row
      BY <2>1, NextIsLater, ArmedType DEF Fired
  <2>3. CASE mem[j].known
    <3>1. /\ Change(c, j, Fired(j, t), Never) /\ UNCHANGED taken
          /\ rewound' = IF t < mem[j].last THEN rewound \cup {j} ELSE rewound
        BY <1>19, <2>3, <2>a, <2>b DEF ForceJob
    <3>2. j \in added /\ \A q \in Procs \ {c} : ~Adding(q, j)
        BY <2>1, <2>3 DEF JobsInv, KnownInv, AddInv
    <3>3. taken' \in [Jobs -> SUBSET Instant] /\ \A i \in Jobs \ {j} : taken'[i] = taken[i]
        BY <3>1 DEF StateType
    <3>4. ASSUME j \notin rewound' PROVE ArmInv(j)'
      <4>1. j \notin rewound /\ ~(t < mem[j].last) /\ mem[j].last \in Nat
          BY <2>1, <3>1, <3>4, NoJobsType DEF StateType, Row
      <4>2. \A d \in taken'[j] : d <= mem[j].last /\ d \in Nat
          BY <2>1, <2>3, <3>1, <4>1, NoJobsType DEF JobsInv, ArmInv, StateType
      <4>3. \A d \in taken'[j] : d <= t
          BY <2>1, <4>1, <4>2
      <4>4. mem' \in [Jobs -> Row] /\ mem'[j] = Fired(j, t)
          BY <2>1, <2>2, <3>1 DEF Change, StateType
      <4> QED  BY <2>1, <3>3, <4>3, <4>4, FiredArms
    <3>5. rewound \subseteq rewound' /\ taken'[j] = taken[j]
        BY <3>1
    <3> QED  BY <2>1, <2>2, <3>1, <3>2, <3>3, <3>4, <3>5, NoJobsType, RowStep
  <2>4. CASE ~mem[j].known
      BY <1>7, <1>19, <2>1, <2>4, <2>a DEF ForceJob
  <2> QED  BY <2>3, <2>4
<1>20. ASSUME NEW c \in Callers, AddJob(c) PROVE JobsInv'
  <2>0. /\ c \in Procs /\ up /\ Adding(c, task[c].job)
        /\ task[c].job \in Jobs /\ task[c].at \in Nat
      BY <1>0, <1>20 DEF AddJob, Locked, Procs, Adding
  <2>a. PICK j \in Jobs : j = task[c].job
      BY <2>0
  <2>1. c \in Procs /\ up /\ Adding(c, j) /\ task[c].at \in Nat
      BY <2>0, <2>a
  <2>2. /\ Change(c, j, Armed(NextFireAfter(j, task[c].at), Never), Never)
        /\ UNCHANGED <<taken, rewound>>
      BY <1>20, <2>a DEF AddJob
  <2>3. Armed(NextFireAfter(j, task[c].at), Never) \in Row
      BY <2>1, NextIsLater, ArmedType, NoJobsType
  <2>4. /\ j \in added /\ taken[j] = {}
        /\ \A q \in Procs \ {c} : ~Adding(q, j)
      BY <2>1 DEF JobsInv, AddInv
  <2>5. ArmInv(j)'
      BY <2>2, <2>4 DEF ArmInv
  <2>6. taken' \in [Jobs -> SUBSET Instant] /\ taken'[j] = taken[j] /\ \A i \in Jobs \ {j} : taken'[i] = taken[i]
      BY <2>2 DEF StateType
  <2> QED  BY <2>1, <2>2, <2>3, <2>4, <2>5, <2>6, NoJobsType, RowStep
<1>21. ASSUME NEW c \in Callers, RemoveJob(c) PROVE JobsInv'
  <2>1. c \in Procs /\ up /\ task[c].job \in Jobs
      BY <1>0, <1>21 DEF RemoveJob, Locked, Procs
  <2>a. PICK j \in Jobs : j = task[c].job
      BY <2>1
  <2>2. CASE mem[j].known
    <3>1. Change(c, j, NoJob, Never) /\ UNCHANGED <<taken, rewound>>
        BY <1>21, <2>2, <2>a DEF RemoveJob
    <3>2. j \in added /\ \A q \in Procs \ {c} : ~Adding(q, j)
        BY <2>1, <2>2 DEF JobsInv, KnownInv, AddInv
    <3>3. mem'[j] = NoJob
        BY <2>1, <3>1 DEF Change, StateType
    <3>4. ArmInv(j)'
        BY <3>3 DEF ArmInv, NoJob
    <3>5. taken' \in [Jobs -> SUBSET Instant] /\ taken'[j] = taken[j] /\ \A i \in Jobs \ {j} : taken'[i] = taken[i]
        BY <3>1 DEF StateType
    <3> QED  BY <2>1, <3>1, <3>2, <3>4, <3>5, NoJobsType, RowStep
  <2>3. CASE ~mem[j].known
      BY <1>7, <1>21, <2>1, <2>3, <2>a DEF RemoveJob
  <2> QED  BY <2>2, <2>3
<1>22. ASSUME NEW c \in Callers, HangUp(c) PROVE JobsInv'
  <2>1. /\ task' = [task EXCEPT ![c] = IdleTask] /\ up /\ c \in Procs
        /\ UNCHANGED <<up, mem, content, taken, rewound, added>>
      BY <1>22 DEF HangUp, store, history, Procs
  <2>2. IdleTask.op = "none" /\ IdleTask.todo = {} /\ IdleTask.snap = NoJobs
      BY DEF IdleTask
  <2>3. \A j \in Jobs : ~IdleTask.snap[j].known
      BY <2>2 DEF NoJobs, NoJob
  <2>4. \A f \in Files, j \in Jobs : content'[f][j].known => j \in added
      BY <2>1 DEF JobsInv, KnownInv
  <2> QED  BY <2>1, <2>2, <2>3, <2>4, IdleType, QuietStep
<1>23. ASSUME NEW c \in Callers, NEW op \in {"trigger", "force", "add", "remove"}, NEW j \in Jobs, Call(c, op, j)
       PROVE  JobsInv'
  <2> DEFINE u == [IdleTask EXCEPT !.op = op, !.step = "lock", !.job = j, !.at = now]
  <2>1. /\ up /\ up' /\ c \in Procs /\ task[c] = IdleTask
        /\ (IF op = "add" THEN j \notin added ELSE j \in added)
        /\ op = "trigger" => task[Ticker].op # "reconcile"
        /\ added' = added \cup {j} /\ task' = [task EXCEPT ![c] = u]
        /\ UNCHANGED <<mem, content, taken, rewound>>
      BY <1>23 DEF Call, store, history, Procs
  <2>2. u.op = op /\ u.step = "lock" /\ u.job = j /\ u.todo = {} /\ u.snap = NoJobs
      BY DEF IdleTask
  <2>3. task'[c] = u /\ \A q \in Procs \ {c} : task'[q] = task[q]
      BY <2>1 DEF StateType
  <2> HIDE DEF u
  <2>4. c # Ticker
      BY CronAssumption
  <2>5. KnownInv'
      BY <2>1, <2>2, <2>3 DEF JobsInv, KnownInv, NoJobs, NoJob
  <2>6. AddInv'
    <3>1. \A i \in Jobs : Adding(c, i)' => op = "add" /\ i = j
        BY <2>2, <2>3 DEF Adding
    <3>2. \A q \in Procs \ {c}, i \in Jobs : Adding(q, i)' <=> Adding(q, i)
        BY <2>3 DEF Adding
    <3>3. \A q \in Procs : task'[q].todo \subseteq task[q].todo
        BY <2>2, <2>3
    <3>4. op = "add" => /\ j \notin added /\ ~mem[j].known /\ taken[j] = {}
                        /\ \A q \in Procs : j \notin task[q].todo /\ ~Adding(q, j)
        BY <2>1 DEF JobsInv, KnownInv, AddInv
    <3>5. ASSUME NEW q \in Procs, NEW i \in Jobs, Adding(q, i)'
          PROVE  /\ i \in added' /\ ~mem'[i].known /\ taken'[i] = {}
                 /\ \A r \in Procs : i \notin task'[r].todo /\ (r # q => ~Adding(r, i)')
      <4>1. CASE q = c
          BY <2>1, <3>1, <3>2, <3>3, <3>4, <3>5, <4>1
      <4>2. CASE q # c
        <5>1. /\ Adding(q, i) /\ i \in added /\ ~mem[i].known /\ taken[i] = {}
              /\ \A r \in Procs : i \notin task[r].todo /\ (r # q => ~Adding(r, i))
            BY <3>2, <3>5, <4>2 DEF JobsInv, AddInv
        <5>2. ~Adding(c, i)'
            BY <3>1, <3>4, <5>1
        <5> QED  BY <2>1, <3>2, <3>3, <5>1, <5>2
      <4> QED  BY <4>1, <4>2
    <3> QED  BY <3>5 DEF AddInv
  <2>7. LifeInv'
      BY <2>1, <2>2, <2>3, <2>4 DEF JobsInv, LifeInv, Procs
  <2> QED  BY <2>1, <2>5, <2>6, <2>7 DEF JobsInv, ArmInv
<1>24. ASSUME NEW p \in Procs, Work(p) \/ WriteFails(p) \/ TurnEnds(p) \/ TurnPanics(p) PROVE JobsInv'
    BY <1>5, <1>6, <1>11, <1>12, <1>13, <1>14, <1>15, <1>16, <1>17, <1>24 DEF Work
<1>25. ASSUME NEW c \in Callers, Serve(c) PROVE JobsInv'
    BY <1>18, <1>19, <1>20, <1>21, <1>25 DEF Serve
<1> QED  BY <1>2, <1>3, <1>22, <1>23, <1>24, <1>25 DEF Next

LEMMA JobsAlways == Spec => []JobsInv
BY JobsInit, JobsStep, TypeAlways, PTL DEF Spec

(***************************************************************************)
(* The file, as long as no two rewrites overlap: the one writer writes     *)
(* what the memory holds, into a file that is not jobs.json yet.           *)
(***************************************************************************)
FileInv ==
    /\ \A p, q \in Procs : Writing(p) /\ Writing(q) => p = q
    /\ main = NoFile \/ main # tmp
    /\ \A p \in Procs :
          /\ task[p].step \in {"open", "write", "rename"} => task[p].snap = mem
          /\ task[p].step \in {"write", "rename"} => task[p].file = tmp /\ tmp # NoFile
          /\ task[p].step = "write" => content[tmp] = NoJobs
          /\ task[p].step = "rename" => content[tmp] = mem

\* A step of p that leaves persist() alone, or ends it.
LEMMA FileQuiet ==
    ASSUME StateType, FileInv, NEW p \in Procs, NEW u \in TaskType,
           task' = [task EXCEPT ![p] = u], u.step \notin {"snap", "open", "write", "rename"},
           UNCHANGED store
    PROVE  FileInv'
<1>1. task'[p] = u /\ \A q \in Procs \ {p} : task'[q] = task[q]
    BY DEF StateType
<1> QED  BY <1>1 DEF FileInv, Writing, store

\* A step of the one writer, p.
LEMMA FileWriter ==
    ASSUME StateType, FileInv, NEW p \in Procs, NEW u \in TaskType, Writing(p),
           task' = [task EXCEPT ![p] = u], main' = NoFile \/ main' # tmp',
           u.step \in {"open", "write", "rename"} => u.snap = mem',
           u.step \in {"write", "rename"} => u.file = tmp' /\ tmp' # NoFile,
           u.step = "write" => content'[tmp'] = NoJobs,
           u.step = "rename" => content'[tmp'] = mem'
    PROVE  FileInv'
<1>1. task'[p] = u /\ \A q \in Procs \ {p} : task'[q] = task[q] /\ ~Writing(q)
    BY DEF StateType, FileInv
<1>2. \A q \in Procs \ {p} : task'[q].step \notin {"snap", "open", "write", "rename"}
    BY <1>1 DEF Writing
<1> QED  BY <1>1, <1>2 DEF FileInv, Writing

LEMMA FileChange ==
    ASSUME StateType, FileInv, NEW p \in Procs, NEW j \in Jobs, NEW row \in Row, NEW win \in Instant,
           Change(p, j, row, win), ~overlapped'
    PROVE  FileInv'
<1>1. /\ task'[p].step = "snap" /\ \A q \in Procs \ {p} : task'[q] = task[q]
      /\ UNCHANGED <<content, main, tmp>>
    BY DEF Change, StateType, TaskType
<1>2. \A q \in Procs \ {p} : ~Writing(q)
    BY DEF Change
<1>3. \A q \in Procs \ {p} : task'[q].step \notin {"snap", "open", "write", "rename"}
    BY <1>1, <1>2 DEF Writing
<1> QED  BY <1>1, <1>3 DEF FileInv, Writing

LEMMA ContinueStep == ASSUME NEW t \in TaskType PROVE Continue(t).step \in {"lock", "idle"}
BY DEF Continue, TaskType, IdleTask

(***************************************************************************)
(* The steps that take the write lock, by what they find under it.         *)
(***************************************************************************)
Marks(p, j) ==
    /\ Due(j, task[p].at) /\ task[Ticker].op # "reconcile"
    /\ task[p].op \in {"tick", "trigger"} /\ task[p].step = "lock"
    /\ Change(p, j, Fired(j, task[p].at), mem[j].next)
    /\ taken' = [taken EXCEPT ![j] = @ \cup {mem[j].next}] /\ UNCHANGED rewound

Forces(p, j) ==
    /\ task[p].op = "force" /\ task[p].step = "lock" /\ task[p].job = j /\ mem[j].known
    /\ Change(p, j, Fired(j, task[p].at), Never)
    /\ rewound' = IF task[p].at < mem[j].last THEN rewound \cup {j} ELSE rewound
    /\ UNCHANGED taken

Adds(p, j) ==
    /\ Adding(p, j)
    /\ Change(p, j, Armed(NextFireAfter(j, task[p].at), Never), Never)
    /\ UNCHANGED <<taken, rewound>>

Removes(p, j) ==
    /\ task[p].op = "remove" /\ task[p].step = "lock" /\ task[p].job = j /\ mem[j].known
    /\ Change(p, j, NoJob, Never)
    /\ UNCHANGED <<taken, rewound>>

Relists(p, j) ==
    /\ task[p].op = "reconcile" /\ task[p].step = "lock" /\ p = Ticker
    /\ j \in task[p].todo /\ task[p].listed[j].next = Never
    /\ Change(p, j, Armed(NextFireAfter(j, task[p].at), task[p].listed[j].last), Never)
    /\ UNCHANGED <<taken, rewound>>

LEMMA RowShape ==
    ASSUME StateType, JobsInv, NEW p \in Procs,
           ReconcileJob(p) \/ TickJob(p) \/ (p \in Callers /\ Serve(p))
    PROVE  /\ up /\ task[p].step = "lock"
           /\ \E j \in Jobs : \/ Miss(p, j) \/ Marks(p, j) \/ Forces(p, j)
                             \/ Adds(p, j) \/ Removes(p, j) \/ Relists(p, j)
<1>0. /\ task[p].job \in Jobs /\ task[p].todo \subseteq Jobs
      /\ task[p].op \in {"tick", "reconcile"} => p = Ticker
      /\ task[p].op = "trigger" => task[Ticker].op # "reconcile"
    BY DEF StateType, TaskType, JobsInv, LifeInv
<1>1. ASSUME NEW j \in Jobs, CasMarkFired(p, j), task[Ticker].op # "reconcile",
             task[p].op \in {"tick", "trigger"}, task[p].step = "lock"
      PROVE  Miss(p, j) \/ Marks(p, j)
    BY <1>1 DEF CasMarkFired, Marks
<1>2. CASE ReconcileJob(p)
    BY <1>0, <1>2, Zenon DEF ReconcileJob, Relists
<1>3. CASE TickJob(p)
  <2>1. PICK j \in task[p].todo : CasMarkFired(p, j) /\ up /\ task[p].op = "tick" /\ task[p].step = "lock"
      BY <1>3 DEF TickJob
  <2>2. task[Ticker].op # "reconcile" /\ j \in Jobs
      BY <1>0, <2>1
  <2> QED  BY <1>1, <2>1, <2>2
<1>4. CASE p \in Callers /\ Serve(p)
  <2> DEFINE j == task[p].job
  <2>1. CASE TriggerJob(p)
      BY <1>0, <1>1, <2>1 DEF TriggerJob, Locked
  <2>2. CASE ForceJob(p)
      BY <1>0, <2>2 DEF ForceJob, Locked, Forces
  <2>3. CASE AddJob(p)
      BY <1>0, <2>3 DEF AddJob, Locked, Adds, Adding
  <2>4. CASE RemoveJob(p)
      BY <1>0, <2>4 DEF RemoveJob, Locked, Removes
  <2> QED  BY <1>4, <2>1, <2>2, <2>3, <2>4 DEF Serve
<1> QED  BY <1>2, <1>3, <1>4

\* The row that such a step writes.
LEMMA RowChange ==
    ASSUME StateType, NEW p \in Procs, NEW j \in Jobs,
           Marks(p, j) \/ Forces(p, j) \/ Adds(p, j) \/ Removes(p, j) \/ Relists(p, j)
    PROVE  \E row \in Row, win \in Instant : Change(p, j, row, win)
<1>1. /\ task[p].at \in Instant /\ task[p].at \in Nat /\ mem[j].next \in Instant
      /\ task[p].listed[j].last \in Instant /\ Never \in Instant
    BY NoJobsType DEF StateType, TaskType, Row
<1>2. Fired(j, task[p].at) \in Row /\ NoJob \in Row
    BY <1>1, NextIsLater, ArmedType, NoJobsType DEF Fired
<1>3. /\ Armed(NextFireAfter(j, task[p].at), Never) \in Row
      /\ Armed(NextFireAfter(j, task[p].at), task[p].listed[j].last) \in Row
    BY <1>1, NextIsLater, ArmedType
<1> QED  BY <1>1, <1>2, <1>3 DEF Marks, Forces, Adds, Removes, Relists

LEMMA FileStep == StateType /\ JobsInv /\ FileInv /\ [Next]_vars /\ ~overlapped' => FileInv'
<1> SUFFICES ASSUME StateType, JobsInv, FileInv, [Next]_vars, ~overlapped' PROVE FileInv'
    OBVIOUS
<1>0. ASSUME NEW p \in Procs PROVE task[p] \in TaskType
    BY DEF StateType
<1>1. CASE UNCHANGED vars \/ Advance
    BY <1>1 DEF vars, Advance, store, FileInv, Writing
<1>2. CASE Crash \/ Restart
  <2> DEFINE r == [IdleTask EXCEPT !.op = "reconcile", !.step = "list"]
  <2>1. IdleTask.step = "idle" /\ r.step = "list"
      BY DEF IdleTask
  <2>2. CASE Crash
      BY <2>1, <2>2 DEF Crash, FileInv, Writing
  <2>3. CASE Restart
    <3>1. (\A p \in Procs : task'[p].step \in {"idle", "list"}) /\ UNCHANGED <<main, tmp>>
        BY <2>1, <2>3 DEF Restart, JobsInv, LifeInv, StateType
    <3> QED  BY <3>1 DEF FileInv, Writing
  <2> QED  BY <1>2, <2>2, <2>3
<1>3. ASSUME NEW p \in Procs, NEW t \in TaskType, task' = [task EXCEPT ![p] = Continue(t)], UNCHANGED store
      PROVE  FileInv'
    BY <1>3, ContinueType, ContinueStep, FileQuiet
<1>4. ASSUME NEW p \in Procs, Reconcile(p) \/ Tick(p) PROVE FileInv'
  <2>1. /\ [task[p] EXCEPT !.at = now, !.listed = mem, !.todo = Known] \in TaskType
        /\ [task[p] EXCEPT !.op = "tick", !.at = now, !.todo = Known] \in TaskType
      BY <1>0 DEF TaskType, StateType, Known, Ops
  <2> QED  BY <1>3, <1>4, <2>1 DEF Reconcile, Tick
<1>5. ASSUME NEW p \in Procs, NEW j \in Jobs, Miss(p, j) PROVE FileInv'
  <2>1. [task[p] EXCEPT !.todo = @ \ {j}] \in TaskType
      BY <1>0 DEF TaskType
  <2> QED  BY <1>3, <1>5, <2>1 DEF Miss
<1>6. ASSUME NEW p \in Procs, ReconcileJob(p) \/ TickJob(p) \/ (p \in Callers /\ Serve(p)) PROVE FileInv'
    BY <1>5, <1>6, RowShape, RowChange, FileChange
<1>7. ASSUME NEW p \in Procs, Snapshot(p) PROVE FileInv'
  <2> DEFINE u == [task[p] EXCEPT !.snap = mem, !.step = "open"]
  <2>1. u \in TaskType /\ u.step = "open" /\ u.snap = mem
      BY <1>0 DEF TaskType, StateType, Steps
  <2>2. task' = [task EXCEPT ![p] = u] /\ Writing(p) /\ UNCHANGED <<mem, main, tmp>>
      BY <1>7 DEF Snapshot, store, Writing
  <2> HIDE DEF u
  <2> QED  BY <2>1, <2>2, FileWriter DEF FileInv
<1>8. ASSUME NEW p \in Procs, OpenTmp(p) PROVE FileInv'
  <2>1. PICK f \in Files : /\ tmp' = f /\ content' = [content EXCEPT ![f] = NoJobs]
                           /\ task' = [task EXCEPT ![p].file = f, ![p].step = "write"]
                           /\ f = tmp \/ f \notin InUse
      BY <1>8 DEF OpenTmp, StateType
  <2> DEFINE u == [task[p] EXCEPT !.file = f, !.step = "write"]
  <2>2. u \in TaskType /\ u.step = "write" /\ u.snap = task[p].snap /\ u.file = f
      BY <1>0 DEF TaskType, Steps
  <2>a. task' = [task EXCEPT ![p] = u]
      BY <2>1
  <2>3. task' = [task EXCEPT ![p] = u] /\ task[p].step = "open" /\ Writing(p) /\ UNCHANGED <<mem, main>>
      BY <1>8, <2>a DEF OpenTmp, Writing
  <2>4. u.snap = mem' /\ f # NoFile /\ content'[f] = NoJobs /\ (main = NoFile \/ main # f)
      BY <2>1, <2>2, <2>3, CronAssumption DEF FileInv, StateType, InUse
  <2> HIDE DEF u
  <2> QED  BY <2>1, <2>2, <2>3, <2>4, FileWriter
<1>9. ASSUME NEW p \in Procs, WriteTmp(p) PROVE FileInv'
  <2> DEFINE u == [task[p] EXCEPT !.step = "rename"]
  <2>1. u \in TaskType /\ u.step = "rename" /\ u.snap = task[p].snap /\ u.file = task[p].file
      BY <1>0 DEF TaskType, Steps
  <2>2. task' = [task EXCEPT ![p] = u] /\ task[p].step = "write" /\ Writing(p) /\ UNCHANGED <<mem, main, tmp>>
      BY <1>9 DEF WriteTmp, GoTo, Writing
  <2>3. task[p].snap = mem /\ task[p].file = tmp /\ tmp \in Files /\ content[tmp] = NoJobs
      BY <2>2 DEF FileInv, StateType
  <2>4. content' = [content EXCEPT ![tmp] = mem]
      BY <1>9, <2>3 DEF WriteTmp
  <2>5. content'[tmp] = mem
      BY <2>3, <2>4 DEF StateType
  <2> HIDE DEF u
  <2> QED  BY <2>1, <2>2, <2>3, <2>5, FileWriter, CronAssumption DEF FileInv
<1>10. ASSUME NEW p \in Procs, RenameTmp(p) PROVE FileInv'
  <2> DEFINE u == [task[p] EXCEPT !.step = "deliver"]
  <2>1. u \in TaskType /\ u.step = "deliver"
      BY <1>0 DEF TaskType, Steps
  <2>2. Continue(task[p]) \in TaskType /\ Continue(task[p]).step \in {"lock", "idle"}
      BY <1>0, ContinueType, ContinueStep
  <2>3. Writing(p) /\ tmp # NoFile
      BY <1>10 DEF RenameTmp, FileInv, Writing
  <2>4. task' = [task EXCEPT ![p] = u] \/ task' = [task EXCEPT ![p] = Continue(task[p])]
      BY <1>10 DEF RenameTmp, GoTo, Finish
  <2>5. main' = tmp /\ tmp' = NoFile
      BY <1>10, <2>3 DEF RenameTmp
  <2> HIDE DEF u
  <2> QED  BY <2>1, <2>2, <2>3, <2>4, <2>5, FileWriter
<1>11. ASSUME NEW p \in Procs, WriteFails(p) \/ Deliver(p) \/ TurnEnds(p) \/ TurnPanics(p) PROVE FileInv'
  <2>1. CASE WriteFails(p) \/ TurnEnds(p)
      BY <1>0, <1>3, <2>1 DEF WriteFails, TurnEnds, Finish
  <2>2. CASE Deliver(p)
    <3> DEFINE u == [task[p] EXCEPT !.step = "turn"]
    <3>1. u \in TaskType /\ u.step = "turn" /\ task' = [task EXCEPT ![p] = u] /\ UNCHANGED store
        BY <1>0, <2>2 DEF TaskType, Steps, Deliver, GoTo
    <3> HIDE DEF u
    <3> QED  BY <3>1, FileQuiet
  <2>3. CASE TurnPanics(p)
      BY <2>3, PanicType, FileQuiet DEF TurnPanics
  <2> QED  BY <1>11, <2>1, <2>2, <2>3
<1>12. ASSUME NEW c \in Callers, HangUp(c) PROVE FileInv'
  <2>1. IdleTask.step = "idle"
      BY DEF IdleTask
  <2> QED  BY <1>12, <2>1, IdleType, FileQuiet DEF HangUp, Procs
<1>13. ASSUME NEW c \in Callers, NEW op \in {"trigger", "force", "add", "remove"}, NEW j \in Jobs, Call(c, op, j)
       PROVE  FileInv'
  <2> DEFINE u == [IdleTask EXCEPT !.op = op, !.step = "lock", !.job = j, !.at = now]
  <2>1. u \in TaskType /\ u.step = "lock"
      BY IdleType DEF TaskType, Ops, Steps, StateType, IdleTask
  <2>2. task' = [task EXCEPT ![c] = u] /\ c \in Procs /\ UNCHANGED store
      BY <1>13 DEF Call, Procs
  <2> HIDE DEF u
  <2> QED  BY <2>1, <2>2, FileQuiet
<1>14. ASSUME NEW p \in Procs, Work(p) \/ WriteFails(p) \/ TurnEnds(p) \/ TurnPanics(p) PROVE FileInv'
    BY <1>4, <1>6, <1>7, <1>8, <1>9, <1>10, <1>11, <1>14 DEF Work
<1>15. ASSUME NEW c \in Callers, Serve(c) PROVE FileInv'
    BY <1>6, <1>15 DEF Procs
<1> QED  BY <1>1, <1>2, <1>12, <1>13, <1>14, <1>15 DEF Next

\* The two steps that write files leave jobs.json alone ...
LEMMA FileKept ==
    ASSUME StateType, FileInv, NEW p \in Procs, OpenTmp(p) \/ WriteTmp(p)
    PROVE  Loaded' = Loaded
<1>1. CASE OpenTmp(p)
  <2>1. PICK f \in Files : /\ content' = [content EXCEPT ![f] = NoJobs] /\ main' = main
                           /\ f = tmp \/ f \notin InUse
      BY <1>1 DEF OpenTmp, StateType
  <2>2. main = NoFile \/ main # f
      BY <2>1 DEF FileInv, InUse
  <2> QED  BY <2>1, <2>2 DEF Loaded, StateType
<1>2. CASE WriteTmp(p)
  <2>1. PICK c : content' = [content EXCEPT ![tmp] = c]
      BY <1>2 DEF WriteTmp, FileInv
  <2>2. main' = main /\ (main = NoFile \/ main # tmp)
      BY <1>2 DEF WriteTmp, FileInv
  <2> QED  BY <2>1, <2>2 DEF Loaded, StateType
<1> QED  BY <1>1, <1>2

\* ... and the rename publishes the memory of this moment.
LEMMA Published ==
    ASSUME StateType, FileInv, NEW p \in Procs, RenameTmp(p)
    PROVE  /\ tmp # NoFile /\ Loaded' = mem /\ mem' = mem
           /\ IF task[p].op \in Firing THEN GoTo(p, "deliver") ELSE Finish(p)
           /\ removed' = IF task[p].op = "remove" /\ task[Ticker].op # "reconcile"
                         THEN removed \cup {task[p].job} ELSE removed
<1>1. tmp # NoFile /\ content[tmp] = mem
    BY DEF RenameTmp, FileInv
<1>2. main' = tmp /\ content' = content
    BY <1>1 DEF RenameTmp
<1> QED  BY <1>1, <1>2 DEF RenameTmp, Loaded

\* What a loop keeps of its task when it goes on.
LEMMA ContinueKeeps ==
    ASSUME NEW t \in TaskType, NEW u, u = Continue(t)
    PROVE  /\ u \in TaskType /\ u.step \in {"lock", "idle"} /\ u.win = Never
           /\ u.at \in {t.at, Never} /\ u.op \in {"reconcile", "tick", "none"}
           /\ u.todo = {} \/ /\ u.op = t.op /\ u.at = t.at
                             /\ u.listed = t.listed /\ u.todo = t.todo
           /\ u.todo # {} \/ u.op = "none"
<1>1. /\ IdleTask.op = "none" /\ IdleTask.todo = {} /\ IdleTask.win = Never
      /\ IdleTask.step = "idle" /\ IdleTask.at = Never
    BY DEF IdleTask
<1> DEFINE v == [t EXCEPT !.step = "lock", !.win = Never, !.snap = NoJobs, !.file = NoFile]
<1>2. /\ v.op = t.op /\ v.todo = t.todo /\ v.step = "lock" /\ v.win = Never
      /\ v.at = t.at /\ v.listed = t.listed
    BY DEF TaskType
<1> HIDE DEF v
<1>3. (Continue(t) = v /\ t.op \in {"reconcile", "tick"} /\ t.todo # {}) \/ Continue(t) = IdleTask
    BY DEF Continue, v
<1> QED  BY <1>1, <1>2, <1>3, ContinueType

\* The task that a call starts with.
LEMMA CallTask ==
    ASSUME StateType, NEW c \in Callers, NEW op \in {"trigger", "force", "add", "remove"}, NEW j \in Jobs,
           Call(c, op, j)
    PROVE  \E u \in TaskType :
              /\ task' = [task EXCEPT ![c] = u] /\ c \in Procs /\ task[c] = IdleTask
              /\ u.op = op /\ u.step = "lock" /\ u.job = j /\ u.at = now
              /\ u.win = Never /\ u.todo = {}
<1>1. /\ IdleTask \in TaskType /\ IdleTask.win = Never /\ IdleTask.todo = {}
    BY IdleType DEF IdleTask
<1>2. PICK t \in TaskType : t = IdleTask
    BY <1>1
<1> DEFINE u == [t EXCEPT !.op = op, !.step = "lock", !.job = j, !.at = now]
<1>3. /\ u \in TaskType /\ u.op = op /\ u.step = "lock" /\ u.job = j /\ u.at = now
      /\ u.win = Never /\ u.todo = {}
    BY <1>1, <1>2 DEF TaskType, Steps, Ops, StateType
<1>4. task' = [task EXCEPT ![c] = u] /\ c \in Procs /\ task[c] = IdleTask
    BY <1>2 DEF Call, Procs
<1> QED  BY <1>3, <1>4

(***************************************************************************)
(* The clock: readings and fires lie behind it, and what a task is firing  *)
(* was handed out to it.                                                   *)
(***************************************************************************)
ClockInv ==
    /\ delivered \in [Jobs -> SUBSET Instant]
    /\ \A p \in Procs : /\ task[p].at <= now
                        /\ task[p].win # Never => task[p].win \in taken[task[p].job]
    /\ \A j \in Jobs : \A d \in delivered[j] \cup taken[j] : d \in Instant /\ d <= now

LEMMA ClockTask ==
    ASSUME StateType, ClockInv, NEW p \in Procs, NEW u \in TaskType,
           task' = [task EXCEPT ![p] = u], now' = now, u.at <= now,
           u.win # Never => u.win \in taken'[u.job],
           \A j \in Jobs : taken[j] \subseteq taken'[j],
           delivered' \in [Jobs -> SUBSET Instant],
           \A j \in Jobs : \A d \in delivered'[j] \cup taken'[j] : d \in Instant /\ d <= now
    PROVE  ClockInv'
<1>1. task'[p] = u /\ \A q \in Procs \ {p} : task'[q] = task[q] /\ task[q].job \in Jobs
    BY DEF StateType, TaskType
<1> QED  BY <1>1 DEF ClockInv

\* A step of p that hands out nothing and delivers nothing.
LEMMA ClockQuiet ==
    ASSUME StateType, ClockInv, NEW p \in Procs, NEW u \in TaskType,
           task' = [task EXCEPT ![p] = u], UNCHANGED <<now, taken, delivered>>, u.at <= now,
           u.win = Never \/ (u.win = task[p].win /\ u.job = task[p].job)
    PROVE  ClockInv'
BY ClockTask DEF ClockInv

LEMMA ClockStep == StateType /\ JobsInv /\ ClockInv /\ [Next]_vars => ClockInv'
<1> SUFFICES ASSUME StateType, JobsInv, ClockInv, [Next]_vars PROVE ClockInv'
    OBVIOUS
<1>0. ASSUME NEW p \in Procs PROVE task[p] \in TaskType /\ task[p].at <= now /\ task[p].at \in Instant
    BY DEF StateType, TaskType, ClockInv
<1>n. now \in Nat /\ now \in Instant /\ Never <= now /\ Never \in Instant
    BY NoJobsType DEF StateType, Never
<1>1. CASE UNCHANGED vars
    BY <1>1 DEF vars, history, ClockInv
<1>2. CASE Advance
  <2>1. /\ now' = now + 1 /\ UNCHANGED <<task, taken, delivered>>
        /\ \A j \in Jobs : \A d \in delivered[j] \cup taken[j] : d \in Nat
      BY <1>2, NoJobsType DEF Advance, history, ClockInv
  <2>2. ASSUME NEW p \in Procs PROVE task'[p].at <= now'
    <3>1. task[p].at \in Nat /\ task[p].at <= now
        BY <1>0, NoJobsType
    <3> QED  BY <1>n, <2>1, <3>1
  <2>3. \A j \in Jobs : \A d \in delivered'[j] \cup taken'[j] : d \in Instant /\ d <= now'
      BY <1>n, <2>1 DEF ClockInv
  <2> QED  BY <2>1, <2>2, <2>3 DEF ClockInv
<1>3. CASE Crash \/ Restart
  <2> DEFINE r == [IdleTask EXCEPT !.op = "reconcile", !.step = "list"]
  <2>1. IdleTask.at = Never /\ IdleTask.win = Never /\ r.at = Never /\ r.win = Never
      BY DEF IdleTask
  <2>2. CASE Crash
      BY <1>n, <2>1, <2>2 DEF Crash, ClockInv
  <2>3. CASE Restart
    <3>1. UNCHANGED <<now, taken, delivered>>
        BY <2>3 DEF Restart, history
    <3>2. task' = [task EXCEPT ![Ticker] = r] /\ Ticker \in Procs /\ r \in TaskType
        BY <2>3, IdleType DEF Restart, Procs, TaskType, Ops, Steps
    <3> HIDE DEF r
    <3> QED  BY <1>n, <2>1, <3>1, <3>2, ClockQuiet
  <2> QED  BY <1>3, <2>2, <2>3
<1>4. ASSUME NEW p \in Procs, NEW t \in TaskType, task' = [task EXCEPT ![p] = Continue(t)],
             t.at <= now, UNCHANGED <<now, taken, delivered>>
      PROVE  ClockInv'
  <2> DEFINE u == Continue(t)
  <2>1. u \in TaskType /\ u.at \in {t.at, Never} /\ u.win = Never
      BY ContinueKeeps
  <2>2. task' = [task EXCEPT ![p] = u]
      BY <1>4
  <2> HIDE DEF u
  <2> QED  BY <1>4, <1>n, <2>1, <2>2, ClockQuiet
<1>5. ASSUME NEW p \in Procs, Reconcile(p) \/ Tick(p) PROVE ClockInv'
  <2> DEFINE t == [task[p] EXCEPT !.at = now, !.listed = mem, !.todo = Known]
             v == [task[p] EXCEPT !.op = "tick", !.at = now, !.todo = Known]
  <2>1. t \in TaskType /\ v \in TaskType /\ t.at = now /\ v.at = now
      BY <1>0, <1>n DEF TaskType, StateType, Known, Ops
  <2>2. UNCHANGED <<now, taken, delivered>>
      BY <1>5 DEF Reconcile, Tick, history
  <2>3. task' = [task EXCEPT ![p] = Continue(t)] \/ task' = [task EXCEPT ![p] = Continue(v)]
      BY <1>5 DEF Reconcile, Tick
  <2> HIDE DEF t, v
  <2> QED  BY <1>4, <1>n, <2>1, <2>2, <2>3
<1>6. ASSUME NEW p \in Procs, NEW j \in Jobs, Miss(p, j) PROVE ClockInv'
  <2> DEFINE t == [task[p] EXCEPT !.todo = @ \ {j}]
  <2>1. t \in TaskType /\ t.at = task[p].at
      BY <1>0 DEF TaskType
  <2>2. task' = [task EXCEPT ![p] = Continue(t)] /\ UNCHANGED <<now, taken, delivered>>
      BY <1>6 DEF Miss, history
  <2> HIDE DEF t
  <2> QED  BY <1>0, <1>4, <2>1, <2>2
<1>7. ASSUME NEW p \in Procs, NEW j \in Jobs, NEW row \in Row, NEW win \in Instant, Change(p, j, row, win),
             win # Never => win \in taken'[j], \A i \in Jobs : taken[i] \subseteq taken'[i],
             \A i \in Jobs : \A d \in taken'[i] : d \in Instant /\ d <= now
      PROVE  ClockInv'
  <2> DEFINE u == [task[p] EXCEPT !.step = "snap", !.job = j, !.win = win, !.todo = @ \ {j}]
  <2>1. task' = [task EXCEPT ![p] = u] /\ UNCHANGED <<now, delivered>>
      BY <1>7 DEF Change
  <2>2. u.at = task[p].at /\ u.win = win /\ u.job = j
      BY <1>0 DEF TaskType
  <2>3. task'[p] \in TaskType /\ task'[p] = u
      BY <1>7, <2>1, ChangeType DEF StateType
  <2> HIDE DEF u
  <2>4. /\ \A i \in Jobs : \A d \in delivered'[i] \cup taken'[i] : d \in Instant /\ d <= now
        /\ delivered' \in [Jobs -> SUBSET Instant]
      BY <1>7, <2>1 DEF ClockInv
  <2> QED  BY <1>0, <1>7, <2>1, <2>2, <2>3, <2>4, ClockTask
<1>8. ASSUME NEW p \in Procs, NEW j \in Jobs, Marks(p, j) PROVE ClockInv'
  <2>1. /\ taken' = [taken EXCEPT ![j] = @ \cup {mem[j].next}]
        /\ Change(p, j, Fired(j, task[p].at), mem[j].next) /\ mem[j].next <= task[p].at
      BY <1>8 DEF Marks, Due
  <2>2. /\ mem[j].next \in Instant /\ mem[j].next \in Nat /\ task[p].at \in Nat
        /\ Fired(j, task[p].at) \in Row
    <3>1. mem[j].next \in Instant /\ mem[j].next \in Nat /\ task[p].at \in Nat
        BY <1>0, NoJobsType DEF StateType, Row
    <3> QED  BY <1>0, <3>1, NextIsLater, ArmedType DEF Fired
  <2>3. /\ taken'[j] = taken[j] \cup {mem[j].next} /\ \A i \in Jobs \ {j} : taken'[i] = taken[i]
      BY <2>1 DEF StateType
  <2>4. \A i \in Jobs : \A d \in taken'[i] : d \in Instant /\ d <= now
    <3>1. \A i \in Jobs : \A d \in taken[i] : d \in Instant /\ d <= now
        BY DEF ClockInv
    <3>2. mem[j].next <= now
        BY <1>0, <1>n, <2>1, <2>2
    <3> QED  BY <2>2, <2>3, <3>1, <3>2
  <2> QED  BY <1>7, <2>1, <2>2, <2>3, <2>4
<1>9. ASSUME NEW p \in Procs, NEW j \in Jobs, Forces(p, j) \/ Adds(p, j) \/ Removes(p, j) \/ Relists(p, j)
      PROVE  ClockInv'
  <2>1. taken' = taken
      BY <1>9 DEF Forces, Adds, Removes, Relists
  <2>2. PICK row \in Row, win \in Instant : Change(p, j, row, win)
      BY <1>9, RowChange
  <2>3. task'[p].win = win /\ task'[p].win = Never
    <3>1. \A r, w : Change(p, j, r, w) => task'[p].win = w
        BY <1>0 DEF Change, StateType, TaskType
    <3> QED  BY <1>9, <2>2, <3>1 DEF Forces, Adds, Removes, Relists
  <2> QED  BY <1>7, <2>1, <2>2, <2>3 DEF ClockInv
<1>10. ASSUME NEW p \in Procs, ReconcileJob(p) \/ TickJob(p) \/ (p \in Callers /\ Serve(p)) PROVE ClockInv'
    BY <1>6, <1>8, <1>9, <1>10, RowShape
<1>11. ASSUME NEW p \in Procs, NEW u \in TaskType, task' = [task EXCEPT ![p] = u],
              UNCHANGED <<now, taken, delivered>>,
              u.at = task[p].at, u.win = task[p].win, u.job = task[p].job
       PROVE  ClockInv'
    BY <1>0, <1>11, ClockQuiet
<1>12. ASSUME NEW p \in Procs, Snapshot(p) \/ OpenTmp(p) \/ WriteTmp(p) PROVE ClockInv'
  <2>1. task'[p] \in TaskType
      BY <1>12, TypeStep DEF StateType
  <2>2. /\ task' = [task EXCEPT ![p] = task'[p]] /\ UNCHANGED <<now, taken, delivered>>
        /\ task'[p].at = task[p].at /\ task'[p].win = task[p].win /\ task'[p].job = task[p].job
    <3>1. CASE Snapshot(p)
        BY <1>0, <3>1 DEF Snapshot, history, StateType, TaskType
    <3>2. CASE OpenTmp(p)
        BY <1>0, <3>2 DEF OpenTmp, history, StateType, TaskType
    <3>3. CASE WriteTmp(p)
        BY <1>0, <3>3 DEF WriteTmp, GoTo, history, StateType, TaskType
    <3> QED  BY <1>12, <3>1, <3>2, <3>3
  <2>3. PICK u \in TaskType : u = task'[p]
      BY <2>1
  <2> QED  BY <1>11, <2>2, <2>3
<1>13. ASSUME NEW p \in Procs, GoTo(p, "deliver") \/ Finish(p), UNCHANGED <<now, taken, delivered>>
       PROVE  ClockInv'
  <2> DEFINE u == [task[p] EXCEPT !.step = "deliver"]
  <2>1. u \in TaskType /\ u.at = task[p].at /\ u.win = task[p].win /\ u.job = task[p].job
      BY <1>0 DEF TaskType, Steps
  <2>2. task' = [task EXCEPT ![p] = u] \/ task' = [task EXCEPT ![p] = Continue(task[p])]
      BY <1>13 DEF GoTo, Finish
  <2> HIDE DEF u
  <2> QED  BY <1>0, <1>4, <1>11, <1>13, <2>1, <2>2
<1>14. ASSUME NEW p \in Procs, RenameTmp(p) \/ WriteFails(p) \/ TurnEnds(p) \/ TurnPanics(p) PROVE ClockInv'
  <2>1. CASE TurnPanics(p)
      BY <1>n, <2>1, PanicType, ClockQuiet DEF TurnPanics, history
  <2> QED  BY <1>13, <1>14, <2>1 DEF RenameTmp, WriteFails, TurnEnds, history
<1>15. ASSUME NEW p \in Procs, Deliver(p) PROVE ClockInv'
  <2> DEFINE u == [task[p] EXCEPT !.step = "turn"]
  <2>1. /\ task' = [task EXCEPT ![p] = u] /\ UNCHANGED <<now, taken>>
        /\ delivered' = [delivered EXCEPT ![task[p].job] = @ \cup ({task[p].win} \ {Never})]
      BY <1>15 DEF Deliver, GoTo
  <2>2. \A j \in Jobs : \A d \in delivered'[j] : d \in delivered[j] \cup taken[j]
      BY <1>0, <2>1 DEF ClockInv
  <2>3. /\ u \in TaskType /\ u.at = task[p].at /\ u.win = task[p].win /\ u.job = task[p].job
        /\ u.win # Never => u.win \in taken[u.job]
      BY <1>0 DEF TaskType, Steps, ClockInv
  <2> HIDE DEF u
  <2>5. \A j \in Jobs : \A d \in delivered'[j] \cup taken'[j] : d \in Instant /\ d <= now
      BY <2>1, <2>2 DEF ClockInv
  <2>6. delivered' \in [Jobs -> SUBSET Instant]
      BY <1>0, <2>1 DEF ClockInv, TaskType
  <2> QED  BY <1>0, <1>n, <2>1, <2>3, <2>5, <2>6, ClockTask
<1>16. ASSUME NEW c \in Callers, HangUp(c) PROVE ClockInv'
  <2>1. IdleTask.at = Never /\ IdleTask.win = Never
      BY DEF IdleTask
  <2> QED  BY <1>n, <1>16, <2>1, IdleType, ClockQuiet DEF HangUp, history, Procs
<1>17. ASSUME NEW c \in Callers, NEW op \in {"trigger", "force", "add", "remove"}, NEW j \in Jobs, Call(c, op, j)
       PROVE  ClockInv'
  <2>1. PICK u \in TaskType : /\ task' = [task EXCEPT ![c] = u] /\ c \in Procs
                              /\ u.at = now /\ u.win = Never
      BY <1>17, CallTask
  <2>2. UNCHANGED <<now, taken, delivered>> /\ u.at <= now
      BY <1>17, <1>n, <2>1 DEF Call, history
  <2> QED  BY <2>1, <2>2, ClockQuiet
<1>18. ASSUME NEW p \in Procs, Work(p) \/ WriteFails(p) \/ TurnEnds(p) \/ TurnPanics(p) PROVE ClockInv'
    BY <1>5, <1>10, <1>12, <1>14, <1>15, <1>18 DEF Work
<1>19. ASSUME NEW c \in Callers, Serve(c) PROVE ClockInv'
    BY <1>10, <1>19 DEF Procs
<1> QED  BY <1>1, <1>2, <1>3, <1>16, <1>17, <1>18, <1>19 DEF Next

(***************************************************************************)
(* What was delivered, against the rows in memory, in the file and in the  *)
(* list of reconcile.                                                      *)
(***************************************************************************)
\* A row waits for an instant after those of D, and fired last at one or
\* after the last of them.
Ahead(row, D) ==
    /\ row.next = Never \/ \A d \in D : d < row.next
    /\ row.known => \A d \in D : d <= row.last

Delivering(p, j) == task[p].step = "deliver" /\ task[p].job = j /\ task[p].win # Never

\* The task t is a reconcile that has the job left in its loop.
Relisting(t, j) == t.op = "reconcile" /\ t.step # "list" /\ j \in t.todo

DurableInv(j) ==
    /\ delivered[j] # {} => j \in added
    /\ \A c \in Procs : Adding(c, j) => delivered[j] = {}
    /\ j \notin rewound =>
          /\ Ahead(mem[j], delivered[j]) /\ Ahead(Loaded[j], delivered[j])
          /\ \A p \in Procs : Delivering(p, j) => Ahead(Loaded[j], {task[p].win})
          /\ \A p \in Procs : Relisting(task[p], j) =>
                \A d \in delivered[j] : d <= task[p].at /\ d <= task[p].listed[j].last

\* A step of p that delivers nothing of job j.
LEMMA DurableTask ==
    ASSUME StateType, NEW j \in Jobs, DurableInv(j), NEW p \in Procs, NEW u \in TaskType,
           task' = [task EXCEPT ![p] = u], delivered'[j] = delivered[j],
           added \subseteq added', rewound \subseteq rewound',
           u.op = "add" /\ u.step = "lock" /\ u.job = j => delivered[j] = {},
           j \notin rewound' =>
              /\ Ahead(mem'[j], delivered[j]) /\ Ahead(Loaded'[j], delivered[j])
              /\ \A q \in Procs \ {p} : Delivering(q, j) => Ahead(Loaded'[j], {task[q].win})
              /\ u.step = "deliver" /\ u.job = j /\ u.win # Never => Ahead(Loaded'[j], {u.win})
              /\ Relisting(u, j) => \A d \in delivered[j] : d <= u.at /\ d <= u.listed[j].last
    PROVE  DurableInv(j)'
<1>1. task'[p] = u /\ \A q \in Procs \ {p} : task'[q] = task[q]
    BY DEF StateType
<1>2. delivered'[j] # {} => j \in added'
    BY DEF DurableInv
<1>3. \A c \in Procs : Adding(c, j)' => delivered'[j] = {}
    BY <1>1 DEF DurableInv, Adding
<1>4. ASSUME j \notin rewound'
      PROVE  /\ Ahead(mem[j], delivered[j])' /\ Ahead(Loaded[j], delivered[j])'
             /\ \A q \in Procs : Delivering(q, j)' => Ahead(Loaded[j], {task[q].win})'
             /\ \A q \in Procs : Relisting(task'[q], j) =>
                   \A d \in delivered'[j] : d <= task'[q].at /\ d <= task'[q].listed[j].last
  <2>1. Ahead(mem[j], delivered[j])' /\ Ahead(Loaded[j], delivered[j])'
      BY <1>4 DEF Ahead
  <2>2. ASSUME NEW q \in Procs, Delivering(q, j)' PROVE Ahead(Loaded[j], {task[q].win})'
    <3>1. CASE q = p
        BY <1>1, <1>4, <2>2, <3>1 DEF Delivering, Ahead
    <3>2. CASE q # p
        BY <1>1, <1>4, <2>2, <3>2 DEF Delivering, Ahead
    <3> QED  BY <3>1, <3>2
  <2>3. ASSUME NEW q \in Procs, Relisting(task'[q], j)
        PROVE  \A d \in delivered'[j] : d <= task'[q].at /\ d <= task'[q].listed[j].last
    <3>1. CASE q = p
        BY <1>1, <1>4, <2>3, <3>1
    <3>2. CASE q # p
        BY <1>1, <1>4, <2>3, <3>2 DEF DurableInv
    <3> QED  BY <3>1, <3>2
  <2> QED  BY <2>1, <2>2, <2>3
<1> QED  BY <1>2, <1>3, <1>4 DEF DurableInv, Relisting

\* A step of p that leaves the rows of j alone and begins nothing.
LEMMA DurableQuiet ==
    ASSUME StateType, NEW j \in Jobs, DurableInv(j), NEW p \in Procs, NEW u \in TaskType,
           task' = [task EXCEPT ![p] = u], delivered'[j] = delivered[j],
           mem'[j] = mem[j], Loaded'[j] = Loaded[j],
           added \subseteq added', rewound \subseteq rewound',
           u.op # "add" \/ u.step # "lock" \/ u.job # j, u.step # "deliver",
           Relisting(u, j) => Relisting(task[p], j) /\ u.at = task[p].at /\ u.listed = task[p].listed
    PROVE  DurableInv(j)'
<1>1. ASSUME j \notin rewound'
      PROVE  /\ Ahead(mem'[j], delivered[j]) /\ Ahead(Loaded'[j], delivered[j])
             /\ \A q \in Procs \ {p} : Delivering(q, j) => Ahead(Loaded'[j], {task[q].win})
             /\ Relisting(u, j) => \A d \in delivered[j] : d <= u.at /\ d <= u.listed[j].last
    BY <1>1 DEF DurableInv
<1> QED  BY <1>1, DurableTask

LEMMA DurableChange ==
    ASSUME StateType, NEW j \in Jobs, DurableInv(j), NEW p \in Procs, NEW k \in Jobs,
           NEW row \in Row, NEW win \in Instant, Change(p, k, row, win),
           task[p].step = "lock", rewound \subseteq rewound',
           k = j /\ j \notin rewound' => Ahead(row, delivered[j])
    PROVE  DurableInv(j)'
<1>1. /\ task'[p] \in TaskType /\ UNCHANGED <<content, main, added, delivered>>
      /\ task' = [task EXCEPT ![p] = task'[p]]
    BY ChangeType DEF Change, StateType
<1>2. /\ task'[p].step = "snap" /\ task'[p].op = task[p].op /\ task'[p].todo \subseteq task[p].todo
      /\ task'[p].at = task[p].at /\ task'[p].listed = task[p].listed
    BY DEF Change, StateType, TaskType
<1>3. PICK u \in TaskType : u = task'[p]
    BY <1>1
<1>4. Loaded' = Loaded /\ mem'[k] = row /\ \A i \in Jobs \ {k} : mem'[i] = mem[i]
    BY <1>1 DEF Change, StateType, Loaded
<1>5. Relisting(u, j) => Relisting(task[p], j)
    BY <1>2, <1>3 DEF Relisting
<1>6. ASSUME j \notin rewound'
      PROVE  /\ Ahead(mem'[j], delivered[j]) /\ Ahead(Loaded'[j], delivered[j])
             /\ \A q \in Procs \ {p} : Delivering(q, j) => Ahead(Loaded'[j], {task[q].win})
             /\ Relisting(u, j) => \A d \in delivered[j] : d <= u.at /\ d <= u.listed[j].last
    BY <1>2, <1>3, <1>4, <1>5, <1>6 DEF DurableInv
<1> QED  BY <1>1, <1>2, <1>3, <1>6, DurableTask

\* A job that fires at t, after all that was delivered.
LEMMA FiredAhead ==
    ASSUME NEW j \in Jobs, NEW t \in Instant, NEW D \in SUBSET Nat, \A d \in D : d <= t
    PROVE  Fired(j, t) \in Row /\ Ahead(Fired(j, t), D)
<1>1. /\ NextFireAfter(j, t) \in Instant /\ NextFireAfter(j, t) \in Nat /\ t \in Nat
      /\ NextFireAfter(j, t) = Never \/ t < NextFireAfter(j, t)
    BY NextIsLater, NoJobsType
<1>2. /\ Fired(j, t) \in Row /\ Fired(j, t).next = NextFireAfter(j, t) /\ Fired(j, t).last = t
    BY <1>1, ArmedType DEF Fired
<1> QED  BY <1>1, <1>2 DEF Ahead

LEMMA DurableStep ==
    ASSUME StateType, JobsInv, FileInv, ClockInv, [Next]_vars, NEW j \in Jobs, DurableInv(j)
    PROVE  DurableInv(j)'
<1>0. ASSUME NEW p \in Procs PROVE task[p] \in TaskType /\ task[p].at \in Nat
    BY NoJobsType DEF StateType, TaskType
<1>d. /\ \A d \in delivered[j] \cup taken[j] : d \in Nat /\ d <= now
      /\ now \in Nat /\ mem[j] \in Row /\ Loaded[j] \in Row
  <2>1. Loaded[j] \in Row
      BY NoJobsType DEF Loaded, StateType, NoJobs
  <2> QED  BY <2>1, NoJobsType DEF ClockInv, StateType
<1>1. CASE UNCHANGED vars \/ Advance
    BY <1>1 DEF vars, Advance, store, history, DurableInv, Adding, Delivering, Loaded
<1>2. CASE Crash
  <2>1. /\ \A p \in Procs : task'[p] = IdleTask
        /\ mem'[j] = NoJob /\ Loaded' = Loaded /\ UNCHANGED <<delivered, added, rewound>>
      BY <1>2 DEF Crash, NoJobs, Loaded
  <2>2. IdleTask.op = "none" /\ IdleTask.step = "idle" /\ NoJob.next = Never /\ ~NoJob.known
      BY DEF IdleTask, NoJob
  <2>3. Ahead(mem'[j], delivered[j])
      BY <2>1, <2>2 DEF Ahead
  <2>4. \A p \in Procs : ~Adding(p, j)' /\ ~Delivering(p, j)' /\ ~Relisting(task'[p], j)
      BY <2>1, <2>2 DEF Adding, Delivering, Relisting
  <2> QED  BY <2>1, <2>3, <2>4 DEF DurableInv, Ahead, Relisting
<1>3. CASE Restart
  <2> DEFINE r == [IdleTask EXCEPT !.op = "reconcile", !.step = "list"]
  <2>1. IdleTask.op = "none" /\ IdleTask.step = "idle" /\ r.op = "reconcile" /\ r.step = "list"
      BY DEF IdleTask
  <2>2. \A p \in Procs : task'[p] = IdleTask \/ task'[p] = r
      BY <1>3 DEF Restart, StateType, JobsInv, LifeInv
  <2>3. mem' = Loaded /\ Loaded' = Loaded /\ UNCHANGED <<delivered, added, rewound>>
      BY <1>3 DEF Restart, Loaded, history
  <2> HIDE DEF r
  <2>4. \A p \in Procs : ~Adding(p, j)' /\ ~Delivering(p, j)' /\ ~Relisting(task'[p], j)
      BY <2>1, <2>2 DEF Adding, Delivering, Relisting
  <2> QED  BY <2>3, <2>4 DEF DurableInv, Ahead, Relisting
<1>4. ASSUME NEW p \in Procs, NEW t \in TaskType, task' = [task EXCEPT ![p] = Continue(t)],
             mem'[j] = mem[j], Loaded' = Loaded, delivered'[j] = delivered[j], UNCHANGED <<rewound, added>>,
             Relisting(t, j) \/ (t.op = "reconcile" /\ j \in t.todo) =>
                Relisting(task[p], j) /\ t.at = task[p].at /\ t.listed = task[p].listed
      PROVE  DurableInv(j)'
  <2> DEFINE u == Continue(t)
  <2>1. /\ u \in TaskType /\ u.step \in {"lock", "idle"} /\ u.op \in {"reconcile", "tick", "none"}
        /\ u.todo = {} \/ (u.op = t.op /\ u.at = t.at /\ u.listed = t.listed /\ u.todo = t.todo)
      BY ContinueKeeps
  <2>2. task' = [task EXCEPT ![p] = u]
      BY <1>4
  <2> HIDE DEF u
  <2>3. Relisting(u, j) => Relisting(task[p], j) /\ u.at = task[p].at /\ u.listed = task[p].listed
      BY <1>4, <2>1 DEF Relisting
  <2> QED  BY <1>4, <2>1, <2>2, <2>3, DurableQuiet
<1>5. ASSUME NEW p \in Procs, Reconcile(p) PROVE DurableInv(j)'
  <2> DEFINE t == [task[p] EXCEPT !.at = now, !.listed = mem, !.todo = Known]
             u == Continue(t)
  <2>1. t \in TaskType /\ t.at = now /\ t.listed = mem /\ t.todo = Known
      BY <1>0 DEF TaskType, StateType, Known
  <2>2. task' = [task EXCEPT ![p] = u] /\ Loaded' = Loaded /\ UNCHANGED <<mem, delivered, rewound, added>>
      BY <1>5 DEF Reconcile, store, history, Loaded
  <2> HIDE DEF t
  <2>3. /\ u \in TaskType /\ u.step \in {"lock", "idle"} /\ u.op \in {"reconcile", "tick", "none"}
        /\ u.todo = {} \/ (u.at = now /\ u.listed = mem /\ u.todo = Known)
      BY <2>1, ContinueKeeps
  <2> HIDE DEF u
  <2>4. ASSUME j \notin rewound', Relisting(u, j)
        PROVE  \A d \in delivered[j] : d <= u.at /\ d <= u.listed[j].last
      BY <1>d, <2>2, <2>3, <2>4 DEF Relisting, DurableInv, Ahead, Known
  <2>5. ASSUME j \notin rewound'
        PROVE  /\ Ahead(mem'[j], delivered[j]) /\ Ahead(Loaded'[j], delivered[j])
               /\ \A q \in Procs \ {p} : Delivering(q, j) => Ahead(Loaded'[j], {task[q].win})
      BY <2>2, <2>5 DEF DurableInv
  <2> QED  BY <2>2, <2>3, <2>4, <2>5, DurableTask
<1>6. ASSUME NEW p \in Procs, Tick(p) PROVE DurableInv(j)'
  <2> DEFINE t == [task[p] EXCEPT !.op = "tick", !.at = now, !.todo = Known]
  <2>1. t \in TaskType /\ t.op = "tick"
      BY <1>0 DEF TaskType, StateType, Known, Ops
  <2>2. /\ task' = [task EXCEPT ![p] = Continue(t)] /\ Loaded' = Loaded
        /\ UNCHANGED <<mem, delivered, rewound, added>>
      BY <1>6 DEF Tick, store, history, Loaded
  <2> HIDE DEF t
  <2> QED  BY <1>4, <2>1, <2>2 DEF Relisting
<1>7. ASSUME NEW p \in Procs, NEW k \in Jobs, Miss(p, k), task[p].step # "list" PROVE DurableInv(j)'
  <2> DEFINE t == [task[p] EXCEPT !.todo = @ \ {k}]
  <2>1. /\ t \in TaskType /\ t.op = task[p].op /\ t.at = task[p].at /\ t.listed = task[p].listed
        /\ t.todo \subseteq task[p].todo
      BY <1>0 DEF TaskType
  <2>2. /\ task' = [task EXCEPT ![p] = Continue(t)] /\ Loaded' = Loaded
        /\ UNCHANGED <<mem, delivered, rewound, added>>
      BY <1>7 DEF Miss, store, history, Loaded
  <2> HIDE DEF t
  <2> QED  BY <1>4, <1>7, <2>1, <2>2 DEF Relisting
<1>8. ASSUME NEW p \in Procs, Finish(p), task[p].step # "list",
             mem'[j] = mem[j], Loaded' = Loaded, delivered'[j] = delivered[j], UNCHANGED <<rewound, added>>
      PROVE  DurableInv(j)'
    BY <1>0, <1>4, <1>8 DEF Finish, Relisting
<1>9. ASSUME NEW p \in Procs, NEW k \in Jobs, Marks(p, k) PROVE DurableInv(j)'
  <2>1. /\ Change(p, k, Fired(k, task[p].at), mem[k].next) /\ rewound' = rewound
        /\ task[p].step = "lock" /\ mem[k].next # Never /\ mem[k].next <= task[p].at
      BY <1>9 DEF Marks, Due
  <2>2. task[p].at \in Instant /\ mem[k].next \in Instant /\ mem[k].next \in Nat
      BY <1>0, NoJobsType DEF StateType, TaskType, Row
  <2>3. Fired(k, task[p].at) \in Row
      BY <1>0, <2>2, NextIsLater, ArmedType DEF Fired
  <2>4. ASSUME k = j, j \notin rewound' PROVE Ahead(Fired(k, task[p].at), delivered[j])
    <3>1. \A d \in delivered[j] : d <= task[p].at
        BY <1>0, <1>d, <2>1, <2>2, <2>4 DEF DurableInv, Ahead
    <3> QED  BY <1>d, <2>2, <2>4, <3>1, FiredAhead
  <2> QED  BY <2>1, <2>2, <2>3, <2>4, DurableChange
<1>10. ASSUME NEW p \in Procs, NEW k \in Jobs, Forces(p, k) PROVE DurableInv(j)'
  <2>1. /\ Change(p, k, Fired(k, task[p].at), Never) /\ mem[k].known /\ task[p].step = "lock"
        /\ rewound' = IF task[p].at < mem[k].last THEN rewound \cup {k} ELSE rewound
      BY <1>10 DEF Forces
  <2>2. task[p].at \in Instant /\ mem[k].last \in Nat /\ Never \in Instant
      BY <1>0, NoJobsType DEF StateType, TaskType, Row
  <2>3. Fired(k, task[p].at) \in Row
      BY <1>0, <2>2, NextIsLater, ArmedType DEF Fired
  <2>4. ASSUME k = j, j \notin rewound' PROVE Ahead(Fired(k, task[p].at), delivered[j])
    <3>1. \A d \in delivered[j] : d <= task[p].at
        BY <1>0, <1>d, <2>1, <2>2, <2>4 DEF DurableInv, Ahead
    <3> QED  BY <1>d, <2>2, <2>4, <3>1, FiredAhead
  <2>5. rewound \subseteq rewound'
      BY <2>1
  <2> QED  BY <2>1, <2>2, <2>3, <2>4, <2>5, DurableChange
<1>11. ASSUME NEW p \in Procs, NEW k \in Jobs, Adds(p, k) PROVE DurableInv(j)'
  <2>1. /\ Change(p, k, Armed(NextFireAfter(k, task[p].at), Never), Never) /\ rewound' = rewound
        /\ task[p].step = "lock" /\ Adding(p, k)
      BY <1>11 DEF Adds, Adding
  <2>2. Armed(NextFireAfter(k, task[p].at), Never) \in Row /\ Never \in Instant
      BY <1>0, NextIsLater, ArmedType, NoJobsType
  <2>3. k = j => delivered[j] = {}
      BY <2>1 DEF DurableInv
  <2> QED  BY <2>1, <2>2, <2>3, DurableChange DEF Ahead
<1>12. ASSUME NEW p \in Procs, NEW k \in Jobs, Removes(p, k) PROVE DurableInv(j)'
  <2>1. Change(p, k, NoJob, Never) /\ rewound' = rewound /\ task[p].step = "lock"
      BY <1>12 DEF Removes
  <2>2. Ahead(NoJob, delivered[j])
      BY DEF Ahead, NoJob
  <2> QED  BY <2>1, <2>2, NoJobsType, DurableChange
\* The row that reconcile listed fired last when every delivery before this
\* life had been armed past, and nothing is delivered while it runs.
<1>13. ASSUME NEW p \in Procs, NEW k \in Jobs, Relists(p, k) PROVE DurableInv(j)'
  <2> DEFINE next == NextFireAfter(k, task[p].at)
             last == task[p].listed[k].last
  <2>1. /\ Change(p, k, Armed(next, last), Never) /\ rewound' = rewound
        /\ task[p].step = "lock" /\ Relisting(task[p], k)
      BY <1>13 DEF Relists, Relisting
  <2>2. /\ last \in Instant /\ next \in Instant /\ next \in Nat /\ (next = Never \/ task[p].at < next)
        /\ Never \in Instant
      BY <1>0, NextIsLater, NoJobsType DEF TaskType, Row
  <2>3. /\ Armed(next, last) \in Row /\ Armed(next, last).next = next /\ Armed(next, last).last = last
      BY <2>2, ArmedType
  <2>4. ASSUME k = j, j \notin rewound' PROVE Ahead(Armed(next, last), delivered[j])
    <3>1. \A d \in delivered[j] : d \in Nat /\ d <= task[p].at /\ d <= last
        BY <1>d, <2>1, <2>4 DEF DurableInv
    <3> HIDE DEF next, last
    <3> QED  BY <1>0, <2>2, <2>3, <3>1 DEF Ahead
  <2> HIDE DEF next, last
  <2> QED  BY <2>1, <2>2, <2>3, <2>4, DurableChange
<1>14. ASSUME NEW p \in Procs, ReconcileJob(p) \/ TickJob(p) \/ (p \in Callers /\ Serve(p)) PROVE DurableInv(j)'
  <2>1. task[p].step # "list"
      BY <1>14, RowShape
  <2> QED  BY <1>7, <1>9, <1>10, <1>11, <1>12, <1>13, <1>14, <2>1, RowShape
<1>15. ASSUME NEW p \in Procs, Snapshot(p) \/ OpenTmp(p) \/ WriteTmp(p) PROVE DurableInv(j)'
  <2>1. PICK u \in TaskType : u = task'[p]
      BY <1>15, TypeStep DEF StateType
  <2>2. /\ task' = [task EXCEPT ![p] = u] /\ UNCHANGED <<mem, delivered, rewound, added>>
        /\ u.op = task[p].op /\ u.todo = task[p].todo /\ u.at = task[p].at /\ u.listed = task[p].listed
        /\ u.step \in {"open", "write", "rename"} /\ task[p].step # "list"
    <3>1. CASE Snapshot(p)
        BY <1>0, <2>1, <3>1 DEF Snapshot, store, history, StateType, TaskType
    <3>2. CASE OpenTmp(p)
        BY <1>0, <2>1, <3>2 DEF OpenTmp, history, StateType, TaskType
    <3>3. CASE WriteTmp(p)
        BY <1>0, <2>1, <3>3 DEF WriteTmp, GoTo, history, StateType, TaskType
    <3> QED  BY <1>15, <3>1, <3>2, <3>3
  <2>3. Loaded' = Loaded
      BY <1>15, FileKept DEF Snapshot, store, Loaded
  <2> QED  BY <2>2, <2>3, DurableQuiet DEF Relisting
\* The memory is armed past everything that was handed out, and so is the
\* file from here on.
<1>16. ASSUME NEW p \in Procs, RenameTmp(p) PROVE DurableInv(j)'
  <2>1. /\ Loaded' = mem /\ mem' = mem /\ UNCHANGED <<delivered, rewound, added>>
        /\ task[p].step = "rename" /\ (GoTo(p, "deliver") \/ Finish(p))
      BY <1>16, Published DEF RenameTmp
  <2>2. PICK u \in TaskType : u = task'[p]
      BY <1>16, TypeStep DEF StateType
  <2>3. /\ task' = [task EXCEPT ![p] = u]
        /\ u.op # "add" \/ u.step # "lock"
        /\ Relisting(u, j) => Relisting(task[p], j) /\ u.at = task[p].at /\ u.listed = task[p].listed
        /\ u.win # Never => u.win = task[p].win /\ u.job = task[p].job
    <3>1. CASE GoTo(p, "deliver")
        BY <1>0, <2>1, <2>2, <3>1 DEF GoTo, StateType, TaskType, Relisting
    <3>2. CASE Finish(p)
      <4>1. /\ u = Continue(task[p]) /\ task' = [task EXCEPT ![p] = u]
          BY <2>2, <3>2 DEF Finish, StateType
      <4> QED  BY <1>0, <2>1, <4>1, ContinueKeeps DEF Relisting
    <3> QED  BY <2>1, <3>1, <3>2
  <2>4. ASSUME j \notin rewound'
        PROVE  /\ Ahead(mem[j], delivered[j]) /\ Ahead(mem[j], taken[j])
               /\ Relisting(task[p], j) => \A d \in delivered[j] : d <= task[p].at /\ d <= task[p].listed[j].last
      BY <2>1, <2>4 DEF JobsInv, ArmInv, DurableInv, Ahead
  <2>5. ASSUME j \notin rewound', NEW d \in taken[j] PROVE Ahead(mem[j], {d})
      BY <2>4, <2>5 DEF Ahead
  <2>6. \A q \in Procs : Delivering(q, j) => task[q].win \in taken[j]
      BY DEF ClockInv, Delivering
  <2>7. u.job = j /\ u.win # Never => u.win \in taken[j]
      BY <2>3 DEF ClockInv
  <2> QED  BY <2>1, <2>3, <2>4, <2>5, <2>6, <2>7, DurableTask
<1>17. ASSUME NEW p \in Procs, WriteFails(p) \/ TurnEnds(p) \/ TurnPanics(p) PROVE DurableInv(j)'
  <2>1. CASE TurnPanics(p)
    <3>1. /\ task' = [task EXCEPT ![p] = Panicked(p)] /\ Loaded' = Loaded
          /\ UNCHANGED <<mem, delivered, rewound, added>>
        BY <2>1, PanicType DEF TurnPanics, store, history, Loaded
    <3> QED  BY <3>1, PanicType, DurableQuiet DEF Relisting
  <2> QED  BY <1>8, <1>17, <2>1 DEF WriteFails, TurnEnds, store, history, Loaded
<1>18. ASSUME NEW p \in Procs, Deliver(p) PROVE DurableInv(j)'
  <2>1. /\ delivered' = [delivered EXCEPT ![task[p].job] = @ \cup ({task[p].win} \ {Never})]
        /\ GoTo(p, "turn") /\ Loaded' = Loaded /\ UNCHANGED <<mem, rewound, added, taken>>
        /\ task[p].step = "deliver"
      BY <1>18 DEF Deliver, store, Loaded
  <2> DEFINE u == [task[p] EXCEPT !.step = "turn"]
  <2>a. /\ task' = [task EXCEPT ![p] = u] /\ u \in TaskType /\ u.step = "turn"
        /\ u.op = task[p].op /\ u.todo = task[p].todo /\ u.at = task[p].at /\ u.listed = task[p].listed
      BY <1>0, <2>1 DEF GoTo, TaskType, Steps
  <2> HIDE DEF u
  <2>2. CASE ~Delivering(p, j)
    <3>1. delivered'[j] = delivered[j]
        BY <1>0, <2>1, <2>2 DEF Delivering, ClockInv, StateType, TaskType
    <3> QED  BY <2>1, <2>a, <3>1, DurableQuiet DEF Relisting
  <2>3. CASE Delivering(p, j)
    <3> DEFINE w == task[p].win
    <3>1. /\ delivered'[j] = delivered[j] \cup {w} /\ w \in taken[j]
        BY <2>1, <2>3 DEF Delivering, StateType, ClockInv
    <3>2. /\ j \in added /\ \A c \in Procs : ~Adding(c, j) /\ task[c].op # "reconcile"
        BY <3>1 DEF JobsInv, KnownInv, AddInv, LifeInv
    <3>3. /\ \A q \in Procs \ {p} : task'[q] = task[q]
          /\ task'[p] = u
        BY <2>a DEF StateType
    <3>4. \A c \in Procs : ~Adding(c, j)' /\ ~Relisting(task'[c], j)
      <4>2. ~Adding(p, j)' /\ ~Relisting(task'[p], j)
          BY <2>a, <3>2, <3>3 DEF Adding, Relisting
      <4>3. \A c \in Procs \ {p} : ~Adding(c, j)' /\ ~Relisting(task'[c], j)
          BY <3>2, <3>3 DEF Adding, Relisting
      <4> QED  BY <4>2, <4>3
    <3>5. ASSUME j \notin rewound'
          PROVE  Ahead(mem[j], delivered[j])' /\ Ahead(Loaded[j], delivered[j])'
      <4>1. Ahead(mem[j], delivered[j]) /\ Ahead(Loaded[j], delivered[j]) /\ Ahead(mem[j], {w}) /\ Ahead(Loaded[j], {w})
          BY <2>1, <2>3, <3>1, <3>5 DEF DurableInv, JobsInv, ArmInv, Ahead
      <4> QED  BY <2>1, <3>1, <4>1 DEF Ahead
    <3>6. ASSUME NEW q \in Procs, Delivering(q, j)', j \notin rewound' PROVE Ahead(Loaded[j], {task[q].win})'
      <4>1. q # p
          BY <2>a, <3>3, <3>6 DEF Delivering
      <4> QED  BY <2>1, <3>3, <3>6, <4>1 DEF Delivering, DurableInv, Ahead
    <3> QED  BY <2>1, <3>2, <3>4, <3>5, <3>6 DEF DurableInv, Relisting
  <2> QED  BY <2>2, <2>3
<1>19. ASSUME NEW c \in Callers, HangUp(c) PROVE DurableInv(j)'
  <2>1. IdleTask.op = "none" /\ IdleTask.step = "idle"
      BY DEF IdleTask
  <2>2. /\ task' = [task EXCEPT ![c] = IdleTask] /\ c \in Procs /\ Loaded' = Loaded
        /\ UNCHANGED <<mem, delivered, rewound, added>>
      BY <1>19 DEF HangUp, store, history, Procs, Loaded
  <2> QED  BY <2>1, <2>2, IdleType, DurableQuiet DEF Relisting
<1>20. ASSUME NEW c \in Callers, NEW op \in {"trigger", "force", "add", "remove"}, NEW k \in Jobs, Call(c, op, k)
       PROVE  DurableInv(j)'
  <2>1. PICK u \in TaskType : /\ task' = [task EXCEPT ![c] = u] /\ c \in Procs
                              /\ u.op = op /\ u.step = "lock" /\ u.job = k
      BY <1>20, CallTask
  <2>2. /\ UNCHANGED <<mem, delivered, rewound>> /\ added' = added \cup {k} /\ Loaded' = Loaded
        /\ op = "add" => k \notin added
      BY <1>20 DEF Call, store, history, Loaded
  <2>3. u.op = "add" /\ u.step = "lock" /\ u.job = j => delivered[j] = {}
      BY <2>1, <2>2 DEF DurableInv
  <2>4. ~Relisting(u, j) /\ u.step # "deliver" /\ added \subseteq added'
      BY <2>1, <2>2 DEF Relisting
  <2>5. ASSUME j \notin rewound'
        PROVE  /\ Ahead(mem'[j], delivered[j]) /\ Ahead(Loaded'[j], delivered[j])
               /\ \A q \in Procs \ {c} : Delivering(q, j) => Ahead(Loaded'[j], {task[q].win})
      BY <2>2, <2>5 DEF DurableInv
  <2> QED  BY <2>1, <2>2, <2>3, <2>4, <2>5, DurableTask
<1>21. ASSUME NEW p \in Procs, Work(p) \/ WriteFails(p) \/ TurnEnds(p) \/ TurnPanics(p) PROVE DurableInv(j)'
    BY <1>5, <1>6, <1>14, <1>15, <1>16, <1>17, <1>18, <1>21 DEF Work
<1>22. ASSUME NEW c \in Callers, Serve(c) PROVE DurableInv(j)'
    BY <1>14, <1>22 DEF Procs
<1> QED  BY <1>1, <1>2, <1>3, <1>19, <1>20, <1>21, <1>22 DEF Next

(***************************************************************************)
(* Removal.  A job whose removal was acknowledged when no reconcile ran is *)
(* not known, so that nothing marks or forces it, is on no list, and its   *)
(* id is not given out again.                                              *)
(***************************************************************************)
Removing(t, j) == t.op = "remove" /\ t.job = j /\ t.step \in {"snap", "open", "write", "rename"}

RemovedInv(j) ==
    /\ j \in removed =>
          /\ j \in added /\ ~mem[j].known /\ ~Loaded[j].known
          /\ \A p \in Procs : ~Adding(p, j) /\ ~Relisting(task[p], j)
    /\ \A p \in Procs : Removing(task[p], j) =>
          j \in added /\ ~mem[j].known /\ \A c \in Procs : ~Adding(c, j)

\* A step of p, which becomes the task u.
LEMMA RemovedTask ==
    ASSUME StateType, NEW j \in Jobs, RemovedInv(j), NEW p \in Procs, NEW u \in TaskType,
           task' = [task EXCEPT ![p] = u], added \subseteq added',
           u.op = "add" /\ u.step = "lock" /\ u.job = j => j \notin added,
           j \in removed' =>
              /\ j \in added /\ ~mem'[j].known /\ ~Loaded'[j].known /\ ~Relisting(u, j)
              /\ \A q \in Procs : ~Adding(q, j) /\ ~Relisting(task[q], j),
           \A q \in Procs \ {p} : Removing(task[q], j) => ~mem'[j].known,
           Removing(u, j) => j \in added /\ ~mem'[j].known /\ \A c \in Procs : ~Adding(c, j)
    PROVE  RemovedInv(j)'
<1>1. task'[p] = u /\ \A q \in Procs \ {p} : task'[q] = task[q]
    BY DEF StateType
<1>2. \A c \in Procs : Adding(c, j)' => Adding(c, j) \/ j \notin added
    BY <1>1 DEF Adding
<1>3. j \in removed' =>
          /\ j \in added' /\ ~mem'[j].known /\ ~Loaded'[j].known
          /\ \A q \in Procs : ~Adding(q, j)' /\ ~Relisting(task'[q], j)
    BY <1>1, <1>2
<1>4. ASSUME NEW q \in Procs, Removing(task'[q], j)
      PROVE  j \in added' /\ ~mem'[j].known /\ \A c \in Procs : ~Adding(c, j)'
  <2>1. j \in added /\ ~mem'[j].known /\ \A c \in Procs : ~Adding(c, j)
      BY <1>1, <1>4 DEF RemovedInv
  <2> QED  BY <1>2, <2>1
<1> QED  BY <1>3, <1>4 DEF RemovedInv

\* A step of p that leaves the rows of j alone and begins nothing.
LEMMA RemovedQuiet ==
    ASSUME StateType, NEW j \in Jobs, RemovedInv(j), NEW p \in Procs, NEW u \in TaskType,
           task' = [task EXCEPT ![p] = u], mem'[j] = mem[j], Loaded'[j] = Loaded[j],
           removed' = removed, added' = added,
           u.op # "add" \/ u.step # "lock",
           Removing(u, j) => Removing(task[p], j), Relisting(u, j) => Relisting(task[p], j)
    PROVE  RemovedInv(j)'
BY RemovedTask DEF RemovedInv

LEMMA RemovedChange ==
    ASSUME StateType, NEW j \in Jobs, RemovedInv(j), NEW p \in Procs, NEW k \in Jobs,
           NEW row \in Row, NEW win \in Instant, Change(p, k, row, win), ~overlapped',
           task[p].step = "lock",
           k = j /\ j \in removed => ~row.known,
           task[p].op = "remove" /\ k = j =>
              j \in added /\ ~row.known /\ \A c \in Procs : ~Adding(c, j)
    PROVE  RemovedInv(j)'
<1>1. /\ task'[p] \in TaskType /\ UNCHANGED <<content, main, added, removed>>
      /\ task' = [task EXCEPT ![p] = task'[p]]
    BY ChangeType DEF Change, StateType
<1>2. /\ task'[p].step = "snap" /\ task'[p].op = task[p].op /\ task'[p].todo \subseteq task[p].todo
      /\ task'[p].job = k
    BY DEF Change, StateType, TaskType
<1>3. PICK u \in TaskType : u = task'[p]
    BY <1>1
<1>4. Loaded' = Loaded /\ mem'[k] = row /\ \A i \in Jobs \ {k} : mem'[i] = mem[i]
    BY <1>1 DEF Change, StateType, Loaded
<1>5. \A q \in Procs \ {p} : ~Removing(task[q], j)
    BY DEF Change, Writing, Removing
<1>6. j \in removed' =>
          /\ j \in added /\ ~mem'[j].known /\ ~Loaded'[j].known /\ ~Relisting(u, j)
          /\ \A q \in Procs : ~Adding(q, j) /\ ~Relisting(task[q], j)
    BY <1>1, <1>2, <1>3, <1>4 DEF RemovedInv, Relisting
<1>7. Removing(u, j) => j \in added /\ ~mem'[j].known /\ \A c \in Procs : ~Adding(c, j)
    BY <1>2, <1>3, <1>4 DEF Removing
<1>8. u.step = "snap" /\ task' = [task EXCEPT ![p] = u] /\ added' = added
    BY <1>1, <1>2, <1>3
<1> QED  BY <1>5, <1>6, <1>7, <1>8, RemovedTask

LEMMA RemovedStep ==
    ASSUME StateType, JobsInv, FileInv, [Next]_vars, ~overlapped', NEW j \in Jobs, RemovedInv(j)
    PROVE  RemovedInv(j)'
<1>0. ASSUME NEW p \in Procs PROVE task[p] \in TaskType /\ task[p].at \in Nat /\ task[p].at \in Instant
    BY NoJobsType DEF StateType, TaskType
<1>1. CASE UNCHANGED vars \/ Advance
    BY <1>1 DEF vars, Advance, store, history, RemovedInv, Adding, Loaded
<1>2. CASE Crash \/ Restart
  <2> DEFINE r == [IdleTask EXCEPT !.op = "reconcile", !.step = "list"]
  <2>1. /\ IdleTask.op = "none" /\ IdleTask.step = "idle" /\ r.op = "reconcile" /\ r.step = "list"
        /\ ~NoJob.known
      BY DEF IdleTask, NoJob
  <2>2. \A p \in Procs : task'[p] = IdleTask \/ task'[p] = r
      BY <1>2 DEF Crash, Restart, StateType, JobsInv, LifeInv
  <2> HIDE DEF r
  <2>3. \A p \in Procs : ~Adding(p, j)' /\ ~Relisting(task'[p], j) /\ ~Removing(task'[p], j)
      BY <2>1, <2>2 DEF Adding, Relisting, Removing
  <2>4. /\ Loaded' = Loaded /\ UNCHANGED <<added, removed>> /\ mem'[j] \in {NoJob, Loaded[j]}
      BY <1>2 DEF Crash, Restart, history, Loaded, NoJobs
  <2> QED  BY <2>1, <2>3, <2>4 DEF RemovedInv
<1>4. ASSUME NEW p \in Procs, NEW t \in TaskType, task' = [task EXCEPT ![p] = Continue(t)],
             mem'[j] = mem[j], Loaded' = Loaded, removed' = removed, added' = added,
             t.op = "reconcile" /\ j \in t.todo => Relisting(task[p], j)
      PROVE  RemovedInv(j)'
  <2>1. PICK u \in TaskType : u = Continue(t)
      BY ContinueKeeps
  <2>2. /\ u.step \in {"lock", "idle"} /\ u.op \in {"reconcile", "tick", "none"}
        /\ u.todo = {} \/ (u.op = t.op /\ u.todo = t.todo)
      BY <2>1, ContinueKeeps
  <2> QED  BY <1>4, <2>1, <2>2, RemovedQuiet DEF Relisting, Removing
\* Only jobs that are known get on the list.
<1>5. ASSUME NEW p \in Procs, Reconcile(p) PROVE RemovedInv(j)'
  <2> DEFINE t == [task[p] EXCEPT !.at = now, !.listed = mem, !.todo = Known]
  <2>1. t \in TaskType /\ t.todo = Known
      BY <1>0 DEF TaskType, StateType, Known
  <2>2. /\ task' = [task EXCEPT ![p] = Continue(t)] /\ Loaded' = Loaded
        /\ UNCHANGED <<mem, removed, added>>
      BY <1>5 DEF Reconcile, store, history, Loaded
  <2> HIDE DEF t
  <2>3. PICK u \in TaskType : u = Continue(t)
      BY <2>1, ContinueKeeps
  <2>4. u.step \in {"lock", "idle"} /\ u.op \in {"reconcile", "tick", "none"} /\ u.todo \subseteq Known
      BY <2>1, <2>3, ContinueKeeps
  <2>5. j \in removed => ~Relisting(u, j)
      BY <2>4 DEF Relisting, RemovedInv, Known
  <2>6. ~Removing(u, j) /\ (u.op # "add" \/ u.step # "lock") /\ task' = [task EXCEPT ![p] = u]
      BY <2>2, <2>3, <2>4 DEF Removing
  <2> QED  BY <2>2, <2>5, <2>6, RemovedTask DEF RemovedInv
<1>6. ASSUME NEW p \in Procs, Tick(p) PROVE RemovedInv(j)'
  <2> DEFINE t == [task[p] EXCEPT !.op = "tick", !.at = now, !.todo = Known]
  <2>1. t \in TaskType /\ t.op = "tick"
      BY <1>0 DEF TaskType, StateType, Known, Ops
  <2>2. /\ task' = [task EXCEPT ![p] = Continue(t)] /\ Loaded' = Loaded
        /\ UNCHANGED <<mem, removed, added>>
      BY <1>6 DEF Tick, store, history, Loaded
  <2> HIDE DEF t
  <2> QED  BY <1>4, <2>1, <2>2
<1>7. ASSUME NEW p \in Procs, NEW k \in Jobs, Miss(p, k), task[p].step # "list" PROVE RemovedInv(j)'
  <2> DEFINE t == [task[p] EXCEPT !.todo = @ \ {k}]
  <2>1. t \in TaskType /\ t.op = task[p].op /\ t.todo \subseteq task[p].todo
      BY <1>0 DEF TaskType
  <2>2. /\ task' = [task EXCEPT ![p] = Continue(t)] /\ Loaded' = Loaded
        /\ UNCHANGED <<mem, removed, added>>
      BY <1>7 DEF Miss, store, history, Loaded
  <2> HIDE DEF t
  <2> QED  BY <1>4, <1>7, <2>1, <2>2 DEF Relisting
<1>8. ASSUME NEW p \in Procs, Finish(p), task[p].step # "list",
             mem'[j] = mem[j], Loaded' = Loaded, removed' = removed, added' = added
      PROVE  RemovedInv(j)'
    BY <1>0, <1>4, <1>8 DEF Finish, Relisting
<1>9. ASSUME NEW p \in Procs, NEW k \in Jobs, Marks(p, k) \/ Forces(p, k) PROVE RemovedInv(j)'
  <2>1. PICK row \in Row, win \in Instant : Change(p, k, row, win)
      BY <1>9, RowChange
  <2>2. task[p].step = "lock" /\ mem[k].known /\ task[p].op # "remove"
      BY <1>9 DEF Marks, Forces, Due
  <2>3. k = j => j \notin removed
      BY <2>2 DEF RemovedInv
  <2> QED  BY <2>1, <2>2, <2>3, RemovedChange
<1>11. ASSUME NEW p \in Procs, NEW k \in Jobs, Adds(p, k) PROVE RemovedInv(j)'
  <2>1. PICK row \in Row, win \in Instant : Change(p, k, row, win)
      BY <1>11, RowChange
  <2>2. task[p].step = "lock" /\ task[p].op = "add" /\ Adding(p, k)
      BY <1>11 DEF Adds, Adding
  <2>3. k = j => j \notin removed
      BY <2>2 DEF RemovedInv
  <2> QED  BY <2>1, <2>2, <2>3, RemovedChange
<1>12. ASSUME NEW p \in Procs, NEW k \in Jobs, Removes(p, k) PROVE RemovedInv(j)'
  <2>1. Change(p, k, NoJob, Never) /\ task[p].step = "lock" /\ mem[k].known
      BY <1>12 DEF Removes
  <2>2. ~NoJob.known
      BY DEF NoJob
  <2>3. k = j => j \in added /\ \A c \in Procs : ~Adding(c, j)
      BY <2>1 DEF JobsInv, KnownInv, AddInv
  <2> QED  BY <2>1, <2>2, <2>3, NoJobsType, RemovedChange
<1>13. ASSUME NEW p \in Procs, NEW k \in Jobs, Relists(p, k) PROVE RemovedInv(j)'
  <2>1. PICK row \in Row, win \in Instant : Change(p, k, row, win)
      BY <1>13, RowChange
  <2>2. task[p].step = "lock" /\ task[p].op = "reconcile" /\ Relisting(task[p], k)
      BY <1>13 DEF Relists, Relisting
  <2>3. k = j => j \notin removed
      BY <2>2 DEF RemovedInv
  <2> QED  BY <2>1, <2>2, <2>3, RemovedChange
<1>14. ASSUME NEW p \in Procs, ReconcileJob(p) \/ TickJob(p) \/ (p \in Callers /\ Serve(p)) PROVE RemovedInv(j)'
  <2>1. task[p].step # "list"
      BY <1>14, RowShape
  <2> QED  BY <1>7, <1>9, <1>11, <1>12, <1>13, <1>14, <2>1, RowShape
<1>15. ASSUME NEW p \in Procs, Snapshot(p) \/ OpenTmp(p) \/ WriteTmp(p) PROVE RemovedInv(j)'
  <2>1. PICK u \in TaskType : u = task'[p]
      BY <1>15, TypeStep DEF StateType
  <2>2. /\ task' = [task EXCEPT ![p] = u] /\ UNCHANGED <<mem, removed, added>>
        /\ u.op = task[p].op /\ u.todo = task[p].todo /\ u.job = task[p].job
        /\ u.step \in {"open", "write", "rename"} /\ task[p].step \in {"snap", "open", "write"}
    <3>1. CASE Snapshot(p)
        BY <1>0, <2>1, <3>1 DEF Snapshot, store, history, StateType, TaskType
    <3>2. CASE OpenTmp(p)
        BY <1>0, <2>1, <3>2 DEF OpenTmp, history, StateType, TaskType
    <3>3. CASE WriteTmp(p)
        BY <1>0, <2>1, <3>3 DEF WriteTmp, GoTo, history, StateType, TaskType
    <3> QED  BY <1>15, <3>1, <3>2, <3>3
  <2>3. Loaded' = Loaded
      BY <1>15, FileKept DEF Snapshot, store, Loaded
  <2> QED  BY <2>2, <2>3, RemovedQuiet DEF Relisting, Removing
\* The rename publishes a memory without the job, which no list has.
<1>16. ASSUME NEW p \in Procs, RenameTmp(p) PROVE RemovedInv(j)'
  <2>1. /\ Loaded' = mem /\ mem' = mem /\ added' = added
        /\ task[p].step = "rename" /\ (GoTo(p, "deliver") \/ Finish(p))
        /\ removed' = IF task[p].op = "remove" /\ task[Ticker].op # "reconcile"
                      THEN removed \cup {task[p].job} ELSE removed
      BY <1>16, Published DEF RenameTmp
  <2>2. PICK u \in TaskType : u = task'[p]
      BY <1>16, TypeStep DEF StateType
  <2>3. /\ task' = [task EXCEPT ![p] = u] /\ u.step \in {"deliver", "lock", "idle"}
        /\ u.op # "add" \/ u.step # "lock"
        /\ Relisting(u, j) => Relisting(task[p], j)
    <3>1. CASE GoTo(p, "deliver")
        BY <1>0, <2>1, <2>2, <3>1 DEF GoTo, StateType, TaskType, Relisting
    <3>2. CASE Finish(p)
      <4>1. /\ u = Continue(task[p]) /\ task' = [task EXCEPT ![p] = u]
          BY <2>2, <3>2 DEF Finish, StateType
      <4> QED  BY <1>0, <2>1, <4>1, ContinueKeeps DEF Relisting
    <3> QED  BY <2>1, <3>1, <3>2
  <2>4. ASSUME j \in removed' \ removed
        PROVE  /\ j \in added /\ ~mem[j].known
               /\ \A q \in Procs : ~Adding(q, j) /\ ~Relisting(task[q], j)
    <3>1. task[p].op = "remove" /\ task[p].job = j /\ task[Ticker].op # "reconcile" /\ Removing(task[p], j)
        BY <2>1, <2>4 DEF Removing
    <3>2. j \in added /\ ~mem[j].known /\ \A q \in Procs : ~Adding(q, j)
        BY <3>1 DEF RemovedInv
    <3>3. \A q \in Procs : ~Relisting(task[q], j)
        BY <3>1 DEF JobsInv, LifeInv, Relisting
    <3> QED  BY <3>2, <3>3
  <2>5. j \in removed' =>
          /\ j \in added /\ ~mem'[j].known /\ ~Loaded'[j].known /\ ~Relisting(u, j)
          /\ \A q \in Procs : ~Adding(q, j) /\ ~Relisting(task[q], j)
      BY <2>1, <2>3, <2>4 DEF RemovedInv
  <2>6. /\ ~Removing(u, j) /\ \A q \in Procs \ {p} : Removing(task[q], j) => ~mem'[j].known
      BY <2>1, <2>3 DEF Removing, RemovedInv
  <2> QED  BY <2>1, <2>3, <2>5, <2>6, RemovedTask
<1>17. ASSUME NEW p \in Procs, WriteFails(p) \/ Deliver(p) \/ TurnEnds(p) \/ TurnPanics(p) PROVE RemovedInv(j)'
  <2>0. Loaded' = Loaded /\ UNCHANGED <<mem, removed, added>> /\ task[p].step # "list"
      BY <1>17 DEF WriteFails, Deliver, TurnEnds, TurnPanics, store, history, Loaded
  <2>1. CASE WriteFails(p) \/ TurnEnds(p)
      BY <1>8, <2>0, <2>1 DEF WriteFails, TurnEnds
  <2>2. CASE Deliver(p)
    <3> DEFINE u == [task[p] EXCEPT !.step = "turn"]
    <3>1. /\ task' = [task EXCEPT ![p] = u] /\ u \in TaskType /\ u.step = "turn"
          /\ u.op = task[p].op /\ u.todo = task[p].todo
        BY <1>0, <2>2 DEF Deliver, GoTo, TaskType, Steps
    <3> HIDE DEF u
    <3> QED  BY <2>0, <3>1, RemovedQuiet DEF Relisting, Removing
  <2>3. CASE TurnPanics(p)
    <3>1. task' = [task EXCEPT ![p] = Panicked(p)]
        BY <2>3, PanicType DEF TurnPanics
    <3> QED  BY <2>0, <3>1, PanicType, RemovedQuiet DEF Relisting, Removing
  <2> QED  BY <1>17, <2>1, <2>2, <2>3
<1>18. ASSUME NEW c \in Callers, HangUp(c) PROVE RemovedInv(j)'
  <2>1. IdleTask.op = "none" /\ IdleTask.step = "idle"
      BY DEF IdleTask
  <2>2. /\ task' = [task EXCEPT ![c] = IdleTask] /\ c \in Procs /\ Loaded' = Loaded
        /\ UNCHANGED <<mem, removed, added>>
      BY <1>18 DEF HangUp, store, history, Procs, Loaded
  <2> QED  BY <2>1, <2>2, IdleType, RemovedQuiet DEF Relisting, Removing
<1>19. ASSUME NEW c \in Callers, NEW op \in {"trigger", "force", "add", "remove"}, NEW k \in Jobs, Call(c, op, k)
       PROVE  RemovedInv(j)'
  <2>1. PICK u \in TaskType : /\ task' = [task EXCEPT ![c] = u] /\ c \in Procs
                              /\ u.op = op /\ u.step = "lock" /\ u.job = k
      BY <1>19, CallTask
  <2>2. /\ UNCHANGED <<mem, removed>> /\ added' = added \cup {k} /\ Loaded' = Loaded
        /\ op = "add" => k \notin added
      BY <1>19 DEF Call, store, history, Loaded
  <2>3. ~Relisting(u, j) /\ ~Removing(u, j)
      BY <2>1 DEF Relisting, Removing
  <2> QED  BY <2>1, <2>2, <2>3, RemovedTask DEF RemovedInv
<1>20. ASSUME NEW p \in Procs, Work(p) \/ WriteFails(p) \/ TurnEnds(p) \/ TurnPanics(p) PROVE RemovedInv(j)'
    BY <1>5, <1>6, <1>14, <1>15, <1>16, <1>17, <1>20 DEF Work
<1>21. ASSUME NEW c \in Callers, Serve(c) PROVE RemovedInv(j)'
    BY <1>14, <1>21 DEF Procs
<1> QED  BY <1>1, <1>2, <1>18, <1>19, <1>20, <1>21 DEF Next

\* An overlap is not forgotten.
LEMMA OverlapStays == StateType /\ JobsInv /\ [Next]_vars /\ ~overlapped' => ~overlapped
<1> SUFFICES ASSUME StateType, JobsInv, [Next]_vars, overlapped PROVE overlapped'
    OBVIOUS
<1>1. CASE UNCHANGED vars \/ Advance \/ Crash \/ Restart
    BY <1>1 DEF vars, Advance, Crash, Restart, history
<1>2. ASSUME NEW p \in Procs, NEW j \in Jobs, NEW row, NEW win, Change(p, j, row, win) PROVE overlapped'
    BY <1>2 DEF Change
<1>3. ASSUME NEW p \in Procs, ReconcileJob(p) \/ TickJob(p) \/ (p \in Callers /\ Serve(p)) PROVE overlapped'
    BY <1>2, <1>3, RowShape, RowChange DEF Miss, history
<1>4. ASSUME NEW p \in Procs, Work(p) \/ WriteFails(p) \/ TurnEnds(p) \/ TurnPanics(p) PROVE overlapped'
  <2>1. CASE Reconcile(p) \/ Tick(p) \/ Snapshot(p) \/ OpenTmp(p) \/ WriteTmp(p) \/ RenameTmp(p)
                 \/ Deliver(p) \/ WriteFails(p) \/ TurnEnds(p) \/ TurnPanics(p)
      BY <2>1 DEF Reconcile, Tick, Snapshot, OpenTmp, WriteTmp, RenameTmp, Deliver, WriteFails,
                  TurnEnds, TurnPanics, history
  <2> QED  BY <1>3, <1>4, <2>1 DEF Work
<1>5. ASSUME NEW c \in Callers, NEW op \in {"trigger", "force", "add", "remove"}, NEW j \in Jobs,
             HangUp(c) \/ Call(c, op, j)
      PROVE  overlapped'
    BY <1>5 DEF HangUp, Call, history
<1>6. ASSUME NEW c \in Callers, Serve(c) PROVE overlapped'
    BY <1>3, <1>6 DEF Procs
<1>7. ASSUME NEW c \in Callers, HangUp(c) PROVE overlapped'
    BY <1>7 DEF HangUp, history
<1> QED  BY <1>1, <1>4, <1>5, <1>6, <1>7 DEF Next

RemovedType == removed \subseteq Jobs

LEMMA RemovedTypeStep == StateType /\ JobsInv /\ RemovedType /\ [Next]_vars => RemovedType'
<1> SUFFICES ASSUME StateType, JobsInv, removed \subseteq Jobs, [Next]_vars PROVE removed' \subseteq Jobs
    BY DEF RemovedType
<1>1. CASE UNCHANGED vars \/ Advance \/ Crash \/ Restart
    BY <1>1 DEF vars, Advance, Crash, Restart, history
<1>2. ASSUME NEW p \in Procs, ReconcileJob(p) \/ TickJob(p) \/ (p \in Callers /\ Serve(p))
      PROVE  removed' \subseteq Jobs
    BY <1>2, RowShape, RowChange DEF Miss, Change, history
<1>3. ASSUME NEW p \in Procs, RenameTmp(p) PROVE removed' \subseteq Jobs
    BY <1>3 DEF RenameTmp, StateType, TaskType
<1>4. ASSUME NEW p \in Procs, Work(p) \/ WriteFails(p) \/ TurnEnds(p) \/ TurnPanics(p)
      PROVE  removed' \subseteq Jobs
  <2>1. CASE Reconcile(p) \/ Tick(p) \/ Snapshot(p) \/ OpenTmp(p) \/ WriteTmp(p) \/ Deliver(p) \/ WriteFails(p)
                 \/ TurnEnds(p) \/ TurnPanics(p)
      BY <2>1 DEF Reconcile, Tick, Snapshot, OpenTmp, WriteTmp, Deliver, WriteFails,
                  TurnEnds, TurnPanics, history
  <2> QED  BY <1>2, <1>3, <1>4, <2>1 DEF Work
<1>5. ASSUME NEW c \in Callers, NEW op \in {"trigger", "force", "add", "remove"}, NEW j \in Jobs,
             HangUp(c) \/ Call(c, op, j)
      PROVE  removed' \subseteq Jobs
    BY <1>5 DEF HangUp, Call, history
<1>6. ASSUME NEW c \in Callers, HangUp(c) \/ Serve(c) PROVE removed' \subseteq Jobs
    BY <1>2, <1>6 DEF Procs, HangUp, history
<1> QED  BY <1>1, <1>4, <1>5, <1>6 DEF Next

RestartInv == ~overlapped => FileInv /\ \A j \in Jobs : DurableInv(j) /\ RemovedInv(j)

LEMMA RestartInit == Init => ClockInv /\ RestartInv
<1> SUFFICES ASSUME Init PROVE ClockInv /\ RestartInv
    OBVIOUS
<1>1. /\ now = 0 /\ added = Stored /\ removed = {} /\ tmp = NoFile
      /\ \A j \in Jobs : mem[j] = NoJob /\ taken[j] = {} /\ delivered[j] = {}
      /\ \A p \in Procs : task[p] = IdleTask
      /\ delivered = [j \in Jobs |-> {}]
    BY DEF Init, NoJobs
<1>2. /\ IdleTask.op = "none" /\ IdleTask.step = "idle" /\ IdleTask.at = Never /\ IdleTask.win = Never
      /\ NoJob.next = Never /\ ~NoJob.known
    BY DEF IdleTask, NoJob
<1>3. ClockInv
    BY <1>1, <1>2 DEF ClockInv, Never
<1>4. FileInv
    BY <1>1, <1>2, CronAssumption DEF FileInv, Writing, Init
<1>5. ASSUME NEW p \in Procs, NEW j \in Jobs
      PROVE  ~Adding(p, j) /\ ~Delivering(p, j) /\ ~Relisting(task[p], j) /\ ~Removing(task[p], j)
    BY <1>1, <1>2 DEF Adding, Delivering, Relisting, Removing
<1>6. \A j \in Jobs : DurableInv(j)
    BY <1>1, <1>5 DEF DurableInv, Ahead
<1>7. \A j \in Jobs : RemovedInv(j)
    BY <1>1, <1>5 DEF RemovedInv
<1> QED  BY <1>3, <1>4, <1>6, <1>7 DEF RestartInv

LEMMA RestartStep == StateType /\ JobsInv /\ ClockInv /\ RestartInv /\ [Next]_vars => RestartInv'
<1> SUFFICES ASSUME StateType, JobsInv, ClockInv, RestartInv, [Next]_vars, ~overlapped'
             PROVE  FileInv' /\ \A j \in Jobs : DurableInv(j)' /\ RemovedInv(j)'
    BY DEF RestartInv
<1>1. FileInv /\ \A j \in Jobs : DurableInv(j) /\ RemovedInv(j)
    BY OverlapStays DEF RestartInv
<1>2. FileInv'
    BY <1>1, FileStep
<1>3. \A j \in Jobs : DurableInv(j)'
    BY <1>1, DurableStep
<1>4. \A j \in Jobs : RemovedInv(j)'
    BY <1>1, RemovedStep
<1> QED  BY <1>2, <1>3, <1>4

LEMMA RestartAlways == Spec => []RestartInv
BY RestartInit, RestartStep, ClockStep, TypeAlways, JobsAlways, PTL DEF Spec

\* For any jobs, schedules and interleavings: an instant handed out by the
\* CAS is not handed out again in the life of the process, unless a trigger
\* with an old clock reading re-arms the job (cas_mark_fired, force_fire).
THEOREM ArmedAhead == Spec => []ArmedAheadOfTaken
<1>1. JobsInv => ArmedAheadOfTaken
    BY DEF JobsInv, ArmInv, ArmedAheadOfTaken
<1> QED  BY <1>1, JobsAlways, PTL

\* For any jobs, schedules, interleavings, crashes and failed writes, as long
\* as no two rewrites of jobs.json overlap: the file a process is restarted on
\* has no instant armed that was delivered already, unless a manual trigger
\* with an old clock reading re-armed the job (cas_mark_fired and persist
\* before deliver; reconcile).
THEOREM DurableDelivery == Spec => []DeliveredIsDurable
<1>1. RestartInv => DeliveredIsDurable
    BY DEF RestartInv, DurableInv, Ahead, DeliveredIsDurable
<1> QED  BY <1>1, RestartAlways, PTL

\* For any jobs, schedules, interleavings, crashes and failed writes, as long
\* as no two rewrites overlap: a job whose removal was acknowledged when the
\* process was not reconciling is neither in memory nor in the file (remove;
\* reconcile, which lists only jobs that are known, of rows armed or not).
THEOREM RemovalHolds == Spec => []RemovedNeverFires
<1>1. RestartInv /\ RemovedType => RemovedNeverFires
    BY DEF RestartInv, RemovedInv, RemovedType, RemovedNeverFires
<1>2. Init => RemovedType
    BY DEF Init, RemovedType
<1> QED  BY <1>1, <1>2, RemovedTypeStep, RestartAlways, TypeAlways, JobsAlways, PTL DEF Spec
=============================================================================
