------------------------------ MODULE CronJobs ------------------------------
(***************************************************************************)
(* The cron scheduler: CronSchedulerImpl over a FileJobStore.              *)
(*                                                                         *)
(* The store keeps every job in memory and rewrites jobs.json after each   *)
(* change.  The change is made under the write lock; the rewrite is not:   *)
(* it takes a snapshot of the memory, truncates jobs.json.tmp, fills it    *)
(* and renames it over jobs.json, each a separate await.  The ticker, the  *)
(* /cron/fire receiver and the schedule tool call the store concurrently,  *)
(* and all of them use the same temporary file.                            *)
(*                                                                         *)
(* Time is a counter up to Horizon.  A schedule is the set of instants it  *)
(* names, so that one-shot, interval and cron schedules differ only in     *)
(* that set.  Jobs are enabled: nothing in the program disables one.       *)
(***************************************************************************)
EXTENDS Naturals, FiniteSets

CONSTANTS
    Jobs,         \* job ids; a UUID each, so an id is added once
    Fires,        \* [Jobs -> sets of instants]: the schedules
    Ticker,       \* the task that start() spawns, and start() itself
    Callers,      \* handlers of /cron/fire and calls of the schedule tool
    Files,        \* names for file contents (inodes), enough for all openers
    Stored,       \* jobs already in the file when the process first starts;
                  \* an older release may have left them without a next fire
    Horizon,      \* bound: the last instant of the clock
    MaxCalls,     \* bound on calls
    MaxCrashes,   \* bound on crashes
    MaxErrors     \* bound on failed writes

Procs   == {Ticker} \cup Callers
Instant == 0..Horizon
Never   == 0            \* next_fire_at and last_fired_at when None
NoFile  == "none"

ASSUME CronAssumption ==
    /\ Horizon \in Nat \ {0}
    /\ MaxCalls \in Nat /\ MaxCrashes \in Nat /\ MaxErrors \in Nat
    /\ Fires \in [Jobs -> SUBSET (1..Horizon)]
    /\ Ticker \notin Callers /\ Stored \subseteq Jobs /\ Jobs # {}
    /\ NoFile \notin Files /\ Files # {}

VARIABLES
    now,        \* the wall clock
    mem,        \* FileJobStore.jobs, of the running process
    content,    \* what each file holds; a file that cannot be parsed, or is
                \* empty, is loaded as a store without jobs
    main,       \* the file jobs.json names
    tmp,        \* the file jobs.json.tmp names, if it exists
    task,       \* what each task of the process is doing
    up,         \* the process runs
    added,      \* ids that were ever given out
    calls, crashes, errors,
    \* history, read only by the properties
    taken,      \* per job: the instants the CAS handed out in this life
    delivered,  \* per job: the instants a delivery was started for
    rewound,    \* jobs a manual trigger re-armed with an old clock reading
    removed,    \* jobs whose removal was acknowledged, not during a reconcile
    overlapped  \* two rewrites of the file were under way at once

store   == <<mem, content, main, tmp>>
history == <<taken, delivered, rewound, removed, overlapped>>
vars    == <<now, store, task, up, added, calls, crashes, errors, history>>

(***************************************************************************)
(* Jobs, as rows of the map.                                               *)
(***************************************************************************)
Row     == [known : BOOLEAN, next : Instant, last : Instant]
NoJob   == [known |-> FALSE, next |-> Never, last |-> Never]
NoJobs  == [j \in Jobs |-> NoJob]
Armed(next, last) == [known |-> TRUE, next |-> next, last |-> last]

Earliest(S) == CHOOSE t \in S : \A u \in S : t <= u

\* Faulty variant: the instant t itself counts.
NextFireFrom(j, t) ==
    LET later == {i \in Fires[j] : i >= t}
    IN  IF later = {} THEN Never ELSE Earliest(later)

\* Schedule::next_fire_after: the next instant strictly after t.
NextFireAfter(j, t) ==
    LET later == {i \in Fires[j] : i > t}
    IN  IF later = {} THEN Never ELSE Earliest(later)

Fired(j, t) == Armed(NextFireAfter(j, t), t)

Due(j, t) == mem[j].known /\ mem[j].next # Never /\ mem[j].next <= t

(***************************************************************************)
(* A task: the operation it runs, its next step, the job, the clock it     *)
(* read at the start, the instant it is firing (Never for a manual trigger *)
(* and for operations that fire nothing), the snapshot being written, the  *)
(* open file, the rows reconcile listed and the jobs left in the loop.     *)
(***************************************************************************)
Ops   == {"none", "reconcile", "tick", "trigger", "force", "add", "remove"}
Steps == {"idle", "list", "lock", "snap", "open", "write", "rename", "deliver", "turn", "dead"}
Firing == {"tick", "trigger", "force"}

IdleTask == [op |-> "none", step |-> "idle", job |-> CHOOSE j \in Jobs : TRUE,
             at |-> Never, win |-> Never, snap |-> NoJobs, file |-> NoFile,
             listed |-> NoJobs, todo |-> {}]

Writing(p) == task[p].step \in {"snap", "open", "write", "rename"}

\* Faulty variant: the loop ends with the first job that needs nothing.
ContinueOnce(t) ==
    IF t.op \in {"reconcile", "tick"} /\ t.win # Never /\ t.todo # {}
    THEN [t EXCEPT !.step = "lock", !.win = Never, !.snap = NoJobs, !.file = NoFile]
    ELSE IdleTask

\* The loops of reconcile and of the ticker go on with the next job; the
\* other operations return.
Continue(t) ==
    IF t.op \in {"reconcile", "tick"} /\ t.todo # {}
    THEN [t EXCEPT !.step = "lock", !.win = Never, !.snap = NoJobs, !.file = NoFile]
    ELSE IdleTask

Finish(p)   == task' = [task EXCEPT ![p] = Continue(@)]
GoTo(p, s)  == task' = [task EXCEPT ![p].step = s]

\* The change of a row under the write lock, and the persist() it starts.
Change(p, j, row, win) ==
    /\ mem' = [mem EXCEPT ![j] = row]
    /\ task' = [task EXCEPT ![p] =
           [task[p] EXCEPT !.step = "snap", !.job = j, !.win = win, !.todo = @ \ {j}]]
    /\ overlapped' = (overlapped \/ \E q \in Procs \ {p} : Writing(q))
    /\ UNCHANGED <<now, content, main, tmp, up, added, calls, crashes, errors, delivered, removed>>

\* A loop passes over a job that needs nothing; a call for it returns.
Miss(p, j) ==
    /\ task' = [task EXCEPT ![p] = Continue([task[p] EXCEPT !.todo = @ \ {j}])]
    /\ UNCHANGED <<now, store, up, added, calls, crashes, errors, history>>

(***************************************************************************)
(* start(): reconcile lists the jobs and upserts the ones without a next   *)
(* fire, as they were listed.  Then the ticker: at each tick it reads the  *)
(* clock once, lists the jobs and fires the due ones one after the other,  *)
(* waiting for each delivery.                                              *)
(***************************************************************************)
Known == {j \in Jobs : mem[j].known}

Reconcile(p) ==
    /\ up /\ task[p].op = "reconcile" /\ task[p].step = "list"
    /\ task' = [task EXCEPT ![p] = Continue([task[p] EXCEPT !.at = now, !.listed = mem, !.todo = Known])]
    /\ UNCHANGED <<now, store, up, added, calls, crashes, errors, history>>

\* Whatever has become of the job since it was listed.
ReconcileJob(p) ==
    /\ up /\ task[p].op = "reconcile" /\ task[p].step = "lock"
    /\ \E j \in task[p].todo :
          LET listed == task[p].listed[j]
          IN  IF listed.next = Never
              THEN /\ Change(p, j, Armed(NextFireAfter(j, task[p].at), listed.last), Never)
                   /\ UNCHANGED <<taken, rewound>>
              ELSE Miss(p, j)

Tick(p) ==
    /\ up /\ p = Ticker /\ task[p] = IdleTask
    /\ task' = [task EXCEPT ![p] =
           Continue([task[p] EXCEPT !.op = "tick", !.at = now, !.todo = Known])]
    /\ task' # task
    /\ UNCHANGED <<now, store, up, added, calls, crashes, errors, history>>

\* cas_mark_fired, of the ticker and of a trigger.
CasMarkFired(p, j) ==
    IF Due(j, task[p].at)
    THEN /\ Change(p, j, Fired(j, task[p].at), mem[j].next)
         /\ taken' = [taken EXCEPT ![j] = @ \cup {mem[j].next}]
         /\ UNCHANGED rewound
    ELSE Miss(p, j)

TickJob(p) ==
    /\ up /\ task[p].op = "tick" /\ task[p].step = "lock"
    /\ \E j \in task[p].todo : CasMarkFired(p, j)

(***************************************************************************)
(* Calls.  A call reads the clock, then waits for the store's lock.        *)
(***************************************************************************)
Call(c, op, j) ==
    /\ up /\ task[c] = IdleTask /\ calls < MaxCalls /\ calls' = calls + 1
    /\ IF op = "add" THEN j \notin added ELSE j \in added
    \* the receiver is started after the ticker
    /\ op = "trigger" => task[Ticker].op # "reconcile"
    /\ added' = added \cup {j}
    /\ task' = [task EXCEPT ![c] =
           [IdleTask EXCEPT !.op = op, !.step = "lock", !.job = j, !.at = now]]
    /\ UNCHANGED <<now, store, up, crashes, errors, history>>

Locked(c, op) == up /\ task[c].op = op /\ task[c].step = "lock"

TriggerJob(c) == Locked(c, "trigger") /\ CasMarkFired(c, task[c].job)

\* force_fire: whether the job is due or not, with the clock of the call.
ForceJob(c) ==
    /\ Locked(c, "force")
    /\ LET j == task[c].job
       IN  IF mem[j].known
           THEN /\ Change(c, j, Fired(j, task[c].at), Never)
                /\ rewound' = IF task[c].at < mem[j].last THEN rewound \cup {j} ELSE rewound
                /\ UNCHANGED taken
           ELSE Miss(c, j)

AddJob(c) ==
    /\ Locked(c, "add")
    /\ Change(c, task[c].job, Armed(NextFireAfter(task[c].job, task[c].at), Never), Never)
    /\ UNCHANGED <<taken, rewound>>

\* Faulty variant: the snapshot is taken before the change.
RemoveJobLate(c) ==
    /\ Locked(c, "remove") /\ mem[task[c].job].known
    /\ mem' = [mem EXCEPT ![task[c].job] = NoJob]
    /\ task' = [task EXCEPT ![c].step = "open", ![c].snap = mem]
    /\ overlapped' = (overlapped \/ \E q \in Procs \ {c} : Writing(q))
    /\ UNCHANGED <<now, content, main, tmp, up, added, calls, crashes, errors, taken,
                   delivered, rewound, removed>>

RemoveJob(c) ==
    /\ Locked(c, "remove")
    /\ IF mem[task[c].job].known
       THEN Change(c, task[c].job, NoJob, Never) /\ UNCHANGED <<taken, rewound>>
       ELSE Miss(c, task[c].job)

\* The client of /cron/fire hangs up: the handler is dropped where it waits.
HangUp(c) ==
    /\ up /\ task[c].op = "trigger" /\ task[c].step \notin {"idle", "write"}
    /\ task' = [task EXCEPT ![c] = IdleTask]
    /\ UNCHANGED <<now, store, up, added, calls, crashes, errors, history>>

(***************************************************************************)
(* persist(): a snapshot of the memory under the read lock, then           *)
(* jobs.json.tmp is truncated (or created), filled and renamed.  The open  *)
(* file follows a rename by another task, which then has the name          *)
(* jobs.json; the own rename finds no jobs.json.tmp any more and fails.    *)
(***************************************************************************)
Snapshot(p) ==
    /\ up /\ task[p].step = "snap"
    /\ task' = [task EXCEPT ![p].snap = mem, ![p].step = "open"]
    /\ UNCHANGED <<now, store, up, added, calls, crashes, errors, history>>

InUse == {main, tmp} \cup {task[p].file : p \in Procs}

OpenTmp(p) ==
    /\ up /\ task[p].step = "open"
    /\ tmp = NoFile => Files \ InUse # {}
    /\ LET f == IF tmp # NoFile THEN tmp ELSE CHOOSE g \in Files \ InUse : TRUE
       IN  /\ tmp' = f
           /\ content' = [content EXCEPT ![f] = NoJobs]
           /\ task' = [task EXCEPT ![p].file = f, ![p].step = "write"]
    /\ UNCHANGED <<now, mem, main, up, added, calls, crashes, errors, history>>

\* Over the bytes of another writer the result may have a tail of the
\* other's, which is no JSON.
WriteTmp(p) ==
    /\ up /\ task[p].step = "write"
    /\ \E c \in {task[p].snap} \cup (IF content[task[p].file] = NoJobs THEN {} ELSE {NoJobs}) :
          content' = [content EXCEPT ![task[p].file] = c]
    /\ GoTo(p, "rename")
    /\ UNCHANGED <<now, mem, main, tmp, up, added, calls, crashes, errors, history>>

\* Faulty variant: a failed persist() is ignored.
WriteFailsUnnoticed(p) ==
    /\ up /\ task[p].step = "write" /\ errors < MaxErrors
    /\ errors' = errors + 1
    /\ IF task[p].op \in Firing THEN GoTo(p, "deliver") ELSE Finish(p)
    /\ UNCHANGED <<now, store, up, added, calls, crashes, history>>

\* The disk is full: the error is returned and nothing is delivered; the
\* memory keeps the change.
WriteFails(p) ==
    /\ up /\ task[p].step = "write" /\ errors < MaxErrors
    /\ errors' = errors + 1
    /\ Finish(p)
    /\ UNCHANGED <<now, store, up, added, calls, crashes, history>>

RenameTmp(p) ==
    /\ up /\ task[p].step = "rename"
    /\ IF tmp = NoFile
       THEN Finish(p) /\ UNCHANGED <<main, tmp, removed>>
       ELSE /\ main' = tmp /\ tmp' = NoFile
            /\ IF task[p].op \in Firing THEN GoTo(p, "deliver") ELSE Finish(p)
            /\ removed' = IF task[p].op = "remove" /\ task[Ticker].op # "reconcile"
                          THEN removed \cup {task[p].job} ELSE removed
    /\ UNCHANGED <<now, mem, content, up, added, calls, crashes, errors, taken, delivered, rewound, overlapped>>

\* The runner starts the agent turn of the job, and waits for it without a
\* timeout.  Its result is only logged.
Deliver(p) ==
    /\ up /\ task[p].step = "deliver"
    /\ delivered' = [delivered EXCEPT ![task[p].job] = @ \cup ({task[p].win} \ {Never})]
    /\ GoTo(p, "turn")
    /\ UNCHANGED <<now, store, up, added, calls, crashes, errors, taken, rewound, removed, overlapped>>

TurnEnds(p) ==
    /\ up /\ task[p].step = "turn"
    /\ Finish(p)
    /\ UNCHANGED <<now, store, up, added, calls, crashes, errors, history>>

\* A panic of the turn, as that of a Silent job without a session source,
\* ends the task: nothing catches it, and the ticker is not started again.
TurnPanics(p) ==
    /\ up /\ task[p].step = "turn"
    /\ task' = [task EXCEPT ![p] =
           IF p = Ticker THEN [IdleTask EXCEPT !.step = "dead"] ELSE IdleTask]
    /\ UNCHANGED <<now, store, up, added, calls, crashes, errors, history>>

(***************************************************************************)
(* The clock, a crash, and the start of the process on the file it finds.  *)
(***************************************************************************)
Advance ==
    /\ now < Horizon /\ now' = now + 1
    /\ UNCHANGED <<store, task, up, added, calls, crashes, errors, history>>

Loaded == IF main = NoFile THEN NoJobs ELSE content[main]

Crash ==
    /\ up /\ crashes < MaxCrashes
    /\ crashes' = crashes + 1 /\ up' = FALSE
    /\ mem' = NoJobs /\ task' = [p \in Procs |-> IdleTask]
    /\ taken' = [j \in Jobs |-> {}]
    /\ UNCHANGED <<now, content, main, tmp, added, calls, errors, delivered, rewound, removed, overlapped>>

Restart ==
    /\ ~up /\ up' = TRUE
    /\ mem' = Loaded
    /\ task' = [task EXCEPT ![Ticker] = [IdleTask EXCEPT !.op = "reconcile", !.step = "list"]]
    /\ UNCHANGED <<now, content, main, tmp, added, calls, crashes, errors, history>>

\* What the file holds of jobs added earlier and never fired.
Before(unarmed) ==
    [j \in Jobs |-> IF j \in Stored
                    THEN Armed(IF j \in unarmed THEN Never ELSE NextFireAfter(j, 0), Never)
                    ELSE NoJob]

Init ==
    /\ now = 0 /\ up = FALSE /\ added = Stored
    /\ calls = 0 /\ crashes = 0 /\ errors = 0
    /\ mem = NoJobs /\ tmp = NoFile
    /\ main = IF Stored = {} THEN NoFile ELSE CHOOSE f \in Files : TRUE
    /\ \E unarmed \in SUBSET Stored :
          content = [f \in Files |-> IF f = main THEN Before(unarmed) ELSE NoJobs]
    /\ task = [p \in Procs |-> IdleTask]
    /\ taken = [j \in Jobs |-> {}] /\ delivered = [j \in Jobs |-> {}]
    /\ rewound = {} /\ removed = {} /\ overlapped = FALSE

Work(p) ==
    \/ Reconcile(p) \/ ReconcileJob(p) \/ Tick(p) \/ TickJob(p)
    \/ Snapshot(p) \/ OpenTmp(p) \/ WriteTmp(p) \/ RenameTmp(p) \/ Deliver(p)

Serve(c) == TriggerJob(c) \/ ForceJob(c) \/ AddJob(c) \/ RemoveJob(c)

Next ==
    \/ Advance \/ Crash \/ Restart
    \/ \E p \in Procs : Work(p) \/ WriteFails(p) \/ TurnEnds(p) \/ TurnPanics(p)
    \/ \E c \in Callers :
          \/ \E op \in {"trigger", "force", "add", "remove"}, j \in Jobs : Call(c, op, j)
          \/ Serve(c) \/ HangUp(c)

Spec == Init /\ [][Next]_vars

\* The ticker task runs and its disk operations return.  No turn has to end,
\* nobody has to call, and nothing restarts the process.
FairSpec == Spec /\ WF_vars(Work(Ticker))

(***************************************************************************)
(* Properties.                                                             *)
(***************************************************************************)
TypeOK ==
    /\ now \in Instant /\ up \in BOOLEAN /\ overlapped \in BOOLEAN
    /\ mem \in [Jobs -> Row] /\ content \in [Files -> [Jobs -> Row]]
    /\ main \in Files \cup {NoFile} /\ tmp \in Files \cup {NoFile}
    /\ task \in [Procs -> [op : Ops, step : Steps, job : Jobs, at : Instant, win : Instant,
                           snap : [Jobs -> Row], file : Files \cup {NoFile},
                           listed : [Jobs -> Row], todo : SUBSET Jobs]]
    /\ calls \in 0..MaxCalls /\ crashes \in 0..MaxCrashes /\ errors \in 0..MaxErrors
    /\ added \subseteq Jobs /\ rewound \subseteq Jobs /\ removed \subseteq Jobs
    /\ taken \in [Jobs -> SUBSET Instant] /\ delivered \in [Jobs -> SUBSET Instant]

\* At most once in one life of the process (store.rs: "two concurrent
\* triggers cannot fire one window twice"): the instant a job waits for lies
\* after every instant the CAS has handed out, so none is handed out again,
\* however the ticker and the calls interleave and however old the clock
\* reading of a slow tick is.  Only a manual trigger that read the clock
\* before the job's last fire can break it.
ArmedAheadOfTaken ==
    \A j \in Jobs \ rewound : mem[j].next = Never \/ \A d \in taken[j] : d < mem[j].next

\* At most once over restarts (job.rs: "so a restart mid-window doesn't
\* re-fire"): whenever the process dies, the file it will be restarted on
\* has no instant armed that was delivered already.  The code gives it as
\* long as no two rewrites of jobs.json overlap.
DeliveredIsDurable ==
    ~overlapped =>
        \A j \in Jobs \ rewound :
            Loaded[j].next = Never \/ \A d \in delivered[j] : d < Loaded[j].next

\* A job whose removal was acknowledged stays removed, in memory and in the
\* file, so it never fires again, also after a restart, as long as no two
\* rewrites overlap.  It is NOT so for a removal that is acknowledged while
\* start() reconciles: that may have listed the job before, without a next
\* fire, and then writes it back and arms it.
RemovedNeverFires ==
    ~overlapped => \A j \in removed : ~mem[j].known /\ ~Loaded[j].known

\* A due instant does not stay due for as long as turns end: the ticker hands
\* it out, whatever errors its disk operations meet and however many jobs and
\* calls there are, unless the process dies.  The antecedent is no promise of
\* the code: a turn that never ends, or panics, stops every job for good.
TickerComesBack == []<>(task[Ticker].step \notin {"turn", "dead"})

DueIsTaken ==
    \A j \in Jobs : \A d \in Fires[j] :
        TickerComesBack => ((mem[j].next = d /\ d <= now) ~> (mem[j].next # d))
=============================================================================
