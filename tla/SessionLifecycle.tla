-------------------------- MODULE SessionLifecycle --------------------------
(***************************************************************************)
(* The life of orchestrated sessions (crates/oneai-orchestrator): the HTTP *)
(* handlers, the detached resume tasks, the idle sweeps and the startup    *)
(* reconciliation of one or more orchestrator replicas, all working on one *)
(* session store and one container engine.                                 *)
(*                                                                         *)
(* Every step is one store operation, one container command or one probe:  *)
(* the awaits of the code lie between steps, so every interleaving that    *)
(* the async runtime and the other replicas can produce is a behaviour.    *)
(* A task keeps in "seen" what it read earlier and still relies on.        *)
(*                                                                         *)
(* Abstractions.  A replica process boots at most once; a restart is       *)
(* another element of Procs, as a restarted orchestrator draws a fresh     *)
(* replica id.  Requests are one-shot.  Whether a session is idle, how     *)
(* long it hibernated and when a lease runs out are nondeterministic.  The *)
(* two volumes of a session are one, whose content is the number of the    *)
(* last engine write it holds.  Store errors are left out.                 *)
(***************************************************************************)
EXTENDS SessionStore, FiniteSets, Integers

CONSTANTS Procs, Sessions,
          Posts, Visits, Deletes,  \* the requests clients may make
          Leasing,        \* TRUE: PgSessionStore; FALSE: FileSessionStore
          Sweepers,       \* processes with an idle timeout (0 disables the sweep)
          DeepArchive,    \* deep archive configured
          Prompt,         \* a resume ends within the deep-archive timeout
          MaxConcurrent,  \* max_concurrent_sessions of the one tenant
          Mortal,         \* processes that may crash or be shut down
          Impatient,      \* requests whose client may hang up
          MaxKills,       \* bound: container deaths
          MaxWrites       \* bound: engine writes per session

NoSession == "no session"

ASSUME RequestsAreDistinct ==
    /\ Posts \cap Visits = {} /\ Posts \cap Deletes = {}
    /\ Visits \cap Deletes = {}
ASSUME NamesAreFresh == NoOwner \notin Procs /\ NoSession \notin Sessions
ASSUME ConfigurationIsValid ==
    /\ {Leasing, DeepArchive, Prompt} \subseteq BOOLEAN
    /\ MaxConcurrent \in Nat /\ MaxKills \in Nat /\ MaxWrites \in Nat
    /\ Sweepers \subseteq Procs /\ Mortal \subseteq Procs
    /\ Impatient \subseteq Posts \cup Deletes

Requests == Posts \cup Visits \cup Deletes

VARIABLES
    entry, lease,      \* the store: the entry and the lease of each row
    box,               \* the container named after each session
    vol, files,        \* its local volume; its deep-archive files
    latest,            \* the number of engine writes the user has made
    proc, boot, sweep, \* per process: phase, reconciliation, idle sweep
    req, res,          \* request handlers; resume tasks, by spawning visit
    kills,             \* container deaths so far
    disturbed          \* sessions on which exclusion was overridden

store    == <<entry, lease>>
engine   == <<box, vol, files, latest>>
replicas == <<proc, boot, sweep>>
tasks    == <<req, res>>
ghosts   == <<kills, disturbed>>
vars     == <<store, engine, replicas, tasks, ghosts>>

-----------------------------------------------------------------------------
(* Containers and volumes, as functions from the old to the new one.  Each *)
(* start gets a fresh dynamic host port.                                   *)

Nothing == -1                      \* no such volume, or no archive files
Empty   == 0                       \* a volume nobody has written to

Spawned(b) == [up |-> "up", port |-> b.port + 1]
Started(b) == IF b.up = "up" THEN b ELSE Spawned(b)

\* Faulty variant: another name for a stopped container.
StoppedAsExited(b) == IF b.up = "up" THEN [b EXCEPT !.up = "exited"] ELSE b

Stopped(b) == IF b.up = "up" THEN [b EXCEPT !.up = "stopped"] ELSE b
Gone(b)    == [b EXCEPT !.up = "absent"]

\* docker rm, tolerated when it fails.
Removed(s) == {box, [box EXCEPT ![s] = Gone(@)]}

\* docker volume create is idempotent, and so is mounting a volume.
Ensured(v) == IF v = Nothing THEN Empty ELSE v

Healthy(s, handle) == box[s].up = "up" /\ box[s].port = handle

\* A health or TCP probe may time out on a live engine; it never succeeds
\* on a dead one.
ProbeResults(s, handle) == {FALSE, Healthy(s, handle)}

-----------------------------------------------------------------------------
(* Tasks.                                                                  *)

Task(pc, s, p) ==
    [pc |-> pc, s |-> s, p |-> p, seen |-> NoEntry, port |-> NoHandle]
Idle == Task("idle", NoSession, NoOwner)
Done == Task("done", NoSession, NoOwner)

InFlight(t) == t.pc \notin {"idle", "done"}

\* The tasks that are operating a container: a create between its insert and
\* its final transition, a resume between its claim of Resuming and its
\* final transition.
CreateOps == {"claim", "spawn", "health", "commit", "cleanup", "fail"}
ResumeOps == {"restore", "op", "health", "commit", "fail"}
Creating(c, s) == req[c].s = s /\ req[c].pc \in CreateOps
Resuming(v, s) == res[v].s = s /\ res[v].pc \in ResumeOps

Operated(s) == \/ \E c \in Posts : Creating(c, s)
               \/ \E v \in Visits : Resuming(v, s)

Goto(c, pc)    == req' = [req EXCEPT ![c].pc = pc]
Finish(c)      == req' = [req EXCEPT ![c] = Done]
GotoRes(v, pc) == res' = [res EXCEPT ![v].pc = pc]
FinishRes(v)   == res' = [res EXCEPT ![v] = Done]

Cas(s, expected, to, handle) ==
    entry' = [entry EXCEPT ![s] = CasTransition(@, expected, to, handle)]
Hit(s, expected, to) == CasHit(entry[s], expected, to)

\* Lease gating: every claim of the file backend succeeds.
CanClaim(s, p) == Leasing => Claimable(entry[s], lease[s], p)
Claim(s, p) ==
    lease' = IF Leasing /\ Claimable(entry[s], lease[s], p)
             THEN [lease EXCEPT ![s] = ClaimLease(p)] ELSE lease
Release(s, p) ==
    lease' = [lease EXCEPT ![s] = ReleaseLease(@, p)]

\* The quota counts the rows that hold resources (one tenant).
\* Faulty variant: sessions that are not up yet, or not up now, are free.
ActiveIfRunning == {s \in Sessions : entry[s].state = "Running"}

Active == {s \in Sessions : Exists(entry[s]) /\ entry[s].state \in Counted}

-----------------------------------------------------------------------------
Row == [state : States \cup {Absent}, handle : Nat, archived : BOOLEAN]
BusyPcs == {"claim", "spawn", "health", "commit", "cleanup", "fail", "probe",
            "connect", "mark", "look", "hold", "release", "read", "cas",
            "restore", "op", "unmark", "rmfiles", "retry", "cas2",
            "destroy", "remove", "get", "stop", "dclaim", "export"}
BusyTask == [pc : BusyPcs, s : Sessions, p : Procs, seen : Row, port : Nat]
TaskType == {Idle, Done} \cup BusyTask
BootType == [pc : {"next", "probe", "reread", "force", "release"},
             s : Sessions \cup {NoSession}, todo : SUBSET Sessions,
             rows : [Sessions -> Row], alive : BOOLEAN, fresh : Row]

StoreOK ==
    /\ entry \in [Sessions -> Row]
    /\ lease \in [Sessions -> [owner : Procs \cup {NoOwner}, live : BOOLEAN]]
EngineOK ==
    /\ box \in [Sessions -> [up : {"absent", "stopped", "up"}, port : Nat]]
    /\ vol \in [Sessions -> Nat \cup {Nothing}]
    /\ files \in [Sessions -> Nat \cup {Nothing}]
    /\ latest \in [Sessions -> Nat]
ReplicasOK ==
    /\ proc \in [Procs -> {"off", "boot", "up", "down"}]
    /\ boot \in [Procs -> BootType]
    /\ \A p \in Procs : boot[p].pc # "next" => boot[p].s \in Sessions
    /\ sweep \in [Procs -> TaskType]
TasksOK ==
    /\ req \in [Requests -> TaskType]
    /\ res \in [Visits -> TaskType]
GhostsOK == kills \in Nat /\ disturbed \in SUBSET Sessions

\* Every variable stays in its type; a task that is in flight, and a
\* reconciliation past the choice of a row, work on a session.
TypeOK == StoreOK /\ EngineOK /\ ReplicasOK /\ TasksOK /\ GhostsOK

BootIdle == [pc |-> "next", s |-> NoSession, todo |-> {},
             rows |-> [s \in Sessions |-> NoEntry],
             alive |-> FALSE, fresh |-> NoEntry]

Init ==
    /\ entry = [s \in Sessions |-> NoEntry]
    /\ lease = [s \in Sessions |-> NoLease]
    /\ box = [s \in Sessions |-> [up |-> "absent", port |-> NoHandle]]
    /\ vol = [s \in Sessions |-> Nothing]
    /\ files = [s \in Sessions |-> Nothing]
    /\ latest = [s \in Sessions |-> 0]
    /\ proc = [p \in Procs |-> "off"]
    /\ boot = [p \in Procs |-> BootIdle]
    /\ sweep = [p \in Procs |-> Idle]
    /\ req = [c \in Requests |-> Idle]
    /\ res = [v \in Visits |-> Idle]
    /\ kills = 0
    /\ disturbed = {}

-----------------------------------------------------------------------------
(* POST /v1/sessions: create_session_for_tenant, then spawn_and_mark.  A   *)
(* request that is rejected (the id is taken, or the quota is used up)     *)
(* changes nothing and is not a step.                                      *)

PostInsert(c) ==
    \E p \in Procs, s \in Sessions :
        /\ req[c].pc = "idle" /\ proc[p] = "up"
        /\ ~Exists(entry[s]) /\ Cardinality(Active) < MaxConcurrent
        /\ entry' = [entry EXCEPT ![s] = FreshEntry]
        /\ latest' = [latest EXCEPT ![s] = 0]
        /\ req' = [req EXCEPT ![c] = Task("claim", s, p)]
        /\ UNCHANGED <<lease, box, vol, files, replicas, res, ghosts>>

\* The creator becomes the initial owner; a failed claim is only logged.
PostClaim(c) ==
    /\ req[c].pc = "claim"
    /\ Claim(req[c].s, req[c].p)
    /\ Goto(c, "spawn")
    /\ UNCHANGED <<entry, engine, replicas, res, ghosts>>

\* DockerRunner::spawn: volumes ensured, a leftover container replaced.  It
\* may fail at each of its commands; a container without a port is removed,
\* and stays up when that fails too.
Spawn(s) ==
    /\ box' = [box EXCEPT ![s] = Spawned(@)]
    /\ vol' = [vol EXCEPT ![s] = Ensured(@)]
SpawnFails(s) ==
    /\ box' \in Removed(s) \cup {[box EXCEPT ![s] = Spawned(@)]}
    /\ vol' \in {vol, [vol EXCEPT ![s] = Ensured(@)]}

\* DockerRunner::destroy with volumes: a failed command is swallowed, and
\* the volumes of a container that is still there cannot be removed.
Destroy(s) ==
    \/ /\ box' = [box EXCEPT ![s] = Gone(@)]
       /\ vol' \in {vol, [vol EXCEPT ![s] = Nothing]}
    \/ UNCHANGED <<box, vol>>

PostSpawn(c) ==
    LET s == req[c].s IN
    /\ req[c].pc = "spawn"
    /\ \/ /\ Spawn(s)
          /\ req' = [req EXCEPT ![c].pc = "health",
                                ![c].port = box[s].port + 1]
       \/ SpawnFails(s) /\ Goto(c, "fail")
    /\ UNCHANGED <<store, files, latest, replicas, res, ghosts>>

\* wait_healthy: the deadline may pass whatever the container does.
PostHealth(c) ==
    /\ req[c].pc = "health"
    /\ \/ Healthy(req[c].s, req[c].port) /\ Goto(c, "commit")
       \/ Goto(c, "cleanup")
    /\ UNCHANGED <<store, engine, replicas, res, ghosts>>

\* A miss is an error to the client; the container stays.
PostCommit(c) ==
    /\ req[c].pc = "commit"
    /\ Cas(req[c].s, "Creating", "Running", req[c].port)
    /\ Finish(c)
    /\ UNCHANGED <<lease, engine, replicas, res, ghosts>>

\* runner.destroy(handle, false): the container goes, the volumes stay.
PostCleanup(c) ==
    /\ req[c].pc = "cleanup"
    /\ box' \in Removed(req[c].s)
    /\ Goto(c, "fail")
    /\ UNCHANGED <<store, vol, files, latest, replicas, res, ghosts>>

PostFail(c) ==
    /\ req[c].pc = "fail"
    /\ Cas(req[c].s, "Creating", "Failed", NoHandle)
    /\ Finish(c)
    /\ UNCHANGED <<lease, engine, replicas, res, ghosts>>

Post(c) == \/ PostInsert(c) \/ PostClaim(c) \/ PostSpawn(c) \/ PostHealth(c)
           \/ PostCommit(c) \/ PostCleanup(c) \/ PostFail(c)

-----------------------------------------------------------------------------
(* GET /v1/sessions/:id/ws: ws_session, with check_upstream_liveness and   *)
(* the lease guard.                                                        *)

\* The steps of a visit at which it has a LeaseGuard.
Guarding == {"probe", "connect", "mark", "look", "hold"}

VisitArrive(v) ==
    \E p \in Procs, s \in Sessions :
        /\ req[v].pc = "idle" /\ proc[p] = "up"
        /\ Exists(entry[s]) /\ CanClaim(s, p)
        /\ Claim(s, p)
        /\ req' = [req EXCEPT ![v] = Task("probe", s, p)]
        /\ UNCHANGED <<entry, engine, replicas, res, ghosts>>

\* What the handler does on the entry it has: a dormant session gets a
\* detached resume task; then it waits for readiness and proxies.
Proceed(v, e) ==
    IF ~Exists(e) THEN Goto(v, "release") /\ UNCHANGED res
    ELSE /\ Goto(v, "hold")
         /\ res' = IF e.state \in Resumable
                   THEN [res EXCEPT ![v] = Task("read", req[v].s, req[v].p)]
                   ELSE res

VisitRead(v) ==
    LET e == entry[req[v].s] IN
    /\ req[v].pc = "probe"
    /\ IF e.state = "Running"
       THEN /\ req' = [req EXCEPT ![v].pc = "connect", ![v].seen = e]
            /\ UNCHANGED res
       ELSE Proceed(v, e)
    /\ UNCHANGED <<store, engine, replicas, ghosts>>

\* probe_upstream of the handle that was read.
VisitConnect(v) ==
    /\ req[v].pc = "connect"
    /\ \E alive \in ProbeResults(req[v].s, req[v].seen.handle) :
          req' = [req EXCEPT ![v].pc = IF alive THEN "hold" ELSE "mark",
                             ![v].seen = NoEntry]
    /\ UNCHANGED <<store, engine, replicas, res, ghosts>>

VisitMark(v) ==
    /\ req[v].pc = "mark"
    /\ Cas(req[v].s, "Running", "Crashed", NoHandle)
    /\ Goto(v, "look")
    /\ UNCHANGED <<lease, engine, replicas, res, ghosts>>

VisitLook(v) ==
    /\ req[v].pc = "look"
    /\ Proceed(v, entry[req[v].s])
    /\ UNCHANGED <<store, engine, replicas, ghosts>>

\* The wait ends (ready, refused or timed out), the proxy closes, or the
\* client hangs up before; the guard is dropped.
VisitLeave(v) ==
    /\ req[v].pc \in Guarding
    /\ Goto(v, "release")
    /\ UNCHANGED <<store, engine, replicas, res, ghosts>>

\* The guard's heartbeat, while the owner recorded is still this replica.
VisitRenew(v) ==
    LET s == req[v].s IN
    /\ req[v].pc \in Guarding
    /\ lease[s].owner = req[v].p /\ ~lease[s].live
    /\ lease' = [lease EXCEPT ![s].live = TRUE]
    /\ UNCHANGED <<entry, engine, replicas, tasks, ghosts>>

\* LeaseGuard::drop: a detached task releases the lease.
VisitRelease(v) ==
    /\ req[v].pc = "release"
    /\ Release(req[v].s, req[v].p)
    /\ Finish(v)
    /\ UNCHANGED <<entry, engine, replicas, res, ghosts>>

Visit(v) == \/ VisitArrive(v) \/ VisitRead(v) \/ VisitConnect(v)
            \/ VisitMark(v) \/ VisitLook(v) \/ VisitLeave(v)
            \/ VisitRelease(v)

-----------------------------------------------------------------------------
(* resume_session, a task of its own once a visit has spawned it.          *)

ResumeRead(v) ==
    LET e == entry[res[v].s] IN
    /\ res[v].pc = "read"
    /\ IF e.state \in Resumable
       THEN res' = [res EXCEPT ![v].pc = "cas", ![v].seen = e]
       ELSE FinishRes(v)
    /\ UNCHANGED <<store, engine, replicas, req, ghosts>>

ResumeCas(v) ==
    LET s == res[v].s  from == res[v].seen.state IN
    /\ res[v].pc = "cas"
    /\ Cas(s, from, "Resuming", NoHandle)
    /\ IF Hit(s, from, "Resuming")
       THEN GotoRes(v, IF res[v].seen.archived THEN "restore" ELSE "op")
       ELSE FinishRes(v)
    /\ UNCHANGED <<lease, engine, replicas, req, ghosts>>

\* The archive is unpacked over the local volume; it fails if the files are
\* missing, if no archive store is configured any more, or on an I/O error.
ResumeRestore(v) ==
    LET s == res[v].s IN
    /\ res[v].pc = "restore"
    /\ \/ /\ files[s] # Nothing
          /\ vol' = [vol EXCEPT ![s] = files[s]]
          /\ GotoRes(v, "op")
       \/ /\ vol' \in {vol, [vol EXCEPT ![s] = Ensured(@)]}
          /\ GotoRes(v, "fail")
    /\ UNCHANGED <<store, box, files, latest, replicas, req, ghosts>>

\* A hibernated container is started again, which fails if it is gone and
\* may fail after the start; anything else is spawned anew.
Start(s) ==
    box[s].up # "absent" /\ box' = [box EXCEPT ![s] = Started(@)]

ResumeOp(v) ==
    LET s == res[v].s
        starts == /\ res[v].seen.state = "Hibernating"
                  /\ res[v].seen.handle # NoHandle
    IN
    /\ res[v].pc = "op"
    /\ \/ /\ starts /\ Start(s) /\ UNCHANGED vol
          /\ res' = [res EXCEPT ![v].pc = "health",
                                ![v].port = Started(box[s]).port]
       \/ /\ starts /\ (Start(s) \/ UNCHANGED box) /\ UNCHANGED vol
          /\ GotoRes(v, "fail")
       \/ /\ ~starts
          /\ Spawn(s)
          /\ res' = [res EXCEPT ![v].pc = "health",
                                ![v].port = box[s].port + 1]
       \/ ~starts /\ SpawnFails(s) /\ GotoRes(v, "fail")
    /\ UNCHANGED <<store, files, latest, replicas, req, ghosts>>

ResumeHealth(v) ==
    /\ res[v].pc = "health"
    /\ \/ Healthy(res[v].s, res[v].port) /\ GotoRes(v, "commit")
       \/ GotoRes(v, "fail")
    /\ UNCHANGED <<store, engine, replicas, req, ghosts>>

\* The result of the transition is not looked at.
ResumeCommit(v) ==
    /\ res[v].pc = "commit"
    /\ Cas(res[v].s, "Resuming", "Running", res[v].port)
    /\ IF res[v].seen.archived THEN GotoRes(v, "unmark") ELSE FinishRes(v)
    /\ UNCHANGED <<lease, engine, replicas, req, ghosts>>

ResumeUnmark(v) ==
    /\ res[v].pc = "unmark"
    /\ entry' = [entry EXCEPT ![res[v].s] = ClearArchived(@)]
    /\ GotoRes(v, "rmfiles")
    /\ UNCHANGED <<lease, engine, replicas, req, ghosts>>

\* A failed cleanup is only logged.
ResumeRmFiles(v) ==
    /\ res[v].pc = "rmfiles"
    /\ files' \in {files, [files EXCEPT ![res[v].s] = Nothing]}
    /\ FinishRes(v)
    /\ UNCHANGED <<store, box, vol, latest, replicas, req, ghosts>>

ResumeFail(v) ==
    /\ res[v].pc = "fail"
    /\ Cas(res[v].s, "Resuming", "Crashed", NoHandle)
    /\ FinishRes(v)
    /\ UNCHANGED <<lease, engine, replicas, req, ghosts>>

Resume(v) == \/ ResumeRead(v) \/ ResumeCas(v) \/ ResumeRestore(v)
             \/ ResumeOp(v) \/ ResumeHealth(v) \/ ResumeCommit(v)
             \/ ResumeUnmark(v) \/ ResumeRmFiles(v) \/ ResumeFail(v)

-----------------------------------------------------------------------------
(* DELETE /v1/sessions/:id: destroy_session.  No lease is asked for, and   *)
(* an operation in flight does not block it.                               *)

Override(s) ==
    disturbed' = IF Operated(s) THEN disturbed \cup {s} ELSE disturbed

DeleteRead(d) ==
    \E p \in Procs, s \in Sessions :
        /\ req[d].pc = "idle" /\ proc[p] = "up" /\ Exists(entry[s])
        /\ req' = [req EXCEPT ![d] =
                      [Task("cas", s, p) EXCEPT !.seen = entry[s]]]
        /\ UNCHANGED <<store, engine, replicas, res, ghosts>>

\* Destroyed -> Destroyed is an illegal edge: if the row is in that state,
\* the request fails with an error.
DeleteCas(d) ==
    LET s == req[d].s  from == req[d].seen.state
        hit == Hit(s, from, "Destroyed") IN
    /\ req[d].pc \in {"cas", "cas2"}
    /\ Cas(s, from, "Destroyed", NoHandle)
    /\ IF hit THEN Override(s) ELSE UNCHANGED disturbed
    /\ IF entry[s].state = from /\ ~hit THEN Finish(d)
       ELSE Goto(d, IF hit \/ req[d].pc = "cas2" THEN "destroy" ELSE "retry")
    /\ UNCHANGED <<lease, engine, replicas, res, kills>>

\* After a miss the row is read again, and the transition tried once more;
\* a second miss is not looked at.
DeleteRetry(d) ==
    LET e == entry[req[d].s] IN
    /\ req[d].pc = "retry"
    /\ IF Exists(e)
       THEN req' = [req EXCEPT ![d].pc = "cas2", ![d].seen = e]
       ELSE Finish(d)
    /\ UNCHANGED <<store, engine, replicas, res, ghosts>>

\* runner.destroy(handle, true), by the canonical names; failures ignored.
DeleteDestroy(d) ==
    /\ req[d].pc = "destroy"
    /\ Destroy(req[d].s)
    /\ Goto(d, "rmfiles")
    /\ UNCHANGED <<store, files, latest, replicas, res, ghosts>>

DeleteRmFiles(d) ==
    /\ req[d].pc = "rmfiles"
    /\ files' \in {files, [files EXCEPT ![req[d].s] = Nothing]}
    /\ Goto(d, "remove")
    /\ UNCHANGED <<store, box, vol, latest, replicas, res, ghosts>>

\* The row goes, with its lease, whatever state it is in by now.
DeleteRemove(d) ==
    LET s == req[d].s IN
    /\ req[d].pc = "remove"
    /\ entry' = [entry EXCEPT ![s] = NoEntry]
    /\ lease' = [lease EXCEPT ![s] = NoLease]
    /\ Override(s)
    /\ Finish(d)
    /\ UNCHANGED <<engine, replicas, res, kills>>

Delete(d) == \/ DeleteRead(d) \/ DeleteCas(d) \/ DeleteRetry(d)
             \/ DeleteDestroy(d) \/ DeleteRmFiles(d) \/ DeleteRemove(d)

\* The client of a create or a delete hangs up: the handler's future is
\* dropped where it stands.
HangUp(c) ==
    /\ c \in Impatient /\ InFlight(req[c])
    /\ Finish(c)
    /\ UNCHANGED <<store, engine, replicas, res, ghosts>>

-----------------------------------------------------------------------------
(* sweep_once, on each replica: idle Running sessions are hibernated, then *)
(* long-hibernating ones are deep-archived.                                *)

Sweeping(p, pc)   == p \in Sweepers /\ sweep[p].pc = pc /\ proc[p] = "up"
GotoSweep(p, pc)  == sweep' = [sweep EXCEPT ![p].pc = pc]
FinishSweep(p)    == sweep' = [sweep EXCEPT ![p] = Idle]

\* list_idle_candidates: the list is advisory, and stale when it is used.
SweepList(p) ==
    \E s \in Sessions :
        /\ Sweeping(p, "idle") /\ entry[s].state = "Running"
        /\ sweep' = [sweep EXCEPT ![p] = Task("claim", s, p)]
        /\ UNCHANGED <<store, engine, proc, boot, tasks, ghosts>>

SweepClaim(p) ==
    /\ Sweeping(p, "claim")
    /\ Claim(sweep[p].s, p)
    /\ IF CanClaim(sweep[p].s, p) THEN GotoSweep(p, "cas") ELSE FinishSweep(p)
    /\ UNCHANGED <<entry, engine, proc, boot, tasks, ghosts>>

SweepCas(p) ==
    LET s == sweep[p].s IN
    /\ Sweeping(p, "cas")
    /\ Cas(s, "Running", "Hibernating", NoHandle)
    /\ IF Hit(s, "Running", "Hibernating") THEN GotoSweep(p, "get")
                                           ELSE FinishSweep(p)
    /\ UNCHANGED <<lease, engine, proc, boot, tasks, ghosts>>

SweepGet(p) ==
    /\ Sweeping(p, "get")
    /\ IF entry[sweep[p].s].handle # NoHandle THEN GotoSweep(p, "stop")
                                              ELSE FinishSweep(p)
    /\ UNCHANGED <<store, engine, proc, boot, tasks, ghosts>>

\* docker stop, by container name; a failure is only logged.
SweepStop(p) ==
    /\ Sweeping(p, "stop")
    /\ box' \in {box, [box EXCEPT ![sweep[p].s] = Stopped(@)]}
    /\ FinishSweep(p)
    /\ UNCHANGED <<store, vol, files, latest, proc, boot, tasks, ghosts>>

\* deep_archive_pass: the row is validated under a fresh read.  It must have
\* hibernated for the whole deep-archive timeout (hours): under the timing
\* assumption Prompt, an earlier resume has ended by then, cleanup included.
DeepRead(p) ==
    \E s \in Sessions :
        /\ DeepArchive /\ Sweeping(p, "idle")
        /\ Prompt => \A v \in Visits : res[v].s # s
        /\ MarkHit(entry[s]) /\ entry[s].handle # NoHandle
        /\ sweep' = [sweep EXCEPT ![p] = Task("dclaim", s, p)]
        /\ UNCHANGED <<store, engine, proc, boot, tasks, ghosts>>

\* It is claimed for the whole archive operation.
DeepClaim(p) ==
    /\ Sweeping(p, "dclaim")
    /\ Claim(sweep[p].s, p)
    /\ IF CanClaim(sweep[p].s, p) THEN GotoSweep(p, "export")
                                  ELSE FinishSweep(p)
    /\ UNCHANGED <<entry, engine, proc, boot, tasks, ghosts>>

\* The export mounts the volume, which creates a missing one.  A failed one
\* ends the pass, however far it got.  Faulty variant: it is only logged.
DeepExportUnchecked(p) ==
    LET s == sweep[p].s IN
    /\ Sweeping(p, "export")
    /\ files' \in {files, [files EXCEPT ![s] = Ensured(vol[s])]}
    /\ vol' = [vol EXCEPT ![s] = Ensured(@)]
    /\ GotoSweep(p, "mark")
    /\ UNCHANGED <<store, box, latest, proc, boot, tasks, ghosts>>

DeepExport(p) ==
    LET s == sweep[p].s IN
    /\ Sweeping(p, "export")
    /\ \/ /\ files' = [files EXCEPT ![s] = Ensured(vol[s])]
          /\ vol' = [vol EXCEPT ![s] = Ensured(@)]
          /\ GotoSweep(p, "mark")
       \/ /\ files' \in {files, [files EXCEPT ![s] = Ensured(vol[s])]}
          /\ vol' \in {vol, [vol EXCEPT ![s] = Ensured(@)]}
          /\ GotoSweep(p, "release")
    /\ UNCHANGED <<store, box, latest, proc, boot, tasks, ghosts>>

DeepMark(p) ==
    LET s == sweep[p].s IN
    /\ Sweeping(p, "mark")
    /\ entry' = [entry EXCEPT ![s] = SetArchived(@)]
    /\ GotoSweep(p, IF MarkHit(entry[s]) THEN "destroy" ELSE "release")
    /\ UNCHANGED <<lease, engine, proc, boot, tasks, ghosts>>

\* runner.destroy(handle, true), whatever has become of the row since the
\* marker was set.
DeepDestroy(p) ==
    LET s == sweep[p].s IN
    /\ Sweeping(p, "destroy")
    /\ Destroy(s)
    /\ GotoSweep(p, "release")
    /\ UNCHANGED <<store, files, latest, proc, boot, tasks, ghosts>>

DeepRelease(p) ==
    /\ Sweeping(p, "release")
    /\ Release(sweep[p].s, p)
    /\ FinishSweep(p)
    /\ UNCHANGED <<entry, engine, proc, boot, tasks, ghosts>>

\* The guard's heartbeat keeps the lease through a long export.
ArchiveOps == {"export", "mark", "destroy"}

DeepRenew(p) ==
    LET s == sweep[p].s IN
    /\ sweep[p].pc \in ArchiveOps
    /\ lease[s].owner = p /\ ~lease[s].live
    /\ lease' = [lease EXCEPT ![s].live = TRUE]
    /\ UNCHANGED <<entry, engine, replicas, tasks, ghosts>>

Sweep(p) == \/ SweepList(p) \/ SweepClaim(p) \/ SweepCas(p) \/ SweepGet(p)
            \/ SweepStop(p) \/ DeepRead(p) \/ DeepClaim(p) \/ DeepExport(p)
            \/ DeepMark(p) \/ DeepDestroy(p) \/ DeepRelease(p)

\* A LeaseGuard for s exists on p.
Guarded(s, p) ==
    \/ \E v \in Visits : req[v].s = s /\ req[v].p = p /\ req[v].pc \in Guarding
    \/ sweep[p].s = s /\ sweep[p].pc \in ArchiveOps

-----------------------------------------------------------------------------
(* Startup: reconcile_with_store, before the replica serves anything.      *)

Booting(p, pc) == proc[p] = "boot" /\ boot[p].pc = pc

\* The rows whose state an earlier process may have left behind.
\* Faulty variant: an interrupted create is forgotten.
InterruptedButCreating == {"Running", "Resuming"}

Interrupted == {"Running", "Resuming", "Creating"}

\* load_all.  The file backend belongs to one replica at a time.
BootStart(p) ==
    /\ proc[p] = "off"
    /\ Leasing \/ \A q \in Procs : proc[q] \in {"off", "down"}
    /\ proc' = [proc EXCEPT ![p] = "boot"]
    /\ boot' = [boot EXCEPT ![p] = [BootIdle EXCEPT
                    !.rows = entry,
                    !.todo = {s \in Sessions :
                                 entry[s].state \in Interrupted}]]
    /\ UNCHANGED <<store, engine, sweep, tasks, ghosts>>

\* The next row.  A row that another replica owns is left to its owner.
BootClaim(p, s) ==
    /\ Booting(p, "next") /\ s \in boot[p].todo
    /\ Claim(s, p)
    /\ boot' = [boot EXCEPT ![p].todo = @ \ {s}, ![p].s = s,
                    ![p].pc = IF CanClaim(s, p) THEN "probe" ELSE "next"]
    /\ UNCHANGED <<entry, engine, proc, sweep, tasks, ghosts>>

\* runner.health of the handle that was listed.
BootProbe(p) ==
    LET s == boot[p].s  handle == boot[p].rows[s].handle IN
    /\ Booting(p, "probe")
    /\ \E alive \in ProbeResults(s, handle) :
          boot' = [boot EXCEPT ![p].pc = "reread",
                               ![p].alive = alive /\ handle # NoHandle]
    /\ UNCHANGED <<store, engine, proc, sweep, tasks, ghosts>>

\* Freshness: a row that changed state meanwhile is left alone.
BootReread(p) ==
    LET s == boot[p].s  moved == entry[s].state # boot[p].rows[s].state IN
    /\ Booting(p, "reread")
    /\ boot' = [boot EXCEPT ![p].pc = IF moved THEN "next" ELSE "force",
                            ![p].fresh = entry[s]]
    /\ UNCHANGED <<store, engine, proc, sweep, tasks, ghosts>>

Reconciled(b) ==
    [b.fresh EXCEPT !.state = IF b.alive THEN "Running" ELSE "Crashed"]

BootForce(p) ==
    LET s == boot[p].s IN
    /\ Booting(p, "force")
    /\ entry' = [entry EXCEPT ![s] = ForceUpdate(@, Reconciled(boot[p]))]
    /\ disturbed' = IF Operated(s) \/ entry[s] # boot[p].fresh
                    THEN disturbed \cup {s} ELSE disturbed
    /\ boot' = [boot EXCEPT ![p].pc =
                    IF Leasing /\ ~boot[p].alive THEN "release" ELSE "next"]
    /\ UNCHANGED <<lease, engine, proc, sweep, tasks, kills>>

BootRelease(p) ==
    /\ Booting(p, "release")
    /\ Release(boot[p].s, p)
    /\ boot' = [boot EXCEPT ![p].pc = "next"]
    /\ UNCHANGED <<entry, engine, proc, sweep, tasks, ghosts>>

BootDone(p) ==
    /\ Booting(p, "next") /\ boot[p].todo = {}
    /\ proc' = [proc EXCEPT ![p] = "up"]
    /\ boot' = [boot EXCEPT ![p] = BootIdle]
    /\ UNCHANGED <<store, engine, sweep, tasks, ghosts>>

Boot(p) == \/ BootStart(p) \/ \E s \in Sessions : BootClaim(p, s)
           \/ BootProbe(p) \/ BootReread(p) \/ BootForce(p)
           \/ BootRelease(p) \/ BootDone(p)

-----------------------------------------------------------------------------
(* The environment.                                                        *)

\* The tasks of a process end with it; what they had begun stays begun.
Halt(p) ==
    /\ proc' = [proc EXCEPT ![p] = "down"]
    /\ boot' = [boot EXCEPT ![p] = BootIdle]
    /\ sweep' = [sweep EXCEPT ![p] = Idle]
    /\ req' = [c \in Requests |-> IF req[c].p = p THEN Done ELSE req[c]]
    /\ res' = [v \in Visits |-> IF res[v].p = p THEN Done ELSE res[v]]

Crash(p) ==
    /\ p \in Mortal /\ proc[p] \in {"boot", "up"}
    /\ Halt(p)
    /\ UNCHANGED <<store, engine, ghosts>>

\* Graceful shutdown: requests are drained, upgraded connections and detached
\* tasks are not, and the leases are handed back.
Shutdown(p) ==
    /\ p \in Mortal /\ proc[p] = "up"
    /\ \A c \in Requests : req[c].p = p => req[c].pc \in {"hold", "release"}
    /\ Halt(p)
    /\ lease' = [s \in Sessions |-> ReleaseLease(lease[s], p)]
    /\ UNCHANGED <<entry, engine, ghosts>>

\* A missed renewal, or a claim without a guard that runs out.
Expire(s) ==
    /\ Leasing /\ lease[s].live
    /\ lease' = [lease EXCEPT ![s].live = FALSE]
    /\ UNCHANGED <<entry, engine, replicas, tasks, ghosts>>

ContainerDies(s) ==
    /\ box[s].up = "up" /\ kills < MaxKills
    /\ box' = [box EXCEPT ![s] = Stopped(@)]
    /\ kills' = kills + 1
    /\ UNCHANGED <<store, vol, files, latest, replicas, tasks, disturbed>>

\* The user works with a Running session: the engine writes to its volume.
EngineWrites(s) ==
    /\ entry[s].state = "Running" /\ Healthy(s, entry[s].handle)
    /\ latest[s] < MaxWrites
    /\ latest' = [latest EXCEPT ![s] = @ + 1]
    /\ vol' = [vol EXCEPT ![s] = latest[s] + 1]
    /\ UNCHANGED <<store, box, files, replicas, tasks, ghosts>>

Environment ==
    \/ \E p \in Procs : Crash(p) \/ Shutdown(p) \/ DeepRenew(p)
    \/ \E s \in Sessions : Expire(s) \/ ContainerDies(s) \/ EngineWrites(s)
    \/ \E c \in Requests : HangUp(c)
    \/ \E v \in Visits : VisitRenew(v)

Next ==
    \/ \E c \in Posts : Post(c)
    \/ \E v \in Visits : Visit(v) \/ Resume(v)
    \/ \E d \in Deletes : Delete(d)
    \/ \E p \in Procs : Sweep(p) \/ Boot(p)
    \/ Environment

Spec == Init /\ [][Next]_vars

(***************************************************************************)
(* Fairness.  The runtime polls every ready task, the engine answers or    *)
(* the command fails, a stopped replica is started again by its            *)
(* supervisor, no client stays connected for ever, and a lease that nobody *)
(* renews runs out.  Nothing makes a request arrive or a probe succeed.    *)
(***************************************************************************)
Lapse(s) ==
    /\ \A p \in Procs : lease[s].owner = p => ~Guarded(s, p)
    /\ Expire(s)

PostFair(c)   == WF_vars(Post(c) /\ req[c].pc # "idle")
VisitFair(v)  == WF_vars(Visit(v) /\ req[v].pc # "idle") /\ WF_vars(Resume(v))
DeleteFair(d) == WF_vars(Delete(d) /\ req[d].pc # "idle")
Fairness ==
    /\ \A c \in Posts : PostFair(c)
    /\ \A v \in Visits : VisitFair(v)
    /\ \A d \in Deletes : DeleteFair(d)
    /\ \A p \in Procs : WF_vars(Boot(p)) /\ WF_vars(Sweep(p))
    /\ \A s \in Sessions : WF_vars(Lapse(s))

FairSpec == Spec /\ Fairness

-----------------------------------------------------------------------------
(* Properties.                                                             *)

\* The compare-and-set on the lifecycle state is what gives one task the
\* right to operate a session's container, on one replica and across
\* replicas, whatever happens to the leases: a create in flight finds its
\* row Creating, a resume in flight finds it Resuming, and there is only one
\* of them.  (Unless a DELETE or a reconciliation overrode it in flight.)
CreateExcludes(s) ==
    \A c \in Posts : Creating(c, s) =>
        /\ entry[s].state = "Creating"
        /\ \A d \in Posts : Creating(d, s) => d = c
ResumeExcludes(s) ==
    \A v \in Visits : Resuming(v, s) =>
        /\ entry[s].state = "Resuming"
        /\ \A w \in Visits : Resuming(w, s) => w = v
SoleOperator ==
    \A s \in Sessions \ disturbed : CreateExcludes(s) /\ ResumeExcludes(s)

\* The proxy connects to the port in the entry: the handle of a Running row
\* names the container that was started last, through every hibernation,
\* crash and resume, and across a restart of the orchestrator.
RunningNamesNewest ==
    \A s \in Sessions \ disturbed :
        entry[s].state = "Running" => /\ entry[s].handle = box[s].port
                                      /\ entry[s].handle # NoHandle

\* insert_if_under_quota counts and inserts as one unit: no interleaving of
\* creates, crashes, resumes and deletions holds more sessions than allowed.
QuotaIsKept ==
    Cardinality({s \in Sessions : entry[s].state \notin
                     {Absent, "Failed", "Destroyed"}}) <= MaxConcurrent

\* On the file backend the replica keeps the promises of SessionContract,
\* through interleaved requests, deletions, crashes and restarts.
Contract == INSTANCE SessionContract
                WITH state <- [s \in Sessions |-> entry[s].state]
KeepsContract == Contract!Spec

\* A DELETE makes its claim on a session by the transition to Destroyed: a
\* row is removed only as a tombstone.
TombstoneFirst ==
    [][\A s \in Sessions : Exists(entry[s]) /\ ~Exists(entry'[s])
          => entry[s].state = "Destroyed"]_vars

\* A LeaseGuard is ownership for as long as it exists: only the clock takes a
\* live lease away from a replica that still has a guard for the session.
LeaseOutlivesGuards ==
    [][\A s \in Sessions, p \in Procs :
          /\ lease[s] = ClaimLease(p) /\ lease'[s].owner # p
          => ~Guarded(s, p)']_vars

\* Every session leaves Creating and Resuming again: a request that waits
\* for one is not kept waiting by an operation that nobody is doing.
PendingSettles ==
    \A s \in Sessions :
        entry[s].state \in Pending ~> entry[s].state \notin Pending

\* The data-loss red line of the deep archive, as far as the code holds it:
\* the volume of a session that is asleep, and no DELETE is at work on, goes
\* only when the archive holds what the volume holds and the row says so.  A
\* session that a visit has resumed after the marker was set is NOT covered:
\* the pass does not look at the row again, and destroys its live volume.
RedLineAsleep ==
    [][\A s \in Sessions :
          /\ entry[s].state = "Hibernating"
          /\ \A d \in Deletes : req[d].s # s
          /\ vol[s] # Nothing /\ vol'[s] = Nothing
          => entry[s].archived /\ files[s] = vol[s]]_vars

\* A restore unpacks everything the user has written: until the marker is
\* cleared, the archive is the source of truth.
ArchiveIsTruth ==
    \A v \in Visits :
        res[v].pc = "restore" /\ files[res[v].s] # Nothing
            => files[res[v].s] = latest[res[v].s]

=============================================================================
