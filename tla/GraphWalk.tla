----------------------------- MODULE GraphWalk ------------------------------
(***************************************************************************)
(* StateGraphExecutor: the frontier walk over a StateGraph, with durable   *)
(* checkpoints in a FileCheckpointStore.                                   *)
(*                                                                         *)
(* One run of one graph.  An iteration executes every node of the          *)
(* frontier: one after the other when there is a single node or one of     *)
(* them is an interrupt point, otherwise concurrently, each branch on a    *)
(* copy of the state.  The targets of the satisfied edges are the next     *)
(* frontier, which is saved with the state at the end of the iteration.    *)
(*                                                                         *)
(* Nodes are numbers, ordered like the node ids of the BTreeSet.  Of the   *)
(* GraphState are kept: the conversation, as the sequence of <<iteration,  *)
(* node>> of its messages, and the fields that edges and the loop read.    *)
(***************************************************************************)
EXTENDS Naturals, Sequences, FiniteSets, SequencesExt

CONSTANTS
    Nodes,           \* nodes of the graph, numbers
    Entry,           \* entry_point
    Terminals,       \* terminal_nodes
    Interrupts,      \* nodes with interrupt: true
    Llm,             \* nodes that set parsed_decision; the others call a tool
    Edges,           \* set of [from, to, cond]
    MaxIterations,   \* max_iterations
    MaxCrashes,      \* bound on crashes of the process
    MaxFailures,     \* bound on actions, saves and deletes that return Err
    MaxDenials       \* bound on refused interrupts

Conditions == {"always", "tools", "final", "error"}
Decisions  == {"none", "tools", "final"}

ASSUME GraphAssumption ==
    /\ Nodes \subseteq Nat /\ Nodes # {} /\ IsFiniteSet(Nodes)
    /\ Entry \in Nodes /\ Terminals \subseteq Nodes /\ Interrupts \subseteq Nodes
    /\ Llm \subseteq Nodes
    /\ Edges \subseteq [from : Nodes, to : Nodes, cond : Conditions]
    /\ MaxIterations \in Nat \ {0}
    /\ MaxCrashes \in Nat /\ MaxFailures \in Nat /\ MaxDenials \in Nat

VARIABLES
    pc,          \* where run_walk is; "off" when no walk runs
    frontier, iterations, st,    \* its variables
    todo,        \* frontier nodes not executed yet
    targets,     \* next_targets, collected so far
    branch,      \* results of the branches of a fork
    ckpt,        \* the checkpoint file of the run
    outcome,     \* how the last walk ended
    crashes, failures, denials,
    \* history, read only by the properties
    begun,       \* iterations begun under this run id
    owed,        \* nodes of the last saved frontier not executed since
    approved     \* interrupts granted in this iteration

walk    == <<pc, frontier, iterations, st, todo, targets, branch>>
faults  == <<crashes, failures, denials>>
history == <<begun, owed, approved>>
vars    == <<walk, ckpt, outcome, faults, history>>

(***************************************************************************)
(* The state of the graph, and what the execution of a node makes of it.   *)
(***************************************************************************)
FreshState == [msgs |-> <<>>, decision |-> "none", error |-> FALSE, terminate |-> FALSE]

NoFile == [kind |-> "none"]
Torn   == [kind |-> "torn"]      \* truncated, not yet filled: does not parse
Checkpoint(f, i, s) == [kind |-> "saved", frontier |-> f, iterations |-> i, state |-> s]

First(S) == CHOOSE n \in S : \A m \in S : n <= m

Satisfied(cond, s) ==
    CASE cond = "always" -> TRUE
      [] cond = "error"  -> s.error
      [] OTHER           -> s.decision = cond

\* route_next_nodes: the targets of all satisfied edges.
Route(n, s) == {e.to : e \in {d \in Edges : d.from = n /\ Satisfied(d.cond, s)}}

\* The results of an action that returns Ok, without the error it reports.
Acted(n, s, d) == [s EXCEPT !.msgs = Append(@, <<iterations, n>>), !.decision = d]

Chosen(n, s) == IF n \in Llm THEN {"tools", "final"} ELSE {s.decision}

MayFail(n) == IF n \in Llm THEN {FALSE} ELSE BOOLEAN

(***************************************************************************)
(* The caller: execute_with_checkpoints the first time, resume afterwards. *)
(* resume starts from the saved frontier, iterations and state, and clears *)
(* the flags that stopped the walk.                                        *)
(***************************************************************************)
Enter(f, i, s) ==
    /\ frontier' = f /\ iterations' = i /\ st' = s
    /\ todo' = {} /\ targets' = {} /\ branch' = <<>>
    /\ outcome' = "none" /\ approved' = {}

Start ==
    /\ pc = "off" /\ ckpt = NoFile /\ outcome = "none"
    /\ Enter({Entry}, 0, FreshState)
    /\ pc' = "save"
    /\ UNCHANGED <<ckpt, faults, begun, owed>>

\* Faulty variant: the iterations of the earlier walk are forgotten.
ResumeFresh ==
    /\ pc = "off" /\ ckpt.kind = "saved"
    /\ Enter(ckpt.frontier, 0, [ckpt.state EXCEPT !.terminate = FALSE, !.error = FALSE])
    /\ pc' = "loop"
    /\ UNCHANGED <<ckpt, faults, begun, owed>>

Resume ==
    /\ pc = "off" /\ ckpt.kind = "saved"
    /\ Enter(ckpt.frontier, ckpt.iterations,
             [ckpt.state EXCEPT !.terminate = FALSE, !.error = FALSE])
    /\ pc' = "loop"
    /\ UNCHANGED <<ckpt, faults, begun, owed>>

\* A walk ends: with Ok, completed or not, or with Err.
Stop(how) == pc' = "off" /\ outcome' = how

(***************************************************************************)
(* The head of the loop.  A terminal node of the frontier is executed      *)
(* alone, whatever else the frontier holds and without its interrupt.      *)
(***************************************************************************)
\* Faulty variant: every frontier of several nodes is a fork.
SequentialAlone(f) == Cardinality(f) = 1

Sequential(f) == Cardinality(f) = 1 \/ f \cap Interrupts # {}

Begin ==
    /\ pc = "loop" /\ iterations < MaxIterations
    /\ iterations' = iterations + 1 /\ begun' = begun + 1
    /\ targets' = {} /\ branch' = <<>> /\ approved' = {}
    /\ IF frontier \cap Terminals # {}
       THEN pc' = "terminal" /\ todo' = {First(frontier \cap Terminals)}
       ELSE /\ todo' = frontier
            /\ pc' = IF Sequential(frontier) THEN "node" ELSE "fork"
    /\ UNCHANGED <<frontier, st, ckpt, outcome, faults, owed>>

\* The budget is used up: the walk ends as completed unless it terminated.
Exhaust ==
    /\ pc = "loop" /\ iterations >= MaxIterations
    /\ pc' = "end" /\ outcome' = "exhausted"
    /\ UNCHANGED <<frontier, iterations, st, todo, targets, branch, ckpt, faults, history>>

\* Faulty variant: the checkpoint is deleted before the action.
TerminalDeletesFirst ==
    /\ pc = "terminal"
    /\ ckpt' = NoFile
    /\ LET n == First(todo)
       IN  /\ owed' = owed \ {n}
           /\ \/ /\ \E d \in Chosen(n, st), e \in MayFail(n) : st' = [Acted(n, st, d) EXCEPT !.error = e]
                 /\ pc' = "off" /\ outcome' = "terminal"
                 /\ UNCHANGED failures
              \/ /\ failures < MaxFailures /\ failures' = failures + 1
                 /\ Stop("failed") /\ UNCHANGED st
    /\ UNCHANGED <<frontier, iterations, todo, targets, branch, crashes, denials, begun, approved>>

Terminal ==
    /\ pc = "terminal"
    /\ LET n == First(todo)
       IN  /\ owed' = owed \ {n}
           /\ \/ /\ \E d \in Chosen(n, st), e \in MayFail(n) : st' = [Acted(n, st, d) EXCEPT !.error = e]
                 /\ pc' = "delete" /\ outcome' = "terminal"
                 /\ UNCHANGED failures
              \/ /\ failures < MaxFailures /\ failures' = failures + 1
                 /\ Stop("failed") /\ UNCHANGED st
    /\ UNCHANGED <<frontier, iterations, todo, targets, branch, ckpt, crashes, denials, begun, approved>>

\* A completed walk drops its checkpoint; a failure to do so is only logged.
Delete ==
    /\ pc = "delete" /\ pc' = "off"
    /\ \/ ckpt' = NoFile /\ UNCHANGED failures
       \/ failures < MaxFailures /\ failures' = failures + 1 /\ UNCHANGED ckpt
    /\ UNCHANGED <<frontier, iterations, st, todo, targets, branch, outcome, crashes, denials, history>>

(***************************************************************************)
(* execute_frontier_sequential: the nodes in order, on the shared state.   *)
(* An interrupt point asks the gate first; a refusal sets should_terminate *)
(* and leaves the rest of the frontier undone.  Err ends the walk.         *)
(***************************************************************************)
NextNode == pc = "node" /\ todo # {}

Ask ==
    /\ NextNode /\ First(todo) \in Interrupts \ approved
    /\ pc' = "gate"
    /\ UNCHANGED <<frontier, iterations, st, todo, targets, branch, ckpt, outcome, faults, history>>

Grant ==
    /\ pc = "gate" /\ pc' = "node"
    /\ approved' = approved \cup {First(todo)}
    /\ UNCHANGED <<frontier, iterations, st, todo, targets, branch, ckpt, outcome, faults, begun, owed>>

\* Abort and Revise alike.
Refuse ==
    /\ pc = "gate" /\ denials < MaxDenials
    /\ denials' = denials + 1
    /\ pc' = "route"
    /\ st' = [st EXCEPT !.terminate = TRUE, !.error = TRUE]
    /\ UNCHANGED <<frontier, iterations, todo, targets, branch, ckpt, outcome, crashes, failures, history>>

Execute ==
    /\ NextNode
    /\ LET n == First(todo)
       IN  /\ n \in Interrupts => n \in approved
           /\ owed' = owed \ {n}
           /\ \/ \E d \in Chosen(n, st), e \in MayFail(n) :
                    LET s == [Acted(n, st, d) EXCEPT !.error = e]
                    IN  /\ st' = s /\ todo' = todo \ {n}
                        /\ targets' = targets \cup Route(n, s)
                        /\ pc' = IF todo = {n} THEN "route" ELSE "node"
                        /\ UNCHANGED <<failures, outcome>>
              \/ /\ failures < MaxFailures /\ failures' = failures + 1
                 /\ Stop("failed") /\ UNCHANGED <<st, todo, targets>>
    /\ UNCHANGED <<frontier, iterations, branch, ckpt, crashes, denials, begun, approved>>

(***************************************************************************)
(* execute_frontier_parallel: the branches finish in any order.  A branch  *)
(* works on a copy of the incoming state and routes on that copy; the      *)
(* error of its own action is not in it.  An Err is kept as an error of    *)
(* the branch, which routes nevertheless.                                  *)
(***************************************************************************)
Finished == {branch[i].node : i \in DOMAIN branch}

\* Faulty variant: an Err leaves the branch without a result.
BranchLostOnErr(n) ==
    /\ pc = "fork" /\ n \in todo
    /\ owed' = owed \ {n} /\ todo' = todo \ {n}
    /\ \/ \E d \in Chosen(n, st), e \in MayFail(n) :
             LET s == Acted(n, st, d)
             IN  /\ branch' = Append(branch, [node |-> n, state |-> s, error |-> e, to |-> Route(n, s)])
                 /\ UNCHANGED failures
       \/ /\ failures < MaxFailures /\ failures' = failures + 1
          /\ UNCHANGED branch
    /\ UNCHANGED <<pc, frontier, iterations, st, targets, ckpt, outcome, crashes, denials, begun, approved>>

Branch(n) ==
    /\ pc = "fork" /\ n \in todo
    /\ owed' = owed \ {n} /\ todo' = todo \ {n}
    /\ \/ \E d \in Chosen(n, st), e \in MayFail(n) :
             LET s == Acted(n, st, d)
             IN  /\ branch' = Append(branch, [node |-> n, state |-> s, error |-> e, to |-> Route(n, s)])
                 /\ UNCHANGED failures
       \/ /\ failures < MaxFailures /\ failures' = failures + 1
          /\ branch' = Append(branch, [node |-> n, state |-> st, error |-> TRUE, to |-> Route(n, st)])
    /\ UNCHANGED <<pc, frontier, iterations, st, targets, ckpt, outcome, crashes, denials, begun, approved>>

\* The messages a branch added to the conversation it started with.
Added(b) == SubSeq(b.state.msgs, Len(st.msgs) + 1, Len(b.state.msgs))

\* Faulty variant: the branches are merged as they finished.
InOrderOfCompletion(bs) == bs

\* Sorted by node id: the i-th has i nodes up to its own.
InOrder(bs) ==
    LET Rank(k) == Cardinality({j \in DOMAIN bs : bs[j].node <= bs[k].node})
    IN  [i \in DOMAIN bs |-> bs[CHOOSE k \in DOMAIN bs : Rank(k) = i]]

\* The barrier: all branches are done, and merged in the order of the nodes.
Merge ==
    /\ pc = "fork" /\ Finished = frontier
    /\ LET bs == InOrder(branch)
       IN  st' = [st EXCEPT !.msgs = @ \o FlattenSeq([i \in DOMAIN bs |-> Added(bs[i])]),
                            !.decision = Last(bs).state.decision,
                            !.error = \E i \in DOMAIN bs : bs[i].error,
                            !.terminate = \E i \in DOMAIN bs : bs[i].state.terminate]
    /\ targets' = UNION {branch[i].to : i \in DOMAIN branch}
    /\ branch' = <<>>
    /\ pc' = "route"
    /\ UNCHANGED <<frontier, iterations, todo, ckpt, outcome, faults, history>>

(***************************************************************************)
(* The end of the iteration.  Without targets the walk is over and counts  *)
(* as completed; refused, it is saved with the frontier it stopped in.     *)
(***************************************************************************)
\* Faulty variant: a refusal does not end the walk.
EndIterationAnyway ==
    /\ pc = "route"
    /\ IF targets = {} THEN pc' = "end" /\ outcome' = "stuck" /\ UNCHANGED frontier
       ELSE pc' = "save" /\ frontier' = targets /\ UNCHANGED outcome
    /\ UNCHANGED <<iterations, st, todo, targets, branch, ckpt, faults, history>>

EndIteration ==
    /\ pc = "route"
    /\ IF st.terminate THEN pc' = "save" /\ outcome' = "denied" /\ UNCHANGED frontier
       ELSE IF targets = {} THEN pc' = "end" /\ outcome' = "stuck" /\ UNCHANGED frontier
       ELSE pc' = "save" /\ frontier' = targets /\ UNCHANGED outcome
    /\ UNCHANGED <<iterations, st, todo, targets, branch, ckpt, faults, history>>

\* completed = !should_terminate: the checkpoint is deleted.
Complete ==
    /\ pc = "end"
    /\ pc' = "delete"
    /\ UNCHANGED <<frontier, iterations, st, todo, targets, branch, ckpt, outcome, faults, history>>

\* FileCheckpointStore::save: the file is truncated, then filled.
Truncate ==
    /\ pc = "save" /\ pc' = "fill"
    /\ ckpt' = Torn
    /\ UNCHANGED <<frontier, iterations, st, todo, targets, branch, outcome, faults, history>>

Fill ==
    /\ pc = "fill"
    /\ ckpt' = Checkpoint(frontier, iterations, st)
    /\ pc' = IF outcome = "denied" THEN "off" ELSE "loop"
    /\ owed' = IF outcome = "denied" THEN owed ELSE frontier
    /\ UNCHANGED <<frontier, iterations, st, todo, targets, branch, outcome, faults, begun, approved>>

\* An Err of the save ends the walk; the file is as the error left it.
SaveFails ==
    /\ pc \in {"save", "fill"} /\ failures < MaxFailures
    /\ failures' = failures + 1
    /\ Stop("failed")
    /\ UNCHANGED <<frontier, iterations, st, todo, targets, branch, ckpt, crashes, denials, history>>

\* The process dies; only the file is left.
Crash ==
    /\ pc # "off" /\ crashes < MaxCrashes
    /\ crashes' = crashes + 1
    /\ Enter({Entry}, 0, FreshState) /\ pc' = "off"
    /\ UNCHANGED <<ckpt, failures, denials, begun, owed>>

Init ==
    /\ pc = "off" /\ ckpt = NoFile /\ outcome = "none"
    /\ frontier = {Entry} /\ iterations = 0 /\ st = FreshState
    /\ todo = {} /\ targets = {} /\ branch = <<>>
    /\ crashes = 0 /\ failures = 0 /\ denials = 0
    /\ begun = 0 /\ owed = {} /\ approved = {}

Running ==
    \/ Begin \/ Exhaust \/ Terminal \/ Delete \/ Ask \/ Execute
    \/ (\E n \in Nodes : Branch(n)) \/ Merge \/ EndIteration \/ Complete \/ Truncate \/ Fill

Next == Start \/ Resume \/ Grant \/ Refuse \/ SaveFails \/ Crash \/ Running

Spec == Init /\ [][Next]_vars

\* Actions of nodes return, and the executor goes on; nobody has to answer
\* an interrupt or to resume a walk.
FairSpec == Spec /\ WF_vars(Running)

(***************************************************************************)
(* Properties.                                                             *)
(***************************************************************************)
TypeOK ==
    /\ pc \in {"off", "loop", "terminal", "delete", "node", "gate", "route", "fork", "end", "save", "fill"}
    /\ frontier \subseteq Nodes /\ todo \subseteq Nodes /\ targets \subseteq Nodes
    /\ iterations \in 0..MaxIterations
    /\ st \in [msgs : Seq(Nat \X Nodes), decision : Decisions, error : BOOLEAN, terminate : BOOLEAN]
    /\ ckpt.kind \in {"none", "torn", "saved"}
    /\ owed \subseteq Nodes /\ approved \subseteq Nodes /\ begun \in Nat

Before(m1, m2) == m1[1] < m2[1] \/ (m1[1] = m2[1] /\ m1[2] < m2[2])

\* The conversation is the same whichever branch finishes first ("merged
\* deterministically by node-ID order"), and over any number of crashes and
\* resumes an iteration leaves each node's message in it at most once.
MergedInOrder ==
    \A i \in 1..Len(st.msgs) - 1 : Before(st.msgs[i], st.msgs[i+1])

\* checkpoint.rs: "the max_iterations bound still holds across restarts".
\* Under one run id no more iterations are begun than the budget, plus the
\* ones a crash or an Err cut short.
BudgetHolds == begun <= MaxIterations + crashes + failures

\* A walk that failed, was refused or crashed keeps its checkpoint (torn, if
\* the save was cut short), and after a refusal it holds what the walk came
\* to.  NOT covered: a walk out of budget or out of edges counts as completed
\* and loses its checkpoint, although the comment above the deletion says
\* that budget-exhausted walks persist so that a later resume sees how far
\* they got, and GraphExecutionResult that completed means a terminal node.
InterruptedIsKept ==
    pc = "off" /\ begun > 0 /\ outcome \in {"none", "failed", "denied"} =>
        /\ ckpt # NoFile
        /\ outcome = "denied" => ckpt = Checkpoint(frontier, iterations, st)

\* Outside the terminal step, an interrupt point acts only after a grant
\* given in the same iteration, even when it shares its frontier with other
\* nodes, and again after each resume.
GatedActsAfterGrant ==
    [][\A n \in Interrupts :
          (pc \in {"node", "fork"} /\ pc' # "off" /\ n \in todo \ todo') => n \in approved]_vars

\* A checkpoint moves on only when every node of its frontier has been
\* executed since it was saved: crashes, errors, refusals and resumes may
\* repeat a node, and never skip one.
NothingSkipped ==
    [][(pc = "route" /\ pc' = "save" /\ outcome' # "denied") => owed = {}]_vars

\* Every walk ends or waits for an interrupt to be answered: the barrier of
\* a fork is always passed, and cycles of the graph are cut by the budget.
WalkStops == pc # "off" ~> pc \in {"off", "gate"}
=============================================================================
