--------------------------- MODULE GraphWalkProofs ---------------------------
(***************************************************************************)
(* Proofs about GraphWalk, for every graph, every budget and any number of *)
(* crashes, errors and refusals.                                           *)
(***************************************************************************)
EXTENDS GraphWalk, SequenceTheorems, FiniteSetTheorems, WellFoundedInduction, TLAPS

Finals == {"terminal", "exhausted", "stuck"}
Within == {"terminal", "delete", "node", "gate", "route", "fork", "end", "save"}

\* There is a checkpoint once an iteration has begun, until the walk is over;
\* after a refusal it is the last one saved.
FileInv ==
    /\ begun \in Nat
    /\ ckpt.kind = "none" => \/ pc = "save" /\ begun = 0
                             \/ pc = "off" /\ (begun = 0 \/ outcome \in Finals)
    /\ pc \in {"end", "delete"} => outcome \in Finals
    /\ pc = "off" /\ outcome = "denied" => ckpt = Checkpoint(frontier, iterations, st)

\* The iterations begun under the run id are those the walk counts, and those
\* that the checkpoint will count after a resume, but for the one under way;
\* interrupted is what crashes and errors may have cut short.
interrupted == crashes + failures

BudgetInv ==
    /\ iterations \in 0..MaxIterations
    /\ begun \in Nat /\ crashes \in Nat /\ failures \in Nat
    /\ begun <= MaxIterations + interrupted
    /\ pc # "off" => begun <= iterations + interrupted
    /\ ckpt.kind = "saved" =>
          /\ ckpt.iterations \in 0..MaxIterations
          /\ begun <= ckpt.iterations + interrupted + 1
          /\ pc \notin Within => begun <= ckpt.iterations + interrupted
    /\ ckpt.kind = "none" => pc \in {"save", "off"}

\* Nodes still owed are in the frontier that the walk, or the checkpoint,
\* holds; when an iteration is over none are owed, unless it was refused.
OwedInv ==
    /\ pc # "off" => owed \subseteq frontier
    /\ ckpt.kind = "saved" => owed \subseteq ckpt.frontier
    /\ ckpt.kind = "none" => \/ owed = {}
                             \/ pc = "off" /\ outcome # "none"
    /\ pc \in {"end", "delete"} => outcome # "none"
    /\ ckpt.kind = "none" => pc \in {"off", "save"}
    /\ pc \in {"node", "gate", "fork"} => owed \subseteq todo
    /\ pc = "route" => st.terminate \/ owed = {}
    /\ pc \in {"save", "fill"} /\ outcome # "denied" => owed = {}

Fields == {"msgs", "decision", "error", "terminate"}

StateShape ==
    /\ DOMAIN st = Fields
    /\ ckpt.kind = "saved" => DOMAIN ckpt.state = Fields

\* A fork has no interrupt point, and each of its nodes is either still to be
\* executed or has left a result.
ForkInv ==
    /\ pc = "fork" => /\ frontier \cap Interrupts = {}
                      /\ todo \subseteq frontier /\ todo \cap Finished = {}
    /\ \E R : branch \in Seq(R)

(***************************************************************************)
(* The budget.                                                             *)
(***************************************************************************)
LEMMA FileInit == Init => FileInv
BY DEF Init, FileInv, NoFile

LEMMA FileStep == FileInv /\ [Next]_vars => FileInv'
<1> SUFFICES ASSUME FileInv, [Next]_vars PROVE FileInv'
    OBVIOUS
<1> USE DEF FileInv, Finals
<1>1. CASE UNCHANGED vars
    BY <1>1 DEF vars, walk, history
<1>2. CASE Start \/ Resume \/ Crash
    BY <1>2 DEF Start, Resume, Crash, Enter, NoFile
<1>3. CASE Grant \/ Refuse \/ Ask
    BY <1>3 DEF Grant, Refuse, Ask, NextNode, history
<1>4. CASE Begin \/ Exhaust
    BY <1>4 DEF Begin, Exhaust, history
<1>5. CASE Terminal
    BY <1>5 DEF Terminal, Stop
<1>6. CASE Execute
    BY <1>6 DEF Execute, NextNode, Stop
<1>7. CASE \E n \in Nodes : Branch(n)
    BY <1>7 DEF Branch
<1>8. CASE Merge \/ EndIteration \/ Complete
    BY <1>8 DEF Merge, EndIteration, Complete, history
<1>9. CASE Delete \/ Truncate \/ Fill
    BY <1>9 DEF Delete, Truncate, Fill, history, NoFile, Torn, Checkpoint
<1>10. CASE SaveFails
    BY <1>10 DEF SaveFails, Stop, history
<1> QED  BY <1>1, <1>2, <1>3, <1>4, <1>5, <1>6, <1>7, <1>8, <1>9, <1>10 DEF Next, Running

LEMMA FileAlways == Spec => []FileInv
BY FileInit, FileStep, PTL DEF Spec

LEMMA BudgetInit == Init => BudgetInv
BY GraphAssumption DEF Init, BudgetInv, NoFile, interrupted

\* A crash or an error, which may end the walk.
LEMMA BudgetInterrupted ==
    ASSUME BudgetInv,
           \/ crashes' = crashes + 1 /\ failures' = failures
           \/ crashes' = crashes /\ failures' = failures + 1,
           UNCHANGED <<ckpt, begun>>, iterations' \in 0..MaxIterations,
           pc' = "off" \/ UNCHANGED <<pc, iterations>>
    PROVE  BudgetInv'
<1>1. crashes' \in Nat /\ failures' \in Nat /\ begun' \in Nat
    BY DEF BudgetInv
<1>2. interrupted \in Nat /\ interrupted' = interrupted + 1
    BY DEF BudgetInv, interrupted
<1>3. /\ MaxIterations \in Nat /\ begun \in Nat /\ begun <= MaxIterations + interrupted
      /\ iterations \in Nat /\ (pc # "off" => begun <= iterations + interrupted)
    BY GraphAssumption DEF BudgetInv
<1>4. begun' <= MaxIterations + interrupted'
    BY <1>2, <1>3
<1>5. ASSUME pc' # "off" PROVE begun' <= iterations' + interrupted'
  <2>1. pc # "off" /\ iterations' = iterations /\ begun' = begun
      BY <1>5
  <2> QED  BY <1>2, <1>3, <2>1
<1>6. ASSUME ckpt'.kind = "saved"
      PROVE  /\ ckpt'.iterations \in 0..MaxIterations
             /\ begun' <= ckpt'.iterations + interrupted'
  <2>1. ckpt.iterations \in 0..MaxIterations /\ begun <= ckpt.iterations + interrupted + 1
      BY <1>6 DEF BudgetInv
  <2> QED  BY <1>2, <1>3, <2>1
<1>7. ASSUME ckpt'.kind = "saved"
      PROVE  begun' <= ckpt'.iterations + interrupted' + 1
    BY <1>1, <1>2, <1>6, <1>7, GraphAssumption
<1>8. ckpt'.kind = "none" => pc' \in {"save", "off"}
    BY DEF BudgetInv
<1> QED  BY <1>1, <1>4, <1>5, <1>6, <1>7, <1>8 DEF BudgetInv

LEMMA BudgetStep == FileInv /\ BudgetInv /\ [Next]_vars => BudgetInv'
<1> SUFFICES ASSUME FileInv, BudgetInv, [Next]_vars PROVE BudgetInv'
    OBVIOUS
<1> USE GraphAssumption DEF BudgetInv, Within, interrupted
<1>1. CASE UNCHANGED vars
    BY <1>1 DEF vars, walk, faults, history
<1>2. CASE Start
    BY <1>2 DEF Start, Enter, NoFile, faults, FileInv, Finals
<1>3. CASE Resume
    BY <1>3 DEF Resume, Enter, faults
<1>5. CASE Crash
    BY BudgetInterrupted, <1>5 DEF Crash, Enter
<1>6. CASE Begin
    BY <1>6 DEF Begin, faults
<1>7. CASE Terminal
    BY <1>7 DEF Terminal, Stop
<1>8. CASE Execute
  <2>1. pc = "node" /\ pc' \in {"route", "node", "off"} /\ UNCHANGED <<iterations, ckpt, begun, crashes>>
      BY <1>8 DEF Execute, NextNode, Stop
  <2>2. CASE pc' # "off" /\ UNCHANGED failures
      BY <2>1, <2>2
  <2>3. CASE pc' = "off" /\ failures' = failures + 1
      BY BudgetInterrupted, <2>1, <2>3
  <2> QED  BY <1>8, <2>2, <2>3 DEF Execute, NextNode, Stop
<1>9. CASE \E n \in Nodes : Branch(n)
  <2>1. UNCHANGED <<pc, iterations, ckpt, begun, crashes>>
      BY <1>9 DEF Branch
  <2>2. CASE UNCHANGED failures
      BY <2>1, <2>2
  <2>3. CASE failures' = failures + 1
      BY BudgetInterrupted, <2>1, <2>3
  <2> QED  BY <1>9, <2>2, <2>3 DEF Branch
<1>10. CASE Grant \/ Refuse \/ Ask \/ Exhaust
    BY <1>10 DEF Grant, Refuse, Ask, Exhaust, NextNode, faults, history
<1>11. CASE Merge \/ EndIteration \/ Complete
    BY <1>11 DEF Merge, EndIteration, Complete, faults, history
<1>12. CASE Truncate \/ Fill
    BY <1>12 DEF Truncate, Fill, faults, history, Torn, Checkpoint
<1>13. CASE Delete
  <2>1. CASE ckpt' = NoFile /\ UNCHANGED failures
      BY <1>13, <2>1 DEF Delete, history, NoFile
  <2>2. CASE failures' = failures + 1 /\ UNCHANGED ckpt
      BY <1>13, <2>2, BudgetInterrupted DEF Delete, history
  <2> QED  BY <1>13, <2>1, <2>2 DEF Delete
<1>14. CASE SaveFails
    BY <1>14, BudgetInterrupted DEF SaveFails, Stop, history
<1> QED  BY <1>1, <1>2, <1>3, <1>5, <1>6, <1>7, <1>8, <1>9, <1>10, <1>11, <1>12, <1>13, <1>14
         DEF Next, Running

LEMMA BudgetAlways == Spec => []BudgetInv
BY BudgetInit, BudgetStep, FileAlways, PTL DEF Spec

\* For every graph: the iterations begun under one run id are at most
\* max_iterations, plus the ones a crash or an Err cut short (checkpoint.rs).
THEOREM Budget == Spec => []BudgetHolds
<1>1. BudgetInv => BudgetHolds
    BY GraphAssumption DEF BudgetInv, BudgetHolds, interrupted
<1> QED  BY <1>1, BudgetAlways, PTL

\* For every graph and any crashes, errors of actions, saves and deletes, and
\* refusals: a walk that failed, was refused or crashed keeps its checkpoint,
\* after a refusal the one it came to (run_walk, resume).  Walks that ran out
\* of budget or of edges are not among them: they lose theirs.
THEOREM CheckpointKept == Spec => []InterruptedIsKept
<1>1. ckpt = NoFile => ckpt.kind = "none"
    BY DEF NoFile
<1>2. FileInv => InterruptedIsKept
    BY <1>1 DEF FileInv, InterruptedIsKept, Finals
<1> QED  BY <1>2, FileAlways, PTL

(***************************************************************************)
(* Forks and interrupt points.                                             *)
(***************************************************************************)
\* What a finished branch adds.
LEMMA FinishedGrows ==
    ASSUME NEW R, branch \in Seq(R), NEW r, branch' = Append(branch, r)
    PROVE  /\ \E S : branch' \in Seq(S)
           /\ Finished' = Finished \cup {r.node}
<1>1. branch \in Seq(R \cup {r})
    BY SeqDef
<1>2. /\ branch' \in Seq(R \cup {r})
      /\ Len(branch') = Len(branch) + 1
      /\ \A i \in 1..Len(branch) : branch'[i] = branch[i]
      /\ branch'[Len(branch) + 1] = r
    BY <1>1, AppendProperties
<1>3. DOMAIN branch = 1..Len(branch) /\ DOMAIN branch' = 1..(Len(branch) + 1) /\ Len(branch) \in Nat
    BY <1>1, <1>2, LenProperties
<1>4. DOMAIN branch' = DOMAIN branch \cup {Len(branch) + 1}
    BY <1>3
<1> QED  BY <1>2, <1>3, <1>4 DEF Finished

LEMMA ForkInit == Init => ForkInv
<1>1. <<>> \in Seq({})
    BY EmptySeq
<1> QED  BY <1>1 DEF Init, ForkInv

LEMMA ForkStep == ForkInv /\ [Next]_vars => ForkInv'
<1> SUFFICES ASSUME ForkInv, [Next]_vars PROVE ForkInv'
    OBVIOUS
<1>0. <<>> \in Seq({})
    BY EmptySeq
<1>1. CASE UNCHANGED branch /\ pc' # "fork"
    BY <1>1 DEF ForkInv
<1>2. CASE branch' = <<>> /\ pc' # "fork"
    BY <1>0, <1>2 DEF ForkInv
<1>3. CASE UNCHANGED vars
    BY <1>3 DEF ForkInv, Finished, vars, walk
<1>4. CASE Begin
  <2>1. pc' = "fork" => frontier \cap Interrupts = {}
      BY <1>4 DEF Begin, Sequential
  <2>2. branch' = <<>> /\ frontier' = frontier
      BY <1>4 DEF Begin
  <2>3. pc' = "fork" => todo' = frontier
      BY <1>4 DEF Begin
  <2>4. Finished' = {}
      BY <2>2 DEF Finished
  <2> QED  BY <1>0, <2>1, <2>2, <2>3, <2>4 DEF ForkInv
<1>5. CASE \E n \in Nodes : Branch(n)
  <2> PICK n \in Nodes : Branch(n)
      BY <1>5
  <2>1. /\ pc = "fork" /\ n \in todo /\ UNCHANGED frontier
        /\ todo' = todo \ {n}
      BY DEF Branch
  <2>2. PICK r : branch' = Append(branch, r) /\ r.node = n
    <3>1. CASE failures' = failures + 1
                /\ branch' = Append(branch, [node |-> n, state |-> st, error |-> TRUE, to |-> Route(n, st)])
        BY <3>1
    <3>2. ASSUME NEW s, NEW e, branch' = Append(branch, [node |-> n, state |-> s, error |-> e, to |-> Route(n, s)])
          PROVE  \E r : branch' = Append(branch, r) /\ r.node = n
        BY <3>2
    <3> QED  BY <3>1, <3>2 DEF Branch
  <2>3. PICK R : branch \in Seq(R)
      BY DEF ForkInv
  <2>4. /\ \E S : branch' \in Seq(S)
        /\ Finished' = Finished \cup {n}
      BY <2>2, <2>3, FinishedGrows
  <2> QED  BY <2>1, <2>4 DEF ForkInv
<1>6. CASE Start \/ Resume \/ Crash
    BY <1>2, <1>6 DEF Start, Resume, Crash, Enter
<1>7. CASE Grant \/ Refuse \/ Exhaust \/ Terminal \/ Delete \/ Ask \/ Execute
    BY <1>1, <1>7 DEF Grant, Refuse, Exhaust, Terminal, Delete, Ask, Execute, NextNode, Stop
<1>8. CASE Merge \/ EndIteration \/ Complete \/ Truncate \/ Fill \/ SaveFails
    BY <1>1, <1>2, <1>8 DEF Merge, EndIteration, Complete, Truncate, Fill, SaveFails, Stop
<1> QED  BY <1>3, <1>4, <1>5, <1>6, <1>7, <1>8 DEF Next, Running

LEMMA ForkAlways == Spec => []ForkInv
BY ForkInit, ForkStep, PTL DEF Spec

\* For every graph: outside the terminal step an interrupt point acts only
\* after a grant of the same iteration (execute_frontier_sequential).
THEOREM GateRespected == Spec => GatedActsAfterGrant
<1> DEFINE Gated == \A n \in Interrupts :
               (pc \in {"node", "fork"} /\ pc' # "off" /\ n \in todo \ todo') => n \in approved
<1>1. ASSUME ForkInv, [Next]_vars PROVE [Gated]_vars
  <2>1. CASE UNCHANGED vars
      BY <2>1
  <2>2. CASE pc \notin {"node", "fork"} \/ pc' = "off" \/ UNCHANGED todo
      BY <2>2
  <2>3. CASE Execute
      BY <2>3 DEF Execute
  <2>4. CASE pc = "fork"
      BY <2>4, <1>1 DEF ForkInv
  <2>5. CASE Start \/ Resume \/ Crash \/ Grant \/ Refuse \/ SaveFails
      BY <2>2, <2>5 DEF Start, Resume, Crash, Enter, Grant, Refuse, SaveFails
  <2>6. CASE Begin \/ Exhaust \/ Terminal \/ Delete \/ Ask
      BY <2>2, <2>6 DEF Begin, Exhaust, Terminal, Delete, Ask
  <2>7. CASE Merge \/ EndIteration \/ Complete \/ Truncate \/ Fill \/ \E n \in Nodes : Branch(n)
      BY <2>2, <2>4, <2>7 DEF Merge, EndIteration, Complete, Truncate, Fill, Branch
  <2> QED  BY <1>1, <2>1, <2>3, <2>5, <2>6, <2>7 DEF Next, Running
<1> QED  BY <1>1, ForkAlways, PTL DEF Spec, GatedActsAfterGrant

(***************************************************************************)
(* The nodes of the frontier.                                              *)
(***************************************************************************)
LEMMA ShapeInit == Init => StateShape
BY DEF Init, StateShape, FreshState, NoFile, Fields

LEMMA ShapeStep == StateShape /\ [Next]_vars => StateShape'
<1> SUFFICES ASSUME StateShape, [Next]_vars PROVE StateShape'
    OBVIOUS
<1> USE DEF StateShape
<1>1. CASE UNCHANGED <<st, ckpt>>
    BY <1>1
<1>2. CASE UNCHANGED vars
    BY <1>2 DEF vars, walk
<1>3. CASE Start \/ Resume \/ Crash
    BY <1>3 DEF Start, Resume, Crash, Enter, FreshState, Fields
<1>4. CASE Refuse
    BY <1>4 DEF Refuse
<1>5. CASE Terminal
    BY <1>5 DEF Terminal, Acted
<1>6. CASE Execute
    BY <1>6 DEF Execute, Acted
<1>7. CASE Merge
  <2>1. UNCHANGED ckpt /\ DOMAIN st' = DOMAIN st
      BY <1>7 DEF Merge
  <2> QED  BY <2>1
<1>8. CASE Delete \/ Truncate \/ Fill
    BY <1>8 DEF Delete, Truncate, Fill, NoFile, Torn, Checkpoint
<1>9. CASE Grant \/ Begin \/ Exhaust \/ Ask \/ EndIteration \/ Complete \/ SaveFails \/ \E n \in Nodes : Branch(n)
    BY <1>1, <1>9 DEF Grant, Begin, Exhaust, Ask, EndIteration, Complete, SaveFails, Branch
<1> QED  BY <1>2, <1>3, <1>4, <1>5, <1>6, <1>7, <1>8, <1>9 DEF Next, Running

LEMMA OwedInit == Init => OwedInv
BY DEF Init, OwedInv, NoFile

LEMMA OwedStep == StateShape /\ ForkInv /\ OwedInv /\ [Next]_vars => OwedInv'
<1> SUFFICES ASSUME StateShape, ForkInv, OwedInv, [Next]_vars PROVE OwedInv'
    OBVIOUS
<1> USE DEF OwedInv
<1>1. CASE UNCHANGED vars
    BY <1>1 DEF vars, walk, faults, history
<1>2. CASE Start
    BY <1>2 DEF Start, Enter, NoFile
<1>3. CASE Resume
    BY <1>3 DEF Resume, Enter
<1>4. CASE Grant
    BY <1>4 DEF Grant
<1>5. CASE Refuse
  <2>1. st'.terminate
      BY <1>5 DEF Refuse, StateShape, Fields
  <2> QED  BY <1>5, <2>1 DEF Refuse, history
<1>6. CASE Crash
    BY <1>6 DEF Crash, Enter
<1>8. CASE SaveFails
    BY <1>8 DEF SaveFails, Stop, history
<1>7. CASE Running
  <2>1. CASE Begin
      BY <2>1 DEF Begin
  <2>2. CASE Exhaust
      BY <2>2 DEF Exhaust, history
  <2>3. CASE Terminal
      BY <2>3 DEF Terminal, Stop
  <2>4. CASE Delete
      BY <2>4 DEF Delete, history, NoFile
  <2>5. CASE Ask
      BY <2>5 DEF Ask, NextNode, history
  <2>6. CASE Execute
      BY <2>6 DEF Execute, NextNode, Stop
  <2>7. CASE \E n \in Nodes : Branch(n)
      BY <2>7 DEF Branch
  <2>8. CASE Merge
    <3>1. /\ pc = "fork" /\ Finished = frontier /\ pc' = "route"
          /\ UNCHANGED <<frontier, todo, ckpt, outcome, owed>>
        BY <2>8 DEF Merge, history
    <3>2. todo = {}
        BY <3>1 DEF ForkInv
    <3> QED  BY <3>1, <3>2
  <2>9. CASE EndIteration
      BY <2>9 DEF EndIteration, history
  <2>10. CASE Complete
      BY <2>10 DEF Complete, history
  <2>11. CASE Truncate
      BY <2>11 DEF Truncate, history, Torn
  <2>12. CASE Fill
      BY <2>12 DEF Fill, Checkpoint
  <2> QED  BY <1>7, <2>1, <2>2, <2>3, <2>4, <2>5, <2>6, <2>7, <2>8, <2>9, <2>10, <2>11, <2>12 DEF Running
<1> QED  BY <1>1, <1>2, <1>3, <1>4, <1>5, <1>6, <1>7, <1>8 DEF Next

LEMMA OwedAlways == Spec => []OwedInv
BY OwedInit, OwedStep, ShapeInit, ShapeStep, ForkAlways, PTL DEF Spec

\* For every graph, over crashes, errors, refusals and resumes: a checkpoint
\* moves on only when each node of its frontier has been executed.
THEOREM FrontierDone == Spec => NothingSkipped
<1> DEFINE Moves == (pc = "route" /\ pc' = "save" /\ outcome' # "denied") => owed = {}
<1>1. ASSUME OwedInv, [Next]_vars PROVE [Moves]_vars
  <2>1. CASE UNCHANGED vars
      BY <2>1
  <2>2. CASE pc # "route"
      BY <2>2
  <2>3. CASE EndIteration
      BY <1>1, <2>3 DEF EndIteration, OwedInv
  <2>4. CASE Next /\ pc = "route"
    <3>1. EndIteration \/ Crash
        BY <2>4 DEF Next, Running, Start, Resume, Grant, Refuse, Begin, Exhaust, Terminal,
                    Delete, Ask, NextNode, Execute, Branch, Merge, Complete, Truncate, Fill, SaveFails
    <3>2. Crash => pc' # "save"
        BY DEF Crash
    <3> QED  BY <2>3, <3>1, <3>2
  <2> QED  BY <1>1, <2>1, <2>2, <2>4
<1> QED  BY <1>1, OwedAlways, PTL DEF Spec, NothingSkipped

(***************************************************************************)
(* Types.                                                                  *)
(***************************************************************************)
GraphState == [msgs : Seq(Nat \X Nodes), decision : Decisions, error : BOOLEAN, terminate : BOOLEAN]
BranchResult == [node : Nodes, state : GraphState, error : BOOLEAN, to : SUBSET Nodes]

\* The types, of the checkpoint and of the branches too; a frontier is not empty.
TypeInv ==
    /\ TypeOK /\ frontier # {}
    /\ branch \in Seq(BranchResult)
    /\ ckpt.kind = "saved" =>
          /\ ckpt.frontier \in SUBSET Nodes /\ ckpt.frontier # {}
          /\ ckpt.iterations \in 0..MaxIterations
          /\ ckpt.state \in GraphState
    /\ pc \in {"terminal", "gate"} => todo # {}

LEMMA LeastIn ==
    ASSUME NEW S \in SUBSET Nat, S # {}
    PROVE  \E n \in S : \A m \in S : n <= m
<1>1. PICK n \in S : \A m \in S : ~ (<<m, n>> \in OpToRel(<, Nat))
    BY NatLessThanWellFounded, WFMin
<1>2. ASSUME NEW m \in S PROVE n <= m
  <2>1. m \in Nat /\ n \in Nat /\ (m < n => <<m, n>> \in OpToRel(<, Nat))
      BY DEF OpToRel
  <2>2. ~ (m < n)
      BY <1>1, <2>1, Zenon
  <2>3. m \in Nat /\ n \in Nat
      OBVIOUS
  <2> QED  BY <2>2, <2>3
<1> QED  BY <1>2

LEMMA FirstIn ==
    ASSUME NEW S \in SUBSET Nodes, S # {}
    PROVE  First(S) \in S /\ \A m \in S : First(S) <= m
<1>1. S \in SUBSET Nat
    BY GraphAssumption
<1> QED  BY <1>1, LeastIn DEF First

LEMMA FreshType == FreshState \in GraphState
<1>1. <<>> \in Seq(Nat \X Nodes)
    BY EmptySeq
<1> QED  BY <1>1 DEF FreshState, GraphState, Decisions

LEMMA RouteType == ASSUME NEW n, NEW s PROVE Route(n, s) \in SUBSET Nodes
BY GraphAssumption DEF Route

\* What an action that returns Ok makes of the state.
LEMMA ActedType ==
    ASSUME NEW n \in Nodes, NEW s \in GraphState, NEW d \in Chosen(n, s), NEW e \in BOOLEAN,
           iterations \in Nat
    PROVE  /\ Acted(n, s, d) \in GraphState
           /\ Acted(n, s, d).msgs = Append(s.msgs, <<iterations, n>>)
           /\ [Acted(n, s, d) EXCEPT !.error = e] \in GraphState
           /\ [Acted(n, s, d) EXCEPT !.error = e].msgs = Append(s.msgs, <<iterations, n>>)
<1>1. d \in Decisions
    BY DEF Chosen, Decisions, GraphState
<1>2. s.msgs \in Seq(Nat \X Nodes) /\ <<iterations, n>> \in Nat \X Nodes
    BY DEF GraphState
<1>3. Append(s.msgs, <<iterations, n>>) \in Seq(Nat \X Nodes)
    BY <1>2, AppendProperties
<1> QED  BY <1>1, <1>3 DEF Acted, GraphState

LEMMA TypeInit == Init => TypeInv
<1>1. <<>> \in Seq(BranchResult)
    BY EmptySeq
<1> QED  BY <1>1, FreshType, GraphAssumption DEF Init, TypeInv, TypeOK, GraphState, NoFile

(***************************************************************************)
(* The merge: sorting the branches and joining what they added.            *)
(***************************************************************************)
Ordered(m) == \A i, j \in DOMAIN m : i < j => Before(m[i], m[j])

LEMMA InOrderSorts ==
    ASSUME NEW bs \in Seq(BranchResult),
           \A k, l \in DOMAIN bs : k # l => bs[k].node # bs[l].node
    PROVE  /\ InOrder(bs) \in Seq(BranchResult) /\ DOMAIN InOrder(bs) = DOMAIN bs
           /\ \A i \in DOMAIN bs : \E k \in DOMAIN bs : InOrder(bs)[i] = bs[k]
           /\ \A i, j \in DOMAIN bs : i < j => InOrder(bs)[i].node < InOrder(bs)[j].node
<1> DEFINE n == Len(bs)
           D == DOMAIN bs
           S(k) == {j \in D : bs[j].node <= bs[k].node}
           Rank(k) == Cardinality(S(k))
<1>1. D = 1..n /\ n \in Nat
    BY LenProperties
<1>0. \A k \in D : bs[k] \in BranchResult
    BY <1>1, ElementOfSeq
<1>2. \A k \in D : bs[k].node \in Nat
    BY <1>0, GraphAssumption DEF BranchResult
<1>3. IsFiniteSet(D) /\ Cardinality(D) = n
    BY <1>1, FS_Interval
<1>4. ASSUME NEW k \in D PROVE IsFiniteSet(S(k)) /\ Rank(k) \in D
  <2>1. S(k) \subseteq D /\ k \in S(k)
      BY <1>2
  <2>2. IsFiniteSet(S(k)) /\ Rank(k) \in Nat /\ Rank(k) <= n
      BY <1>3, <2>1, FS_Subset, FS_CardinalityType
  <2>3. Rank(k) # 0
      BY <2>1, <2>2, FS_EmptySet
  <2> QED  BY <1>1, <2>2, <2>3
<1>5. ASSUME NEW k \in D, NEW l \in D, bs[k].node <= bs[l].node
      PROVE  Rank(k) <= Rank(l)
  <2>1. S(k) \subseteq S(l)
      BY <1>2, <1>5
  <2> QED  BY <1>4, <2>1, FS_Subset
<1>6. ASSUME NEW k \in D, NEW l \in D, k # l PROVE Rank(k) # Rank(l)
  <2>1. ASSUME NEW a \in D, NEW b \in D, bs[a].node < bs[b].node PROVE Rank(a) # Rank(b)
    <3>1. S(a) \subseteq S(b) /\ b \in S(b) /\ b \notin S(a)
        BY <1>2, <2>1
    <3> QED  BY <1>4, <3>1, FS_Subset
  <2>2. bs[k].node < bs[l].node \/ bs[l].node < bs[k].node
      BY <1>2, <1>6
  <2> QED  BY <2>1, <2>2
<1>7. \A i \in D : \E k \in D : Rank(k) = i
  <2> DEFINE r == [k \in D |-> Rank(k)]
  <2>1. r \in [D -> D]
      BY <1>4
  <2>2. \A k, l \in D : r[k] = r[l] => k = l
      BY <1>6
  <2> HIDE DEF r
  <2>3. r \in Injection(D, D)
      BY <2>1, <2>2 DEF Injection, IsInjective
  <2>4. r \in Surjection(D, D)
      BY <1>3, <2>3, FS_Injection
  <2>5. \A i \in D : \E k \in D : r[k] = i
      BY <2>4 DEF Surjection
  <2> QED  BY <2>5 DEF r
<1> DEFINE At(i) == CHOOSE k \in D : Rank(k) = i
<1>8. \A i \in D : At(i) \in D /\ Rank(At(i)) = i
    BY <1>7
<1>9. InOrder(bs) = [i \in D |-> bs[At(i)]]
    BY DEF InOrder
<1> HIDE DEF At, Rank, S, D, n
<1>10. \A i, j \in D : i < j => bs[At(i)].node < bs[At(j)].node
  <2> SUFFICES ASSUME NEW i \in D, NEW j \in D, i < j PROVE bs[At(i)].node < bs[At(j)].node
      OBVIOUS
  <2>1. i \in Nat /\ j \in Nat
      BY <1>1
  <2>4. /\ At(i) \in D /\ Rank(At(i)) = i
        /\ At(j) \in D /\ Rank(At(j)) = j
      BY <1>8
  <2>2. ~ (bs[At(j)].node <= bs[At(i)].node)
    <3> SUFFICES ASSUME bs[At(j)].node <= bs[At(i)].node PROVE FALSE
        OBVIOUS
    <3>1. Rank(At(j)) <= Rank(At(i))
        BY <1>5, <2>4
    <3> QED  BY <2>1, <2>4, <3>1
  <2>3. bs[At(i)].node \in Nat /\ bs[At(j)].node \in Nat
      BY <1>2, <1>8
  <2> QED  BY <2>2, <2>3
<1>11. InOrder(bs) \in [1..n -> BranchResult]
    BY <1>0, <1>1, <1>8, <1>9
<1>12. InOrder(bs) \in Seq(BranchResult)
    BY <1>1, <1>11, SeqDef
<1> QED  BY <1>8, <1>9, <1>10, <1>12 DEF D

\* f[i] joins the first i sequences of ss, f[n] all of them.
Joins(f, ss, n) ==
    /\ FlattenSeq(ss) = f[n]
    /\ \A i \in 1..n : f[i] = IF i = 1 THEN ss[i] ELSE f[i-1] \o ss[i]

LEMMA Flattening ==
    ASSUME NEW T, NEW n \in Nat, n # 0, NEW ss \in [1..n -> Seq(T)]
    PROVE  \E f \in [1..n -> Seq(T)] : Joins(f, ss, n)
<1> DEFINE F(m) == {f \in [1..m -> Seq(T)] :
                      \A i \in 1..m : f[i] = IF i = 1 THEN ss[i] ELSE f[i-1] \o ss[i]}
           Bad == {m \in 1..n : F(m) = {}}
<1>1. Bad = {}
  <2> SUFFICES ASSUME Bad # {} PROVE FALSE
      OBVIOUS
  <2>0. Bad \in SUBSET Nat
      OBVIOUS
  <2> HIDE DEF Bad
  <2>1. PICK m \in Bad : \A k \in Bad : m <= k
      BY <2>0, LeastIn
  <2>2. m \in 1..n /\ F(m) = {}
      BY DEF Bad
  <2>3. CASE m = 1
    <3> DEFINE f == [i \in 1..m |-> ss[1]]
    <3>1. f \in F(m)
        BY <2>2, <2>3
    <3> QED  BY <2>2, <3>1
  <2>4. CASE m # 1
    <3>1. m - 1 \in 1..n /\ m - 1 \notin Bad
        BY <2>1, <2>2, <2>4
    <3>0. F(m-1) # {}
        BY <3>1 DEF Bad
    <3>2. PICK g \in [1..(m-1) -> Seq(T)] :
             \A i \in 1..(m-1) : g[i] = IF i = 1 THEN ss[i] ELSE g[i-1] \o ss[i]
        BY <3>0
    <3> DEFINE f == [i \in 1..m |-> IF i = m THEN g[m-1] \o ss[m] ELSE g[i]]
    <3>3. g[m-1] \o ss[m] \in Seq(T)
        BY <2>2, <3>1, <3>2, ConcatProperties
    <3>4. f \in [1..m -> Seq(T)]
        BY <2>2, <3>2, <3>3
    <3>5. ASSUME NEW i \in 1..m PROVE f[i] = IF i = 1 THEN ss[i] ELSE f[i-1] \o ss[i]
      <4>1. CASE i = m
        <5>1. i # 1 /\ i - 1 = m - 1 /\ m - 1 \in 1..m /\ m - 1 # m
            BY <2>2, <2>4, <4>1
        <5>2. f[m-1] = g[m-1] /\ f[m] = g[m-1] \o ss[m]
            BY <2>2, <5>1
        <5> QED  BY <4>1, <5>1, <5>2
      <4>2. CASE i # m
        <5>1. i \in 1..(m-1) /\ f[i] = g[i]
            BY <2>2, <4>2
        <5>2. i = 1 \/ (i - 1 \in 1..m /\ i - 1 # m /\ f[i-1] = g[i-1])
            BY <2>2, <5>1
        <5> QED  BY <3>2, <5>1, <5>2
      <4> QED  BY <4>1, <4>2
    <3>6. f \in F(m)
        BY <3>4, <3>5
    <3> QED  BY <2>2, <3>6
  <2> QED  BY <2>3, <2>4
<1>2. PICK f \in [1..n -> Seq(T)] : \A i \in 1..n : f[i] = IF i = 1 THEN ss[i] ELSE f[i-1] \o ss[i]
  <2>1. n \in 1..n
      OBVIOUS
  <2>2. F(n) # {}
    <3> HIDE DEF F
    <3> QED  BY <1>1, <2>1
  <2> QED  BY <2>2
<1> DEFINE Def(h) == h = [i \in 1..n |-> IF i = 1 THEN ss[i] ELSE h[i-1] \o ss[i]]
           c == CHOOSE h : Def(h)
<1>3. Def(f)
    BY <1>2
<1>4. Def(c)
    BY <1>3
<1>5. Len(ss) = n
    BY SeqDef, LenProperties
<1>6. FlattenSeq(ss) = c[n]
    BY <1>5 DEF FlattenSeq
<1> HIDE DEF c
<1>7. ASSUME NEW m \in 1..n PROVE c[m] = f[m]
  <2> DEFINE Off == {k \in 1..n : c[k] # f[k]}
  <2>1. Off = {}
    <3> SUFFICES ASSUME Off # {} PROVE FALSE
        OBVIOUS
    <3>0. Off \in SUBSET Nat
        OBVIOUS
    <3> HIDE DEF Off
    <3>1. PICK k \in Off : \A l \in Off : k <= l
        BY <3>0, LeastIn
    <3>2. k \in 1..n /\ (k = 1 \/ (k - 1 \in 1..n /\ k - 1 \notin Off))
        BY <3>1 DEF Off
    <3>3. k = 1 \/ c[k-1] = f[k-1]
        BY <3>2 DEF Off
    <3>4. c[k] = f[k]
        BY <1>3, <1>4, <3>2, <3>3
    <3> QED  BY <3>4 DEF Off
  <2> QED  BY <2>1
<1>8. FlattenSeq(ss) = f[n]
    BY <1>6, <1>7
<1> QED  BY <1>2, <1>8 DEF Joins

Message == Nat \X Nodes

LEMMA AppendOrdered ==
    ASSUME NEW m \in Seq(Message), Ordered(m), NEW x \in Message,
           \A k \in DOMAIN m : Before(m[k], x)
    PROVE  /\ Append(m, x) \in Seq(Message) /\ Ordered(Append(m, x))
           /\ \A k \in DOMAIN Append(m, x) : (k \in DOMAIN m /\ Append(m, x)[k] = m[k]) \/ Append(m, x)[k] = x
<1> DEFINE s == Append(m, x)
           n == Len(m)
<1>1. n \in Nat /\ DOMAIN m = 1..n
    BY LenProperties
<1>2. /\ s \in Seq(Message) /\ Len(s) = n + 1 /\ s[n+1] = x
      /\ \A k \in 1..n : s[k] = m[k]
    BY AppendProperties
<1>3. DOMAIN s = 1..(n+1)
    BY <1>2, LenProperties
<1> HIDE DEF s, n
<1>4. ASSUME NEW i \in DOMAIN s, NEW j \in DOMAIN s, i < j PROVE Before(s[i], s[j])
  <2>1. i \in 1..n /\ s[i] = m[i]
      BY <1>1, <1>2, <1>3, <1>4
  <2>2. CASE j = n + 1
      BY <1>1, <1>2, <2>1, <2>2
  <2>3. CASE j # n + 1
    <3>1. j \in 1..n /\ s[j] = m[j]
        BY <1>1, <1>2, <1>3, <2>3
    <3> QED  BY <1>1, <1>4, <2>1, <3>1 DEF Ordered
  <2> QED  BY <2>2, <2>3
<1>5. \A k \in DOMAIN s : (k \in DOMAIN m /\ s[k] = m[k]) \/ s[k] = x
    BY <1>1, <1>2, <1>3
<1> QED  BY <1>2, <1>4, <1>5 DEF s, Ordered

LEMMA ConcatOrdered ==
    ASSUME NEW a \in Seq(Message), NEW b \in Seq(Message), Ordered(a), Ordered(b),
           \A i \in DOMAIN a, j \in DOMAIN b : Before(a[i], b[j])
    PROVE  /\ a \o b \in Seq(Message) /\ Ordered(a \o b)
           /\ \A k \in DOMAIN (a \o b) : \/ \E i \in DOMAIN a : (a \o b)[k] = a[i]
                                         \/ \E i \in DOMAIN b : (a \o b)[k] = b[i]
<1> DEFINE s == a \o b
           n == Len(a)
           m == Len(b)
<1>1. n \in Nat /\ m \in Nat /\ DOMAIN a = 1..n /\ DOMAIN b = 1..m
    BY LenProperties
<1>2. /\ s \in Seq(Message) /\ Len(s) = n + m
      /\ \A k \in 1..(n+m) : s[k] = IF k <= n THEN a[k] ELSE b[k - n]
    BY ConcatProperties
<1>3. DOMAIN s = 1..(n+m)
    BY <1>2, LenProperties
<1> HIDE DEF s, n, m
<1>4. ASSUME NEW k \in DOMAIN s
      PROVE  \/ k <= n /\ k \in DOMAIN a /\ s[k] = a[k]
             \/ k > n /\ k - n \in DOMAIN b /\ s[k] = b[k - n]
    BY <1>1, <1>2, <1>3
<1>5. ASSUME NEW i \in DOMAIN s, NEW j \in DOMAIN s, i < j PROVE Before(s[i], s[j])
  <2>0. i \in Nat /\ j \in Nat
      BY <1>1, <1>3
  <2>1. CASE j <= n
    <3>1. i \in DOMAIN a /\ s[i] = a[i] /\ j \in DOMAIN a /\ s[j] = a[j]
        BY <1>1, <1>4, <1>5, <2>0, <2>1
    <3> QED  BY <1>5, <3>1 DEF Ordered
  <2>2. CASE i <= n /\ j > n
    <3>1. i \in DOMAIN a /\ s[i] = a[i] /\ j - n \in DOMAIN b /\ s[j] = b[j - n]
        BY <1>1, <1>4, <2>0, <2>2
    <3> QED  BY <3>1
  <2>3. CASE i > n
    <3>1. i - n \in DOMAIN b /\ s[i] = b[i - n] /\ j - n \in DOMAIN b /\ s[j] = b[j - n] /\ i - n < j - n
        BY <1>1, <1>4, <1>5, <2>0, <2>3
    <3> QED  BY <3>1 DEF Ordered
  <2> QED  BY <1>1, <2>0, <2>1, <2>2, <2>3
<1>6. \A k \in DOMAIN s : (\E i \in DOMAIN a : s[k] = a[i]) \/ (\E i \in DOMAIN b : s[k] = b[i])
    BY <1>4
<1>7. Ordered(s)
    BY <1>5 DEF Ordered
<1> QED  BY <1>2, <1>6, <1>7 DEF s

LEMMA LeThenLt ==
    ASSUME NEW a \in Nat, NEW b \in Nat, NEW c \in Nat, a <= b, b < c
    PROVE  a < c /\ a <= c
OBVIOUS

Joined(base, ss) == base \o FlattenSeq(ss)
UpTo(m, i) == \A k \in DOMAIN m : m[k][1] <= i
Earlier(m, i) == \A k \in DOMAIN m : m[k][1] < i
Increasing(node, n) == \A i, j \in 1..n : i < j => node[i] < node[j]
OneEach(ss, node, n, it) == \A i \in 1..n : ss[i] = <<>> \/ ss[i] = << <<it, node[i]>> >>

\* What branches sorted by node, with at most one message each, make of a
\* conversation of earlier iterations.
LEMMA MergedOrder ==
    ASSUME NEW base \in Seq(Message), Ordered(base), NEW it \in Nat, Earlier(base, it),
           NEW n \in Nat, n # 0, NEW node \in [1..n -> Nodes], Increasing(node, n),
           NEW ss \in [1..n -> Seq(Message)], OneEach(ss, node, n, it)
    PROVE  /\ Joined(base, ss) \in Seq(Message) /\ Ordered(Joined(base, ss))
           /\ UpTo(Joined(base, ss), it)
<1> USE DEF Earlier, Increasing, OneEach
<1>11. PICK f \in [1..n -> Seq(Message)] : Joins(f, ss, n)
    BY Flattening
<1>1. FlattenSeq(ss) = f[n] /\ \A i \in 1..n : f[i] = IF i = 1 THEN ss[i] ELSE f[i-1] \o ss[i]
    BY <1>11 DEF Joins
<1> DEFINE Good(k) == /\ Ordered(f[k])
                      /\ \A x \in DOMAIN f[k] : f[k][x][1] = it /\ f[k][x][2] <= node[k]
           Bad == {k \in 1..n : ~ Good(k)}
<1>0. \A i \in 1..n : node[i] \in Nat
    BY GraphAssumption
<1>2. ASSUME NEW i \in 1..n
      PROVE  Ordered(ss[i]) /\ \A x \in DOMAIN ss[i] : ss[i][x] = <<it, node[i]>>
  <2>1. CASE ss[i] = <<>>
      BY <2>1 DEF Ordered
  <2>2. CASE ss[i] = << <<it, node[i]>> >>
      BY <2>2 DEF Ordered
  <2> QED  BY <2>1, <2>2
<1>3. Bad = {}
  <2> SUFFICES ASSUME Bad # {} PROVE FALSE
      OBVIOUS
  <2>1. Bad \in SUBSET Nat
      OBVIOUS
  <2> HIDE DEF Bad, Good
  <2>2. PICK k \in Bad : \A l \in Bad : k <= l
      BY <2>1, LeastIn
  <2>3. k \in 1..n /\ ~ Good(k)
      BY <2>2 DEF Bad
  <2>4. CASE k = 1
    <3>1. f[k] = ss[k]
        BY <1>1, <2>3, <2>4
    <3>2. Ordered(f[k]) /\ \A x \in DOMAIN f[k] : f[k][x] = <<it, node[k]>>
        BY <1>2, <2>3, <3>1
    <3>3. Good(k)
        BY <1>0, <2>3, <3>2 DEF Good
    <3> QED  BY <2>3, <3>3
  <2>5. CASE k # 1
    <3>1. k - 1 \in 1..n /\ k - 1 \notin Bad /\ k - 1 < k
        BY <2>2, <2>3, <2>5
    <3>2. Good(k - 1)
        BY <3>1 DEF Bad
    <3>3. f[k] = f[k-1] \o ss[k] /\ f[k-1] \in Seq(Message) /\ ss[k] \in Seq(Message)
        BY <1>1, <2>3, <2>5, <3>1
    <3>4. node[k-1] < node[k] /\ node[k-1] \in Nat /\ node[k] \in Nat
        BY <1>0, <2>3, <3>1
    <3>5. ASSUME NEW i \in DOMAIN f[k-1], NEW j \in DOMAIN ss[k] PROVE Before(f[k-1][i], ss[k][j])
      <4>1. f[k-1][i][1] = it /\ f[k-1][i][2] <= node[k-1] /\ ss[k][j] = <<it, node[k]>>
          BY <1>2, <2>3, <3>2 DEF Good
      <4>2. f[k-1][i] \in Message
          BY <3>3, ElementOfSeq, LenProperties
      <4>3. f[k-1][i][2] \in Nat
          BY <4>2, GraphAssumption DEF Message
      <4>4. f[k-1][i][2] < node[k]
          BY <3>4, <4>1, <4>3, LeThenLt
      <4> QED  BY <4>1, <4>4 DEF Before
    <3>6. /\ Ordered(f[k])
          /\ \A x \in DOMAIN f[k] : \/ \E i \in DOMAIN f[k-1] : f[k][x] = f[k-1][i]
                                    \/ \E i \in DOMAIN ss[k] : f[k][x] = ss[k][i]
      <4>1. Ordered(f[k-1]) /\ Ordered(ss[k])
          BY <1>2, <2>3, <3>2 DEF Good
      <4>2. /\ Ordered(f[k-1] \o ss[k])
            /\ \A x \in DOMAIN (f[k-1] \o ss[k]) :
                  \/ \E i \in DOMAIN f[k-1] : (f[k-1] \o ss[k])[x] = f[k-1][i]
                  \/ \E i \in DOMAIN ss[k] : (f[k-1] \o ss[k])[x] = ss[k][i]
        <5>1. \A i \in DOMAIN f[k-1], j \in DOMAIN ss[k] : Before(f[k-1][i], ss[k][j])
            BY <3>5
        <5> QED  BY <3>3, <4>1, <5>1, ConcatOrdered, Zenon
      <4> QED  BY <3>3, <4>2, Zenon
    <3>7. ASSUME NEW x \in DOMAIN f[k] PROVE f[k][x][1] = it /\ f[k][x][2] <= node[k]
      <4>1. CASE \E i \in DOMAIN f[k-1] : f[k][x] = f[k-1][i]
        <5>1. PICK i \in DOMAIN f[k-1] : f[k][x] = f[k-1][i]
            BY <4>1
        <5>2. f[k-1][i] \in Message
            BY <3>3, ElementOfSeq, LenProperties
        <5>3. f[k-1][i][2] \in Nat
            BY <5>2, GraphAssumption DEF Message
        <5>4. f[k-1][i][1] = it /\ f[k-1][i][2] <= node[k-1]
            BY <3>2 DEF Good
        <5>5. f[k-1][i][2] <= node[k]
            BY <3>4, <5>3, <5>4, LeThenLt
        <5> QED  BY <5>1, <5>4, <5>5
      <4>2. CASE \E i \in DOMAIN ss[k] : f[k][x] = ss[k][i]
        <5>1. f[k][x] = <<it, node[k]>>
            BY <1>2, <2>3, <4>2
        <5> QED  BY <3>4, <5>1
      <4> QED  BY <3>6, <4>1, <4>2
    <3>8. Good(k)
        BY <3>6, <3>7 DEF Good
    <3> QED  BY <2>3, <3>8
  <2> QED  BY <2>4, <2>5
<1>4. n \in 1..n
    OBVIOUS
<1>5. /\ f[n] \in Seq(Message) /\ Ordered(f[n])
      /\ \A x \in DOMAIN f[n] : f[n][x][1] = it
    BY <1>3, <1>4
<1>6. \A i \in DOMAIN base, j \in DOMAIN f[n] : Before(base[i], f[n][j])
    BY <1>5 DEF Before
<1>7. /\ base \o f[n] \in Seq(Message) /\ Ordered(base \o f[n])
      /\ \A k \in DOMAIN (base \o f[n]) : \/ \E i \in DOMAIN base : (base \o f[n])[k] = base[i]
                                          \/ \E i \in DOMAIN f[n] : (base \o f[n])[k] = f[n][i]
    BY <1>5, <1>6, ConcatOrdered
<1>8. \A k \in DOMAIN base : base[k] \in Message
    BY ElementOfSeq, LenProperties
<1>9. \A k \in DOMAIN base : base[k][1] \in Nat
    BY <1>8 DEF Message
<1>10. \A k \in DOMAIN (base \o f[n]) : (base \o f[n])[k][1] <= it
    BY <1>5, <1>7, <1>9
<1>12. Joined(base, ss) = base \o f[n]
    BY <1>1 DEF Joined
<1> QED  BY <1>7, <1>10, <1>12 DEF UpTo

(***************************************************************************)
(* Types are kept.                                                         *)
(***************************************************************************)
LEMMA EnterType ==
    ASSUME NEW f \in SUBSET Nodes, f # {}, NEW i \in 0..MaxIterations, NEW s \in GraphState, Enter(f, i, s)
    PROVE  /\ frontier' \in SUBSET Nodes /\ frontier' # {} /\ todo' = {} /\ targets' = {}
           /\ iterations' \in 0..MaxIterations /\ st' \in GraphState
           /\ branch' \in Seq(BranchResult) /\ approved' = {}
<1>1. <<>> \in Seq(BranchResult)
    BY EmptySeq
<1> QED  BY <1>1 DEF Enter

LEMMA TypeKept ==
    ASSUME TypeInv, UNCHANGED <<frontier, iterations, st, todo, targets, branch, ckpt>>,
           pc' \in {"off", "loop", "delete", "node", "gate", "route", "fork", "end", "save", "fill"},
           pc' = "gate" => todo # {},
           owed' \subseteq Nodes, approved' \subseteq Nodes, begun' \in Nat
    PROVE  TypeInv'
BY DEF TypeInv, TypeOK

\* The end of an action of a node, alone or in a sequence.
LEMMA TypeActed ==
    ASSUME TypeInv, NEW n \in Nodes, NEW d \in Chosen(n, st), NEW e \in MayFail(n),
           st' = [Acted(n, st, d) EXCEPT !.error = e],
           UNCHANGED <<frontier, iterations, branch, ckpt, begun, approved>>,
           owed' = owed \ {n}, todo' \subseteq Nodes, targets' \subseteq Nodes,
           pc' \in {"delete", "route", "node"}
    PROVE  TypeInv'
<1>0. e \in BOOLEAN
    BY DEF MayFail
<1>1. e \in BOOLEAN /\ iterations \in Nat
    BY <1>0, GraphAssumption DEF TypeInv, TypeOK
<1>2. st \in GraphState
    BY DEF TypeInv, TypeOK, GraphState
<1>3. st' \in GraphState
    BY <1>1, <1>2, ActedType
<1> QED  BY <1>3 DEF TypeInv, TypeOK, GraphState

LEMMA BranchType ==
    ASSUME TypeInv, NEW n \in Nodes, Branch(n)
    PROVE  \E b \in BranchResult :
              /\ branch' = Append(branch, b) /\ b.node = n
              /\ b.state.msgs = st.msgs \/ b.state.msgs = Append(st.msgs, <<iterations, n>>)
<1>1. iterations \in Nat /\ st \in GraphState
    BY GraphAssumption DEF TypeInv, TypeOK, GraphState
<1>2. ASSUME NEW d \in Chosen(n, st), NEW e \in MayFail(n),
             branch' = Append(branch, [node |-> n, state |-> Acted(n, st, d), error |-> e,
                                       to |-> Route(n, Acted(n, st, d))])
      PROVE  \E b \in BranchResult :
                /\ branch' = Append(branch, b) /\ b.node = n
                /\ b.state.msgs = st.msgs \/ b.state.msgs = Append(st.msgs, <<iterations, n>>)
  <2> DEFINE b == [node |-> n, state |-> Acted(n, st, d), error |-> e, to |-> Route(n, Acted(n, st, d))]
  <2>1. e \in BOOLEAN
      BY DEF MayFail
  <2>2. Acted(n, st, d) \in GraphState /\ Acted(n, st, d).msgs = Append(st.msgs, <<iterations, n>>)
      BY <1>1, <2>1, ActedType
  <2>3. Route(n, Acted(n, st, d)) \in SUBSET Nodes
      BY RouteType
  <2>4. b \in BranchResult
      BY <2>1, <2>2, <2>3 DEF BranchResult
  <2> QED  BY <1>2, <2>2, <2>4
<1>3. ASSUME branch' = Append(branch, [node |-> n, state |-> st, error |-> TRUE, to |-> Route(n, st)])
      PROVE  \E b \in BranchResult :
                /\ branch' = Append(branch, b) /\ b.node = n
                /\ b.state.msgs = st.msgs \/ b.state.msgs = Append(st.msgs, <<iterations, n>>)
  <2> DEFINE b == [node |-> n, state |-> st, error |-> TRUE, to |-> Route(n, st)]
  <2>1. b \in BranchResult
      BY <1>1, RouteType DEF BranchResult
  <2> QED  BY <1>3, <2>1
<1> QED  BY <1>2, <1>3 DEF Branch

\* What the merge makes of the state, but for the messages.
LEMMA MergeType ==
    ASSUME TypeInv, Merge,
           \A k, l \in DOMAIN branch : k # l => branch[k].node # branch[l].node,
           st.msgs \o FlattenSeq([i \in DOMAIN InOrder(branch) |-> Added(InOrder(branch)[i])])
              \in Seq(Nat \X Nodes)
    PROVE  /\ Len(branch) # 0
           /\ st' \in GraphState /\ targets' \in SUBSET Nodes
           /\ st'.msgs = st.msgs \o FlattenSeq([i \in DOMAIN InOrder(branch) |-> Added(InOrder(branch)[i])])
<1> DEFINE bs == InOrder(branch)
<1>1. branch \in Seq(BranchResult) /\ frontier # {} /\ Finished = frontier /\ st \in GraphState
    BY DEF TypeInv, TypeOK, GraphState, Merge
<1>2. DOMAIN branch = 1..Len(branch) /\ Len(branch) \in Nat
    BY <1>1, LenProperties
<1>3. Len(branch) # 0
    BY <1>1, <1>2 DEF Finished
<1>4. bs \in Seq(BranchResult) /\ DOMAIN bs = DOMAIN branch
    BY <1>1, InOrderSorts
<1> HIDE DEF bs
<1>5. Len(bs) \in Nat /\ DOMAIN bs = 1..Len(bs)
    BY <1>4, LenProperties
<1>6. Len(bs) \in 1..Len(bs)
    BY <1>2, <1>3, <1>4, <1>5
<1>7. Last(bs) \in BranchResult
    BY <1>4, <1>6, ElementOfSeq DEF Last
<1>8. Last(bs).state.decision \in Decisions
    BY <1>7 DEF BranchResult, GraphState
<1>9. \A i \in DOMAIN branch : branch[i] \in BranchResult
    BY <1>1, <1>2, ElementOfSeq
<1>10. targets' \in SUBSET Nodes
    BY <1>9 DEF Merge, BranchResult
<1>11. st' = [st EXCEPT !.msgs = @ \o FlattenSeq([i \in DOMAIN bs |-> Added(bs[i])]),
                        !.decision = Last(bs).state.decision,
                        !.error = \E i \in DOMAIN bs : bs[i].error,
                        !.terminate = \E i \in DOMAIN bs : bs[i].state.terminate]
    BY DEF Merge, bs
<1> DEFINE joined == FlattenSeq([i \in DOMAIN bs |-> Added(bs[i])])
<1>12. st.msgs \o joined \in Seq(Nat \X Nodes)
    BY DEF bs
<1> HIDE DEF joined
<1>13. st' \in GraphState /\ st'.msgs = st.msgs \o joined
    BY <1>1, <1>8, <1>11, <1>12 DEF GraphState, joined
<1> QED  BY <1>3, <1>10, <1>13 DEF joined, bs

(***************************************************************************)
(* The order of the messages.                                              *)
(***************************************************************************)
\* The messages are in order and of the iterations counted so far, in the
\* walk and in the checkpoint.  Those of the iteration under way are of nodes
\* before the ones that remain; during a fork there are none, and a branch has
\* added to its copy at most the message of its node.
MsgInv ==
    /\ Ordered(st.msgs) /\ UpTo(st.msgs, iterations)
    /\ pc \in {"terminal", "fork"} => Earlier(st.msgs, iterations)
    /\ pc \in {"node", "gate"} =>
          \A k \in DOMAIN st.msgs, n \in todo : Before(st.msgs[k], <<iterations, n>>)
    /\ pc = "fork" =>
          /\ \A k \in DOMAIN branch :
                branch[k].state.msgs = st.msgs \/ branch[k].state.msgs = Append(st.msgs, <<iterations, branch[k].node>>)
          /\ \A k, l \in DOMAIN branch : k # l => branch[k].node # branch[l].node
    /\ ckpt.kind = "saved" => Ordered(ckpt.state.msgs) /\ UpTo(ckpt.state.msgs, ckpt.iterations)

LEMMA SingleSeq == ASSUME NEW T, NEW q \in Seq(T), Len(q) = 1 PROVE q = <<q[1]>>
OBVIOUS

LEMMA AddedOne ==
    ASSUME NEW b, NEW x, st.msgs \in Seq(Message), x \in Message,
           b.state.msgs = st.msgs \/ b.state.msgs = Append(st.msgs, x)
    PROVE  Added(b) = <<>> \/ Added(b) = <<x>>
<1> DEFINE m == st.msgs
           n == Len(m)
<1>1. n \in Nat
    BY LenProperties
<1>2. CASE b.state.msgs = m
    BY <1>1, <1>2 DEF Added
<1>3. CASE b.state.msgs = Append(m, x)
  <2> DEFINE s == Append(m, x)
  <2>1. s \in Seq(Message) /\ Len(s) = n + 1 /\ s[n+1] = x
      BY AppendProperties
  <2> HIDE DEF s, n
  <2>2. SubSeq(s, n+1, n+1) = <<x>>
    <3>1. \A i \in (n+1)..(n+1) : s[i] \in Message
        BY <1>1, <2>1
    <3>2. /\ SubSeq(s, n+1, n+1) \in Seq(Message) /\ Len(SubSeq(s, n+1, n+1)) = 1
          /\ SubSeq(s, n+1, n+1)[1] = x
        BY <1>1, <2>1, <3>1, SubSeqProperties
    <3> QED  BY <3>2, SingleSeq
  <2>3. Added(b) = SubSeq(s, n+1, n+1)
      BY <1>3, <2>1 DEF Added, s, n
  <2> QED  BY <2>2, <2>3
<1> QED  BY <1>2, <1>3

LEMMA MergeOrder ==
    ASSUME TypeInv, MsgInv, Merge
    PROVE  /\ st' \in GraphState /\ targets' \in SUBSET Nodes
           /\ Ordered(st'.msgs) /\ UpTo(st'.msgs, iterations)
<1> DEFINE bs == InOrder(branch)
           n == Len(branch)
           node == [i \in 1..n |-> bs[i].node]
           ss == [i \in DOMAIN bs |-> Added(bs[i])]
<1>1. /\ branch \in Seq(BranchResult) /\ st.msgs \in Seq(Message) /\ iterations \in Nat
      /\ frontier # {} /\ Finished = frontier /\ pc = "fork"
    BY GraphAssumption DEF TypeInv, TypeOK, Message, Merge
<1>2. \A k, l \in DOMAIN branch : k # l => branch[k].node # branch[l].node
    BY <1>1 DEF MsgInv
<1>3. DOMAIN branch = 1..n /\ n \in Nat
    BY <1>1, LenProperties
<1>4. n # 0
    BY <1>1, <1>3 DEF Finished
<1>16. /\ bs \in Seq(BranchResult) /\ DOMAIN bs = DOMAIN branch
       /\ \A i \in DOMAIN branch : \E k \in DOMAIN branch : bs[i] = branch[k]
       /\ \A i, j \in DOMAIN branch : i < j => bs[i].node < bs[j].node
    BY <1>1, <1>2, InOrderSorts, Zenon
<1> HIDE DEF bs, n
<1>5. /\ bs \in Seq(BranchResult) /\ DOMAIN bs = 1..n
      /\ \A i \in 1..n : \E k \in 1..n : bs[i] = branch[k]
      /\ \A i, j \in 1..n : i < j => bs[i].node < bs[j].node
    BY <1>3, <1>16
<1>6. \A i \in 1..n : bs[i] \in BranchResult
    BY <1>5, ElementOfSeq, LenProperties
<1>7. node \in [1..n -> Nodes]
    BY <1>6 DEF BranchResult
<1>8. ASSUME NEW i \in 1..n
      PROVE  ss[i] = <<>> \/ ss[i] = << <<iterations, node[i]>> >>
  <2>1. PICK k \in DOMAIN branch : bs[i] = branch[k]
      BY <1>3, <1>5
  <2>2. bs[i].state.msgs = st.msgs \/ bs[i].state.msgs = Append(st.msgs, <<iterations, bs[i].node>>)
      BY <1>1, <2>1 DEF MsgInv
  <2>3. bs[i].node \in Nodes /\ <<iterations, bs[i].node>> \in Message
      BY <1>1, <1>6 DEF BranchResult, Message
  <2>4. Added(bs[i]) = <<>> \/ Added(bs[i]) = << <<iterations, bs[i].node>> >>
      BY <1>1, <2>2, <2>3, AddedOne
  <2> QED  BY <1>5, <2>4
<1>9. ASSUME NEW i \in 1..n PROVE ss[i] \in Seq(Message)
  <2>1. <<iterations, node[i]>> \in Message
      BY <1>1, <1>7 DEF Message
  <2>2. <<>> \in Seq(Message) /\ << <<iterations, node[i]>> >> \in Seq(Message)
      BY <2>1
  <2> QED  BY <1>8, <2>2
<1>10. ss \in [1..n -> Seq(Message)]
    BY <1>5, <1>9
<1>11. Increasing(node, n)
    BY <1>5 DEF Increasing
<1>12. Ordered(st.msgs) /\ Earlier(st.msgs, iterations)
    BY <1>1 DEF MsgInv
<1> HIDE DEF node, ss
<1>13. /\ Joined(st.msgs, ss) \in Seq(Message) /\ Ordered(Joined(st.msgs, ss))
       /\ UpTo(Joined(st.msgs, ss), iterations)
  <2>1. OneEach(ss, node, n, iterations)
      BY <1>8 DEF OneEach
  <2> QED  BY <1>1, <1>3, <1>4, <1>7, <1>10, <1>11, <1>12, <2>1, MergedOrder, Zenon
<1>14. st.msgs \o FlattenSeq([i \in DOMAIN InOrder(branch) |-> Added(InOrder(branch)[i])]) \in Seq(Nat \X Nodes)
    BY <1>13 DEF ss, bs, Message, Joined
<1>15. /\ st' \in GraphState /\ targets' \in SUBSET Nodes
       /\ st'.msgs = Joined(st.msgs, ss)
    BY <1>2, <1>14, MergeType DEF ss, bs, Joined
<1> QED  BY <1>13, <1>15

\* One message more, of a node after all those before it.
LEMMA ActedOrder ==
    ASSUME TypeInv, MsgInv, NEW n \in Nodes, NEW d \in Chosen(n, st), NEW e \in MayFail(n),
           st' = [Acted(n, st, d) EXCEPT !.error = e],
           \A k \in DOMAIN st.msgs : Before(st.msgs[k], <<iterations, n>>)
    PROVE  /\ Ordered(st'.msgs) /\ UpTo(st'.msgs, iterations)
           /\ \A m \in Nodes : n < m => \A k \in DOMAIN st'.msgs : Before(st'.msgs[k], <<iterations, m>>)
<1>1. iterations \in Nat /\ st \in GraphState /\ st.msgs \in Seq(Message) /\ n \in Nat
    BY GraphAssumption DEF TypeInv, TypeOK, GraphState, Message
<1>2. e \in BOOLEAN
    BY DEF MayFail
<1>3. st'.msgs = Append(st.msgs, <<iterations, n>>)
    BY <1>1, <1>2, ActedType
<1>4. <<iterations, n>> \in Message
    BY <1>1 DEF Message
<1> DEFINE m == st.msgs
           x == <<iterations, n>>
<1> HIDE DEF m, x
<1>5. /\ Ordered(Append(m, x))
      /\ \A k \in DOMAIN Append(m, x) : (k \in DOMAIN m /\ Append(m, x)[k] = m[k]) \/ Append(m, x)[k] = x
    BY <1>1, <1>4, AppendOrdered DEF MsgInv, m, x
<1>6. \A k \in DOMAIN m : m[k][1] \in Nat /\ m[k][2] \in Nat /\ m[k][1] <= iterations /\ Before(m[k], x)
  <2> SUFFICES ASSUME NEW k \in DOMAIN m
               PROVE  m[k][1] \in Nat /\ m[k][2] \in Nat /\ m[k][1] <= iterations /\ Before(m[k], x)
      OBVIOUS
  <2>1. m[k] \in Message
      BY <1>1, ElementOfSeq, LenProperties DEF m
  <2>2. m[k][1] <= iterations /\ Before(m[k], x)
      BY DEF MsgInv, UpTo, m, x
  <2> QED  BY <2>1, <2>2, GraphAssumption DEF Message
<1>7. x[1] = iterations /\ x[2] = n
    BY DEF x
<1>8. UpTo(Append(m, x), iterations)
    BY <1>1, <1>5, <1>6, <1>7 DEF UpTo
<1>9. ASSUME NEW l \in Nodes, n < l, NEW k \in DOMAIN Append(m, x)
      PROVE  Before(Append(m, x)[k], <<iterations, l>>)
  <2>1. l \in Nat
      BY GraphAssumption
  <2>2. CASE k \in DOMAIN m /\ Append(m, x)[k] = m[k]
      BY <1>1, <1>6, <1>7, <1>9, <2>1, <2>2 DEF Before
  <2>3. CASE Append(m, x)[k] = x
      BY <1>7, <1>9, <2>3 DEF Before
  <2> QED  BY <1>5, <2>2, <2>3
<1> QED  BY <1>3, <1>5, <1>8, <1>9 DEF m, x

LEMMA TypeStep == TypeInv /\ MsgInv /\ [Next]_vars => TypeInv'
<1> SUFFICES ASSUME TypeInv, MsgInv, [Next]_vars PROVE TypeInv'
    OBVIOUS
<1>0. /\ st \in GraphState /\ iterations \in Nat /\ iterations \in 0..MaxIterations
      /\ frontier \in SUBSET Nodes /\ frontier # {} /\ todo \in SUBSET Nodes /\ targets \in SUBSET Nodes
      /\ owed \subseteq Nodes /\ approved \subseteq Nodes /\ begun \in Nat
      /\ Entry \in Nodes /\ MaxIterations \in Nat
    BY GraphAssumption DEF TypeInv, TypeOK, GraphState
<1>1. CASE UNCHANGED vars
    BY <1>1 DEF TypeInv, TypeOK, vars, walk, history
<1>2. CASE Start \/ Crash
  <2>1. Enter({Entry}, 0, FreshState) /\ pc' \in {"save", "off"} /\ UNCHANGED <<ckpt, begun, owed>>
      BY <1>2 DEF Start, Crash
  <2>2. {Entry} \in SUBSET Nodes /\ {Entry} # {} /\ 0 \in 0..MaxIterations
      BY <1>0
  <2>3. /\ frontier' \in SUBSET Nodes /\ frontier' # {} /\ todo' = {} /\ targets' = {}
        /\ iterations' \in 0..MaxIterations /\ st' \in GraphState
        /\ branch' \in Seq(BranchResult) /\ approved' = {}
      BY <2>1, <2>2, FreshType, EnterType
  <2> QED  BY <2>1, <2>3 DEF TypeInv, TypeOK, GraphState
<1>3. CASE Resume
  <2> DEFINE s == [ckpt.state EXCEPT !.terminate = FALSE, !.error = FALSE]
  <2>1. /\ ckpt.kind = "saved" /\ Enter(ckpt.frontier, ckpt.iterations, s)
        /\ pc' = "loop" /\ UNCHANGED <<ckpt, begun, owed>>
      BY <1>3 DEF Resume
  <2>2. /\ ckpt.frontier \in SUBSET Nodes /\ ckpt.frontier # {}
        /\ ckpt.iterations \in 0..MaxIterations /\ s \in GraphState
      BY <2>1 DEF TypeInv, GraphState
  <2> HIDE DEF s
  <2>3. /\ frontier' \in SUBSET Nodes /\ frontier' # {} /\ todo' = {} /\ targets' = {}
        /\ iterations' \in 0..MaxIterations /\ st' \in GraphState
        /\ branch' \in Seq(BranchResult) /\ approved' = {}
      BY <2>1, <2>2, EnterType
  <2> QED  BY <2>1, <2>3 DEF TypeInv, TypeOK, GraphState
<1>4. CASE Grant
  <2>1. First(todo) \in Nodes
      BY <1>0, <1>4, FirstIn DEF Grant, TypeInv
  <2> QED  BY <1>0, <1>4, <2>1, TypeKept DEF Grant
<1>5. CASE Refuse
  <2>1. st' \in GraphState
      BY <1>0, <1>5 DEF Refuse, GraphState
  <2> QED  BY <1>5, <2>1 DEF Refuse, TypeInv, TypeOK, GraphState, history
<1>6. CASE Begin
  <2>1. iterations' \in 0..MaxIterations /\ begun' \in Nat
      BY <1>0, <1>6 DEF Begin
  <2>2. <<>> \in Seq(BranchResult)
      BY EmptySeq
  <2>3. todo' \subseteq Nodes /\ (pc' = "terminal" => todo' # {}) /\ pc' \in {"terminal", "node", "fork"}
    <3>1. CASE frontier \cap Terminals # {}
      <4> DEFINE reached == frontier \cap Terminals
      <4>1. reached \in SUBSET Nodes /\ reached # {}
          BY <1>0, <3>1
      <4> HIDE DEF reached
      <4>2. First(reached) \in Nodes
          BY <4>1, FirstIn
      <4>3. pc' = "terminal" /\ todo' = {First(reached)}
          BY <1>6, <3>1 DEF Begin, reached
      <4> QED  BY <4>2, <4>3
    <3>2. CASE frontier \cap Terminals = {}
        BY <1>0, <1>6, <3>2 DEF Begin
    <3> QED  BY <3>1, <3>2
  <2> QED  BY <1>0, <1>6, <2>1, <2>2, <2>3 DEF Begin, TypeInv, TypeOK
<1>7. CASE Terminal
  <2>1. First(todo) \in Nodes
      BY <1>0, <1>7, FirstIn DEF Terminal, TypeInv
  <2>2. CASE \E d \in Chosen(First(todo), st), e \in MayFail(First(todo)) :
                st' = [Acted(First(todo), st, d) EXCEPT !.error = e] /\ pc' = "delete"
      BY <1>0, <1>7, <2>1, <2>2, TypeActed DEF Terminal
  <2>3. CASE pc' = "off" /\ UNCHANGED st
      BY <1>0, <1>7, <2>3, TypeKept DEF Terminal
  <2> QED  BY <1>7, <2>2, <2>3 DEF Terminal, Stop
<1>8. CASE Execute
  <2>1. First(todo) \in todo /\ First(todo) \in Nodes
      BY <1>0, <1>8, FirstIn DEF Execute, NextNode
  <2>2. CASE \E d \in Chosen(First(todo), st), e \in MayFail(First(todo)) :
                /\ st' = [Acted(First(todo), st, d) EXCEPT !.error = e]
                /\ todo' = todo \ {First(todo)}
                /\ targets' = targets \cup Route(First(todo), [Acted(First(todo), st, d) EXCEPT !.error = e])
                /\ pc' \in {"route", "node"}
    <3>1. todo' \subseteq Nodes /\ targets' \subseteq Nodes
        BY <1>0, <2>2, RouteType
    <3> QED  BY <1>0, <1>8, <2>1, <2>2, <3>1, TypeActed DEF Execute
  <2>3. CASE pc' = "off" /\ UNCHANGED <<st, todo, targets>>
      BY <1>0, <1>8, <2>3, TypeKept DEF Execute
  <2> QED  BY <1>8, <2>2, <2>3 DEF Execute, Stop
<1>9. CASE \E n \in Nodes : Branch(n)
  <2> PICK n \in Nodes : Branch(n)
      BY <1>9
  <2>1. PICK b \in BranchResult : branch' = Append(branch, b)
      BY BranchType
  <2>2. branch' \in Seq(BranchResult)
      BY <2>1, AppendProperties DEF TypeInv
  <2>3. /\ pc' = pc /\ pc = "fork" /\ todo' \subseteq Nodes /\ owed' \subseteq Nodes
        /\ UNCHANGED <<frontier, iterations, st, targets, ckpt, begun, approved>>
      BY <1>0 DEF Branch
  <2> QED  BY <2>2, <2>3 DEF TypeInv, TypeOK
<1>10. CASE Merge
  <2>1. st' \in GraphState /\ targets' \in SUBSET Nodes
      BY <1>10, MergeOrder
  <2>2. <<>> \in Seq(BranchResult)
      BY EmptySeq
  <2> QED  BY <1>10, <2>1, <2>2 DEF Merge, TypeInv, TypeOK, GraphState, history
<1>11. CASE EndIteration
    BY <1>11 DEF EndIteration, TypeInv, TypeOK, history
<1>12. CASE Exhaust \/ Complete
    BY <1>0, <1>12, TypeKept DEF Exhaust, Complete, history
<1>13. CASE Ask
    BY <1>0, <1>13, TypeKept DEF Ask, NextNode, history
<1>14. CASE Delete \/ Truncate \/ Fill
    BY <1>14 DEF Delete, Truncate, Fill, TypeInv, TypeOK, history, NoFile, Torn, Checkpoint, GraphState
<1>15. CASE SaveFails
    BY <1>15 DEF SaveFails, Stop, TypeInv, TypeOK, history
<1> QED  BY <1>1, <1>2, <1>3, <1>4, <1>5, <1>6, <1>7, <1>8, <1>9, <1>10, <1>11, <1>12, <1>13, <1>14, <1>15
            DEF Next, Running

LEMMA MsgInit == Init => MsgInv
BY DEF Init, MsgInv, FreshState, NoFile, Ordered, UpTo

LEMMA OrderKept ==
    ASSUME MsgInv, UNCHANGED <<iterations, st, ckpt>>, pc' \notin {"terminal", "fork"},
           pc' \in {"node", "gate"} => pc \in {"node", "gate"} /\ todo' = todo
    PROVE  MsgInv'
BY DEF MsgInv, Ordered, UpTo

LEMMA MsgStep == TypeInv /\ ForkInv /\ MsgInv /\ [Next]_vars => MsgInv'
<1> SUFFICES ASSUME TypeInv, ForkInv, MsgInv, [Next]_vars PROVE MsgInv'
    OBVIOUS
<1>0. /\ st \in GraphState /\ st.msgs \in Seq(Message) /\ iterations \in Nat /\ todo \in SUBSET Nodes
      /\ frontier \in SUBSET Nodes /\ branch \in Seq(BranchResult)
    BY GraphAssumption DEF TypeInv, TypeOK, GraphState, Message
<1>1. CASE UNCHANGED vars
    BY <1>1 DEF MsgInv, Ordered, UpTo, Earlier, vars, walk
<1>2. CASE Start \/ Crash
    BY <1>2 DEF Start, Crash, Enter, FreshState, MsgInv, Ordered, UpTo
<1>3. CASE Resume
  <2>1. /\ st'.msgs = ckpt.state.msgs /\ iterations' = ckpt.iterations /\ ckpt.kind = "saved"
        /\ pc' = "loop" /\ UNCHANGED ckpt
      BY <1>3 DEF Resume, Enter, TypeInv, GraphState
  <2> QED  BY <2>1 DEF MsgInv, Ordered, UpTo
<1>4. CASE Grant \/ Ask
    BY <1>4, OrderKept DEF Grant, Ask, NextNode
<1>5. CASE Refuse
  <2>1. st'.msgs = st.msgs /\ UNCHANGED <<iterations, ckpt>> /\ pc' = "route"
      BY <1>0, <1>5 DEF Refuse, GraphState
  <2> QED  BY <2>1 DEF MsgInv, Ordered, UpTo
<1>6. CASE Begin
  <2>1. /\ iterations' = iterations + 1 /\ UNCHANGED <<st, ckpt>> /\ branch' = <<>>
        /\ pc' \in {"terminal", "node", "fork"}
      BY <1>6 DEF Begin
  <2>2. \A k \in DOMAIN st.msgs : st.msgs[k][1] \in Nat
    <3> SUFFICES ASSUME NEW k \in DOMAIN st.msgs PROVE st.msgs[k][1] \in Nat
        OBVIOUS
    <3>1. st.msgs[k] \in Message
        BY <1>0, ElementOfSeq, LenProperties
    <3> QED  BY <3>1 DEF Message
  <2>3. \A k \in DOMAIN st'.msgs : st'.msgs[k][1] < iterations'
      BY <1>0, <2>1, <2>2 DEF MsgInv, UpTo
  <2>4. UpTo(st'.msgs, iterations')
      BY <1>0, <2>1, <2>2 DEF MsgInv, UpTo
  <2>5. Ordered(st'.msgs)
      BY <2>1 DEF MsgInv, Ordered
  <2> QED  BY <2>1, <2>3, <2>4, <2>5 DEF MsgInv, Before, Earlier
<1>7. CASE Terminal
  <2>1. First(todo) \in Nodes /\ UNCHANGED <<iterations, ckpt>> /\ pc = "terminal"
      BY <1>0, <1>7, FirstIn DEF Terminal, TypeInv
  <2>2. ASSUME NEW d \in Chosen(First(todo), st), NEW e \in MayFail(First(todo)),
               st' = [Acted(First(todo), st, d) EXCEPT !.error = e], pc' = "delete"
        PROVE  MsgInv'
    <3>1. \A k \in DOMAIN st.msgs : Before(st.msgs[k], <<iterations, First(todo)>>)
        BY <2>1 DEF MsgInv, Earlier, Before
    <3>2. Ordered(st'.msgs) /\ UpTo(st'.msgs, iterations)
        BY <2>1, <2>2, <3>1, ActedOrder
    <3> QED  BY <2>1, <2>2, <3>2 DEF MsgInv
  <2>3. CASE pc' = "off" /\ UNCHANGED st
      BY <2>1, <2>3, OrderKept
  <2> QED  BY <1>7, <2>2, <2>3 DEF Terminal, Stop
<1>8. CASE Execute
  <2>1. /\ First(todo) \in todo /\ First(todo) \in Nodes
        /\ \A m \in todo \ {First(todo)} : m \in Nodes /\ First(todo) < m
        /\ UNCHANGED <<iterations, ckpt>> /\ pc = "node"
    <3>1. First(todo) \in todo /\ \A m \in todo : First(todo) <= m
        BY <1>0, <1>8, FirstIn DEF Execute, NextNode
    <3> QED  BY <1>0, <1>8, <3>1, GraphAssumption DEF Execute, NextNode
  <2>2. ASSUME NEW d \in Chosen(First(todo), st), NEW e \in MayFail(First(todo)),
               st' = [Acted(First(todo), st, d) EXCEPT !.error = e],
               todo' = todo \ {First(todo)}, pc' \in {"route", "node"}
        PROVE  MsgInv'
    <3>1. \A k \in DOMAIN st.msgs : Before(st.msgs[k], <<iterations, First(todo)>>)
        BY <2>1 DEF MsgInv
    <3>2. /\ Ordered(st'.msgs) /\ UpTo(st'.msgs, iterations)
          /\ \A m \in Nodes : First(todo) < m =>
                \A k \in DOMAIN st'.msgs : Before(st'.msgs[k], <<iterations, m>>)
        BY <2>1, <2>2, <3>1, ActedOrder
    <3> QED  BY <2>1, <2>2, <3>2 DEF MsgInv
  <2>3. CASE pc' = "off" /\ UNCHANGED st
      BY <2>1, <2>3, OrderKept
  <2> QED  BY <1>8, <2>2, <2>3 DEF Execute, Stop
<1>9. CASE \E n \in Nodes : Branch(n)
  <2> PICK n \in Nodes : Branch(n)
      BY <1>9
  <2>1. PICK b \in BranchResult :
           /\ branch' = Append(branch, b) /\ b.node = n
           /\ b.state.msgs = st.msgs \/ b.state.msgs = Append(st.msgs, <<iterations, n>>)
      BY BranchType
  <2>2. pc = "fork" /\ pc' = "fork" /\ n \in todo /\ UNCHANGED <<st, iterations, ckpt>>
      BY DEF Branch
  <2>3. /\ Len(branch) \in Nat /\ DOMAIN branch = 1..Len(branch)
        /\ DOMAIN branch' = 1..(Len(branch) + 1)
        /\ \A k \in 1..Len(branch) : branch'[k] = branch[k]
        /\ branch'[Len(branch) + 1] = b
      BY <1>0, <2>1, AppendProperties, LenProperties
  <2>4. \A k \in DOMAIN branch : branch[k].node # n
      BY <2>2 DEF ForkInv, Finished
  <2>5. ASSUME NEW k \in DOMAIN branch'
        PROVE  \/ k \in DOMAIN branch /\ branch'[k] = branch[k]
               \/ k = Len(branch) + 1 /\ branch'[k] = b
      BY <2>3
  <2>6. ASSUME NEW k \in DOMAIN branch'
        PROVE  \/ branch'[k].state.msgs = st'.msgs
               \/ branch'[k].state.msgs = Append(st'.msgs, <<iterations', branch'[k].node>>)
      BY <2>1, <2>2, <2>5 DEF MsgInv
  <2>7. ASSUME NEW k \in DOMAIN branch', NEW l \in DOMAIN branch', k # l
        PROVE  branch'[k].node # branch'[l].node
      BY <2>1, <2>2, <2>4, <2>5, <2>7 DEF MsgInv
  <2>8. Ordered(st'.msgs) /\ UpTo(st'.msgs, iterations') /\ Earlier(st'.msgs, iterations')
      BY <2>2 DEF MsgInv, Ordered, UpTo, Earlier
  <2> QED  BY <2>2, <2>6, <2>7, <2>8 DEF MsgInv
<1>10. CASE Merge
  <2>1. Ordered(st'.msgs) /\ UpTo(st'.msgs, iterations)
      BY <1>10, MergeOrder
  <2> QED  BY <1>10, <2>1 DEF Merge, MsgInv
<1>11. CASE EndIteration \/ Exhaust \/ Complete \/ SaveFails
    BY <1>11, OrderKept DEF EndIteration, Exhaust, Complete, SaveFails, Stop
<1>12. CASE Delete \/ Truncate \/ Fill
    BY <1>12 DEF Delete, Truncate, Fill, MsgInv, Ordered, UpTo, NoFile, Torn, Checkpoint
<1> QED  BY <1>1, <1>2, <1>3, <1>4, <1>5, <1>6, <1>7, <1>8, <1>9, <1>10, <1>11, <1>12 DEF Next, Running

LEMMA MsgAlways == Spec => [](TypeInv /\ MsgInv)
BY TypeInit, TypeStep, MsgInit, MsgStep, ForkAlways, PTL DEF Spec

\* For every graph: the variables keep their types.
THEOREM Types == Spec => []TypeOK
<1>1. TypeInv => TypeOK
    BY DEF TypeInv
<1> QED  BY <1>1, MsgAlways, PTL

\* For every graph, whichever branch of a fork finishes first, and over any
\* crashes, errors, refusals and resumes: the conversation is ordered by
\* iteration and then by node id, each node once (execute_frontier_parallel).
THEOREM MergeOrdered == Spec => []MergedInOrder
<1>1. ASSUME TypeInv, MsgInv PROVE MergedInOrder
  <2> SUFFICES ASSUME NEW i \in 1..Len(st.msgs) - 1 PROVE Before(st.msgs[i], st.msgs[i+1])
      BY DEF MergedInOrder
  <2>1. st.msgs \in Seq(Message)
      BY <1>1 DEF TypeInv, TypeOK, Message
  <2>2. i \in DOMAIN st.msgs /\ i + 1 \in DOMAIN st.msgs /\ i < i + 1
      BY <2>1, LenProperties
  <2> QED  BY <1>1, <2>2 DEF MsgInv, Ordered
<1> QED  BY <1>1, MsgAlways, PTL
=============================================================================
