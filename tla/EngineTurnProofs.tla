-------------------------- MODULE EngineTurnProofs ---------------------------
(***************************************************************************)
(* Proofs about the turns of Engine, for any bounds on iterations, rate    *)
(* limits and stalls, and any number of messages and tasks.                *)
(*                                                                         *)
(* TurnInv is inductive.  Of the state it speaks only about turn, which    *)
(* background tasks and approvals leave alone.                             *)
(***************************************************************************)
EXTENDS Engine, Integers, TLAPS

Turns == [pc : Places, number : Nat, iterations : Nat, limits : Nat, stalls : Nat,
          flag : BOOLEAN, cancelled : BOOLEAN, end : Ends \cup {"none"},
          yields : SUBSET {"complete", "error"}, kept : BOOLEAN,
          calls : Nat, late : Nat]

\* Calls of the provider for one counted iteration: the limits and stalls
\* that repeat it, the call that responds and the retry of an empty answer.
PerIteration == (MaxRateLimits - 1) + MaxStalls + 2

Counted(n) == n * PerIteration

Acting == {"tools", "gate", "delegate", "handle"}

\* The calls are paid for by the iterations counted, and by the limits and
\* stalls since the last response.
CallsInv(t) ==
    /\ t.iterations <= HardMax
    /\ t.limits <= MaxRateLimits - 1 /\ t.stalls <= MaxStalls
    /\ t.calls <= Counted(HardMax)
    /\ t.pc \in {"infer", "call", "retry", "recall"} => t.iterations >= 1
    /\ t.pc = "loop" => t.calls <= Counted(t.iterations) + t.limits + t.stalls
    /\ t.pc = "infer" => t.calls <= Counted(t.iterations - 1) + t.limits + t.stalls
    /\ t.pc = "call" => t.calls <= Counted(t.iterations - 1) + t.limits + t.stalls + 1
    /\ t.pc = "retry" => t.calls <= Counted(t.iterations) - 1
    /\ t.pc \in {"recall"} \cup Acting => t.calls <= Counted(t.iterations)
    /\ t.pc \in {"build", "slotted"} => t.calls = 0
    /\ t.pc \in {"retry", "recall"} => t.limits = 0 /\ t.stalls = 0

\* A decision is late only once, as no call begins after it.
LateInv(t) ==
    \/ t.late = 0
    \/ t.late = 1 /\ t.cancelled /\ t.pc \in {"loop", "infer"} \cup Acting

KeptInv(t) ==
    "complete" \in t.yields => \/ t.pc = "done"
                               \/ t.pc = "idle" /\ (t.kept \/ t.end = "panicked")

TurnInv(t) == t \in Turns /\ CallsInv(t) /\ LateInv(t) /\ KeptInv(t)

(***************************************************************************)
(* The arithmetic of the budget.                                           *)
(***************************************************************************)
LEMMA PerIterationType == PerIteration \in Nat
BY EngineAssumption DEF PerIteration

LEMMA CountedType == ASSUME NEW n \in Nat PROVE Counted(n) \in Nat
BY PerIterationType DEF Counted

LEMMA CountedGrows ==
    ASSUME NEW n \in Nat, n >= 1
    PROVE  Counted(n) = Counted(n - 1) + (MaxRateLimits - 1) + MaxStalls + 2
<1>1. n * PerIteration = (n - 1) * PerIteration + PerIteration
    BY PerIterationType
<1> QED  BY <1>1, PerIterationType, EngineAssumption DEF Counted, PerIteration

LEMMA CountedMonotone ==
    ASSUME NEW m \in Nat, NEW n \in Nat, m <= n PROVE Counted(m) <= Counted(n)
<1>1. m * PerIteration <= n * PerIteration
    BY PerIterationType
<1> QED  BY <1>1, PerIterationType, EngineAssumption DEF Counted

(***************************************************************************)
(* The moves of a turn.                                                    *)
(***************************************************************************)
LEMMA LeaveKeeps ==
    ASSUME NEW t \in Turns, NEW pc \in {"done", "lost", "idle"}, NEW end \in Ends,
           NEW yields \in SUBSET {"complete", "error"},
           "complete" \in yields => pc = "done" \/ (pc = "idle" /\ end = "panicked")
    PROVE  TurnInv(Leave(t, pc, end, yields))
<1> DEFINE u == Leave(t, pc, end, yields)
<1>1. u \in Turns
    BY DEF Leave, NoTurn, Turns, Places
<1>2. /\ u.iterations = 0 /\ u.limits = 0 /\ u.stalls = 0 /\ u.calls = 0 /\ u.late = 0
      /\ u.pc = pc /\ u.yields = yields /\ u.end = end
    BY DEF Leave, NoTurn, Turns
<1>3. CallsInv(u)
    BY <1>2, CountedType, EngineAssumption DEF CallsInv, Acting
<1> QED  BY <1>1, <1>2, <1>3 DEF TurnInv, LateInv, KeptInv

LEMMA Completes ==
    ASSUME NEW t \in Turns, NEW end \in Ends PROVE TurnInv(Complete(t, end))
BY LeaveKeeps DEF Complete

LEMMA Loses ==
    ASSUME NEW t \in Turns, NEW end \in Ends PROVE TurnInv(Lose(t, end))
BY LeaveKeeps DEF Lose

\* What a decision leaves of t, the turn that got the response.
Decided(t, u) ==
    /\ u \in Turns
    /\ u.iterations = t.iterations /\ u.limits = t.limits /\ u.stalls = t.stalls
    /\ u.calls = t.calls /\ u.yields = t.yields /\ u.kept = t.kept
    /\ u.cancelled = t.cancelled
    /\ \/ u.pc = "retry" /\ u.late = t.late
       \/ /\ u.pc \in {"loop", "tools", "gate", "delegate"}
          /\ u.late = IF t.cancelled THEN t.late + 1 ELSE t.late

LEMMA Decisions ==
    ASSUME NEW t \in Turns, NEW again \in BOOLEAN, Decide(t, again)
    PROVE  \/ turn' = Complete(t, "answered")
           \/ Decided(t, turn') /\ (turn'.pc = "retry" => ~again)
<1> DEFINE lateness == IF t.cancelled THEN t.late + 1 ELSE t.late
           moved(pc) == [[t EXCEPT !.late = lateness] EXCEPT !.pc = pc]
<1>1. lateness \in Nat
    BY DEF Turns
<1>2. ASSUME NEW pc \in {"loop", "tools", "gate", "delegate"}
      PROVE  Decided(t, moved(pc)) /\ moved(pc).pc # "retry"
  <2> HIDE DEF lateness
  <2>1. moved(pc) \in Turns
      BY <1>1 DEF Turns, Places
  <2>2. moved(pc).pc = pc /\ moved(pc).late = lateness
      BY <1>1 DEF Turns
  <2>3. /\ moved(pc).iterations = t.iterations /\ moved(pc).limits = t.limits
        /\ moved(pc).stalls = t.stalls /\ moved(pc).calls = t.calls
        /\ moved(pc).yields = t.yields /\ moved(pc).kept = t.kept
        /\ moved(pc).cancelled = t.cancelled
      BY DEF Turns
  <2> QED  BY <2>1, <2>2, <2>3 DEF Decided, lateness
<1>3. Decided(t, [t EXCEPT !.pc = "retry"])
    BY DEF Turns, Decided, Places
<1>4. \/ turn' = Complete(t, "answered")
      \/ ~again /\ turn' = [t EXCEPT !.pc = "retry"]
      \/ \E pc \in {"loop", "tools", "gate", "delegate"} : turn' = moved(pc)
    BY DEF Decide, Step
<1> HIDE DEF moved
<1>5. CASE turn' = Complete(t, "answered")
    BY <1>5
<1>6. CASE ~again /\ turn' = [t EXCEPT !.pc = "retry"]
    BY <1>3, <1>6
<1>7. CASE \E pc \in {"loop", "tools", "gate", "delegate"} : turn' = moved(pc)
    BY <1>2, <1>7
<1> QED  BY <1>4, <1>5, <1>6, <1>7

\* A response that comes with no limits or stalls left over.
LEMMA Responds ==
    ASSUME NEW t \in Turns, KeptInv(t), NEW again \in BOOLEAN, Decide(t, again),
           t.pc \in {"call", "recall"}, t.late = 0, t.limits = 0, t.stalls = 0,
           t.iterations >= 1, t.iterations <= HardMax,
           t.calls <= Counted(t.iterations), ~again => t.calls <= Counted(t.iterations) - 1
    PROVE  TurnInv(turn')
<1>1. CASE turn' = Complete(t, "answered")
    BY <1>1, Completes DEF Ends
<1>2. CASE Decided(t, turn') /\ (turn'.pc = "retry" => ~again)
  <2>1. /\ turn' \in Turns /\ turn'.iterations = t.iterations /\ turn'.calls = t.calls
        /\ turn'.limits = 0 /\ turn'.stalls = 0 /\ turn'.yields = t.yields /\ turn'.kept = t.kept
        /\ turn'.pc \in {"retry", "loop", "tools", "gate", "delegate"}
      BY <1>2 DEF Decided
  <2>2. HardMax \in Nat /\ t.iterations \in Nat /\ t.calls \in Nat /\ Counted(t.iterations) \in Nat /\ Counted(HardMax) \in Nat
      BY EngineAssumption, CountedType DEF Turns
  <2>3. t.calls <= Counted(HardMax)
      BY <2>2, CountedMonotone
  <2>4. turn'.pc = "retry" => turn'.calls <= Counted(turn'.iterations) - 1
      BY <1>2, <2>1
  <2>5. CallsInv(turn')
      BY <2>1, <2>2, <2>3, <2>4, EngineAssumption DEF CallsInv, Acting
  <2>6. LateInv(turn')
      BY <1>2 DEF Decided, LateInv, Acting
  <2>7. KeptInv(turn')
      BY <2>1 DEF KeptInv
  <2> QED  BY <2>1, <2>5, <2>6, <2>7 DEF TurnInv
<1> QED  BY <1>1, <1>2, Decisions

(***************************************************************************)
(* The steps.                                                              *)
(***************************************************************************)
\* Steps that move the turn on, or mark it, with its numbers as they are.
LEMMA MoveKeeps ==
    ASSUME TurnInv(turn), turn' \in Turns,
           turn'.iterations = turn.iterations, turn'.limits = turn.limits,
           turn'.stalls = turn.stalls, turn'.calls = turn.calls, turn'.late = turn.late,
           turn'.yields = turn.yields, turn'.kept = turn.kept,
           turn.cancelled => turn'.cancelled,
           \/ turn'.pc = turn.pc /\ turn.pc # "idle"
           \/ turn.pc = "build" /\ turn'.pc = "slotted"
           \/ turn.pc = "slotted" /\ turn'.pc = "loop"
           \/ turn.pc \in Acting /\ turn'.pc \in {"loop"} \cup Acting
    PROVE  TurnInv(turn')
<1>1. LateInv(turn')
    BY DEF TurnInv, LateInv, Acting
<1>2. KeptInv(turn')
    BY DEF TurnInv, KeptInv, Acting
<1>3. turn.calls \in Nat /\ turn.limits \in Nat /\ turn.stalls \in Nat /\ Counted(turn.iterations) \in Nat
    BY CountedType DEF TurnInv, Turns
<1>4. CallsInv(turn')
    BY <1>3 DEF TurnInv, CallsInv, Acting
<1> QED  BY <1>1, <1>2, <1>4 DEF TurnInv

LEMMA FrameSteps ==
    ASSUME TurnInv(turn),
           \/ Interrupt \/ RequestInterrupt \/ FillSlot \/ RegisterInterrupt
           \/ Approved \/ Delegate \/ StoreHandle
    PROVE  TurnInv(turn')
<1> USE DEF Turns, Places
<1>0. turn \in Turns
    BY DEF TurnInv
<1>1. CASE Interrupt
    BY <1>0, <1>1, MoveKeeps DEF Interrupt, InLoop
<1>2. CASE RequestInterrupt
    BY <1>0, <1>2, MoveKeeps DEF RequestInterrupt, InLoop
<1>3. CASE FillSlot
    BY <1>0, <1>3, MoveKeeps DEF FillSlot
<1>4. CASE RegisterInterrupt
    BY <1>0, <1>4, MoveKeeps DEF RegisterInterrupt
<1>5. CASE Approved
    BY <1>0, <1>5, MoveKeeps DEF Approved, Acting
<1>6. CASE Delegate
    BY <1>0, <1>6, MoveKeeps DEF Delegate, Step, Acting
<1>7. CASE StoreHandle
    BY <1>0, <1>7, MoveKeeps DEF StoreHandle, Acting
<1> QED  BY <1>1, <1>2, <1>3, <1>4, <1>5, <1>6, <1>7

LEMMA TurnFrameSteps ==
    ASSUME TurnInv(turn),
           \/ Pump \/ EndRun \/ EndRunErr \/ CatchPanic \/ Spend \/ CallFails \/ RetryFails \/ RunTools
    PROVE  TurnInv(turn')
<1>0. turn \in Turns
    BY DEF TurnInv
<1>1. CASE Pump
  <2>1. turn.number + 1 \in Nat /\ turn' = Begun(turn.number + 1)
      BY <1>0, <1>1 DEF Pump, Turns
  <2>2. /\ turn' \in Turns /\ turn'.pc = "build" /\ turn'.iterations = 0 /\ turn'.limits = 0
        /\ turn'.stalls = 0 /\ turn'.calls = 0 /\ turn'.late = 0 /\ turn'.yields = {}
      BY <2>1 DEF Begun, NoTurn, Turns, Places
  <2> QED  BY <2>2, CountedType, EngineAssumption DEF TurnInv, CallsInv, LateInv, KeptInv, Acting
<1>2. ASSUME turn.pc \in {"done", "lost"}, turn' \in Turns, turn'.pc = "idle",
             turn'.iterations = turn.iterations, turn'.limits = turn.limits,
             turn'.stalls = turn.stalls, turn'.calls = turn.calls, turn'.late = turn.late,
             "complete" \in turn'.yields => turn'.kept
      PROVE  TurnInv(turn')
    BY <1>2 DEF TurnInv, CallsInv, LateInv, KeptInv, Acting
<1>3. CASE EndRun
  <2>1. PICK failed \in BOOLEAN :
            turn' = [turn EXCEPT !.pc = "idle", !.kept = TRUE,
                                 !.yields = IF failed THEN @ \cup {"error"} ELSE @]
      BY <1>3 DEF EndRun
  <2>2. turn' \in Turns /\ turn'.pc = "idle" /\ turn'.kept
    <3>1. CASE failed
        BY <1>0, <2>1, <3>1 DEF Turns, Places
    <3>2. CASE ~failed
        BY <1>0, <2>1, <3>2 DEF Turns, Places
    <3> QED  BY <3>1, <3>2
  <2>3. /\ turn'.iterations = turn.iterations /\ turn'.limits = turn.limits
        /\ turn'.stalls = turn.stalls /\ turn'.calls = turn.calls /\ turn'.late = turn.late
      BY <1>0, <2>1 DEF Turns
  <2> QED  BY <1>2, <1>3, <2>2, <2>3 DEF EndRun
<1>4. CASE EndRunErr
  <2>1. "complete" \in turn.yields => turn.kept
      BY <1>4 DEF EndRunErr, TurnInv, KeptInv
  <2> QED  BY <1>0, <1>2, <1>4, <2>1 DEF EndRunErr, Turns, Places
<1>5. CASE CatchPanic
    BY <1>0, <1>5, LeaveKeeps DEF CatchPanic, Ends, Turns
<1>6. CASE Spend \/ CallFails \/ RetryFails
    BY <1>0, <1>6, Completes, Loses DEF Spend, CallFails, RetryFails, Step, Ends
<1>7. CASE RunTools
  <2>1. CASE turn' = [turn EXCEPT !.pc = "loop"]
      BY <1>0, <1>7, <2>1, MoveKeeps DEF RunTools, Turns, Places, Acting
  <2>2. CASE turn' = Complete(turn, "answered") \/ turn' = Lose(turn, "failed")
      BY <1>0, <2>2, Completes, Loses DEF Ends
  <2> QED  BY <1>7, <2>1, <2>2 DEF RunTools, Step
<1> QED  BY <1>1, <1>3, <1>4, <1>5, <1>6, <1>7

LEMMA AgainIs ==
    ASSUME NEW t \in Turns, t.iterations >= 1
    PROVE  /\ Again(t) \in Turns /\ Again(t).pc = "loop" /\ Again(t).iterations = t.iterations - 1
           /\ Again(t).limits = t.limits /\ Again(t).stalls = t.stalls /\ Again(t).calls = t.calls
           /\ Again(t).late = t.late /\ Again(t).yields = t.yields /\ Again(t).kept = t.kept
<1>1. t.iterations - 1 \in Nat
    BY DEF Turns
<1>2. Again(t) \in Turns
    BY <1>1 DEF Again, Turns, Places
<1>3. Again(t).pc = "loop" /\ Again(t).iterations = t.iterations - 1
    BY DEF Again, Turns
<1>4. /\ Again(t).limits = t.limits /\ Again(t).stalls = t.stalls /\ Again(t).calls = t.calls
      /\ Again(t).late = t.late /\ Again(t).yields = t.yields /\ Again(t).kept = t.kept
    BY DEF Again, Turns
<1> QED  BY <1>2, <1>3, <1>4

\* A call more, made in the place pc.
LEMMA OneMoreCall ==
    ASSUME NEW t \in Turns, NEW pc \in Places, turn' = [t EXCEPT !.pc = pc, !.calls = @ + 1]
    PROVE  /\ turn' \in Turns /\ turn'.pc = pc /\ turn'.calls = t.calls + 1
           /\ turn'.iterations = t.iterations /\ turn'.limits = t.limits
           /\ turn'.stalls = t.stalls /\ turn'.late = t.late
           /\ turn'.yields = t.yields /\ turn'.kept = t.kept
<1>1. turn' \in Turns
  <2>1. t.calls + 1 \in Nat
      BY DEF Turns
  <2>2. turn' = [[t EXCEPT !.pc = pc] EXCEPT !.calls = t.calls + 1]
      BY DEF Turns
  <2>3. [t EXCEPT !.pc = pc] \in Turns
      BY DEF Turns
  <2> QED  BY <2>1, <2>2, <2>3 DEF Turns
<1>2. turn'.pc = pc /\ turn'.calls = t.calls + 1
    BY DEF Turns
<1>3. /\ turn'.iterations = t.iterations /\ turn'.limits = t.limits
      /\ turn'.stalls = t.stalls /\ turn'.late = t.late
      /\ turn'.yields = t.yields /\ turn'.kept = t.kept
    BY DEF Turns
<1> QED  BY <1>1, <1>2, <1>3

LEMMA IterateKeeps == TurnInv(turn) /\ Iterate => TurnInv(turn')
<1> SUFFICES ASSUME TurnInv(turn), Iterate PROVE TurnInv(turn')
    OBVIOUS
<1>0. turn \in Turns /\ turn.pc = "loop" /\ turn.iterations < HardMax
    BY DEF TurnInv, Iterate
<1> DEFINE t == [turn EXCEPT !.iterations = @ + 1]
<1>1. /\ t \in Turns /\ t.iterations = turn.iterations + 1 /\ t.limits = turn.limits
      /\ t.stalls = turn.stalls /\ t.calls = turn.calls /\ t.late = turn.late
      /\ t.cancelled = turn.cancelled /\ t.yields = turn.yields /\ t.kept = turn.kept /\ t.pc = "loop"
    BY <1>0 DEF Turns
<1>2. /\ turn.iterations \in Nat /\ turn.limits \in Nat /\ turn.stalls \in Nat /\ turn.calls \in Nat
      /\ Counted(turn.iterations) \in Nat /\ Counted(turn.iterations) <= Counted(turn.iterations + 1)
      /\ Counted(turn.iterations + 1) \in Nat /\ HardMax \in Nat
    BY <1>0, CountedType, CountedMonotone, EngineAssumption DEF Turns
<1>3. ASSUME turn' \in Turns, turn'.iterations = t.iterations, turn'.limits = t.limits,
             turn'.stalls = t.stalls, turn'.calls = t.calls, turn'.late = t.late,
             turn'.cancelled = t.cancelled, turn'.yields = t.yields, turn'.kept = t.kept,
             turn'.pc \in {"loop", "infer"}
      PROVE  TurnInv(turn')
  <2>1. CallsInv(turn')
      BY <1>0, <1>1, <1>2, <1>3 DEF TurnInv, CallsInv, Acting
  <2>2. LateInv(turn') /\ KeptInv(turn')
      BY <1>0, <1>1, <1>3 DEF TurnInv, LateInv, KeptInv
  <2> QED  BY <1>3, <2>1, <2>2 DEF TurnInv
<1>4. CASE turn' = [t EXCEPT !.pc = "infer"]
  <2> HIDE DEF t
  <2> QED  BY <1>1, <1>3, <1>4 DEF Turns, Places
<1>5. CASE turn' = t
    BY <1>1, <1>3, <1>5
<1>6. CASE turn' = Complete(turn, "paused")
    BY <1>0, <1>6, Completes DEF Ends
<1>7. CASE turn' = Lose(t, "failed")
    BY <1>1, <1>7, Loses DEF Ends
<1> QED  BY <1>4, <1>5, <1>6, <1>7 DEF Iterate, Step

LEMMA InferKeeps == TurnInv(turn) /\ Infer => TurnInv(turn')
<1> SUFFICES ASSUME TurnInv(turn), Infer PROVE TurnInv(turn')
    OBVIOUS
<1>0. turn \in Turns /\ turn.pc = "infer"
    BY DEF TurnInv, Infer
<1>1. CASE turn' = Complete(turn, "aborted")
    BY <1>0, <1>1, Completes DEF Ends
<1>2. CASE ~turn.cancelled /\ turn' = [turn EXCEPT !.pc = "call", !.calls = @ + 1]
  <2>1. /\ turn' \in Turns /\ turn'.pc = "call" /\ turn'.calls = turn.calls + 1
        /\ turn'.iterations = turn.iterations /\ turn'.limits = turn.limits
        /\ turn'.stalls = turn.stalls /\ turn'.late = turn.late
        /\ turn'.yields = turn.yields /\ turn'.kept = turn.kept
      BY <1>0, <1>2, OneMoreCall DEF Places
  <2>2. /\ turn.iterations \in Nat /\ turn.iterations >= 1 /\ turn.iterations <= HardMax
        /\ turn.limits \in Nat /\ turn.stalls \in Nat /\ turn.calls \in Nat
        /\ turn.calls <= Counted(turn.iterations - 1) + turn.limits + turn.stalls
        /\ turn.limits <= MaxRateLimits - 1 /\ turn.stalls <= MaxStalls
      BY <1>0 DEF TurnInv, CallsInv, Turns
  <2>3. /\ Counted(turn.iterations) = Counted(turn.iterations - 1) + (MaxRateLimits - 1) + MaxStalls + 2
        /\ Counted(turn.iterations) <= Counted(HardMax)
        /\ Counted(turn.iterations - 1) \in Nat /\ Counted(HardMax) \in Nat
        /\ Counted(turn.iterations) \in Nat
      BY <2>2, CountedGrows, CountedMonotone, CountedType, EngineAssumption
  <2>4. turn.calls + 1 <= Counted(HardMax)
      BY <2>2, <2>3, EngineAssumption
  <2>5. CallsInv(turn')
      BY <2>1, <2>2, <2>3, <2>4 DEF CallsInv, Acting
  <2>6. LateInv(turn') /\ KeptInv(turn')
      BY <1>0, <1>2, <2>1 DEF TurnInv, LateInv, KeptInv
  <2> QED  BY <2>1, <2>5, <2>6 DEF TurnInv
<1> QED  BY <1>1, <1>2 DEF Infer, Step

\* What is known of a call under way.
LEMMA Calling ==
    ASSUME TurnInv(turn), turn.pc = "call"
    PROVE  /\ turn \in Turns /\ KeptInv(turn) /\ turn.late = 0
           /\ turn.iterations \in Nat /\ turn.iterations >= 1 /\ turn.iterations <= HardMax
           /\ turn.limits \in Nat /\ turn.stalls \in Nat /\ turn.calls \in Nat
           /\ turn.limits <= MaxRateLimits - 1 /\ turn.stalls <= MaxStalls
           /\ turn.calls <= Counted(turn.iterations - 1) + turn.limits + turn.stalls + 1
           /\ turn.calls <= Counted(turn.iterations) - 1
           /\ turn.calls <= Counted(HardMax)
<1>1. /\ turn \in Turns /\ KeptInv(turn) /\ turn.late = 0
      /\ turn.iterations \in Nat /\ turn.iterations >= 1 /\ turn.iterations <= HardMax
      /\ turn.limits \in Nat /\ turn.stalls \in Nat /\ turn.calls \in Nat
      /\ turn.limits <= MaxRateLimits - 1 /\ turn.stalls <= MaxStalls
      /\ turn.calls <= Counted(turn.iterations - 1) + turn.limits + turn.stalls + 1
      /\ turn.calls <= Counted(HardMax)
    BY DEF TurnInv, CallsInv, LateInv, Turns, Acting
<1>2. /\ Counted(turn.iterations) = Counted(turn.iterations - 1) + (MaxRateLimits - 1) + MaxStalls + 2
      /\ Counted(turn.iterations - 1) \in Nat
    BY <1>1, CountedGrows, CountedType
<1> QED  BY <1>1, <1>2, EngineAssumption

LEMMA RespondKeeps == TurnInv(turn) /\ (Respond \/ CallCancelled) => TurnInv(turn')
<1> SUFFICES ASSUME TurnInv(turn), Respond \/ CallCancelled PROVE TurnInv(turn')
    OBVIOUS
<1>0. turn.pc = "call"
    BY DEF Respond, CallCancelled
<1> DEFINE t == [turn EXCEPT !.limits = 0, !.stalls = 0]
<1>1. /\ t \in Turns /\ t.pc = "call" /\ t.limits = 0 /\ t.stalls = 0
      /\ t.iterations = turn.iterations /\ t.calls = turn.calls /\ t.late = turn.late
      /\ t.yields = turn.yields /\ t.kept = turn.kept
    BY <1>0, Calling DEF Turns
<1>2. CASE Decide(t, FALSE)
  <2> HIDE DEF t
  <2>1. KeptInv(t)
      BY <1>0, <1>1, Calling DEF KeptInv
  <2>2. t.calls <= Counted(t.iterations) - 1 /\ t.calls <= Counted(t.iterations)
      BY <1>0, <1>1, Calling, CountedType
  <2>3. t.late = 0 /\ t.iterations >= 1 /\ t.iterations <= HardMax
      BY <1>0, <1>1, Calling
  <2> QED  BY <1>1, <1>2, <2>1, <2>2, <2>3, Responds
<1>3. CASE turn' = Complete(turn, "aborted")
    BY <1>0, <1>3, Calling, Completes DEF Ends
<1> QED  BY <1>2, <1>3 DEF Respond, CallCancelled, Step

\* The same iteration again after a limit or a stall.
LEMMA RepeatKeeps ==
    ASSUME TurnInv(turn), turn.pc = "call", turn' \in Turns, turn'.pc = "loop",
           turn'.iterations = turn.iterations - 1,
           turn'.limits <= MaxRateLimits - 1, turn'.stalls <= MaxStalls,
           turn'.limits + turn'.stalls = turn.limits + turn.stalls + 1,
           turn'.calls = turn.calls, turn'.late = turn.late,
           turn'.yields = turn.yields, turn'.kept = turn.kept
    PROVE  TurnInv(turn')
<1>1. turn'.limits \in Nat /\ turn'.stalls \in Nat /\ Counted(turn.iterations - 1) \in Nat
    BY Calling, CountedType DEF Turns
<1>2. turn'.calls <= Counted(turn'.iterations) + turn'.limits + turn'.stalls
    BY <1>1, Calling
<1>3. turn'.iterations <= HardMax /\ turn'.calls <= Counted(HardMax)
    BY Calling, EngineAssumption
<1>4. CallsInv(turn')
    BY <1>2, <1>3 DEF CallsInv, Acting
<1>5. LateInv(turn') /\ KeptInv(turn')
    BY Calling DEF LateInv, KeptInv
<1> QED  BY <1>4, <1>5 DEF TurnInv

LEMMA LimitedKeeps == TurnInv(turn) /\ Limited => TurnInv(turn')
<1> SUFFICES ASSUME TurnInv(turn), Limited PROVE TurnInv(turn')
    OBVIOUS
<1>0. turn.pc = "call"
    BY DEF Limited
<1> DEFINE t == [turn EXCEPT !.limits = @ + 1]
<1>1. /\ t \in Turns /\ t.limits = turn.limits + 1 /\ t.stalls = turn.stalls
      /\ t.iterations = turn.iterations /\ t.calls = turn.calls /\ t.late = turn.late
      /\ t.yields = turn.yields /\ t.kept = turn.kept
    BY <1>0, Calling DEF Turns
<1>2. \/ turn' = Complete(t, "limited")
      \/ ~(t.limits >= MaxRateLimits) /\ turn' = Again(t)
    BY DEF Limited, Step
<1> HIDE DEF t
<1>3. CASE turn' = Complete(t, "limited")
    BY <1>1, <1>3, Completes DEF Ends
<1>4. CASE ~(t.limits >= MaxRateLimits) /\ turn' = Again(t)
  <2>1. /\ turn' \in Turns /\ turn'.pc = "loop" /\ turn'.iterations = t.iterations - 1
        /\ turn'.limits = t.limits /\ turn'.stalls = t.stalls /\ turn'.calls = t.calls
        /\ turn'.late = t.late /\ turn'.yields = t.yields /\ turn'.kept = t.kept
      BY <1>0, <1>1, <1>4, Calling, AgainIs
  <2>2. t.limits <= MaxRateLimits - 1 /\ t.limits + t.stalls = turn.limits + turn.stalls + 1
      BY <1>0, <1>1, <1>4, Calling, EngineAssumption
  <2> QED  BY <1>0, <1>1, <2>1, <2>2, Calling, RepeatKeeps
<1> QED  BY <1>2, <1>3, <1>4

LEMMA StalledKeeps == TurnInv(turn) /\ Stalled => TurnInv(turn')
<1> SUFFICES ASSUME TurnInv(turn), Stalled PROVE TurnInv(turn')
    OBVIOUS
<1>0. turn.pc = "call"
    BY DEF Stalled
<1> DEFINE t == [turn EXCEPT !.stalls = @ + 1]
<1>1. /\ t \in Turns /\ t.limits = turn.limits /\ t.stalls = turn.stalls + 1
      /\ t.iterations = turn.iterations /\ t.calls = turn.calls /\ t.late = turn.late
      /\ t.yields = turn.yields /\ t.kept = turn.kept
    BY <1>0, Calling DEF Turns
<1>2. \/ turn' = Complete(t, "aborted")
      \/ ~(t.stalls > MaxStalls) /\ turn' = Again(t)
    BY DEF Stalled, Step
<1> HIDE DEF t
<1>3. CASE turn' = Complete(t, "aborted")
    BY <1>1, <1>3, Completes DEF Ends
<1>4. CASE ~(t.stalls > MaxStalls) /\ turn' = Again(t)
  <2>1. /\ turn' \in Turns /\ turn'.pc = "loop" /\ turn'.iterations = t.iterations - 1
        /\ turn'.limits = t.limits /\ turn'.stalls = t.stalls /\ turn'.calls = t.calls
        /\ turn'.late = t.late /\ turn'.yields = t.yields /\ turn'.kept = t.kept
      BY <1>0, <1>1, <1>4, Calling, AgainIs
  <2>2. t.stalls <= MaxStalls /\ t.limits + t.stalls = turn.limits + turn.stalls + 1
      BY <1>0, <1>1, <1>4, Calling, EngineAssumption
  <2> QED  BY <1>0, <1>1, <2>1, <2>2, Calling, RepeatKeeps
<1> QED  BY <1>2, <1>3, <1>4

LEMMA RetryKeeps == TurnInv(turn) /\ (Retry \/ RetryResponds) => TurnInv(turn')
<1> SUFFICES ASSUME TurnInv(turn), Retry \/ RetryResponds PROVE TurnInv(turn')
    OBVIOUS
<1>0. turn \in Turns
    BY DEF TurnInv
<1>1. CASE Retry
  <2>1. CASE turn' = Lose(turn, "aborted")
      BY <1>0, <2>1, Loses DEF Ends
  <2>2. CASE turn' = [turn EXCEPT !.pc = "recall", !.calls = @ + 1]
    <3>1. /\ turn' \in Turns /\ turn'.pc = "recall" /\ turn'.calls = turn.calls + 1
          /\ turn'.iterations = turn.iterations /\ turn'.limits = turn.limits
          /\ turn'.stalls = turn.stalls /\ turn'.late = turn.late
          /\ turn'.yields = turn.yields /\ turn'.kept = turn.kept
        BY <1>0, <2>2, OneMoreCall DEF Places
    <3>2. /\ turn.pc = "retry" /\ turn.iterations \in Nat /\ turn.iterations >= 1
          /\ turn.iterations <= HardMax /\ turn.calls \in Nat
          /\ turn.calls <= Counted(turn.iterations) - 1
          /\ turn.limits = 0 /\ turn.stalls = 0
          /\ 0 <= MaxRateLimits - 1 /\ 0 <= MaxStalls
        BY <1>0, <1>1, EngineAssumption DEF Retry, TurnInv, CallsInv, Turns
    <3>3. /\ Counted(turn.iterations) \in Nat /\ Counted(HardMax) \in Nat
          /\ Counted(turn.iterations) <= Counted(HardMax)
        BY <3>2, CountedType, CountedMonotone, EngineAssumption
    <3>4. CallsInv(turn')
        BY <3>1, <3>2, <3>3 DEF CallsInv, Acting
    <3>5. LateInv(turn') /\ KeptInv(turn')
        BY <3>1, <3>2 DEF TurnInv, LateInv, KeptInv, Acting
    <3> QED  BY <3>1, <3>4, <3>5 DEF TurnInv
  <2> QED  BY <1>1, <2>1, <2>2 DEF Retry, Step
<1>2. CASE RetryResponds
  <2>1. turn.pc = "recall" /\ Decide(turn, TRUE)
      BY <1>2 DEF RetryResponds
  <2>2. /\ KeptInv(turn) /\ turn.late = 0 /\ turn.iterations >= 1 /\ turn.iterations <= HardMax
        /\ turn.calls <= Counted(turn.iterations)
      BY <2>1 DEF TurnInv, CallsInv, LateInv, Acting
  <2>3. turn.limits = 0 /\ turn.stalls = 0
      BY <2>1 DEF TurnInv, CallsInv
  <2> QED  BY <1>0, <2>1, <2>2, <2>3, Responds
<1> QED  BY <1>1, <1>2

(***************************************************************************)
(* Every step.                                                             *)
(***************************************************************************)
LEMMA TurnInitially == Init => TurnInv(turn)
<1> SUFFICES ASSUME Init PROVE TurnInv(turn)
    OBVIOUS
<1>1. turn \in Turns
    BY DEF Init, NoTurn, Turns, Places
<1>2. turn.pc = "idle" /\ turn.iterations = 0 /\ turn.limits = 0 /\ turn.stalls = 0 /\ turn.calls = 0
      /\ turn.late = 0 /\ turn.yields = {}
    BY DEF Init, NoTurn
<1> QED  BY <1>1, <1>2, CountedType, EngineAssumption DEF TurnInv, CallsInv, LateInv, KeptInv, Acting

LEMMA TurnStays == TurnInv(turn) /\ [Next]_vars => TurnInv(turn')
<1> SUFFICES ASSUME TurnInv(turn), [Next]_vars PROVE TurnInv(turn')
    OBVIOUS
<1>1. CASE UNCHANGED turn
    BY <1>1
<1>2. CASE FrontendStep
    BY <1>1, <1>2, FrameSteps DEF FrontendStep, Send, SendShutdown, Answer
<1>3. CASE PumpStep
    BY <1>1, <1>3, TurnFrameSteps DEF PumpStep, Stop
<1>4. CASE TurnStep
    BY <1>4, FrameSteps, TurnFrameSteps, IterateKeeps, InferKeeps, RespondKeeps, LimitedKeeps,
       StalledKeeps, RetryKeeps DEF TurnStep, LoopStep
<1>5. CASE \E t \in Tasks : BackgroundStep(t) \/ CancelTask(t)
    BY <1>1, <1>5 DEF BackgroundStep, CancelTask
<1>6. CASE \E a \in Askers : BusStep(a)
    BY <1>1, <1>6 DEF BusStep
<1>7. CASE UNCHANGED vars
    BY <1>1, <1>7 DEF vars
<1> QED  BY <1>2, <1>3, <1>4, <1>5, <1>6, <1>7 DEF Next

TurnsInv == TurnInv(turn)

LEMMA TurnAlways == Spec => []TurnsInv
<1>1. Init => TurnsInv
    BY TurnInitially DEF TurnsInv
<1>2. TurnsInv /\ [Next]_vars => TurnsInv'
    BY TurnStays DEF TurnsInv
<1> QED  BY <1>1, <1>2, PTL DEF Spec

\* A turn calls its provider a bounded number of times, whatever it answers
\* (run_loop), for all bounds on iterations, rate limits and stalls.
THEOREM CallsAreBounded == Spec => []CallsBounded
<1>1. TurnsInv => CallsBounded
    BY DEF TurnsInv, TurnInv, CallsInv, CallsBounded, Counted, PerIteration
<1> QED  BY <1>1, TurnAlways, PTL

\* After its token is cancelled a turn acts on one more decision at most;
\* when it ends is another matter (the selects of run_loop).
THEOREM ActOnceAfterInterrupt == Spec => []ActsOnceAfterInterrupt
<1>1. TurnsInv => ActsOnceAfterInterrupt
    BY DEF TurnsInv, TurnInv, LateInv, ActsOnceAfterInterrupt
<1> QED  BY <1>1, TurnAlways, PTL

\* What a turn reported complete is in the conversation of the session when
\* the next turn begins, unless the turn panicked after its report
\* (run_agent_with_content, spawn_directive_pump).
THEOREM CompletedAreKept == Spec => []CompletedIsKept
<1>1. TurnsInv => CompletedIsKept
    BY DEF TurnsInv, TurnInv, KeptInv, CompletedIsKept
<1> QED  BY <1>1, TurnAlways, PTL
=============================================================================
