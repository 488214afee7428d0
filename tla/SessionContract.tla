-------------------------- MODULE SessionContract --------------------------
(***************************************************************************)
(* What a client of the control plane may rely on, as a state machine over *)
(* the lifecycle state of each session: it is created under the quota,     *)
(* moves along the edges of validate_transition, and is set to Running or  *)
(* to Crashed by a restart of the orchestrator, but never to Running       *)
(* before it had a container.  A deletion may remove it in any state.      *)
(***************************************************************************)
EXTENDS SessionFsm, FiniteSets, Naturals

CONSTANTS Sessions, MaxConcurrent
VARIABLE state

Holding == {s \in Sessions : state[s] \in Counted}

Init == state = [s \in Sessions |-> Absent]

Set(s, to) == state' = [state EXCEPT ![s] = to]

Create(s) ==
    /\ state[s] = Absent /\ Cardinality(Holding) < MaxConcurrent
    /\ Set(s, "Creating")

Move(s) == \E to \in States : <<state[s], to>> \in Edges /\ Set(s, to)

Restart(s) ==
    \/ state[s] \in {"Running", "Resuming"} /\ Set(s, "Running")
    \/ state[s] \in {"Running", "Resuming", "Creating"} /\ Set(s, "Crashed")

Remove(s) == state[s] # Absent /\ Set(s, Absent)

Next == \E s \in Sessions : Create(s) \/ Move(s) \/ Restart(s) \/ Remove(s)

Spec == Init /\ [][Next]_state

=============================================================================
