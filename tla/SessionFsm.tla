----------------------------- MODULE SessionFsm -----------------------------
(***************************************************************************)
(* The lifecycle states of one orchestrated session and the edges between  *)
(* them (crates/oneai-orchestrator/src/fsm.rs).                            *)
(***************************************************************************)

States == {"Creating", "Running", "Hibernating", "Resuming", "Crashed",
           "Failed", "Destroyed"}

\* What a lookup of an id without a row yields.
Absent == "Absent"

Resumable == {"Hibernating", "Crashed"}     \* SessionState::is_resumable
Pending   == {"Creating", "Resuming"}       \* SessionState::is_pending

\* counts_toward_quota: a session in one of these states holds resources.
Counted == States \ {"Failed", "Destroyed"}

\* validate_transition: the D6 edges, and deletion from every live state.
Edges ==
    {<<"Creating", "Running">>,     <<"Creating", "Failed">>,
     <<"Running", "Hibernating">>,  <<"Running", "Crashed">>,
     <<"Hibernating", "Resuming">>, <<"Crashed", "Resuming">>,
     <<"Resuming", "Running">>,     <<"Resuming", "Crashed">>,
     <<"Resuming", "Failed">>}
      \cup (States \ {"Destroyed"}) \X {"Destroyed"}

=============================================================================
