---------------------------- MODULE MCGraphWalk -----------------------------
(***************************************************************************)
(* An instance of GraphWalk for TLC: a cycle with a fork, a join, an       *)
(* interrupt point beside an ordinary node, and an error edge.             *)
(*                                                                         *)
(*    1 --tools--> 2, 3     2, 3 --> 4     3 --> 5     4, 5 --> 1          *)
(*    1 --final--> 6        4 --error--> 6                                 *)
(***************************************************************************)
EXTENDS GraphWalk

Edge(f, t, c) == [from |-> f, to |-> t, cond |-> c]

MCEdges == {Edge(1, 2, "tools"), Edge(1, 3, "tools"), Edge(1, 6, "final"),
            Edge(2, 4, "always"), Edge(3, 4, "always"), Edge(3, 5, "always"),
            Edge(4, 1, "always"), Edge(5, 1, "always"), Edge(4, 6, "error")}
=============================================================================
