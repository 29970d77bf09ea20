--------------------------- MODULE MCRouteServer ---------------------------
(* TLC instances of RouteServer. *)
EXTENDS RouteServer, TLC

Symmetry == Permutations(Workers) \cup Permutations(Objs)
=============================================================================
