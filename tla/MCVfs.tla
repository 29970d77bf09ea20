------------------------------- MODULE MCVfs -------------------------------
(* TLC instances of Vfs: every session has a user of its own. *)
EXTENDS Vfs, TLC

OwnUser  == [s \in Sessions |-> s]
Symmetry == Permutations(Sessions) \cup Permutations(Names) \cup Permutations(Md5s)
              \cup Permutations(Places)
=============================================================================
