--------------------------- MODULE MCConnections ---------------------------
(* Instances of Connections for TLC.                                       *)
EXTENDS Connections, TLC

Symmetry == Permutations(Users) \cup Permutations(Procs)
ProcSymmetry == Permutations(Procs)

=============================================================================
