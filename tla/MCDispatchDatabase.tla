------------------------- MODULE MCDispatchDatabase -------------------------
(***************************************************************************)
(* Instances of DispatchDatabase for TLC.  The packages are not symmetric: *)
(* a removed route's are updated in one fixed order.                       *)
(***************************************************************************)
EXTENDS DispatchDatabase, TLC

Symmetry == Permutations(Routes) \cup Permutations(Trucks) \cup Permutations(Processes)

=============================================================================
