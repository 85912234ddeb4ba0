---------------------------- MODULE MCCliSession ----------------------------
(***************************************************************************)
(* The small world of MCFleetWorld behind the command line.                *)
(***************************************************************************)
EXTENDS MCFleetWorld, CliSession

MCCliParcels == {[start |-> a, end |-> c, weight |-> 1]}
=============================================================================
