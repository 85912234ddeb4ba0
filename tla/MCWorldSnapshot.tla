-------------------------- MODULE MCWorldSnapshot --------------------------
(***************************************************************************)
(* The small world of MCFleetWorld with its snapshot file.                 *)
(***************************************************************************)
EXTENDS MCFleetWorld, WorldSnapshot
=============================================================================
