----------------------------- MODULE MCCommand -----------------------------
(***************************************************************************)
(* Small instances of Command and of its refinement for TLC.               *)
(***************************************************************************)
EXTENDS CommandRefinement
=============================================================================
