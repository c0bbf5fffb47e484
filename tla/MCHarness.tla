------------------------------- MODULE MCHarness -------------------------------
(***************************************************************************)
(* Four commands, with and without prompts, next to one of either kind.    *)
(***************************************************************************)
EXTENDS Harness

MCAsks == <<TRUE, FALSE, FALSE, TRUE>>
=============================================================================
