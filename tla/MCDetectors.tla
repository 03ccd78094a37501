----------------------------- MODULE MCDetectors -----------------------------
(***************************************************************************)
(* The detectors for TLC, with low limits: a repetition is two calls, a    *)
(* storm three failures.                                                   *)
(***************************************************************************)
EXTENDS Detectors
=============================================================================
