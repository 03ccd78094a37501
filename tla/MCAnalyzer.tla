------------------------------ MODULE MCAnalyzer ------------------------------
(***************************************************************************)
(* Three calls of one key, two of them in one file, and one call of        *)
(* another key: a storm within a file, a storm across files and, when the  *)
(* events are read twice, a storm that is none.                            *)
(***************************************************************************)
EXTENDS Analyzer, TLC

CONSTANTS a1, a2, a3, b1, ka, kb, f1, f2

MCEvents == {a1, a2, a3, b1}
MCKeys == {ka, kb}
MCFiles == {f1, f2}
MCFileOrder == <<f1, f2>>
MCKeyOf == (a1 :> ka) @@ (a2 :> ka) @@ (a3 :> ka) @@ (b1 :> kb)
MCFileOf == (a1 :> f1) @@ (a2 :> f1) @@ (a3 :> f2) @@ (b1 :> f1)
=============================================================================
