----------------------------- MODULE MCForwarder -----------------------------
(***************************************************************************)
(* Two events of one session and one of another through a channel of two.  *)
(***************************************************************************)
EXTENDS Forwarder, TLC

CONSTANTS a1, a2, b1, sa, sb

MCEvents == {a1, a2, b1}
MCSessions == {sa, sb}
MCSessionOf == (a1 :> sa) @@ (a2 :> sa) @@ (b1 :> sb)
=============================================================================
