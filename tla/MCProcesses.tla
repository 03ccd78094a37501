----------------------------- MODULE MCProcesses -----------------------------
(***************************************************************************)
(* Processes for TLC.  The second message of the stream t cannot be        *)
(* received; the exporter meets two files of two tenants.                  *)
(***************************************************************************)
EXTENDS Processes, TLC

CONSTANTS s, t, s1, s2, s3, t1, t2, f1, f2, x1, x2

MCScript == (s :> <<s1, s2, s3>>) @@ (t :> <<t1, t2>>)
MCTenantOf == (f1 :> x1) @@ (f2 :> x2)
=============================================================================
