---------------------------- MODULE MCPolicyEngine ----------------------------
(***************************************************************************)
(* Three agents and two files.  The first leaves out the burst of the      *)
(* default limit, gives b a limit of its own, half a token a tick, and     *)
(* denies c; the second denies b and lets c query but not ingest.  The     *)
(* rate of the first default limit, three quarters of a token a tick, does *)
(* not divide a token: its announced wait is cut down from 4/3 ticks to 1. *)
(***************************************************************************)
EXTENDS PolicyEngine

CONSTANTS a, b, c

MCAgents == {a, b, c}

MCFiles ==
  <<[denied |-> {c}, actions |-> [x \in {a} |-> {"ingest"}],
     default |-> [rate |-> 3, burst |-> 0],
     overrides |-> [x \in {b} |-> [rate |-> 2, burst |-> 4]]],
    [denied |-> {b}, actions |-> [x \in {c} |-> {"query"}],
     default |-> [rate |-> 0, burst |-> 4],
     overrides |-> [x \in {c} |-> [rate |-> 0, burst |-> 0]]]>>
=============================================================================
