------------------------------- MODULE Delivery -------------------------------
(***************************************************************************)
(* What the ingestion service promises an agent (the answer Accepted of    *)
(* cmd/ingestion/pipeline.go): an event is acknowledged only when the      *)
(* store holds it, what the store holds it keeps, and what the client was  *)
(* told about an event is final.  An event may be stored although its      *)
(* client gave it up.  What a crash leaves of a line at the end of a file  *)
(* takes the next event of that file with it, which is acknowledged and    *)
(* not held.                                                               *)
(***************************************************************************)
CONSTANTS Events, FileOf

VARIABLES
  held,       \* the events in the store that can be read
  torn,       \* files that end in a part of a line
  swallowed,  \* events the store took and that cannot be read
  told        \* what the client knows of each event

vars == <<held, torn, swallowed, told>>

Init == held = {} /\ torn = {} /\ swallowed = {} /\ told = [e \in Events |-> "pending"]

Hold(e) ==
  /\ FileOf[e] \notin torn
  /\ held' = held \cup {e}
  /\ UNCHANGED <<torn, swallowed, told>>

Tear(e) == torn' = torn \cup {FileOf[e]} /\ UNCHANGED <<held, swallowed, told>>

Swallow(e) ==
  /\ FileOf[e] \in torn
  /\ torn' = torn \ {FileOf[e]} /\ swallowed' = swallowed \cup {e}
  /\ UNCHANGED <<held, told>>

Acknowledge(e) ==
  /\ told[e] = "pending" /\ e \in held \cup swallowed
  /\ told' = [told EXCEPT ![e] = "accepted"]
  /\ UNCHANGED <<held, torn, swallowed>>

GiveUp(e) ==
  /\ told[e] = "pending"
  /\ told' = [told EXCEPT ![e] = "gaveUp"]
  /\ UNCHANGED <<held, torn, swallowed>>

Next == \E e \in Events : Hold(e) \/ Tear(e) \/ Swallow(e) \/ Acknowledge(e) \/ GiveUp(e)

Spec == Init /\ [][Next]_vars
=============================================================================
