----------------------------- MODULE MCIngestion -----------------------------
(***************************************************************************)
(* Four uses of Ingestion for TLC, one of which is chosen in the initial   *)
(* state.  Client a, whose agent id its certificate overrides, sends two   *)
(* events and client b sends one; all are of one file of the store.        *)
(*   "race"      two handlers, one process that may fail, one attempt for  *)
(*               every event; b's event is forged;                         *)
(*   "retries"   two handlers, one process, a second attempt;              *)
(*   "refusals"  one handler, one process: a's first event cannot be       *)
(*               encoded, its second is not valid, and b is denied;        *)
(*   "restarts"  one handler, two processes: one event of each client.     *)
(***************************************************************************)
EXTENDS Ingestion, TLC

CONSTANTS a, b, a1, a2, b1, h1, h2

VARIABLE subject

MCClients == {a, b}
MCEvents == {a1, a2, b1}
MCHandlers == {h1, h2}
MCScript == (a :> <<a1, a2>>) @@ (b :> <<b1>>)
MCOfA == {a}
MCFileOf == [e \in MCEvents |-> "today"]
MCNone == {}
MCEventB1 == {b1}

Race == INSTANCE Ingestion WITH MaxRetries <- 0
Retries == INSTANCE Ingestion WITH MaxFaults <- 0
Refusals == INSTANCE Ingestion WITH
  Unencodable <- {a1}, Invalid <- {a2}, Denied <- {b}, MaxFaults <- 0
Restarts == INSTANCE Ingestion WITH
  Forged <- {}, Events <- {a1, b1}, Script <- (a :> <<a1>>) @@ (b :> <<b1>>), MaxStarts <- 2

allVars == <<vars, subject>>

MCInit == subject \in {"race", "retries", "refusals", "restarts"} /\ Init

\* One handler.
Alone == step'[h2] = "idle"

OfRestarts(A) == subject = "restarts" /\ A /\ Alone /\ UNCHANGED subject

MCNext ==
  \/ subject = "race" /\ Race!Next /\ UNCHANGED subject
  \/ subject = "retries" /\ Retries!Next /\ UNCHANGED subject
  \/ subject = "refusals" /\ Refusals!Next /\ Alone /\ UNCHANGED subject
  \/ OfRestarts(Restarts!Next)

MCSpec == MCInit /\ [][MCNext]_allVars

\* The fairness of Ingestion.
MCFairSpec ==
  /\ MCSpec
  /\ WF_allVars(OfRestarts(Restarts!OpenNext \/ Restarts!Serve))
  /\ WF_allVars(OfRestarts(Restarts!Drained))
  /\ WF_allVars(OfRestarts(Restarts!CloseNext \/ Restarts!Exit))
  /\ WF_allVars(OfRestarts(Restarts!Pipeline(h1)))
  /\ \A c \in Clients :
       /\ WF_allVars(OfRestarts(\E h \in Handlers : Restarts!Call(c, h)))
       /\ WF_allVars(OfRestarts(Restarts!Answer(c) \/ Restarts!Lose(c)))
       /\ WF_allVars(OfRestarts(Restarts!Unreachable(c)))

-----------------------------------------------------------------------------
\* Every event is settled with its client in the end, and a signal ends the
\* process, although handlers and clients are at work (main.go:273-274,
\* client.py:301-327).
EverySettled ==
  subject = "restarts" => Restarts!SettledInTheEnd /\ Restarts!SignalEnds
=============================================================================
