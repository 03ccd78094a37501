----------------------------- MODULE IngestStream -----------------------------
(***************************************************************************)
(* IngestEventStream (cmd/ingestion/pipeline.go): a client sends any       *)
(* number of events in one call, the handler takes them through            *)
(* IngestEvent one by one and answers with counts when the client has      *)
(* closed its side.  run (cmd/ingestion/main.go) stops the server          *)
(* gracefully, which waits for every call.                                 *)
(*                                                                         *)
(* What IngestEvent does is the module Ingestion; here it stores the event *)
(* and accepts it, rejects it with a text, or returns an error.  No client *)
(* in the repository uses the call, so a client does whatever gRPC lets it *)
(* do.  A message that cannot be received (too long, or no protobuf) ends  *)
(* the call with the status of that error, whatever the handler answers.   *)
(***************************************************************************)
EXTENDS Naturals, Sequences, FiniteSets, Functions, SequencesExt

CONSTANTS Streams,
          Script,     \* the events of each stream, in order
          Broken      \* events whose message cannot be received

\* What the constants are, assumed by the module that gives them values.
StreamAssumption ==
  /\ \A s \in Streams : Script[s] \in Seq(Range(Script[s])) /\ IsInjective(Script[s])
  /\ \A s, t \in Streams : s # t => Range(Script[s]) \cap Range(Script[t]) = {}

Untold == [kind |-> "untold"]
Counts(a, r, e) == [kind |-> "counts", accepted |-> a, rejected |-> r, errors |-> e]
Failure == [kind |-> "failed"]

VARIABLES
  phase,      \* "serving", "draining" or "exited"
  client,     \* "new", "open", "halfClosed", or "gone": cancelled or disconnected
  sent,       \* events sent on each stream
  wire,       \* events on their way, in order
  handler,    \* "none", "recv", "ingest", "answer" or "returned"
  accepted, rejected, errors,    \* the handler's counts, the errors by number
  told,       \* what each client was answered
  stored      \* events in the store

peer == <<client, sent>>
counts == <<accepted, rejected, errors>>
vars == <<phase, peer, wire, handler, counts, told, stored>>

Zero == [s \in Streams |-> 0]

Init ==
  /\ phase = "serving"
  /\ client = [s \in Streams |-> "new"] /\ sent = Zero
  /\ wire = [s \in Streams |-> <<>>]
  /\ handler = [s \in Streams |-> "none"]
  /\ accepted = Zero /\ rejected = Zero /\ errors = Zero
  /\ told = [s \in Streams |-> Untold] /\ stored = {}

-----------------------------------------------------------------------------
Open(s) ==
  /\ phase = "serving" /\ client[s] = "new"
  /\ client' = [client EXCEPT ![s] = "open"]
  /\ handler' = [handler EXCEPT ![s] = "recv"]
  /\ UNCHANGED <<phase, sent, wire, counts, told, stored>>

\* Also while the server drains: the call is in flight.
Send(s) ==
  /\ client[s] = "open" /\ told[s] = Untold /\ sent[s] < Len(Script[s])
  /\ sent' = [sent EXCEPT ![s] = @ + 1]
  /\ wire' = [wire EXCEPT ![s] = Append(@, Script[s][sent[s] + 1])]
  /\ UNCHANGED <<phase, client, handler, counts, told, stored>>

CloseSend(s) ==
  /\ client[s] = "open"
  /\ client' = [client EXCEPT ![s] = "halfClosed"]
  /\ UNCHANGED <<phase, sent, wire, handler, counts, told, stored>>

\* The client cancels or its connection breaks.
Leave(s) ==
  /\ client[s] \in {"open", "halfClosed"} /\ told[s] = Untold
  /\ client' = [client EXCEPT ![s] = "gone"]
  /\ UNCHANGED <<phase, sent, wire, handler, counts, told, stored>>

-----------------------------------------------------------------------------
At(s, step) == phase # "exited" /\ handler[s] = step
Goto(s, step) == handler' = [handler EXCEPT ![s] = step]
Readable(s) == wire[s] # <<>> /\ Head(wire[s]) \notin Broken

Recv(s) ==
  /\ At(s, "recv") /\ Readable(s)
  /\ Goto(s, "ingest")
  /\ UNCHANGED <<phase, peer, wire, counts, told, stored>>

\* Faulty variant: an empty wire counts as the end.
RecvEndsWhenIdle(s) ==
  /\ At(s, "recv") /\ wire[s] = <<>>
  /\ Goto(s, "answer")
  /\ UNCHANGED <<phase, peer, wire, counts, told, stored>>

\* Recv returns an error, any error: the client has closed its side, is gone,
\* or its message cannot be received, which gRPC tells it itself.
RecvEnds(s) ==
  /\ At(s, "recv")
  /\ \/ client[s] = "gone" /\ UNCHANGED told
     \/ client[s] = "halfClosed" /\ wire[s] = <<>> /\ UNCHANGED told
     \/ /\ client[s] # "gone" /\ wire[s] # <<>> /\ ~Readable(s)
        /\ told' = [told EXCEPT ![s] = Failure]
  /\ Goto(s, "answer")
  /\ UNCHANGED <<phase, peer, wire, counts, stored>>

Ingested(s) == Goto(s, "recv") /\ wire' = [wire EXCEPT ![s] = Tail(@)]
CountOne(count, s) == count' = [count EXCEPT ![s] = @ + 1]

Accept(s) ==
  /\ At(s, "ingest") /\ Ingested(s)
  /\ stored' = stored \cup {Head(wire[s])}
  /\ CountOne(accepted, s)
  /\ UNCHANGED <<phase, peer, rejected, errors, told>>

\* A rejection has a text, an error of IngestEvent has no response at all.
Refuse(s) ==
  /\ At(s, "ingest") /\ Ingested(s)
  /\ CountOne(rejected, s)
  /\ CountOne(errors, s) \/ UNCHANGED errors
  /\ UNCHANGED <<phase, peer, accepted, told, stored>>

\* SendAndClose: the counts reach a client that is there and has no answer yet.
Answer(s) ==
  /\ At(s, "answer")
  /\ told' = [told EXCEPT ![s] =
                IF client[s] # "gone" /\ @ = Untold
                THEN Counts(accepted[s], rejected[s], errors[s]) ELSE @]
  /\ Goto(s, "returned")
  /\ UNCHANGED <<phase, peer, wire, counts, stored>>

IngestEventStream(s) == Recv(s) \/ RecvEnds(s) \/ Accept(s) \/ Refuse(s) \/ Answer(s)

-----------------------------------------------------------------------------
Signal ==
  /\ phase = "serving"
  /\ phase' = "draining"
  /\ UNCHANGED <<peer, wire, handler, counts, told, stored>>

\* GracefulStop returns, and the process ends.
Drained ==
  /\ phase = "draining"
  /\ \A s \in Streams : handler[s] \in {"none", "returned"}
  /\ phase' = "exited"
  /\ UNCHANGED <<peer, wire, handler, counts, told, stored>>

\* The process dies, or the service manager has waited long enough.
Killed ==
  /\ phase # "exited"
  /\ phase' = "exited"
  /\ client' = [s \in Streams |->
                  IF client[s] \in {"open", "halfClosed"} /\ told[s] = Untold
                  THEN "gone" ELSE client[s]]
  /\ UNCHANGED <<sent, wire, handler, counts, told, stored>>

Rest == phase = "exited" /\ UNCHANGED vars

Next ==
  \/ \E s \in Streams :
       Open(s) \/ Send(s) \/ CloseSend(s) \/ Leave(s) \/ IngestEventStream(s)
  \/ Signal \/ Drained \/ Killed \/ Rest

Spec == Init /\ [][Next]_vars

\* The goroutines of the server run.  A client need not do anything.
FairSpec ==
  /\ Spec
  /\ \A s \in Streams : WF_vars(IngestEventStream(s))
  /\ WF_vars(Drained)

-----------------------------------------------------------------------------
TypeOK ==
  /\ phase \in {"serving", "draining", "exited"}
  /\ client \in [Streams -> {"new", "open", "halfClosed", "gone"}]
  /\ handler \in [Streams -> {"none", "recv", "ingest", "answer", "returned"}]
  /\ \A s \in Streams :
       /\ wire[s] \in Seq(Range(Script[s])) /\ sent[s] \in 0..Len(Script[s])
       /\ accepted[s] + rejected[s] + Len(wire[s]) = sent[s]
       /\ errors[s] <= rejected[s]
       /\ \/ told[s] \in {Untold, Failure}
          \/ told[s] = Counts(accepted[s], rejected[s], errors[s])
  /\ stored \subseteq UNION {Range(Script[s]) : s \in Streams}

\* A client that is answered with counts has had every event it sent taken
\* through the pipeline, also when a signal arrived meanwhile: no event is cut
\* off unless the client is told of a failure (pipeline.go:220-241).
AnswerCoversSent ==
  \A s \in Streams : told[s].kind = "counts" =>
    told[s].accepted + told[s].rejected = sent[s]

\* The accepted count is the number of the stream's events in the store,
\* whichever of its events were rejected or failed (pipeline.go:226-234).
AcceptedAreStored ==
  \A s \in Streams : told[s].kind = "counts" =>
    told[s].accepted = Cardinality(stored \cap Range(Script[s]))

\* A signal ends the process (main.go:273 "wait for in-flight calls to complete").
SignalEnds == phase = "draining" ~> phase = "exited"

\* It does when no client keeps a stream open for ever.
SignalEndsIfReleased == (\A s \in Streams : <>[](client[s] # "open")) => SignalEnds

\* A client that has closed its side, and stays, is answered, whatever the
\* server was told meanwhile.
ClosedIsAnswered ==
  \A s \in Streams :
    client[s] = "halfClosed" ~> (told[s] # Untold \/ client[s] = "gone")
=============================================================================
