------------------------------ MODULE Processes ------------------------------
(***************************************************************************)
(* The processes around the store: the streaming call of the ingestion     *)
(* server (IngestStream), the life of the analyzer process (AnalyzerMain)  *)
(* and the exporter (Exporter).                                            *)
(*                                                                         *)
(* They share no variable.  A behaviour is one of one of them, the         *)
(* subject, chosen in the initial state; the other two stay as they start, *)
(* and the fairness of each holds where it is the subject.                 *)
(***************************************************************************)
EXTENDS Naturals, Sequences

CONSTANTS
  Streams, Script, Broken,                            \* Stream
  NFiles, MaxEvents, MaxStarts, MaxFailures,                     \* Main
  Files, Tenants, Labels, TenantOf, NoType,           \* Metrics
  MaxLines, MaxFaults, MaxScrapes

VARIABLES
  subject,
  phase, client, sent, wire, handler, accepted, rejected, errors, told, stored,
  events, saved, reported, main, status, cancelled, server, loop, next, read,
  unsaved, failed, starts,
  lines, process, pc, todo, counted, metrics, atStart, clean, scraped, scrapes, faults

streamVars ==
  <<phase, client, sent, wire, handler, accepted, rejected, errors, told, stored>>
mainVars ==
  <<events, saved, reported, main, status, cancelled, server, loop, next, read,
    unsaved, failed, starts>>
metricsVars ==
  <<lines, process, pc, todo, counted, metrics, atStart, clean, scraped, scrapes, faults>>
vars == <<subject, streamVars, mainVars, metricsVars>>

Stream == INSTANCE IngestStream
Main == INSTANCE AnalyzerMain
Metrics == INSTANCE Exporter

ASSUME StreamOk == Stream!StreamAssumption
ASSUME MainOk == Main!MainAssumption
ASSUME MetricsOk == Metrics!ExporterAssumption

Init ==
  /\ subject \in {"stream", "main", "metrics"}
  /\ Stream!Init /\ Main!Init /\ Metrics!Init

\* The steps of one of them, as steps of the whole.
OfStream(A) == subject = "stream" /\ A /\ UNCHANGED <<subject, mainVars, metricsVars>>
OfMain(A) == subject = "main" /\ A /\ UNCHANGED <<subject, streamVars, metricsVars>>
OfMetrics(A) == subject = "metrics" /\ A /\ UNCHANGED <<subject, streamVars, mainVars>>

StreamMoves == OfStream(Stream!Next)
MainMoves == OfMain(Main!Next)
MetricsMoves == OfMetrics(Metrics!Next)

Next == StreamMoves \/ MainMoves \/ MetricsMoves

Spec == Init /\ [][Next]_vars

\* The fairness each module states in its FairSpec.
FairSpec ==
  /\ Spec
  /\ \A s \in Streams : WF_vars(OfStream(Stream!IngestEventStream(s)))
  /\ WF_vars(OfStream(Stream!Drained))
  /\ WF_vars(OfMain(Main!Launch)) /\ WF_vars(OfMain(Main!Start \/ Main!StartFails))
  /\ WF_vars(OfMain(Main!ComponentError)) /\ WF_vars(OfMain(Main!ShutServerDown))
  /\ WF_vars(OfMain(Main!Return)) /\ WF_vars(OfMain(Main!Loop))
  /\ SF_vars(OfMain(Main!Running /\ Main!LoopEnds))
  /\ WF_vars(OfMetrics(Metrics!Collector))

-----------------------------------------------------------------------------
\* A client of the streaming call that is answered with counts has had every
\* event it sent taken through the pipeline, and as many of them are in the
\* store as the answer says, also when the server was stopped meanwhile
\* (pipeline.go:216-241).
StreamAnswersAreTrue == Stream!AnswerCoversSent /\ Stream!AcceptedAreStored

\* Wherever the analyzer process is stopped, fails or dies and is started again,
\* no event is passed over, and what is reported twice was reported without its
\* position being saved: by a poll that was cut off, a write that failed, or a
\* process that died (main.go:126-167, analyzer.go:104-183).
RestartsLoseNothing ==
  Main!CursorBehindReports /\ Main!LoopEndsFirst /\ Main!RepeatedByUnsavedOnly

\* The metrics never show a finding that is not there, and after a round in
\* which nothing failed they are true of some time in the round, while the
\* analyzer appends (cmd/exporter/main.go:244-351).
MetricsAreTrue == Metrics!NeverTooMany /\ Metrics!RoundIsTrue

\* A signal ends the ingestion server once no client holds a stream open, a
\* client that has closed its side is answered, a stop ends the analyzer
\* process, and every finding is shown in the end (cmd/ingestion/main.go:266-280,
\* cmd/analyzer/main.go:152-167, cmd/exporter/main.go:223-240).
WorkEnds ==
  /\ Stream!SignalEndsIfReleased /\ Stream!ClosedIsAnswered
  /\ Main!StopEnds
  /\ Metrics!ShownInTheEnd
=============================================================================
