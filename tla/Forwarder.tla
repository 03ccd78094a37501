------------------------------- MODULE Forwarder -------------------------------
(***************************************************************************)
(* AnalysisForwarder (cmd/ingestion/analysis.go): handlers put events in a *)
(* bounded channel and never wait; one goroutine, the batcher, collects    *)
(* them in batches and sends each batch to the analysis engine, one call   *)
(* per session, behind a circuit breaker.  A batch that is not sent is     *)
(* given up.                                                               *)
(*                                                                         *)
(* The cooldown of the breaker is a flag that is set when the circuit      *)
(* opens and that time clears.  A call that fails may still have reached   *)
(* the engine.                                                             *)
(***************************************************************************)
EXTENDS Naturals, Sequences, FiniteSets, Functions

CONSTANTS Events, Sessions, SessionOf,
          QueueCap,       \* capacity of eventCh
          BatchSize,      \* cfg.BatchSize
          Threshold       \* cfg.CircuitBreakerThreshold

ASSUME ConfigAssumption ==
  /\ SessionOf \in [Events -> Sessions]
  /\ QueueCap \in Nat \ {0} /\ BatchSize \in Nat \ {0} /\ Threshold \in Nat \ {0}

VARIABLES
  queue,        \* eventCh
  cancelled,    \* Stop has cancelled the batcher's context
  pc,           \* the batcher: "select", "flush", "send", "drain" or "done"
  final,        \* the flush under way is drainAndFlush's
  batch,
  todo,         \* the sessions of the batch that flush has still to send
  allOK,
  client,       \* f.client is not nil
  circuit,      \* "closed" or "open"
  cooling,      \* openUntil has not come
  failures,
  accepted,     \* history: the events Submit put in the channel, in order
  dropped,      \* history: those it dropped
  before,       \* history: those accepted when Stop was called
  engine,       \* the events that reached the engine, in order
  givenUp       \* history: those whose batch was refused or whose call failed

channel == <<queue, accepted, dropped>>
breaker == <<client, circuit, cooling, failures>>
stopping == <<cancelled, before>>
outcome == <<engine, givenUp>>
vars == <<channel, stopping, pc, final, batch, todo, allOK, breaker, outcome>>

Init ==
  /\ queue = <<>> /\ accepted = <<>> /\ dropped = {}
  /\ cancelled = FALSE /\ before = {}
  /\ pc = "select" /\ final = FALSE
  /\ batch = <<>> /\ todo = {} /\ allOK = TRUE
  /\ client \in BOOLEAN
  /\ circuit = "closed" /\ cooling = FALSE /\ failures = 0
  /\ engine = <<>> /\ givenUp = {}

-----------------------------------------------------------------------------
(***************************************************************************)
(* The handlers and the main goroutine.  On its error path main calls Stop *)
(* while handlers still run, so events may be submitted after it.          *)
(***************************************************************************)
Fresh(e) == e \notin Range(accepted) \cup dropped

Submit(e) ==
  /\ Fresh(e) /\ Len(queue) < QueueCap
  /\ queue' = Append(queue, e)
  /\ accepted' = Append(accepted, e)
  /\ UNCHANGED <<dropped, stopping, pc, final, batch, todo, allOK, breaker, outcome>>

SubmitDrops(e) ==
  /\ Fresh(e) /\ Len(queue) = QueueCap
  /\ dropped' = dropped \cup {e}
  /\ UNCHANGED <<queue, accepted, stopping, pc, final, batch, todo, allOK, breaker, outcome>>

Stop ==
  /\ ~cancelled
  /\ cancelled' = TRUE
  /\ before' = Range(accepted)
  /\ UNCHANGED <<channel, pc, final, batch, todo, allOK, breaker, outcome>>

-----------------------------------------------------------------------------
(***************************************************************************)
(* runBatcher: the select takes any case that is ready.                    *)
(***************************************************************************)
Receive ==
  /\ queue # <<>>
  /\ batch' = Append(batch, Head(queue))
  /\ queue' = Tail(queue)
  /\ UNCHANGED <<accepted, dropped, stopping, final, todo, allOK, breaker, outcome>>

TakeEvent ==
  /\ pc = "select"
  /\ Receive
  /\ pc' = IF Len(batch') >= BatchSize THEN "flush" ELSE "select"

\* Faulty variant: the timer flushes full batches only.
TickWhenFull ==
  /\ pc = "select" /\ Len(batch) >= BatchSize
  /\ pc' = "flush"
  /\ UNCHANGED <<channel, stopping, final, batch, todo, allOK, breaker, outcome>>

Tick ==
  /\ pc = "select" /\ batch # <<>>
  /\ pc' = "flush"
  /\ UNCHANGED <<channel, stopping, final, batch, todo, allOK, breaker, outcome>>

Done ==
  /\ pc = "select" /\ cancelled
  /\ pc' = "drain"
  /\ UNCHANGED <<channel, stopping, final, batch, todo, allOK, breaker, outcome>>

DrainEvent ==
  /\ pc = "drain"
  /\ Receive
  /\ UNCHANGED pc

\* Faulty variant: the last batch is forgotten.
DrainedUnflushed ==
  /\ pc = "drain" /\ queue = <<>>
  /\ batch' = <<>>
  /\ pc' = "done"
  /\ UNCHANGED <<channel, stopping, final, todo, allOK, breaker, outcome>>

Drained ==
  /\ pc = "drain" /\ queue = <<>>
  /\ final' = TRUE
  /\ pc' = IF batch # <<>> THEN "flush" ELSE "done"
  /\ UNCHANGED <<channel, stopping, batch, todo, allOK, breaker, outcome>>

-----------------------------------------------------------------------------
(***************************************************************************)
(* flush.                                                                  *)
(***************************************************************************)
SessionsOf(evs) == {SessionOf[e] : e \in Range(evs)}

\* A set of positions, in ascending order.
Ascending(P) ==
  [k \in 1 .. Cardinality(P) |-> CHOOSE i \in P : Cardinality({j \in P : j <= i}) = k]

\* The part of the batch that belongs to s, in its order.
EventsOf(s) ==
  LET at == Ascending({i \in DOMAIN batch : SessionOf[batch[i]] = s})
  IN  [k \in DOMAIN at |-> batch[at[k]]]

\* The state of the batcher after a flush.
AfterFlush ==
  /\ batch' = <<>>
  /\ pc' = IF final THEN "done" ELSE "select"

\* circuitAllows, but for its closing an open circuit whose cooldown is over.
Allows == circuit = "closed" \/ ~cooling

FailedOnce == IF circuit = "open" THEN 1 ELSE failures + 1

\* recordFailure, with so many failures in a row.
RecordFailure(n) ==
  /\ failures' = n
  /\ IF n >= Threshold
       THEN circuit' = "open" /\ cooling' = TRUE
       ELSE circuit' = "closed" /\ UNCHANGED cooling

FlushRefused ==
  /\ pc = "flush" /\ ~Allows
  /\ givenUp' = givenUp \cup Range(batch)
  /\ AfterFlush
  /\ UNCHANGED <<channel, stopping, final, todo, allOK, breaker, engine>>

\* No connection, and dial fails.
FlushUnconnected ==
  /\ pc = "flush" /\ Allows /\ ~client
  /\ RecordFailure(FailedOnce)
  /\ givenUp' = givenUp \cup Range(batch)
  /\ AfterFlush
  /\ UNCHANGED <<channel, stopping, final, todo, allOK, client, engine>>

FlushStarts ==
  /\ pc = "flush" /\ Allows
  /\ client' = TRUE
  /\ circuit' = "closed"
  /\ failures' = IF circuit = "open" THEN 0 ELSE failures
  /\ todo' = SessionsOf(batch) /\ allOK' = TRUE
  /\ pc' = "send"
  /\ UNCHANGED <<channel, stopping, final, batch, cooling, outcome>>

Send(s) ==
  /\ pc = "send" /\ s \in todo
  /\ engine' = engine \o EventsOf(s)
  /\ todo' = todo \ {s}
  /\ UNCHANGED <<channel, stopping, pc, final, batch, allOK, breaker, givenUp>>

\* The call fails or times out; the engine may have the events all the same.
SendFails(s) ==
  /\ pc = "send" /\ s \in todo
  /\ engine' \in {engine, engine \o EventsOf(s)}
  /\ givenUp' = givenUp \cup Range(EventsOf(s))
  /\ allOK' = FALSE
  /\ todo' = todo \ {s}
  /\ UNCHANGED <<channel, stopping, pc, final, batch, breaker>>

\* Faulty variant: batch[:0] is forgotten.
FlushEndsKeepingBatch ==
  /\ pc = "send" /\ todo = {}
  /\ IF allOK THEN failures' = 0 /\ UNCHANGED <<circuit, cooling>>
              ELSE RecordFailure(failures + 1)
  /\ batch' = batch
  /\ pc' = IF final THEN "done" ELSE "select"
  /\ UNCHANGED <<channel, stopping, final, todo, allOK, client, outcome>>

FlushEnds ==
  /\ pc = "send" /\ todo = {}
  /\ IF allOK THEN failures' = 0 /\ UNCHANGED <<circuit, cooling>>
              ELSE RecordFailure(failures + 1)
  /\ AfterFlush
  /\ UNCHANGED <<channel, stopping, final, todo, allOK, client, outcome>>

CooldownEnds ==
  /\ cooling
  /\ cooling' = FALSE
  /\ UNCHANGED <<channel, stopping, pc, final, batch, todo, allOK,
                 client, circuit, failures, outcome>>

-----------------------------------------------------------------------------
Batcher ==
  \/ TakeEvent \/ Tick \/ Done \/ DrainEvent \/ Drained
  \/ FlushRefused \/ FlushUnconnected \/ FlushStarts \/ FlushEnds
  \/ \E s \in Sessions : Send(s) \/ SendFails(s)

\* The batcher has returned: nothing is left to do once all were submitted.
Finished ==
  /\ pc = "done" /\ \A e \in Events : ~Fresh(e)
  /\ UNCHANGED vars

Next ==
  \/ \E e \in Events : Submit(e) \/ SubmitDrops(e)
  \/ Stop \/ Batcher \/ CooldownEnds \/ Finished

Spec == Init /\ [][Next]_vars

\* The batcher goroutine is scheduled and its calls end, by their timeout at the
\* latest; a select whose context is done takes that case in the end, however
\* many events arrive.
FairSpec == Spec /\ WF_vars(Batcher) /\ SF_vars(Done)

-----------------------------------------------------------------------------
(***************************************************************************)
(* Properties.                                                             *)
(***************************************************************************)
TypeOK ==
  /\ Len(queue) <= QueueCap /\ Range(queue) \subseteq Range(accepted)
  /\ Range(accepted) \subseteq Events /\ dropped \subseteq Events \ Range(accepted)
  /\ cancelled \in BOOLEAN /\ before \subseteq Range(accepted)
  /\ pc \in {"select", "flush", "send", "drain", "done"} /\ final \in BOOLEAN
  /\ Range(batch) \subseteq Range(accepted)
  /\ pc # "drain" /\ ~final => Len(batch) <= BatchSize
  /\ todo \subseteq SessionsOf(batch) /\ allOK \in BOOLEAN
  /\ client \in BOOLEAN /\ circuit \in {"closed", "open"} /\ cooling \in BOOLEAN
  /\ failures \in 0 .. Threshold
  /\ givenUp \subseteq Range(accepted)

\* When the batcher has returned, no event that was submitted before Stop is left
\* in the channel or the batch; later ones may be (Stop:110-118).
StopDrains == pc = "done" => before \cap (Range(queue) \cup Range(batch)) = {}

\* An event put in the channel is in it, in the batch, at the engine or among the
\* events whose batch was refused or failed: none vanishes, and Stop leaves none
\* behind (runBatcher:121-149, drainAndFlush:152-164).
NothingVanishes ==
  /\ Range(accepted) = Range(queue) \cup Range(batch) \cup Range(engine) \cup givenUp
  /\ StopDrains

PositionOf(e) == CHOOSE i \in DOMAIN accepted : accepted[i] = e

\* No call is made while the breaker cools down, nor after Threshold failed
\* flushes in a row (circuitAllows:231-245, recordFailure:248-260).
BreakerHolds == pc = "send" => circuit = "closed" /\ ~cooling /\ failures < Threshold

\* The engine sees the events of a session in the order they were submitted, and
\* none twice, whatever the order in which flush sends the sessions and though a
\* failed call may have arrived (flush:184-198).
SessionOrder ==
  \A i, j \in DOMAIN engine :
    i < j /\ SessionOf[engine[i]] = SessionOf[engine[j]] =>
      PositionOf(engine[i]) < PositionOf(engine[j])

\* What the engine is sent comes in order and past a closed breaker only.
CallsInOrder == SessionOrder /\ BreakerHolds

\* Every event that was accepted before Stop is sent or given up in the end, and
\* Stop's wait ends.
EveryEventFlushed ==
  /\ \A e \in Events :
       (e \in Range(accepted) /\ ~cancelled) ~> (e \in Range(engine) \cup givenUp)
  /\ cancelled ~> pc = "done"
=============================================================================
