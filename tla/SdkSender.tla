------------------------------ MODULE SdkSender ------------------------------
(***************************************************************************)
(* The Python SDK (sdk/agent_transponder): the application's threads put   *)
(* events in a bounded queue and never wait; one daemon thread takes them  *)
(* out and sends each, with a bounded number of attempts; close puts a     *)
(* stop mark in the queue and waits for the thread for a limited time.     *)
(*                                                                         *)
(* An attempt ends accepted, rejected by the server, or without an answer. *)
(* Connecting may raise (the certificates cannot be read), which is not    *)
(* caught and ends the thread.                                             *)
(***************************************************************************)
EXTENDS Naturals, Sequences, FiniteSets, Functions, SequencesExt

CONSTANTS Events,
          Unacceptable,   \* events the server rejects whenever they are sent
          QueueSize,      \* cfg.queue_maxsize
          MaxRetries,     \* cfg.max_retries
          MayBreak        \* connecting may raise

Mark == "stop"
Nothing == "nothing"

\* What the constants are, assumed by the module that gives them values.
SdkAssumption ==
  /\ Mark \notin Events /\ Nothing \notin Events
  /\ Unacceptable \subseteq Events
  /\ QueueSize \in Nat \ {0} /\ MaxRetries \in Nat /\ MayBreak \in BOOLEAN

VARIABLES
  queue,
  thread,     \* the sender: "run", "drain", "done", or "dead" by an exception
  current,    \* the event it is delivering
  attempt,
  connected,
  closing,    \* close: "open", "put", "join" or "closed"
  joined,     \* the join ended because the thread did
  flush,      \* flush: "idle", "polling", "returned" or "timedOut"
  entered,    \* history: events put in the queue, in order
  early,      \* history: those put before close was called
  flushed,    \* history: those put before flush was called
  overflow,   \* history: events dropped because the queue was full
  delivered, dropped,    \* history: events accepted, events given up, in order
  answer      \* history: how the last attempt on the current event ended

sending == <<current, attempt, delivered, dropped, answer>>
producer == <<entered, overflow>>
closer == <<closing, joined, early>>
flusher == <<flush, flushed>>
vars == <<queue, thread, connected, sending, producer, closer, flusher>>

Init ==
  /\ queue = <<>> /\ thread = "run" /\ connected = FALSE
  /\ current = Nothing /\ attempt = 0 /\ answer = "none"
  /\ closing = "open" /\ joined = FALSE /\ early = {}
  /\ flush = "idle" /\ flushed = {}
  /\ entered = <<>> /\ overflow = {} /\ delivered = <<>> /\ dropped = <<>>

Waiting == Range(queue) \ {Mark}
Settled == Range(delivered) \cup Range(dropped)
Fresh(e) == e \notin Range(entered) \cup overflow

-----------------------------------------------------------------------------
(***************************************************************************)
(* The application: _enqueue, flush, close.  Nothing keeps it from putting *)
(* events after close.                                                     *)
(***************************************************************************)
Enqueue(e) ==
  /\ Fresh(e)
  /\ IF Len(queue) < QueueSize
     THEN /\ queue' = Append(queue, e) /\ entered' = Append(entered, e)
          /\ UNCHANGED overflow
     ELSE overflow' = overflow \cup {e} /\ UNCHANGED <<queue, entered>>
  /\ UNCHANGED <<thread, connected, sending, closer, flusher>>

FlushStarts ==
  /\ flush = "idle"
  /\ flush' = "polling" /\ flushed' = Range(entered)
  /\ UNCHANGED <<queue, thread, connected, sending, producer, closer>>

FlushSeesEmpty ==
  /\ flush = "polling" /\ queue = <<>>
  /\ flush' = "returned"
  /\ UNCHANGED <<queue, thread, connected, sending, producer, closer, flushed>>

FlushTimesOut ==
  /\ flush = "polling" /\ queue # <<>>
  /\ flush' = "timedOut"
  /\ UNCHANGED <<queue, thread, connected, sending, producer, closer, flushed>>

Close ==
  /\ closing = "open"
  /\ closing' = "put" /\ early' = Range(entered)
  /\ UNCHANGED <<queue, thread, connected, sending, producer, joined, flusher>>

\* stop: the queue's put waits for room, without a limit.
PutMark ==
  /\ closing = "put" /\ Len(queue) < QueueSize
  /\ queue' = Append(queue, Mark)
  /\ closing' = "join"
  /\ UNCHANGED <<thread, connected, sending, producer, joined, early, flusher>>

Join ==
  /\ closing = "join" /\ thread \in {"done", "dead"}
  /\ closing' = "closed" /\ joined' = (thread = "done")
  /\ UNCHANGED <<queue, thread, connected, sending, producer, early, flusher>>

JoinTimesOut ==
  /\ closing = "join" /\ thread \notin {"done", "dead"}
  /\ closing' = "closed"
  /\ UNCHANGED <<queue, thread, connected, sending, producer, joined, early, flusher>>

-----------------------------------------------------------------------------
(***************************************************************************)
(* The sender thread: _run, _drain, _deliver_with_retry, send_event.       *)
(***************************************************************************)
Free == thread \in {"run", "drain"} /\ current = Nothing

Take ==
  /\ Free /\ queue # <<>> /\ Head(queue) # Mark
  /\ current' = Head(queue) /\ queue' = Tail(queue)
  /\ attempt' = 0 /\ answer' = "none"
  /\ UNCHANGED <<thread, connected, delivered, dropped, producer, closer, flusher>>

\* The mark: what is in the queue is still sent, then the thread ends.
TakeMark ==
  /\ Free /\ queue # <<>> /\ Head(queue) = Mark
  /\ queue' = Tail(queue)
  /\ thread' = IF thread = "run" THEN "drain" ELSE "done"
  /\ UNCHANGED <<connected, sending, producer, closer, flusher>>

Drained ==
  /\ Free /\ thread = "drain" /\ queue = <<>>
  /\ thread' = "done"
  /\ UNCHANGED <<queue, connected, sending, producer, closer, flusher>>

\* _ensure_connected is called outside the try of send_event.
Breaks ==
  /\ MayBreak /\ current # Nothing /\ ~connected
  /\ thread' = "dead"
  /\ UNCHANGED <<queue, connected, sending, producer, closer, flusher>>

Working == current # Nothing /\ thread # "dead"

Accepted ==
  /\ Working /\ current \notin Unacceptable
  /\ connected' = TRUE
  /\ delivered' = Append(delivered, current)
  /\ current' = Nothing /\ attempt' = 0 /\ answer' = "none"
  /\ UNCHANGED <<queue, thread, dropped, producer, closer, flusher>>

\* Faulty variant: an event that failed goes back to the end of the queue.
FailedRequeues(how) ==
  /\ Working /\ connected' = TRUE
  /\ IF attempt = MaxRetries
     THEN dropped' = Append(dropped, current) /\ UNCHANGED queue
     ELSE queue' = Append(queue, current) /\ UNCHANGED dropped
  /\ current' = Nothing /\ attempt' = 0 /\ answer' = "none"
  /\ UNCHANGED <<thread, delivered, producer, closer, flusher>>

\* Faulty variant: attempts are not counted.
FailedUncounted(how) ==
  /\ Working /\ connected' = TRUE
  /\ answer' = how
  /\ UNCHANGED <<queue, thread, current, attempt, delivered, dropped, producer, closer, flusher>>

\* A failed attempt: wait and try again, or drop the event.
Failed(how) ==
  /\ Working /\ connected' = TRUE
  /\ IF attempt = MaxRetries
     THEN /\ dropped' = Append(dropped, current)
          /\ current' = Nothing /\ attempt' = 0 /\ answer' = "none"
     ELSE attempt' = attempt + 1 /\ answer' = how /\ UNCHANGED <<current, dropped>>
  /\ UNCHANGED <<queue, thread, delivered, producer, closer, flusher>>

Rejected == current \in Unacceptable /\ Failed("rejected")
Unanswered == Failed("transient")

Application ==
  \/ \E e \in Events : Enqueue(e)
  \/ FlushStarts \/ FlushSeesEmpty \/ FlushTimesOut
  \/ Close \/ PutMark \/ Join \/ JoinTimesOut

Sender ==
  \/ Take \/ TakeMark \/ Drained \/ Breaks
  \/ Accepted \/ Rejected \/ Unanswered

\* The behaviour may stop: nothing left to send, or nobody to send it.
Rest ==
  /\ closing = "closed" \/ (closing = "put" /\ thread = "dead")
  /\ UNCHANGED vars

Next == Application \/ Sender \/ Rest
Spec == Init /\ [][Next]_vars

\* The threads run: the sender, and the one that is inside close or flush.
FairSpec ==
  /\ Spec
  /\ WF_vars(Sender)
  /\ WF_vars(PutMark) /\ WF_vars(Join \/ JoinTimesOut)
  /\ WF_vars(FlushSeesEmpty \/ FlushTimesOut)

-----------------------------------------------------------------------------
TypeOK ==
  /\ queue \in Seq(Events \cup {Mark}) /\ Len(queue) <= QueueSize
  /\ thread \in {"run", "drain", "done", "dead"}
  /\ current \in Events \cup {Nothing} /\ attempt \in 0..MaxRetries
  /\ connected \in BOOLEAN /\ joined \in BOOLEAN
  /\ closing \in {"open", "put", "join", "closed"}
  /\ flush \in {"idle", "polling", "returned", "timedOut"}
  /\ entered \in Seq(Events) /\ delivered \in Seq(Events) /\ dropped \in Seq(Events)
  /\ early \subseteq Events /\ flushed \subseteq Events /\ overflow \subseteq Events
  /\ answer \in {"none", "rejected", "transient"}

\* An event that entered the queue is in it, being delivered, delivered, or
\* dropped after its attempts: it is in one place only (client.py:274-323).
InOnePlace ==
  \A e \in Range(entered) :
    LET places == <<e \in Waiting, current = e, e \in Range(delivered), e \in Range(dropped)>>
    IN  Cardinality({i \in DOMAIN places : places[i]}) = 1

\* Events are settled in the order they entered: retries do not reorder them
\* (client.py:288, 302-323).
SettledInOrder ==
  \A i, j \in DOMAIN entered : (i < j /\ entered[j] \in Settled) => entered[i] \in Settled

\* When close has seen the thread end, everything recorded before close was
\* called has been sent or dropped after its attempts (__init__.py:424-431).
CloseFlushes == joined => early \subseteq Settled

\* When flush returns because the queue is empty, one event recorded before it
\* may still be on its way, and no more (__init__.py:409-422).
FlushLeavesOne == flush = "returned" => Cardinality(flushed \ Settled) <= 1

\* As long as the thread is alive every event is settled in the end, but for
\* those recorded after close was called (client.py:274-300).
EveryEventSettled ==
  \A e \in Events : e \in Range(entered) ~>
    (e \in Settled \/ thread = "dead" \/ (thread = "done" /\ e \notin early))

\* close returns: shutdown_timeout_sec is how long it waits (config.py:43-44).
CloseReturns == closing = "put" ~> closing = "closed"

\* It does as long as the sender thread is not ended by an exception.
CloseReturnsIfAlive == closing = "put" ~> (closing = "closed" \/ thread = "dead")

\* Only errors that may pass are worth another attempt (client.py:243, 246-254).
RetriesTransientOnly == attempt > 0 => answer = "transient"
=============================================================================
