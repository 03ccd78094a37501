--------------------------- MODULE EventPath_proofs ---------------------------
(***************************************************************************)
(* Proofs about an event on its way to the store: the SDK's queue, for any *)
(* set of events, any size and any number of retries; the signature and    *)
(* what is stored, for any configuration, certificates and data; and       *)
(* redaction, for any patterns and texts.                                  *)
(***************************************************************************)
EXTENDS EventPath, FiniteSetTheorems, SequenceTheorems, WellFoundedInduction, TLAPS

-----------------------------------------------------------------------------
(***************************************************************************)
(* The queue of the SDK.  Its inductive invariant relates three orders:    *)
(* that in which the events entered, that of the queue, and that in which  *)
(* they are settled.                                                       *)
(***************************************************************************)
QueueTypes ==
  /\ queue \in Seq(Events \cup {Mark}) /\ Len(queue) <= QueueSize
  /\ entered \in Seq(Events) /\ delivered \in Seq(Events) /\ dropped \in Seq(Events)

Numbers ==
  /\ current \in Events \cup {Nothing} /\ attempt \in 0..MaxRetries
  /\ early \subseteq Events /\ flushed \subseteq Events /\ overflow \subseteq Events

Flags ==
  /\ thread \in {"run", "drain", "done", "dead"}
  /\ connected \in BOOLEAN /\ joined \in BOOLEAN
  /\ closing \in {"open", "put", "join", "closed"}
  /\ flush \in {"idle", "polling", "returned", "timedOut"}
  /\ answer \in {"none", "rejected", "transient"}

\* Nothing enters twice, and nothing is in the queue twice.
Once ==
  /\ \A i, j \in DOMAIN entered : entered[i] = entered[j] => i = j
  /\ \A p, q \in DOMAIN queue : queue[p] = queue[q] => p = q

\* What entered is waiting, current or settled, and only one of these.
Placed ==
  /\ Range(entered) = Waiting \cup ({current} \cap Events) \cup Settled
  /\ current \notin Waiting \cup Settled
  /\ Waiting \cap Settled = {}
  /\ Range(delivered) \cap Range(dropped) = {}

\* Before an event that is settled or current all are settled, and the queue
\* keeps the order of entering.
Ordered ==
  /\ \A i, j \in DOMAIN entered :
       (i < j /\ (entered[j] \in Settled \/ entered[j] = current)) => entered[i] \in Settled
  /\ \A i, j \in DOMAIN entered : \A p, q \in DOMAIN queue :
       (queue[p] = entered[i] /\ queue[q] = entered[j] /\ p < q) => i < j

\* There is one mark: once the thread has taken it there is none.
OneMark ==
  /\ Mark \in Range(queue) => closing \in {"join", "closed"} /\ thread \notin {"drain", "done"}
  /\ thread \in {"drain", "done"} => closing \in {"join", "closed"}

\* What close and flush wait for.
Awaited ==
  /\ early \subseteq Range(entered) /\ flushed \subseteq Range(entered)
  /\ thread = "done" => early \subseteq Settled
  /\ joined => closing = "closed" /\ early \subseteq Settled
  /\ flush = "returned" => \E e : flushed \ Settled \subseteq {e}

QueueInv == QueueTypes /\ Numbers /\ Flags /\ Once /\ Placed /\ Ordered /\ OneMark /\ Awaited

LEMMA QueueUntouched ==
  ASSUME QueueInv, UNCHANGED vars
  PROVE  QueueInv'
<1>. USE DEF QueueInv, vars, sending, producer, closer, flusher, Settled, Waiting
<1>1. (QueueTypes /\ Numbers /\ Flags)'
  BY DEF QueueTypes, Numbers, Flags
<1>2. (Once /\ Placed /\ Ordered /\ OneMark /\ Awaited)'
  BY DEF Once, Placed, Ordered, OneMark, Awaited
<1>. QED  BY <1>1, <1>2

LEMMA QueueInitially == Init => QueueInv
<1>. SUFFICES ASSUME Init PROVE QueueInv
  OBVIOUS
<1>. USE SdkOk DEF SdkAssumption, Init
<1>1. QueueTypes /\ Numbers
  BY DEF QueueTypes, Numbers
<1>2. Flags
  BY DEF Flags
<1>3. Range(queue) = {} /\ Range(entered) = {} /\ Range(delivered) = {} /\ Range(dropped) = {}
  BY DEF Range
<1>4. Waiting = {} /\ Settled = {}
  BY <1>3 DEF Waiting, Settled
<1>5. Once /\ Placed /\ Ordered
  BY <1>3, <1>4 DEF Once, Placed, Ordered
<1>6. OneMark /\ Awaited
  BY <1>3, <1>4 DEF OneMark, Awaited
<1>. QED  BY <1>1, <1>2, <1>5, <1>6 DEF QueueInv

-----------------------------------------------------------------------------
LEMMA Domains ==
  ASSUME NEW S, NEW s \in Seq(S)
  PROVE  /\ Len(s) \in Nat /\ DOMAIN s = 1 .. Len(s)
         /\ \A i \in 1 .. Len(s) : s[i] \in S /\ s[i] \in Range(s)
         /\ \A x \in Range(s) : x \in S /\ \E i \in 1 .. Len(s) : s[i] = x
BY LenProperties, ElementOfSeq DEF Range

LEMMA Appended ==
  ASSUME NEW S, NEW s \in Seq(S), NEW e \in S
  PROVE  /\ Append(s, e) \in Seq(S) /\ DOMAIN Append(s, e) = 1 .. Len(s) + 1
         /\ Len(Append(s, e)) = Len(s) + 1
         /\ \A i \in 1 .. Len(s) : Append(s, e)[i] = s[i]
         /\ Append(s, e)[Len(s) + 1] = e
         /\ Range(Append(s, e)) = Range(s) \cup {e}
<1>1. /\ Append(s, e) \in Seq(S) /\ Len(Append(s, e)) = Len(s) + 1
      /\ \A i \in 1 .. Len(s) : Append(s, e)[i] = s[i]
      /\ Append(s, e)[Len(s) + 1] = e
  BY AppendProperties
<1>2. DOMAIN Append(s, e) = 1 .. Len(s) + 1 /\ DOMAIN s = 1 .. Len(s) /\ Len(s) \in Nat
  BY <1>1, Domains
<1>3. Range(Append(s, e)) = Range(s) \cup {e}
  BY <1>1, <1>2 DEF Range
<1>. QED  BY <1>1, <1>2, <1>3

LEMMA Headless ==
  ASSUME NEW S, NEW s \in Seq(S), s # <<>>
  PROVE  /\ Len(s) > 0 /\ Head(s) = s[1] /\ Head(s) \in S /\ 1 \in DOMAIN s
         /\ Tail(s) \in Seq(S) /\ Len(Tail(s)) = Len(s) - 1
         /\ \A i \in DOMAIN Tail(s) : i + 1 \in DOMAIN s /\ Tail(s)[i] = s[i + 1] /\ 1 < i + 1 /\ i \in Int
         /\ Range(s) = {Head(s)} \cup Range(Tail(s))
<1>1. /\ Head(s) = s[1] /\ Head(s) \in S
      /\ Tail(s) \in Seq(S) /\ Len(Tail(s)) = Len(s) - 1
      /\ \A i \in 1 .. Len(s) - 1 : Tail(s)[i] = s[i + 1]
  BY HeadTailProperties, EmptySeq
<1>2. Len(s) \in Nat /\ Len(s) > 0
  BY <1>1, Domains
<1>3. \A i \in 1 .. Len(s) : i = 1 \/ (i - 1 \in 1 .. Len(s) - 1 /\ s[i] = Tail(s)[i - 1])
  BY <1>1, <1>2
<1>4. \A i \in 1 .. Len(s) - 1 : i + 1 \in 1 .. Len(s) /\ Tail(s)[i] = s[i + 1] /\ 1 < i + 1 /\ i \in Int
  BY <1>1, <1>2
<1>5. DOMAIN Tail(s) = 1 .. Len(s) - 1 /\ DOMAIN s = 1 .. Len(s) /\ 1 \in 1 .. Len(s)
  BY <1>1, <1>2, Domains
<1>6. Range(s) = {Head(s)} \cup Range(Tail(s))
  <2>1. ASSUME NEW x \in Range(s) PROVE x = Head(s) \/ x \in Range(Tail(s))
    <3>1. PICK i \in 1 .. Len(s) : x = s[i]
      BY <1>5 DEF Range
    <3>2. CASE i = 1
      BY <1>1, <3>1, <3>2
    <3>3. CASE i # 1
      <4>1. i - 1 \in DOMAIN Tail(s) /\ x = Tail(s)[i - 1]
        BY <1>3, <1>5, <3>1, <3>3
      <4>. QED  BY <4>1 DEF Range
    <3>. QED  BY <3>2, <3>3
  <2>2. Head(s) \in Range(s) /\ \A x \in Range(Tail(s)) : x \in Range(s)
    BY <1>1, <1>4, <1>5 DEF Range
  <2>. QED  BY <2>1, <2>2
<1>. QED  BY <1>1, <1>2, <1>4, <1>5, <1>6

-----------------------------------------------------------------------------
(***************************************************************************)
(* A step keeps the types, whatever it is.                                 *)
(***************************************************************************)
LEMMA FlagsStep == Flags /\ Next => Flags'
<1>. SUFFICES ASSUME Flags, Next PROVE Flags'
  OBVIOUS
<1>. USE DEF Flags
<1>1. ASSUME NEW e \in Events, Enqueue(e) PROVE Flags'
  BY <1>1 DEF Enqueue, sending, closer, flusher
<1>2. CASE FlushStarts \/ FlushSeesEmpty \/ FlushTimesOut
  BY <1>2 DEF FlushStarts, FlushSeesEmpty, FlushTimesOut, sending, closer
<1>3. CASE Close \/ PutMark
  BY <1>3 DEF Close, PutMark, sending, flusher
<1>4. CASE Join \/ JoinTimesOut
  BY <1>4, Zenon DEF Join, JoinTimesOut, sending, flusher
<1>5. CASE Take \/ TakeMark \/ Drained \/ Breaks
  BY <1>5 DEF Take, TakeMark, Drained, Breaks, sending, closer, flusher
<1>6. CASE Accepted
  BY <1>6 DEF Accepted, closer, flusher
<1>7. ASSUME NEW how \in {"rejected", "transient"}, Failed(how) PROVE Flags'
  BY <1>7 DEF Failed, closer, flusher
<1>8. CASE Rest
  BY <1>8 DEF Rest, vars, sending, closer, flusher
<1>. QED
  BY <1>1, <1>2, <1>3, <1>4, <1>5, <1>6, <1>7, <1>8
     DEF Next, Application, Sender, Rejected, Unanswered

LEMMA TypesStep == QueueTypes /\ Numbers /\ Next => QueueTypes' /\ Numbers'
<1>. SUFFICES ASSUME QueueTypes, Numbers, Next PROVE QueueTypes' /\ Numbers'
  OBVIOUS
<1>. USE SdkOk DEF SdkAssumption, QueueTypes, Numbers
<1>1. ASSUME NEW e \in Events, Enqueue(e) PROVE QueueTypes' /\ Numbers'
  <2>1. /\ Append(queue, e) \in Seq(Events \cup {Mark}) /\ Len(Append(queue, e)) = Len(queue) + 1
        /\ Append(entered, e) \in Seq(Events) /\ Len(queue) \in Nat
    BY Appended, Domains
  <2>2. CASE Len(queue) < QueueSize
    <3>1. queue' = Append(queue, e) /\ entered' = Append(entered, e) /\ overflow' = overflow
          /\ UNCHANGED <<current, attempt, delivered, dropped, early, flushed>>
      BY <1>1, <2>2 DEF Enqueue, sending, closer, flusher
    <3>2. Len(queue) + 1 <= QueueSize
      BY <2>1, <2>2
    <3>. QED  BY <2>1, <3>1, <3>2
  <2>3. CASE ~(Len(queue) < QueueSize)
    BY <1>1, <2>3 DEF Enqueue, sending, closer, flusher
  <2>. QED  BY <2>2, <2>3
<1>2. CASE FlushStarts \/ FlushSeesEmpty \/ FlushTimesOut \/ Close
  <2>1. Range(entered) \subseteq Events
    BY Domains
  <2>. QED
    BY <1>2, <2>1 DEF FlushStarts, FlushSeesEmpty, FlushTimesOut, Close, sending, producer, closer, flusher
<1>3. CASE PutMark
  <2>1. /\ Append(queue, Mark) \in Seq(Events \cup {Mark})
        /\ Len(Append(queue, Mark)) = Len(queue) + 1 /\ Len(queue) \in Nat
    BY Appended, Domains
  <2>. QED  BY <1>3, <2>1 DEF PutMark, sending, producer, flusher
<1>4. CASE Join \/ JoinTimesOut
  BY <1>4 DEF Join, JoinTimesOut, sending, producer, flusher
<1>5. CASE Take \/ TakeMark
  <2>1. /\ Tail(queue) \in Seq(Events \cup {Mark}) /\ Len(Tail(queue)) = Len(queue) - 1
        /\ Head(queue) \in Events \cup {Mark} /\ Len(queue) \in Nat
    BY <1>5, Headless, Domains DEF Take, TakeMark
  <2>2. QueueTypes'
    <3>1. queue' = Tail(queue) /\ UNCHANGED <<entered, delivered, dropped>>
      BY <1>5 DEF Take, TakeMark, sending, producer
    <3>. QED  BY <2>1, <3>1
  <2>3. Numbers'
    <3>1. UNCHANGED <<early, flushed, overflow>>
      BY <1>5 DEF Take, TakeMark, producer, closer, flusher
    <3>2. (current' = current /\ attempt' = attempt) \/ (current' \in Events /\ attempt' = 0)
      BY <1>5, <2>1 DEF Take, TakeMark, sending
    <3>. QED  BY <3>1, <3>2
  <2>. QED  BY <2>2, <2>3
<1>6. CASE Drained \/ Breaks \/ Rest
  BY <1>6 DEF Drained, Breaks, Rest, vars, sending, producer, closer, flusher
<1>7. CASE Accepted
  <2>1. Append(delivered, current) \in Seq(Events)
    BY <1>7, Appended DEF Accepted, Working
  <2>. QED  BY <1>7, <2>1 DEF Accepted, producer, closer, flusher
<1>8. ASSUME NEW how, Failed(how) PROVE QueueTypes' /\ Numbers'
  <2>1. Append(dropped, current) \in Seq(Events)
    BY <1>8, Appended DEF Failed, Working
  <2>2. UNCHANGED <<queue, delivered, entered, overflow, early, flushed>>
    BY <1>8 DEF Failed, producer, closer, flusher
  <2>3. CASE attempt = MaxRetries
    <3>1. dropped' = Append(dropped, current) /\ current' = Nothing /\ attempt' = 0
      BY <1>8, <2>3 DEF Failed
    <3>. QED  BY <2>1, <2>2, <3>1
  <2>4. CASE attempt # MaxRetries
    <3>1. attempt' = attempt + 1 /\ UNCHANGED <<current, dropped>>
      BY <1>8, <2>4 DEF Failed
    <3>2. attempt + 1 \in 0..MaxRetries
      BY <2>4
    <3>. QED  BY <2>2, <3>1, <3>2
  <2>. QED  BY <2>3, <2>4
<1>. QED
  BY <1>1, <1>2, <1>3, <1>4, <1>5, <1>6, <1>7, <1>8
     DEF Next, Application, Sender, Rejected, Unanswered

-----------------------------------------------------------------------------
(***************************************************************************)
(* Where the events are and in which order, action by action.              *)
(***************************************************************************)
Orders == Once /\ Placed /\ Ordered

LEMMA StillKeepsOrders ==
  ASSUME Orders, UNCHANGED <<queue, entered, current, delivered, dropped>>
  PROVE  Orders' /\ Settled' = Settled
BY DEF Orders, Once, Placed, Ordered, Waiting, Settled

LEMMA EnqueueKeepsOrders ==
  ASSUME QueueInv, NEW e \in Events, Fresh(e), Len(queue) < QueueSize,
         queue' = Append(queue, e), entered' = Append(entered, e),
         UNCHANGED <<current, delivered, dropped>>
  PROVE  Orders' /\ Settled' = Settled /\ Range(entered') = Range(entered) \cup {e}
<1>. USE SdkOk DEF SdkAssumption
<1>0. QueueTypes /\ Numbers /\ Once /\ Placed /\ Ordered
  BY DEF QueueInv
<1>1. /\ DOMAIN entered = 1 .. Len(entered) /\ Len(entered) \in Nat
      /\ DOMAIN entered' = 1 .. Len(entered) + 1 /\ entered'[Len(entered) + 1] = e
      /\ \A i \in 1 .. Len(entered) : entered'[i] = entered[i] /\ entered[i] \in Range(entered)
      /\ Range(entered') = Range(entered) \cup {e}
  <2>1. entered \in Seq(Events)
    BY <1>0 DEF QueueTypes
  <2>2. /\ DOMAIN entered = 1 .. Len(entered) /\ Len(entered) \in Nat
        /\ \A i \in 1 .. Len(entered) : entered[i] \in Range(entered)
    BY <2>1, Domains
  <2>. QED  BY <2>1, <2>2, Appended
<1>2. /\ DOMAIN queue = 1 .. Len(queue) /\ Len(queue) \in Nat
      /\ DOMAIN queue' = 1 .. Len(queue) + 1 /\ queue'[Len(queue) + 1] = e
      /\ \A p \in 1 .. Len(queue) : queue'[p] = queue[p] /\ queue[p] \in Range(queue)
      /\ Range(queue') = Range(queue) \cup {e}
  <2>1. e \in Events \cup {Mark} /\ queue \in Seq(Events \cup {Mark})
    BY <1>0 DEF QueueTypes
  <2>2. /\ DOMAIN queue' = 1 .. Len(queue) + 1 /\ queue'[Len(queue) + 1] = e
        /\ \A p \in 1 .. Len(queue) : queue'[p] = queue[p]
        /\ Range(queue') = Range(queue) \cup {e}
    BY <2>1, Appended
  <2>. QED  BY <2>1, <2>2, Domains
<1>3. Settled' = Settled
  BY DEF Settled
<1>4. e \notin Range(entered) /\ e # Mark
  BY DEF Fresh
<1>5. Waiting' = Waiting \cup {e}
  BY <1>2, <1>4 DEF Waiting
<1>6. e \notin Waiting \cup Settled /\ e # current /\ e \notin Range(queue)
  <2>1. Waiting \cup Settled \subseteq Range(entered) /\ (current \in Events => current \in Range(entered))
    BY <1>0 DEF Placed
  <2>2. e \notin Waiting /\ e \notin Settled /\ e # current
    BY <1>4, <2>1
  <2>3. e \notin Range(queue)
    BY <1>4, <2>2 DEF Waiting
  <2>. QED  BY <2>2, <2>3
<1>7. Once'
  <2>1. \A i, j \in 1 .. Len(entered) : entered'[i] = entered'[j] => i = j
    BY <1>0, <1>1 DEF Once
  <2>2. \A i \in 1 .. Len(entered) : entered'[i] # e
    BY <1>1, <1>4
  <2>3. \A i, j \in DOMAIN entered' : entered'[i] = entered'[j] => i = j
    BY <1>1, <2>1, <2>2
  <2>4. \A p, q \in 1 .. Len(queue) : queue'[p] = queue'[q] => p = q
    BY <1>0, <1>2 DEF Once
  <2>5. \A p \in 1 .. Len(queue) : queue'[p] # e
    BY <1>2, <1>6
  <2>6. \A p, q \in DOMAIN queue' : queue'[p] = queue'[q] => p = q
    BY <1>2, <2>4, <2>5
  <2>. QED  BY <2>3, <2>6 DEF Once
<1>8. Placed'
  <2>1. Range(entered) = Waiting \cup ({current} \cap Events) \cup Settled
        /\ current \notin Waiting \cup Settled /\ Waiting \cap Settled = {}
    BY <1>0 DEF Placed
  <2>2. Range(entered') = Waiting' \cup ({current'} \cap Events) \cup Settled'
    BY <1>1, <1>3, <1>5, <2>1
  <2>3. current' \notin Waiting' \cup Settled'
    BY <1>3, <1>5, <1>6, <2>1
  <2>4. Waiting' \cap Settled' = {}
    BY <1>3, <1>5, <1>6, <2>1
  <2>5. Range(delivered') \cap Range(dropped') = {}
    BY <1>0 DEF Placed
  <2>. QED  BY <2>2, <2>3, <2>4, <2>5 DEF Placed
<1>9. Ordered'
  <2>1. ASSUME NEW i \in DOMAIN entered', NEW j \in DOMAIN entered', i < j,
               entered'[j] \in Settled' \/ entered'[j] = current'
        PROVE  entered'[i] \in Settled'
    <3>1. j # Len(entered) + 1
      BY <1>1, <1>3, <1>6, <2>1
    <3>2. i \in 1 .. Len(entered) /\ j \in 1 .. Len(entered)
      BY <1>1, <2>1, <3>1
    <3>. QED  BY <1>0, <1>1, <1>3, <2>1, <3>2 DEF Ordered
  <2>2. ASSUME NEW i \in DOMAIN entered', NEW j \in DOMAIN entered',
               NEW p \in DOMAIN queue', NEW q \in DOMAIN queue',
               queue'[p] = entered'[i], queue'[q] = entered'[j], p < q
        PROVE  i < j
    <3>. p \in 1 .. Len(queue) + 1 /\ q \in 1 .. Len(queue) + 1
      BY <1>2
    <3>0. \A k \in DOMAIN entered' : entered'[k] # e => k \in 1 .. Len(entered) /\ entered'[k] = entered[k]
      BY <1>1
    <3>1. p \in 1 .. Len(queue) /\ queue'[p] = queue[p] /\ queue[p] # e
      <4>1. p \in 1 .. Len(queue)
        <5>1. Len(queue) \in Nat
          BY <1>2
        <5>. QED  BY <5>1, <2>2
      <4>. QED  BY <1>2, <1>6, <4>1
    <3>2. i \in 1 .. Len(entered) /\ entered'[i] = entered[i]
      BY <2>2, <3>0, <3>1
    <3>3. CASE q = Len(queue) + 1
      <4>1. j = Len(entered) + 1
        BY <1>1, <1>2, <1>4, <2>2, <3>3
      <4>2. Len(entered) \in Nat
        BY <1>1
      <4>. QED  BY <3>2, <4>1, <4>2
    <3>4. CASE q # Len(queue) + 1
      <4>0. q \in 1 .. Len(queue)
        <5>1. Len(queue) \in Nat
          BY <1>2
        <5>. QED  BY <5>1, <3>4
      <4>1. q \in 1 .. Len(queue) /\ queue'[q] = queue[q] /\ queue[q] # e
        BY <1>2, <1>6, <4>0
      <4>2. j \in 1 .. Len(entered) /\ entered'[j] = entered[j]
        BY <2>2, <3>0, <4>1
      <4>3. queue[p] = entered[i] /\ queue[q] = entered[j]
        BY <2>2, <3>1, <3>2, <4>1, <4>2
      <4>4. /\ p \in DOMAIN queue /\ q \in DOMAIN queue
            /\ i \in DOMAIN entered /\ j \in DOMAIN entered
        BY <1>1, <1>2, <3>1, <3>2, <4>1, <4>2
      <4>5. Ordered
        BY <1>0
      <4>. QED  BY <2>2, <4>3, <4>4, <4>5 DEF Ordered
    <3>. QED  BY <3>3, <3>4
  <2>3. \A i, j \in DOMAIN entered' :
          (i < j /\ (entered'[j] \in Settled' \/ entered'[j] = current')) => entered'[i] \in Settled'
    BY <2>1
  <2>4. \A i, j \in DOMAIN entered' : \A p, q \in DOMAIN queue' :
          (queue'[p] = entered'[i] /\ queue'[q] = entered'[j] /\ p < q) => i < j
    BY <2>2
  <2>. QED  BY <2>3, <2>4 DEF Ordered
<1>. QED  BY <1>1, <1>3, <1>7, <1>8, <1>9 DEF Orders

LEMMA PutMarkKeepsOrders ==
  ASSUME QueueInv, PutMark
  PROVE  Orders' /\ Settled' = Settled /\ Range(queue') = Range(queue) \cup {Mark}
<1>. USE SdkOk DEF SdkAssumption, QueueInv
<1>1. queue' = Append(queue, Mark) /\ UNCHANGED <<entered, current, delivered, dropped>>
  BY DEF PutMark, sending, producer
<1>2. /\ DOMAIN queue = 1 .. Len(queue) /\ Len(queue) \in Nat
      /\ DOMAIN queue' = 1 .. Len(queue) + 1 /\ queue'[Len(queue) + 1] = Mark
      /\ \A p \in 1 .. Len(queue) : queue'[p] = queue[p] /\ queue[p] \in Range(queue)
      /\ Range(queue') = Range(queue) \cup {Mark}
  <2>1. Mark \in Events \cup {Mark} /\ queue \in Seq(Events \cup {Mark})
    BY DEF QueueTypes
  <2>2. /\ DOMAIN queue' = 1 .. Len(queue) + 1 /\ queue'[Len(queue) + 1] = Mark
        /\ \A p \in 1 .. Len(queue) : queue'[p] = queue[p]
        /\ Range(queue') = Range(queue) \cup {Mark}
    BY <1>1, <2>1, Appended
  <2>. QED  BY <2>1, <2>2, Domains
<1>3. Settled' = Settled /\ Waiting' = Waiting
  BY <1>1, <1>2 DEF Settled, Waiting
<1>4. Mark \notin Range(queue)
  BY DEF OneMark, PutMark
<1>5. Once'
  <2>1. \A p, q \in 1 .. Len(queue) : queue'[p] = queue'[q] => p = q
    BY <1>2 DEF Once
  <2>2. \A p \in 1 .. Len(queue) : queue'[p] # Mark
    BY <1>2, <1>4
  <2>3. \A p, q \in DOMAIN queue' : queue'[p] = queue'[q] => p = q
    BY <1>2, <2>1, <2>2
  <2>. QED  BY <1>1, <2>3 DEF Once
<1>6. Placed'
  BY <1>1, <1>3 DEF Placed
<1>7. Ordered'
  <2>1. ASSUME NEW i \in DOMAIN entered, NEW j \in DOMAIN entered,
               NEW p \in DOMAIN queue', NEW q \in DOMAIN queue',
               queue'[p] = entered[i], queue'[q] = entered[j], p < q
        PROVE  i < j
    <3>1. entered[i] # Mark /\ entered[j] # Mark
      BY Domains DEF QueueTypes
    <3>2. p \in 1 .. Len(queue) /\ q \in 1 .. Len(queue)
      BY <1>2, <2>1, <3>1
    <3>. QED  BY <1>2, <2>1, <3>2 DEF Ordered
  <2>. QED  BY <1>1, <1>3, <2>1 DEF Ordered
<1>. QED  BY <1>2, <1>3, <1>5, <1>6, <1>7 DEF Orders

\* What the thread takes from the queue leaves the order of the rest.
LEMMA HeadIsTaken ==
  ASSUME QueueInv, queue # <<>>, queue' = Tail(queue), entered' = entered
  PROVE  /\ Once'
         /\ Range(queue) = {Head(queue)} \cup Range(queue') /\ Head(queue) \notin Range(queue')
         /\ Head(queue) = queue[1] /\ 1 \in DOMAIN queue /\ Head(queue) \in Events \cup {Mark}
         /\ \A i, j \in DOMAIN entered : \A p, q \in DOMAIN queue' :
              (queue'[p] = entered[i] /\ queue'[q] = entered[j] /\ p < q) => i < j
<1>. USE DEF QueueInv
<1>1. /\ Head(queue) = queue[1] /\ Head(queue) \in Events \cup {Mark} /\ 1 \in DOMAIN queue
      /\ queue' \in Seq(Events \cup {Mark})
      /\ \A p \in DOMAIN queue' : p + 1 \in DOMAIN queue /\ queue'[p] = queue[p + 1] /\ 1 < p + 1 /\ p \in Int
      /\ Range(queue) = {Head(queue)} \cup Range(queue')
  BY Headless DEF QueueTypes
<1>2. Once'
  <2>1. ASSUME NEW p \in DOMAIN queue', NEW q \in DOMAIN queue', queue'[p] = queue'[q]
        PROVE  p = q
    <3>1. p + 1 = q + 1
      BY <1>1, <2>1 DEF Once
    <3>. QED  BY <1>1, <3>1
  <2>. QED  BY <2>1 DEF Once
<1>3. Head(queue) \notin Range(queue')
  <2>1. SUFFICES ASSUME NEW p \in DOMAIN queue', queue'[p] = Head(queue) PROVE FALSE
    BY DEF Range
  <2>2. p + 1 = 1
    BY <1>1, <2>1 DEF Once
  <2>. QED  BY <1>1, <2>2
<1>4. ASSUME NEW i \in DOMAIN entered, NEW j \in DOMAIN entered,
             NEW p \in DOMAIN queue', NEW q \in DOMAIN queue',
             queue'[p] = entered[i], queue'[q] = entered[j], p < q
      PROVE  i < j
  <2>1. /\ queue[p + 1] = entered[i] /\ queue[q + 1] = entered[j] /\ p + 1 < q + 1
        /\ p + 1 \in DOMAIN queue /\ q + 1 \in DOMAIN queue
    BY <1>1, <1>4
  <2>. QED  BY <2>1 DEF Ordered
<1>. QED  BY <1>1, <1>2, <1>3, <1>4

LEMMA TakeKeepsOrders ==
  ASSUME QueueInv, Take
  PROVE  Orders' /\ Settled' = Settled /\ Range(queue') \subseteq Range(queue)
<1>. USE SdkOk DEF SdkAssumption, QueueInv
<1>. DEFINE h == Head(queue)
<1>1. /\ queue # <<>> /\ h # Mark /\ current = Nothing
      /\ current' = h /\ queue' = Tail(queue) /\ UNCHANGED <<entered, delivered, dropped>>
  BY DEF Take, Free, producer
<1>2. /\ Once' /\ Range(queue) = {h} \cup Range(queue') /\ h \notin Range(queue')
      /\ h = queue[1] /\ 1 \in DOMAIN queue /\ h \in Events
      /\ \A i, j \in DOMAIN entered : \A p, q \in DOMAIN queue' :
           (queue'[p] = entered[i] /\ queue'[q] = entered[j] /\ p < q) => i < j
  BY <1>1, HeadIsTaken
<1>. HIDE DEF h
<1>3. Settled' = Settled /\ Waiting = Waiting' \cup {h} /\ h \notin Waiting'
  BY <1>1, <1>2 DEF Settled, Waiting
<1>4. Placed'
  BY <1>1, <1>2, <1>3 DEF Placed
<1>5. ASSUME NEW i \in DOMAIN entered, NEW j \in DOMAIN entered, i < j, entered[j] = h
      PROVE  entered[i] \in Settled
  <2>1. DOMAIN entered = 1 .. Len(entered) /\ entered[i] \in Range(entered) /\ entered[i] \in Events
    BY Domains DEF QueueTypes
  <2>2. entered[i] \in Waiting \/ entered[i] \in Settled
    BY <1>1, <2>1 DEF Placed
  <2>3. ASSUME entered[i] \in Waiting PROVE FALSE
    <3>1. PICK q \in DOMAIN queue : queue[q] = entered[i]
      BY <2>3 DEF Waiting, Range
    <3>2. DOMAIN queue = 1 .. Len(queue) /\ Len(queue) \in Nat /\ Len(entered) \in Nat
      BY Domains DEF QueueTypes
    <3>3. i # j
      BY <1>5, <2>1, <3>2
    <3>4. q # 1
      BY <1>2, <1>5, <3>1, <3>3 DEF Once
    <3>5. 1 < q
      BY <3>2, <3>4
    <3>6. j < i
      BY <1>2, <1>5, <3>1, <3>5 DEF Ordered
    <3>. QED  BY <1>5, <2>1, <3>2, <3>6
  <2>. QED  BY <2>2, <2>3
<1>6. Ordered'
  BY <1>1, <1>2, <1>3, <1>5 DEF Ordered
<1>. QED  BY <1>2, <1>3, <1>4, <1>6 DEF Orders

LEMMA TakeMarkKeepsOrders ==
  ASSUME QueueInv, TakeMark
  PROVE  Orders' /\ Settled' = Settled /\ Mark \in Range(queue) /\ Mark \notin Range(queue')
<1>. USE SdkOk DEF SdkAssumption, QueueInv
<1>1. /\ queue # <<>> /\ Head(queue) = Mark
      /\ queue' = Tail(queue) /\ UNCHANGED <<entered, current, delivered, dropped>>
  BY DEF TakeMark, sending, producer
<1>2. /\ Once' /\ Range(queue) = {Mark} \cup Range(queue') /\ Mark \notin Range(queue')
      /\ \A i, j \in DOMAIN entered : \A p, q \in DOMAIN queue' :
           (queue'[p] = entered[i] /\ queue'[q] = entered[j] /\ p < q) => i < j
  BY <1>1, HeadIsTaken
<1>3. Settled' = Settled /\ Waiting' = Waiting
  BY <1>1, <1>2 DEF Settled, Waiting
<1>4. Placed' /\ Ordered'
  BY <1>1, <1>2, <1>3 DEF Placed, Ordered
<1>. QED  BY <1>2, <1>3, <1>4 DEF Orders

\* The event that was current is delivered or dropped.
LEMMA SettlingKeepsOrders ==
  ASSUME QueueInv, current \in Events, current' = Nothing,
         Settled' = Settled \cup {current}, (Range(delivered) \cap Range(dropped))' = {},
         UNCHANGED <<queue, entered>>
  PROVE  Orders'
<1>. USE SdkOk DEF SdkAssumption, QueueInv
<1>1. Once'
  BY DEF Once
<1>2. Waiting' = Waiting /\ Nothing \notin Range(entered)
  BY Domains DEF Waiting, QueueTypes
<1>3. Nothing \notin Waiting' \cup Settled'
  BY <1>2 DEF Placed
<1>4. Placed'
  BY <1>2, <1>3 DEF Placed
<1>5. ASSUME NEW i \in DOMAIN entered, NEW j \in DOMAIN entered, i < j,
             entered[j] \in Settled' \/ entered[j] = current'
      PROVE  entered[i] \in Settled'
  <2>1. entered[j] \in Range(entered)
    BY DEF Range
  <2>2. entered[j] \in Settled \/ entered[j] = current
    BY <1>2, <1>5, <2>1
  <2>. QED  BY <1>5, <2>2 DEF Ordered
<1>6. Ordered'
  BY <1>5 DEF Ordered
<1>. QED  BY <1>1, <1>4, <1>6 DEF Orders

-----------------------------------------------------------------------------
(***************************************************************************)
(* Every step keeps the invariant.                                         *)
(***************************************************************************)
Kept == Orders /\ OneMark /\ Awaited

LEMMA StillAwaited ==
  ASSUME Awaited, Settled \subseteq Settled', Range(entered) \subseteq Range(entered'),
         thread' = "done" => thread = "done",
         UNCHANGED <<early, flushed, closing, joined, flush>>
  PROVE  Awaited'
BY DEF Awaited

LEMMA ApplicationKeepsQueue ==
  ASSUME QueueInv, Application
  PROVE  Kept'
<1>. USE DEF QueueInv
<1>. USE DEF Kept
<1>0. Orders
  BY DEF Orders
<1>1. ASSUME NEW e \in Events, Enqueue(e) PROVE Kept'
  <2>1. UNCHANGED <<thread, current, delivered, dropped, closing, joined, early, flush, flushed>>
    BY <1>1 DEF Enqueue, sending, closer, flusher
  <2>2. CASE Len(queue) < QueueSize
    <3>1. queue' = Append(queue, e) /\ entered' = Append(entered, e) /\ Fresh(e)
      BY <1>1, <2>2 DEF Enqueue
    <3>2. Orders' /\ Settled' = Settled /\ Range(entered') = Range(entered) \cup {e}
      BY <2>1, <2>2, <3>1, EnqueueKeepsOrders
    <3>3. Range(queue') = Range(queue) \cup {e} /\ e # Mark
      <4>1. e \in Events \cup {Mark} /\ queue \in Seq(Events \cup {Mark})
        BY DEF QueueTypes
      <4>. QED  BY <3>1, <4>1, Appended, SdkOk DEF SdkAssumption
    <3>4. OneMark'
      BY <2>1, <3>3 DEF OneMark
    <3>5. Awaited'
      BY <2>1, <3>2, StillAwaited
    <3>. QED  BY <3>2, <3>4, <3>5
  <2>3. CASE ~(Len(queue) < QueueSize)
    <3>1. UNCHANGED <<queue, entered>>
      BY <1>1, <2>3 DEF Enqueue
    <3>2. Orders' /\ Settled' = Settled
      BY <1>0, <2>1, <3>1, StillKeepsOrders
    <3>3. OneMark' /\ Awaited'
      BY <2>1, <3>1, <3>2 DEF OneMark, Awaited
    <3>. QED  BY <3>2, <3>3
  <2>. QED  BY <2>2, <2>3
<1>2. CASE FlushStarts
  <2>1. /\ UNCHANGED <<queue, entered, current, delivered, dropped, thread, closing, joined, early>>
        /\ flush' = "polling" /\ flushed' = Range(entered)
    BY <1>2 DEF FlushStarts, sending, producer, closer
  <2>2. Orders' /\ Settled' = Settled
    BY <1>0, <2>1, StillKeepsOrders
  <2>3. OneMark' /\ Awaited'
    BY <2>1, <2>2 DEF OneMark, Awaited
  <2>. QED  BY <2>2, <2>3
<1>3. CASE FlushSeesEmpty
  <2>1. /\ UNCHANGED <<queue, entered, current, delivered, dropped, thread, closing, joined, early, flushed>>
        /\ queue = <<>>
    BY <1>3 DEF FlushSeesEmpty, sending, producer, closer
  <2>2. Orders' /\ Settled' = Settled
    BY <1>0, <2>1, StillKeepsOrders
  <2>3. flushed \ Settled \subseteq {current}
    <3>1. Waiting = {}
      BY <2>1 DEF Waiting, Range
    <3>. QED  BY <3>1 DEF Awaited, Placed
  <2>4. OneMark' /\ Awaited'
    BY <2>1, <2>2, <2>3 DEF OneMark, Awaited
  <2>. QED  BY <2>2, <2>4
<1>4. CASE FlushTimesOut
  <2>1. /\ UNCHANGED <<queue, entered, current, delivered, dropped, thread, closing, joined, early, flushed>>
        /\ flush' = "timedOut"
    BY <1>4 DEF FlushTimesOut, sending, producer, closer
  <2>2. Orders' /\ Settled' = Settled
    BY <1>0, <2>1, StillKeepsOrders
  <2>3. OneMark' /\ Awaited'
    BY <2>1, <2>2 DEF OneMark, Awaited
  <2>. QED  BY <2>2, <2>3
<1>5. CASE Close
  <2>1. /\ UNCHANGED <<queue, entered, current, delivered, dropped, thread, joined, flush, flushed>>
        /\ closing = "open" /\ closing' = "put" /\ early' = Range(entered)
    BY <1>5 DEF Close, sending, producer, flusher
  <2>2. Orders' /\ Settled' = Settled
    BY <1>0, <2>1, StillKeepsOrders
  <2>3. OneMark'
    BY <2>1 DEF OneMark
  <2>4. Awaited'
    <3>1. thread # "done" /\ ~joined
      BY <2>1 DEF OneMark, Awaited
    <3>. QED  BY <2>1, <2>2, <3>1 DEF Awaited
  <2>. QED  BY <2>2, <2>3, <2>4
<1>6. CASE PutMark
  <2>1. /\ UNCHANGED <<entered, thread, joined, early, flush, flushed>>
        /\ closing = "put" /\ closing' = "join"
    BY <1>6 DEF PutMark, producer, flusher
  <2>2. Orders' /\ Settled' = Settled /\ Range(queue') = Range(queue) \cup {Mark}
    BY <1>6, PutMarkKeepsOrders
  <2>3. OneMark'
    BY <2>1 DEF OneMark
  <2>4. Awaited'
    BY <2>1, <2>2 DEF Awaited
  <2>. QED  BY <2>2, <2>3, <2>4
<1>7. CASE Join \/ JoinTimesOut
  <2>1. /\ UNCHANGED <<queue, entered, current, delivered, dropped, thread, early, flush, flushed>>
        /\ closing = "join" /\ closing' = "closed"
    BY <1>7 DEF Join, JoinTimesOut, sending, producer, flusher
  <2>2. joined' => thread = "done" \/ joined
    BY <1>7, Zenon DEF Join, JoinTimesOut
  <2>3. Orders' /\ Settled' = Settled
    BY <1>0, <2>1, StillKeepsOrders
  <2>4. OneMark'
    BY <2>1 DEF OneMark
  <2>5. Awaited'
    BY <2>1, <2>2, <2>3 DEF Awaited
  <2>. QED  BY <2>3, <2>4, <2>5
<1>. HIDE DEF QueueInv, Kept
<1>. QED
  BY <1>1, <1>2, <1>3, <1>4, <1>5, <1>6, <1>7 DEF Application

LEMMA SenderKeepsQueue ==
  ASSUME QueueInv, Sender
  PROVE  Kept'
<1>. USE DEF QueueInv
<1>. USE DEF Kept
<1>0. Orders
  BY DEF Orders
<1>1. CASE Take
  <2>1. UNCHANGED <<entered, thread, closing, joined, early, flush, flushed>>
    BY <1>1 DEF Take, producer, closer, flusher
  <2>2. Orders' /\ Settled' = Settled /\ Range(queue') \subseteq Range(queue)
    BY <1>1, TakeKeepsOrders
  <2>3. OneMark' /\ Awaited'
    BY <2>1, <2>2 DEF OneMark, Awaited
  <2>. QED  BY <2>2, <2>3
<1>2. CASE TakeMark
  <2>1. UNCHANGED <<entered, closing, joined, early, flush, flushed>>
    BY <1>2 DEF TakeMark, producer, closer, flusher
  <2>2. Orders' /\ Settled' = Settled /\ Mark \in Range(queue) /\ Mark \notin Range(queue')
    BY <1>2, TakeMarkKeepsOrders
  <2>3. thread' = "drain"
    BY <1>2, <2>2 DEF TakeMark, Free, OneMark
  <2>4. OneMark'
    BY <2>1, <2>2, <2>3 DEF OneMark
  <2>5. Awaited'
    BY <2>1, <2>2, <2>3 DEF Awaited
  <2>. QED  BY <2>2, <2>4, <2>5
<1>3. CASE Drained
  <2>1. /\ UNCHANGED <<queue, entered, current, delivered, dropped, closing, joined, early, flush, flushed>>
        /\ thread = "drain" /\ thread' = "done" /\ queue = <<>> /\ current = Nothing
    BY <1>3 DEF Drained, Free, sending, producer, closer, flusher
  <2>2. Orders' /\ Settled' = Settled
    BY <1>0, <2>1, StillKeepsOrders
  <2>3. Range(queue) = {}
    BY <2>1 DEF Range
  <2>4. early \subseteq Settled
    BY <2>1, <2>3, SdkOk DEF Awaited, Placed, Waiting, SdkAssumption
  <2>5. OneMark'
    BY <2>1, <2>3 DEF OneMark
  <2>6. Awaited'
    BY <2>1, <2>2, <2>4 DEF Awaited
  <2>. QED  BY <2>2, <2>5, <2>6
<1>4. CASE Breaks
  <2>1. /\ UNCHANGED <<queue, entered, current, delivered, dropped, closing, joined, early, flush, flushed>>
        /\ thread' = "dead"
    BY <1>4 DEF Breaks, sending, producer, closer, flusher
  <2>2. Orders' /\ Settled' = Settled
    BY <1>0, <2>1, StillKeepsOrders
  <2>3. OneMark' /\ Awaited'
    BY <2>1, <2>2 DEF OneMark, Awaited
  <2>. QED  BY <2>2, <2>3
<1>5. ASSUME Working, current' = Nothing,
             \/ delivered' = Append(delivered, current) /\ dropped' = dropped
             \/ dropped' = Append(dropped, current) /\ delivered' = delivered,
             UNCHANGED <<queue, entered, thread, closing, joined, early, flush, flushed>>
      PROVE  Kept'
  <2>1. current \in Events /\ current \notin Settled
    BY <1>5 DEF Working, Numbers, Placed
  <2>2. /\ Range(Append(delivered, current)) = Range(delivered) \cup {current}
        /\ Range(Append(dropped, current)) = Range(dropped) \cup {current}
    BY <2>1, Appended DEF QueueTypes
  <2>3. Settled' = Settled \cup {current} /\ (Range(delivered) \cap Range(dropped))' = {}
    <3>1. Range(delivered) \cap Range(dropped) = {}
      BY DEF Placed
    <3>2. current \notin Range(delivered) /\ current \notin Range(dropped)
      BY <2>1 DEF Settled
    <3>3. CASE delivered' = Append(delivered, current) /\ dropped' = dropped
      <4>1. Range(delivered)' = Range(delivered) \cup {current} /\ Range(dropped)' = Range(dropped)
        BY <2>2, <3>3
      <4>. QED  BY <3>1, <3>2, <4>1 DEF Settled
    <3>4. CASE dropped' = Append(dropped, current) /\ delivered' = delivered
      <4>1. Range(dropped)' = Range(dropped) \cup {current} /\ Range(delivered)' = Range(delivered)
        BY <2>2, <3>4
      <4>. QED  BY <3>1, <3>2, <4>1 DEF Settled
    <3>. QED  BY <1>5, <3>3, <3>4
  <2>4. Orders'
    BY <1>5, <2>1, <2>3, SettlingKeepsOrders
  <2>5. OneMark'
    BY <1>5 DEF OneMark
  <2>6. Awaited'
    BY <1>5, <2>3, StillAwaited
  <2>. QED  BY <2>4, <2>5, <2>6
<1>6. CASE Accepted
  <2>1. /\ Working /\ current' = Nothing
        /\ delivered' = Append(delivered, current) /\ dropped' = dropped
        /\ UNCHANGED <<queue, entered, thread, closing, joined, early, flush, flushed>>
    BY <1>6 DEF Accepted, producer, closer, flusher
  <2>. QED  BY <1>5, <2>1
<1>7. ASSUME NEW how, Failed(how) PROVE Kept'
  <2>1. /\ Working /\ delivered' = delivered
        /\ UNCHANGED <<queue, entered, thread, closing, joined, early, flush, flushed>>
    BY <1>7 DEF Failed, producer, closer, flusher
  <2>2. CASE attempt = MaxRetries
    <3>1. current' = Nothing /\ dropped' = Append(dropped, current)
      BY <1>7, <2>2 DEF Failed
    <3>. QED  BY <1>5, <2>1, <3>1
  <2>3. CASE attempt # MaxRetries
    <3>1. UNCHANGED <<current, dropped>>
      BY <1>7, <2>3 DEF Failed
    <3>2. Orders' /\ Settled' = Settled
      BY <1>0, <2>1, <3>1, StillKeepsOrders
    <3>3. OneMark' /\ Awaited'
      BY <2>1, <3>2 DEF OneMark, Awaited
    <3>. QED  BY <3>2, <3>3
  <2>. QED  BY <2>2, <2>3
<1>. HIDE DEF QueueInv, Kept
<1>. QED
  BY <1>1, <1>2, <1>3, <1>4, <1>6, <1>7 DEF Sender, Rejected, Unanswered

LEMMA QueueStep == QueueInv /\ Next => QueueInv'
<1>. SUFFICES ASSUME QueueInv, Next PROVE QueueInv'
  OBVIOUS
<1>1. (QueueTypes /\ Numbers /\ Flags)'
  BY TypesStep, FlagsStep DEF QueueInv
<1>2. CASE Application
  BY <1>1, <1>2, ApplicationKeepsQueue DEF QueueInv, Kept, Orders
<1>3. CASE Sender
  BY <1>1, <1>3, SenderKeepsQueue DEF QueueInv, Kept, Orders
<1>4. CASE Rest
  BY <1>4, QueueUntouched DEF Rest
<1>. QED  BY <1>2, <1>3, <1>4 DEF Next

LEMMA QueueInvariant == AllSpec => []QueueInv
<1>1. AllInit => QueueInv
  BY QueueInitially DEF AllInit
<1>2. QueueInv /\ [QueueMoves \/ CodecMoves \/ RedactMoves]_allVars => QueueInv'
  <2>. SUFFICES ASSUME QueueInv, [QueueMoves \/ CodecMoves \/ RedactMoves]_allVars
                PROVE  QueueInv'
    OBVIOUS
  <2>1. Next \/ UNCHANGED vars
    BY DEF QueueMoves, OfQueue, CodecMoves, RedactMoves, allVars
  <2>. QED  BY <2>1, QueueStep, QueueUntouched
<1>. QED  BY <1>1, <1>2, PTL DEF AllSpec

-----------------------------------------------------------------------------
LEMMA NeverInTwoPlaces == QueueInv => InOnePlace
<1>. SUFFICES ASSUME QueueInv, NEW e \in Range(entered)
              PROVE  InOnePlace!(e)
  BY DEF InOnePlace
<1>. DEFINE places == <<e \in Waiting, current = e, e \in Range(delivered), e \in Range(dropped)>>
            S == {i \in DOMAIN places : places[i]}
<1>1. e \in Events /\ e \in Waiting \cup ({current} \cap Events) \cup Settled
  BY Domains DEF QueueInv, QueueTypes, Placed
<1>2. /\ DOMAIN places = 1 .. 4
      /\ 1 \in 1 .. 4 /\ 2 \in 1 .. 4 /\ 3 \in 1 .. 4 /\ 4 \in 1 .. 4
      /\ \A i \in 1 .. 4 : i = 1 \/ i = 2 \/ i = 3 \/ i = 4
  OBVIOUS
<1>3. /\ places[1] = (e \in Waiting) /\ places[2] = (current = e)
      /\ places[3] = (e \in Range(delivered)) /\ places[4] = (e \in Range(dropped))
  OBVIOUS
<1>. HIDE DEF places
<1>4. \E i \in 1 .. 4 : S = {i}
  <2>1. CASE e \in Waiting
    <3>1. places[1] /\ ~places[2] /\ ~places[3] /\ ~places[4]
      BY <1>3, <2>1, Zenon DEF QueueInv, Placed, Settled
    <3>2. \A i \in 1 .. 4 : places[i] => i = 1
      BY <1>2, <3>1, Zenon
    <3>3. S = {1}
      BY <1>2, <3>1, <3>2, Zenon
    <3>. QED  BY <3>3
  <2>2. CASE e = current
    <3>1. ~places[1] /\ places[2] /\ ~places[3] /\ ~places[4]
      BY <1>3, <2>2, Zenon DEF QueueInv, Placed, Settled
    <3>2. \A i \in 1 .. 4 : places[i] => i = 2
      BY <1>2, <3>1, Zenon
    <3>3. S = {2}
      BY <1>2, <3>1, <3>2, Zenon
    <3>. QED  BY <3>3
  <2>3. CASE e \in Range(delivered)
    <3>1. ~places[1] /\ ~places[2] /\ places[3] /\ ~places[4]
      BY <1>3, <2>3, Zenon DEF QueueInv, Placed, Settled
    <3>2. \A i \in 1 .. 4 : places[i] => i = 3
      BY <1>2, <3>1, Zenon
    <3>3. S = {3}
      BY <1>2, <3>1, <3>2, Zenon
    <3>. QED  BY <3>3
  <2>4. CASE e \in Range(dropped)
    <3>1. ~places[1] /\ ~places[2] /\ ~places[3] /\ places[4]
      BY <1>3, <2>4, Zenon DEF QueueInv, Placed, Settled
    <3>2. \A i \in 1 .. 4 : places[i] => i = 4
      BY <1>2, <3>1, Zenon
    <3>3. S = {4}
      BY <1>2, <3>1, <3>2, Zenon
    <3>. QED  BY <3>3
  <2>. QED  BY <1>1, <2>1, <2>2, <2>3, <2>4 DEF Settled
<1>5. Cardinality(S) = 1
  BY <1>4, FS_Singleton
<1>. QED  BY <1>5 DEF places

\* The SDK's queue neither reorders nor repeats what was recorded; a close that
\* saw the thread end left nothing unsettled, a flush that returned one event at
\* most (client.py:274-323, __init__.py:409-431).
THEOREM SdkKeepsOrder == AllSpec => []SdkOrder
<1>1. QueueInv => SdkOrder
  <2>. SUFFICES ASSUME QueueInv PROVE SdkOrder
    OBVIOUS
  <2>1. InOnePlace
    BY NeverInTwoPlaces
  <2>2. SettledInOrder
    BY DEF QueueInv, Ordered, SettledInOrder
  <2>3. CloseFlushes
    BY DEF QueueInv, Awaited, CloseFlushes
  <2>4. FlushLeavesOne
    <3>. SUFFICES ASSUME flush = "returned" PROVE Cardinality(flushed \ Settled) <= 1
      BY DEF FlushLeavesOne
    <3>1. PICK e : flushed \ Settled \subseteq {e}
      BY DEF QueueInv, Awaited
    <3>2. IsFiniteSet({e}) /\ Cardinality({e}) = 1
      BY FS_Singleton
    <3>3. Cardinality(flushed \ Settled) <= Cardinality({e})
      BY <3>1, <3>2, FS_Subset
    <3>. QED  BY <3>2, <3>3
  <2>. QED  BY <2>1, <2>2, <2>3, <2>4 DEF SdkOrder
<1>. QED  BY <1>1, QueueInvariant, PTL

\* The state of the SDK's queue, thread, close and flush has its type.
THEOREM QueueTypeCorrect == AllSpec => []TypeOK
<1>1. QueueInv => TypeOK
  BY DEF QueueInv, QueueTypes, Numbers, Flags, TypeOK
<1>. QED  BY <1>1, QueueInvariant, PTL

-----------------------------------------------------------------------------
(***************************************************************************)
(* The signature.  The canonical forms of the two languages are equal only *)
(* if each field is written alike, which determines the fields.            *)
(***************************************************************************)
Parts == {"arguments", "result"}
AnyTool == [Parts -> Codec!Objects]
HeldTools == [Parts -> Codec!HeldObjects]

\* What the SDK records, before it is asked that a tool call has its data.
Recorded ==
  [agent : Agents, tenant : Tenants, type : SdkTypes, severity : SdkSeverities,
   text : Texts, tool : AnyTool \cup {None}, duration : Durations, zone : Zones]

LEMMA ToolsAre == Tools \subseteq AnyTool /\ Codec!SdkEvents \subseteq Recorded
<1>1. Tools \subseteq [arguments : Codec!Objects, result : Codec!Objects]
  BY CodecOk DEF Codec!CodecAssumption
<1>2. Tools \subseteq AnyTool
  BY <1>1 DEF AnyTool, Parts
<1>. QED  BY <1>2 DEF Codec!SdkEvents, Recorded

LEMMA NoneIs ==
  /\ None # "accepted" /\ None # "identity_error" /\ None # "invalid_hmac"
  /\ None # "schema_violation" /\ None \notin AnyTool /\ None \notin HeldTools
  /\ None \notin Codec!AnyText /\ None \notin Codec!Numbers /\ None \notin Codec!Doubles
<1>1. AnyTool \subseteq [Parts -> Codec!Objects \cup Codec!HeldObjects]
  BY DEF AnyTool
<1>2. HeldTools \subseteq [Parts -> Codec!Objects \cup Codec!HeldObjects]
  BY DEF HeldTools
<1>3. None \notin [Parts -> Codec!Objects \cup Codec!HeldObjects]
  BY CodecOk DEF Codec!CodecAssumption, Parts
<1>. QED  BY <1>1, <1>2, <1>3, CodecOk DEF Codec!CodecAssumption

LEMMA PyFields ==
  ASSUME NEW e, NEW x
  PROVE  x \in Codec!PyCanonical(e) <=>
           \/ x = <<"agent_id", e.agent>> \/ x = <<"tenant_id", e.tenant>>
           \/ x = <<"type", e.type>> \/ x = <<"severity", e.severity>>
           \/ x = <<"timestamp", e.zone>>
           \/ x = <<"received_at", "zero">> \/ x = <<"content", Codec!PyText(e.text)>>
           \/ e.tool # None /\ x = <<"tool_call", Codec!PyTool(e.tool)>>
           \/ e.duration # 0 /\ x = <<"duration", e.duration>>
<1>. DEFINE tool == Codec!FieldUnless(e.tool = None, "tool_call",
                                      IF e.tool = None THEN {} ELSE Codec!PyTool(e.tool))
            duration == Codec!FieldUnless(e.duration = 0, "duration", e.duration)
<1>1. x \in tool <=> e.tool # None /\ x = <<"tool_call", Codec!PyTool(e.tool)>>
  BY DEF Codec!FieldUnless, Codec!Field
<1>2. x \in duration <=> e.duration # 0 /\ x = <<"duration", e.duration>>
  BY DEF Codec!FieldUnless, Codec!Field
<1>3. x \in Codec!PyCanonical(e) <=>
        \/ x = <<"agent_id", e.agent>> \/ x = <<"tenant_id", e.tenant>>
        \/ x = <<"type", e.type>> \/ x = <<"severity", e.severity>>
        \/ x = <<"timestamp", e.zone>>
        \/ x = <<"received_at", "zero">> \/ x = <<"content", Codec!PyText(e.text)>>
        \/ x \in tool \/ x \in duration
  BY Zenon DEF Codec!PyCanonical, Codec!Field
<1>. QED  BY <1>1, <1>2, <1>3

LEMMA GoFields ==
  ASSUME NEW e, NEW x
  PROVE  x \in Codec!GoCanonical(e) <=>
           \/ x = <<"agent_id", e.agent>> \/ x = <<"tenant_id", e.tenant>>
           \/ x = <<"type", e.type>> \/ x = <<"severity", e.severity>>
           \/ x = <<"timestamp", "utc">>
           \/ x = <<"received_at", e.received>> \/ x = <<"content", Codec!GoText(e.text)>>
           \/ e.tool # None /\ x = <<"tool_call", Codec!GoTool(e.tool)>>
           \/ e.duration # 0 /\ x = <<"duration", e.duration>>
<1>. DEFINE tool == Codec!FieldUnless(e.tool = None, "tool_call",
                                      IF e.tool = None THEN {} ELSE Codec!GoTool(e.tool))
            duration == Codec!FieldUnless(e.duration = 0, "duration", e.duration)
<1>1. x \in tool <=> e.tool # None /\ x = <<"tool_call", Codec!GoTool(e.tool)>>
  BY DEF Codec!FieldUnless, Codec!Field
<1>2. x \in duration <=> e.duration # 0 /\ x = <<"duration", e.duration>>
  BY DEF Codec!FieldUnless, Codec!Field
<1>3. x \in Codec!GoCanonical(e) <=>
        \/ x = <<"agent_id", e.agent>> \/ x = <<"tenant_id", e.tenant>>
        \/ x = <<"type", e.type>> \/ x = <<"severity", e.severity>>
        \/ x = <<"timestamp", "utc">>
        \/ x = <<"received_at", e.received>> \/ x = <<"content", Codec!GoText(e.text)>>
        \/ x \in tool \/ x \in duration
  BY Zenon DEF Codec!GoCanonical, Codec!Field
<1>. QED  BY <1>1, <1>2, <1>3

\* What a message holds of a number, of an object and of a tool call; of what it
\* holds, it holds all.
LEMMA DoubleIs ==
  /\ \A n \in Codec!Numbers : Codec!Double(n) \in Codec!Doubles
  /\ \A d \in Codec!Doubles : Codec!Double(d) = d
BY DEF Codec!Numbers, Codec!Doubles, Codec!Double

LEMMA HeldIs ==
  /\ \A o \in Codec!Objects :
       /\ Codec!Held(o) \in Codec!HeldObjects /\ Codec!Held(o).text = o.text
       /\ Codec!Held(o).number = IF o.number = None THEN None ELSE Codec!Double(o.number)
  /\ \A o \in Codec!HeldObjects : Codec!Held(o) = o
<1>1. ASSUME NEW o \in Codec!Objects
      PROVE  /\ Codec!Held(o) \in Codec!HeldObjects /\ Codec!Held(o).text = o.text
             /\ Codec!Held(o).number = IF o.number = None THEN None ELSE Codec!Double(o.number)
  BY DoubleIs DEF Codec!Objects, Codec!HeldObjects, Codec!Held
<1>2. ASSUME NEW o \in Codec!HeldObjects PROVE Codec!Held(o) = o
  BY DoubleIs DEF Codec!HeldObjects, Codec!Held
<1>. QED  BY <1>1, <1>2

LEMMA HeldToolIs ==
  /\ Codec!HeldTool(None) = None
  /\ \A tc \in AnyTool :
       /\ Codec!HeldTool(tc) \in HeldTools
       /\ \A f \in Parts : Codec!HeldTool(tc)[f] = Codec!Held(tc[f])
  /\ \A tc \in HeldTools : Codec!HeldTool(tc) = tc
<1>1. ASSUME NEW tc \in AnyTool
      PROVE  /\ Codec!HeldTool(tc) \in HeldTools
             /\ \A f \in Parts : Codec!HeldTool(tc)[f] = Codec!Held(tc[f])
  <2>1. tc # None /\ DOMAIN tc = Parts
    BY NoneIs DEF AnyTool
  <2>2. Codec!HeldTool(tc) = [f \in Parts |-> Codec!Held(tc[f])]
    BY <2>1 DEF Codec!HeldTool
  <2>3. \A f \in Parts : Codec!Held(tc[f]) \in Codec!HeldObjects
    BY HeldIs DEF AnyTool
  <2>. QED  BY <2>2, <2>3 DEF HeldTools
<1>2. ASSUME NEW tc \in HeldTools PROVE Codec!HeldTool(tc) = tc
  <2>1. tc # None /\ DOMAIN tc = Parts
    BY NoneIs DEF HeldTools
  <2>2. Codec!HeldTool(tc) = [f \in Parts |-> Codec!Held(tc[f])]
    BY <2>1 DEF Codec!HeldTool
  <2>3. \A f \in Parts : Codec!Held(tc[f]) = tc[f]
    BY HeldIs DEF HeldTools
  <2>. QED  BY <2>2, <2>3 DEF HeldTools
<1>3. Codec!HeldTool(None) = None
  BY DEF Codec!HeldTool
<1>. QED  BY <1>1, <1>2, <1>3

\* A number of Python and a double of Go are written alike when the double is the
\* one the message holds and the notations are those both languages use.
LEMMA NumbersWrittenAlike ==
  ASSUME NEW n \in Codec!Numbers, NEW d \in Codec!Doubles
  PROVE  Codec!PyNumber(n) = Codec!GoNumber(d)
           <=> d = Codec!Double(n) /\ Codec!AlikeNumber(n)
<1>1. /\ n.digits \in {"whole", "fraction", "long"} /\ n.exp \in Int /\ n.int \in BOOLEAN
      /\ n.digits = "fraction" => ~n.int /\ n.exp < 16
      /\ n.digits # "fraction" => n.exp >= 0
      /\ n.digits = "long" => n.int
  BY DEF Codec!Numbers
<1>2. /\ d.digits \in {"whole", "fraction", "nearest"} /\ d.exp \in Int
      /\ d = [digits |-> d.digits, exp |-> d.exp]
  BY DEF Codec!Doubles
<1>3. n.digits = d.digits /\ n.exp = d.exp <=> d = Codec!Double(n) /\ n.digits # "long"
  BY <1>1, <1>2 DEF Codec!Double
<1>4. Codec!PyNotation(n) = (IF n.exp \in -6..20 THEN "fixed" ELSE "exponent")
        /\ n.digits # "long"
      <=> Codec!AlikeNumber(n)
  <2>1. CASE n.int
    BY <1>1, <2>1 DEF Codec!PyNotation, Codec!AlikeNumber
  <2>2. CASE ~n.int
    <3>1. CASE n.exp \in -4..15
      BY <1>1, <2>2, <3>1 DEF Codec!PyNotation, Codec!AlikeNumber
    <3>2. CASE n.exp \in -9..-5
      BY <1>1, <2>2, <3>2 DEF Codec!PyNotation, Codec!AlikeNumber
    <3>3. CASE n.exp \notin -9..15
      BY <1>1, <2>2, <3>3 DEF Codec!PyNotation, Codec!AlikeNumber
    <3>. QED  BY <1>1, <3>1, <3>2, <3>3
  <2>. QED  BY <2>1, <2>2
<1>5. Codec!PyNumber(n) = Codec!GoNumber(d)
        <=> /\ n.digits = d.digits /\ n.exp = d.exp
            /\ Codec!PyNotation(n) = (IF d.exp \in -6..20 THEN "fixed" ELSE "exponent")
  BY DEF Codec!PyNumber, Codec!GoNumber
<1>6. Codec!AlikeNumber(n) => n.digits # "long"
  BY <1>4
<1>. QED  BY <1>3, <1>4, <1>5, <1>6

LEMMA TextsWrittenAlike ==
  ASSUME NEW t \in Codec!AnyText, NEW u \in Codec!AnyText
  PROVE  Codec!PyText(t) = Codec!GoText(u) <=> u = t /\ Codec!AlikeText(t)
BY DEF Codec!AnyText, Codec!PyText, Codec!GoText, Codec!AlikeText

LEMMA ObjectsWrittenAlike ==
  ASSUME NEW o \in Codec!Objects, NEW h \in Codec!HeldObjects
  PROVE  ~Codec!IsEmpty(o) /\ Codec!PyObject(o) = Codec!GoObject(h)
           <=> h = Codec!Held(o) /\ Codec!AlikeObject(o)
<1>0. /\ o.number \in Codec!Numbers \cup {None} /\ o.text \in Codec!AnyText \cup {None}
      /\ h.number \in Codec!Doubles \cup {None} /\ h.text \in Codec!AnyText \cup {None}
      /\ h = [number |-> h.number, text |-> h.text]
  BY DEF Codec!Objects, Codec!HeldObjects
<1>1. \A x : x \in Codec!PyObject(o) <=>
        \/ o.number # None /\ x = <<"number", Codec!PyNumber(o.number)>>
        \/ o.text # None /\ x = <<"text", Codec!PyText(o.text)>>
  BY DEF Codec!PyObject, Codec!FieldUnless, Codec!Field
<1>2. \A x : x \in Codec!GoObject(h) <=>
        \/ h.number # None /\ x = <<"number", Codec!GoNumber(h.number)>>
        \/ h.text # None /\ x = <<"text", Codec!GoText(h.text)>>
  BY DEF Codec!GoObject, Codec!FieldUnless, Codec!Field
<1>3. Codec!PyObject(o) = Codec!GoObject(h) <=>
        /\ o.number = None <=> h.number = None
        /\ o.number # None => Codec!PyNumber(o.number) = Codec!GoNumber(h.number)
        /\ o.text = None <=> h.text = None
        /\ o.text # None => Codec!PyText(o.text) = Codec!GoText(h.text)
  <2>1. ASSUME Codec!PyObject(o) = Codec!GoObject(h)
        PROVE  /\ o.number = None <=> h.number = None
               /\ o.number # None => Codec!PyNumber(o.number) = Codec!GoNumber(h.number)
               /\ o.text = None <=> h.text = None
               /\ o.text # None => Codec!PyText(o.text) = Codec!GoText(h.text)
    <3>. DEFINE N == Codec!PyNumber(o.number)
                M == Codec!GoNumber(h.number)
                T == Codec!PyText(o.text)
                U == Codec!GoText(h.text)
                Py(x) == \/ o.number # None /\ x = <<"number", N>>
                         \/ o.text # None /\ x = <<"text", T>>
                Go(x) == \/ h.number # None /\ x = <<"number", M>>
                         \/ h.text # None /\ x = <<"text", U>>
    <3>1. \A x : Py(x) <=> Go(x)
      BY <1>1, <1>2, <2>1
    <3>. HIDE DEF N, M, T, U, Py, Go
    <3>2. /\ Py(<<"number", N>>) <=> Go(<<"number", N>>)
          /\ Py(<<"number", M>>) <=> Go(<<"number", M>>)
          /\ Py(<<"text", T>>) <=> Go(<<"text", T>>)
          /\ Py(<<"text", U>>) <=> Go(<<"text", U>>)
      BY <3>1
    <3>3. (o.number # None => h.number # None /\ N = M) /\ (h.number # None => o.number # None)
      BY <3>2 DEF Py, Go
    <3>4. (o.text # None => h.text # None /\ T = U) /\ (h.text # None => o.text # None)
      BY <3>2 DEF Py, Go
    <3>. QED  BY <3>3, <3>4 DEF N, M, T, U
  <2>2. ASSUME /\ o.number = None <=> h.number = None
               /\ o.number # None => Codec!PyNumber(o.number) = Codec!GoNumber(h.number)
               /\ o.text = None <=> h.text = None
               /\ o.text # None => Codec!PyText(o.text) = Codec!GoText(h.text)
        PROVE  Codec!PyObject(o) = Codec!GoObject(h)
    <3>1. \A x : x \in Codec!PyObject(o) <=> x \in Codec!GoObject(h)
      BY <1>1, <1>2, <2>2
    <3>. QED  BY <3>1
  <2>. QED  BY <2>1, <2>2
<1>4. /\ o.number = None <=> h.number = None
      /\ o.number # None => Codec!PyNumber(o.number) = Codec!GoNumber(h.number)
      <=> /\ h.number = Codec!Held(o).number
          /\ o.number # None => Codec!AlikeNumber(o.number)
  <2>1. CASE o.number = None
    BY <2>1, HeldIs
  <2>2. CASE o.number # None
    <3>1. Codec!Held(o).number = Codec!Double(o.number) /\ o.number \in Codec!Numbers
      BY <1>0, <2>2, HeldIs
    <3>2. Codec!Double(o.number) \in Codec!Doubles /\ None \notin Codec!Doubles
      BY <3>1, DoubleIs, NoneIs
    <3>3. CASE h.number = None
      BY <2>2, <3>1, <3>2, <3>3
    <3>4. CASE h.number # None
      BY <1>0, <2>2, <3>1, <3>4, NumbersWrittenAlike
    <3>. QED  BY <3>3, <3>4
  <2>. QED  BY <2>1, <2>2
<1>5. /\ o.text = None <=> h.text = None
      /\ o.text # None => Codec!PyText(o.text) = Codec!GoText(h.text)
      <=> h.text = Codec!Held(o).text /\ (o.text # None => Codec!AlikeText(o.text))
  BY <1>0, HeldIs, TextsWrittenAlike
<1>6. h = Codec!Held(o) <=> h.number = Codec!Held(o).number /\ h.text = Codec!Held(o).text
  <2>1. Codec!Held(o) = [number |-> Codec!Held(o).number, text |-> Codec!Held(o).text]
    BY HeldIs DEF Codec!HeldObjects
  <2>. QED  BY <1>0, <2>1
<1>. QED  BY <1>3, <1>4, <1>5, <1>6 DEF Codec!AlikeObject

\* The parts of a tool call are written alike when those the message holds are.
LEMMA ToolsWrittenAlike ==
  ASSUME NEW t \in AnyTool, NEW u \in HeldTools
  PROVE  Codec!PyTool(t) = Codec!GoTool(u)
           <=> u = Codec!HeldTool(t) /\ \A f \in Parts : Codec!AlikeObject(t[f])
<1>0. DOMAIN t = Parts /\ DOMAIN u = Parts
  BY DEF AnyTool, HeldTools
<1>1. \A x : x \in Codec!PyTool(t) <=>
               \E f \in Parts : ~Codec!IsEmpty(t[f]) /\ x = <<f, Codec!PyObject(t[f])>>
  BY <1>0 DEF Codec!PyTool, Codec!FieldUnless, Codec!Field
<1>2. \A x : x \in Codec!GoTool(u) <=> \E f \in Parts : x = <<f, Codec!GoObject(u[f])>>
  BY <1>0 DEF Codec!GoTool, Codec!Field
<1>3. ASSUME Codec!PyTool(t) = Codec!GoTool(u), NEW f \in Parts
      PROVE  ~Codec!IsEmpty(t[f]) /\ Codec!PyObject(t[f]) = Codec!GoObject(u[f])
  <2>1. <<f, Codec!GoObject(u[f])>> \in Codec!PyTool(t)
    BY <1>2, <1>3
  <2>2. PICK g \in Parts : /\ ~Codec!IsEmpty(t[g])
                           /\ <<f, Codec!GoObject(u[f])>> = <<g, Codec!PyObject(t[g])>>
    BY <1>1, <2>1
  <2>3. g = f
    BY <2>2
  <2>. QED  BY <2>2, <2>3
<1>4. ASSUME \A f \in Parts : /\ ~Codec!IsEmpty(t[f])
                              /\ Codec!PyObject(t[f]) = Codec!GoObject(u[f])
      PROVE  Codec!PyTool(t) = Codec!GoTool(u)
  <2>1. \A x : x \in Codec!PyTool(t) <=> x \in Codec!GoTool(u)
    BY <1>1, <1>2, <1>4
  <2>. QED  BY <2>1
<1>5. \A f \in Parts :
        ~Codec!IsEmpty(t[f]) /\ Codec!PyObject(t[f]) = Codec!GoObject(u[f])
          <=> u[f] = Codec!Held(t[f]) /\ Codec!AlikeObject(t[f])
  BY ObjectsWrittenAlike DEF AnyTool, HeldTools
<1>6. u = Codec!HeldTool(t) <=> \A f \in Parts : u[f] = Codec!Held(t[f])
  <2>1. Codec!HeldTool(t) \in HeldTools /\ \A f \in Parts : Codec!HeldTool(t)[f] = Codec!Held(t[f])
    BY HeldToolIs
  <2>. QED  BY <2>1 DEF HeldTools
<1>. QED  BY <1>3, <1>4, <1>5, <1>6

\* The two canonical forms, of an event of the SDK and of one the ingester decoded.
LEMMA CanonicalAlike ==
  ASSUME NEW e \in Recorded, NEW g,
         g.tool \in HeldTools \cup {None}, g.text \in Texts
  PROVE  Codec!PyCanonical(e) = Codec!GoCanonical(g) <=>
           /\ e.agent = g.agent /\ e.tenant = g.tenant /\ e.type = g.type
           /\ e.severity = g.severity /\ g.received = "zero" /\ e.duration = g.duration
           /\ e.text = g.text /\ Codec!AlikeText(e.text) /\ e.zone = "utc"
           /\ g.tool = Codec!HeldTool(e.tool)
           /\ e.tool # None => \A f \in Parts : Codec!AlikeObject(e.tool[f])
<1>0. /\ e.text \in Codec!AnyText /\ g.text \in Codec!AnyText
      /\ e.tool \in AnyTool \cup {None}
  BY CodecOk DEF Codec!CodecAssumption, Recorded
<1>1. Codec!PyText(e.text) = Codec!GoText(g.text) <=>
        e.text = g.text /\ Codec!AlikeText(e.text)
  BY <1>0, TextsWrittenAlike
<1>2. ASSUME Codec!PyCanonical(e) = Codec!GoCanonical(g)
      PROVE  /\ e.agent = g.agent /\ e.tenant = g.tenant /\ e.type = g.type
             /\ e.severity = g.severity /\ g.received = "zero" /\ e.duration = g.duration
             /\ Codec!PyText(e.text) = Codec!GoText(g.text) /\ e.zone = "utc"
             /\ e.tool = None <=> g.tool = None
             /\ e.tool # None => Codec!PyTool(e.tool) = Codec!GoTool(g.tool)
  <2>. DEFINE Go(x) ==
         \/ x = <<"agent_id", g.agent>> \/ x = <<"tenant_id", g.tenant>>
         \/ x = <<"type", g.type>> \/ x = <<"severity", g.severity>>
         \/ x = <<"timestamp", "utc">>
         \/ x = <<"received_at", g.received>> \/ x = <<"content", Codec!GoText(g.text)>>
         \/ g.tool # None /\ x = <<"tool_call", Codec!GoTool(g.tool)>>
         \/ g.duration # 0 /\ x = <<"duration", g.duration>>
  <2>1. \A x : x \in Codec!PyCanonical(e) => Go(x)
    BY <1>2, GoFields
  <2>2. e.agent = g.agent
    <3>1. Go(<<"agent_id", e.agent>>)
      BY <2>1, PyFields
    <3>. QED  BY <3>1
  <2>3. e.tenant = g.tenant
    <3>1. Go(<<"tenant_id", e.tenant>>)
      BY <2>1, PyFields
    <3>. QED  BY <3>1
  <2>4. e.type = g.type
    <3>1. Go(<<"type", e.type>>)
      BY <2>1, PyFields
    <3>. QED  BY <3>1
  <2>5. e.severity = g.severity
    <3>1. Go(<<"severity", e.severity>>)
      BY <2>1, PyFields
    <3>. QED  BY <3>1
  <2>6. g.received = "zero"
    <3>1. Go(<<"received_at", "zero">>)
      BY <2>1, PyFields
    <3>. QED  BY <3>1
  <2>7. Codec!PyText(e.text) = Codec!GoText(g.text)
    <3>1. Go(<<"content", Codec!PyText(e.text)>>)
      BY <2>1, PyFields
    <3>. QED  BY <3>1
  <2>0. e.zone = "utc"
    <3>1. Go(<<"timestamp", e.zone>>)
      BY <2>1, PyFields
    <3>. QED  BY <3>1
  <2>8. e.duration = g.duration
    <3>1. CASE e.duration # 0
      <4>1. Go(<<"duration", e.duration>>)
        BY <2>1, <3>1, PyFields
      <4>. QED  BY <4>1
    <3>2. CASE g.duration # 0
      <4>1. <<"duration", g.duration>> \in Codec!PyCanonical(e)
        BY <1>2, <3>2, GoFields
      <4>2. e.duration # 0 /\ <<"duration", g.duration>> = <<"duration", e.duration>>
        BY <4>1, PyFields
      <4>. QED  BY <4>2
    <3>. QED  BY <3>1, <3>2
  <2>9. e.tool # None => g.tool # None /\ Codec!PyTool(e.tool) = Codec!GoTool(g.tool)
    <3>. SUFFICES ASSUME e.tool # None
                  PROVE  g.tool # None /\ Codec!PyTool(e.tool) = Codec!GoTool(g.tool)
      OBVIOUS
    <3>1. Go(<<"tool_call", Codec!PyTool(e.tool)>>)
      BY <2>1, PyFields
    <3>. QED  BY <3>1
  <2>10. g.tool # None => e.tool # None
    <3>. SUFFICES ASSUME g.tool # None PROVE e.tool # None
      OBVIOUS
    <3>1. <<"tool_call", Codec!GoTool(g.tool)>> \in Codec!PyCanonical(e)
      BY <1>2, GoFields
    <3>. QED  BY <3>1, PyFields
  <2>. QED  BY <2>0, <2>2, <2>3, <2>4, <2>5, <2>6, <2>7, <2>8, <2>9, <2>10
<1>3. ASSUME /\ e.agent = g.agent /\ e.tenant = g.tenant /\ e.type = g.type
             /\ e.severity = g.severity /\ g.received = "zero" /\ e.duration = g.duration
             /\ Codec!PyText(e.text) = Codec!GoText(g.text) /\ e.zone = "utc"
             /\ e.tool = None <=> g.tool = None
             /\ e.tool # None => Codec!PyTool(e.tool) = Codec!GoTool(g.tool)
      PROVE  Codec!PyCanonical(e) = Codec!GoCanonical(g)
  <2>1. ASSUME NEW x PROVE x \in Codec!PyCanonical(e) <=> x \in Codec!GoCanonical(g)
    <3>. DEFINE common ==
           \/ x = <<"agent_id", g.agent>> \/ x = <<"tenant_id", g.tenant>>
           \/ x = <<"type", g.type>> \/ x = <<"severity", g.severity>>
           \/ x = <<"timestamp", "utc">>
           \/ x = <<"received_at", "zero">> \/ x = <<"content", Codec!GoText(g.text)>>
           \/ g.duration # 0 /\ x = <<"duration", g.duration>>
    <3>1. x \in Codec!PyCanonical(e) <=>
            common \/ (e.tool # None /\ x = <<"tool_call", Codec!PyTool(e.tool)>>)
      BY <1>3, PyFields
    <3>2. x \in Codec!GoCanonical(g) <=>
            common \/ (g.tool # None /\ x = <<"tool_call", Codec!GoTool(g.tool)>>)
      BY <1>3, GoFields
    <3>. HIDE DEF common
    <3>. QED  BY <1>3, <3>1, <3>2
  <2>. QED  BY <2>1
<1>4. /\ e.tool = None <=> g.tool = None
      /\ e.tool # None => Codec!PyTool(e.tool) = Codec!GoTool(g.tool)
      <=> /\ g.tool = Codec!HeldTool(e.tool)
          /\ e.tool # None => \A f \in Parts : Codec!AlikeObject(e.tool[f])
  <2>1. CASE e.tool = None
    BY <2>1, HeldToolIs
  <2>2. CASE e.tool # None
    <3>1. e.tool \in AnyTool /\ Codec!HeldTool(e.tool) \in HeldTools
      BY <1>0, <2>2, HeldToolIs
    <3>2. CASE g.tool = None
      BY <2>2, <3>1, <3>2, NoneIs
    <3>3. CASE g.tool # None
      BY <2>2, <3>1, <3>3, ToolsWrittenAlike
    <3>. QED  BY <3>2, <3>3
  <2>. QED  BY <2>1, <2>2
<1>. QED  BY <1>1, <1>2, <1>3, <1>4

-----------------------------------------------------------------------------
(***************************************************************************)
(* The life of the event: its inductive invariant says how the message on  *)
(* the wire, what is stored and what the engine is sent come from what was *)
(* signed.                                                                 *)
(***************************************************************************)
Sig == Codec!Signature(key, Codec!PyCanonical(sdk))

Messages ==
  [agent : Agents, tenant : Tenants, type : SdkTypes, severity : SdkSeverities,
   text : Texts, tool : HeldTools \cup {None}, duration : Durations, hmac : {Sig}]

\* Nothing is stored before the verdict, nothing analysed before it is stored.
Stages ==
  /\ verdict # "accepted" => stored = None
  /\ stored = None => analysed = None

Sent ==
  /\ sdk \in Codec!SdkEvents /\ queued \in Recorded /\ faults \in Nat
  /\ faults = 0 => queued = sdk
  /\ wire # None => wire \in Messages
  /\ wire # None /\ faults = 0 => wire = Codec!event_to_proto(sdk, Sig)

Kind ==
  [agent : {Codec!AgentID(cert)}, tenant : {Codec!TenantID(cert)}, type : Types,
   severity : Severities, text : Texts, tool : HeldTools \cup {None}, duration : Durations,
   hmac : {Sig}, received : {"now"}]

Stored == verdict = "accepted" => stored \in Kind

Analysed == analysed # None => analysed = Codec!eventToProto(stored)

CodecInv ==
  /\ Sent /\ Stored /\ Analysed /\ Stages
  /\ Codec!AcceptedIsSigned /\ Codec!AcceptedIffPortable

\* The other subjects leave the event unsent.
EventInv ==
  IF subject = "codec" THEN CodecInv ELSE verdict = None /\ analysed = None

\* What the ingester decodes.
LEMMA Decoded ==
  ASSUME NEW m \in Messages
  PROVE  LET g == Codec!protoToEvent(m)
         IN  /\ g = [agent |-> m.agent, tenant |-> m.tenant,
                     type |-> Codec!protoToEventType(m.type),
                     severity |-> Codec!protoToSeverity(m.severity),
                     text |-> m.text, duration |-> m.duration, hmac |-> Sig,
                     received |-> "zero", tool |-> g.tool]
             /\ g.tool = m.tool
<1>. DEFINE g == Codec!protoToEvent(m)
<1>1. g.tool = m.tool
  <2>1. CASE m.tool = None
    BY <2>1 DEF Codec!protoToEvent
  <2>2. CASE m.tool # None
    <3>1. m.tool \in HeldTools
      BY <2>2 DEF Messages
    <3>2. g.tool = Codec!HeldTool(m.tool)
      BY <2>2 DEF Codec!protoToEvent, Codec!structToJSON, Codec!HeldTool
    <3>. QED  BY <3>1, <3>2, HeldToolIs
  <2>. QED  BY <2>1, <2>2
<1>2. g = [agent |-> m.agent, tenant |-> m.tenant,
           type |-> Codec!protoToEventType(m.type),
           severity |-> Codec!protoToSeverity(m.severity),
           text |-> m.text, duration |-> m.duration, hmac |-> Sig,
           received |-> "zero", tool |-> g.tool]
  BY DEF Codec!protoToEvent, Messages
<1>. QED  BY <1>1, <1>2

\* A message whose signature is accepted says what was signed.
LEMMA AcceptedSays ==
  ASSUME sdk \in Codec!SdkEvents, NEW m \in Messages,
         Codec!Verdict(Codec!protoToEvent(m)) = "accepted"
  PROVE  LET g == Codec!protoToEvent(m)
         IN  /\ Codec!Identified(cert) /\ key = Config[Codec!AgentID(cert)].key
             /\ g.type = sdk.type /\ g.severity = sdk.severity /\ g.text = sdk.text
             /\ g.duration = sdk.duration /\ g.type \in Types /\ g.severity \in Severities
             /\ g.tool = Codec!HeldTool(sdk.tool)
<1>. DEFINE g == Codec!protoToEvent(m)
<1>0. sdk \in Recorded
  BY ToolsAre
<1>1. /\ Codec!Identified(cert) /\ Codec!VerifyHMAC(g, Codec!SigningKey(g))
      /\ Codec!validateEvent(g)
  BY DEF Codec!Verdict
<1>2. /\ g.tool \in HeldTools \cup {None} /\ g.text \in Texts /\ g.hmac = Sig
      /\ g.severity = Codec!protoToSeverity(m.severity)
  BY Decoded DEF Messages
<1>. HIDE DEF g
<1>3. key = Codec!SigningKey(g) /\ Codec!PyCanonical(sdk) = Codec!GoCanonical(g)
  BY <1>1, <1>2 DEF Codec!VerifyHMAC, Codec!Signature, Sig
<1>4. key = Config[Codec!AgentID(cert)].key
  BY <1>1, <1>3 DEF Codec!SigningKey, Codec!Identified, Codec!hmacKeys
<1>5. /\ g.type = sdk.type /\ g.severity = sdk.severity /\ g.text = sdk.text
      /\ g.duration = sdk.duration /\ g.tool = Codec!HeldTool(sdk.tool)
  BY <1>0, <1>2, <1>3, CanonicalAlike
<1>6. g.severity \in Severities
  <2>1. sdk.severity \in SdkSeverities /\ "" \notin SdkSeverities
    BY <1>0, CodecOk DEF Recorded, Codec!CodecAssumption
  <2>. QED  BY <1>2, <1>5, <2>1 DEF Codec!protoToSeverity
<1>7. g.type \in Types
  BY <1>1 DEF Codec!validateEvent
<1>. QED  BY <1>1, <1>4, <1>5, <1>6, <1>7 DEF g

\* An undamaged message is accepted when both languages write its data alike.
LEMMA PortableAccepted ==
  ASSUME sdk \in Codec!SdkEvents
  PROVE  LET m == Codec!event_to_proto(sdk, Sig)
         IN  Codec!Verdict(Codec!protoToEvent(m)) = "accepted" <=>
               /\ Codec!Identified(cert) /\ key = Config[Codec!AgentID(cert)].key
               /\ Codec!Portable(sdk)
<1>. DEFINE m == Codec!event_to_proto(sdk, Sig)
            g == Codec!protoToEvent(m)
<1>0. sdk \in Recorded /\ 0 \in Durations
  BY ToolsAre, CodecOk DEF Codec!CodecAssumption
<1>1. m \in Messages /\ m.duration = 0 /\ m.type = sdk.type /\ m.severity = sdk.severity
      /\ m.text = sdk.text /\ m.tool = Codec!HeldTool(sdk.tool)
      /\ m.agent = sdk.agent /\ m.tenant = sdk.tenant
  BY <1>0, HeldToolIs DEF Codec!event_to_proto, Messages, Recorded
<1>2. /\ g.agent = sdk.agent /\ g.tenant = sdk.tenant
      /\ g.type = Codec!protoToEventType(sdk.type)
      /\ g.severity = Codec!protoToSeverity(sdk.severity)
      /\ g.text = sdk.text /\ g.duration = 0 /\ g.hmac = Sig /\ g.received = "zero"
      /\ g.tool = Codec!HeldTool(sdk.tool) /\ g.tool \in HeldTools \cup {None}
  BY <1>1, Decoded DEF Messages
<1>3. sdk.tool # None => sdk.tool \in AnyTool /\ DOMAIN sdk.tool = Parts
  BY <1>0 DEF Recorded, AnyTool
<1>4. ASSUME Codec!Verdict(g) = "accepted"
      PROVE  Codec!Identified(cert) /\ key = Config[Codec!AgentID(cert)].key /\ Codec!Portable(sdk)
  <2>1. /\ Codec!Identified(cert) /\ key = Config[Codec!AgentID(cert)].key
        /\ g.type = sdk.type /\ g.severity = sdk.severity
        /\ g.duration = sdk.duration /\ g.type \in Types /\ g.severity \in Severities
    BY <1>1, <1>4, AcceptedSays
  <2>2. /\ Codec!AlikeText(sdk.text) /\ sdk.zone = "utc"
        /\ sdk.tool # None => \A f \in Parts : Codec!AlikeObject(sdk.tool[f])
    <3>1. Codec!VerifyHMAC(g, Codec!SigningKey(g))
      BY <1>4 DEF Codec!Verdict
    <3>. HIDE DEF g
    <3>2. Codec!PyCanonical(sdk) = Codec!GoCanonical(g)
      BY <1>2, <3>1 DEF Codec!VerifyHMAC, Codec!Signature, Sig
    <3>3. g.text \in Texts
      BY <1>0, <1>2 DEF Recorded
    <3>. QED  BY <1>0, <1>2, <3>2, <3>3, CanonicalAlike
  <2>. HIDE DEF g
  <2>3. sdk.type # "unspecified" /\ sdk.severity # "unspecified" /\ sdk.duration = 0
    <3>1. "unspecified" \notin Types /\ "unspecified" \notin Severities
      BY CodecOk DEF Codec!CodecAssumption
    <3>. QED  BY <1>2, <2>1, <3>1
  <2>. QED  BY <1>3, <2>1, <2>2, <2>3 DEF Codec!Portable
<1>5. ASSUME Codec!Identified(cert), key = Config[Codec!AgentID(cert)].key, Codec!Portable(sdk)
      PROVE  Codec!Verdict(g) = "accepted"
  <2>. HIDE DEF g
  <2>1. sdk.type \in Types /\ sdk.severity \in Severities
    BY <1>0, <1>5, CodecOk DEF Codec!Portable, Recorded, Codec!CodecAssumption
  <2>2. g.type = sdk.type /\ g.severity = sdk.severity
    BY <1>2, <2>1 DEF Codec!protoToEventType, Codec!protoToSeverity
  <2>3. sdk.tool # None => \A f \in Parts : Codec!AlikeObject(sdk.tool[f])
    BY <1>3, <1>5 DEF Codec!Portable
  <2>4. /\ g.text \in Texts /\ Codec!AlikeText(sdk.text) /\ sdk.zone = "utc"
        /\ sdk.duration = 0
    BY <1>0, <1>2, <1>5 DEF Recorded, Codec!Portable
  <2>5. Codec!PyCanonical(sdk) = Codec!GoCanonical(g)
    BY <1>0, <1>2, <2>2, <2>3, <2>4, CanonicalAlike
  <2>6. key = Codec!SigningKey(g)
    BY <1>5 DEF Codec!SigningKey, Codec!Identified, Codec!hmacKeys
  <2>7. Codec!VerifyHMAC(g, Codec!SigningKey(g))
    BY <1>2, <2>5, <2>6 DEF Codec!VerifyHMAC, Sig
  <2>8. Codec!validateEvent(g)
    BY <2>1, <2>2 DEF Codec!validateEvent
  <2>. QED  BY <1>5, <2>7, <2>8 DEF Codec!Verdict
<1>. QED  BY <1>4, <1>5

-----------------------------------------------------------------------------
(***************************************************************************)
(* The steps of the event's life.                                          *)
(***************************************************************************)
LEMMA CodecInitially == Codec!Init => CodecInv
<1>. SUFFICES ASSUME Codec!Init PROVE CodecInv
  OBVIOUS
<1>1. /\ wire = None /\ verdict = None /\ stored = None /\ analysed = None /\ faults = 0
      /\ sdk \in Codec!SdkEvents /\ queued = sdk
  BY DEF Codec!Init
<1>2. Sent
  BY <1>1, ToolsAre DEF Sent
<1>3. Stored /\ Analysed /\ Stages
  BY <1>1, NoneIs DEF Stored, Analysed, Stages
<1>4. Codec!AcceptedIsSigned /\ Codec!AcceptedIffPortable
  BY <1>1, NoneIs DEF Codec!AcceptedIsSigned, Codec!AcceptedIffPortable
<1>. QED  BY <1>2, <1>3, <1>4 DEF CodecInv

LEMMA CodecUntouched ==
  ASSUME CodecInv, UNCHANGED codecVars
  PROVE  CodecInv'
<1>. USE DEF CodecInv, codecVars
<1>1. Sent'
  BY DEF Sent, Messages, Sig, Codec!PyCanonical, Codec!PyTool, Codec!event_to_proto
<1>2. Stored'
  BY DEF Stored, Kind, Sig, Codec!AgentID, Codec!TenantID
<1>3. Analysed' /\ Stages'
  BY DEF Analysed, Stages
<1>4. Codec!AcceptedIsSigned' /\ Codec!AcceptedIffPortable'
  BY DEF Codec!AcceptedIsSigned, Codec!AcceptedIffPortable, Codec!Identified
<1>. QED  BY <1>1, <1>2, <1>3, <1>4

\* A fault, or sending: what was answered stays.
LEMMA AnsweredStays ==
  ASSUME CodecInv, UNCHANGED <<sdk, key, cert, verdict, stored, analysed>>,
         faults' = faults \/ (faults' = faults + 1 /\ faults \in Nat)
  PROVE  (Stored /\ Analysed /\ Stages /\ Codec!AcceptedIsSigned /\ Codec!AcceptedIffPortable)'
<1>. USE DEF CodecInv
<1>1. Stored' /\ Analysed' /\ Stages'
  BY DEF Stored, Analysed, Stages, Kind, Sig
<1>2. Codec!AcceptedIsSigned'
  BY DEF Codec!AcceptedIsSigned
<1>3. faults' = 0 => faults = 0
  OBVIOUS
<1>4. Codec!AcceptedIffPortable'
  BY <1>3 DEF Codec!AcceptedIffPortable
<1>. QED  BY <1>1, <1>2, <1>4

LEMMA ChangeKeepsCodec == CodecInv /\ Codec!Change => CodecInv'
<1>. SUFFICES ASSUME CodecInv, Codec!Change PROVE CodecInv'
  OBVIOUS
<1>1. /\ wire = None /\ faults' = faults + 1 /\ faults \in Nat
      /\ UNCHANGED <<sdk, key, cert, wire, verdict, stored, analysed>>
  BY DEF Codec!Change, CodecInv, Sent
<1>2. queued' \in Recorded
  <2>0. queued \in Recorded
    BY DEF CodecInv, Sent
  <2>1. CASE \E t \in Texts \ {queued.text} : queued' = [queued EXCEPT !.text = t]
    BY <2>0, <2>1 DEF Recorded
  <2>2. CASE \E tc \in Tools \ {queued.tool} : queued' = [queued EXCEPT !.tool = tc]
    BY <2>0, <2>2, ToolsAre DEF Recorded
  <2>. QED  BY <2>1, <2>2 DEF Codec!Change
<1>3. Sent'
  BY <1>1, <1>2 DEF CodecInv, Sent
<1>. QED  BY <1>1, <1>3, AnsweredStays DEF CodecInv

LEMMA SendKeepsCodec == CodecInv /\ Codec!Send => CodecInv'
<1>. SUFFICES ASSUME CodecInv, Codec!Send PROVE CodecInv'
  OBVIOUS
<1>1. /\ wire' = Codec!event_to_proto(queued, Sig)
      /\ UNCHANGED <<sdk, queued, key, cert, verdict, stored, analysed, faults>>
  BY DEF Codec!Send, Sig
<1>2. wire' \in Messages
  <2>1. queued \in Recorded /\ 0 \in Durations
    BY CodecOk DEF CodecInv, Sent, Codec!CodecAssumption
  <2>2. Codec!HeldTool(queued.tool) \in HeldTools \cup {None}
    BY <2>1, HeldToolIs DEF Recorded
  <2>. QED  BY <1>1, <2>1, <2>2 DEF Codec!event_to_proto, Messages, Recorded
<1>3. Sig' = Sig /\ Messages' = Messages
  BY <1>1 DEF Sig, Messages
<1>4. Sent'
  BY <1>1, <1>2, <1>3 DEF CodecInv, Sent
<1>. QED  BY <1>1, <1>4, AnsweredStays DEF CodecInv

LEMMA DamageKeepsCodec == CodecInv /\ Codec!Damage => CodecInv'
<1>. SUFFICES ASSUME CodecInv, Codec!Damage PROVE CodecInv'
  OBVIOUS
<1>1. /\ wire # None /\ faults' = faults + 1 /\ faults \in Nat
      /\ UNCHANGED <<sdk, queued, key, cert, verdict, stored, analysed>>
  BY DEF Codec!Damage, CodecInv, Sent
<1>2. wire' \in Messages
  <2>0. wire \in Messages
    BY <1>1 DEF CodecInv, Sent
  <2>1. PICK f \in DOMAIN wire \ {"hmac"} : \E v \in Codec!Values(f) \ {wire[f]} :
          wire' = [wire EXCEPT ![f] = v]
    BY DEF Codec!Damage
  <2>2. PICK v \in Codec!Values(f) : wire' = [wire EXCEPT ![f] = v]
    BY <2>1
  <2>3. f \in {"agent", "tenant", "type", "severity", "text", "tool", "duration"}
    BY <2>0, <2>1 DEF Messages
  <2>4. {Codec!HeldTool(tc) : tc \in Tools \cup {None}} \subseteq HeldTools \cup {None}
    BY ToolsAre, HeldToolIs
  <2>5. CASE f = "agent"
    BY <2>0, <2>2, <2>5 DEF Messages, Codec!Values
  <2>6. CASE f = "tenant"
    BY <2>0, <2>2, <2>6 DEF Messages, Codec!Values
  <2>7. CASE f = "type"
    BY <2>0, <2>2, <2>7 DEF Messages, Codec!Values
  <2>8. CASE f = "severity"
    BY <2>0, <2>2, <2>8 DEF Messages, Codec!Values
  <2>9. CASE f = "text"
    BY <2>0, <2>2, <2>9 DEF Messages, Codec!Values
  <2>10. CASE f = "tool"
    BY <2>0, <2>2, <2>4, <2>10 DEF Messages, Codec!Values
  <2>11. CASE f = "duration"
    BY <2>0, <2>2, <2>11 DEF Messages, Codec!Values
  <2>. QED  BY <2>3, <2>5, <2>6, <2>7, <2>8, <2>9, <2>10, <2>11
<1>3. Sig' = Sig /\ Messages' = Messages
  BY <1>1 DEF Sig, Messages
<1>4. Sent'
  BY <1>1, <1>2, <1>3 DEF CodecInv, Sent
<1>. QED  BY <1>1, <1>4, AnsweredStays DEF CodecInv

\* The identity and the time of receipt are set, the rest is kept.
LEMMA Overridden ==
  ASSUME NEW A, NEW B, NEW C, NEW D, NEW E, NEW F, NEW G, NEW H, NEW I,
         NEW r \in [agent : A, tenant : B, type : C, severity : D, text : E,
                    duration : F, hmac : G, received : H, tool : I],
         NEW a, NEW b, NEW h
  PROVE  LET k == [r EXCEPT !.agent = a, !.tenant = b, !.received = h]
         IN  /\ k \in [agent : {a}, tenant : {b}, type : C, severity : D, text : E,
                       duration : F, hmac : G, received : {h}, tool : I]
             /\ k.type = r.type /\ k.severity = r.severity /\ k.text = r.text
             /\ k.duration = r.duration /\ k.tool = r.tool
             /\ k.agent = a /\ k.tenant = b
<1>. DEFINE k1 == [r EXCEPT !.agent = a]
            k2 == [k1 EXCEPT !.tenant = b]
            k3 == [k2 EXCEPT !.received = h]
<1>1. /\ k1 \in [agent : {a}, tenant : B, type : C, severity : D, text : E,
                 duration : F, hmac : G, received : H, tool : I]
      /\ k1.type = r.type /\ k1.severity = r.severity /\ k1.text = r.text
      /\ k1.duration = r.duration /\ k1.tool = r.tool /\ k1.agent = a
  OBVIOUS
<1>. HIDE DEF k1
<1>2. /\ k2 \in [agent : {a}, tenant : {b}, type : C, severity : D, text : E,
                 duration : F, hmac : G, received : H, tool : I]
      /\ k2.type = k1.type /\ k2.severity = k1.severity /\ k2.text = k1.text
      /\ k2.duration = k1.duration /\ k2.tool = k1.tool
      /\ k2.agent = k1.agent /\ k2.tenant = b
  BY <1>1
<1>. HIDE DEF k2
<1>3. /\ k3 \in [agent : {a}, tenant : {b}, type : C, severity : D, text : E,
                 duration : F, hmac : G, received : {h}, tool : I]
      /\ k3.type = k2.type /\ k3.severity = k2.severity /\ k3.text = k2.text
      /\ k3.duration = k2.duration /\ k3.tool = k2.tool
      /\ k3.agent = k2.agent /\ k3.tenant = k2.tenant
  BY <1>2
<1>. HIDE DEF k3
<1>4. k3 = [r EXCEPT !.agent = a, !.tenant = b, !.received = h]
  BY DEF k1, k2, k3
<1>. QED  BY <1>1, <1>2, <1>3, <1>4

LEMMA IngestKeepsCodec == CodecInv /\ Codec!IngestEvent => CodecInv'
<1>. SUFFICES ASSUME CodecInv, Codec!IngestEvent PROVE CodecInv'
  OBVIOUS
<1>. DEFINE g == Codec!protoToEvent(wire)
            kept == [g EXCEPT !.agent = Codec!AgentID(cert),
                              !.tenant = Codec!TenantID(cert), !.received = "now"]
<1>1. /\ wire \in Messages /\ verdict = None
      /\ verdict' = Codec!Verdict(g)
      /\ stored' = IF verdict' # "accepted" THEN None ELSE kept
      /\ UNCHANGED <<sdk, queued, key, cert, wire, analysed, faults>>
  BY DEF Codec!IngestEvent, CodecInv, Sent
<1>2. sdk \in Codec!SdkEvents /\ analysed = None
  BY <1>1, NoneIs DEF CodecInv, Sent, Stages
<1>3. Sent'
  BY <1>1 DEF CodecInv, Sent, Sig, Messages
<1>4. Stages' /\ Analysed'
  BY <1>1, <1>2 DEF Stages, Analysed
<1>5. ASSUME verdict' = "accepted"
      PROVE  stored' \in Kind /\ Codec!AcceptedIsSigned'
  <2>1. /\ key = Config[Codec!AgentID(cert)].key
        /\ g.type = sdk.type /\ g.severity = sdk.severity /\ g.text = sdk.text
        /\ g.duration = sdk.duration /\ g.type \in Types /\ g.severity \in Severities
        /\ g.tool = Codec!HeldTool(sdk.tool)
    BY <1>1, <1>2, <1>5, AcceptedSays
  <2>2. /\ g = [agent |-> wire.agent, tenant |-> wire.tenant,
                type |-> g.type, severity |-> g.severity,
                text |-> wire.text, duration |-> wire.duration, hmac |-> Sig,
                received |-> "zero", tool |-> g.tool]
        /\ g.tool \in HeldTools \cup {None} /\ g.text \in Texts /\ g.duration \in Durations
    <3>1. /\ g = [agent |-> wire.agent, tenant |-> wire.tenant,
                  type |-> Codec!protoToEventType(wire.type),
                  severity |-> Codec!protoToSeverity(wire.severity),
                  text |-> wire.text, duration |-> wire.duration, hmac |-> Sig,
                  received |-> "zero", tool |-> g.tool]
          /\ g.tool \in HeldTools \cup {None}
      BY <1>1, Decoded DEF Messages
    <3>2. wire.text \in Texts /\ wire.duration \in Durations
      BY <1>1 DEF Messages
    <3>. HIDE DEF g
    <3>. QED  BY <3>1, <3>2
  <2>. HIDE DEF g
  <2>3. /\ kept \in [agent : {Codec!AgentID(cert)}, tenant : {Codec!TenantID(cert)},
                     type : {g.type}, severity : {g.severity}, text : {g.text},
                     duration : {g.duration}, hmac : {Sig}, received : {"now"}, tool : {g.tool}]
        /\ kept.type = g.type /\ kept.severity = g.severity /\ kept.text = g.text
        /\ kept.duration = g.duration /\ kept.tool = g.tool
        /\ kept.agent = Codec!AgentID(cert) /\ kept.tenant = Codec!TenantID(cert)
    <3>1. g.text = wire.text /\ g.duration = wire.duration
      BY <2>2
    <3>2. g \in [agent : {wire.agent}, tenant : {wire.tenant},
                 type : {g.type}, severity : {g.severity}, text : {g.text},
                 duration : {g.duration}, hmac : {Sig}, received : {"zero"}, tool : {g.tool}]
      BY <2>2, <3>1
    <3>. QED  BY <3>2, Overridden
  <2>4. stored' = kept
    BY <1>1, <1>5
  <2>5. kept \in Kind
    BY <2>1, <2>2, <2>3 DEF Kind
  <2>6. Codec!Content(kept) = Codec!Content(sdk)
    <3>1. /\ kept.type = sdk.type /\ kept.severity = sdk.severity /\ kept.text = sdk.text
          /\ kept.duration = sdk.duration /\ kept.tool = g.tool
      BY <2>1, <2>3
    <3>2. Codec!HeldTool(g.tool) = Codec!HeldTool(sdk.tool)
      BY <2>1, <2>2, HeldToolIs
    <3>. QED  BY <3>1, <3>2 DEF Codec!Content
  <2>7. kept.agent = Codec!AgentID(cert) /\ kept.tenant = Codec!TenantID(cert)
    BY <2>3
  <2>. HIDE DEF kept
  <2>8. Codec!AcceptedIsSigned'
    BY <1>1, <2>1, <2>4, <2>6, <2>7 DEF Codec!AcceptedIsSigned
  <2>. QED  BY <2>4, <2>5, <2>8
<1>6. Stored' /\ Codec!AcceptedIsSigned'
  <2>1. Kind' = Kind
    BY <1>1 DEF Kind, Sig
  <2>2. Stored'
    BY <1>5, <2>1 DEF Stored
  <2>3. Codec!AcceptedIsSigned'
    BY <1>5 DEF Codec!AcceptedIsSigned
  <2>. QED  BY <2>2, <2>3
<1>7. Codec!AcceptedIffPortable'
  <2>. SUFFICES ASSUME faults = 0
                PROVE  verdict' = "accepted" <=>
                         /\ Codec!Identified(cert) /\ key = Config[Codec!AgentID(cert)].key
                         /\ Codec!Portable(sdk)
    BY <1>1 DEF Codec!AcceptedIffPortable
  <2>1. wire = Codec!event_to_proto(sdk, Sig)
    <3>1. wire # None
      BY DEF Codec!IngestEvent
    <3>. QED  BY <3>1 DEF CodecInv, Sent
  <2>. QED  BY <1>1, <1>2, <2>1, PortableAccepted
<1>. QED  BY <1>3, <1>4, <1>6, <1>7 DEF CodecInv

LEMMA ForwardKeepsCodec == CodecInv /\ Codec!Forward => CodecInv'
<1>. SUFFICES ASSUME CodecInv, Codec!Forward PROVE CodecInv'
  OBVIOUS
<1>1. /\ stored # None /\ analysed' = Codec!eventToProto(stored)
      /\ UNCHANGED <<sdk, queued, key, cert, wire, verdict, stored, faults>>
  BY DEF Codec!Forward
<1>2. Sent' /\ Stored'
  BY <1>1 DEF CodecInv, Sent, Stored, Kind, Sig, Messages
<1>3. Stages' /\ Analysed'
  BY <1>1 DEF CodecInv, Stages, Analysed
<1>4. Codec!AcceptedIsSigned' /\ Codec!AcceptedIffPortable'
  BY <1>1 DEF CodecInv, Codec!AcceptedIsSigned, Codec!AcceptedIffPortable
<1>. QED  BY <1>2, <1>3, <1>4 DEF CodecInv

LEMMA EventInvariant == AllSpec => []EventInv
<1>1. AllInit => EventInv
  BY CodecInitially DEF AllInit, EventInv, NoCodec
<1>2. EventInv /\ [QueueMoves \/ CodecMoves \/ RedactMoves]_allVars => EventInv'
  <2>. SUFFICES ASSUME EventInv, [QueueMoves \/ CodecMoves \/ RedactMoves]_allVars
                PROVE  EventInv'
    OBVIOUS
  <2>1. subject' = subject
    BY DEF QueueMoves, OfQueue, CodecMoves, RedactMoves, allVars
  <2>2. CASE CodecMoves
    <3>1. subject = "codec" /\ CodecInv /\ Codec!Next
      BY <2>2 DEF CodecMoves, EventInv
    <3>2. CodecInv'
      <4>1. CASE Codec!Done
        BY <3>1, <4>1, CodecUntouched DEF Codec!Done, Codec!vars, codecVars
      <4>. QED
        BY <3>1, <4>1, ChangeKeepsCodec, SendKeepsCodec, DamageKeepsCodec, IngestKeepsCodec,
           ForwardKeepsCodec DEF Codec!Next
    <3>. QED  BY <2>1, <3>1, <3>2 DEF EventInv
  <2>3. CASE UNCHANGED codecVars
    <3>1. UNCHANGED <<verdict, analysed>>
      BY <2>3 DEF codecVars
    <3>. QED  BY <2>1, <2>3, <3>1, CodecUntouched DEF EventInv
  <2>. QED  BY <2>2, <2>3 DEF QueueMoves, OfQueue, RedactMoves, allVars
<1>. QED  BY <1>1, <1>2, PTL DEF AllSpec

-----------------------------------------------------------------------------
\* The engine decodes what was stored, but for the time of receipt.
LEMMA ForwardedIsStored == CodecInv => Codec!EngineSeesStored
<1>. SUFFICES ASSUME CodecInv, analysed # None
              PROVE  Codec!protoToEvent(analysed) = [stored EXCEPT !.received = "zero"]
  BY DEF Codec!EngineSeesStored
<1>. DEFINE p == Codec!eventToProto(stored)
            q == Codec!protoToEvent(p)
<1>1. stored \in Kind /\ analysed = p
  BY DEF CodecInv, Stages, Stored, Analysed
<1>2. /\ p.agent = stored.agent /\ p.tenant = stored.tenant /\ p.type = stored.type
      /\ p.severity = stored.severity /\ p.text = stored.text
      /\ p.duration = stored.duration /\ p.hmac = stored.hmac
  BY <1>1 DEF Codec!eventToProto, Codec!eventTypeToProto, Codec!severityToProto, Kind
<1>3. p.tool = stored.tool
  <2>1. CASE stored.tool = None
    BY <2>1 DEF Codec!eventToProto
  <2>2. CASE stored.tool # None
    <3>1. stored.tool \in HeldTools
      BY <1>1, <2>2 DEF Kind
    <3>2. p.tool = Codec!HeldTool(stored.tool)
      BY <2>2 DEF Codec!eventToProto, Codec!jsonToStruct, Codec!HeldTool
    <3>. QED  BY <3>1, <3>2, HeldToolIs
  <2>. QED  BY <2>1, <2>2
<1>. HIDE DEF p
<1>4. q.tool = stored.tool
  <2>1. CASE stored.tool = None
    BY <1>3, <2>1 DEF Codec!protoToEvent
  <2>2. CASE stored.tool # None
    <3>1. stored.tool \in HeldTools
      BY <1>1, <2>2 DEF Kind
    <3>2. q.tool = Codec!HeldTool(stored.tool)
      BY <1>3, <2>2 DEF Codec!protoToEvent, Codec!structToJSON, Codec!HeldTool
    <3>. QED  BY <3>1, <3>2, HeldToolIs
  <2>. QED  BY <2>1, <2>2
<1>5. q = [agent |-> stored.agent, tenant |-> stored.tenant, type |-> stored.type,
           severity |-> stored.severity, text |-> stored.text, duration |-> stored.duration,
           hmac |-> stored.hmac, received |-> "zero", tool |-> q.tool]
  <2>1. stored.type \in Types /\ stored.severity \in Severities
    BY <1>1 DEF Kind
  <2>. QED
    BY <1>2, <2>1 DEF Codec!protoToEvent, Codec!protoToEventType, Codec!protoToSeverity
<1>. HIDE DEF q
<1>6. q = [stored EXCEPT !.received = "zero"]
  BY <1>1, <1>4, <1>5 DEF Kind
<1>. QED  BY <1>1, <1>6 DEF q

\* An event is accepted exactly when its agent is known, it was signed with the
\* agent's key and both languages write its data alike
\* (hmac.py:20-29, event.go:174-210, tls.go:66-112).
THEOREM PortableIsAccepted == AllSpec => []AcceptedIffPortable
<1>1. EventInv => AcceptedIffPortable
  BY DEF EventInv, CodecInv, AcceptedIffPortable, Codec!AcceptedIffPortable
<1>. QED  BY <1>1, EventInvariant, PTL

\* What is stored and sent to the engine is what was signed, under the agent of
\* the certificate, whatever changed between signing and verifying
\* (__init__.py:386-402, pipeline.go:124-159, analysis.go:271-437).
THEOREM SignedIsWhatIsStored == AllSpec => []SignedIsStoredAndAnalysed
<1>1. EventInv => SignedIsStoredAndAnalysed
  <2>. SUFFICES ASSUME EventInv PROVE SignedIsStoredAndAnalysed
    OBVIOUS
  <2>1. CASE subject = "codec"
    BY <2>1, ForwardedIsStored DEF EventInv, CodecInv, SignedIsStoredAndAnalysed
  <2>2. CASE subject # "codec"
    BY <2>2, NoneIs
       DEF EventInv, SignedIsStoredAndAnalysed, Codec!AcceptedIsSigned, Codec!EngineSeesStored
  <2>. QED  BY <2>1, <2>2
<1>. QED  BY <1>1, EventInvariant, PTL

-----------------------------------------------------------------------------
(***************************************************************************)
(* Redaction: what is listed, whatever a pattern makes of a text.          *)
(***************************************************************************)
Fields == {"content", "arguments", "error_msg", "label"}

ListInv ==
  IF subject = "redact"
  THEN /\ DOMAIN event = Fields /\ event \in Redact!RawEvents
       /\ (phase = "verified" => now = event)
       /\ Redact!ListedIffChanged
  ELSE phase = "verified"

LEMMA RedactKeepsList ==
  ASSUME DOMAIN event = Fields, event \in Redact!RawEvents, now = event, Redact!Redact
  PROVE  Redact!ListedIffChanged'
<1>. DEFINE args == IF event.arguments = None THEN None ELSE Redact!scrub(event.arguments)
<1>1. /\ now' = [event EXCEPT !.content = Redact!scrub(@), !.error_msg = Redact!scrub(@),
                              !.arguments = args]
      /\ redacted' = {f \in {"content", "error_msg"} : Redact!scrub(event[f]) # event[f]}
                       \cup {f \in {"arguments"} : args # event.arguments}
      /\ event' = event
  BY Zenon DEF Redact!Redact
<1>. HIDE DEF args
<1>2. event = [f \in Fields |-> event[f]]
  BY DEF Redact!RawEvents, Fields
<1>3. /\ now'["content"] = Redact!scrub(event["content"])
      /\ now'["error_msg"] = Redact!scrub(event["error_msg"])
      /\ now'["arguments"] = args /\ now'["label"] = event["label"]
  BY <1>1, <1>2 DEF Fields
<1>4. ASSUME NEW f PROVE f \in redacted' <=> f \in DOMAIN event /\ now'[f] # event[f]
  BY <1>1, <1>3 DEF Fields
<1>5. redacted' = {f \in DOMAIN event : now'[f] # event[f]}
  BY <1>4
<1>. QED  BY <1>1, <1>5 DEF Redact!ListedIffChanged

LEMMA ListInvariant == AllSpec => []ListInv
<1>1. AllInit => ListInv
  <2>. SUFFICES ASSUME Redact!Init
                PROVE  /\ DOMAIN event = Fields /\ event \in Redact!RawEvents /\ now = event
                       /\ phase = "verified" /\ Redact!ListedIffChanged
    BY DEF AllInit, ListInv, NoRedact
  <2>1. event \in Redact!RawEvents /\ now = event /\ phase = "verified"
    BY DEF Redact!Init
  <2>. QED  BY <2>1 DEF Redact!RawEvents, Fields, Redact!ListedIffChanged
<1>2. ListInv /\ [QueueMoves \/ CodecMoves \/ RedactMoves]_allVars => ListInv'
  <2>. SUFFICES ASSUME ListInv, [QueueMoves \/ CodecMoves \/ RedactMoves]_allVars
                PROVE  ListInv'
    OBVIOUS
  <2>1. subject' = subject
    BY DEF QueueMoves, OfQueue, CodecMoves, RedactMoves, allVars
  <2>2. CASE UNCHANGED redactVars
    BY <2>1, <2>2 DEF ListInv, redactVars, Redact!ListedIffChanged
  <2>3. CASE RedactMoves
    <3>1. subject = "redact" /\ Redact!Next
      BY <2>3 DEF RedactMoves
    <3>2. CASE Redact!Redact
      <4>1. phase = "verified" /\ phase' = "redacted" /\ event' = event
        BY <3>2 DEF Redact!Redact
      <4>2. Redact!ListedIffChanged'
        BY <3>1, <3>2, <4>1, RedactKeepsList DEF ListInv
      <4>. QED  BY <2>1, <3>1, <4>1, <4>2 DEF ListInv
    <3>3. CASE Redact!Persist
      <4>1. /\ phase = "redacted" /\ phase' \in {"stored", "store_error"}
            /\ UNCHANGED <<event, now, redacted>>
        BY <3>3 DEF Redact!Persist
      <4>. QED  BY <2>1, <3>1, <4>1 DEF ListInv, Redact!ListedIffChanged
    <3>4. CASE Redact!Done
      BY <2>1, <3>4 DEF Redact!Done, Redact!vars, ListInv, Redact!ListedIffChanged
    <3>. QED  BY <3>1, <3>2, <3>3, <3>4 DEF Redact!Next
  <2>. QED  BY <2>2, <2>3 DEF QueueMoves, OfQueue, CodecMoves, allVars
<1>. QED  BY <1>1, <1>2, PTL DEF AllSpec

\* The fields listed with an event are those redaction changed, whatever the
\* patterns are (redactor.go:83-128, pipeline.go:173-177).
THEOREM RedactionListsWhatChanged == AllSpec => []Redact!ListedIffChanged
<1>1. ListInv => Redact!ListedIffChanged
  BY DEF ListInv, Redact!ListedIffChanged
<1>. QED  BY <1>1, ListInvariant, PTL

-----------------------------------------------------------------------------
(***************************************************************************)
(* Redaction: what the patterns, one after the other, make of a text.      *)
(***************************************************************************)
LEMMA LeastExists ==
  ASSUME NEW S \in SUBSET Nat, S # {}
  PROVE  \E m \in S : \A x \in S : m <= x
<1>. DEFINE R == OpToRel(<, Nat)
<1>1. PICK m \in S : \A x \in S : <<x, m>> \notin R
  <2>. HIDE DEF R
  <2>. QED  BY NatLessThanWellFounded, WFMin DEF R
<1>2. \A x \in S : ~(x < m)
  BY <1>1 DEF OpToRel
<1>. QED  BY <1>2

\* Induction up to a bound, for a set of numbers.
LEMMA Reached ==
  ASSUME NEW N \in Nat, NEW I, 0 \in I,
         \A n \in 0..N : n \in I /\ n + 1 \in 0..N => n + 1 \in I
  PROVE  \A n \in 0..N : n \in I
<1>. DEFINE B == {n \in 0..N : n \notin I}
<1>. SUFFICES ASSUME B # {} PROVE FALSE
  OBVIOUS
<1>1. PICK m \in B : \A x \in B : m <= x
  <2>1. B \in SUBSET Nat
    OBVIOUS
  <2>. HIDE DEF B
  <2>. QED  BY <2>1, LeastExists
<1>2. m \in 0..N /\ m # 0 /\ m \notin I
  OBVIOUS
<1>3. m - 1 \in 0..N /\ m - 1 \notin B
  BY <1>1, <1>2
<1>4. m - 1 \in I /\ (m - 1) + 1 = m
  BY <1>2, <1>3
<1>. QED  BY <1>2, <1>3, <1>4

\* A function that is defined by its value before exists.
Iterated(f, N, S, a, step) ==
  f \in [0..N -> S] /\ f[0] = a /\ \A n \in 1..N : f[n] = step[<<n, f[n - 1]>>]

LEMMA Iterates ==
  ASSUME NEW N \in Nat, NEW S, NEW a \in S, NEW step \in [(1..N) \X S -> S]
  PROVE  \E f : Iterated(f, N, S, a, step)
<1>. DEFINE Computes(f, m) == f[0] = a /\ \A n \in 1..m : f[n] = step[<<n, f[n - 1]>>]
            I == {m \in 0..N : \E f \in [0..m -> S] : Computes(f, m)}
<1>1. 0 \in I
  <2>. DEFINE f == [n \in 0..0 |-> a]
  <2>1. f \in [0..0 -> S] /\ Computes(f, 0)
    OBVIOUS
  <2>2. 0 \in 0..N
    OBVIOUS
  <2>. HIDE DEF f, Computes
  <2>. QED  BY <2>1, <2>2
<1>2. ASSUME NEW m \in 0..N, m \in I, m + 1 \in 0..N PROVE m + 1 \in I
  <2>1. PICK f \in [0..m -> S] : Computes(f, m)
    BY <1>2
  <2>. HIDE DEF I
  <2>2. m \in Nat /\ m + 1 \in 1..N
    BY <1>2
  <2>3. f[m] \in S /\ step[<<m + 1, f[m]>>] \in S
    <3>1. f[m] \in S
      BY <2>2
    <3>2. <<m + 1, f[m]>> \in (1..N) \X S
      BY <2>2, <3>1
    <3>. QED  BY <3>1, <3>2
  <2>. DEFINE g == [n \in 0..m + 1 |-> IF n = m + 1 THEN step[<<m + 1, f[m]>>] ELSE f[n]]
  <2>4. /\ \A n \in 0..m + 1 : n # m + 1 => n \in 0..m
        /\ \A n \in 1..m + 1 : /\ n \in 0..m + 1 /\ n - 1 \in 0..m /\ n - 1 # m + 1
                               /\ n - 1 \in 0..m + 1 /\ (n # m + 1 => n \in 1..m)
                               /\ (n = m + 1 => n - 1 = m)
        /\ 0 \in 0..m + 1 /\ 0 # m + 1
    BY <2>2
  <2>. HIDE DEF Computes
  <2>5. g \in [0..m + 1 -> S]
    BY <2>3, <2>4
  <2>6. g[0] = a
    BY <2>1, <2>4 DEF Computes
  <2>7. ASSUME NEW n \in 1..m + 1 PROVE g[n] = step[<<n, g[n - 1]>>]
    <3>1. g[n - 1] = f[n - 1]
      BY <2>4
    <3>2. CASE n = m + 1
      <4>1. g[n] = step[<<m + 1, f[m]>>]
        BY <2>4, <3>2
      <4>. HIDE DEF g
      <4>. QED  BY <2>4, <3>1, <3>2, <4>1
    <3>3. CASE n # m + 1
      <4>1. n \in 1..m
        BY <2>4, <3>3
      <4>2. g[n] = f[n]
        BY <2>4, <3>3
      <4>. HIDE DEF g
      <4>. QED  BY <2>1, <3>1, <4>1, <4>2 DEF Computes
    <3>. QED  BY <3>2, <3>3
  <2>. HIDE DEF g
  <2>8. Computes(g, m + 1)
    BY <2>6, <2>7 DEF Computes
  <2>. QED  BY <1>2, <2>5, <2>8 DEF I
<1>3. N \in 0..N /\ \A n \in 0..N : n \in I
  <2>. HIDE DEF I
  <2>. QED  BY <1>1, <1>2, Reached
<1>. QED  BY <1>3 DEF Iterated

Matched == Words \cup Bare
Tokens == Matched \cup Redact!Structure \cup Redact!Other
Text == Seq(Tokens)

\* The words of a pattern are no other tokens.
LEMMA PatternsAre ==
  /\ Redact!Patterns \in Seq(Redact!Pattern) /\ Len(Redact!Patterns) \in Nat
  /\ \A q \in Range(Redact!Patterns) :
       /\ q \in Redact!Pattern
       /\ \E n \in 1..Len(Redact!Patterns) : q = Redact!Patterns[n]
  /\ \A n \in 1..Len(Redact!Patterns) : Redact!Patterns[n] \in Range(Redact!Patterns)
  /\ \A q \in Redact!Pattern : q.hits \subseteq Matched
  /\ \A w \in Matched : w \notin Redact!Structure \cup Redact!Other
<1>1. Redact!Patterns \in Seq(Redact!Pattern)
  BY RedactOk DEF Redact!RedactionAssumption, Redact!Patterns
<1>2. \A w \in Matched : w \notin Redact!Structure \cup Redact!Other
  BY RedactOk DEF Redact!RedactionAssumption, Matched
<1>3. DOMAIN Redact!Patterns = 1..Len(Redact!Patterns) /\ Len(Redact!Patterns) \in Nat
  BY <1>1
<1>4. \A n \in 1..Len(Redact!Patterns) : Redact!Patterns[n] \in Redact!Pattern
  BY <1>1
<1>. HIDE DEF Redact!Patterns
<1>. QED  BY <1>1, <1>2, <1>3, <1>4 DEF Range, Redact!Pattern, Matched

\* A match begins at a word or a number.
LEMMA Beginning ==
  ASSUME NEW p \in Redact!Pattern, NEW s, NEW i, Redact!Begins(p, s, i)
  PROVE  p.valid /\ s[i] \in p.hits /\ s[i] \in Matched /\ s[i] \notin Redact!Structure \cup Redact!Other
BY PatternsAre DEF Redact!Begins

\* A pattern leaves a text as long as it was, and changes what it covers.
LEMMA Replaced ==
  ASSUME NEW p, NEW s \in Text
  PROVE  /\ Redact!ReplaceAllString(p, s) \in Text
         /\ Len(Redact!ReplaceAllString(p, s)) = Len(s)
         /\ \A j \in 1..Len(s) :
              LET t == Redact!ReplaceAllString(p, s) IN
              /\ \/ t[j] \in {s[j], "marker", "gone"}
                 \/ t[j] = "bare" /\ s[j] \in Bare /\ Redact!Begins(p, s, j)
                 \/ t[j] = "cut" /\ Redact!Cuts(p, s, j)
              /\ t[j] # s[j] => (\E i \in 1..j : Redact!Covers(p, s, i, j)) \/ Redact!Cuts(p, s, j)
              /\ Redact!Begins(p, s, j) => t[j] \in {"marker", "gone", "bare"}
              /\ (\E i \in 1 .. j - 1 : Redact!Covers(p, s, i, j)) => t[j] = "gone"
<1>. DEFINE t == Redact!ReplaceAllString(p, s)
            After(j) == \E i \in 1 .. j - 1 : Redact!Covers(p, s, i, j)
            mark(j) == IF s[j] \in Bare THEN "bare" ELSE "marker"
<1>1. t = [j \in 1..Len(s) |->
             IF After(j) THEN "gone"
             ELSE IF Redact!Begins(p, s, j) THEN mark(j)
             ELSE IF Redact!Cuts(p, s, j) THEN "cut" ELSE s[j]]
  BY DEF Redact!ReplaceAllString, Text
<1>. HIDE DEF t, After
<1>2. \A j \in 1..Len(s) : s[j] \in Tokens /\ j \in Nat
  BY DEF Text
<1>3. ASSUME NEW j \in 1..Len(s)
      PROVE  /\ t[j] \in Tokens
             /\ \/ t[j] \in {s[j], "marker", "gone"}
                \/ t[j] = "bare" /\ s[j] \in Bare /\ Redact!Begins(p, s, j)
                \/ t[j] = "cut" /\ Redact!Cuts(p, s, j)
             /\ t[j] # s[j] => (\E i \in 1..j : Redact!Covers(p, s, i, j)) \/ Redact!Cuts(p, s, j)
             /\ Redact!Begins(p, s, j) => t[j] \in {"marker", "gone", "bare"}
             /\ After(j) => t[j] = "gone"
  <2>1. t[j] = IF After(j) THEN "gone"
               ELSE IF Redact!Begins(p, s, j) THEN mark(j)
               ELSE IF Redact!Cuts(p, s, j) THEN "cut" ELSE s[j]
    BY <1>1
  <2>2. s[j] \in Tokens /\ mark(j) \in {"marker", "bare"}
        /\ {"gone", "marker", "bare", "cut"} \subseteq Tokens
    BY <1>2 DEF Tokens, Redact!Other
  <2>3. After(j) => \E i \in 1..j : Redact!Covers(p, s, i, j)
    <3>1. 1 .. j - 1 \subseteq 1..j
      BY <1>2
    <3>. QED  BY <3>1 DEF After
  <2>4. Redact!Begins(p, s, j) => \E i \in 1..j : Redact!Covers(p, s, i, j)
    <3>1. j \in 1..j /\ j <= j /\ ~(j < j)
      BY <1>2
    <3>. QED  BY <3>1 DEF Redact!Covers
  <2>5. CASE After(j)
    BY <2>1, <2>2, <2>3, <2>5
  <2>6. CASE ~After(j) /\ Redact!Begins(p, s, j)
    BY <2>1, <2>2, <2>4, <2>6
  <2>7. CASE ~After(j) /\ ~Redact!Begins(p, s, j)
    BY <2>1, <2>2, <2>7
  <2>. QED  BY <2>5, <2>6, <2>7
<1>4. t \in [1..Len(s) -> Tokens] /\ Len(s) \in Nat
  BY <1>1, <1>3 DEF Text
<1>5. t \in Text /\ Len(t) = Len(s)
  BY <1>4 DEF Text
<1>. QED  BY <1>3, <1>5 DEF t, After

\* A match that begins in what one pattern left began there before.
LEMMA BegunBefore ==
  ASSUME NEW p \in Redact!Pattern, NEW q \in Redact!Pattern, NEW s \in Text,
         NEW j \in 1..Len(s),
         Redact!Begins(q, Redact!ReplaceAllString(p, s), j)
  PROVE  Redact!Begins(q, s, j) /\ Redact!ReplaceAllString(p, s)[j] = s[j]
<1>. DEFINE t == Redact!ReplaceAllString(p, s)
<1>0. j \in Nat /\ Len(s) \in Nat
  BY DEF Text
<1>1. q.valid /\ t[j] \in q.hits /\ t[j] \in Matched /\ t[j] \notin Redact!Structure \cup Redact!Other
  BY Beginning
<1>2. /\ t[j] = s[j] /\ ~Redact!Begins(p, s, j)
      /\ ~\E i \in 1 .. j - 1 : Redact!Covers(p, s, i, j)
  BY <1>1, Replaced DEF Redact!Other
<1>3. q.escaped = "missed" /\ j > 1 => t[j - 1] # "esc"
  BY DEF Redact!Begins
<1>4. ASSUME j > 1, s[j - 1] = "esc" PROVE t[j - 1] = "esc"
  <2>1. j - 1 \in 1..Len(s) /\ (j - 1) + 1 = j
    BY <1>0, <1>4
  <2>2. SUFFICES ASSUME t[j - 1] # s[j - 1] PROVE FALSE
    BY <1>4
  <2>3. ~Redact!Cuts(p, s, j - 1)
    BY <1>2, <2>1 DEF Redact!Cuts
  <2>4. PICK i \in 1 .. j - 1 : Redact!Covers(p, s, i, j - 1)
    BY <2>1, <2>2, <2>3, Replaced
  <2>5. Redact!Begins(p, s, i) /\ s[i] # "esc"
    BY <2>4, Beginning DEF Redact!Covers, Redact!Other
  <2>6. i < j - 1
    BY <1>0, <1>4, <2>5
  <2>7. p.greedy /\ \A k \in i .. j - 1 : s[k] # "sp"
    BY <2>4, <2>6 DEF Redact!Covers
  <2>8. \A k \in i..j : s[k] # "sp"
    <3>1. \A k \in i..j : k \in i .. j - 1 \/ k = j
      BY <1>0
    <3>. QED  BY <1>1, <1>2, <2>7, <3>1 DEF Redact!Other
  <2>9. Redact!Covers(p, s, i, j)
    BY <1>0, <2>5, <2>7, <2>8 DEF Redact!Covers
  <2>. QED  BY <1>2, <2>9
<1>. QED  BY <1>1, <1>2, <1>3, <1>4 DEF Redact!Begins

LEMMA Scrubs ==
  ASSUME NEW s \in Text
  PROVE  \E f \in [0..Len(Redact!Patterns) -> Text] :
           /\ f[0] = s
           /\ \A n \in 1..Len(Redact!Patterns) :
                f[n] = Redact!ReplaceAllString(Redact!Patterns[n], f[n - 1])
           /\ Redact!scrub(s) = f[Len(Redact!Patterns)]
<1>. DEFINE P == Redact!Patterns
            R(p, t) == Redact!ReplaceAllString(p, t)
            N == Len(P)
            Is(f) == f = [n \in 0..N |-> IF n = 0 THEN s ELSE R(P[n], f[n - 1])]
            f == CHOOSE g : Is(g)
<1>1. Redact!scrub(s) = f[N]
  BY DEF Redact!scrub
<1>2. N \in Nat
  BY PatternsAre
<1>. HIDE DEF P, N
<1>3. Is(f)
  <2>. DEFINE step == [x \in (1..N) \X Text |-> R(P[x[1]], x[2])]
  <2>1. \A p, t : t \in Text => R(p, t) \in Text
    BY Replaced
  <2>. HIDE DEF R
  <2>2. step \in [(1..N) \X Text -> Text]
    BY <2>1
  <2>3. \A n \in 1..N : \A t \in Text : step[<<n, t>>] = R(P[n], t)
    OBVIOUS
  <2>. HIDE DEF step, Is, f
  <2>4. PICK g : Iterated(g, N, Text, s, step)
    <3>1. s \in Text
      OBVIOUS
    <3>. QED  BY ONLY <1>2, <2>2, <3>1, Iterates, Zenon
  <2>5. \A n \in 0..N : g[n] = IF n = 0 THEN s ELSE R(P[n], g[n - 1])
    <3>1. \A n \in 0..N : n # 0 => n \in 1..N /\ n - 1 \in 0..N
      BY <1>2
    <3>. QED  BY <2>3, <2>4, <3>1 DEF Iterated
  <2>6. Is(g)
    BY <2>4, <2>5 DEF Is, Iterated
  <2>. QED  BY <2>6 DEF f
<1>4. \A n \in 0..N : f[n] = IF n = 0 THEN s ELSE R(P[n], f[n - 1])
  BY <1>3
<1>5. f = [n \in 0..N |-> f[n]]
  BY <1>3
<1>. HIDE DEF f
<1>6. f[0] = s /\ \A n \in 1..N : f[n] = R(P[n], f[n - 1])
  BY <1>2, <1>4
<1>7. f \in [0..N -> Text]
  <2>. DEFINE I == {n \in 0..N : f[n] \in Text}
  <2>1. 0 \in I
    BY <1>2, <1>6
  <2>2. ASSUME NEW n \in 0..N, n \in I, n + 1 \in 0..N PROVE n + 1 \in I
    <3>1. n + 1 \in 1..N /\ (n + 1) - 1 = n
      BY <1>2, <2>2
    <3>2. f[n + 1] = R(P[n + 1], f[n]) /\ f[n] \in Text
      BY <1>6, <2>2, <3>1
    <3>3. f[n + 1] \in Text
      BY <3>2, Replaced
    <3>. QED  BY <2>2, <3>3
  <2>3. \A n \in 0..N : n \in I
    <3>. HIDE DEF I
    <3>. QED  BY <1>2, <2>1, <2>2, Reached
  <2>. QED  BY <1>5, <2>3
<1>. QED  BY <1>1, <1>6, <1>7 DEF P, N

\* A pattern matches nowhere in a text.
Clean(q, t) == \A j \in 1..Len(t) : ~Redact!Begins(q, t, j)

LEMMA CleanIsLeft ==
  ASSUME NEW q, NEW t \in Text, Clean(q, t)
  PROVE  Redact!ReplaceAllString(q, t) = t
<1>1. Redact!ReplaceAllString(q, t) \in Text /\ Len(Redact!ReplaceAllString(q, t)) = Len(t)
  BY Replaced
<1>2. ASSUME NEW j \in 1..Len(t) PROVE Redact!ReplaceAllString(q, t)[j] = t[j]
  <2>0. j \in Nat /\ Len(t) \in Nat
    BY DEF Text
  <2>1. ASSUME NEW i \in 1..j, Redact!Covers(q, t, i, j) PROVE FALSE
    <3>1. i \in 1..Len(t)
      BY <2>0
    <3>. QED  BY <2>1, <3>1 DEF Clean, Redact!Covers
  <2>2. ASSUME Redact!Cuts(q, t, j) PROVE FALSE
    <3>1. j + 1 \in 1..Len(t) /\ Redact!Begins(q, t, j + 1)
      BY <2>0, <2>2 DEF Redact!Cuts
    <3>. QED  BY <3>1 DEF Clean
  <2>. QED  BY <2>1, <2>2, Replaced
<1>. QED  BY <1>1, <1>2 DEF Text

LEMMA Cleaned ==
  ASSUME NEW p \in Redact!Pattern, NEW q \in Redact!Pattern, NEW s \in Text,
         Clean(q, s) \/ p = q
  PROVE  Clean(q, Redact!ReplaceAllString(p, s))
<1>. DEFINE t == Redact!ReplaceAllString(p, s)
<1>1. Len(t) = Len(s)
  BY Replaced
<1>2. ASSUME NEW j \in 1..Len(s), Redact!Begins(q, t, j) PROVE FALSE
  <2>1. Redact!Begins(q, s, j) /\ t[j] = s[j]
    BY <1>2, BegunBefore
  <2>2. p = q
    BY <2>1 DEF Clean
  <2>3. t[j] \in {"marker", "gone", "bare"}
    BY <2>1, <2>2, Replaced
  <2>4. s[j] \notin Redact!Other
    BY <2>1, Beginning
  <2>. HIDE DEF t
  <2>. QED  BY <2>1, <2>3, <2>4 DEF Redact!Other
<1>. HIDE DEF t
<1>3. Clean(q, t)
  BY <1>1, <1>2 DEF Clean
<1>. QED  BY <1>3 DEF t

\* No pattern is left to match once all of them have been applied.
LEMMA NothingMatches ==
  ASSUME NEW s \in Text, NEW q \in Range(Redact!Patterns)
  PROVE  Redact!ReplaceAllString(q, Redact!scrub(s)) = Redact!scrub(s)
<1>. DEFINE P == Redact!Patterns
            N == Len(P)
            R(p, t) == Redact!ReplaceAllString(p, t)
<1>1. PICK f \in [0..N -> Text] : /\ \A n \in 1..N : f[n] = R(P[n], f[n - 1])
                                  /\ Redact!scrub(s) = f[N]
  BY Scrubs
<1>2. N \in Nat /\ q \in Redact!Pattern /\ \A n \in 1..N : P[n] \in Redact!Pattern
  BY PatternsAre
<1>3. PICK m \in 1..N : q = P[m]
  BY PatternsAre
<1>. HIDE DEF P, N, R
<1>. DEFINE I == {n \in 0..N : n >= m => Clean(q, f[n])}
<1>4. 0 \in I
  BY <1>2
<1>5. ASSUME NEW n \in 0..N, n \in I, n + 1 \in 0..N PROVE n + 1 \in I
  <2>1. n + 1 \in 1..N /\ (n + 1) - 1 = n /\ n \in Nat
    BY <1>2, <1>5
  <2>2. f[n + 1] = R(P[n + 1], f[n]) /\ f[n] \in Text
    BY <1>1, <2>1
  <2>3. CASE n + 1 = m
    <3>1. Clean(q, f[n + 1])
      BY <1>2, <1>3, <2>1, <2>2, <2>3, Cleaned DEF R
    <3>. QED  BY <1>5, <3>1
  <2>4. CASE n + 1 # m
    <3>1. n + 1 >= m => n >= m
      BY <1>2, <2>1, <2>4
    <3>2. n + 1 >= m => Clean(q, f[n + 1])
      BY <1>2, <1>5, <2>1, <2>2, <3>1, Cleaned DEF R
    <3>. QED  BY <1>5, <3>2
  <2>. QED  BY <2>3, <2>4
<1>6. N \in 0..N /\ N \in I
  <2>1. N \in 0..N
    BY <1>2
  <2>2. \A n \in 0..N : n \in I
    <3>. HIDE DEF I
    <3>. QED  BY <1>2, <1>4, <1>5, Reached
  <2>. QED  BY <2>1, <2>2
<1>7. Clean(q, f[N]) /\ f[N] \in Text
  BY <1>1, <1>2, <1>6
<1>. QED  BY <1>1, <1>7, CleanIsLeft

\* A match takes more than text out of the raw JSON.
Broken(raw) ==
  \E i \in DOMAIN raw : \E p \in Range(Redact!Patterns) : Redact!BreaksOut(p, raw, i)

\* What is left of a text, with its structure and its blanks; in what is left no
\* match begins that did not begin in the text.
LeftOf(t, s) ==
  /\ Len(t) = Len(s)
  /\ \A j \in 1..Len(s) :
       /\ t[j] \in {s[j], "marker", "gone"}
       /\ s[j] \in Redact!Structure \cup {"sp"} => t[j] = s[j]
       /\ \A q \in Redact!Pattern : Redact!Begins(q, t, j) => Redact!Begins(q, s, j)

\* A pattern that reaches a token of the structure reaches the end of a value.
LEMMA StructureKept ==
  ASSUME NEW s \in Text, NEW t \in Text, NEW p \in Range(Redact!Patterns),
         Redact!WellFormed(s), ~Broken(s), LeftOf(t, s)
  PROVE  LeftOf(Redact!ReplaceAllString(p, t), s)
<1>. DEFINE u == Redact!ReplaceAllString(p, t)
<1>1. /\ Len(s) \in Nat /\ Len(t) = Len(s) /\ DOMAIN s = 1..Len(s) /\ p \in Redact!Pattern
      /\ \A j \in 1..Len(s) : ~Redact!BreaksOut(p, s, j)
  BY PatternsAre DEF Text, LeftOf, Broken
<1>2. /\ Len(u) = Len(s)
      /\ \A j \in 1..Len(s) :
           /\ \/ u[j] \in {t[j], "marker", "gone"}
              \/ u[j] = "bare" /\ t[j] \in Bare /\ Redact!Begins(p, t, j)
              \/ u[j] = "cut" /\ Redact!Cuts(p, t, j)
           /\ u[j] # t[j] => (\E i \in 1..j : Redact!Covers(p, t, i, j)) \/ Redact!Cuts(p, t, j)
  BY <1>1, Replaced
<1>3. \A j \in 1..Len(s) : \A q \in Redact!Pattern : Redact!Begins(q, u, j) => Redact!Begins(q, t, j)
  BY <1>1, BegunBefore
<1>. HIDE DEF u
\* Where a match begins in what is left, it began, and the words are the same.
<1>4. ASSUME NEW j \in 1..Len(s), Redact!Begins(p, t, j)
      PROVE  Redact!Begins(p, s, j) /\ t[j] = s[j] /\ s[j] \notin Redact!Structure \cup Redact!Other
  <2>1. Redact!Begins(p, s, j) /\ t[j] \in {s[j], "marker", "gone"}
    BY <1>1, <1>4 DEF LeftOf
  <2>2. t[j] \notin Redact!Other
    BY <1>1, <1>4, Beginning
  <2>3. s[j] \notin Redact!Structure \cup Redact!Other
    BY <1>1, <2>1, Beginning
  <2>. QED  BY <2>1, <2>2, <2>3 DEF Redact!Other
<1>5. ASSUME NEW j \in 1..Len(s) PROVE u[j] # "bare" \/ u[j] = t[j]
  <2>. SUFFICES ASSUME t[j] \in Bare, Redact!Begins(p, t, j) PROVE FALSE
    BY <1>2
  <2>1. Redact!Begins(p, s, j) /\ s[j] \in Bare
    BY <1>4
  <2>. QED  BY <1>1, <2>1 DEF Redact!BreaksOut
<1>6. ASSUME NEW j \in 1..Len(s) PROVE ~Redact!Cuts(p, t, j)
  <2>. SUFFICES ASSUME Redact!Cuts(p, t, j) PROVE FALSE
    OBVIOUS
  <2>1. /\ t[j] = "esc" /\ p.escaped = "taken" /\ Redact!Begins(p, t, j + 1)
        /\ j + 1 \in 1..Len(s) /\ j + 1 > 1 /\ (j + 1) - 1 = j
    BY <1>1 DEF Redact!Cuts
  <2>2. s[j] = "esc"
    BY <2>1 DEF LeftOf
  <2>3. Redact!Begins(p, s, j + 1)
    BY <1>4, <2>1
  <2>4. Redact!BreaksOut(p, s, j + 1)
    BY <2>1, <2>2, <2>3 DEF Redact!BreaksOut
  <2>. QED  BY <1>1, <2>1, <2>4
<1>7. ASSUME NEW j \in 1..Len(s), s[j] \in Redact!Structure \cup {"sp"}, u[j] # t[j]
      PROVE  FALSE
  <2>1. PICK i \in 1..j : Redact!Covers(p, t, i, j)
    BY <1>2, <1>6, <1>7
  <2>2. i \in 1..Len(s) /\ i \in Nat /\ j \in Nat
    BY <1>1
  <2>3. Redact!Begins(p, s, i) /\ s[i] = t[i] /\ s[i] \notin Redact!Structure \cup Redact!Other
    BY <1>4, <2>1, <2>2 DEF Redact!Covers
  <2>4. s[i] \notin Redact!Structure \cup {"sp"}
    BY <2>3 DEF Redact!Other
  <2>5. i < j
    BY <1>7, <2>2, <2>4
  <2>6. p.greedy /\ \A k \in i..j : t[k] # "sp"
    BY <2>1, <2>5 DEF Redact!Covers
  <2>7. \A k \in i..j : k \in 1..Len(s) /\ s[k] # "sp"
    <3>1. \A k \in i..j : k \in 1..Len(s)
      BY <1>1, <2>2
    <3>. QED  BY <2>6, <3>1 DEF LeftOf
  <2>8. ASSUME NEW k \in 1..Len(s), i < k, k <= j, s[k] \in {"close", "endvalue"} PROVE FALSE
    <3>1. \A l \in i..k : l \in i..j
      BY <2>2, <2>8
    <3>2. \A l \in i..k : s[l] # "sp"
      BY <2>7, <3>1
    <3>3. Redact!BreaksOut(p, s, i)
      BY <1>1, <2>3, <2>6, <2>8, <3>2 DEF Redact!BreaksOut
    <3>. QED  BY <1>1, <2>2, <3>3
  <2>9. j \in i..j /\ s[j] \in Redact!Structure
    <3>1. j \in i..j
      BY <2>2, <2>5
    <3>. QED  BY <1>7, <2>7, <3>1
  <2>10. CASE s[j] \in {"close", "endvalue"}
    BY <2>2, <2>5, <2>8, <2>10
  <2>11. CASE s[j] = "open"
    <3>1. j = 1
      BY <1>1, <2>11 DEF Redact!WellFormed
    <3>. QED  BY <2>2, <2>5, <3>1
  <2>12. CASE s[j] = "nextvalue"
    <3>1. s[j - 1] = "endvalue" \/ s[j - 1] = "sp"
      BY <1>1, <2>12 DEF Redact!WellFormed
    <3>2. j - 1 \in i..j /\ j - 1 \in 1..Len(s) /\ j - 1 <= j
      BY <2>2, <2>5, <1>1
    <3>3. s[j - 1] = "endvalue"
      BY <2>7, <3>1, <3>2
    <3>4. j - 1 # i
      BY <2>4, <3>3 DEF Redact!Structure
    <3>5. i < j - 1
      BY <2>2, <2>5, <3>4
    <3>. QED  BY <2>8, <3>2, <3>3, <3>5
  <2>. QED  BY <2>9, <2>10, <2>11, <2>12 DEF Redact!Structure
<1>8. ASSUME NEW j \in 1..Len(s)
      PROVE  /\ u[j] \in {s[j], "marker", "gone"}
             /\ s[j] \in Redact!Structure \cup {"sp"} => u[j] = s[j]
             /\ \A q \in Redact!Pattern : Redact!Begins(q, u, j) => Redact!Begins(q, s, j)
  <2>1. u[j] \in {t[j], "marker", "gone"}
    BY <1>2, <1>5, <1>6
  <2>2. /\ t[j] \in {s[j], "marker", "gone"}
        /\ s[j] \in Redact!Structure \cup {"sp"} => t[j] = s[j]
        /\ \A q \in Redact!Pattern : Redact!Begins(q, t, j) => Redact!Begins(q, s, j)
    BY DEF LeftOf
  <2>. QED  BY <1>3, <1>7, <2>1, <2>2
<1>. QED  BY <1>2, <1>8 DEF LeftOf, u

LEMMA NextIn ==
  ASSUME NEW s \in Text, NEW i \in 1..Len(s), i # Len(s)
  PROVE  i + 1 \in 1..Len(s)
<1>. DEFINE n == Len(s)
<1>1. n \in Nat /\ i \in 1..n /\ i # n
  BY DEF Text
<1>. HIDE DEF n
<1>2. i + 1 \in 1..n
  BY <1>1
<1>. QED  BY <1>2 DEF n

LEMMA StillWellFormed ==
  ASSUME NEW s \in Text, NEW t \in Text, Redact!WellFormed(s), LeftOf(t, s)
  PROVE  Redact!WellFormed(t)
<1>1. /\ Len(s) \in Nat /\ Len(t) = Len(s)
      /\ DOMAIN s = 1..Len(s) /\ DOMAIN t = 1..Len(s)
  BY DEF Text, LeftOf
<1>2. /\ \A i \in 1..Len(s) : s[i] = "open" <=> i = 1
      /\ s # <<>> /\ s[Len(s)] = "close"
      /\ \A i \in 1..Len(s) :
           /\ s[i] \notin {"bare", "cut"}
           /\ s[i] = "endvalue" =>
                s[i + 1] = "nextvalue" \/ (s[i + 1] = "sp" /\ s[i + 2] = "nextvalue")
           /\ s[i] = "nextvalue" =>
                s[i - 1] = "endvalue" \/ (s[i - 1] = "sp" /\ s[i - 2] = "endvalue")
  BY <1>1 DEF Redact!WellFormed, Redact!Last
<1>3. Len(s) # 0 /\ 1 \in 1..Len(s) /\ Len(s) \in 1..Len(s)
  BY <1>1, <1>2 DEF Text
<1>4. \A j \in 1..Len(s) : \A x \in Redact!Structure \cup {"sp"} : t[j] = x <=> s[j] = x
  BY DEF LeftOf, Redact!Structure
<1>5. \A i \in 1..Len(s) : t[i] = "open" <=> i = 1
  BY <1>2, <1>4 DEF Redact!Structure
<1>6. t # <<>> /\ t[Len(t)] = "close"
  BY <1>1, <1>2, <1>3, <1>4 DEF Redact!Structure
<1>7. ASSUME NEW i \in 1..Len(s), t[i] = "endvalue"
      PROVE  t[i + 1] = "nextvalue" \/ (t[i + 1] = "sp" /\ t[i + 2] = "nextvalue")
  <2>1. s[i] = "endvalue"
    BY <1>4, <1>7 DEF Redact!Structure
  <2>2. i # Len(s)
    BY <1>2, <2>1
  <2>3. i + 1 \in 1..Len(s)
    BY <2>2, NextIn
  <2>4. CASE s[i + 1] = "nextvalue"
    BY <1>4, <2>3, <2>4 DEF Redact!Structure
  <2>5. CASE s[i + 1] = "sp" /\ s[i + 2] = "nextvalue"
    <3>1. i + 1 # Len(s)
      BY <1>2, <2>5
    <3>2. i + 2 \in 1..Len(s)
      <4>1. (i + 1) + 1 \in 1..Len(s)
        BY <2>3, <3>1, NextIn
      <4>. QED  BY <4>1
    <3>. QED  BY <1>4, <2>3, <2>5, <3>2 DEF Redact!Structure
  <2>. QED  BY <1>2, <2>1, <2>4, <2>5
<1>8. ASSUME NEW i \in 1..Len(s), t[i] = "nextvalue"
      PROVE  t[i - 1] = "endvalue" \/ (t[i - 1] = "sp" /\ t[i - 2] = "endvalue")
  <2>1. s[i] = "nextvalue"
    BY <1>4, <1>8 DEF Redact!Structure
  <2>2. i # 1
    BY <1>2, <2>1
  <2>3. i - 1 \in 1..Len(s)
    BY <1>1, <2>2
  <2>4. CASE s[i - 1] = "endvalue"
    BY <1>4, <2>3, <2>4 DEF Redact!Structure
  <2>5. CASE s[i - 1] = "sp" /\ s[i - 2] = "endvalue"
    <3>1. i - 1 # 1
      BY <1>2, <2>3, <2>5
    <3>2. i - 2 \in 1..Len(s)
      BY <1>1, <2>3, <3>1
    <3>. QED  BY <1>4, <2>3, <2>5, <3>2 DEF Redact!Structure
  <2>. QED  BY <1>2, <2>1, <2>4, <2>5
<1>9. \A i \in 1..Len(s) : t[i] \notin {"bare", "cut"}
  BY <1>2 DEF LeftOf
<1>. QED  BY <1>1, <1>5, <1>6, <1>7, <1>8, <1>9 DEF Redact!WellFormed, Redact!Last

\* An object that no match breaks keeps its form.
LEMMA ScrubKeepsStructure ==
  ASSUME NEW s \in Text, Redact!WellFormed(s), ~Broken(s)
  PROVE  Redact!WellFormed(Redact!scrub(s))
<1>. DEFINE P == Redact!Patterns
            N == Len(P)
<1>1. PICK f \in [0..N -> Text] :
        /\ f[0] = s
        /\ \A n \in 1..N : f[n] = Redact!ReplaceAllString(P[n], f[n - 1])
        /\ Redact!scrub(s) = f[N]
  BY Scrubs
<1>2. N \in Nat /\ \A n \in 1..N : P[n] \in Range(P)
  BY PatternsAre
<1>. DEFINE I == {n \in 0..N : LeftOf(f[n], s)}
<1>3. 0 \in I
  <2>1. LeftOf(s, s)
    BY DEF LeftOf
  <2>. QED  BY <1>1, <1>2, <2>1
<1>4. ASSUME NEW n \in 0..N, n \in I, n + 1 \in 0..N PROVE n + 1 \in I
  <2>1. n + 1 \in 1..N /\ (n + 1) - 1 = n
    BY <1>2, <1>4
  <2>2. f[n + 1] = Redact!ReplaceAllString(P[n + 1], f[n]) /\ f[n] \in Text
    BY <1>1, <2>1
  <2>3. LeftOf(f[n + 1], s)
    BY <1>2, <1>4, <2>1, <2>2, StructureKept
  <2>. QED  BY <1>4, <2>3
<1>5. N \in 0..N
  BY <1>2
<1>6. N \in I
  <2>1. \A n \in 0..N : n \in I
    <3>. HIDE DEF I
    <3>. QED  BY <1>2, <1>3, <1>4, Reached
  <2>. QED  BY <1>5, <2>1
<1>. QED  BY <1>1, <1>5, <1>6, StillWellFormed

\* What an application sends are texts.
LEMMA TextsAre ==
  /\ Redact!RawTexts \subseteq Text /\ Redact!RawObjects \subseteq Text
  /\ \A e \in Redact!RawEvents :
       /\ e.content \in Text /\ e.error_msg \in Text /\ e.label \in Text
       /\ e.arguments = None \/ e.arguments \in Text
<1>1. ASSUME NEW ws \in Redact!BoundedSeq(Words, MaxWords), NEW apart \in {"sp", "esc"}
      PROVE  Redact!Joined(ws, apart) \in Text
  <2>1. PICK m \in Nat : ws \in [1..m -> Words]
    BY RedactOk DEF Redact!BoundedSeq, Redact!SeqOf, Redact!RedactionAssumption
  <2>2. Len(ws) = m
    BY <2>1
  <2>3. Redact!Joined(ws, apart) = [i \in 1 .. 2 * m - 1 |-> IF i % 2 = 1 THEN ws[(i + 1) \div 2] ELSE apart]
    BY <2>2 DEF Redact!Joined
  <2>4. ASSUME NEW i \in 1 .. 2 * m - 1 PROVE (i + 1) \div 2 \in 1..m
    BY <2>1
  <2>5. ASSUME NEW i \in 1 .. 2 * m - 1
        PROVE  (IF i % 2 = 1 THEN ws[(i + 1) \div 2] ELSE apart) \in Tokens
    BY <2>1, <2>4 DEF Tokens, Matched, Redact!Other
  <2>6. Redact!Joined(ws, apart) \in [1 .. 2 * m - 1 -> Tokens]
    BY <2>3, <2>5
  <2>7. CASE m = 0
    <3>1. 1 .. 2 * m - 1 = 1..0
      BY <2>7
    <3>. QED  BY <2>6, <3>1 DEF Text
  <2>8. CASE m # 0
    <3>1. 2 * m - 1 \in Nat
      BY <2>1, <2>8
    <3>. QED  BY <2>6, <3>1 DEF Text
  <2>. QED  BY <2>7, <2>8
<1>2. Redact!RawTexts \subseteq Text
  BY <1>1 DEF Redact!RawTexts
<1>3. Redact!Values \subseteq Text
  <2>1. \A n \in Bare : <<n>> \in Text
    BY DEF Text, Tokens, Matched
  <2>. QED  BY <1>1, <2>1 DEF Redact!Values
<1>4. /\ <<"open">> \in Text /\ <<"close">> \in Text /\ <<>> \in Text
      /\ \A w \in Words : <<w>> \in Text
      /\ \A c \in Redact!Commas : c \in Text
  BY DEF Text, Tokens, Matched, Redact!Other, Redact!Structure, Redact!Commas
<1>5. \A s, t \in Text : s \o t \in Text
  BY DEF Text
<1>6. Redact!RawObjects \subseteq Text
  <2>. DEFINE One(v) == <<"open">> \o v \o <<"close">>
              Two(v, c, w) == <<"open">> \o v \o c \o w \o <<"close">>
  <2>1. \A v, w \in Redact!Values : \A c \in Redact!Commas : One(v) \in Text /\ Two(v, c, w) \in Text
    BY <1>3, <1>4, <1>5
  <2>2. Redact!RawObjects = {One(v) : v \in Redact!Values}
          \cup {Two(v, c, w) : v \in Redact!Values, c \in Redact!Commas, w \in Redact!Values}
    BY DEF Redact!RawObjects
  <2>. HIDE DEF One, Two
  <2>. SUFFICES ASSUME NEW x \in Redact!RawObjects PROVE x \in Text
    OBVIOUS
  <2>3. CASE x \in {One(v) : v \in Redact!Values}
    <3>1. PICK v \in Redact!Values : x = One(v)
      BY <2>3
    <3>2. PICK c \in Redact!Commas : TRUE
      BY DEF Redact!Commas
    <3>. QED  BY <2>1, <3>1, <3>2
  <2>4. CASE x \in {Two(v, c, w) : v \in Redact!Values, c \in Redact!Commas, w \in Redact!Values}
    <3>1. PICK v \in Redact!Values, c \in Redact!Commas, w \in Redact!Values : x = Two(v, c, w)
      BY <2>4
    <3>. QED  BY <2>1, <3>1
  <2>5. x \in {One(v) : v \in Redact!Values}
          \/ x \in {Two(v, c, w) : v \in Redact!Values, c \in Redact!Commas, w \in Redact!Values}
    BY <2>2
  <2>. QED  BY <2>3, <2>4, <2>5
<1>7. ASSUME NEW e \in Redact!RawEvents
      PROVE  /\ e.content \in Text /\ e.error_msg \in Text /\ e.label \in Text
             /\ e.arguments = None \/ e.arguments \in Text
  <2>1. CASE e \in [content : Redact!RawTexts, arguments : {None}, error_msg : {<<>>},
                    label : {<<>>} \cup {<<w>> : w \in Words}]
    BY <1>2, <1>4, <2>1
  <2>2. CASE e \in [content : {<<>>}, arguments : Redact!RawObjects, label : {<<>>},
                    error_msg : {<<>>} \cup {<<w>> : w \in Words}]
    BY <1>2, <1>4, <1>6, <2>2
  <2>. QED  BY <2>1, <2>2 DEF Redact!RawEvents
<1>. QED  BY <1>2, <1>6, <1>7

-----------------------------------------------------------------------------
(***************************************************************************)
(* What the handler has made of the event, and what is stored.             *)
(***************************************************************************)
Scrubbed ==
  /\ now.content = Redact!scrub(event.content) /\ now.error_msg = Redact!scrub(event.error_msg)
  /\ now.arguments = IF event.arguments = None THEN None ELSE Redact!scrub(event.arguments)

ScrubInv ==
  IF subject = "redact"
  THEN /\ event.arguments # None => Redact!WellFormed(event.arguments)
       /\ phase # "verified" => Scrubbed
       /\ line # None => phase # "verified" /\ line = now
       /\ phase = "store_error" => now.arguments # None /\ ~Redact!WellFormed(now.arguments)
  ELSE phase = "verified" /\ line = None

LEMMA RedactScrubs ==
  ASSUME DOMAIN event = Fields, event \in Redact!RawEvents, now = event, Redact!Redact
  PROVE  Scrubbed' /\ event' = event /\ line' = line /\ phase' = "redacted"
<1>. DEFINE args == IF event.arguments = None THEN None ELSE Redact!scrub(event.arguments)
<1>1. /\ now' = [event EXCEPT !.content = Redact!scrub(@), !.error_msg = Redact!scrub(@),
                              !.arguments = args]
      /\ event' = event /\ line' = line /\ phase' = "redacted"
  BY Zenon DEF Redact!Redact
<1>. HIDE DEF args
<1>2. event = [f \in Fields |-> event[f]]
  BY DEF Redact!RawEvents, Fields
<1>3. /\ now'.content = Redact!scrub(event.content)
      /\ now'.error_msg = Redact!scrub(event.error_msg)
      /\ now'.arguments = args
  BY <1>1, <1>2 DEF Fields
<1>. QED  BY <1>1, <1>3 DEF Scrubbed, args

LEMMA ScrubInvariant == AllSpec => []ScrubInv
<1>1. AllInit => ScrubInv
  <2>. SUFFICES ASSUME AllInit PROVE ScrubInv
    OBVIOUS
  <2>1. CASE subject = "redact"
    <3>1. Redact!Init
      BY <2>1 DEF AllInit
    <3>. QED  BY <2>1, <3>1 DEF Redact!Init, ScrubInv
  <2>2. CASE subject # "redact"
    BY <2>2 DEF AllInit, NoRedact, ScrubInv
  <2>. QED  BY <2>1, <2>2
<1>2. ListInv /\ ScrubInv /\ [QueueMoves \/ CodecMoves \/ RedactMoves]_allVars => ScrubInv'
  <2>. SUFFICES ASSUME ListInv, ScrubInv, [QueueMoves \/ CodecMoves \/ RedactMoves]_allVars
                PROVE  ScrubInv'
    OBVIOUS
  <2>1. subject' = subject
    BY DEF QueueMoves, OfQueue, CodecMoves, RedactMoves, allVars
  <2>2. CASE UNCHANGED redactVars
    <3>1. UNCHANGED <<event, now, redacted, phase, line>>
      BY <2>2 DEF redactVars
    <3>. QED  BY <2>1, <3>1 DEF ScrubInv, Scrubbed
  <2>3. CASE RedactMoves
    <3>1. subject = "redact" /\ Redact!Next
      BY <2>3 DEF RedactMoves
    <3>2. CASE Redact!Redact
      <4>1. phase = "verified" /\ line = None
        BY <3>1, <3>2 DEF Redact!Redact, ScrubInv
      <4>2. Scrubbed' /\ event' = event /\ line' = line /\ phase' = "redacted"
        BY <3>1, <3>2, <4>1, RedactScrubs DEF ListInv
      <4>. QED  BY <2>1, <3>1, <4>1, <4>2 DEF ScrubInv
    <3>3. CASE Redact!Persist
      <4>1. phase = "redacted" /\ UNCHANGED <<event, now>>
        BY <3>3 DEF Redact!Persist
      <4>2. \/ phase' = "stored" /\ line' = now
            \/ /\ now.arguments # None /\ ~Redact!WellFormed(now.arguments)
               /\ phase' = "store_error" /\ line' = line
        BY <3>3 DEF Redact!Persist
      <4>. QED  BY <2>1, <3>1, <4>1, <4>2 DEF ScrubInv, Scrubbed
    <3>4. CASE Redact!Done
      <4>1. UNCHANGED <<event, now, redacted, phase, line>>
        BY <3>4 DEF Redact!Done, Redact!vars
      <4>. QED  BY <2>1, <4>1 DEF ScrubInv, Scrubbed
    <3>. QED  BY <3>1, <3>2, <3>3, <3>4 DEF Redact!Next
  <2>. QED  BY <2>2, <2>3 DEF QueueMoves, OfQueue, CodecMoves, allVars
<1>. QED  BY <1>1, <1>2, ListInvariant, PTL DEF AllSpec

LEMMA NothingIsLeft ==
  ASSUME ListInv, ScrubInv, subject = "redact"
  PROVE  Redact!NothingLeft
<1>. SUFFICES ASSUME line # None, NEW f \in Redact!Scrubbed, line[f] # None,
                     NEW q \in Range(Redact!Patterns)
              PROVE  Redact!ReplaceAllString(q, line[f]) = line[f]
  BY DEF Redact!NothingLeft, Redact!Range, Range
<1>1. event \in Redact!RawEvents /\ Scrubbed /\ line = now
  BY DEF ListInv, ScrubInv
<1>2. PICK s \in Text : line[f] = Redact!scrub(s)
  <2>1. CASE f = "content"
    BY <1>1, <2>1, TextsAre DEF Scrubbed
  <2>2. CASE f = "error_msg"
    BY <1>1, <2>2, TextsAre DEF Scrubbed
  <2>3. CASE f = "arguments"
    BY <1>1, <2>3, TextsAre DEF Scrubbed
  <2>. QED  BY <2>1, <2>2, <2>3 DEF Redact!Scrubbed
<1>. QED  BY <1>2, NothingMatches

LEMMA LostToAMatch ==
  ASSUME ListInv, ScrubInv, subject = "redact"
  PROVE  Redact!LostToAMatchOnly
<1>. SUFFICES ASSUME phase = "store_error", ~Broken(event.arguments)
              PROVE  FALSE
  BY DEF Redact!LostToAMatchOnly, Broken, Redact!Range, Range
<1>1. /\ event \in Redact!RawEvents /\ Scrubbed
      /\ now.arguments # None /\ ~Redact!WellFormed(now.arguments)
      /\ event.arguments # None => Redact!WellFormed(event.arguments)
  BY DEF ListInv, ScrubInv
<1>2. event.arguments # None /\ now.arguments = Redact!scrub(event.arguments)
  BY <1>1 DEF Scrubbed
<1>3. event.arguments \in Text
  BY <1>1, <1>2, TextsAre
<1>. QED  BY <1>1, <1>2, <1>3, ScrubKeepsStructure

\* Whatever the patterns and the texts: nothing that a pattern matches is stored
\* in a field that is scrubbed, the fields that changed are listed, and an event
\* is lost only to a match of a number, with a letter of an escape, or through the
\* end of a value (redactor.go:83-143, pipeline.go:173-193).
THEOREM RedactionIsSound == AllSpec => []RedactionSound
<1>1. ListInv /\ ScrubInv => RedactionSound
  <2>. SUFFICES ASSUME ListInv, ScrubInv PROVE RedactionSound
    OBVIOUS
  <2>1. CASE subject = "redact"
    BY <2>1, NothingIsLeft, LostToAMatch DEF ListInv, RedactionSound
  <2>2. CASE subject # "redact"
    <3>1. phase = "verified" /\ line = None
      BY <2>2 DEF ScrubInv
    <3>. QED  BY <3>1 DEF RedactionSound, Redact!NothingLeft, Redact!LostToAMatchOnly, Redact!ListedIffChanged
  <2>. QED  BY <2>1, <2>2
<1>. QED  BY <1>1, ListInvariant, ScrubInvariant, PTL
=============================================================================
