--------------------------- MODULE Forwarder_proofs ---------------------------
(***************************************************************************)
(* Theorems about Forwarder for every set of events and sessions, every    *)
(* capacity, batch size and threshold.                                     *)
(***************************************************************************)
EXTENDS Forwarder, FiniteSetTheorems, SequenceTheorems, TLAPS

(***************************************************************************)
(* The inductive invariant.                                                *)
(***************************************************************************)
SequencesOk ==
  /\ queue \in Seq(Events) /\ batch \in Seq(Events)
  /\ accepted \in Seq(Events) /\ engine \in Seq(Events)

Flags ==
  /\ cancelled \in BOOLEAN /\ final \in BOOLEAN /\ allOK \in BOOLEAN
  /\ client \in BOOLEAN /\ cooling \in BOOLEAN

Control ==
  /\ pc \in {"select", "flush", "send", "drain", "done"}
  /\ pc \in {"select", "drain"} => ~final
  /\ final \/ pc = "drain" => cancelled
  /\ pc = "done" => final /\ batch = <<>>
  /\ pc = "select" => Len(batch) < BatchSize
  /\ pc # "drain" /\ ~final => Len(batch) <= BatchSize
  /\ Len(queue) <= QueueCap

\* A closed circuit has less than Threshold failures behind it, and only an open
\* one cools down.
Breaker ==
  /\ circuit \in {"closed", "open"} /\ failures \in 0 .. Threshold
  /\ cooling => circuit = "open"
  /\ pc = "send" => circuit = "closed"
  /\ circuit = "closed" => failures < Threshold

\* The channel is the end of what was accepted and the batch lies before it.
InQueue == Len(accepted) - Len(queue)
InBatch == InQueue - Len(batch)

Window ==
  /\ \A i, j \in DOMAIN accepted : accepted[i] = accepted[j] => i = j
  /\ InBatch >= 0
  /\ \A i \in DOMAIN queue : queue[i] = accepted[InQueue + i]
  /\ \A i \in DOMAIN batch : batch[i] = accepted[InBatch + i]

\* The positions of the accepted events that flush has behind it: those before
\* the batch, and of the batch the sessions that are no longer to do.
Past(k) ==
  \/ k <= InBatch
  \/ pc = "send" /\ k <= InQueue /\ SessionOf[accepted[k]] \notin todo

Histories ==
  /\ dropped \subseteq Events \ Range(accepted)
  /\ before \subseteq Range(accepted)
  /\ givenUp \subseteq Range(accepted)
  /\ todo \subseteq SessionsOf(batch)
  /\ pc # "send" => todo = {}

EnginePast == \A i \in DOMAIN engine : \E k \in DOMAIN accepted : engine[i] = accepted[k] /\ Past(k)

\* The order of the engine's events, in terms of the positions.
Ordered ==
  \A i, j \in DOMAIN engine : i < j /\ SessionOf[engine[i]] = SessionOf[engine[j]] =>
    \A k, l \in DOMAIN accepted : engine[i] = accepted[k] /\ engine[j] = accepted[l] => k < l

\* What flush has behind it went to the engine or was given up.
Settled ==
  pc = "send" => \A e \in Range(batch) : SessionOf[e] \notin todo => e \in Range(engine) \cup givenUp

\* Once the channel was drained it holds only what came after Stop.
DrainedOf == final => before \cap Range(queue) = {}

AllAreSomewhere ==
  Range(accepted) = Range(queue) \cup Range(batch) \cup Range(engine) \cup givenUp

IInv ==
  /\ SequencesOk /\ Flags /\ Control /\ Breaker /\ Window /\ Histories
  /\ EnginePast /\ Ordered /\ Settled /\ DrainedOf /\ AllAreSomewhere

-----------------------------------------------------------------------------
(***************************************************************************)
(* The events of a session, in the order of the batch.                     *)
(***************************************************************************)
LEMMA AscendingPositions ==
  ASSUME NEW n \in Nat, NEW P \in SUBSET (1 .. n)
  PROVE  LET q == Ascending(P)
         IN  /\ Cardinality(P) \in Nat /\ DOMAIN q = 1 .. Cardinality(P)
             /\ \A k \in DOMAIN q : q[k] \in P
             /\ \A k, l \in DOMAIN q : k < l => q[k] < q[l]
             /\ \A i \in P : \E k \in DOMAIN q : q[k] = i
<1>. DEFINE rank(i) == Cardinality({j \in P : j <= i})
            c == Cardinality(P)
            r == [i \in P |-> rank(i)]
            q == Ascending(P)
<1>1. IsFiniteSet(P) /\ c \in Nat /\ \A i \in P : i \in Nat
  <2>1. IsFiniteSet(1 .. n)
    BY FS_Interval, 1 \in Int, n \in Int
  <2>2. IsFiniteSet(P)
    BY <2>1, FS_Subset
  <2>3. c \in Nat
    BY <2>2, FS_CardinalityType
  <2>4. \A i \in P : i \in Nat
    OBVIOUS
  <2>. QED  BY <2>2, <2>3, <2>4
<1>2. ASSUME NEW i \in P PROVE rank(i) \in 1 .. c
  <2>1. {j \in P : j <= i} \subseteq P /\ i \in {j \in P : j <= i}
    BY <1>1
  <2>2. IsFiniteSet({j \in P : j <= i}) /\ rank(i) \in Nat /\ rank(i) <= c
    BY <1>1, <2>1, FS_Subset, FS_CardinalityType
  <2>3. rank(i) # 0
    BY <2>1, <2>2, FS_EmptySet
  <2>. QED  BY <1>1, <2>2, <2>3
<1>3. ASSUME NEW i \in P, NEW k \in P, i < k PROVE rank(i) < rank(k)
  <2>. DEFINE A == {j \in P : j <= i}    B == {j \in P : j <= k}
  <2>1. A \subseteq B /\ A # B /\ B \subseteq P
    <3>1. \A j \in P : j <= i => j <= k
      BY <1>1, <1>3
    <3>2. k \in B /\ k \notin A
      BY <1>1, <1>3
    <3>. QED  BY <3>1, <3>2
  <2>. HIDE DEF A, B
  <2>2. IsFiniteSet(B)
    BY <1>1, <2>1, FS_Subset
  <2>3. Cardinality(A) <= Cardinality(B) /\ Cardinality(A) # Cardinality(B)
    BY <2>1, <2>2, FS_Subset
  <2>4. Cardinality(A) \in Nat /\ Cardinality(B) \in Nat
    BY <2>1, <2>2, FS_Subset, FS_CardinalityType
  <2>5. Cardinality(A) < Cardinality(B)
    BY <2>3, <2>4
  <2>. QED  BY <2>5 DEF A, B
<1>. HIDE DEF rank, c
<1>4. ASSUME NEW i \in P, NEW k \in P, rank(i) = rank(k) PROVE i = k
  <2>1. rank(i) \in Nat /\ rank(k) \in Nat
    BY <1>1, <1>2
  <2>2. ~(i < k) /\ ~(k < i)
    BY <1>3, <1>4, <2>1
  <2>. QED  BY <1>1, <2>2
<1>5. \A k \in 1 .. c : \E i \in P : rank(i) = k
  <2>1. r \in Injection(P, 1 .. c)
    BY <1>2, <1>4 DEF Injection, IsInjective
  <2>2. IsFiniteSet(1 .. c) /\ Cardinality(1 .. c) = c
    <3>1. IsFiniteSet(1 .. c) /\ Cardinality(1 .. c) = IF 1 > c THEN 0 ELSE c - 1 + 1
      BY <1>1, FS_Interval, 1 \in Int, c \in Int
    <3>. QED  BY <1>1, <3>1
  <2>3. r \in Surjection(P, 1 .. c)
    BY <2>1, <2>2, FS_Injection DEF c
  <2>. QED  BY <2>3 DEF Surjection
<1>6. DOMAIN q = 1 .. c /\ \A k \in 1 .. c : q[k] \in P /\ rank(q[k]) = k
  <2>1. q = [k \in 1 .. c |-> CHOOSE i \in P : rank(i) = k]
    BY DEF Ascending, c, rank
  <2>. HIDE DEF q
  <2>. QED  BY <1>5, <2>1
<1>. HIDE DEF q
<1>7. \A k \in 1 .. c, l \in 1 .. c : k < l => q[k] < q[l]
  <2>1. SUFFICES ASSUME NEW k \in 1 .. c, NEW l \in 1 .. c, k < l PROVE q[k] < q[l]
    OBVIOUS
  <2>2. q[k] \in Nat /\ q[l] \in Nat
    BY <1>1, <1>6
  <2>3. q[k] # q[l]
    BY <1>6, <2>1
  <2>4. q[l] < q[k] => rank(q[l]) < rank(q[k])
    BY <1>3, <1>6
  <2>5. ~(q[l] < q[k])
    BY <1>1, <1>6, <2>1, <2>4
  <2>. QED  BY <2>2, <2>3, <2>5
<1>8. \A i \in P : \E k \in 1 .. c : q[k] = i
  BY <1>2, <1>4, <1>6
<1>. QED  BY <1>1, <1>6, <1>7, <1>8 DEF q, c

LEMMA SessionPart ==
  ASSUME batch \in Seq(Events), NEW s
  PROVE  LET p == EventsOf(s)
         IN  /\ p \in Seq(Events)
             /\ Range(p) = {e \in Range(batch) : SessionOf[e] = s}
             /\ \A k \in DOMAIN p : \E i \in DOMAIN batch : p[k] = batch[i] /\ SessionOf[batch[i]] = s
             /\ \A k, l \in DOMAIN p : k < l =>
                  \E i, j \in DOMAIN batch : i < j /\ p[k] = batch[i] /\ p[l] = batch[j]
<1>. DEFINE P == {i \in DOMAIN batch : SessionOf[batch[i]] = s}
            at == Ascending(P)
            p == EventsOf(s)
<1>1. Len(batch) \in Nat /\ DOMAIN batch = 1 .. Len(batch) /\ \A i \in DOMAIN batch : batch[i] \in Events
  BY LenProperties, ElementOfSeq
<1>2. /\ Cardinality(P) \in Nat /\ DOMAIN at = 1 .. Cardinality(P)
      /\ \A k \in DOMAIN at : at[k] \in P
      /\ \A k, l \in DOMAIN at : k < l => at[k] < at[l]
      /\ \A i \in P : \E k \in DOMAIN at : at[k] = i
  <2>1. P \in SUBSET (1 .. Len(batch))
    BY <1>1
  <2>. HIDE DEF P
  <2>. QED  BY <1>1, <2>1, AscendingPositions
<1>3. p = [k \in DOMAIN at |-> batch[at[k]]]
  BY DEF EventsOf
<1>. HIDE DEF at, p
<1>4. p \in Seq(Events)
  <2>1. \A k \in DOMAIN at : batch[at[k]] \in Events
    BY <1>1, <1>2
  <2>2. p \in [1 .. Cardinality(P) -> Events]
    BY <1>2, <1>3, <2>1
  <2>3. [1 .. Cardinality(P) -> Events] \subseteq Seq(Events)
    BY <1>2, SeqDef, Zenon
  <2>. QED  BY <2>2, <2>3
<1>5. Range(p) = {e \in Range(batch) : SessionOf[e] = s}
  <2>1. ASSUME NEW e \in Range(p) PROVE e \in Range(batch) /\ SessionOf[e] = s
    BY <1>2, <1>3 DEF Range
  <2>2. ASSUME NEW e \in Range(batch), SessionOf[e] = s PROVE e \in Range(p)
    <3>1. PICK i \in DOMAIN batch : batch[i] = e
      BY DEF Range
    <3>2. i \in P
      BY <2>2, <3>1
    <3>. QED  BY <1>2, <1>3, <3>1, <3>2 DEF Range
  <2>. QED  BY <2>1, <2>2
<1>6. \A k \in DOMAIN p : \E i \in DOMAIN batch : p[k] = batch[i] /\ SessionOf[batch[i]] = s
  BY <1>2, <1>3
<1>7. ASSUME NEW k \in DOMAIN p, NEW l \in DOMAIN p, k < l
      PROVE  \E i, j \in DOMAIN batch : i < j /\ p[k] = batch[i] /\ p[l] = batch[j]
  <2>1. at[k] \in P /\ at[l] \in P /\ at[k] < at[l]
    BY <1>2, <1>3, <1>7
  <2>2. p[k] = batch[at[k]] /\ p[l] = batch[at[l]]
    BY <1>3
  <2>. QED  BY <2>1, <2>2
<1>. QED  BY <1>4, <1>5, <1>6, <1>7 DEF p

-----------------------------------------------------------------------------
(***************************************************************************)
(* Sequences of events.                                                    *)
(***************************************************************************)
LEMMA Domains ==
  ASSUME NEW s \in Seq(Events)
  PROVE  /\ Len(s) \in Nat /\ DOMAIN s = 1 .. Len(s)
         /\ \A i \in 1 .. Len(s) : s[i] \in Events /\ s[i] \in Range(s)
BY LenProperties, ElementOfSeq DEF Range

LEMMA AppendRange ==
  ASSUME NEW s \in Seq(Events), NEW e \in Events
  PROVE  /\ Append(s, e) \in Seq(Events) /\ Len(Append(s, e)) = Len(s) + 1
         /\ \A i \in 1 .. Len(s) : Append(s, e)[i] = s[i]
         /\ Append(s, e)[Len(s) + 1] = e
         /\ Range(Append(s, e)) = Range(s) \cup {e}
<1>1. /\ Append(s, e) \in Seq(Events) /\ Len(Append(s, e)) = Len(s) + 1
      /\ \A i \in 1 .. Len(s) : Append(s, e)[i] = s[i]
      /\ Append(s, e)[Len(s) + 1] = e
  BY AppendProperties
<1>2. Range(Append(s, e)) = Range(s) \cup {e}
  BY <1>1, Domains DEF Range
<1>. QED  BY <1>1, <1>2

LEMMA TailRange ==
  ASSUME NEW s \in Seq(Events), s # <<>>
  PROVE  /\ Len(s) > 0 /\ Head(s) = s[1] /\ Head(s) \in Events
         /\ Tail(s) \in Seq(Events) /\ Len(Tail(s)) = Len(s) - 1
         /\ \A i \in 1 .. Len(s) - 1 : Tail(s)[i] = s[i + 1]
         /\ Range(s) = {Head(s)} \cup Range(Tail(s))
<1>1. /\ Head(s) = s[1] /\ Head(s) \in Events
      /\ Tail(s) \in Seq(Events) /\ Len(Tail(s)) = Len(s) - 1
      /\ \A i \in 1 .. Len(s) - 1 : Tail(s)[i] = s[i + 1]
  BY HeadTailProperties, EmptySeq
<1>2. Len(s) \in Nat /\ Len(s) > 0
  BY <1>1, Domains
<1>3. \A i \in 1 .. Len(s) : i = 1 \/ (i - 1 \in 1 .. Len(s) - 1 /\ s[i] = Tail(s)[i - 1])
  BY <1>1, <1>2
<1>4. \A i \in 1 .. Len(s) - 1 : i + 1 \in 1 .. Len(s) /\ Tail(s)[i] = s[i + 1]
  BY <1>1, <1>2
<1>5. DOMAIN Tail(s) = 1 .. Len(s) - 1 /\ DOMAIN s = 1 .. Len(s) /\ 1 \in 1 .. Len(s)
  BY <1>1, <1>2, Domains
<1>6. Range(s) = {Head(s)} \cup Range(Tail(s))
  <2>1. ASSUME NEW x \in Range(s) PROVE x = Head(s) \/ x \in Range(Tail(s))
    <3>1. PICK i \in 1 .. Len(s) : x = s[i]
      BY <1>5 DEF Range
    <3>2. CASE i = 1
      BY <1>1, <3>1, <3>2
    <3>3. CASE i # 1
      <4>1. i - 1 \in DOMAIN Tail(s) /\ x = Tail(s)[i - 1]
        BY <1>3, <1>5, <3>1, <3>3
      <4>. QED  BY <4>1 DEF Range
    <3>. QED  BY <3>2, <3>3
  <2>2. Head(s) \in Range(s) /\ \A x \in Range(Tail(s)) : x \in Range(s)
    BY <1>1, <1>4, <1>5 DEF Range
  <2>. QED  BY <2>1, <2>2
<1>. QED  BY <1>1, <1>2, <1>6

LEMMA ConcatRange ==
  ASSUME NEW s \in Seq(Events), NEW t \in Seq(Events)
  PROVE  /\ s \o t \in Seq(Events) /\ Len(s \o t) = Len(s) + Len(t)
         /\ \A i \in 1 .. Len(s) + Len(t) :
              (s \o t)[i] = IF i <= Len(s) THEN s[i] ELSE t[i - Len(s)]
         /\ Range(s \o t) = Range(s) \cup Range(t)
<1>1. /\ s \o t \in Seq(Events) /\ Len(s \o t) = Len(s) + Len(t)
      /\ \A i \in 1 .. Len(s) + Len(t) :
           (s \o t)[i] = IF i <= Len(s) THEN s[i] ELSE t[i - Len(s)]
  BY ConcatProperties
<1>2. Len(s) \in Nat /\ Len(t) \in Nat
  BY Domains
<1>3. /\ DOMAIN (s \o t) = 1 .. Len(s) + Len(t)
      /\ DOMAIN s = 1 .. Len(s) /\ DOMAIN t = 1 .. Len(t)
  BY <1>1, Domains
<1>4. \A i \in 1 .. Len(t) : Len(s) + i \in 1 .. Len(s) + Len(t) /\ (s \o t)[Len(s) + i] = t[i]
  BY <1>1, <1>2
<1>5. \A i \in 1 .. Len(s) : i \in 1 .. Len(s) + Len(t) /\ (s \o t)[i] = s[i]
  BY <1>1, <1>2
<1>6. \A i \in 1 .. Len(s) + Len(t) : i \in 1 .. Len(s) \/ i - Len(s) \in 1 .. Len(t)
  BY <1>2
<1>7. Range(s \o t) = Range(s) \cup Range(t)
  <2>1. ASSUME NEW x \in Range(s \o t) PROVE x \in Range(s) \cup Range(t)
    <3>1. PICK i \in 1 .. Len(s) + Len(t) : x = (s \o t)[i]
      BY <1>3 DEF Range
    <3>2. CASE i \in 1 .. Len(s)
      BY <1>3, <1>5, <3>1, <3>2 DEF Range
    <3>3. CASE i \notin 1 .. Len(s)
      <4>1. i - Len(s) \in 1 .. Len(t) /\ x = t[i - Len(s)]
        BY <1>1, <1>2, <1>6, <3>1, <3>3
      <4>. QED  BY <1>3, <4>1 DEF Range
    <3>. QED  BY <3>2, <3>3
  <2>2. \A x \in Range(s) : x \in Range(s \o t)
    BY <1>3, <1>5 DEF Range
  <2>3. \A x \in Range(t) : x \in Range(s \o t)
    BY <1>3, <1>4 DEF Range
  <2>. QED  BY <2>1, <2>2, <2>3
<1>. QED  BY <1>1, <1>7

-----------------------------------------------------------------------------
(***************************************************************************)
(* The parts of the invariant, one by one.                                 *)
(***************************************************************************)
LEMMA InitIInv == Init => IInv
<1>. SUFFICES ASSUME Init PROVE IInv
  OBVIOUS
<1>1. /\ queue = <<>> /\ batch = <<>> /\ accepted = <<>> /\ engine = <<>>
      /\ Len(queue) = 0 /\ Len(batch) = 0 /\ Len(accepted) = 0
      /\ Range(queue) = {} /\ Range(batch) = {} /\ Range(accepted) = {} /\ Range(engine) = {}
      /\ DOMAIN queue = {} /\ DOMAIN batch = {} /\ DOMAIN accepted = {} /\ DOMAIN engine = {}
  BY DEF Init, Range
<1>2. SequencesOk
  BY <1>1 DEF SequencesOk
<1>8. Flags
  BY Zenon DEF Init, Flags
<1>3. Control
  BY <1>1, ConfigAssumption DEF Init, Control
<1>4. Breaker
  BY ConfigAssumption DEF Init, Breaker
<1>5. Window
  BY <1>1 DEF Window, InBatch, InQueue
<1>6. Histories
  BY <1>1 DEF Init, Histories
<1>7. EnginePast /\ Ordered /\ Settled /\ DrainedOf /\ AllAreSomewhere
  BY <1>1 DEF Init, EnginePast, Ordered, Settled, DrainedOf, AllAreSomewhere
<1>. QED  BY <1>2, <1>3, <1>4, <1>5, <1>6, <1>7, <1>8 DEF IInv

LEMMA SequencesStep ==
  ASSUME IInv, [Next]_vars
  PROVE  SequencesOk'
<1>. USE DEF SequencesOk, channel, outcome
<1>1. SequencesOk /\ <<>> \in Seq(Events)
  BY DEF IInv
<1>2. ASSUME NEW e \in Events, Submit(e) PROVE SequencesOk'
  BY <1>1, <1>2, AppendRange DEF Submit
<1>3. CASE TakeEvent \/ DrainEvent
  <2>1. Head(queue) \in Events /\ Tail(queue) \in Seq(Events)
    BY <1>1, <1>3, TailRange DEF TakeEvent, DrainEvent, Receive
  <2>2. Append(batch, Head(queue)) \in Seq(Events)
    BY <1>1, <2>1, AppendRange
  <2>. QED  BY <1>1, <1>3, <2>1, <2>2 DEF TakeEvent, DrainEvent, Receive
<1>4. CASE FlushRefused \/ FlushUnconnected \/ FlushEnds
  <2>1. batch' = <<>> /\ UNCHANGED <<queue, accepted, engine>>
    BY <1>4 DEF FlushRefused, FlushUnconnected, FlushEnds, AfterFlush
  <2>. QED  BY <1>1, <2>1
<1>5. ASSUME NEW s \in Sessions, Send(s) \/ SendFails(s) PROVE SequencesOk'
  <2>1. EventsOf(s) \in Seq(Events)
    BY <1>1, SessionPart
  <2>2. engine \o EventsOf(s) \in Seq(Events)
    BY <1>1, <2>1, ConcatRange
  <2>. QED  BY <1>1, <1>5, <2>2 DEF Send, SendFails
<1>6. CASE UNCHANGED <<queue, batch, accepted, engine>>
  BY <1>1, <1>6
<1>. QED  BY <1>2, <1>3, <1>4, <1>5, <1>6 DEF Next, SubmitDrops, Stop, Batcher, Tick, Done, Drained,
     FlushStarts, CooldownEnds, Finished, vars

LEMMA FlagsStep ==
  ASSUME IInv, [Next]_vars
  PROVE  Flags'
<1>. USE DEF Flags, stopping, breaker
<1>1. Flags
  BY DEF IInv
<1>2. ASSUME NEW s \in Sessions, Send(s) \/ SendFails(s) PROVE Flags'
  BY <1>1, <1>2, Zenon DEF Send, SendFails
<1>3. ASSUME NEW e \in Events, Submit(e) \/ SubmitDrops(e) PROVE Flags'
  BY <1>1, <1>3, Zenon DEF Submit, SubmitDrops
<1>4. CASE Stop \/ TakeEvent \/ Tick \/ Done \/ DrainEvent \/ Drained
  BY <1>1, <1>4, Zenon DEF Stop, TakeEvent, Tick, Done, DrainEvent, Receive, Drained
<1>5. CASE FlushRefused \/ FlushStarts \/ CooldownEnds
  BY <1>1, <1>5, Zenon DEF FlushRefused, FlushStarts, CooldownEnds
<1>6. CASE FlushUnconnected \/ FlushEnds
  <2>1. cooling' \in {cooling, TRUE}
    BY <1>6 DEF FlushUnconnected, FlushEnds, RecordFailure
  <2>2. UNCHANGED <<cancelled, final, allOK, client>>
    BY <1>6, Zenon DEF FlushUnconnected, FlushEnds
  <2>. QED  BY <1>1, <2>1, <2>2, Zenon
<1>7. CASE UNCHANGED vars
  BY <1>1, <1>7, Zenon DEF vars
<1>. QED  BY <1>2, <1>3, <1>4, <1>5, <1>6, <1>7, Zenon DEF Next, Batcher, Finished

LEMMA ControlStep ==
  ASSUME IInv, [Next]_vars
  PROVE  Control'
<1>. USE DEF channel, stopping
<1>1. /\ Control /\ Len(queue) \in Nat /\ Len(batch) \in Nat
      /\ queue \in Seq(Events) /\ batch \in Seq(Events)
  BY Domains DEF IInv, SequencesOk
<1>2. ASSUME NEW e \in Events, Submit(e) PROVE Control'
  <2>1. Len(queue') = Len(queue) + 1
    BY <1>1, <1>2, AppendRange DEF Submit
  <2>2. UNCHANGED <<batch, cancelled, final, pc>> /\ Len(queue) < QueueCap
    BY <1>2 DEF Submit
  <2>. QED  BY <1>1, <2>1, <2>2, ConfigAssumption DEF Control
<1>3. CASE TakeEvent \/ DrainEvent
  <2>1. Head(queue) \in Events /\ Len(queue') = Len(queue) - 1
    BY <1>1, <1>3, TailRange DEF TakeEvent, DrainEvent, Receive
  <2>2. Len(batch') = Len(batch) + 1
    BY <1>1, <1>3, <2>1, AppendRange DEF TakeEvent, DrainEvent, Receive
  <2>. QED  BY <1>1, <1>3, <2>1, <2>2, ConfigAssumption DEF TakeEvent, DrainEvent, Receive, Control
<1>4. CASE FlushRefused \/ FlushUnconnected \/ FlushEnds
  <2>1. /\ batch' = <<>> /\ Len(batch') = 0 /\ UNCHANGED <<queue, cancelled, final>>
        /\ pc' = IF final THEN "done" ELSE "select"
    BY <1>4 DEF FlushRefused, FlushUnconnected, FlushEnds, AfterFlush
  <2>. QED  BY <1>1, <2>1, ConfigAssumption DEF Control
<1>5. ASSUME NEW s \in Sessions, Send(s) \/ SendFails(s) PROVE Control'
  <2>1. UNCHANGED <<queue, batch, cancelled, final, pc>>
    BY <1>5 DEF Send, SendFails
  <2>. QED  BY <1>1, <2>1 DEF Control
<1>6. CASE Tick \/ Done \/ FlushStarts \/ Stop
  <2>1. UNCHANGED <<queue, batch, final>>
    BY <1>6 DEF Tick, Done, FlushStarts, Stop
  <2>. QED  BY <1>1, <1>6, <2>1, ConfigAssumption DEF Tick, Done, FlushStarts, Stop, Control
<1>7. CASE Drained
  BY <1>1, <1>7 DEF Drained, Control
<1>8. CASE UNCHANGED <<queue, batch, cancelled, final, pc>>
  BY <1>1, <1>8 DEF Control
<1>. QED  BY <1>2, <1>3, <1>4, <1>5, <1>6, <1>7, <1>8
     DEF Next, SubmitDrops, Batcher, CooldownEnds, Finished, vars

\* An open circuit closes when a flush starts; a failure too many opens it.
LEMMA BreakerStep ==
  ASSUME IInv, [Next]_vars
  PROVE  Breaker'
<1>. USE DEF breaker
<1>1. Breaker
  BY DEF IInv
<1>2. ASSUME NEW n \in 0 .. Threshold, RecordFailure(n), ~cooling, pc' # "send" PROVE Breaker'
  BY <1>1, <1>2, ConfigAssumption DEF RecordFailure, Breaker
<1>3. CASE FlushUnconnected
  <2>1. FailedOnce \in 0 .. Threshold
    BY <1>1, ConfigAssumption DEF FailedOnce, Breaker
  <2>2. ~cooling /\ pc' # "send"
    BY <1>1, <1>3 DEF FlushUnconnected, Allows, AfterFlush, Breaker
  <2>. QED  BY <1>2, <1>3, <2>1, <2>2 DEF FlushUnconnected
<1>4. CASE FlushStarts
  BY <1>1, <1>4, ConfigAssumption DEF FlushStarts, Allows, Breaker
<1>5. CASE FlushEnds
  <2>1. pc' # "send"
    BY <1>5 DEF FlushEnds, AfterFlush
  <2>2. CASE failures' = 0 /\ UNCHANGED <<circuit, cooling>>
    BY <1>1, <2>1, <2>2, ConfigAssumption DEF Breaker
  <2>3. CASE RecordFailure(failures + 1)
    <3>1. failures + 1 \in 0 .. Threshold /\ ~cooling
      BY <1>1, <1>5, ConfigAssumption DEF FlushEnds, Breaker
    <3>. QED  BY <1>2, <2>1, <2>3, <3>1
  <2>. QED  BY <1>5, <2>2, <2>3 DEF FlushEnds
<1>6. CASE CooldownEnds
  BY <1>1, <1>6 DEF CooldownEnds, Breaker
<1>7. CASE UNCHANGED breaker /\ (pc' = "send" => pc = "send")
  BY <1>1, <1>7 DEF Breaker
<1>. QED  BY <1>3, <1>4, <1>5, <1>6, <1>7 DEF Next, Submit, SubmitDrops, Stop, Batcher, TakeEvent, Tick, Done,
     DrainEvent, Receive, Drained, FlushRefused, AfterFlush, Send, SendFails, Finished, vars

-----------------------------------------------------------------------------
(***************************************************************************)
(* The window of the channel and the batch over what was accepted.         *)
(***************************************************************************)
\* The lengths and domains of all four sequences.
LEMMA Lengths ==
  ASSUME SequencesOk
  PROVE  /\ Len(queue) \in Nat /\ DOMAIN queue = 1 .. Len(queue)
         /\ Len(batch) \in Nat /\ DOMAIN batch = 1 .. Len(batch)
         /\ Len(accepted) \in Nat /\ DOMAIN accepted = 1 .. Len(accepted)
         /\ Len(engine) \in Nat /\ DOMAIN engine = 1 .. Len(engine)
BY Domains DEF SequencesOk

LEMMA SubmitWindow ==
  ASSUME IInv, NEW e \in Events, Submit(e)
  PROVE  /\ Window' /\ InQueue' = InQueue /\ InBatch' = InBatch
         /\ DOMAIN accepted' = 1 .. Len(accepted) + 1 /\ Len(accepted) \in Nat
         /\ \A k \in 1 .. Len(accepted) : accepted'[k] = accepted[k]
<1>. DEFINE n == Len(accepted)    m == Len(queue)
<1>1. SequencesOk /\ SequencesOk' /\ Window
  BY SequencesStep DEF IInv, Next
<1>2. /\ n \in Nat /\ Len(accepted') = n + 1 /\ accepted'[n + 1] = e
      /\ \A k \in 1 .. n : accepted'[k] = accepted[k]
      /\ m \in Nat /\ Len(queue') = m + 1 /\ queue'[m + 1] = e
      /\ \A k \in 1 .. m : queue'[k] = queue[k]
  BY <1>1, AppendRange, Lengths DEF Submit, SequencesOk
<1>3. /\ DOMAIN accepted' = 1 .. n + 1 /\ DOMAIN accepted = 1 .. n
      /\ DOMAIN queue' = 1 .. m + 1 /\ DOMAIN queue = 1 .. m
      /\ DOMAIN batch = 1 .. Len(batch) /\ Len(batch) \in Nat
  BY <1>1, <1>2, Lengths, Domains DEF SequencesOk
<1>4. \A k \in 1 .. n : accepted[k] # e
  BY <1>3 DEF Submit, Fresh, Range
<1>5. InQueue' = InQueue /\ InBatch' = InBatch /\ batch' = batch
      /\ InQueue = n - m /\ InBatch = n - m - Len(batch) /\ InBatch >= 0
  BY <1>1, <1>2, <1>3 DEF InQueue, InBatch, Submit, Window
<1>. HIDE DEF n, m
<1>6. \A i, j \in 1 .. n + 1 : accepted'[i] = accepted'[j] => i = j
  <2>1. SUFFICES ASSUME NEW i \in 1 .. n + 1, NEW j \in 1 .. n + 1, accepted'[i] = accepted'[j] PROVE i = j
    OBVIOUS
  <2>2. i \in 1 .. n \/ i = n + 1
    BY <1>2
  <2>3. j \in 1 .. n \/ j = n + 1
    BY <1>2
  <2>. QED  BY <1>1, <1>2, <1>3, <1>4, <2>1, <2>2, <2>3 DEF Window
<1>7. \A i \in 1 .. m + 1 : queue'[i] = accepted'[n - m + i]
  <2>1. SUFFICES ASSUME NEW i \in 1 .. m + 1 PROVE queue'[i] = accepted'[n - m + i]
    OBVIOUS
  <2>2. CASE i = m + 1
    BY <1>2, <1>5, <2>2
  <2>3. CASE i \in 1 .. m
    <3>1. n - m + i \in 1 .. n
      BY <1>2, <1>3, <1>5, <2>3
    <3>2. queue[i] = accepted[n - m + i]
      BY <1>1, <1>3, <1>5, <2>3 DEF Window
    <3>. QED  BY <1>2, <1>5, <2>3, <3>1, <3>2
  <2>. QED  BY <1>2, <2>2, <2>3
<1>8. \A i \in DOMAIN batch : batch[i] = accepted'[InBatch + i]
  <2>1. \A i \in DOMAIN batch : InBatch + i \in 1 .. n
    <3>1. n \in Nat /\ m \in Nat
      BY <1>2
    <3>. QED  BY <1>3, <1>5, <3>1
  <2>2. \A i \in DOMAIN batch : batch[i] = accepted[InBatch + i]
    BY <1>1 DEF Window
  <2>. DEFINE at(i) == InBatch + i
  <2>3. \A i \in DOMAIN batch : at(i) \in 1 .. n /\ batch[i] = accepted[at(i)]
    BY <2>1, <2>2
  <2>. HIDE DEF at
  <2>4. \A i \in DOMAIN batch : batch[i] = accepted'[at(i)]
    BY <1>2, <2>3
  <2>. QED  BY <2>4 DEF at
<1>9. Window'
  BY <1>3, <1>5, <1>6, <1>7, <1>8 DEF Window
<1>. QED  BY <1>2, <1>3, <1>5, <1>9 DEF n

LEMMA ReceiveWindow ==
  ASSUME IInv, Receive
  PROVE  Window' /\ InBatch' = InBatch
<1>. DEFINE n == Len(accepted)    m == Len(queue)    b == Len(batch)
<1>1. SequencesOk /\ Window
  BY DEF IInv
<1>2. /\ m > 0 /\ Head(queue) = queue[1] /\ Head(queue) \in Events
      /\ queue' \in Seq(Events) /\ Len(queue') = m - 1
      /\ \A i \in 1 .. m - 1 : queue'[i] = queue[i + 1]
  BY <1>1, TailRange DEF Receive, SequencesOk
<1>3. /\ batch' \in Seq(Events) /\ Len(batch') = b + 1 /\ batch'[b + 1] = queue[1]
      /\ \A i \in 1 .. b : batch'[i] = batch[i]
  BY <1>1, <1>2, AppendRange DEF Receive, SequencesOk
<1>4. /\ n \in Nat /\ m \in Nat /\ b \in Nat
      /\ DOMAIN queue = 1 .. m /\ DOMAIN batch = 1 .. b
      /\ DOMAIN queue' = 1 .. m - 1 /\ DOMAIN batch' = 1 .. b + 1
      /\ UNCHANGED accepted
  BY <1>1, <1>2, <1>3, Lengths, Domains DEF Receive
<1>. HIDE DEF n, m, b
<1>5. /\ InQueue = n - m /\ InBatch = n - m - b
      /\ InQueue' = n - m + 1 /\ InBatch' = n - m - b /\ InBatch >= 0
  <2>1. InQueue = n - m /\ InBatch = n - m - b /\ InBatch >= 0
    BY <1>1 DEF InQueue, InBatch, Window, n, m, b
  <2>2. Len(accepted') = n
    BY <1>4 DEF n
  <2>. QED  BY <1>2, <1>3, <1>4, <2>1, <2>2 DEF InQueue, InBatch
<1>6. ASSUME NEW i \in 1 .. m - 1 PROVE queue'[i] = accepted[n - m + 1 + i]
  <2>1. i + 1 \in DOMAIN queue /\ n - m + (i + 1) = n - m + 1 + i
    BY <1>4
  <2>. QED  BY <1>1, <1>2, <1>5, <2>1 DEF Window
<1>7. ASSUME NEW i \in 1 .. b + 1 PROVE batch'[i] = accepted[n - m - b + i]
  <2>1. CASE i = b + 1
    <3>1. 1 \in DOMAIN queue /\ n - m + 1 = n - m - b + i
      BY <1>2, <1>4, <2>1
    <3>2. queue[1] = accepted[n - m + 1]
      BY <1>1, <1>5, <3>1 DEF Window
    <3>. QED  BY <1>3, <2>1, <3>1, <3>2
  <2>2. CASE i \in 1 .. b
    <3>1. batch[i] = accepted[InBatch + i]
      BY <1>1, <1>4, <2>2 DEF Window
    <3>. QED  BY <1>3, <1>5, <2>2, <3>1
  <2>. QED  BY <1>4, <2>1, <2>2
<1>. QED  BY <1>1, <1>4, <1>5, <1>6, <1>7 DEF Window

\* The end of a flush empties the batch.
FlushOver == FlushRefused \/ FlushUnconnected \/ FlushEnds

LEMMA FlushWindow ==
  ASSUME IInv, FlushOver
  PROVE  /\ Window' /\ InBatch' = InQueue /\ InQueue' = InQueue /\ InBatch <= InQueue
         /\ batch' = <<>> /\ Range(batch') = {} /\ pc \in {"flush", "send"} /\ pc' # "send"
         /\ pc' \in {"done", "select"} /\ todo = {} /\ todo' = {}
         /\ UNCHANGED <<queue, accepted, dropped, before, final, cancelled, engine>>
<1>1. SequencesOk /\ Window /\ Histories
  BY DEF IInv
<1>2. /\ batch' = <<>> /\ pc \in {"flush", "send"} /\ pc' \in {"done", "select"} /\ todo = {}
      /\ UNCHANGED <<queue, accepted, dropped, before, final, cancelled, engine, todo>>
  BY <1>1 DEF FlushOver, FlushRefused, FlushUnconnected, FlushEnds, AfterFlush, channel, stopping, outcome, Histories
<1>3. Len(batch') = 0 /\ DOMAIN batch' = {} /\ Range(batch') = {}
  BY <1>2 DEF Range
<1>4. InQueue' = InQueue /\ InBatch' = InQueue - 0 /\ InQueue \in Int /\ InBatch = InQueue - Len(batch)
  BY <1>1, <1>2, <1>3, Lengths DEF InQueue, InBatch
<1>5. Len(batch) \in Nat /\ InBatch >= 0
  BY <1>1, Lengths DEF Window
<1>6. InBatch' = InQueue /\ InBatch <= InQueue /\ InQueue >= 0
  BY <1>4, <1>5
<1>7. Window'
  BY <1>1, <1>2, <1>3, <1>4, <1>6 DEF Window
<1>. QED  BY <1>2, <1>3, <1>4, <1>6, <1>7

\* Everything else leaves the window where it is.
Elsewhere ==
  \/ \E e \in Events : SubmitDrops(e)
  \/ Stop \/ Tick \/ Done \/ Drained \/ FlushStarts \/ CooldownEnds \/ UNCHANGED vars
  \/ \E s \in Sessions : Send(s) \/ SendFails(s)

LEMMA Steps ==
  [Next]_vars => \/ \E e \in Events : Submit(e)
                 \/ TakeEvent \/ DrainEvent \/ FlushOver \/ Elsewhere
BY Zenon DEF Next, Batcher, Finished, FlushOver, Elsewhere

LEMMA ElsewhereWindow ==
  ASSUME IInv, Elsewhere
  PROVE  /\ UNCHANGED <<queue, batch, accepted>>
         /\ Window' /\ InQueue' = InQueue /\ InBatch' = InBatch
<1>1. UNCHANGED <<queue, batch, accepted>>
  BY DEF Elsewhere, SubmitDrops, Stop, Tick, Done, Drained, FlushStarts, CooldownEnds, Send, SendFails, vars, channel
<1>. QED  BY <1>1 DEF IInv, Window, InQueue, InBatch

LEMMA WindowStep ==
  ASSUME IInv, [Next]_vars
  PROVE  Window'
BY Steps, SubmitWindow, ReceiveWindow, FlushWindow, ElsewhereWindow DEF TakeEvent, DrainEvent

\* What an append, a receive and the calls of a session do to the ranges.
LEMMA Ranges ==
  ASSUME IInv
  PROVE  /\ \A e \in Events : Submit(e) =>
              Range(accepted') = Range(accepted) \cup {e} /\ Range(queue') = Range(queue) \cup {e}
         /\ Receive => /\ Head(queue) \in Events
                       /\ Range(queue) = Range(queue') \cup {Head(queue)}
                       /\ Range(batch') = Range(batch) \cup {Head(queue)}
         /\ \A s \in Sessions : /\ Range(EventsOf(s)) = {e \in Range(batch) : SessionOf[e] = s}
                                /\ Range(engine \o EventsOf(s)) = Range(engine) \cup Range(EventsOf(s))
<1>1. SequencesOk
  BY DEF IInv
<1>2. ASSUME NEW e \in Events, Submit(e)
      PROVE  Range(accepted') = Range(accepted) \cup {e} /\ Range(queue') = Range(queue) \cup {e}
  BY <1>1, <1>2, AppendRange DEF Submit, SequencesOk
<1>3. ASSUME Receive
      PROVE  /\ Head(queue) \in Events
             /\ Range(queue) = Range(queue') \cup {Head(queue)}
             /\ Range(batch') = Range(batch) \cup {Head(queue)}
  <2>1. Head(queue) \in Events /\ Range(queue) = {Head(queue)} \cup Range(Tail(queue))
    BY <1>1, <1>3, TailRange DEF Receive, SequencesOk
  <2>2. Range(Append(batch, Head(queue))) = Range(batch) \cup {Head(queue)}
    BY <1>1, <2>1, AppendRange DEF SequencesOk
  <2>. QED  BY <1>3, <2>1, <2>2 DEF Receive
<1>4. ASSUME NEW s \in Sessions
      PROVE  /\ Range(EventsOf(s)) = {e \in Range(batch) : SessionOf[e] = s}
             /\ Range(engine \o EventsOf(s)) = Range(engine) \cup Range(EventsOf(s))
  BY <1>1, SessionPart, ConcatRange DEF SequencesOk
<1>. QED  BY <1>2, <1>3, <1>4

LEMMA HistoriesStep ==
  ASSUME IInv, [Next]_vars
  PROVE  Histories'
<1>1. Histories /\ AllAreSomewhere
  BY DEF IInv
<1>2. ASSUME NEW e \in Events, Submit(e) PROVE Histories'
  <2>1. Range(accepted') = Range(accepted) \cup {e} /\ e \notin dropped
    BY <1>2, Ranges DEF Submit, Fresh
  <2>. QED  BY <1>1, <1>2, <2>1 DEF Submit, Histories, SessionsOf, stopping, outcome
<1>3. CASE TakeEvent \/ DrainEvent
  <2>1. pc # "send" /\ pc' # "send" /\ todo' = {}
    BY <1>1, <1>3 DEF TakeEvent, DrainEvent, Receive, Histories
  <2>. QED  BY <1>1, <1>3, <2>1 DEF TakeEvent, DrainEvent, Receive, Histories, stopping, outcome
<1>4. CASE FlushOver
  <2>1. givenUp' \subseteq givenUp \cup Range(batch)
    BY <1>4 DEF FlushOver, FlushRefused, FlushUnconnected, FlushEnds, outcome
  <2>. QED  BY <1>1, <1>4, <2>1, FlushWindow DEF Histories, AllAreSomewhere
<1>5. CASE FlushStarts
  BY <1>1, <1>5 DEF FlushStarts, Histories, channel, stopping, outcome, SessionsOf
<1>6. ASSUME NEW s \in Sessions, Send(s) \/ SendFails(s) PROVE Histories'
  <2>1. Range(EventsOf(s)) \subseteq Range(batch)
    BY Ranges
  <2>2. givenUp' \subseteq givenUp \cup Range(batch) /\ todo' \subseteq todo
        /\ UNCHANGED <<accepted, dropped, before, batch, pc>> /\ pc = "send"
    BY <1>6, <2>1 DEF Send, SendFails, channel, stopping
  <2>. QED  BY <1>1, <2>2 DEF Histories, AllAreSomewhere, SessionsOf
<1>7. CASE Stop
  BY <1>1, <1>7 DEF Stop, Histories, channel, outcome, SessionsOf
<1>8. ASSUME NEW e \in Events, SubmitDrops(e) PROVE Histories'
  BY <1>1, <1>8 DEF SubmitDrops, Fresh, Histories, stopping, outcome, SessionsOf
<1>9. CASE Tick \/ Done \/ Drained \/ CooldownEnds \/ UNCHANGED vars
  <2>1. UNCHANGED <<accepted, dropped, before, givenUp, batch, todo>> /\ (pc' = "send" <=> pc = "send")
    BY <1>9 DEF Tick, Done, Drained, CooldownEnds, vars, channel, stopping, outcome
  <2>. QED  BY <1>1, <2>1 DEF Histories, SessionsOf
<1>. QED  BY <1>2, <1>3, <1>4, <1>5, <1>6, <1>7, <1>8, <1>9, Steps DEF Elsewhere

-----------------------------------------------------------------------------
(***************************************************************************)
(* The engine: a step adds nothing to it, or the part of the batch that    *)
(* belongs to a session that was still to do.                              *)
(***************************************************************************)
LEMMA PastKept ==
  ASSUME IInv, [Next]_vars, NEW k \in DOMAIN accepted
  PROVE  k \in DOMAIN accepted' /\ accepted'[k] = accepted[k] /\ (Past(k) => Past(k)')
<1>1. SequencesOk /\ Window /\ k \in 1 .. Len(accepted) /\ InBatch \in Int /\ InQueue \in Int
  BY Lengths DEF IInv, InBatch, InQueue
<1>2. ASSUME NEW e \in Events, Submit(e)
      PROVE  k \in DOMAIN accepted' /\ accepted'[k] = accepted[k] /\ (Past(k) => Past(k)')
  <2>1. pc' = pc /\ todo' = todo
    BY <1>2 DEF Submit
  <2>2. /\ InQueue' = InQueue /\ InBatch' = InBatch
        /\ DOMAIN accepted' = 1 .. Len(accepted) + 1 /\ Len(accepted) \in Nat
        /\ accepted'[k] = accepted[k]
    BY <1>1, <1>2, SubmitWindow
  <2>. QED  BY <1>1, <2>1, <2>2 DEF Past
<1>3. CASE TakeEvent \/ DrainEvent
  BY <1>3, ReceiveWindow DEF TakeEvent, DrainEvent, Receive, Past
<1>4. CASE FlushOver
  BY <1>1, <1>4, FlushWindow DEF Past
<1>5. CASE Elsewhere
  <2>1. pc = "send" => pc' = "send" /\ todo' \subseteq todo
    BY <1>5 DEF Elsewhere, SubmitDrops, Stop, Tick, Done, Drained, FlushStarts, CooldownEnds,
                Send, SendFails, vars
  <2>. QED  BY <1>5, <2>1, ElsewhereWindow DEF Past
<1>. QED  BY <1>2, <1>3, <1>4, <1>5, Steps

Sends(s) ==
  /\ pc = "send" /\ s \in todo /\ pc' = "send" /\ todo' = todo \ {s}
  /\ engine' = engine \o EventsOf(s)
  /\ UNCHANGED <<queue, batch, accepted>>

LEMMA EngineGrows ==
  ASSUME [Next]_vars
  PROVE  engine' = engine \/ \E s \in Sessions : Sends(s)
<1>1. ASSUME NEW s \in Sessions, Send(s) \/ SendFails(s) PROVE engine' = engine \/ Sends(s)
  BY <1>1 DEF Send, SendFails, Sends, channel
<1>. QED  BY <1>1 DEF Next, Submit, SubmitDrops, Stop, Batcher, TakeEvent, Tick, Done, DrainEvent, Receive,
     Drained, FlushRefused, FlushUnconnected, FlushStarts, FlushEnds, CooldownEnds, Finished, vars, outcome

\* Where the new events of the engine were accepted.
LEMMA SendsFromBatch ==
  ASSUME IInv, NEW s \in Sessions, Sends(s)
  PROVE  LET n == Len(engine)
             At(i, k) == k \in DOMAIN accepted /\ engine'[i] = accepted[k]
         IN  /\ n \in Nat /\ DOMAIN engine = 1 .. n
             /\ \A i \in 1 .. n : i \in DOMAIN engine' /\ engine'[i] = engine[i]
             /\ \A i \in DOMAIN engine' : i \notin 1 .. n =>
                  /\ n < i /\ i \in Nat
                  /\ \E k \in InBatch + 1 .. InQueue : At(i, k) /\ SessionOf[accepted[k]] = s
             /\ \A i, j \in DOMAIN engine' : n < i /\ i < j =>
                  \E k, l \in DOMAIN accepted : k < l /\ At(i, k) /\ At(j, l)
<1>. DEFINE n == Len(engine)    p == EventsOf(s)    b == Len(batch)
            At(i, k) == k \in DOMAIN accepted /\ engine'[i] = accepted[k]
<1>1. SequencesOk /\ Window /\ n \in Nat /\ DOMAIN engine = 1 .. n
  BY Lengths DEF IInv
<1>2. /\ p \in Seq(Events)
      /\ \A k \in DOMAIN p : \E i \in DOMAIN batch : p[k] = batch[i] /\ SessionOf[batch[i]] = s
      /\ \A k, l \in DOMAIN p : k < l =>
           \E i, j \in DOMAIN batch : i < j /\ p[k] = batch[i] /\ p[l] = batch[j]
  BY <1>1, SessionPart DEF SequencesOk
<1>3. /\ engine' \in Seq(Events) /\ Len(engine') = n + Len(p)
      /\ \A i \in 1 .. n + Len(p) : engine'[i] = IF i <= n THEN engine[i] ELSE p[i - n]
  BY <1>1, <1>2, ConcatRange DEF SequencesOk, Sends
<1>4. DOMAIN engine' = 1 .. n + Len(p) /\ Len(p) \in Nat /\ DOMAIN p = 1 .. Len(p)
  BY <1>2, <1>3, Domains
<1>5. \A i \in 1 .. n : i \in DOMAIN engine' /\ engine'[i] = engine[i]
  BY <1>1, <1>3, <1>4
<1>6. \A i \in DOMAIN engine' : i \notin 1 .. n => i \in Nat /\ n < i
  BY <1>1, <1>4
<1>7. \A i \in DOMAIN engine' : n < i => i - n \in DOMAIN p /\ engine'[i] = p[i - n]
  BY <1>1, <1>3, <1>4
<1>8. ASSUME NEW i \in DOMAIN batch
      PROVE  /\ InBatch + i \in InBatch + 1 .. InQueue /\ InBatch + i \in DOMAIN accepted
             /\ InBatch \in Int /\ i \in Int
             /\ batch[i] = accepted[InBatch + i]
  <2>1. /\ b \in Nat /\ DOMAIN batch = 1 .. b /\ Len(accepted) \in Nat /\ Len(queue) \in Nat
        /\ DOMAIN accepted = 1 .. Len(accepted)
    BY <1>1, Lengths
  <2>2. InBatch = InQueue - b /\ InQueue = Len(accepted) - Len(queue) /\ InBatch >= 0
    BY <1>1 DEF InBatch, InQueue, Window
  <2>3. i \in 1 .. b /\ batch[i] = accepted[InBatch + i]
    BY <1>1, <2>1 DEF Window
  <2>4. InQueue \in Int /\ InBatch \in Int /\ InQueue <= Len(accepted)
    BY <2>1, <2>2
  <2>. QED  BY <2>1, <2>2, <2>3, <2>4
<1>. HIDE DEF p
<1>9. ASSUME NEW i \in DOMAIN engine', i \notin 1 .. n
      PROVE  \E k \in InBatch + 1 .. InQueue : At(i, k) /\ SessionOf[accepted[k]] = s
  <2>1. PICK j \in DOMAIN batch : p[i - n] = batch[j] /\ SessionOf[batch[j]] = s
    BY <1>2, <1>6, <1>7, <1>9
  <2>2. engine'[i] = batch[j]
    BY <1>6, <1>7, <1>9, <2>1
  <2>. QED  BY <1>8, <2>1, <2>2
<1>10. ASSUME NEW i \in DOMAIN engine', NEW j \in DOMAIN engine', n < i, i < j
       PROVE  \E k, l \in DOMAIN accepted : k < l /\ At(i, k) /\ At(j, l)
  <2>1. n < j /\ i - n < j - n
    BY <1>1, <1>4, <1>10
  <2>2. PICK a, c \in DOMAIN batch : a < c /\ p[i - n] = batch[a] /\ p[j - n] = batch[c]
    BY <1>2, <1>7, <1>10, <2>1
  <2>3. engine'[i] = batch[a] /\ engine'[j] = batch[c]
    BY <1>7, <1>10, <2>1, <2>2
  <2>4. InBatch + a < InBatch + c
    BY <1>8, <2>2
  <2>5. At(i, InBatch + a) /\ At(j, InBatch + c)
    BY <1>8, <2>3
  <2>. QED  BY <1>8, <2>4, <2>5
<1>. QED  BY <1>1, <1>5, <1>6, <1>9, <1>10

LEMMA EnginePastStep ==
  ASSUME IInv, [Next]_vars
  PROVE  EnginePast'
<1>1. EnginePast
  BY DEF IInv
<1>2. ASSUME NEW i \in DOMAIN engine
      PROVE  \E k \in DOMAIN accepted' : engine[i] = accepted'[k] /\ Past(k)'
  BY <1>1, PastKept DEF EnginePast
<1>3. CASE engine' = engine
  BY <1>2, <1>3 DEF EnginePast
<1>4. ASSUME NEW s \in Sessions, Sends(s) PROVE EnginePast'
  <2>1. SUFFICES ASSUME NEW i \in DOMAIN engine'
                 PROVE  \E k \in DOMAIN accepted' : engine'[i] = accepted'[k] /\ Past(k)'
    BY DEF EnginePast
  <2>2. CASE i \in 1 .. Len(engine)
    <3>1. i \in DOMAIN engine /\ engine'[i] = engine[i]
      BY <1>4, <2>2, SendsFromBatch
    <3>. QED  BY <1>2, <3>1
  <2>3. CASE i \notin 1 .. Len(engine)
    <3>1. PICK k \in InBatch + 1 .. InQueue :
                 k \in DOMAIN accepted /\ engine'[i] = accepted[k] /\ SessionOf[accepted[k]] = s
      BY <1>4, <2>3, SendsFromBatch
    <3>2. InQueue' = InQueue /\ accepted' = accepted /\ pc' = "send" /\ s \notin todo' /\ InQueue \in Int
      BY <1>4, Lengths DEF Sends, InQueue, IInv
    <3>3. InBatch \in Int /\ k <= InQueue
      BY <3>1, <3>2, Lengths DEF InBatch, IInv
    <3>4. Past(k)'
      BY <3>1, <3>2, <3>3 DEF Past
    <3>. QED  BY <3>1, <3>2, <3>4
  <2>. QED  BY <2>2, <2>3
<1>. QED  BY <1>3, <1>4, EngineGrows

\* An event that is new to the engine comes after every event of its session that
\* was there: flush had not done the session, so those lie before the batch.
LEMMA OrderedStep ==
  ASSUME IInv, [Next]_vars
  PROVE  Ordered'
<1>1. EnginePast /\ Ordered /\ Window /\ Window' /\ SequencesOk
  BY WindowStep DEF IInv
<1>2. ASSUME NEW i \in DOMAIN engine, NEW k \in DOMAIN accepted', engine[i] = accepted'[k]
      PROVE  k \in DOMAIN accepted /\ engine[i] = accepted[k] /\ Past(k)
  <2>1. PICK m \in DOMAIN accepted : engine[i] = accepted[m] /\ Past(m)
    BY <1>1 DEF EnginePast
  <2>2. m \in DOMAIN accepted' /\ accepted'[m] = accepted'[k]
    BY <1>2, <2>1, PastKept
  <2>3. m = k
    BY <1>1, <2>2 DEF Window
  <2>. QED  BY <2>1, <2>3
<1>3. ASSUME NEW i \in DOMAIN engine, NEW j \in DOMAIN engine, i < j,
             SessionOf[engine[i]] = SessionOf[engine[j]],
             NEW k \in DOMAIN accepted', NEW l \in DOMAIN accepted',
             engine[i] = accepted'[k], engine[j] = accepted'[l]
      PROVE  k < l
  BY <1>1, <1>2, <1>3 DEF Ordered
<1>4. CASE engine' = engine
  BY <1>3, <1>4 DEF Ordered
<1>5. ASSUME NEW s \in Sessions, Sends(s) PROVE Ordered'
  <2>. DEFINE n == Len(engine)
  <2>1. SUFFICES ASSUME NEW i \in DOMAIN engine', NEW j \in DOMAIN engine', i < j,
                        SessionOf[engine'[i]] = SessionOf[engine'[j]],
                        NEW k \in DOMAIN accepted', NEW l \in DOMAIN accepted',
                        engine'[i] = accepted'[k], engine'[j] = accepted'[l]
                 PROVE  k < l
    BY DEF Ordered
  <2>2. accepted' = accepted /\ pc = "send" /\ s \in todo
    BY <1>5 DEF Sends
  <2>3. /\ n \in Nat /\ DOMAIN engine = 1 .. n
        /\ \A x \in 1 .. n : x \in DOMAIN engine' /\ engine'[x] = engine[x]
    BY <1>5, SendsFromBatch
  <2>4. CASE i \in 1 .. n /\ j \in 1 .. n
    BY <1>3, <2>1, <2>3, <2>4
  <2>5. CASE i \in 1 .. n /\ j \notin 1 .. n
    <3>1. PICK m \in InBatch + 1 .. InQueue :
                 m \in DOMAIN accepted /\ engine'[j] = accepted[m] /\ SessionOf[accepted[m]] = s
      BY <1>5, <2>5, SendsFromBatch
    <3>2. m = l
      BY <1>1, <2>1, <2>2, <3>1 DEF Window
    <3>3. engine[i] = accepted[k] /\ Past(k) /\ SessionOf[accepted[k]] = s
      BY <1>2, <2>1, <2>2, <2>3, <2>5, <3>1
    <3>4. k <= InBatch
      BY <2>2, <3>3 DEF Past
    <3>5. /\ Len(accepted) \in Nat /\ Len(queue) \in Nat /\ Len(batch) \in Nat
          /\ DOMAIN accepted = 1 .. Len(accepted)
      BY <1>1, Lengths
    <3>6. InBatch \in Int /\ InQueue \in Int /\ k \in Int
      BY <2>2, <3>5 DEF InBatch, InQueue
    <3>. QED  BY <3>1, <3>2, <3>4, <3>6
  <2>6. CASE i \notin 1 .. n
    <3>1. n < i
      BY <1>5, <2>6, SendsFromBatch
    <3>2. PICK x, y \in DOMAIN accepted : x < y /\ engine'[i] = accepted[x] /\ engine'[j] = accepted[y]
      BY <1>5, <2>1, <3>1, SendsFromBatch
    <3>3. /\ k \in DOMAIN accepted /\ accepted[x] = accepted[k]
          /\ l \in DOMAIN accepted /\ accepted[y] = accepted[l]
      BY <2>1, <2>2, <3>2
    <3>4. \A a, b \in DOMAIN accepted : accepted[a] = accepted[b] => a = b
      BY <1>1 DEF Window
    <3>5. x = k
      BY <3>3, <3>4
    <3>6. y = l
      BY <3>3, <3>4
    <3>. QED  BY <3>2, <3>5, <3>6
  <2>. QED  BY <2>4, <2>5, <2>6
<1>. QED  BY <1>4, <1>5, EngineGrows

-----------------------------------------------------------------------------
(***************************************************************************)
(* No event vanishes.                                                      *)
(***************************************************************************)
\* The events of a session that is sent or fails leave the sessions to do.
LEMMA SettledStep ==
  ASSUME IInv, [Next]_vars
  PROVE  Settled'
<1>1. Settled /\ Histories
  BY DEF IInv
<1>2. ASSUME NEW s \in Sessions, Send(s) \/ SendFails(s) PROVE Settled'
  <2>1. /\ Range(EventsOf(s)) = {e \in Range(batch) : SessionOf[e] = s}
        /\ Range(engine \o EventsOf(s)) = Range(engine) \cup Range(EventsOf(s))
    BY Ranges
  <2>2. /\ UNCHANGED batch /\ pc = "send" /\ todo' = todo \ {s}
        /\ Range(engine) \cup givenUp \subseteq Range(engine') \cup givenUp'
        /\ Range(EventsOf(s)) \subseteq Range(engine') \cup givenUp'
    BY <1>2, <2>1 DEF Send, SendFails
  <2>3. SUFFICES ASSUME NEW e \in Range(batch), SessionOf[e] \notin todo \ {s}
                 PROVE  e \in Range(engine') \cup givenUp'
    BY <2>2 DEF Settled
  <2>4. CASE SessionOf[e] = s
    BY <2>1, <2>2, <2>4
  <2>5. CASE SessionOf[e] \notin todo
    BY <1>1, <2>2, <2>5 DEF Settled
  <2>. QED  BY <2>3, <2>4, <2>5
<1>3. CASE FlushStarts
  <2>1. batch' = batch /\ todo' = SessionsOf(batch)
    BY <1>3 DEF FlushStarts
  <2>. QED  BY <2>1 DEF Settled, SessionsOf
<1>4. CASE pc' # "send"
  BY <1>4 DEF Settled
<1>5. CASE UNCHANGED <<pc, batch, todo, engine, givenUp>>
  BY <1>1, <1>5 DEF Settled
<1>. QED  BY <1>2, <1>3, <1>4, <1>5, Steps, FlushWindow
     DEF Submit, TakeEvent, Receive, DrainEvent, Elsewhere, SubmitDrops, Stop, Tick, Done, Drained, CooldownEnds, vars, outcome

\* Stop fixes what was accepted before it; the channel is empty when the drain ends,
\* and only a later event gets in it.
LEMMA DrainedOfStep ==
  ASSUME IInv, [Next]_vars
  PROVE  DrainedOf'
<1>1. DrainedOf /\ Control /\ Histories
  BY DEF IInv
<1>2. ASSUME NEW e \in Events, Submit(e) PROVE DrainedOf'
  <2>1. Range(queue') = Range(queue) \cup {e} /\ e \notin Range(accepted) /\ UNCHANGED <<before, final>>
    BY <1>2, Ranges DEF Submit, Fresh, stopping
  <2>. QED  BY <1>1, <2>1 DEF DrainedOf, Histories
<1>3. CASE TakeEvent \/ DrainEvent
  <2>1. UNCHANGED <<before, final>> /\ Range(queue') \subseteq Range(queue)
    BY <1>3, Ranges DEF TakeEvent, DrainEvent, Receive, stopping
  <2>. QED  BY <1>1, <2>1 DEF DrainedOf
<1>4. CASE Drained
  <2>1. Range(queue') = {}
    BY <1>4 DEF Drained, channel, Range
  <2>. QED  BY <2>1 DEF DrainedOf
<1>5. CASE Stop
  <2>1. ~final /\ UNCHANGED final
    BY <1>1, <1>5 DEF Stop, Control
  <2>. QED  BY <2>1 DEF DrainedOf
<1>6. CASE UNCHANGED <<queue, before, final>>
  BY <1>1, <1>6 DEF DrainedOf
<1>. QED  BY <1>2, <1>3, <1>4, <1>5, <1>6, Steps, FlushWindow
     DEF Elsewhere, SubmitDrops, Tick, Done, FlushStarts, CooldownEnds, Send, SendFails, vars, stopping, channel

\* The end of a flush gives the batch up, or all its sessions are settled.
LEMMA SomewhereStep ==
  ASSUME IInv, [Next]_vars
  PROVE  AllAreSomewhere'
<1>1. AllAreSomewhere /\ Settled
  BY DEF IInv
<1>2. ASSUME NEW e \in Events, Submit(e) PROVE AllAreSomewhere'
  <2>1. Range(accepted') = Range(accepted) \cup {e} /\ Range(queue') = Range(queue) \cup {e}
        /\ UNCHANGED <<batch, engine, givenUp>>
    BY <1>2, Ranges DEF Submit, outcome
  <2>. QED  BY <1>1, <2>1 DEF AllAreSomewhere
<1>3. CASE TakeEvent \/ DrainEvent
  <2>1. UNCHANGED <<accepted, engine, givenUp>> /\ Receive
    BY <1>3 DEF TakeEvent, DrainEvent, Receive, outcome
  <2>. QED  BY <1>1, <2>1, Ranges DEF AllAreSomewhere
<1>4. CASE FlushRefused \/ FlushUnconnected
  <2>1. givenUp' = givenUp \cup Range(batch) /\ FlushOver
    BY <1>4 DEF FlushRefused, FlushUnconnected, FlushOver
  <2>. QED  BY <1>1, <2>1, FlushWindow DEF AllAreSomewhere
<1>5. CASE FlushEnds
  <2>1. UNCHANGED givenUp /\ pc = "send" /\ todo = {} /\ FlushOver
    BY <1>5 DEF FlushEnds, FlushOver, outcome
  <2>2. Range(batch) \subseteq Range(engine) \cup givenUp
    BY <1>1, <2>1 DEF Settled
  <2>. QED  BY <1>1, <2>1, <2>2, FlushWindow DEF AllAreSomewhere
<1>6. ASSUME NEW s \in Sessions, Send(s) \/ SendFails(s) PROVE AllAreSomewhere'
  <2>1. /\ Range(EventsOf(s)) \subseteq Range(batch)
        /\ Range(engine \o EventsOf(s)) = Range(engine) \cup Range(EventsOf(s))
    BY Ranges
  <2>2. /\ UNCHANGED <<accepted, queue, batch>>
        /\ Range(engine) \subseteq Range(engine') /\ Range(engine') \subseteq Range(engine) \cup Range(batch)
        /\ givenUp \subseteq givenUp' /\ givenUp' \subseteq givenUp \cup Range(batch)
    BY <1>6, <2>1 DEF Send, SendFails, channel
  <2>. QED  BY <1>1, <2>2 DEF AllAreSomewhere
<1>7. CASE UNCHANGED <<accepted, queue, batch, engine, givenUp>>
  BY <1>1, <1>7 DEF AllAreSomewhere
<1>. QED  BY <1>2, <1>3, <1>4, <1>5, <1>6, <1>7, Steps
     DEF FlushOver, Elsewhere, SubmitDrops, Stop, Tick, Done, Drained, FlushStarts, CooldownEnds, vars, outcome, channel

LEMMA Inductive == IInv /\ [Next]_vars => IInv'
BY SequencesStep, FlagsStep, ControlStep, BreakerStep, WindowStep, HistoriesStep, EnginePastStep,
   OrderedStep, SettledStep, DrainedOfStep, SomewhereStep DEF IInv

LEMMA Invariance == Spec => []IInv
BY InitIInv, Inductive, PTL DEF Spec

-----------------------------------------------------------------------------
(***************************************************************************)
(* The theorems.                                                           *)
(***************************************************************************)
\* Every variable keeps its type, and the channel and the batch their bounds
\* (NewAnalysisForwarder:64-84).
THEOREM TypeCorrect == Spec => []TypeOK
<1>1. IInv => TypeOK
  <2>. SUFFICES ASSUME IInv PROVE TypeOK
    OBVIOUS
  <2>1. SequencesOk /\ Flags /\ Control /\ Breaker /\ Histories /\ AllAreSomewhere
    BY DEF IInv
  <2>2. Range(accepted) \subseteq Events
    BY <2>1, Domains DEF SequencesOk, Range
  <2>3. cancelled \in BOOLEAN /\ final \in BOOLEAN /\ allOK \in BOOLEAN /\ client \in BOOLEAN /\ cooling \in BOOLEAN
    BY <2>1, Zenon DEF Flags
  <2>4. Range(queue) \subseteq Range(accepted) /\ Range(batch) \subseteq Range(accepted)
    BY <2>1 DEF AllAreSomewhere
  <2>5. /\ Len(queue) <= QueueCap /\ pc \in {"select", "flush", "send", "drain", "done"}
        /\ (pc # "drain" /\ ~final => Len(batch) <= BatchSize)
    BY <2>1 DEF Control
  <2>6. circuit \in {"closed", "open"} /\ failures \in 0 .. Threshold
    BY <2>1 DEF Breaker
  <2>7. /\ dropped \subseteq Events \ Range(accepted) /\ before \subseteq Range(accepted)
        /\ todo \subseteq SessionsOf(batch) /\ givenUp \subseteq Range(accepted)
    BY <2>1 DEF Histories
  <2>. QED  BY <2>2, <2>3, <2>4, <2>5, <2>6, <2>7, Zenon DEF TypeOK
<1>. QED  BY Invariance, <1>1, PTL

\* Every event put in the channel is in it, in the batch, at the engine or was given
\* up, and when the batcher has returned none that was accepted before Stop is left
\* behind (runBatcher:121-149, drainAndFlush:152-164, Stop:110-118).
THEOREM NothingEverVanishes == Spec => []NothingVanishes
<1>1. IInv => NothingVanishes
  <2>. SUFFICES ASSUME IInv PROVE NothingVanishes
    OBVIOUS
  <2>1. AllAreSomewhere /\ DrainedOf /\ Control
    BY DEF IInv
  <2>2. pc = "done" => before \cap Range(queue) = {} /\ Range(batch) = {}
    BY <2>1 DEF DrainedOf, Control, Range
  <2>. QED  BY <2>1, <2>2 DEF NothingVanishes, StopDrains, AllAreSomewhere
<1>. QED  BY Invariance, <1>1, PTL

\* The engine sees the events of each session in the order in which they were
\* submitted and none twice, and no call is made past an open breaker, one that
\* cools down or one with Threshold failures (flush:184-198, circuitAllows:231-245).
THEOREM CallsAlwaysInOrder == Spec => []CallsInOrder
<1>1. IInv => CallsInOrder
  <2>. SUFFICES ASSUME IInv PROVE CallsInOrder
    OBVIOUS
  <2>1. EnginePast /\ Ordered /\ Breaker
    BY DEF IInv
  <2>2. \A i \in DOMAIN engine :
          PositionOf(engine[i]) \in DOMAIN accepted /\ accepted[PositionOf(engine[i])] = engine[i]
    BY <2>1 DEF EnginePast, PositionOf
  <2>3. SessionOrder
    BY <2>1, <2>2 DEF Ordered, SessionOrder
  <2>4. BreakerHolds
    BY <2>1 DEF Breaker, BreakerHolds
  <2>. QED  BY <2>3, <2>4 DEF CallsInOrder
<1>. QED  BY Invariance, <1>1, PTL
=============================================================================
