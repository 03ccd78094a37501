--------------------------- MODULE Analyzer_proofs ---------------------------
(***************************************************************************)
(* Theorems about Analyzer for every set of events, keys and files, every  *)
(* limit of the detector and every number of crashes and faults, and about *)
(* the three detectors it runs (Detectors) for every session, vocabulary,  *)
(* window and threshold.                                                   *)
(***************************************************************************)
EXTENDS Analyzer, Detectors, SequenceTheorems, FiniteSetTheorems, WellFoundedInduction, TLAPS

(***************************************************************************)
(* The inductive invariant.                                                *)
(***************************************************************************)
Unit == [ev : Events, part : {"head", "tail"}]

\* A file holds the lines of its own events, each head once.
FilesOk ==
  /\ file \in [Files -> Seq(Unit)]
  /\ \A f \in Files : \A p \in DOMAIN file[f] : FileOf[file[f][p].ev] = f
  /\ \A f \in Files : \A p, q \in DOMAIN file[f] :
       file[f][p] = file[f][q] /\ file[f][p].part = "head" => p = q
  /\ writing \in Events \cup {NoEvent} /\ appended \subseteq Events

Control ==
  /\ pc \in {"down", "idle", "next", "write"}
  /\ todo \subseteq Files /\ (pc = "write" => todo # {})
  /\ emitted \subseteq Keys /\ pending \subseteq emitted /\ (pending # {} => pc = "write")
  /\ pc = "down" => emitted = {} /\ failures = [k \in Keys |-> 0]

Counters ==
  /\ failures \in [Keys -> Nat] /\ out \in [Keys -> Nat]
  /\ restarts \in Nat /\ writeErrors \in Nat /\ faults \in Nat

Seen ==
  /\ analysed \subseteq Events /\ IsFiniteSet(analysed)
  /\ cutShort \subseteq Events

\* The whole lines that end at the first n units.
LinesUpTo(units, n) == {units[p].ev : p \in {q \in 1 .. n : ParsesAt(units, 0, q)}}

\* Whatever lies before offset o was read or its line was cut short, as was that
\* of a head just before o.
Covered(units, o, read, cut) ==
  /\ o \in 0 .. Len(units)
  /\ LinesUpTo(units, o) \subseteq read \cup cut
  /\ o > 0 /\ units[o].part = "head" => units[o].ev \in cut

Offsets ==
  /\ cursor \in [Files -> Nat] /\ saved \in [Files -> Nat] /\ readTo \in Nat
  /\ \A f \in Files : /\ Covered(file[f], cursor[f], analysed, cutShort)
                      /\ Covered(file[f], saved[f], analysed, cutShort)
  /\ pc = "write" => /\ Covered(file[Current], readTo, analysed, cutShort)
                     /\ cursor[Current] <= readTo
  /\ pc # "down" => \A f \in Files : saved[f] <= cursor[f]

\* How far this process has fed a file to the detector, and the events before that.
Reach(f) == IF pc = "write" /\ f = Current THEN readTo ELSE cursor[f]
Behind(e) == \E p \in 1 .. Reach(FileOf[e]) : file[FileOf[e]][p] = Head1(e)
Fed == {e \in analysed : Behind(e)}

\* A finding still to come is in reserve.
Budget == \A k \in Keys : out[k] + (IF k \in pending \/ k \notin emitted THEN 1 ELSE 0) <= 1 + restarts

\* While no write failed a process counts no event twice, ...
CountedOnce == writeErrors = 0 => \A k \in Keys : failures[k] <= CallsOf(k, Fed)

RealStorms ==
  writeErrors = 0 => \A k \in Keys : out[k] > 0 \/ k \in emitted => CallsOf(k, analysed) > MaxFailures

\* ... and the first process misses none.
AllCounted == restarts = 0 /\ writeErrors = 0 => \A k \in Keys : CallsOf(k, analysed) <= failures[k]

Remembered == \A k \in Keys : failures[k] > MaxFailures => k \in emitted

Encoded == restarts = 0 /\ writeErrors = 0 => \A k \in emitted : k \in pending \/ out[k] > 0

IInv ==
  /\ FilesOk /\ Control /\ Counters /\ Seen /\ Offsets
  /\ Budget /\ CountedOnce /\ RealStorms /\ AllCounted /\ Remembered /\ Encoded

-----------------------------------------------------------------------------
(***************************************************************************)
(* The files.                                                              *)
(***************************************************************************)
LEMMA LeastExists ==
  ASSUME NEW S \in SUBSET Nat, S # {}
  PROVE  \E m \in S : \A x \in S : m <= x
<1>. DEFINE R == OpToRel(<, Nat)
<1>1. PICK m \in S : \A x \in S : <<x, m>> \notin R
  <2>. HIDE DEF R
  <2>. QED  BY NatLessThanWellFounded, WFMin DEF R
<1>2. \A x \in S : ~(x < m)
  BY <1>1 DEF OpToRel
<1>. QED  BY <1>2

LEMMA MinExists ==
  ASSUME NEW S \in SUBSET Nat, S # {}
  PROVE  Min(S) \in S
<1>1. PICK m \in S : \A x \in S : m <= x
  BY LeastExists
<1>. QED  BY <1>1 DEF Min

LEMMA CurrentIsToDo ==
  ASSUME todo \subseteq Files, todo # {}
  PROVE  Current \in todo
<1>. DEFINE S == {i \in DOMAIN FileOrder : FileOrder[i] \in todo}
<1>1. S \in SUBSET Nat
  BY FileOrderAssumption, LenProperties
<1>2. S # {}
  BY FileOrderAssumption DEF Range
<1>3. Min(S) \in S
  <2>. HIDE DEF S
  <2>. QED  BY <1>1, <1>2, MinExists
<1>. QED  BY <1>3 DEF Current

\* Units of an event go to the end of its file.
LEMMA PutKeeps ==
  ASSUME FilesOk, NEW e \in Events, NEW units \in Seq(Unit), Put(e, units),
         \A i \in DOMAIN units : units[i].ev = e,
         \A i, j \in DOMAIN units : units[i] = units[j] /\ units[i].part = "head" => i = j,
         \A i \in DOMAIN units : units[i].part = "head" => Unwritten(e)
  PROVE  /\ file' \in [Files -> Seq(Unit)]
         /\ \A f \in Files : \A p \in DOMAIN file'[f] : FileOf[file'[f][p].ev] = f
         /\ \A f \in Files : \A p, q \in DOMAIN file'[f] :
              file'[f][p] = file'[f][q] /\ file'[f][p].part = "head" => p = q
         /\ \A f \in Files : Len(file[f]) <= Len(file'[f])
         /\ \A f \in Files : \A p \in 1 .. Len(file[f]) : file'[f][p] = file[f][p]
<1>. DEFINE g == FileOf[e]    s == file[g]    t == s \o units    n == Len(s)    m == Len(units)
<1>1. g \in Files /\ s \in Seq(Unit) /\ file \in [Files -> Seq(Unit)]
  BY EventsAssumption DEF FilesOk
<1>2. n \in Nat /\ m \in Nat /\ DOMAIN s = 1 .. n /\ DOMAIN units = 1 .. m
  BY <1>1, LenProperties
<1>3. /\ t \in Seq(Unit) /\ Len(t) = n + m
      /\ \A i \in 1 .. n + m : t[i] = IF i <= n THEN s[i] ELSE units[i - n]
  BY <1>1, ConcatProperties
<1>4. /\ file' = [f \in Files |-> IF f = g THEN t ELSE file[f]]
      /\ DOMAIN t = 1 .. n + m
  BY <1>1, <1>3, LenProperties DEF Put
<1>5. /\ \A p \in DOMAIN s : FileOf[s[p].ev] = g
      /\ \A p, q \in DOMAIN s : s[p] = s[q] /\ s[p].part = "head" => p = q
  BY <1>1 DEF FilesOk
\* A head among the new units was in no file.
<1>6. ASSUME NEW p \in DOMAIN s, NEW i \in DOMAIN units, s[p] = units[i]
      PROVE  units[i].part # "head"
  <2>. SUFFICES ASSUME units[i].part = "head" PROVE FALSE
    OBVIOUS
  <2>1. units[i] \in Unit
    BY <1>2, ElementOfSeq
  <2>2. units[i] = Head1(e)
    BY <2>1 DEF Unit, Head1
  <2>3. Head1(e) \in Range(s)
    BY <1>6, <2>2 DEF Range
  <2>. QED  BY <1>1, <2>3 DEF Unwritten
<1>. HIDE DEF t, s, n, m
<1>7. \A i \in 1 .. n + m : i \in 1 .. n \/ (i \notin 1 .. n /\ i - n \in 1 .. m /\ t[i] = units[i - n])
  BY <1>2, <1>3
<1>8. \A i \in 1 .. n : i \in 1 .. n + m /\ t[i] = s[i]
  BY <1>2, <1>3
<1>9. \A i \in DOMAIN t : FileOf[t[i].ev] = g
  BY <1>2, <1>4, <1>5, <1>7, <1>8
<1>10. ASSUME NEW i \in DOMAIN t, NEW j \in DOMAIN t, t[i] = t[j], t[i].part = "head"
       PROVE  i = j
  <2>1. CASE i \in 1 .. n /\ j \in 1 .. n
    BY <1>2, <1>5, <1>8, <1>10, <2>1
  <2>2. CASE i \notin 1 .. n /\ j \notin 1 .. n
    <3>1. i - n \in 1 .. m /\ j - n \in 1 .. m /\ t[i] = units[i - n] /\ t[j] = units[j - n]
      BY <1>4, <1>7, <2>2
    <3>2. i - n = j - n
      BY <1>2, <1>10, <3>1
    <3>. QED  BY <1>2, <1>4, <3>2
  <2>3. CASE i \in 1 .. n /\ j \notin 1 .. n
    BY <1>2, <1>4, <1>6, <1>7, <1>8, <1>10, <2>3
  <2>4. CASE i \notin 1 .. n /\ j \in 1 .. n
    BY <1>2, <1>4, <1>6, <1>7, <1>8, <1>10, <2>4
  <2>. QED  BY <2>1, <2>2, <2>3, <2>4
<1>11. \A f \in Files : Len(file[f]) \in Nat
  BY <1>1, LenProperties
<1>12. \A f \in Files : Len(file[f]) <= Len(file'[f])
  BY <1>1, <1>2, <1>3, <1>4, <1>11 DEF n, s
<1>13. \A f \in Files : \A p \in 1 .. Len(file[f]) : file'[f][p] = file[f][p]
  BY <1>1, <1>4, <1>8 DEF n, s
<1>14. file' \in [Files -> Seq(Unit)]
  BY <1>1, <1>3, <1>4
<1>15. \A f \in Files : \A p \in DOMAIN file'[f] : FileOf[file'[f][p].ev] = f
  BY <1>1, <1>4, <1>9 DEF FilesOk
<1>16. \A f \in Files : \A p, q \in DOMAIN file'[f] :
         file'[f][p] = file'[f][q] /\ file'[f][p].part = "head" => p = q
  BY <1>1, <1>4, <1>10 DEF FilesOk
<1>. QED  BY <1>12, <1>13, <1>14, <1>15, <1>16

\* The ingester's steps keep the files what they are, and they only grow.
LEMMA IngestKeeps ==
  ASSUME FilesOk, Ingest
  PROVE  /\ FilesOk'
         /\ \A f \in Files : Len(file[f]) <= Len(file'[f])
         /\ \A f \in Files : \A p \in 1 .. Len(file[f]) : file'[f][p] = file[f][p]
<1>1. ASSUME NEW e \in Events
      PROVE  /\ Head1(e) \in Unit /\ Head1(e).ev = e /\ Head1(e).part = "head"
             /\ Tail1(e) \in Unit /\ Tail1(e).ev = e /\ Tail1(e).part = "tail"
  BY DEF Unit, Head1, Tail1
<1>2. ASSUME NEW e \in Events, AppendLine(e) PROVE
        /\ FilesOk'
        /\ \A f \in Files : Len(file[f]) <= Len(file'[f])
        /\ \A f \in Files : \A p \in 1 .. Len(file[f]) : file'[f][p] = file[f][p]
  <2>. DEFINE u == <<Head1(e), Tail1(e)>>
  <2>1. /\ u \in Seq(Unit) /\ DOMAIN u = {1, 2} /\ u[1] = Head1(e) /\ u[2] = Tail1(e)
    BY <1>1
  <2>2. Put(e, u) /\ Unwritten(e) /\ appended' = appended \cup {e} /\ writing' = writing
    BY <1>2 DEF AppendLine
  <2>. HIDE DEF u
  <2>3. /\ \A i \in DOMAIN u : u[i].ev = e
        /\ \A i, j \in DOMAIN u : u[i] = u[j] /\ u[i].part = "head" => i = j
    BY <1>1, <2>1
  <2>. QED  BY <2>1, <2>2, <2>3, PutKeeps DEF FilesOk
<1>3. ASSUME NEW e \in Events, AppendHead(e) PROVE
        /\ FilesOk'
        /\ \A f \in Files : Len(file[f]) <= Len(file'[f])
        /\ \A f \in Files : \A p \in 1 .. Len(file[f]) : file'[f][p] = file[f][p]
  <2>. DEFINE u == <<Head1(e)>>
  <2>1. u \in Seq(Unit) /\ DOMAIN u = {1} /\ u[1] = Head1(e)
    BY <1>1
  <2>2. Put(e, u) /\ Unwritten(e) /\ appended' = appended /\ writing' = e
    BY <1>3 DEF AppendHead
  <2>. HIDE DEF u
  <2>. QED  BY <1>1, <2>1, <2>2, PutKeeps DEF FilesOk
<1>4. ASSUME AppendTail PROVE
        /\ FilesOk'
        /\ \A f \in Files : Len(file[f]) <= Len(file'[f])
        /\ \A f \in Files : \A p \in 1 .. Len(file[f]) : file'[f][p] = file[f][p]
  <2>. DEFINE u == <<Tail1(writing)>>
  <2>1. writing \in Events
    BY <1>4 DEF AppendTail, FilesOk
  <2>2. u \in Seq(Unit) /\ DOMAIN u = {1} /\ u[1] = Tail1(writing)
    BY <1>1, <2>1
  <2>3. Put(writing, u) /\ appended' = appended \cup {writing} /\ writing' = NoEvent
    BY <1>4 DEF AppendTail
  <2>. HIDE DEF u
  <2>4. \A i \in DOMAIN u : u[i].ev = writing /\ u[i].part # "head"
    BY <1>1, <2>1, <2>2
  <2>5. /\ \A i, j \in DOMAIN u : u[i] = u[j] /\ u[i].part = "head" => i = j
        /\ \A i \in DOMAIN u : u[i].part = "head" => Unwritten(writing)
    BY <2>4
  <2>. QED  BY <2>1, <2>2, <2>3, <2>4, <2>5, PutKeeps DEF FilesOk
<1>5. CASE IngesterDies
  <2>1. UNCHANGED <<file, appended>> /\ writing' = NoEvent
    BY <1>5 DEF IngesterDies
  <2>2. \A f \in Files : Len(file[f]) \in Nat
    BY LenProperties DEF FilesOk
  <2>. QED  BY <2>1, <2>2 DEF FilesOk
<1>. QED  BY <1>2, <1>3, <1>4, <1>5 DEF Ingest

-----------------------------------------------------------------------------
(***************************************************************************)
(* Reading.                                                                *)
(***************************************************************************)
LEMMA WholeLinesAreLinesUpTo ==
  ASSUME NEW units \in Seq(Unit), NEW n \in 0 .. Len(units)
  PROVE  EventsFrom(SubSeq(units, 1, n), 0) = LinesUpTo(units, n)
<1>. DEFINE s == SubSeq(units, 1, n)
<1>1. n \in Nat /\ Len(units) \in Nat /\ n <= Len(units)
  BY LenProperties
<1>2. Len(s) = n /\ \A i \in 1 .. n : s[i] = units[i]
  BY <1>1, SubSeqProperties
<1>. HIDE DEF s
<1>3. ASSUME NEW q \in 1 .. n PROVE ParsesAt(s, 0, q) <=> ParsesAt(units, 0, q)
  <2>1. CASE q - 1 > 0
    <3>1. q - 1 \in 1 .. n /\ s[q - 1] = units[q - 1] /\ s[q] = units[q]
      BY <1>1, <1>2, <2>1
    <3>2. q - 2 = 0 \/ q - 2 \in 1 .. n
      BY <1>1, <2>1
    <3>3. q - 2 = 0 \/ s[q - 2] = units[q - 2]
      BY <1>2, <3>2
    <3>. QED  BY <3>1, <3>3 DEF ParsesAt
  <2>2. CASE ~(q - 1 > 0)
    BY <2>2 DEF ParsesAt
  <2>. QED  BY <2>1, <2>2
<1>4. 0 + 1 .. Len(s) = 1 .. n
  BY <1>1, <1>2
<1>5. {q \in 0 + 1 .. Len(s) : ParsesAt(s, 0, q)} = {q \in 1 .. n : ParsesAt(units, 0, q)}
  BY <1>3, <1>4
<1>6. EventsFrom(s, 0) \subseteq LinesUpTo(units, n)
  BY <1>2, <1>5 DEF EventsFrom, LinesUpTo
<1>7. LinesUpTo(units, n) \subseteq EventsFrom(s, 0)
  BY <1>2, <1>5 DEF EventsFrom, LinesUpTo
<1>. QED  BY <1>6, <1>7 DEF s

\* They do not change while the file grows.
LEMMA LinesUpToKept ==
  ASSUME NEW u, NEW v, NEW n \in Nat, \A i \in 1 .. n : u[i] = v[i]
  PROVE  LinesUpTo(u, n) = LinesUpTo(v, n)
<1>1. ASSUME NEW q \in 1 .. n PROVE ParsesAt(u, 0, q) <=> ParsesAt(v, 0, q)
  <2>1. CASE q - 1 > 0
    <3>1. q - 1 \in 1 .. n /\ u[q - 1] = v[q - 1] /\ u[q] = v[q]
      BY <2>1
    <3>2. q - 2 = 0 \/ q - 2 \in 1 .. n
      BY <2>1
    <3>3. q - 2 = 0 \/ u[q - 2] = v[q - 2]
      BY <3>2
    <3>. QED  BY <3>1, <3>3 DEF ParsesAt
  <2>2. CASE ~(q - 1 > 0)
    BY <2>2 DEF ParsesAt
  <2>. QED  BY <2>1, <2>2
<1>2. {q \in 1 .. n : ParsesAt(u, 0, q)} = {q \in 1 .. n : ParsesAt(v, 0, q)}
  BY <1>1
<1>3. LinesUpTo(u, n) \subseteq LinesUpTo(v, n)
  BY <1>2 DEF LinesUpTo
<1>4. LinesUpTo(v, n) \subseteq LinesUpTo(u, n)
  BY <1>2 DEF LinesUpTo
<1>. QED  BY <1>3, <1>4

\* What lies before an offset stays covered while the file grows and more is read.
LEMMA CoveredKept ==
  ASSUME NEW u \in Seq(Unit), NEW v \in Seq(Unit), NEW o, NEW A, NEW C, NEW B, NEW D,
         Covered(u, o, A, C), A \subseteq B, C \subseteq D,
         Len(u) <= Len(v), \A p \in 1 .. Len(u) : v[p] = u[p]
  PROVE  Covered(v, o, B, D)
<1>1. Len(u) \in Nat /\ Len(v) \in Nat
  BY LenProperties
<1>2. o \in Nat /\ o \in 0 .. Len(u) /\ o \in 0 .. Len(v)
  BY <1>1 DEF Covered
<1>3. \A i \in 1 .. o : v[i] = u[i]
  BY <1>1, <1>2
<1>4. LinesUpTo(u, o) = LinesUpTo(v, o)
  BY <1>2, <1>3, LinesUpToKept
<1>5. LinesUpTo(v, o) \subseteq B \cup D
  BY <1>4 DEF Covered
<1>6. o > 0 => v[o] = u[o]
  BY <1>2, <1>3
<1>. QED  BY <1>2, <1>5, <1>6 DEF Covered

LEMMA NothingIsCovered ==
  ASSUME NEW u \in Seq(Unit), NEW A, NEW C
  PROVE  Covered(u, 0, A, C)
<1>1. 0 \in 0 .. Len(u)
  BY LenProperties
<1>2. LinesUpTo(u, 0) = {}
  BY DEF LinesUpTo
<1>. QED  BY <1>1, <1>2 DEF Covered

\* What is read from a covered offset covers the file: a line the offset cuts in
\* two is one of which the head was taken.
LEMMA ReadingCovers ==
  ASSUME NEW units \in Seq(Unit), NEW o, NEW S, NEW C, Covered(units, o, S, C)
  PROVE  Covered(units, Len(units), S \cup EventsFrom(units, o), C \cup LeftUnfinished(units))
<1>1. Len(units) \in Nat /\ o \in Nat /\ Len(units) \in 0 .. Len(units)
  BY LenProperties DEF Covered
<1>2. Len(units) > 0 => units # <<>>
  OBVIOUS
<1>3. Len(units) > 0 /\ units[Len(units)].part = "head" => units[Len(units)].ev \in LeftUnfinished(units)
  BY <1>2 DEF LeftUnfinished
<1>. SUFFICES ASSUME NEW e \in LinesUpTo(units, Len(units))
              PROVE  e \in S \cup EventsFrom(units, o) \cup C
  BY <1>1, <1>3 DEF Covered
<1>4. PICK q \in 1 .. Len(units) : ParsesAt(units, 0, q) /\ e = units[q].ev
  BY DEF LinesUpTo
<1>5. CASE q <= o
  <2>1. q \in 1 .. o
    BY <1>1, <1>5
  <2>2. e \in LinesUpTo(units, o)
    BY <1>4, <2>1 DEF LinesUpTo
  <2>. QED  BY <2>2 DEF Covered
<1>6. CASE q - 1 = o
  <2>1. o > 0 /\ units[o] = Head1(e)
    BY <1>4, <1>6 DEF ParsesAt
  <2>. QED  BY <2>1 DEF Head1, Covered
<1>7. CASE q - 1 > o
  <2>1. q - 2 = 0 => q - 2 = o
    BY <1>1, <1>7
  <2>2. ParsesAt(units, o, q)
    BY <1>4, <1>7, <2>1 DEF ParsesAt
  <2>3. q \in o + 1 .. Len(units)
    BY <1>1, <1>7
  <2>4. e \in EventsFrom(units, o)
    BY <1>4, <2>2, <2>3 DEF EventsFrom
  <2>. QED  BY <2>4
<1>. QED  BY <1>1, <1>5, <1>6, <1>7

\* What is read is finite, and each event's head stands behind the offset, before the end.
LEMMA ReadEvents ==
  ASSUME NEW units \in Seq(Unit), NEW o \in Nat
  PROVE  /\ IsFiniteSet(EventsFrom(units, o))
         /\ EventsFrom(units, o) \subseteq Events
         /\ \A e \in EventsFrom(units, o) : \E p \in 1 .. Len(units) : p > o /\ units[p] = Head1(e)
<1>1. Len(units) \in Nat /\ \A i \in 1 .. Len(units) : units[i] \in Unit
  BY LenProperties, ElementOfSeq
<1>. DEFINE I == o + 1 .. Len(units)
            P == {q \in I : ParsesAt(units, o, q)}
<1>2. IsFiniteSet(I)
  <2>1. o + 1 \in Int /\ Len(units) \in Int
    BY <1>1
  <2>. QED  BY <2>1, FS_Interval
<1>3. IsFiniteSet(P)
  <2>1. P \subseteq I
    OBVIOUS
  <2>. QED  BY <1>2, <2>1, FS_Subset
<1>4. IsFiniteSet({units[p].ev : p \in P})
  <2>. DEFINE T == {units[p].ev : p \in P}
              g == [p \in P |-> units[p].ev]
  <2>. HIDE DEF P
  <2>1. g \in Surjection(P, T)
    BY DEF Surjection
  <2>. HIDE DEF g, T
  <2>2. IsFiniteSet(T)
    BY <1>3, <2>1, FS_Surjection
  <2>. QED  BY <2>2 DEF T
<1>5. EventsFrom(units, o) \subseteq Events
  <2>. SUFFICES ASSUME NEW q \in P PROVE units[q].ev \in Events
    BY DEF EventsFrom
  <2>1. q \in 1 .. Len(units)
    BY <1>1
  <2>. QED  BY <1>1, <2>1 DEF Unit
<1>6. ASSUME NEW e \in EventsFrom(units, o)
      PROVE  \E p \in 1 .. Len(units) : p > o /\ units[p] = Head1(e)
  <2>1. PICK q \in P : e = units[q].ev
    BY DEF EventsFrom
  <2>2. q - 1 > o /\ units[q - 1] = Head1(e)
    BY <2>1 DEF ParsesAt
  <2>3. q - 1 \in 1 .. Len(units)
    BY <1>1, <2>2
  <2>. QED  BY <2>2, <2>3
<1>. QED  BY <1>4, <1>5, <1>6 DEF EventsFrom

-----------------------------------------------------------------------------
(***************************************************************************)
(* Counting calls.                                                         *)
(***************************************************************************)
LEMMA CallsAreCounted ==
  ASSUME NEW k, NEW S, IsFiniteSet(S)
  PROVE  CallsOf(k, S) \in Nat /\ IsFiniteSet({e \in S : KeyOf[e] = k})
<1>1. {e \in S : KeyOf[e] = k} \subseteq S
  OBVIOUS
<1>. QED  BY <1>1, FS_Subset, FS_CardinalityType DEF CallsOf

LEMMA MoreCalls ==
  ASSUME NEW k, NEW S, NEW T, S \subseteq T, IsFiniteSet(T)
  PROVE  CallsOf(k, S) <= CallsOf(k, T) /\ CallsOf(k, S) \in Nat /\ CallsOf(k, T) \in Nat
<1>1. {e \in S : KeyOf[e] = k} \subseteq {e \in T : KeyOf[e] = k}
  OBVIOUS
<1>2. IsFiniteSet(S)
  BY FS_Subset
<1>. QED  BY <1>1, <1>2, CallsAreCounted, FS_Subset DEF CallsOf

LEMMA CallsTogether ==
  ASSUME NEW k, NEW S, NEW T, IsFiniteSet(S), IsFiniteSet(T)
  PROVE  /\ CallsOf(k, S \cup T) <= CallsOf(k, S) + CallsOf(k, T)
         /\ S \cap T = {} => CallsOf(k, S \cup T) = CallsOf(k, S) + CallsOf(k, T)
<1>. DEFINE A == {e \in S : KeyOf[e] = k}
            B == {e \in T : KeyOf[e] = k}
<1>1. {e \in S \cup T : KeyOf[e] = k} = A \cup B
  OBVIOUS
<1>2. IsFiniteSet(A) /\ IsFiniteSet(B)
  BY CallsAreCounted
<1>3. S \cap T = {} => A \cap B = {}
  OBVIOUS
<1>4. /\ Cardinality(A) \in Nat /\ Cardinality(B) \in Nat /\ Cardinality(A \cap B) \in Nat
      /\ Cardinality({}) = 0
  <2>1. IsFiniteSet(A \cap B)
    <3>1. A \cap B \subseteq A
      OBVIOUS
    <3>. QED  BY <1>2, <3>1, FS_Subset
  <2>. QED  BY <1>2, <2>1, FS_CardinalityType, FS_EmptySet
<1>. HIDE DEF A, B
<1>5. Cardinality(A \cup B) = Cardinality(A) + Cardinality(B) - Cardinality(A \cap B)
  BY <1>2, FS_Union
<1>6. CallsOf(k, S) = Cardinality(A) /\ CallsOf(k, T) = Cardinality(B)
      /\ CallsOf(k, S \cup T) = Cardinality(A \cup B)
  BY <1>1 DEF CallsOf, A, B
<1>7. S \cap T = {} => Cardinality(A \cap B) = 0
  BY <1>3, <1>4
<1>. QED  BY <1>4, <1>5, <1>6, <1>7

-----------------------------------------------------------------------------
(***************************************************************************)
(* Every step keeps the invariant.                                         *)
(***************************************************************************)
LEMMA IngestTouches ==
  ASSUME Ingest, faults \in Nat
  PROVE  /\ UNCHANGED <<memory, saved, out, analysed, cutShort, restarts, writeErrors>>
         /\ faults' \in Nat
<1>1. ASSUME NEW e \in Events, AppendLine(e)
      PROVE  UNCHANGED <<memory, saved, out, history>>
  BY <1>1 DEF AppendLine
<1>2. ASSUME NEW e \in Events, AppendHead(e)
      PROVE  UNCHANGED <<memory, saved, out, history>>
  BY <1>2 DEF AppendHead
<1>3. AppendTail => UNCHANGED <<memory, saved, out, history>>
  BY DEF AppendTail
<1>4. UNCHANGED history => UNCHANGED <<analysed, cutShort, restarts, writeErrors, faults>>
  BY DEF history
<1>5. CASE IngesterDies
  BY <1>5 DEF IngesterDies
<1>. QED  BY <1>1, <1>2, <1>3, <1>4, <1>5 DEF Ingest

LEMMA NewEventsAre ==
  ASSUME FilesOk, Control, Offsets, todo # {}
  PROVE  /\ Current \in Files /\ Current \in todo
         /\ file[Current] \in Seq(Unit) /\ cursor[Current] \in Nat
         /\ IsFiniteSet(NewEvents) /\ NewEvents \subseteq Events
         /\ \A e \in NewEvents : \E p \in 1 .. Len(file[Current]) :
              p > cursor[Current] /\ file[Current][p] = Head1(e)
<1>1. Current \in todo /\ Current \in Files
  BY CurrentIsToDo DEF Control
<1>2. file[Current] \in Seq(Unit) /\ cursor[Current] \in Nat
  BY <1>1 DEF FilesOk, Offsets
<1>. HIDE DEF Current
<1>. QED  BY <1>1, <1>2, ReadEvents DEF NewEvents

LEMMA FilesInductive ==
  ASSUME FilesOk, Counters, [Next]_vars
  PROVE  /\ FilesOk'
         /\ \A f \in Files : Len(file[f]) \in Nat /\ Len(file[f]) <= Len(file'[f])
         /\ \A f \in Files : \A p \in 1 .. Len(file[f]) : file'[f][p] = file[f][p]
<1>1. \A f \in Files : Len(file[f]) \in Nat
  BY LenProperties DEF FilesOk
<1>2. CASE Ingest
  BY <1>1, <1>2, IngestKeeps
<1>3. CASE Poll \/ Fault \/ Die \/ Start \/ UNCHANGED vars
  <2>1. UNCHANGED ingester
    BY <1>3 DEF Poll, Fault, Die, Start, StartPoll, NothingNew, ReadAndDetect, EncodeFinding,
                SetCursor, SaveCursor, ReadFails, WriteFails, SaveFails, vars
  <2>. QED  BY <1>1, <2>1 DEF FilesOk, ingester
<1>. QED  BY <1>2, <1>3 DEF Next

LEMMA ControlInductive ==
  ASSUME FilesOk, Control, Counters, Offsets, [Next]_vars
  PROVE  Control'
<1>. USE DEF Control, memory
<1>1. CASE Ingest
  BY <1>1, IngestTouches DEF Counters
<1>2. CASE StartPoll \/ NothingNew \/ SetCursor \/ SaveCursor
  BY <1>2 DEF StartPoll, NothingNew, SetCursor, SaveCursor
<1>3. CASE ReadAndDetect
  BY <1>3 DEF ReadAndDetect, Storms
<1>4. ASSUME NEW k \in Keys, EncodeFinding(k) PROVE Control'
  BY <1>4 DEF EncodeFinding
<1>5. CASE Fault
  BY <1>5 DEF Fault, ReadFails, WriteFails, SaveFails
<1>6. CASE Die
  BY <1>6 DEF Die
<1>7. CASE Start
  BY <1>7 DEF Start
<1>8. CASE UNCHANGED vars
  BY <1>8 DEF vars
<1>. QED  BY <1>1, <1>2, <1>3, <1>4, <1>5, <1>6, <1>7, <1>8 DEF Next, Poll

LEMMA CountersInductive ==
  ASSUME FilesOk, Control, Counters, Seen, Offsets, [Next]_vars
  PROVE  Counters' /\ Seen'
<1>. USE DEF Counters, Seen, history
<1>1. CASE Ingest
  BY <1>1, IngestTouches DEF memory
<1>2. CASE StartPoll \/ NothingNew \/ SetCursor \/ SaveCursor
  BY <1>2 DEF StartPoll, NothingNew, SetCursor, SaveCursor
<1>3. CASE ReadAndDetect
  <2>1. todo # {} /\ analysed' = analysed \cup NewEvents
        /\ cutShort' = cutShort \cup LeftUnfinished(file[Current])
        /\ failures' = [k \in Keys |-> failures[k] + CallsOf(k, NewEvents)]
        /\ UNCHANGED <<out, restarts, writeErrors, faults>>
    BY <1>3 DEF ReadAndDetect
  <2>2. IsFiniteSet(NewEvents) /\ NewEvents \subseteq Events /\ Current \in Files
    BY <2>1, NewEventsAre
  <2>3. IsFiniteSet(analysed')
    BY <2>1, <2>2, FS_Union
  <2>4. LeftUnfinished(file[Current]) \subseteq Events
    <3>. HIDE DEF Current
    <3>1. file[Current] \in Seq(Unit)
      BY <2>2 DEF FilesOk
    <3>2. file[Current] # <<>> => file[Current][Len(file[Current])] \in Unit
      BY <3>1
    <3>. QED  BY <3>2 DEF LeftUnfinished, Unit
  <2>5. \A k \in Keys : CallsOf(k, NewEvents) \in Nat
    BY <2>2, CallsAreCounted
  <2>6. failures' \in [Keys -> Nat]
    BY <2>1, <2>5
  <2>. QED  BY <2>1, <2>2, <2>3, <2>4, <2>6
<1>4. ASSUME NEW k \in Keys, EncodeFinding(k) PROVE Counters' /\ Seen'
  BY <1>4 DEF EncodeFinding
<1>5. CASE Fault
  BY <1>5 DEF Fault, ReadFails, WriteFails, SaveFails
<1>6. CASE Die
  BY <1>6 DEF Die
<1>7. CASE Start
  BY <1>7 DEF Start
<1>8. CASE UNCHANGED vars
  BY <1>8 DEF vars, memory
<1>. QED  BY <1>1, <1>2, <1>3, <1>4, <1>5, <1>6, <1>7, <1>8 DEF Next, Poll

LEMMA StaysCovered ==
  ASSUME FilesOk, Control, Counters, Seen, [Next]_vars, NEW f \in Files, NEW o,
         Covered(file[f], o, analysed, cutShort)
  PROVE  Covered(file'[f], o, analysed', cutShort')
<1>1. FilesOk' /\ Len(file[f]) <= Len(file'[f]) /\ \A p \in 1 .. Len(file[f]) : file'[f][p] = file[f][p]
  BY FilesInductive
<1>2. file[f] \in Seq(Unit) /\ file'[f] \in Seq(Unit)
  BY <1>1 DEF FilesOk
<1>3. analysed \subseteq analysed' /\ cutShort \subseteq cutShort'
  <2>1. CASE Ingest
    BY <2>1, IngestTouches DEF Counters
  <2>2. CASE ReadAndDetect
    BY <2>2 DEF ReadAndDetect
  <2>3. CASE UNCHANGED <<analysed, cutShort>>
    BY <2>3
  <2>4. CASE UNCHANGED history
    BY <2>4 DEF history
  <2>. QED  BY <2>1, <2>2, <2>3, <2>4
            DEF Next, Poll, Fault, Die, Start, StartPoll, NothingNew, EncodeFinding, SetCursor, SaveCursor,
                ReadFails, WriteFails, SaveFails, vars
<1>. QED  BY <1>1, <1>2, <1>3, CoveredKept

LEMMA OffsetsInductive ==
  ASSUME FilesOk, Control, Counters, Seen, Offsets, [Next]_vars
  PROVE  Offsets'
<1>. DEFINE Cov(f, o) == Covered(file[f], o, analysed, cutShort)
            CovNext(f, o) == Covered(file'[f], o, analysed', cutShort')
<1>1. \A f \in Files : \A o : Cov(f, o) => CovNext(f, o)
  BY StaysCovered
<1>2. FilesOk' /\ Control' /\ \A f \in Files : CovNext(f, 0)
  BY FilesInductive, ControlInductive, NothingIsCovered DEF FilesOk
<1>3. /\ cursor \in [Files -> Nat] /\ saved \in [Files -> Nat] /\ readTo \in Nat
      /\ \A f \in Files : Cov(f, cursor[f]) /\ Cov(f, saved[f])
      /\ pc = "write" => Cov(Current, readTo) /\ cursor[Current] <= readTo
      /\ pc # "down" => \A f \in Files : saved[f] <= cursor[f]
  BY DEF Offsets
<1>4. todo' = todo => Current' = Current
  BY DEF Current
<1>5. todo # {} => Current \in Files
  BY CurrentIsToDo DEF Control
<1>. SUFFICES /\ cursor' \in [Files -> Nat] /\ saved' \in [Files -> Nat] /\ readTo' \in Nat
              /\ \A f \in Files : CovNext(f, cursor'[f]) /\ CovNext(f, saved'[f])
              /\ pc' = "write" => CovNext(Current', readTo') /\ cursor'[Current'] <= readTo'
              /\ pc' # "down" => \A f \in Files : saved'[f] <= cursor'[f]
  BY DEF Offsets
<1>. HIDE DEF Cov, CovNext, Current
<1>6. CASE UNCHANGED memory /\ saved' = saved
  BY <1>6, <1>1, <1>3, <1>4, <1>5 DEF memory, Control
<1>7. CASE Ingest
  BY <1>6, <1>7, IngestTouches DEF Counters
<1>8. CASE UNCHANGED vars
  BY <1>6, <1>8 DEF vars
<1>9. CASE StartPoll \/ NothingNew \/ Fault
  <2>1. UNCHANGED <<readTo, cursor, saved>> /\ pc # "down" /\ pc' # "write"
    BY <1>9 DEF StartPoll, NothingNew, Fault, ReadFails, WriteFails, SaveFails
  <2>. QED  BY <1>1, <1>3, <2>1
<1>10. CASE ReadAndDetect
  <2>1. /\ todo # {} /\ pc = "next" /\ todo' = todo /\ UNCHANGED <<file, cursor, saved>>
        /\ readTo' = Len(file[Current])
        /\ analysed' = analysed \cup NewEvents /\ cutShort' = cutShort \cup LeftUnfinished(file[Current])
    BY <1>10 DEF ReadAndDetect, OffsetAfter, ingester
  <2>2. Current \in Files /\ file[Current] \in Seq(Unit)
    BY <1>5, <2>1 DEF FilesOk
  <2>3. Covered(file[Current], cursor[Current], analysed, cutShort)
    BY <1>3, <2>2 DEF Cov
  <2>4. Covered(file[Current], readTo', analysed', cutShort')
    BY <2>1, <2>2, <2>3, ReadingCovers DEF NewEvents
  <2>5. CovNext(Current', readTo')
    BY <1>4, <2>1, <2>4 DEF CovNext
  <2>6. cursor[Current] <= Len(file[Current]) /\ Len(file[Current]) \in Nat
    BY <2>2, <2>3, LenProperties DEF Covered
  <2>. QED  BY <1>1, <1>3, <1>4, <2>1, <2>5, <2>6
<1>11. ASSUME NEW k \in Keys, EncodeFinding(k)
       PROVE  UNCHANGED <<pc, todo, readTo, cursor, saved>>
  BY <1>11 DEF EncodeFinding
<1>12. CASE UNCHANGED <<pc, todo, readTo, cursor, saved>>
  BY <1>12, <1>1, <1>3, <1>4, <1>5 DEF Control
<1>13. CASE SetCursor
  <2>1. /\ pc = "write" /\ pc' = "next" /\ UNCHANGED <<readTo, saved>>
        /\ cursor' = [cursor EXCEPT ![Current] = readTo]
    BY <1>13 DEF SetCursor
  <2>2. Current \in Files
    BY <1>5, <2>1 DEF Control
  <2>3. \A f \in Files : cursor'[f] = IF f = Current THEN readTo ELSE cursor[f]
    BY <1>3, <2>1
  <2>4. cursor' \in [Files -> Nat]
    BY <1>3, <2>1
  <2>5. \A f \in Files : CovNext(f, cursor'[f])
    BY <1>1, <1>3, <2>1, <2>3
  <2>6. \A f \in Files : saved[f] <= cursor'[f]
    <3>. TAKE f \in Files
    <3>1. saved[f] <= cursor[f] /\ saved[f] \in Nat /\ cursor[f] \in Nat
      BY <1>3, <2>1
    <3>. QED  BY <1>3, <2>1, <2>2, <2>3, <3>1
  <2>. QED  BY <1>1, <1>3, <2>1, <2>4, <2>5, <2>6
<1>14. CASE SaveCursor
  <2>1. /\ pc' = "idle" /\ saved' = cursor /\ UNCHANGED <<readTo, cursor>>
    BY <1>14 DEF SaveCursor
  <2>2. \A f \in Files : cursor[f] <= cursor[f]
    BY <1>3
  <2>. QED  BY <1>1, <1>3, <2>1, <2>2
<1>15. CASE Die
  <2>1. /\ pc' = "down" /\ saved' = saved /\ readTo' = 0 /\ cursor' = [f \in Files |-> 0]
    BY <1>15 DEF Die
  <2>. QED  BY <1>1, <1>2, <1>3, <2>1
<1>16. CASE Start
  <2>1. /\ pc' = "idle" /\ saved' = saved /\ readTo' = readTo /\ cursor' = saved
    BY <1>16 DEF Start
  <2>2. \A f \in Files : saved[f] <= saved[f]
    BY <1>3
  <2>. QED  BY <1>1, <1>3, <2>1, <2>2
<1>. QED  BY <1>7, <1>8, <1>9, <1>10, <1>11, <1>12, <1>13, <1>14, <1>15, <1>16 DEF Next, Poll

-----------------------------------------------------------------------------
(***************************************************************************)
(* What this process has fed to the detector.                              *)
(***************************************************************************)
LEMMA ReachIs ==
  ASSUME FilesOk, Control, Offsets, NEW f \in Files
  PROVE  Reach(f) \in Nat /\ Reach(f) <= Len(file[f]) /\ Len(file[f]) \in Nat
<1>1. Len(file[f]) \in Nat
  BY LenProperties DEF FilesOk
<1>2. cursor[f] \in 0 .. Len(file[f])
  BY DEF Offsets, Covered
<1>3. pc = "write" /\ f = Current => readTo \in 0 .. Len(file[f])
  BY DEF Offsets, Covered
<1>. HIDE DEF Current
<1>. QED  BY <1>1, <1>2, <1>3 DEF Reach

\* Only a death, a restart and a failed write set it back.
LEMMA ReachGrows ==
  ASSUME FilesOk, Control, Counters, Seen, Offsets, [Next]_vars,
         ~Die, ~Start, ~WriteFails, NEW f \in Files
  PROVE  Reach(f) <= Reach(f)'
<1>1. Reach(f) \in Nat
  BY ReachIs
<1>2. todo' = todo => Current' = Current
  BY DEF Current
<1>. HIDE DEF Current
<1>. USE DEF Reach
<1>3. CASE UNCHANGED <<pc, todo, readTo, cursor>>
  BY <1>1, <1>2, <1>3
<1>4. CASE Ingest
  BY <1>3, <1>4, IngestTouches DEF Counters, memory
<1>5. CASE UNCHANGED vars
  BY <1>3, <1>5 DEF vars, memory
<1>6. CASE StartPoll \/ NothingNew \/ ReadFails \/ SaveFails \/ SaveCursor
  <2>1. cursor' = cursor /\ pc # "write" /\ pc' # "write"
    BY <1>6 DEF StartPoll, NothingNew, ReadFails, SaveFails, SaveCursor
  <2>. QED  BY <1>1, <2>1
<1>7. CASE ReadAndDetect
  <2>1. /\ pc = "next" /\ pc' = "write" /\ todo' = todo /\ cursor' = cursor
        /\ readTo' = Len(file[Current])
    BY <1>7 DEF ReadAndDetect, OffsetAfter
  <2>2. Reach(f) = cursor[f] /\ Reach(f) <= Len(file[f]) /\ Len(file[f]) \in Nat
    BY <2>1, ReachIs
  <2>. QED  BY <1>1, <1>2, <2>1, <2>2
<1>8. CASE \E k \in Keys : EncodeFinding(k)
  BY <1>3, <1>8 DEF EncodeFinding
<1>9. CASE SetCursor
  <2>1. /\ pc = "write" /\ pc' = "next" /\ cursor' = [cursor EXCEPT ![Current] = readTo]
    BY <1>9 DEF SetCursor
  <2>2. cursor'[f] = IF f = Current THEN readTo ELSE cursor[f]
    BY <2>1 DEF Offsets
  <2>. QED  BY <1>1, <2>1, <2>2
<1>. QED  BY <1>4, <1>5, <1>6, <1>7, <1>8, <1>9 DEF Next, Poll, Fault

LEMMA FedKept ==
  ASSUME FilesOk, Control, Counters, Seen, Offsets, [Next]_vars,
         ~Die, ~Start, ~WriteFails, analysed \subseteq analysed'
  PROVE  Fed \subseteq Fed'
<1>. SUFFICES ASSUME NEW e \in Fed PROVE e \in Fed'
  OBVIOUS
<1>1. e \in analysed /\ e \in Events /\ FileOf[e] \in Files
  BY EventsAssumption DEF Fed, Seen
<1>. DEFINE f == FileOf[e]
<1>2. PICK p \in 1 .. Reach(f) : file[f][p] = Head1(e)
  BY DEF Fed, Behind
<1>3. /\ Reach(f) \in Nat /\ Reach(f) <= Len(file[f]) /\ Len(file[f]) \in Nat
      /\ Reach(f) <= Reach(f)'
  BY <1>1, ReachIs, ReachGrows
<1>4. Reach(f)' \in Nat
  BY <1>1, FilesInductive, ControlInductive, OffsetsInductive, <1>3 DEF Reach, Offsets
<1>5. file'[f][p] = file[f][p]
  BY <1>1, <1>3, FilesInductive
<1>6. p \in 1 .. Reach(f)'
  BY <1>3, <1>4
<1>. QED  BY <1>1, <1>2, <1>5, <1>6 DEF Fed, Behind

\* What is read now was not fed to it before, and is fed to it now.
LEMMA NewIsFed ==
  ASSUME FilesOk, Control, Counters, Seen, Offsets, ReadAndDetect
  PROVE  Fed \cap NewEvents = {} /\ NewEvents \subseteq Fed'
<1>1. /\ pc = "next" /\ pc' = "write" /\ todo # {} /\ todo' = todo /\ file' = file
      /\ readTo' = Len(file[Current]) /\ analysed' = analysed \cup NewEvents
  BY DEF ReadAndDetect, OffsetAfter, ingester
<1>2. Current' = Current
  BY <1>1 DEF Current
<1>3. /\ Current \in Files /\ file[Current] \in Seq(Unit) /\ NewEvents \subseteq Events
      /\ \A e \in NewEvents : \E p \in 1 .. Len(file[Current]) :
              p > cursor[Current] /\ file[Current][p] = Head1(e)
  BY <1>1, NewEventsAre
<1>4. PICK f \in Files : f = Current
  BY <1>3
<1>5. Len(file[f]) \in Nat /\ DOMAIN file[f] = 1 .. Len(file[f]) /\ cursor[f] \in 0 .. Len(file[f])
  BY <1>3, <1>4, LenProperties DEF Offsets, Covered
<1>. HIDE DEF Current
<1>6. Reach(f) = cursor[f] /\ Reach(f)' = Len(file[f])
  BY <1>1, <1>2, <1>4 DEF Reach
<1>7. ASSUME NEW e \in NewEvents
      PROVE  FileOf[e] = f /\ e \notin Fed /\ e \in Fed'
  <2>1. PICK p \in 1 .. Len(file[f]) : p > cursor[f] /\ file[f][p] = Head1(e)
    BY <1>3, <1>4
  <2>2. FileOf[e] = f
    <3>1. file[f][p].ev = e
      BY <2>1 DEF Head1
    <3>. QED  BY <1>5, <3>1 DEF FilesOk
  <2>3. e \notin Fed
    <3>. SUFFICES ASSUME e \in Fed PROVE FALSE
      OBVIOUS
    <3>1. PICK q \in 1 .. cursor[f] : file[f][q] = Head1(e)
      BY <1>6, <2>2 DEF Fed, Behind
    <3>2. q \in DOMAIN file[f] /\ p \in DOMAIN file[f] /\ p # q
      BY <1>5, <2>1
    <3>3. file[f][p] = file[f][q] /\ file[f][p].part = "head"
      BY <2>1, <3>1 DEF Head1
    <3>. QED  BY <3>2, <3>3 DEF FilesOk
  <2>4. e \in Fed'
    BY <1>1, <1>6, <2>1, <2>2 DEF Fed, Behind
  <2>. QED  BY <2>2, <2>3, <2>4
<1>. QED  BY <1>7

-----------------------------------------------------------------------------
(***************************************************************************)
(* The detector's counts against the events.                               *)
(***************************************************************************)
LEMMA HistoryGrows ==
  ASSUME Counters, [Next]_vars
  PROVE  /\ analysed \subseteq analysed' /\ restarts' \in {restarts, restarts + 1}
         /\ writeErrors' \in {writeErrors, writeErrors + 1}
         /\ Die => restarts' = restarts + 1
         /\ WriteFails => writeErrors' = writeErrors + 1
         /\ Die \/ ReadAndDetect \/ UNCHANGED failures
         /\ Die \/ ReadAndDetect \/ UNCHANGED emitted
         /\ ReadAndDetect \/ UNCHANGED analysed
<1>. USE DEF Die, WriteFails
<1>1. CASE Ingest
  BY <1>1, IngestTouches DEF Counters, memory
<1>2. CASE UNCHANGED vars
  BY <1>2 DEF vars, memory, history
<1>3. CASE StartPoll \/ NothingNew \/ SetCursor \/ SaveCursor \/ Start
  BY <1>3 DEF StartPoll, NothingNew, SetCursor, SaveCursor, Start, history
<1>4. CASE ReadAndDetect
  BY <1>4 DEF ReadAndDetect
<1>5. CASE \E k \in Keys : EncodeFinding(k)
  BY <1>5 DEF EncodeFinding, history
<1>6. CASE Fault
  BY <1>6 DEF Fault, ReadFails, SaveFails
<1>7. CASE Die
  BY <1>7
<1>. QED  BY <1>1, <1>2, <1>3, <1>4, <1>5, <1>6, <1>7 DEF Next, Poll

LEMMA FedIsFinite ==
  ASSUME Seen
  PROVE  IsFiniteSet(Fed) /\ Fed \subseteq analysed
<1>1. Fed \subseteq analysed
  BY DEF Fed
<1>. QED  BY <1>1, FS_Subset DEF Seen

LEMMA CountsInductive ==
  ASSUME FilesOk, Control, Counters, Seen, Offsets, [Next]_vars,
         CountedOnce, RealStorms, AllCounted, Remembered
  PROVE  CountedOnce' /\ AllCounted' /\ Remembered'
<1>1. Control' /\ Counters' /\ Seen'
  BY ControlInductive, CountersInductive
<1>2. IsFiniteSet(Fed) /\ IsFiniteSet(Fed') /\ IsFiniteSet(analysed) /\ IsFiniteSet(analysed')
  <2>1. Fed' \subseteq analysed' /\ IsFiniteSet(analysed')
    BY <1>1 DEF Fed, Seen
  <2>. QED  BY <2>1, FedIsFinite, FS_Subset DEF Seen
<1>3. \A k \in Keys : CallsOf(k, Fed) \in Nat /\ CallsOf(k, Fed') \in Nat
                      /\ CallsOf(k, analysed) \in Nat /\ CallsOf(k, analysed') \in Nat
  BY <1>2, CallsAreCounted
<1>4. /\ writeErrors \in Nat /\ writeErrors' \in Nat /\ restarts \in Nat /\ restarts' \in Nat
      /\ failures \in [Keys -> Nat] /\ failures' \in [Keys -> Nat]
  BY <1>1 DEF Counters
<1>5. CASE Die
  <2>1. failures' = [k \in Keys |-> 0] /\ restarts' # 0
    BY <1>4, <1>5, HistoryGrows DEF Die
  <2>2. CountedOnce'
    BY <1>3, <2>1 DEF CountedOnce
  <2>3. Remembered'
    BY <2>1, BoundsAssumption DEF Remembered
  <2>. QED  BY <2>1, <2>2, <2>3 DEF AllCounted
<1>6. CASE Start
  <2>1. failures' = [k \in Keys |-> 0] /\ emitted' = emitted
        /\ analysed' = analysed /\ restarts' = restarts /\ writeErrors' = writeErrors
        /\ failures' = failures
    BY <1>6 DEF Start, Control, history
  <2>2. CountedOnce'
    BY <1>3, <2>1 DEF CountedOnce
  <2>3. Remembered'
    BY <2>1 DEF Remembered
  <2>4. AllCounted'
    BY <2>1 DEF AllCounted
  <2>. QED  BY <2>2, <2>3, <2>4
<1>7. CASE WriteFails
  <2>1. writeErrors' # 0 /\ failures' = failures /\ emitted' = emitted
    BY <1>4, <1>7, HistoryGrows DEF WriteFails
  <2>. QED  BY <2>1 DEF CountedOnce, AllCounted, Remembered
<1>8. CASE ReadAndDetect
  <2>1. /\ failures' = [k \in Keys |-> failures[k] + CallsOf(k, NewEvents)]
        /\ emitted' = emitted \cup Storms(NewEvents)
        /\ analysed' = analysed \cup NewEvents
        /\ UNCHANGED <<restarts, writeErrors>> /\ todo # {}
    BY <1>8 DEF ReadAndDetect
  <2>2. IsFiniteSet(NewEvents)
    BY <2>1, NewEventsAre
  <2>3. \A k \in Keys : CallsOf(k, NewEvents) \in Nat
    BY <2>2, CallsAreCounted
  <2>4. ~Die /\ ~Start /\ ~WriteFails
    BY <1>8 DEF Die, Start, WriteFails, ReadAndDetect
  <2>5. Fed \cup NewEvents \subseteq Fed' /\ Fed \cap NewEvents = {}
    BY <1>8, <2>1, <2>4, FedKept, NewIsFed
  <2>6. CountedOnce'
    <3>. SUFFICES ASSUME writeErrors' = 0, NEW k \in Keys PROVE failures'[k] <= CallsOf(k, Fed')
      BY DEF CountedOnce
    <3>1. CallsOf(k, Fed) + CallsOf(k, NewEvents) = CallsOf(k, Fed \cup NewEvents)
      BY <1>2, <2>2, <2>5, CallsTogether
    <3>2. CallsOf(k, Fed \cup NewEvents) <= CallsOf(k, Fed')
      BY <1>2, <2>5, MoreCalls
    <3>3. failures[k] <= CallsOf(k, Fed)
      BY <2>1 DEF CountedOnce
    <3>4. failures'[k] = failures[k] + CallsOf(k, NewEvents)
      BY <2>1
    <3>. QED  BY <1>3, <1>4, <2>3, <3>1, <3>2, <3>3, <3>4
  <2>7. AllCounted'
    <3>. SUFFICES ASSUME restarts' = 0, writeErrors' = 0, NEW k \in Keys
                  PROVE  CallsOf(k, analysed') <= failures'[k]
      BY DEF AllCounted
    <3>1. CallsOf(k, analysed \cup NewEvents) <= CallsOf(k, analysed) + CallsOf(k, NewEvents)
      BY <1>2, <2>2, CallsTogether
    <3>2. CallsOf(k, analysed) <= failures[k]
      BY <2>1 DEF AllCounted
    <3>3. failures'[k] = failures[k] + CallsOf(k, NewEvents)
      BY <2>1
    <3>4. CallsOf(k, analysed') = CallsOf(k, analysed \cup NewEvents)
      BY <2>1
    <3>. QED  BY <1>3, <1>4, <2>3, <3>1, <3>2, <3>3, <3>4
  <2>8. Remembered'
    <3>. SUFFICES ASSUME NEW k \in Keys, failures'[k] > MaxFailures PROVE k \in emitted'
      BY DEF Remembered
    <3>1. failures'[k] = failures[k] + CallsOf(k, NewEvents)
      BY <2>1
    <3>2. CASE CallsOf(k, NewEvents) > 0
      BY <2>1, <3>1, <3>2 DEF Storms
    <3>3. CASE ~(CallsOf(k, NewEvents) > 0)
      <4>1. failures[k] > MaxFailures
        BY <1>4, <2>3, <3>1, <3>3
      <4>. QED  BY <2>1, <4>1 DEF Remembered
    <3>. QED  BY <3>2, <3>3
  <2>. QED  BY <2>6, <2>7, <2>8
<1>9. CASE ~Die /\ ~Start /\ ~WriteFails /\ ~ReadAndDetect
  <2>1. UNCHANGED <<failures, emitted, analysed>>
        /\ (writeErrors' = 0 => writeErrors = 0) /\ (restarts' = 0 => restarts = 0)
    BY <1>4, <1>9, HistoryGrows
  <2>2. Fed \subseteq Fed'
    BY <1>9, <2>1, FedKept
  <2>3. CountedOnce'
    <3>. SUFFICES ASSUME writeErrors' = 0, NEW k \in Keys PROVE failures'[k] <= CallsOf(k, Fed')
      BY DEF CountedOnce
    <3>1. failures'[k] <= CallsOf(k, Fed)
      BY <2>1 DEF CountedOnce
    <3>2. CallsOf(k, Fed) <= CallsOf(k, Fed')
      BY <1>2, <2>2, MoreCalls
    <3>. QED  BY <1>3, <1>4, <3>1, <3>2
  <2>. QED  BY <2>1, <2>3 DEF AllCounted, Remembered
<1>. QED  BY <1>5, <1>6, <1>7, <1>8, <1>9

-----------------------------------------------------------------------------
(***************************************************************************)
(* The findings.                                                           *)
(***************************************************************************)
\* What a step does to a finding: it is found, encoded, given up or kept.
LEMMA FindingsMove ==
  ASSUME Control, Counters, [Next]_vars
  PROVE  \/ UNCHANGED <<emitted, pending, out>>
         \/ ReadAndDetect /\ emitted' = emitted \cup Storms(NewEvents) /\ pending = {}
            /\ pending' = Storms(NewEvents) /\ out' = out
            /\ UNCHANGED <<restarts, writeErrors>>
         \/ \E k \in pending : /\ out' = [out EXCEPT ![k] = @ + 1] /\ pending' = pending \ {k}
                               /\ UNCHANGED <<emitted, restarts, writeErrors>>
         \/ WriteFails /\ pending' = {} /\ UNCHANGED <<emitted, out>>
         \/ Die /\ emitted' = {} /\ pending' = {} /\ out' = out
<1>1. CASE Ingest
  BY <1>1, IngestTouches DEF Counters, memory
<1>2. CASE UNCHANGED vars
  BY <1>2 DEF vars, memory
<1>3. CASE StartPoll \/ NothingNew \/ SetCursor \/ SaveCursor \/ Start \/ ReadFails \/ SaveFails
  BY <1>3 DEF StartPoll, NothingNew, SetCursor, SaveCursor, Start, ReadFails, SaveFails
<1>4. CASE ReadAndDetect
  BY <1>4 DEF ReadAndDetect, Control
<1>5. CASE \E k \in Keys : EncodeFinding(k)
  BY <1>5 DEF EncodeFinding, history
<1>6. CASE WriteFails
  BY <1>6 DEF WriteFails
<1>7. CASE Die
  BY <1>7 DEF Die
<1>. QED  BY <1>1, <1>2, <1>3, <1>4, <1>5, <1>6, <1>7 DEF Next, Poll, Fault

LEMMA BudgetKept ==
  ASSUME Control, Counters, Budget, [Next]_vars
  PROVE  Budget'
<1>. DEFINE Reserve(k) == IF k \in pending \/ k \notin emitted THEN 1 ELSE 0
            ReserveNext(k) == IF k \in pending' \/ k \notin emitted' THEN 1 ELSE 0
<1>. SUFFICES ASSUME NEW k \in Keys PROVE out'[k] + ReserveNext(k) <= 1 + restarts'
  BY DEF Budget
<1>1. out[k] + Reserve(k) <= 1 + restarts
  BY DEF Budget
<1>2. out[k] \in Nat /\ restarts \in Nat
  BY DEF Counters
<1>3. Reserve(k) \in {0, 1} /\ ReserveNext(k) \in {0, 1}
  OBVIOUS
<1>4. restarts <= restarts' /\ restarts' \in Nat
  BY <1>2, HistoryGrows
<1>5. CASE out' = out /\ ReserveNext(k) <= Reserve(k)
  <2>. HIDE DEF Reserve, ReserveNext
  <2>. QED  BY <1>1, <1>2, <1>3, <1>4, <1>5
<1>6. CASE UNCHANGED <<emitted, pending, out>>
  BY <1>5, <1>6
<1>7. CASE /\ emitted' = emitted \cup Storms(NewEvents)
           /\ pending' = Storms(NewEvents) /\ out' = out
  <2>1. k \in Storms(NewEvents) => k \notin emitted
    BY DEF Storms
  <2>2. ReserveNext(k) <= Reserve(k)
    BY <1>7, <2>1
  <2>. QED  BY <1>5, <1>7, <2>2
<1>8. ASSUME NEW j \in pending, out' = [out EXCEPT ![j] = @ + 1], pending' = pending \ {j}, emitted' = emitted
      PROVE  out'[k] + ReserveNext(k) <= 1 + restarts'
  <2>1. CASE k = j
    <3>1. Reserve(k) = 1 /\ ReserveNext(k) = 0
      BY <1>8, <2>1 DEF Control
    <3>2. out'[k] = out[k] + 1
      BY <1>8, <2>1 DEF Counters
    <3>. HIDE DEF Reserve, ReserveNext
    <3>. QED  BY <1>1, <1>2, <1>4, <3>1, <3>2
  <2>2. CASE k # j
    <3>1. Reserve(k) = ReserveNext(k) /\ out'[k] = out[k]
      BY <1>8, <2>2 DEF Counters
    <3>. HIDE DEF Reserve, ReserveNext
    <3>. QED  BY <1>1, <1>2, <1>3, <1>4, <3>1
  <2>. QED  BY <2>1, <2>2
<1>9. CASE WriteFails /\ pending' = {} /\ UNCHANGED <<emitted, out>>
  BY <1>5, <1>9
<1>10. CASE Die /\ emitted' = {} /\ pending' = {} /\ out' = out
  <2>1. restarts' = restarts + 1
    BY <1>10, HistoryGrows
  <2>. HIDE DEF Reserve, ReserveNext
  <2>. QED  BY <1>1, <1>2, <1>3, <1>10, <2>1
<1>. QED  BY <1>6, <1>7, <1>8, <1>9, <1>10, FindingsMove

LEMMA EncodedKept ==
  ASSUME Control, Counters, Encoded, [Next]_vars
  PROVE  Encoded'
<1>. SUFFICES ASSUME restarts' = 0, writeErrors' = 0, NEW k \in emitted'
              PROVE  k \in pending' \/ out'[k] > 0
  BY DEF Encoded
<1>1. restarts = 0 /\ writeErrors = 0 /\ ~Die /\ ~WriteFails
  BY HistoryGrows DEF Counters
<1>2. k \in emitted => k \in pending \/ out[k] > 0
  BY <1>1 DEF Encoded
<1>3. out \in [Keys -> Nat] /\ emitted \subseteq Keys /\ pending \subseteq emitted
  BY DEF Counters, Control
<1>4. CASE UNCHANGED <<emitted, pending, out>>
  BY <1>2, <1>4
<1>5. CASE /\ emitted' = emitted \cup Storms(NewEvents) /\ pending = {}
           /\ pending' = Storms(NewEvents) /\ out' = out
  BY <1>2, <1>5
<1>6. ASSUME NEW j \in pending, out' = [out EXCEPT ![j] = @ + 1], pending' = pending \ {j}, emitted' = emitted
      PROVE  k \in pending' \/ out'[k] > 0
  <2>1. CASE k = j
    BY <1>3, <1>6, <2>1
  <2>2. CASE k # j
    BY <1>2, <1>3, <1>6, <2>2
  <2>. QED  BY <2>1, <2>2
<1>. QED  BY <1>1, <1>4, <1>5, <1>6, FindingsMove

LEMMA RealStormsKept ==
  ASSUME FilesOk, Control, Counters, Seen, Offsets, [Next]_vars,
         CountedOnce, RealStorms, CountedOnce'
  PROVE  RealStorms'
<1>. SUFFICES ASSUME writeErrors' = 0, NEW k \in Keys, out'[k] > 0 \/ k \in emitted'
              PROVE  CallsOf(k, analysed') > MaxFailures
  BY DEF RealStorms
<1>1. writeErrors = 0 /\ analysed \subseteq analysed'
  BY HistoryGrows DEF Counters
<1>2. Seen' /\ Counters' /\ IsFiniteSet(analysed')
  BY CountersInductive DEF Seen
<1>3. CallsOf(k, analysed) <= CallsOf(k, analysed')
      /\ CallsOf(k, analysed) \in Nat /\ CallsOf(k, analysed') \in Nat
  BY <1>1, <1>2, MoreCalls
<1>4. CASE out[k] > 0 \/ k \in emitted
  <2>1. CallsOf(k, analysed) > MaxFailures
    BY <1>1, <1>4 DEF RealStorms
  <2>. QED  BY <1>3, <2>1, BoundsAssumption
<1>5. ASSUME ReadAndDetect, k \in Storms(NewEvents)
      PROVE  CallsOf(k, analysed') > MaxFailures
  <2>1. failures' = [j \in Keys |-> failures[j] + CallsOf(j, NewEvents)]
    BY <1>5 DEF ReadAndDetect
  <2>2. failures'[k] > MaxFailures
    BY <1>5, <2>1 DEF Storms
  <2>3. Fed' \subseteq analysed'
    BY DEF Fed
  <2>4. CallsOf(k, Fed') <= CallsOf(k, analysed') /\ CallsOf(k, Fed') \in Nat
    BY <1>2, <2>3, MoreCalls
  <2>5. failures'[k] <= CallsOf(k, Fed')
    BY DEF CountedOnce
  <2>6. failures'[k] \in Nat
    BY <1>2 DEF Counters
  <2>. QED  BY <1>3, <2>2, <2>4, <2>5, <2>6, BoundsAssumption
<1>6. ASSUME NEW j \in pending, out' = [out EXCEPT ![j] = @ + 1], emitted' = emitted
      PROVE  out[k] > 0 \/ k \in emitted
  BY <1>6 DEF Control, Counters
<1>. QED  BY <1>4, <1>5, <1>6, FindingsMove

-----------------------------------------------------------------------------
LEMMA InitIInv ==
  ASSUME Init
  PROVE  IInv
<1>. USE DEF Init
<1>1. FilesOk
  <2>1. <<>> \in Seq(Unit) /\ DOMAIN <<>> = {}
    BY EmptySeq
  <2>. QED  BY <2>1 DEF FilesOk
<1>2. Control
  BY DEF Control
<1>3. Counters /\ Seen
  BY FS_EmptySet DEF Counters, Seen
<1>4. Offsets
  <2>1. \A f \in Files : Covered(file[f], 0, analysed, cutShort)
    BY <1>1, NothingIsCovered DEF FilesOk
  <2>. QED  BY <2>1 DEF Offsets
<1>5. Budget
  BY DEF Budget
<1>6. \A k \in Keys : CallsOf(k, Fed) \in Nat /\ CallsOf(k, analysed) = 0
  <2>1. \A k \in Keys : {e \in analysed : KeyOf[e] = k} = {}
    OBVIOUS
  <2>. QED  BY <1>3, <2>1, FedIsFinite, CallsAreCounted, FS_EmptySet DEF CallsOf
<1>7. CountedOnce /\ AllCounted
  BY <1>6 DEF CountedOnce, AllCounted
<1>8. RealStorms /\ Remembered /\ Encoded
  BY BoundsAssumption DEF RealStorms, Remembered, Encoded
<1>. QED  BY <1>1, <1>2, <1>3, <1>4, <1>5, <1>7, <1>8 DEF IInv

LEMMA Inductive ==
  ASSUME IInv, [Next]_vars
  PROVE  IInv'
<1>. USE DEF IInv
<1>1. FilesOk' /\ Control' /\ Counters' /\ Seen' /\ Offsets'
  BY FilesInductive, ControlInductive, CountersInductive, OffsetsInductive
<1>2. CountedOnce' /\ AllCounted' /\ Remembered'
  BY CountsInductive
<1>3. RealStorms' /\ Budget' /\ Encoded'
  BY <1>2, RealStormsKept, BudgetKept, EncodedKept
<1>. QED  BY <1>1, <1>2, <1>3

LEMMA IInvAlways == Spec => []IInv
<1>1. Init => IInv
  BY InitIInv
<1>2. IInv /\ [Next]_vars => IInv'
  BY Inductive
<1>. QED  BY <1>1, <1>2, PTL DEF Spec

-----------------------------------------------------------------------------
(***************************************************************************)
(* The theorems.                                                           *)
(***************************************************************************)
\* Type correctness: files of whole units, offsets within their files, a todo
\* list while findings are written (Analyzer and Cursor, analyzer.go, cursor.go).
THEOREM TypeCorrect == Spec => []TypeOK
<1>1. IInv => TypeOK
  <2>. SUFFICES ASSUME IInv PROVE TypeOK
    OBVIOUS
  <2>. USE DEF IInv
  <2>1. \A f \in Files : \A u \in Range(file[f]) : u.ev \in Events /\ u.part \in {"head", "tail"}
    <3>. SUFFICES ASSUME NEW f \in Files, NEW p \in DOMAIN file[f] PROVE file[f][p] \in Unit
      BY DEF Range, Unit
    <3>. QED  BY ElementOfSeq, LenProperties DEF FilesOk
  <2>2. \A f \in Files : cursor[f] \in 0 .. Len(file[f]) /\ saved[f] \in 0 .. Len(file[f])
    BY DEF Offsets, Covered
  <2>. QED  BY <2>1, <2>2 DEF TypeOK, FilesOk, Control, Counters, Seen, Offsets
<1>. QED  BY <1>1, IInvAlways, PTL

\* However many crashes, failed reads, writes and saves: the saved cursor has no
\* whole line behind it that was not read, but for lines taken in two halves
\* (poll:128-183).
THEOREM NothingUnreadBehindTheCursor == Spec => []SavedBehindRead
<1>1. IInv => SavedBehindRead
  <2>. SUFFICES ASSUME IInv, NEW f \in Files
                PROVE  WholeLinesUpTo(f, saved[f]) \subseteq analysed \cup cutShort
    BY DEF SavedBehindRead
  <2>1. file[f] \in Seq(Unit) /\ Covered(file[f], saved[f], analysed, cutShort)
    BY DEF IInv, FilesOk, Offsets
  <2>2. WholeLinesUpTo(f, saved[f]) = LinesUpTo(file[f], saved[f])
    BY <2>1, WholeLinesAreLinesUpTo DEF Covered, WholeLinesUpTo
  <2>. QED  BY <2>1, <2>2 DEF Covered
<1>. QED  BY <1>1, IInvAlways, PTL

\* A finding is written at most once per life of the process, whatever its
\* writes and saves do (poll:145-179 with ToolMisuseDetector:129-138).
THEOREM RepeatsComeFromRestarts == Spec => []RepeatedByRestartsOnly
<1>1. IInv => RepeatedByRestartsOnly
  <2>. SUFFICES ASSUME IInv, NEW k \in Keys PROVE out[k] <= 1 + restarts
    BY DEF RepeatedByRestartsOnly
  <2>1. out[k] + (IF k \in pending \/ k \notin emitted THEN 1 ELSE 0) <= 1 + restarts
    BY DEF IInv, Budget
  <2>2. out[k] \in Nat /\ restarts \in Nat
    BY DEF IInv, Counters
  <2>. QED  BY <2>1, <2>2
<1>. QED  BY <1>1, IInvAlways, PTL

\* Until a write of findings fails every retry storm reported has its calls, and
\* before the first restart none is missing (poll:130-179).
THEOREM FindingsAreWhatWasRead == Spec => []FindingsFaithful
<1>1. IInv => RealUnlessWriteFailed
  BY DEF IInv, RealStorms, RealUnlessWriteFailed
<1>2. IInv => FoundUnlessFault
  <2>. SUFFICES ASSUME IInv, restarts = 0, writeErrors = 0, pc # "write",
                       NEW k \in Keys, CallsOf(k, analysed) > MaxFailures
                PROVE  out[k] > 0
    BY DEF FoundUnlessFault
  <2>. USE DEF IInv
  <2>1. CallsOf(k, analysed) \in Nat /\ failures[k] \in Nat
    BY CallsAreCounted DEF Seen, Counters
  <2>2. CallsOf(k, analysed) <= failures[k]
    BY DEF AllCounted
  <2>3. failures[k] > MaxFailures
    BY <2>1, <2>2, BoundsAssumption
  <2>4. k \in emitted
    BY <2>3 DEF Remembered
  <2>5. k \notin pending
    BY DEF Control
  <2>. QED  BY <2>4, <2>5 DEF Encoded
<1>. QED  BY <1>1, <1>2, IInvAlways, PTL DEF FindingsFaithful

\* No step moves a cursor back, on disk ever or in memory while the process
\* lives (Cursor.Set, analyzer.go:178, Cursor.Save).
THEOREM CursorsOnlyAdvance == Spec => CursorsAdvance
<1>. DEFINE Advance ==
       \A f \in Files : /\ saved'[f] >= saved[f]
                        /\ pc # "down" /\ pc' # "down" => cursor'[f] >= cursor[f]
<1>1. ASSUME IInv, [Next]_vars PROVE Advance
  <2>1. Counters /\ Control /\ Offsets /\ cursor \in [Files -> Nat] /\ saved \in [Files -> Nat]
    BY <1>1 DEF IInv, Offsets
  <2>2. \A f \in Files : cursor[f] >= cursor[f] /\ saved[f] >= saved[f]
    BY <2>1
  <2>3. CASE UNCHANGED <<saved, cursor>>
    BY <2>2, <2>3
  <2>4. CASE Ingest
    BY <2>1, <2>3, <2>4, IngestTouches DEF Counters, memory
  <2>5. CASE SetCursor
    <3>1. pc = "write" /\ saved' = saved /\ cursor' = [cursor EXCEPT ![Current] = readTo]
      BY <2>5 DEF SetCursor
    <3>2. cursor[Current] <= readTo /\ readTo \in Nat
      BY <2>1, <3>1 DEF Offsets
    <3>3. PICK c : c = Current
      OBVIOUS
    <3>. HIDE DEF Current
    <3>4. \A f \in Files : cursor'[f] >= cursor[f]
      BY <2>1, <3>1, <3>2, <3>3
    <3>. QED  BY <2>2, <3>1, <3>4
  <2>6. CASE SaveCursor
    <3>1. pc = "next" /\ saved' = cursor /\ cursor' = cursor
      BY <2>6 DEF SaveCursor
    <3>. QED  BY <2>1, <2>2, <3>1 DEF Offsets
  <2>7. CASE Die
    BY <2>2, <2>7 DEF Die
  <2>8. CASE Start
    BY <2>2, <2>8 DEF Start
  <2>9. CASE Fault \/ StartPoll \/ NothingNew \/ ReadAndDetect \/ \E k \in Keys : EncodeFinding(k)
    BY <2>3, <2>9 DEF Fault, ReadFails, WriteFails, SaveFails, StartPoll, NothingNew, ReadAndDetect,
                      EncodeFinding
  <2>10. CASE UNCHANGED vars
    BY <2>3, <2>10 DEF vars, memory
  <2>. QED  BY <1>1, <2>4, <2>5, <2>6, <2>7, <2>8, <2>9, <2>10 DEF Next, Poll
<1>2. IInv /\ [Next]_vars => [Advance]_vars
  BY <1>1
<1>. QED  BY <1>2, IInvAlways, PTL DEF Spec, CursorsAdvance

-----------------------------------------------------------------------------
(***************************************************************************)
(* The tool misuse detector.  What it counts is a set of calls, which only *)
(* the last call can enter.                                                *)
(***************************************************************************)
FailuresOf(cs, t, n, since, k) == {i \in since..k : cs[i].tool = t /\ cs[i].n = n /\ ~cs[i].ok}
CallsOfTool(cs, t, since, k) == {i \in since..k : cs[i].tool = t}

TooHigh(cs, t, since, k) ==
  LET all == CallsOfTool(cs, t, since, k)
      failed == {i \in all : ~cs[i].ok}
  IN  /\ k \in all /\ Cardinality(all) >= MinCalls
      /\ 100 * Cardinality(failed) >= RatePercent * Cardinality(all)
      /\ \A n \in Arguments : Cardinality(FailuresOf(cs, t, n, since, k)) <= MaxSameFailures

MisuseTypes ==
  /\ mCalls \in Seq(Misuse!Calls) /\ mFrom \in Nat /\ mFrom >= 1 /\ mFrom <= Len(mCalls) + 1
  /\ mStorms \in [Tools -> SUBSET Arguments] /\ mRated \in [Tools -> BOOLEAN]

StormsKnown ==
  \A t \in Tools, n \in Arguments :
    n \in mStorms[t] <=> Cardinality(FailuresOf(mCalls, t, n, mFrom, Len(mCalls))) > MaxSameFailures

RatesKnown ==
  \A t \in Tools : mRated[t] <=> \E k \in mFrom..Len(mCalls) : TooHigh(mCalls, t, mFrom, k)

\* A finding is of calls there are, and the process remembers its own.
Remembering(f) ==
  /\ f.kind \in {"storm", "rate"} /\ f.tool \in Tools /\ f.from \in Nat /\ f.at \in Nat
  /\ f.from <= f.at /\ f.at <= Len(mCalls) /\ f.from <= mFrom
  /\ f.from = mFrom /\ f.kind = "storm" => f.key \in mStorms[f.tool]
  /\ f.from = mFrom /\ f.kind = "rate" => mRated[f.tool]

MisuseInv ==
  /\ MisuseTypes /\ StormsKnown /\ RatesKnown
  /\ \A f \in mFindings : Remembering(f)
  /\ Misuse!OnceAndNoRateAfterStorm

LEMMA Counted ==
  ASSUME NEW cs \in Seq(Misuse!Calls), NEW call \in Misuse!Calls, NEW since \in Nat, since >= 1,
         since <= Len(cs) + 1
  PROVE  LET now == Append(cs, call) IN
         /\ Len(now) = Len(cs) + 1 /\ now[Len(cs) + 1] = call
         /\ \A k \in since..Len(cs) : /\ now[k] = cs[k]
              /\ \A t : /\ CallsOfTool(now, t, since, k) = CallsOfTool(cs, t, since, k)
                        /\ TooHigh(now, t, since, k) <=> TooHigh(cs, t, since, k)
         /\ \A t, n : FailuresOf(now, t, n, since, Len(cs) + 1) =
              FailuresOf(cs, t, n, since, Len(cs))
                \cup (IF call.tool = t /\ call.n = n /\ ~call.ok THEN {Len(cs) + 1} ELSE {})
<1>. DEFINE now == Append(cs, call)
<1>0. Len(cs) \in Nat
  OBVIOUS
<1>1. Len(now) = Len(cs) + 1 /\ now[Len(cs) + 1] = call /\ \A k \in 1..Len(cs) : now[k] = cs[k]
  OBVIOUS
<1>. HIDE DEF now
<1>2. \A k \in since..Len(cs) : k \in 1..Len(cs) /\ now[k] = cs[k] /\ \A i \in since..k : now[i] = cs[i]
  <2>. SUFFICES ASSUME NEW k \in since..Len(cs)
                PROVE  k \in 1..Len(cs) /\ now[k] = cs[k] /\ \A i \in since..k : now[i] = cs[i]
    OBVIOUS
  <2>1. k \in 1..Len(cs) /\ \A i \in since..k : i \in 1..Len(cs)
    BY <1>0
  <2>. QED  BY <1>1, <2>1
<1>3. ASSUME NEW k \in since..Len(cs), NEW t
      PROVE  /\ CallsOfTool(now, t, since, k) = CallsOfTool(cs, t, since, k)
             /\ TooHigh(now, t, since, k) <=> TooHigh(cs, t, since, k)
  <2>1. CallsOfTool(now, t, since, k) = CallsOfTool(cs, t, since, k)
    BY <1>2 DEF CallsOfTool
  <2>2. {i \in CallsOfTool(now, t, since, k) : ~now[i].ok} = {i \in CallsOfTool(cs, t, since, k) : ~cs[i].ok}
    BY <1>2 DEF CallsOfTool
  <2>3. \A n : FailuresOf(now, t, n, since, k) = FailuresOf(cs, t, n, since, k)
    BY <1>2 DEF FailuresOf
  <2>. QED  BY <2>1, <2>2, <2>3, Zenon DEF TooHigh
<1>4. ASSUME NEW t, NEW n
      PROVE  FailuresOf(now, t, n, since, Len(cs) + 1) =
               FailuresOf(cs, t, n, since, Len(cs))
                 \cup (IF call.tool = t /\ call.n = n /\ ~call.ok THEN {Len(cs) + 1} ELSE {})
  <2>1. \A i : i \in since .. Len(cs) + 1 <=> i \in since..Len(cs) \/ i = Len(cs) + 1
    BY <1>0
  <2>2. \A i \in since..Len(cs) : now[i] = cs[i]
    BY <1>2
  <2>. QED  BY <1>1, <2>1, <2>2 DEF FailuresOf
<1>. QED  BY <1>1, <1>2, <1>3, <1>4 DEF now

LEMMA Countable ==
  ASSUME NEW cs, NEW t, NEW n, NEW since \in Nat, NEW k \in Nat
  PROVE  /\ IsFiniteSet(FailuresOf(cs, t, n, since, k))
         /\ Cardinality(FailuresOf(cs, t, n, since, k)) \in Nat
<1>1. IsFiniteSet(since..k)
  BY FS_Interval
<1>2. FailuresOf(cs, t, n, since, k) \subseteq since..k
  BY DEF FailuresOf
<1>. QED  BY <1>1, <1>2, FS_Subset, FS_CardinalityType

\* Whether a call makes a storm and whether it makes the rate too high.
JudgedAs(call, stormy, rate, storm, same, failed) ==
  /\ storm \in BOOLEAN /\ rate \in BOOLEAN
  /\ mCalls' = Append(mCalls, call) /\ mFrom' = mFrom
  /\ stormy = mStorms[call.tool] \cup (IF storm THEN {call.n} ELSE {})
  /\ mStorms' = [mStorms EXCEPT ![call.tool] = stormy]
  /\ mRated' = [mRated EXCEPT ![call.tool] = @ \/ rate]
  /\ mFindings' = mFindings
       \cup (IF storm THEN {[kind |-> "storm", tool |-> call.tool, key |-> call.n,
                             from |-> mFrom, at |-> Len(mCalls'), failed |-> same]} ELSE {})
       \cup (IF rate THEN {[kind |-> "rate", tool |-> call.tool, key |-> call.n,
                            from |-> mFrom, at |-> Len(mCalls'), failed |-> failed]} ELSE {})
  /\ storm <=> /\ call.n \notin mStorms[call.tool]
               /\ Cardinality(FailuresOf(mCalls', call.tool, call.n, mFrom, Len(mCalls'))) > MaxSameFailures
  /\ rate <=> /\ ~mRated[call.tool] /\ stormy = {}
              /\ Cardinality(CallsOfTool(mCalls', call.tool, mFrom, Len(mCalls'))) >= MinCalls
              /\ 100 * Cardinality({i \in CallsOfTool(mCalls', call.tool, mFrom, Len(mCalls')) : ~mCalls'[i].ok})
                   >= RatePercent * Cardinality(CallsOfTool(mCalls', call.tool, mFrom, Len(mCalls')))

LEMMA Judged ==
  ASSUME NEW call \in Misuse!Calls, Misuse!Analyze(call)
  PROVE  \E stormy, rate, storm, same, failed : JudgedAs(call, stormy, rate, storm, same, failed)
<1>. DEFINE t == call.tool
            key == Misuse!canonicalArgs(call)
            now == Append(mCalls, call)
            all == Misuse!Of(now, mFrom, t)
            same == Misuse!Failed(now, Misuse!Same(now, mFrom, t, key))
            failed == Misuse!Failed(now, all)
            storm == Misuse!IsStorm(t, key, same)
            stormy == mStorms[t] \cup (IF storm THEN {key} ELSE {})
            rate == Misuse!IsRate(t, stormy, Misuse!Cardinality(all), failed)
<1>1. /\ mCalls' = now /\ mFrom' = mFrom
      /\ mStorms' = [mStorms EXCEPT ![t] = stormy]
      /\ mRated' = [mRated EXCEPT ![t] = @ \/ rate]
      /\ mFindings' = mFindings
           \cup (IF storm THEN {Misuse!Finding("storm", t, key, same)} ELSE {})
           \cup (IF rate THEN {Misuse!Finding("rate", t, key, failed)} ELSE {})
  BY Zenon DEF Misuse!Analyze
<1>2. all = CallsOfTool(now, t, mFrom, Len(now)) /\ failed = {i \in all : ~now[i].ok}
  BY DEF Misuse!Of, Misuse!Failed, CallsOfTool
<1>3. key = call.n
  BY DEF Misuse!canonicalArgs
<1>4. same = FailuresOf(now, t, call.n, mFrom, Len(now))
  BY DEF Misuse!Of, Misuse!Failed, Misuse!Same, Misuse!canonicalArgs, FailuresOf
<1>5. /\ storm = (key \notin mStorms[t] /\ Cardinality(same) > MaxSameFailures)
      /\ rate = (/\ ~mRated[t] /\ Cardinality(all) >= MinCalls
                 /\ 100 * Cardinality(failed) >= RatePercent * Cardinality(all)
                 /\ stormy = {})
  <2>1. \A S : Misuse!Cardinality(S) = Cardinality(S)
    BY DEF Misuse!Cardinality, Cardinality
  <2>2. /\ storm = (key \notin mStorms[t] /\ Misuse!Cardinality(same) > MaxSameFailures)
        /\ rate = (/\ ~mRated[t] /\ Misuse!Cardinality(all) >= MinCalls
                   /\ 100 * Misuse!Cardinality(failed) >= RatePercent * Misuse!Cardinality(all)
                   /\ stormy = {})
    BY Zenon DEF Misuse!IsStorm, Misuse!IsRate
  <2>. QED  BY <2>1, <2>2, Zenon
<1>6. storm \in BOOLEAN /\ rate \in BOOLEAN
  BY <1>5
<1>7. \A kind, failing : Misuse!Finding(kind, t, key, failing) =
        [kind |-> kind, tool |-> t, key |-> key, from |-> mFrom, at |-> Len(mCalls'), failed |-> failing]
  BY Zenon DEF Misuse!Finding
<1>. HIDE DEF key, now, all, same, failed, storm, rate
<1>8. /\ stormy = mStorms[t] \cup (IF storm THEN {call.n} ELSE {})
      /\ storm <=> call.n \notin mStorms[t] /\ Cardinality(FailuresOf(mCalls', t, call.n, mFrom, Len(mCalls'))) > MaxSameFailures
      /\ all = CallsOfTool(mCalls', t, mFrom, Len(mCalls')) /\ failed = {i \in all : ~mCalls'[i].ok}
  BY <1>1, <1>2, <1>3, <1>4, <1>5
<1>. HIDE DEF stormy
<1>9. rate <=> /\ ~mRated[t] /\ stormy = {}
               /\ Cardinality(CallsOfTool(mCalls', t, mFrom, Len(mCalls'))) >= MinCalls
               /\ 100 * Cardinality({i \in CallsOfTool(mCalls', t, mFrom, Len(mCalls')) : ~mCalls'[i].ok})
                    >= RatePercent * Cardinality(CallsOfTool(mCalls', t, mFrom, Len(mCalls')))
  BY <1>5, <1>8, Zenon
<1>10. mFindings' = mFindings
         \cup (IF storm THEN {[kind |-> "storm", tool |-> t, key |-> call.n,
                               from |-> mFrom, at |-> Len(mCalls'), failed |-> same]} ELSE {})
         \cup (IF rate THEN {[kind |-> "rate", tool |-> t, key |-> call.n,
                              from |-> mFrom, at |-> Len(mCalls'), failed |-> failed]} ELSE {})
  BY <1>1, <1>3, <1>7, Zenon
<1>11. JudgedAs(call, stormy, rate, storm, same, failed)
  BY <1>1, <1>6, <1>8, <1>9, <1>10, Zenon DEF now, JudgedAs
<1>. QED  BY <1>11, Zenon

\* A call is counted once, where it belongs.
LEMMA CountedUp ==
  ASSUME NEW cs \in Seq(Misuse!Calls), NEW call \in Misuse!Calls, NEW since \in Nat, since >= 1,
         since <= Len(cs) + 1, NEW t, NEW n
  PROVE  LET before == FailuresOf(cs, t, n, since, Len(cs))
             after == FailuresOf(Append(cs, call), t, n, since, Len(cs) + 1)
         IN  /\ Cardinality(before) \in Nat /\ Cardinality(after) \in Nat
             /\ Cardinality(before) <= Cardinality(after)
             /\ t # call.tool \/ n # call.n => Cardinality(after) = Cardinality(before)
<1>. DEFINE before == FailuresOf(cs, t, n, since, Len(cs))
            after == FailuresOf(Append(cs, call), t, n, since, Len(cs) + 1)
<1>1. Len(cs) \in Nat /\ Len(cs) + 1 \in Nat
  OBVIOUS
<1>2. /\ IsFiniteSet(before) /\ Cardinality(before) \in Nat
      /\ IsFiniteSet(after) /\ Cardinality(after) \in Nat
  BY <1>1, Countable
<1>3. after = before \cup (IF call.tool = t /\ call.n = n /\ ~call.ok THEN {Len(cs) + 1} ELSE {})
  BY Counted
<1>. HIDE DEF before, after
<1>4. before \subseteq after
  BY <1>3
<1>5. Cardinality(before) <= Cardinality(after)
  BY <1>2, <1>4, FS_Subset
<1>6. t # call.tool \/ n # call.n => after = before
  BY <1>3
<1>. QED  BY <1>2, <1>5, <1>6 DEF before, after

LEMMA StormsCounted ==
  ASSUME MisuseInv, NEW call \in Misuse!Calls, Misuse!Analyze(call)
  PROVE  MisuseTypes' /\ StormsKnown'
<1>0. /\ mCalls \in Seq(Misuse!Calls) /\ mFrom \in Nat /\ mFrom >= 1 /\ mFrom <= Len(mCalls) + 1
      /\ mStorms \in [Tools -> SUBSET Arguments] /\ mRated \in [Tools -> BOOLEAN]
  BY DEF MisuseInv, MisuseTypes
<1>1. call.tool \in Tools /\ call.n \in Arguments
  BY DEF Misuse!Calls
<1>2. PICK stormy, rate, storm :
        /\ storm \in BOOLEAN /\ rate \in BOOLEAN
        /\ mCalls' = Append(mCalls, call) /\ mFrom' = mFrom
        /\ stormy = mStorms[call.tool] \cup (IF storm THEN {call.n} ELSE {})
        /\ mStorms' = [mStorms EXCEPT ![call.tool] = stormy]
        /\ mRated' = [mRated EXCEPT ![call.tool] = @ \/ rate]
        /\ storm <=> /\ call.n \notin mStorms[call.tool]
                     /\ Cardinality(FailuresOf(mCalls', call.tool, call.n, mFrom, Len(mCalls'))) > MaxSameFailures
  BY Judged, Zenon DEF JudgedAs
<1>3. mCalls' \in Seq(Misuse!Calls) /\ Len(mCalls') = Len(mCalls) + 1
  BY <1>0, <1>2
<1>4. mStorms' \in [Tools -> SUBSET Arguments]
  BY <1>0, <1>1, <1>2
<1>5. mRated' \in [Tools -> BOOLEAN]
  <2>1. (mRated[call.tool] \/ rate) \in BOOLEAN
    OBVIOUS
  <2>. QED  BY <1>0, <1>1, <1>2, <2>1, Zenon
<1>6. MisuseTypes'
  <2>1. mFrom <= Len(mCalls') + 1
    BY <1>0, <1>3
  <2>. QED  BY <1>0, <1>2, <1>3, <1>4, <1>5, <2>1 DEF MisuseTypes
<1>7. ASSUME NEW t \in Tools, NEW n \in Arguments
      PROVE  n \in mStorms'[t] <=>
               Cardinality(FailuresOf(mCalls', t, n, mFrom, Len(mCalls'))) > MaxSameFailures
  <2>. DEFINE before == Cardinality(FailuresOf(mCalls, t, n, mFrom, Len(mCalls)))
              after == Cardinality(FailuresOf(mCalls', t, n, mFrom, Len(mCalls')))
  <2>1. /\ before \in Nat /\ after \in Nat /\ before <= after
        /\ t # call.tool \/ n # call.n => after = before
    <3>. DEFINE counted == FailuresOf(Append(mCalls, call), t, n, mFrom, Len(mCalls) + 1)
    <3>1. counted = FailuresOf(mCalls', t, n, mFrom, Len(mCalls'))
      BY <1>2, <1>3, Zenon
    <3>2. /\ before \in Nat /\ Cardinality(counted) \in Nat /\ before <= Cardinality(counted)
          /\ t # call.tool \/ n # call.n => Cardinality(counted) = before
      BY <1>0, CountedUp
    <3>. QED  BY <3>1, <3>2, Zenon
  <2>2. n \in mStorms[t] <=> before > MaxSameFailures
    BY DEF MisuseInv, StormsKnown
  <2>3. t = call.tool /\ n = call.n => (storm <=> n \notin mStorms[t] /\ after > MaxSameFailures)
    BY <1>2, Zenon
  <2>. HIDE DEF before, after
  <2>4. MaxSameFailures \in Nat
    BY MisuseOk DEF Misuse!MisuseAssumption
  <2>5. before > MaxSameFailures => after > MaxSameFailures
    BY <2>1, <2>4
  <2>6. CASE t = call.tool /\ n = call.n
    <3>1. n \in mStorms'[t] <=> n \in mStorms[t] \/ storm
      BY <1>0, <1>2, <2>6
    <3>. QED  BY <3>1, <2>2, <2>3, <2>5, <2>6, Zenon DEF after
  <2>7. CASE ~(t = call.tool /\ n = call.n)
    <3>1. n \in mStorms'[t] <=> n \in mStorms[t]
      BY <1>0, <1>2, <2>7
    <3>. QED  BY <3>1, <2>1, <2>2, <2>7, Zenon DEF after
  <2>. QED  BY <2>6, <2>7
<1>8. StormsKnown'
  BY <1>2, <1>7, Zenon DEF StormsKnown
<1>. QED  BY <1>6, <1>8

LEMMA RatesCounted ==
  ASSUME MisuseInv, NEW call \in Misuse!Calls, Misuse!Analyze(call)
  PROVE  RatesKnown'
<1>0. /\ mCalls \in Seq(Misuse!Calls) /\ mFrom \in Nat /\ mFrom >= 1 /\ mFrom <= Len(mCalls) + 1
      /\ mStorms \in [Tools -> SUBSET Arguments] /\ mRated \in [Tools -> BOOLEAN]
  BY DEF MisuseInv, MisuseTypes
<1>1. call.tool \in Tools /\ call.n \in Arguments
  BY DEF Misuse!Calls
<1>. DEFINE N == Len(mCalls) + 1
            all == CallsOfTool(mCalls', call.tool, mFrom, Len(mCalls'))
            counted == /\ Cardinality(all) >= MinCalls
                       /\ 100 * Cardinality({i \in all : ~mCalls'[i].ok}) >= RatePercent * Cardinality(all)
<1>2. PICK stormy, rate :
        /\ rate \in BOOLEAN
        /\ mCalls' = Append(mCalls, call) /\ mFrom' = mFrom
        /\ mStorms' = [mStorms EXCEPT ![call.tool] = stormy]
        /\ mRated' = [mRated EXCEPT ![call.tool] = @ \/ rate]
        /\ rate <=> ~mRated[call.tool] /\ stormy = {} /\ counted
  BY Judged, Zenon DEF JudgedAs
<1>3. /\ Len(mCalls') = N /\ mCalls'[N] = call
      /\ \A k \in mFrom..Len(mCalls) : \A t : TooHigh(mCalls', t, mFrom, k) <=> TooHigh(mCalls, t, mFrom, k)
  BY <1>0, <1>2, Counted, Zenon
<1>4. N \in mFrom..N /\ \A k : k \in mFrom..N <=> k \in mFrom..Len(mCalls) \/ k = N
  BY <1>0
<1>5. \A t \in Tools : t # call.tool => ~TooHigh(mCalls', t, mFrom, N)
  BY <1>3 DEF TooHigh, CallsOfTool
<1>6. TooHigh(mCalls', call.tool, mFrom, N) <=> counted /\ stormy = {}
  <2>. DEFINE failing(n) == Cardinality(FailuresOf(mCalls', call.tool, n, mFrom, N))
  <2>1. N \in all
    BY <1>3, <1>4 DEF CallsOfTool
  <2>2. mStorms'[call.tool] = stormy /\ stormy \subseteq Arguments
    <3>1. mStorms'[call.tool] = stormy
      BY <1>0, <1>1, <1>2
    <3>2. mStorms' \in [Tools -> SUBSET Arguments]
      BY StormsCounted DEF MisuseTypes
    <3>. QED  BY <1>1, <3>1, <3>2
  <2>3. \A n \in Arguments : n \in stormy <=> failing(n) > MaxSameFailures
    BY <1>1, <1>2, <1>3, <2>2, StormsCounted, Zenon DEF StormsKnown
  <2>4. \A n \in Arguments : failing(n) \in Nat
    BY <1>0, <1>4, Countable
  <2>. HIDE DEF failing
  <2>5. MaxSameFailures \in Nat
    BY MisuseOk DEF Misuse!MisuseAssumption
  <2>6. (\A n \in Arguments : failing(n) <= MaxSameFailures) <=> stormy = {}
    BY <2>2, <2>3, <2>4, <2>5
  <2>7. TooHigh(mCalls', call.tool, mFrom, N) <=>
          N \in all /\ counted /\ \A n \in Arguments : failing(n) <= MaxSameFailures
    BY <1>3, Zenon DEF TooHigh, failing
  <2>. HIDE DEF all, counted, N
  <2>. QED  BY <2>1, <2>6, <2>7, Zenon
<1>. HIDE DEF counted, N
<1>7. ASSUME NEW t \in Tools
      PROVE  mRated'[t] <=> \E k \in mFrom..Len(mCalls') : TooHigh(mCalls', t, mFrom, k)
  <2>1. mRated[t] <=> \E k \in mFrom..Len(mCalls) : TooHigh(mCalls, t, mFrom, k)
    BY DEF MisuseInv, RatesKnown
  <2>2. (\E k \in mFrom..Len(mCalls') : TooHigh(mCalls', t, mFrom, k)) <=> mRated[t] \/ TooHigh(mCalls', t, mFrom, N)
    BY <1>3, <1>4, <2>1, Zenon
  <2>3. CASE t = call.tool
    <3>1. mRated'[t] <=> mRated[t] \/ rate
      BY <1>0, <1>1, <1>2, <2>3, Zenon
    <3>. QED  BY <3>1, <2>2, <2>3, <1>2, <1>6, Zenon
  <2>4. CASE t # call.tool
    <3>1. mRated'[t] <=> mRated[t]
      BY <1>0, <1>1, <1>2, <2>4, Zenon
    <3>. QED  BY <3>1, <2>2, <2>4, <1>5, Zenon
  <2>. QED  BY <2>3, <2>4
<1>. QED  BY <1>2, <1>7, Zenon DEF RatesKnown

\* What is found: at most one finding, with what the process has counted.
LEMMA FoundOnce ==
  ASSUME MisuseInv, NEW call \in Misuse!Calls, Misuse!Analyze(call)
  PROVE  (\A f \in mFindings' : Remembering(f)') /\ Misuse!OnceAndNoRateAfterStorm'
<1>0. /\ mCalls \in Seq(Misuse!Calls) /\ mFrom \in Nat /\ mFrom >= 1 /\ mFrom <= Len(mCalls) + 1
      /\ mStorms \in [Tools -> SUBSET Arguments] /\ mRated \in [Tools -> BOOLEAN]
  BY DEF MisuseInv, MisuseTypes
<1>1. call.tool \in Tools /\ call.n \in Arguments
  BY DEF Misuse!Calls
<1>2. PICK stormy, rate, storm, same, failed : JudgedAs(call, stormy, rate, storm, same, failed)
  BY Judged
<1>. DEFINE t == call.tool
            N == Len(mCalls')
            found(kind, failing) == [kind |-> kind, tool |-> t, key |-> call.n,
                                     from |-> mFrom, at |-> N, failed |-> failing]
<1>3. /\ storm \in BOOLEAN /\ rate \in BOOLEAN /\ mFrom' = mFrom
      /\ mCalls' = Append(mCalls, call)
      /\ stormy = mStorms[t] \cup (IF storm THEN {call.n} ELSE {})
      /\ mStorms' = [mStorms EXCEPT ![t] = stormy]
      /\ mRated' = [mRated EXCEPT ![t] = @ \/ rate]
      /\ storm => call.n \notin mStorms[t]
      /\ rate => ~mRated[t] /\ stormy = {}
  BY <1>2, Zenon DEF JudgedAs
<1>4. mFindings' = mFindings \cup (IF storm THEN {found("storm", same)} ELSE {})
                             \cup (IF rate THEN {found("rate", failed)} ELSE {})
  BY <1>2, Zenon DEF JudgedAs
<1>5. N = Len(mCalls) + 1 /\ Len(mCalls) \in Nat
  BY <1>0, <1>3
<1>6. \A f \in mFindings' : \/ f \in mFindings
                            \/ storm /\ f = found("storm", same)
                            \/ rate /\ f = found("rate", failed)
  BY <1>4
<1>7. \A kind, failing : LET f == found(kind, failing) IN
        f.kind = kind /\ f.tool = t /\ f.key = call.n /\ f.from = mFrom /\ f.at = N
  OBVIOUS
<1>8. ~(storm /\ rate)
  BY <1>3
<1>9. /\ \A u \in Tools : mStorms[u] \subseteq mStorms'[u]
      /\ storm => call.n \in mStorms'[t]
  BY <1>0, <1>1, <1>3
<1>10. /\ \A u \in Tools : mRated[u] => mRated'[u]
       /\ rate => mRated'[t]
  BY <1>0, <1>1, <1>3, Zenon
<1>11. \A f \in mFindings : Remembering(f)
  BY DEF MisuseInv
<1>. HIDE DEF found, N
<1>12. ASSUME NEW f \in mFindings'
       PROVE  Remembering(f)'
  <2>1. CASE f \in mFindings
    <3>1. Remembering(f)
      BY <2>1, <1>11
    <3>2. f.at <= Len(mCalls')
      BY <3>1, <1>5 DEF Remembering, N
    <3>. QED  BY <3>1, <3>2, <1>3, <1>9, <1>10 DEF Remembering
  <2>2. CASE storm /\ f = found("storm", same)
    <3>1. mFrom <= N /\ N <= Len(mCalls') /\ N \in Nat /\ mFrom <= mFrom
      BY <1>0, <1>5 DEF N
    <3>. QED  BY <3>1, <2>2, <1>0, <1>1, <1>3, <1>7, <1>9 DEF Remembering
  <2>3. CASE rate /\ f = found("rate", failed)
    <3>1. mFrom <= N /\ N <= Len(mCalls') /\ N \in Nat /\ mFrom <= mFrom
      BY <1>0, <1>5 DEF N
    <3>. QED  BY <3>1, <2>3, <1>0, <1>1, <1>3, <1>7, <1>10 DEF Remembering
  <2>. QED  BY <1>6, <2>1, <2>2, <2>3
<1>13. ASSUME NEW f \in mFindings', NEW g \in mFindings', f.from = g.from, f.tool = g.tool, f # g
       PROVE  /\ f.kind = g.kind => (f.kind = "storm" /\ f.key # g.key)
              /\ f.kind = "rate" /\ g.kind = "storm" => f.at < g.at
  <2>1. CASE f \in mFindings /\ g \in mFindings
    BY <1>13, <2>1 DEF MisuseInv, Misuse!OnceAndNoRateAfterStorm
  <2>2. CASE f \in mFindings /\ g \notin mFindings
    <3>1. f.from = mFrom /\ f.tool = t
      BY <1>6, <1>7, <1>13, <2>2
    <3>2. Remembering(f)
      BY <2>2, <1>11
    <3>3. /\ f.kind = "storm" => f.key \in mStorms[t]
          /\ f.kind = "rate" => mRated[t]
      BY <3>1, <3>2, Zenon DEF Remembering
    <3>4. f.at < N
      BY <3>2, <1>5 DEF Remembering
    <3>5. CASE storm /\ g = found("storm", same)
      BY <3>3, <3>4, <3>5, <1>3, <1>7
    <3>6. CASE rate /\ g = found("rate", failed)
      BY <3>3, <3>6, <1>3, <1>7
    <3>. QED  BY <1>6, <2>2, <3>5, <3>6
  <2>3. CASE f \notin mFindings /\ g \in mFindings
    <3>1. g.from = mFrom /\ g.tool = t
      BY <1>6, <1>7, <1>13, <2>3
    <3>2. Remembering(g)
      BY <2>3, <1>11
    <3>3. /\ g.kind = "storm" => g.key \in mStorms[t]
          /\ g.kind = "rate" => mRated[t]
      BY <3>1, <3>2, Zenon DEF Remembering
    <3>5. CASE storm /\ f = found("storm", same)
      BY <3>3, <3>5, <1>3, <1>7
    <3>6. CASE rate /\ f = found("rate", failed)
      BY <3>3, <3>6, <1>3, <1>7
    <3>. QED  BY <1>6, <2>3, <3>5, <3>6
  <2>4. CASE f \notin mFindings /\ g \notin mFindings
    BY <1>6, <1>8, <1>13, <2>4
  <2>. QED  BY <2>1, <2>2, <2>3, <2>4
<1>. QED  BY <1>12, <1>13, Zenon DEF Misuse!OnceAndNoRateAfterStorm

LEMMA MisuseSteps ==
  MisuseInv /\ (Misuse!Next \/ UNCHANGED misuseVars) => MisuseInv'
<1>. SUFFICES ASSUME MisuseInv, Misuse!Next \/ UNCHANGED misuseVars PROVE MisuseInv'
  OBVIOUS
<1>1. CASE \E call \in Misuse!Calls : Misuse!Analyze(call)
  BY <1>1, StormsCounted, RatesCounted, FoundOnce, Zenon DEF MisuseInv
<1>2. CASE Misuse!Restart
  <2>1. /\ mFrom' = Len(mCalls) + 1 /\ mCalls' = mCalls /\ mFindings' = mFindings
        /\ mStorms' = [t \in Tools |-> {}] /\ mRated' = [t \in Tools |-> FALSE]
    BY <1>2 DEF Misuse!Restart
  <2>2. Len(mCalls) \in Nat /\ mFrom \in Nat /\ mFrom <= Len(mCalls) + 1
    BY DEF MisuseInv, MisuseTypes
  <2>3. \A k : k \notin Len(mCalls) + 1 .. Len(mCalls)
    BY <2>2
  <2>4. MisuseTypes'
    <3>1. mFrom' \in Nat /\ mFrom' >= 1 /\ mFrom' <= Len(mCalls') + 1
      BY <2>1, <2>2
    <3>. QED  BY <2>1, <3>1 DEF MisuseInv, MisuseTypes
  <2>5. StormsKnown'
    <3>1. ASSUME NEW t \in Tools, NEW n \in Arguments
          PROVE  ~(Cardinality(FailuresOf(mCalls, t, n, Len(mCalls) + 1, Len(mCalls))) > MaxSameFailures)
      <4>1. FailuresOf(mCalls, t, n, Len(mCalls) + 1, Len(mCalls)) = {}
        BY <2>3, Zenon DEF FailuresOf
      <4>2. MaxSameFailures \in Nat
        BY MisuseOk DEF Misuse!MisuseAssumption
      <4>3. ~(0 > MaxSameFailures)
        BY <4>2
      <4>. QED  BY <4>1, <4>3, FS_EmptySet, Zenon
    <3>. QED  BY <2>1, <3>1, Zenon DEF StormsKnown
  <2>6. RatesKnown'
    BY <2>1, <2>3, Zenon DEF RatesKnown
  <2>7. ASSUME NEW f \in mFindings' PROVE Remembering(f)'
    <3>1. Remembering(f)
      BY <2>1 DEF MisuseInv
    <3>2. f.from # mFrom' /\ f.from <= mFrom'
      BY <2>1, <2>2, <3>1 DEF Remembering
    <3>. QED  BY <2>1, <3>1, <3>2 DEF Remembering
  <2>8. Misuse!OnceAndNoRateAfterStorm'
    BY <2>1, Zenon DEF MisuseInv, Misuse!OnceAndNoRateAfterStorm
  <2>. QED  BY <2>4, <2>5, <2>6, <2>7, <2>8 DEF MisuseInv
<1>3. CASE Misuse!Rest \/ UNCHANGED misuseVars
  <2>1. UNCHANGED <<mCalls, mFrom, mStorms, mRated, mFindings>>
    BY <1>3 DEF Misuse!Rest, Misuse!vars, misuseVars
  <2>. QED  BY <2>1 DEF MisuseInv, MisuseTypes, StormsKnown, RatesKnown, Remembering, Misuse!OnceAndNoRateAfterStorm
<1>. QED  BY <1>1, <1>2, <1>3 DEF Misuse!Next

LEMMA MisuseStarts == Misuse!Init => MisuseInv
<1>. SUFFICES ASSUME Misuse!Init PROVE MisuseInv
  OBVIOUS
<1>1. /\ mCalls = <<>> /\ mFrom = 1 /\ mFindings = {}
      /\ mStorms = [t \in Tools |-> {}] /\ mRated = [t \in Tools |-> FALSE]
  BY DEF Misuse!Init
<1>2. Len(mCalls) = 0 /\ \A k : k \notin mFrom..Len(mCalls)
  BY <1>1
<1>3. StormsKnown
  <2>1. \A t, n : FailuresOf(mCalls, t, n, mFrom, Len(mCalls)) = {}
    BY <1>2, Zenon DEF FailuresOf
  <2>2. ~(0 > MaxSameFailures)
    BY MisuseOk DEF Misuse!MisuseAssumption
  <2>. QED  BY <1>1, <2>1, <2>2, FS_EmptySet, Zenon DEF StormsKnown
<1>4. RatesKnown
  BY <1>1, <1>2, Zenon DEF RatesKnown
<1>5. MisuseTypes
  BY <1>1 DEF MisuseTypes
<1>. QED  BY <1>1, <1>3, <1>4, <1>5 DEF MisuseInv, Misuse!OnceAndNoRateAfterStorm

\* The storms and the rates of the specification are those counted.
LEMMA MisuseTold ==
  MisuseInv => Misuse!StormWhenTooMany /\ Misuse!RateWhenTooHigh /\ Misuse!OnceAndNoRateAfterStorm
<1>. SUFFICES ASSUME MisuseInv
              PROVE  Misuse!StormWhenTooMany /\ Misuse!RateWhenTooHigh /\ Misuse!OnceAndNoRateAfterStorm
  OBVIOUS
<1>1. \A S : Misuse!Cardinality(S) = Cardinality(S)
  BY DEF Misuse!Cardinality, Cardinality
<1>2. \A t, n, since, k : Misuse!Failures(t, n, since, k) = FailuresOf(mCalls, t, n, since, k)
  BY Zenon DEF Misuse!Failures, FailuresOf
<1>3. Misuse!StormWhenTooMany
  BY <1>1, <1>2, Zenon DEF Misuse!StormWhenTooMany, MisuseInv, StormsKnown
<1>4. Misuse!RateWhenTooHigh
  <2>1. ASSUME NEW t, NEW k
        PROVE  TooHigh(mCalls, t, mFrom, k) <=>
                 LET all == {i \in mFrom..k : mCalls[i].tool = t}
                     failed == {i \in all : ~mCalls[i].ok}
                 IN  /\ k \in all /\ Misuse!Cardinality(all) >= MinCalls
                     /\ 100 * Misuse!Cardinality(failed) >= RatePercent * Misuse!Cardinality(all)
                     /\ \A n \in Arguments : Misuse!Cardinality(Misuse!Failures(t, n, mFrom, k)) <= MaxSameFailures
    BY <1>1, <1>2, Zenon DEF TooHigh, CallsOfTool
  <2>. QED  BY <2>1, Zenon DEF Misuse!RateWhenTooHigh, MisuseInv, RatesKnown
<1>. QED  BY <1>3, <1>4 DEF MisuseInv

\* toolmisuse.go:46-213: fed one call at a time, and forgetting all at a
\* restart, the detector reports what it says it does.
THEOREM MisuseIsFaithful == DetectorsSpec => []MisuseFaithful
<1>1. DetectorsInit => MisuseInv
  BY MisuseStarts DEF DetectorsInit
<1>2. MisuseInv /\ [DetectorsNext]_detectorVars => MisuseInv'
  <2>1. DetectorsNext \/ UNCHANGED detectorVars => Misuse!Next \/ UNCHANGED misuseVars
    BY Zenon DEF DetectorsNext, LoopMoves, WindowedMoves, DriftMoves, MisuseMoves, detectorVars, misuseVars
  <2>. QED  BY <2>1, MisuseSteps
<1>3. MisuseInv => MisuseFaithful
  BY MisuseTold DEF MisuseFaithful
<1>. QED  BY <1>1, <1>2, <1>3, PTL DEF DetectorsSpec

-----------------------------------------------------------------------------
(***************************************************************************)
(* The drift detector.  What a process holds of a session is the end of    *)
(* what the session said; a prompt that drifted from the first one held    *)
(* stays one, whatever is said later.                                      *)
(***************************************************************************)
Said == SUBSET Words

\* b is the end of a, element by element.
EndOf(b, a) ==
  Len(b) <= Len(a) /\ \A i \in 1..Len(b) : b[i] = a[Len(a) - Len(b) + i]

\* The findings of a session, and how many this process may have added.
OfSession(s) == {f \in dFindings : f.session = s}

DriftTypes ==
  /\ dPrompts \in [Sessions -> Seq(Said)] /\ dHeld \in [Sessions -> Seq(Said)]
  /\ dEmitted \in [Sessions -> BOOLEAN] /\ dRestarts \in Nat /\ IsFiniteSet(dFindings)

\* What was found, of the prompts that were held then.
FoundIn(f, said) ==
  LET seen == SubSeq(said, f.base + 1, f.base + f.total) IN
  /\ f.base \in Nat /\ f.total \in Nat /\ f.base + f.total <= Len(said)
  /\ f.drifted = Drift!ReferenceDrifted(seen) /\ f.severity = Drift!ReferenceSeverity(seen)

DriftInv ==
  /\ DriftTypes
  /\ \A s \in Sessions : EndOf(dHeld[s], dPrompts[s])
  /\ \A s \in Sessions : dEmitted[s] <=> Drift!ReferenceFinds(dHeld[s])
  /\ \A f \in dFindings : f.session \in Sessions /\ FoundIn(f, dPrompts[f.session])
  /\ \A s \in Sessions : Cardinality(OfSession(s)) <= dRestarts + (IF dEmitted[s] THEN 1 ELSE 0)

\* The words of a prompt are its tokens.
LEMMA Tokens ==
  ASSUME NEW p \in Said
  PROVE  Drift!tokenise(p) = p
<1>1. \A w \in p : [v \in Words |-> {v}][w] = {w}
  BY DEF Said
<1>2. Drift!tokenise(p) = UNION {[v \in Words |-> {v}][w] : w \in p}
  BY Zenon DEF Drift!tokenise
<1>3. {[v \in Words |-> {v}][w] : w \in p} = {{w} : w \in p}
  BY <1>1
<1>4. UNION {{w} : w \in p} = p
  OBVIOUS
<1>. QED  BY <1>2, <1>3, <1>4, Zenon

LEMMA DriftedAsReference ==
  ASSUME NEW ps \in Seq(Said)
  PROVE  Drift!Drifted(ps) = Drift!ReferenceDrifted(ps)
<1>1. \A i \in 2..Len(ps) : i \in 1..Len(ps) /\ 1 \in 1..Len(ps)
  BY LenProperties
<1>2. \A i \in 1..Len(ps) : ps[i] \in Said
  BY ElementOfSeq
<1>3. ASSUME NEW i \in 2..Len(ps)
      PROVE  Drift!Below(Drift!tokenise(ps[1]), Drift!tokenise(ps[i])) <=>
               LET union == ps[1] \cup ps[i] IN
               union # {} /\ 100 * Drift!Cardinality(ps[1] \cap ps[i]) < DriftPercent * Drift!Cardinality(union)
  <2>1. Drift!tokenise(ps[1]) = ps[1] /\ Drift!tokenise(ps[i]) = ps[i]
    BY <1>1, <1>2, Tokens
  <2>2. Drift!Below(ps[1], ps[i]) <=>
          LET union == ps[1] \cup ps[i] IN
          union # {} /\ 100 * Drift!Cardinality(ps[1] \cap ps[i]) < DriftPercent * Drift!Cardinality(union)
    BY Zenon DEF Drift!Below
  <2>. QED  BY <2>1, <2>2, Zenon
<1>. QED  BY <1>3, Zenon DEF Drift!Drifted, Drift!ReferenceDrifted

\* A prompt more, and those that drifted remain.
LEMMA StaysDrifted ==
  ASSUME NEW ps \in Seq(Said), NEW p \in Said
  PROVE  /\ Append(ps, p) \in Seq(Said) /\ Len(Append(ps, p)) = Len(ps) + 1
         /\ Drift!ReferenceFinds(ps) => Drift!ReferenceFinds(Append(ps, p))
<1>. DEFINE now == Append(ps, p)
<1>1. /\ now \in Seq(Said) /\ Len(now) = Len(ps) + 1 /\ Len(ps) \in Nat
      /\ \A i \in 1..Len(ps) : now[i] = ps[i]
  BY AppendProperties
<1>. HIDE DEF now
<1>2. \A i \in 2..Len(ps) : i \in 2..Len(now) /\ now[i] = ps[i] /\ now[1] = ps[1]
  BY <1>1
<1>3. Drift!ReferenceDrifted(ps) \subseteq Drift!ReferenceDrifted(now)
  BY <1>2, Zenon DEF Drift!ReferenceDrifted
<1>4. Len(ps) >= MinPrompts => Len(now) >= MinPrompts
  BY <1>1, DriftOk DEF Drift!DriftAssumption
<1>5. Drift!ReferenceFinds(ps) => Drift!ReferenceFinds(now)
  BY <1>3, <1>4 DEF Drift!ReferenceFinds
<1>. QED  BY <1>1, <1>5 DEF now

LEMMA EndGrows ==
  ASSUME NEW a \in Seq(Said), NEW b \in Seq(Said), EndOf(b, a), NEW p \in Said
  PROVE  EndOf(Append(b, p), Append(a, p))
<1>1. /\ Len(Append(a, p)) = Len(a) + 1 /\ Append(a, p)[Len(a) + 1] = p
      /\ \A i \in 1..Len(a) : Append(a, p)[i] = a[i]
      /\ Len(Append(b, p)) = Len(b) + 1 /\ Append(b, p)[Len(b) + 1] = p
      /\ \A i \in 1..Len(b) : Append(b, p)[i] = b[i]
      /\ Len(a) \in Nat /\ Len(b) \in Nat /\ Len(b) <= Len(a)
  BY AppendProperties, LenProperties DEF EndOf
<1>2. ASSUME NEW i \in 1 .. Len(b) + 1
      PROVE  Append(b, p)[i] = Append(a, p)[Len(a) - Len(b) + i]
  <2>1. CASE i = Len(b) + 1
    BY <1>1, <2>1
  <2>2. CASE i \in 1..Len(b)
    <3>1. Len(a) - Len(b) + i \in 1..Len(a) /\ b[i] = a[Len(a) - Len(b) + i]
      BY <1>1, <2>2 DEF EndOf
    <3>. QED  BY <1>1, <2>2, <3>1
  <2>. QED  BY <1>1, <2>1, <2>2
<1>3. (Len(a) + 1) - (Len(b) + 1) = Len(a) - Len(b) /\ Len(b) + 1 <= Len(a) + 1
  BY <1>1
<1>. QED  BY <1>1, <1>2, <1>3 DEF EndOf

\* What ends a sequence is cut from it.
LEMMA EndIsCut ==
  ASSUME NEW a \in Seq(Said), NEW b \in Seq(Said), EndOf(b, a), NEW base, base = Len(a) - Len(b)
  PROVE  base \in Nat /\ base + Len(b) = Len(a) /\ SubSeq(a, base + 1, base + Len(b)) = b
<1>1. Len(a) \in Nat /\ Len(b) \in Nat /\ base \in Nat /\ base + Len(b) = Len(a)
  BY LenProperties DEF EndOf
<1>2. \A i \in base + 1 .. base + Len(b) : a[i] \in Said
  BY <1>1, ElementOfSeq
<1>. DEFINE cut == SubSeq(a, base + 1, base + Len(b))
<1>3. /\ cut \in Seq(Said)
      /\ Len(cut) = IF base + 1 <= base + Len(b) THEN base + Len(b) - (base + 1) + 1 ELSE 0
      /\ \A i \in 1 .. base + Len(b) - (base + 1) + 1 : cut[i] = a[base + 1 + i - 1]
  BY <1>1, <1>2, SubSeqProperties
<1>. HIDE DEF cut
<1>4. Len(cut) = Len(b)
  BY <1>1, <1>3
<1>5. ASSUME NEW i \in 1..Len(b)
      PROVE  cut[i] = b[i]
  <2>1. i \in 1 .. base + Len(b) - (base + 1) + 1 /\ base + 1 + i - 1 = Len(a) - Len(b) + i
    BY <1>1
  <2>2. b[i] = a[Len(a) - Len(b) + i]
    BY DEF EndOf
  <2>. QED  BY <1>3, <2>1, <2>2, Zenon
<1>. QED  BY <1>1, <1>3, <1>4, <1>5, SeqEqual DEF cut

LEMMA CutStays ==
  ASSUME NEW said \in Seq(Said), NEW p \in Said, NEW base \in Nat, NEW total \in Nat,
         base + total <= Len(said)
  PROVE  SubSeq(Append(said, p), base + 1, base + total) = SubSeq(said, base + 1, base + total)
<1>1. Len(said) \in Nat
  BY LenProperties
<1>2. Append(said, p) \in Seq(Said) /\ \A i \in 1..Len(said) : Append(said, p)[i] = said[i]
  BY AppendProperties
<1>3. \A i \in base + 1 .. base + total : i \in 1..Len(said)
  BY <1>1
<1>4. \A i \in base + 1 .. base + total : said[i] \in Said /\ Append(said, p)[i] = said[i]
  BY <1>2, <1>3, ElementOfSeq
<1>. DEFINE old == SubSeq(said, base + 1, base + total)
            new == SubSeq(Append(said, p), base + 1, base + total)
            n == base + total - (base + 1) + 1
<1>5. /\ old \in Seq(Said) /\ Len(old) = IF base + 1 <= base + total THEN n ELSE 0
      /\ \A i \in 1..n : old[i] = said[base + 1 + i - 1]
  BY <1>4, SubSeqProperties
<1>6. /\ new \in Seq(Said) /\ Len(new) = IF base + 1 <= base + total THEN n ELSE 0
      /\ \A i \in 1..n : new[i] = Append(said, p)[base + 1 + i - 1]
  BY <1>4, SubSeqProperties
<1>. HIDE DEF old, new
<1>7. Len(old) = Len(new) /\ Len(old) = total /\ n = total
  BY <1>5, <1>6
<1>8. ASSUME NEW i \in 1..Len(old)
      PROVE  old[i] = new[i]
  <2>1. i \in 1..n /\ base + 1 + i - 1 \in base + 1 .. base + total
    BY <1>7
  <2>. QED  BY <2>1, <1>4, <1>5, <1>6, Zenon
<1>. QED  BY <1>5, <1>6, <1>7, <1>8, SeqEqual DEF old, new

\* What was found of what was said stays found when more is said.
LEMMA StaysFound ==
  ASSUME NEW said \in Seq(Said), NEW p \in Said, NEW f, FoundIn(f, said)
  PROVE  FoundIn(f, Append(said, p))
<1>1. Len(said) \in Nat /\ f.base \in Nat /\ f.total \in Nat /\ f.base + f.total <= Len(said)
  BY LenProperties DEF FoundIn
<1>2. Len(Append(said, p)) = Len(said) + 1
  BY AppendProperties
<1>3. SubSeq(Append(said, p), f.base + 1, f.base + f.total) = SubSeq(said, f.base + 1, f.base + f.total)
  BY <1>1, CutStays
<1>4. f.base + f.total <= Len(Append(said, p))
  BY <1>1, <1>2
<1>. QED  BY <1>3, <1>4, Zenon DEF FoundIn

\* A prompt: what is held, whether it is reported and what is found.
DriftJudged(s, p, now, found) ==
  /\ now = Append(dHeld[s], p) /\ found \in BOOLEAN
  /\ dPrompts' = [dPrompts EXCEPT ![s] = Append(@, p)]
  /\ dHeld' = [dHeld EXCEPT ![s] = now]
  /\ dEmitted' = [dEmitted EXCEPT ![s] = @ \/ found]
  /\ found <=> ~dEmitted[s] /\ Drift!ReferenceFinds(now)
  /\ dFindings' = IF found
       THEN dFindings \cup {[session |-> s, base |-> Len(dPrompts[s]) - Len(dHeld[s]), total |-> Len(now),
                             drifted |-> Drift!ReferenceDrifted(now), severity |-> Drift!ReferenceSeverity(now)]}
       ELSE dFindings
  /\ dRestarts' = dRestarts

LEMMA Compared ==
  ASSUME DriftInv, NEW s \in Sessions, NEW p \in Said, Drift!Analyze(s, p)
  PROVE  \E now, found : DriftJudged(s, p, now, found)
<1>. DEFINE now == Append(dHeld[s], p)
            base == Len(dPrompts[s]) - Len(dHeld[s])
            drifted == Drift!Drifted(now)
            found == Len(now) >= MinPrompts /\ ~dEmitted[s] /\ drifted # {}
<1>1. /\ dPrompts' = [dPrompts EXCEPT ![s] = Append(@, p)]
      /\ dHeld' = [dHeld EXCEPT ![s] = now]
      /\ dEmitted' = [dEmitted EXCEPT ![s] = @ \/ found]
      /\ dFindings' = IF found
           THEN dFindings \cup {[session |-> s, base |-> base, total |-> Len(now),
                  drifted |-> drifted, severity |-> Drift!Severity(drifted, Len(now))]}
           ELSE dFindings
      /\ dRestarts' = dRestarts
  BY Zenon DEF Drift!Analyze
<1>2. now \in Seq(Said)
  BY DEF DriftInv, DriftTypes
<1>. HIDE DEF now
<1>3. drifted = Drift!ReferenceDrifted(now)
  BY <1>2, DriftedAsReference
<1>4. Drift!Severity(drifted, Len(now)) = Drift!ReferenceSeverity(now)
  BY <1>3, Zenon DEF Drift!Severity, Drift!ReferenceSeverity
<1>5. (found <=> ~dEmitted[s] /\ Drift!ReferenceFinds(now)) /\ found \in BOOLEAN
  BY <1>3, Zenon DEF Drift!ReferenceFinds
<1>. HIDE DEF found, drifted
<1>6. DriftJudged(s, p, now, found)
  BY <1>1, <1>3, <1>4, <1>5, Zenon DEF DriftJudged, now
<1>. QED  BY <1>6

LEMMA DriftCall ==
  ASSUME DriftInv, NEW s \in Sessions, NEW p \in Said, Drift!Analyze(s, p)
  PROVE  DriftInv'
<1>0. /\ dPrompts \in [Sessions -> Seq(Said)] /\ dHeld \in [Sessions -> Seq(Said)]
      /\ dEmitted \in [Sessions -> BOOLEAN] /\ dRestarts \in Nat /\ IsFiniteSet(dFindings)
  BY DEF DriftInv, DriftTypes
<1>1. /\ \A u \in Sessions : EndOf(dHeld[u], dPrompts[u])
      /\ \A u \in Sessions : dEmitted[u] <=> Drift!ReferenceFinds(dHeld[u])
      /\ \A f \in dFindings : f.session \in Sessions /\ FoundIn(f, dPrompts[f.session])
      /\ \A u \in Sessions : Cardinality(OfSession(u)) <= dRestarts + (IF dEmitted[u] THEN 1 ELSE 0)
  BY DEF DriftInv
<1>2. PICK now, found : DriftJudged(s, p, now, found)
  BY Compared
<1>. DEFINE said == Append(dPrompts[s], p)
            base == Len(dPrompts[s]) - Len(dHeld[s])
            new == [session |-> s, base |-> base, total |-> Len(now),
                    drifted |-> Drift!ReferenceDrifted(now), severity |-> Drift!ReferenceSeverity(now)]
<1>3. /\ now = Append(dHeld[s], p) /\ found \in BOOLEAN
      /\ dPrompts' = [dPrompts EXCEPT ![s] = said]
      /\ dHeld' = [dHeld EXCEPT ![s] = now]
      /\ dEmitted' = [dEmitted EXCEPT ![s] = @ \/ found]
      /\ found <=> ~dEmitted[s] /\ Drift!ReferenceFinds(now)
      /\ dFindings' = IF found THEN dFindings \cup {new} ELSE dFindings
      /\ dRestarts' = dRestarts
  BY <1>2, Zenon DEF DriftJudged
<1>4. /\ said \in Seq(Said) /\ now \in Seq(Said) /\ EndOf(now, said)
      /\ Len(said) = Len(dPrompts[s]) + 1 /\ Len(now) = Len(dHeld[s]) + 1
      /\ Drift!ReferenceFinds(dHeld[s]) => Drift!ReferenceFinds(now)
  BY <1>0, <1>1, <1>3, StaysDrifted, EndGrows
<1>5. /\ dPrompts'[s] = said /\ dHeld'[s] = now
      /\ \A u \in Sessions : u # s => dPrompts'[u] = dPrompts[u] /\ dHeld'[u] = dHeld[u]
      /\ dPrompts' \in [Sessions -> Seq(Said)] /\ dHeld' \in [Sessions -> Seq(Said)]
  <2>. HIDE DEF said
  <2>. QED  BY <1>0, <1>3, <1>4
<1>6. /\ dEmitted'[s] <=> dEmitted[s] \/ found
      /\ \A u \in Sessions : u # s => dEmitted'[u] = dEmitted[u]
      /\ dEmitted' \in [Sessions -> BOOLEAN]
  <2>1. (dEmitted[s] \/ found) \in BOOLEAN
    OBVIOUS
  <2>. QED  BY <1>0, <1>3, <2>1, Zenon
<1>7. base \in Nat /\ base + Len(now) = Len(said) /\ SubSeq(said, base + 1, base + Len(now)) = now
  <2>1. Len(dPrompts[s]) \in Nat /\ Len(dHeld[s]) \in Nat
    BY <1>0
  <2>2. base = Len(said) - Len(now)
    BY <1>4, <2>1
  <2>. HIDE DEF base, said
  <2>. QED  BY <1>4, <2>2, EndIsCut
<1>8. new.session = s /\ FoundIn(new, said)
  <2>1. /\ new.session = s /\ new.base = base /\ new.total = Len(now)
        /\ new.drifted = Drift!ReferenceDrifted(now) /\ new.severity = Drift!ReferenceSeverity(now)
    OBVIOUS
  <2>2. Len(now) \in Nat /\ base + Len(now) <= Len(said)
    <3>. HIDE DEF base, said, new
    <3>1. Len(now) \in Nat /\ Len(said) \in Nat
      BY <1>4, LenProperties
    <3>. QED  BY <1>7, <3>1
  <2>. HIDE DEF new, base, said
  <2>. QED  BY <1>7, <2>1, <2>2, Zenon DEF FoundIn
<1>. HIDE DEF new, base, said
<1>9. DriftTypes'
  <2>1. IsFiniteSet(dFindings')
    BY <1>0, <1>3, FS_AddElement
  <2>. QED  BY <1>0, <1>3, <1>5, <1>6, <2>1, Zenon DEF DriftTypes
<1>10. \A u \in Sessions : EndOf(dHeld'[u], dPrompts'[u])
  BY <1>1, <1>4, <1>5, Zenon
<1>11. \A u \in Sessions : dEmitted'[u] <=> Drift!ReferenceFinds(dHeld'[u])
  BY <1>1, <1>3, <1>4, <1>5, <1>6, Zenon
<1>12. ASSUME NEW f \in dFindings'
       PROVE  f.session \in Sessions /\ FoundIn(f, dPrompts'[f.session])
  <2>1. CASE f \in dFindings
    <3>1. f.session \in Sessions /\ FoundIn(f, dPrompts[f.session])
      BY <1>1, <2>1
    <3>2. f.session = s => FoundIn(f, said)
      BY <3>1, <1>0, StaysFound DEF said
    <3>. QED  BY <1>5, <3>1, <3>2, Zenon
  <2>2. CASE found /\ f = new
    BY <1>5, <1>8, <2>2, Zenon
  <2>. QED  BY <1>3, <2>1, <2>2
<1>13. ASSUME NEW u \in Sessions
       PROVE  Cardinality(OfSession(u)') <= dRestarts' + (IF dEmitted'[u] THEN 1 ELSE 0)
  <2>1. IsFiniteSet(OfSession(u)) /\ Cardinality(OfSession(u)) \in Nat
    <3>1. OfSession(u) \subseteq dFindings
      BY DEF OfSession
    <3>. QED  BY <1>0, <3>1, FS_Subset, FS_CardinalityType
  <2>2. CASE found /\ u = s
    <3>1. OfSession(u)' = OfSession(u) \cup {new}
      BY <1>3, <1>8, <2>2 DEF OfSession
    <3>2. Cardinality(OfSession(u)') <= Cardinality(OfSession(u)) + 1
      BY <2>1, <3>1, FS_AddElement
    <3>3. ~dEmitted[u] /\ dEmitted'[u]
      BY <1>3, <1>6, <2>2, Zenon
    <3>4. Cardinality(OfSession(u)) <= dRestarts
      BY <1>0, <1>1, <2>1, <3>3
    <3>5. Cardinality(OfSession(u)') \in Nat
      <4>1. IsFiniteSet(OfSession(u)')
        BY <2>1, <3>1, FS_AddElement
      <4>. QED  BY <4>1, FS_CardinalityType
    <3>6. Cardinality(OfSession(u)') <= dRestarts + 1
      BY <1>0, <2>1, <3>2, <3>4, <3>5
    <3>. QED  BY <1>3, <3>3, <3>6, Zenon
  <2>3. CASE ~(found /\ u = s)
    <3>1. OfSession(u)' = OfSession(u)
      BY <1>3, <1>8, <2>3 DEF OfSession
    <3>2. dEmitted'[u] <=> dEmitted[u]
      BY <1>6, <2>3, Zenon
    <3>3. Cardinality(OfSession(u)) <= dRestarts + (IF dEmitted[u] THEN 1 ELSE 0)
      BY <1>1
    <3>. QED  BY <1>3, <3>1, <3>2, <3>3, Zenon
  <2>. QED  BY <2>2, <2>3
<1>. QED  BY <1>9, <1>10, <1>11, <1>12, <1>13, Zenon DEF DriftInv

LEMMA NothingHeld ==
  /\ ~Drift!ReferenceFinds(<<>>)
  /\ \A a \in Seq(Said) : EndOf(<<>>, a)
<1>1. Len(<<>>) = 0 /\ ~(0 >= MinPrompts)
  BY DriftOk DEF Drift!DriftAssumption
<1>2. ~Drift!ReferenceFinds(<<>>)
  BY <1>1, Zenon DEF Drift!ReferenceFinds
<1>3. \A a \in Seq(Said) : EndOf(<<>>, a)
  BY <1>1 DEF EndOf
<1>. QED  BY <1>2, <1>3

LEMMA DriftSteps ==
  DriftInv /\ (Drift!Next \/ UNCHANGED driftVars) => DriftInv'
<1>. SUFFICES ASSUME DriftInv, Drift!Next \/ UNCHANGED driftVars PROVE DriftInv'
  OBVIOUS
<1>1. CASE \E s \in Sessions, p \in SUBSET Words : Drift!Analyze(s, p)
  BY <1>1, DriftCall, Zenon DEF Said
<1>2. CASE Drift!Restart
  <2>1. /\ dRestarts' = dRestarts + 1 /\ dPrompts' = dPrompts /\ dFindings' = dFindings
        /\ dHeld' = [s \in Sessions |-> <<>>] /\ dEmitted' = [s \in Sessions |-> FALSE]
    BY <1>2 DEF Drift!Restart
  <2>2. dRestarts \in Nat /\ IsFiniteSet(dFindings) /\ dPrompts \in [Sessions -> Seq(Said)]
    BY DEF DriftInv, DriftTypes
  <2>3. DriftTypes'
    <3>1. <<>> \in Seq(Said)
      OBVIOUS
    <3>. QED  BY <2>1, <2>2, <3>1 DEF DriftTypes
  <2>4. \A s \in Sessions : EndOf(dHeld'[s], dPrompts'[s])
    BY <2>1, <2>2, NothingHeld
  <2>5. \A s \in Sessions : dEmitted'[s] <=> Drift!ReferenceFinds(dHeld'[s])
    BY <2>1, NothingHeld, Zenon
  <2>6. \A f \in dFindings' : f.session \in Sessions /\ FoundIn(f, dPrompts'[f.session])
    BY <2>1 DEF DriftInv
  <2>7. ASSUME NEW s \in Sessions
        PROVE  Cardinality(OfSession(s)') <= dRestarts' + (IF dEmitted'[s] THEN 1 ELSE 0)
    <3>1. OfSession(s)' = OfSession(s) /\ OfSession(s) \subseteq dFindings
      BY <2>1 DEF OfSession
    <3>2. Cardinality(OfSession(s)) \in Nat
      BY <2>2, <3>1, FS_Subset, FS_CardinalityType
    <3>3. Cardinality(OfSession(s)) <= dRestarts + (IF dEmitted[s] THEN 1 ELSE 0)
      BY DEF DriftInv
    <3>4. Cardinality(OfSession(s)) <= dRestarts + 1 + 0
      BY <2>2, <3>2, <3>3
    <3>. QED  BY <2>1, <3>1, <3>4, Zenon
  <2>. QED  BY <2>3, <2>4, <2>5, <2>6, <2>7, Zenon DEF DriftInv
<1>3. CASE Drift!Rest \/ UNCHANGED driftVars
  <2>1. UNCHANGED <<dPrompts, dHeld, dEmitted, dFindings, dRestarts>>
    BY <1>3 DEF Drift!Rest, Drift!vars, driftVars
  <2>. QED  BY <2>1, Zenon DEF DriftInv, DriftTypes, OfSession
<1>. QED  BY <1>1, <1>2, <1>3 DEF Drift!Next

LEMMA DriftStarts == Drift!Init => DriftInv
<1>. SUFFICES ASSUME Drift!Init PROVE DriftInv
  OBVIOUS
<1>1. /\ dPrompts = [s \in Sessions |-> <<>>] /\ dHeld = dPrompts
      /\ dEmitted = [s \in Sessions |-> FALSE] /\ dFindings = {} /\ dRestarts = 0
  BY DEF Drift!Init
<1>2. DriftTypes
  <2>1. <<>> \in Seq(Said)
    OBVIOUS
  <2>. QED  BY <1>1, <2>1, FS_EmptySet DEF DriftTypes
<1>3. ASSUME NEW s \in Sessions
      PROVE  EndOf(dHeld[s], dPrompts[s])
  <2>1. dHeld[s] = <<>> /\ dPrompts[s] = <<>> /\ <<>> \in Seq(Said)
    BY <1>1
  <2>. QED  BY <2>1, NothingHeld, Zenon
<1>4. \A s \in Sessions : dEmitted[s] <=> Drift!ReferenceFinds(dHeld[s])
  BY <1>1, NothingHeld, Zenon
<1>5. ASSUME NEW s \in Sessions
      PROVE  Cardinality(OfSession(s)) <= dRestarts + (IF dEmitted[s] THEN 1 ELSE 0)
  <2>1. OfSession(s) = {} /\ ~dEmitted[s]
    BY <1>1 DEF OfSession
  <2>2. Cardinality(OfSession(s)) = 0
    BY <2>1, FS_EmptySet
  <2>. QED  BY <1>1, <2>1, <2>2
<1>. QED  BY <1>1, <1>2, <1>3, <1>4, <1>5 DEF DriftInv

LEMMA DriftTold ==
  DriftInv => Drift!AsReference /\ Drift!TrueWhenReported /\ Drift!OncePerStart
<1>. SUFFICES ASSUME DriftInv
              PROVE  Drift!AsReference /\ Drift!TrueWhenReported /\ Drift!OncePerStart
  OBVIOUS
<1>1. Drift!AsReference
  BY Zenon DEF DriftInv, Drift!AsReference
<1>2. Drift!TrueWhenReported
  BY Zenon DEF DriftInv, FoundIn, Drift!TrueWhenReported, Drift!SeenFor
<1>3. Drift!OncePerStart
  <2>1. \A S : Drift!Cardinality(S) = Cardinality(S)
    BY DEF Drift!Cardinality, Cardinality
  <2>2. ASSUME NEW s \in Sessions
        PROVE  Cardinality(OfSession(s)) <= dRestarts + 1
    <3>1. OfSession(s) \subseteq dFindings /\ dRestarts \in Nat /\ IsFiniteSet(dFindings)
      BY DEF OfSession, DriftInv, DriftTypes
    <3>2. Cardinality(OfSession(s)) \in Nat
      BY <3>1, FS_Subset, FS_CardinalityType
    <3>3. Cardinality(OfSession(s)) <= dRestarts + (IF dEmitted[s] THEN 1 ELSE 0)
      BY DEF DriftInv
    <3>. QED  BY <3>1, <3>2, <3>3
  <2>. QED  BY <2>1, <2>2, Zenon DEF Drift!OncePerStart, OfSession
<1>. QED  BY <1>1, <1>2, <1>3

\* drift.go:55-154: prompt by prompt, with other sessions between and restarts,
\* the drift detector does what the detector it was ported from does at once.
THEOREM DriftIsTheReferences == DetectorsSpec => []DriftAsReference
<1>1. DetectorsInit => DriftInv
  BY DriftStarts DEF DetectorsInit
<1>2. DriftInv /\ [DetectorsNext]_detectorVars => DriftInv'
  <2>1. DetectorsNext \/ UNCHANGED detectorVars => Drift!Next \/ UNCHANGED driftVars
    BY Zenon DEF DetectorsNext, LoopMoves, WindowedMoves, DriftMoves, MisuseMoves, detectorVars, driftVars
  <2>. QED  BY <2>1, DriftSteps
<1>3. DriftInv => DriftAsReference
  BY DriftTold DEF DriftAsReference
<1>. QED  BY <1>1, <1>2, <1>3, PTL DEF DetectorsSpec

-----------------------------------------------------------------------------
(***************************************************************************)
(* The loop detector.  From i on the calls run with a period: each has the *)
(* tool of the one a period later, to the end of the run.  They repeat r   *)
(* times when they run for r periods.                                      *)
(***************************************************************************)
Runs(cs, i, len, e) ==
  i + e - 1 <= Len(cs) /\ \A k \in i .. i + e - len - 1 : cs[k].tool = cs[k + len].tool

Loop1 == [start : Nat, length : Nat, reps : Nat]

LEMMA LoopLimits ==
  MinSeqLen \in Nat /\ MinSeqLen >= 1 /\ MinReps \in Nat /\ MinReps >= 1
BY LoopOk DEF Loop!LoopAssumption

LEMMA GreatestExists ==
  ASSUME NEW N \in Nat, NEW T \in SUBSET (0..N), T # {}
  PROVE  \E m \in T : \A x \in T : x <= m
<1>. DEFINE U == {n \in 0..N : \A x \in T : x <= n}
<1>1. N \in U /\ U \in SUBSET Nat
  OBVIOUS
<1>2. PICK m \in U : \A n \in U : m <= n
  <2>. HIDE DEF U
  <2>. QED  BY <1>1, LeastExists
<1>3. m \in 0..N /\ \A x \in T : x <= m
  OBVIOUS
<1>4. m \in T
  <2>. SUFFICES ASSUME m \notin T PROVE FALSE
    OBVIOUS
  <2>1. \A x \in T : x <= m - 1
    BY <1>3
  <2>2. PICK x \in T : x \in 0..N
    OBVIOUS
  <2>3. m - 1 \in 0..N
    BY <1>3, <2>1, <2>2
  <2>4. m - 1 \in U
    BY <2>1, <2>3
  <2>. QED  BY <1>2, <1>3, <2>4
<1>. QED  BY <1>3, <1>4

LEMMA Times ==
  ASSUME NEW l \in Nat, l >= 1, NEW q \in Nat, NEW r \in Nat
  PROVE  /\ l * q \in Nat /\ l * q >= q /\ l * (q + 1) = l * q + l /\ l * (q - 1) = l * q - l
         /\ q >= 1 => l * q >= l
         /\ q <= r => l * q <= l * r
         /\ q < r => l * q + l <= l * r
<1>1. l * q \in Nat /\ l * r \in Nat /\ l * (q + 1) = l * q + l /\ l * (q - 1) = l * q - l
  OBVIOUS
<1>2. l * q >= q
  <2>1. (l - 1) * q >= 0
    <3>1. l - 1 \in Nat
      OBVIOUS
    <3>2. (l - 1) * q \in Nat
      BY <3>1
    <3>. QED  BY <3>2
  <2>2. (l - 1) * q = l * q - q
    OBVIOUS
  <2>. QED  BY <2>1, <2>2
<1>3. q <= r => l * q <= l * r
  <2>. SUFFICES ASSUME q <= r PROVE l * q <= l * r
    OBVIOUS
  <2>1. r - q \in Nat
    OBVIOUS
  <2>2. l * (r - q) \in Nat
    BY <2>1
  <2>3. l * (r - q) = l * r - l * q
    OBVIOUS
  <2>. QED  BY <1>1, <2>2, <2>3
<1>4. q < r => l * q + l <= l * r
  <2>. SUFFICES ASSUME q < r PROVE l * q + l <= l * r
    OBVIOUS
  <2>1. r - (q + 1) \in Nat
    OBVIOUS
  <2>2. l * (r - (q + 1)) \in Nat
    BY <2>1
  <2>3. l * (r - (q + 1)) = l * r - (l * q + l)
    OBVIOUS
  <2>. QED  BY <1>1, <2>2, <2>3
<1>5. q >= 1 => l * q >= l
  <2>. SUFFICES ASSUME q >= 1 PROVE l * q >= l
    OBVIOUS
  <2>1. q - 1 \in Nat
    OBVIOUS
  <2>2. l * (q - 1) \in Nat
    BY <2>1
  <2>. QED  BY <1>1, <2>2
<1>. QED  BY <1>1, <1>2, <1>3, <1>4, <1>5

LEMMA RepeatsRuns ==
  ASSUME NEW cs, NEW i \in Nat, NEW l \in Nat, l >= 1, NEW r \in Nat
  PROVE  Loop!Repeats(cs, i, l, r) <=> Runs(cs, i, l, l * r)
<1>1. l * (r - 1) = l * r - l /\ l * r \in Nat
  BY Times
<1>2. i + l * (r - 1) - 1 = i + l * r - l - 1
  BY <1>1
<1>. QED  BY <1>2, Zenon DEF Loop!Repeats, Loop!Tool, Runs

LEMMA RunsShorter ==
  ASSUME NEW V, NEW cs \in Seq(V), NEW i \in Nat, NEW l \in Nat, NEW e \in Int, NEW d \in Int, d <= e,
         Runs(cs, i, l, e)
  PROVE  Runs(cs, i, l, d)
<1>1. Len(cs) \in Nat
  BY LenProperties
<1>2. i + d - 1 <= Len(cs)
  BY <1>1 DEF Runs
<1>3. \A k \in i .. i + d - l - 1 : k \in i .. i + e - l - 1
  OBVIOUS
<1>. QED  BY <1>2, <1>3 DEF Runs

LEMMA RunsStay ==
  ASSUME NEW V, NEW cs \in Seq(V), NEW c \in V, NEW i \in Nat, i >= 1, NEW l \in Nat, NEW e \in Int
  PROVE  /\ Runs(cs, i, l, e) => Runs(Append(cs, c), i, l, e)
         /\ Runs(Append(cs, c), i, l, e) /\ i + e - 1 <= Len(cs) => Runs(cs, i, l, e)
<1>1. /\ Len(cs) \in Nat /\ Len(Append(cs, c)) = Len(cs) + 1
      /\ \A k \in 1..Len(cs) : Append(cs, c)[k] = cs[k]
  BY LenProperties, AppendProperties
<1>2. ASSUME i + e - 1 <= Len(cs), NEW k \in i .. i + e - l - 1
      PROVE  Append(cs, c)[k] = cs[k] /\ Append(cs, c)[k + l] = cs[k + l]
  <2>1. k \in 1..Len(cs) /\ k + l \in 1..Len(cs)
    BY <1>1, <1>2
  <2>. QED  BY <1>1, <2>1
<1>3. i + e - 1 <= Len(cs) => i + e - 1 <= Len(Append(cs, c))
  BY <1>1
<1>. QED  BY <1>2, <1>3, Zenon DEF Runs

LEMMA RepsAtIs ==
  ASSUME NEW V, NEW cs \in Seq(V), NEW i \in Nat, i >= 1, NEW l \in Nat, l >= 1,
         Runs(cs, i, l, l * MinReps)
  PROVE  LET r == Loop!RepsAt(cs, i, l) IN
         /\ r \in Nat /\ r >= MinReps /\ Runs(cs, i, l, l * r)
         /\ \A q \in Nat : q >= 1 /\ Runs(cs, i, l, l * q) => q <= r
<1>. DEFINE T == {r \in 1..Len(cs) : Loop!Repeats(cs, i, l, r)}
            r == Loop!RepsAt(cs, i, l)
<1>1. Len(cs) \in Nat
  BY LenProperties
<1>2. ASSUME NEW q \in Nat, q >= 1, Runs(cs, i, l, l * q)
      PROVE  q \in T
  <2>1. l * q >= q /\ l * q \in Nat
    BY Times
  <2>2. i + l * q - 1 <= Len(cs)
    BY <1>2 DEF Runs
  <2>3. q \in 1..Len(cs)
    BY <1>1, <1>2, <2>1, <2>2
  <2>4. Loop!Repeats(cs, i, l, q)
    BY <1>2, RepeatsRuns
  <2>. QED  BY <2>3, <2>4
<1>3. T \in SUBSET (0..Len(cs)) /\ \A q \in T : q \in 1..Len(cs) /\ Loop!Repeats(cs, i, l, q)
  BY <1>1
<1>4. r = CHOOSE x \in T : \A y \in T : x >= y
  BY DEF Loop!RepsAt, Loop!Max
<1>. HIDE DEF T, r
<1>5. MinReps \in T
  BY <1>2, LoopLimits
<1>6. PICK m \in T : \A x \in T : x <= m
  BY <1>1, <1>3, <1>5, GreatestExists
<1>7. \A y \in T : m >= y
  BY <1>1, <1>3, <1>6
<1>8. r \in T /\ \A y \in T : r >= y
  BY <1>4, <1>7, Zenon
<1>9. r \in Nat /\ r >= MinReps
  BY <1>1, <1>3, <1>5, <1>8
<1>10. Runs(cs, i, l, l * r)
  BY <1>3, <1>8, <1>9, RepeatsRuns
<1>11. \A q \in Nat : q >= 1 /\ Runs(cs, i, l, l * q) => q <= r
  BY <1>1, <1>2, <1>3, <1>8, <1>9
<1>. QED  BY <1>9, <1>10, <1>11 DEF r

-----------------------------------------------------------------------------
(***************************************************************************)
(* The search.  A loop is found where calls repeat often enough and none   *)
(* that is not longer covers their first.                                  *)
(***************************************************************************)
IsLoop(f, cs, from) ==
  /\ f \in Loop1 /\ f.start >= from /\ f.length >= MinSeqLen
  /\ Runs(cs, f.start, f.length, f.length * MinReps)
  /\ f.reps = Loop!RepsAt(cs, f.start, f.length)

Apart(F) == \A f, g \in F : f.start \in Loop!Span(g) /\ g.length <= f.length => f = g

Covers(F, s, l) == \E g \in F : s \in Loop!Span(g) /\ g.length <= l

Found(F, cs, from) ==
  /\ \A f \in F : IsLoop(f, cs, from)
  /\ Apart(F)
  /\ \A s, l \in Nat : s >= from /\ l >= MinSeqLen /\ Runs(cs, s, l, l * MinReps) => Covers(F, s, l)

\* The same while the positions up to i are tried with the length len.
TriedBy(s, l, len, i) == l < len \/ (l = len /\ s <= i)

Tried(F, cs, from, len, i) ==
  /\ \A f \in F : IsLoop(f, cs, from) /\ TriedBy(f.start, f.length, len, i)
  /\ Apart(F)
  /\ \A s, l \in Nat : s >= from /\ l >= MinSeqLen /\ TriedBy(s, l, len, i) /\ Runs(cs, s, l, l * MinReps) => Covers(F, s, l)

LEMMA SpanIs ==
  ASSUME NEW V, NEW cs \in Seq(V), NEW f \in Loop1, f.start >= 1, f.length >= 1,
         Runs(cs, f.start, f.length, f.length * MinReps), f.reps = Loop!RepsAt(cs, f.start, f.length)
  PROVE  /\ f.reps >= MinReps /\ f.reps >= 1 /\ f.length * f.reps \in Nat /\ f.length * f.reps >= f.length
         /\ Runs(cs, f.start, f.length, f.length * f.reps)
         /\ \A s \in Nat : s \in Loop!Span(f) <=> f.start <= s /\ s <= f.start + f.length * f.reps - 1
         /\ f.start \in Loop!Span(f)
<1>1. f.start \in Nat /\ f.length \in Nat /\ f.reps \in Nat
  BY DEF Loop1
<1>2. f.reps >= MinReps /\ Runs(cs, f.start, f.length, f.length * f.reps)
  BY <1>1, RepsAtIs
<1>3. f.reps >= 1
  BY <1>1, <1>2, LoopLimits
<1>4. f.length * f.reps \in Nat /\ f.length * f.reps >= f.length
  BY <1>1, <1>3, Times
<1>5. \A s \in Nat : s \in Loop!Span(f) <=> f.start <= s /\ s <= f.start + f.length * f.reps - 1
  BY <1>1, <1>4 DEF Loop!Span
<1>. QED  BY <1>1, <1>2, <1>3, <1>4, <1>5

LEMMA TryFinds ==
  ASSUME NEW V, NEW cs \in Seq(V), NEW from \in Nat, from >= 1, NEW len \in Nat, len >= MinSeqLen,
         NEW i \in Nat, i >= from, NEW F, Tried(F, cs, from, len, i - 1)
  PROVE  Tried(Loop!Try(cs, i, len, F), cs, from, len, i)
<1>. DEFINE new == [start |-> i, length |-> len, reps |-> Loop!RepsAt(cs, i, len)]
            G == Loop!Try(cs, i, len, F)
<1>0. len >= 1 /\ i >= 1 /\ MinReps \in Nat /\ MinSeqLen \in Nat
  BY LoopLimits
<1>1. Loop!Repeats(cs, i, len, MinReps) <=> Runs(cs, i, len, len * MinReps)
  BY <1>0, RepeatsRuns
<1>2. \A s, l \in Nat : TriedBy(s, l, len, i) <=> (TriedBy(s, l, len, i - 1) \/ (s = i /\ l = len))
  BY DEF TriedBy
<1>3. \A f \in F : f.start \in Nat /\ f.length \in Nat /\ IsLoop(f, cs, from) /\ TriedBy(f.start, f.length, len, i - 1)
  BY DEF Tried, IsLoop, Loop1
<1>4. CASE (\E f \in F : i \in Loop!Span(f)) \/ ~Runs(cs, i, len, len * MinReps)
  <2>1. G = F
    BY <1>1, <1>4 DEF Loop!Try
  <2>2. \A f \in F : TriedBy(f.start, f.length, len, i)
    BY <1>2, <1>3
  <2>3. ASSUME Runs(cs, i, len, len * MinReps) PROVE Covers(F, i, len)
    <3>1. PICK f \in F : i \in Loop!Span(f)
      BY <1>4, <2>3
    <3>2. f.length <= len
      BY <1>3 DEF TriedBy
    <3>. QED  BY <3>1, <3>2 DEF Covers
  <2>4. \A s, l \in Nat : s >= from /\ l >= MinSeqLen /\ TriedBy(s, l, len, i) /\ Runs(cs, s, l, l * MinReps) => Covers(F, s, l)
    BY <1>2, <2>3, Zenon DEF Tried
  <2>. HIDE DEF G
  <2>. QED  BY <1>3, <2>1, <2>2, <2>4, Zenon DEF Tried, G
<1>5. CASE ~(\E f \in F : i \in Loop!Span(f)) /\ Runs(cs, i, len, len * MinReps)
  <2>1. G = F \cup {new}
    BY <1>1, <1>5 DEF Loop!Try
  <2>2. Loop!RepsAt(cs, i, len) \in Nat
    BY <1>0, <1>5, RepsAtIs
  <2>3. new \in Loop1 /\ new.start = i /\ new.length = len /\ new.reps = Loop!RepsAt(cs, i, len)
    BY <2>2 DEF Loop1
  <2>. HIDE DEF new, G
  <2>4. IsLoop(new, cs, from) /\ TriedBy(new.start, new.length, len, i)
    BY <1>5, <2>3 DEF IsLoop, TriedBy
  <2>5. i \in Loop!Span(new) /\ \A s \in Nat : s \in Loop!Span(new) => i <= s
    BY <1>0, <1>5, <2>3, SpanIs
  <2>6. \A f \in F : ~(f.start \in Loop!Span(new) /\ len <= f.length)
    <3>1. SUFFICES ASSUME NEW f \in F, f.start \in Loop!Span(new), len <= f.length PROVE FALSE
      OBVIOUS
    <3>2. f.start >= i
      BY <1>3, <2>5, <3>1
    <3>. QED  BY <1>3, <3>1, <3>2 DEF TriedBy
  <2>7. Apart(G)
    <3>1. ASSUME NEW f \in G, NEW g \in G, f.start \in Loop!Span(g), g.length <= f.length PROVE f = g
      BY <1>5, <2>1, <2>3, <2>6, <3>1, Zenon DEF Tried, Apart
    <3>. QED  BY <3>1 DEF Apart
  <2>8. \A f \in G : IsLoop(f, cs, from) /\ TriedBy(f.start, f.length, len, i)
    BY <1>2, <1>3, <2>1, <2>4, Zenon
  <2>9. Covers(G, i, len) /\ \A s, l : Covers(F, s, l) => Covers(G, s, l)
    <3>1. len <= len
      OBVIOUS
    <3>. QED  BY <2>1, <2>3, <2>5, <3>1, Zenon DEF Covers
  <2>10. \A s, l \in Nat : s >= from /\ l >= MinSeqLen /\ TriedBy(s, l, len, i) /\ Runs(cs, s, l, l * MinReps) => Covers(G, s, l)
    BY <1>2, <2>9, Zenon DEF Tried
  <2>. QED  BY <2>7, <2>8, <2>10, Zenon DEF Tried, G
<1>. QED  BY <1>4, <1>5, Zenon

LEMMA TryTypes ==
  ASSUME NEW V, NEW cs \in Seq(V), NEW i \in Nat, i >= 1, NEW len \in Nat, len >= 1, NEW F \in SUBSET Loop1
  PROVE  Loop!Try(cs, i, len, F) \in SUBSET Loop1
<1>1. Loop!Repeats(cs, i, len, MinReps) => Loop!RepsAt(cs, i, len) \in Nat
  BY LoopLimits, RepeatsRuns, RepsAtIs
<1>. QED  BY <1>1 DEF Loop!Try, Loop1

\* Induction up to a bound, for a set of numbers.
LEMMA Reached ==
  ASSUME NEW N \in Nat, NEW I, 0 \in I,
         \A n \in 0..N : n \in I /\ n + 1 \in 0..N => n + 1 \in I
  PROVE  \A n \in 0..N : n \in I
<1>. DEFINE B == {n \in 0..N : n \notin I}
<1>. SUFFICES ASSUME B # {} PROVE FALSE
  OBVIOUS
<1>1. PICK m \in B : \A x \in B : m <= x
  <2>1. B \in SUBSET Nat
    OBVIOUS
  <2>. HIDE DEF B
  <2>. QED  BY <2>1, LeastExists
<1>2. m \in 0..N /\ m # 0 /\ m \notin I
  OBVIOUS
<1>3. m - 1 \in 0..N /\ m - 1 \notin B
  BY <1>1, <1>2
<1>4. m - 1 \in I /\ (m - 1) + 1 = m
  BY <1>2, <1>3
<1>. QED  BY <1>2, <1>3, <1>4

\* A function that is defined by its value before exists.
Iterated(f, N, S, a, step) ==
  f \in [0..N -> S] /\ f[0] = a /\ \A n \in 1..N : f[n] = step[<<n, f[n - 1]>>]

LEMMA Iterates ==
  ASSUME NEW N \in Nat, NEW S, NEW a \in S, NEW step \in [(1..N) \X S -> S]
  PROVE  \E f : Iterated(f, N, S, a, step)
<1>. DEFINE Computes(f, m) == f[0] = a /\ \A n \in 1..m : f[n] = step[<<n, f[n - 1]>>]
            I == {m \in 0..N : \E f \in [0..m -> S] : Computes(f, m)}
<1>1. 0 \in I
  <2>. DEFINE f == [n \in 0..0 |-> a]
  <2>1. f \in [0..0 -> S] /\ Computes(f, 0)
    OBVIOUS
  <2>2. 0 \in 0..N
    OBVIOUS
  <2>. HIDE DEF f, Computes
  <2>. QED  BY <2>1, <2>2
<1>2. ASSUME NEW m \in 0..N, m \in I, m + 1 \in 0..N PROVE m + 1 \in I
  <2>1. PICK f \in [0..m -> S] : Computes(f, m)
    BY <1>2
  <2>. HIDE DEF I
  <2>2. m \in Nat /\ m + 1 \in 1..N
    BY <1>2
  <2>3. f[m] \in S /\ step[<<m + 1, f[m]>>] \in S
    <3>1. f[m] \in S
      BY <2>2
    <3>2. <<m + 1, f[m]>> \in (1..N) \X S
      BY <2>2, <3>1
    <3>. QED  BY <3>1, <3>2
  <2>. DEFINE g == [n \in 0..m + 1 |-> IF n = m + 1 THEN step[<<m + 1, f[m]>>] ELSE f[n]]
  <2>4. /\ \A n \in 0..m + 1 : n # m + 1 => n \in 0..m
        /\ \A n \in 1..m + 1 : /\ n \in 0..m + 1 /\ n - 1 \in 0..m /\ n - 1 # m + 1
                               /\ n - 1 \in 0..m + 1 /\ (n # m + 1 => n \in 1..m)
                               /\ (n = m + 1 => n - 1 = m)
        /\ 0 \in 0..m + 1 /\ 0 # m + 1
    BY <2>2
  <2>. HIDE DEF Computes
  <2>5. g \in [0..m + 1 -> S]
    BY <2>3, <2>4
  <2>6. g[0] = a
    BY <2>1, <2>4 DEF Computes
  <2>7. ASSUME NEW n \in 1..m + 1 PROVE g[n] = step[<<n, g[n - 1]>>]
    <3>1. g[n - 1] = f[n - 1]
      BY <2>4
    <3>2. CASE n = m + 1
      <4>1. g[n] = step[<<m + 1, f[m]>>]
        BY <2>4, <3>2
      <4>. HIDE DEF g
      <4>. QED  BY <2>4, <3>1, <3>2, <4>1
    <3>3. CASE n # m + 1
      <4>1. n \in 1..m
        BY <2>4, <3>3
      <4>2. g[n] = f[n]
        BY <2>4, <3>3
      <4>. HIDE DEF g
      <4>. QED  BY <2>1, <3>1, <4>1, <4>2 DEF Computes
    <3>. QED  BY <3>2, <3>3
  <2>. HIDE DEF g
  <2>8. Computes(g, m + 1)
    BY <2>6, <2>7 DEF Computes
  <2>. QED  BY <1>2, <2>5, <2>8 DEF I
<1>3. N \in 0..N /\ \A n \in 0..N : n \in I
  <2>. HIDE DEF I
  <2>. QED  BY <1>1, <1>2, Reached
<1>. QED  BY <1>3 DEF Iterated

\* One length, at every position from the first.
LEMMA LengthTries ==
  ASSUME NEW V, NEW cs \in Seq(V), NEW from \in Nat, from >= 1, from <= Len(cs) + 1,
         NEW len \in Nat, len >= 1, NEW F \in SUBSET Loop1
  PROVE  \E h : /\ h \in [0 .. Len(cs) - from + 1 -> SUBSET Loop1] /\ h[0] = F
                /\ \A k \in 1 .. Len(cs) - from + 1 : h[k] = Loop!Try(cs, from + k - 1, len, h[k - 1])
                /\ Loop!AtLength(cs, from, len, F) = h[Len(cs) - from + 1]
<1>. DEFINE N == Len(cs) - from + 1
            S == SUBSET Loop1
            T(k, G) == Loop!Try(cs, from + k - 1, len, G)
            Is(g) == g = [k \in 0..N |-> IF k = 0 THEN F ELSE T(k, g[k - 1])]
            f == CHOOSE g : Is(g)
<1>1. Loop!AtLength(cs, from, len, F) = f[N]
  BY DEF Loop!AtLength
<1>2. N \in Nat
  BY LenProperties
<1>3. \A k \in 1..N : \A G \in S : T(k, G) \in S
  <2>. SUFFICES ASSUME NEW k \in 1..N, NEW G \in S PROVE T(k, G) \in S
    OBVIOUS
  <2>1. from + k - 1 \in Nat /\ from + k - 1 >= 1
    BY <1>2
  <2>. QED  BY <2>1, TryTypes
<1>. HIDE DEF N, T
<1>4. Is(f)
  <2>. DEFINE step == [x \in (1..N) \X S |-> T(x[1], x[2])]
  <2>1. step \in [(1..N) \X S -> S]
    BY <1>3
  <2>2. \A k \in 1..N : \A G \in S : step[<<k, G>>] = T(k, G)
    OBVIOUS
  <2>. HIDE DEF step, Is, f, S
  <2>3. PICK g : Iterated(g, N, S, F, step)
    <3>1. F \in S
      BY DEF S
    <3>. QED  BY ONLY <1>2, <2>1, <3>1, Iterates, Zenon
  <2>4. \A k \in 0..N : g[k] = IF k = 0 THEN F ELSE T(k, g[k - 1])
    <3>1. \A k \in 0..N : k # 0 => k \in 1..N /\ k - 1 \in 0..N
      BY <1>2
    <3>. QED  BY <2>2, <2>3, <3>1 DEF Iterated
  <2>5. Is(g)
    BY <2>3, <2>4 DEF Is, Iterated
  <2>. QED  BY <2>5 DEF f
<1>5. f = [k \in 0..N |-> IF k = 0 THEN F ELSE T(k, f[k - 1])]
  BY <1>4
<1>. HIDE DEF f
<1>6. f = [k \in 0..N |-> f[k]] /\ f[0] = F /\ \A k \in 1..N : f[k] = T(k, f[k - 1])
  <2>1. \A k \in 0..N : f[k] = IF k = 0 THEN F ELSE T(k, f[k - 1])
    BY ONLY <1>5, Zenon
  <2>2. 0 \in 0..N /\ \A k \in 1..N : k \in 0..N /\ k # 0
    BY ONLY <1>2, SMT
  <2>3. f[0] = F /\ \A k \in 1..N : f[k] = T(k, f[k - 1])
    BY ONLY <2>1, <2>2, Zenon
  <2>4. f = [k \in 0..N |-> f[k]]
    BY ONLY <1>5, Zenon
  <2>. QED  BY <2>3, <2>4
<1>7. f \in [0..N -> S]
  <2>. DEFINE I == {k \in 0..N : f[k] \in S}
  <2>1. 0 \in I
    BY <1>2, <1>6
  <2>2. ASSUME NEW k \in 0..N, k \in I, k + 1 \in 0..N PROVE k + 1 \in I
    <3>1. k + 1 \in 1..N /\ (k + 1) - 1 = k
      BY <1>2, <2>2
    <3>2. f[k + 1] = T(k + 1, f[k])
      BY <1>6, <3>1
    <3>. QED  BY <1>3, <2>2, <3>1, <3>2
  <2>. HIDE DEF I
  <2>3. \A k \in 0..N : k \in I
    BY <1>2, <2>1, <2>2, Reached
  <2>. QED  BY <1>6, <2>3 DEF I
<1>. QED  BY <1>1, <1>6, <1>7, Zenon DEF N, T

LEMMA LengthFinds ==
  ASSUME NEW V, NEW cs \in Seq(V), NEW from \in Nat, from >= 1, from <= Len(cs) + 1,
         NEW len \in Nat, len >= 1, NEW F \in SUBSET Loop1
  PROVE  /\ Loop!AtLength(cs, from, len, F) \in SUBSET Loop1
         /\ len >= MinSeqLen /\ Tried(F, cs, from, len, from - 1) =>
              Tried(Loop!AtLength(cs, from, len, F), cs, from, len, Len(cs))
<1>. DEFINE N == Len(cs) - from + 1
<1>1. PICK h : /\ h \in [0..N -> SUBSET Loop1] /\ h[0] = F
               /\ \A k \in 1..N : h[k] = Loop!Try(cs, from + k - 1, len, h[k - 1])
               /\ Loop!AtLength(cs, from, len, F) = h[N]
  BY LengthTries
<1>2. N \in Nat /\ from + N - 1 = Len(cs)
  BY LenProperties
<1>. HIDE DEF N
<1>3. ASSUME len >= MinSeqLen, Tried(F, cs, from, len, from - 1)
      PROVE  Tried(h[N], cs, from, len, Len(cs))
  <2>. DEFINE I == {k \in 0..N : Tried(h[k], cs, from, len, from + k - 1)}
  <2>1. 0 \in I
    <3>1. 0 \in 0..N /\ from + 0 - 1 = from - 1
      BY <1>2
    <3>. QED  BY <1>1, <1>3, <3>1
  <2>2. ASSUME NEW k \in 0..N, k \in I, k + 1 \in 0..N PROVE k + 1 \in I
    <3>1. /\ k + 1 \in 1..N /\ (k + 1) - 1 = k /\ from + (k + 1) - 1 = from + k
          /\ from + k \in Nat /\ from + k >= from /\ (from + k) - 1 = from + k - 1
      BY <1>2, <2>2
    <3>2. h[k + 1] = Loop!Try(cs, from + k, len, h[k])
      BY <1>1, <3>1
    <3>3. Tried(h[k], cs, from, len, (from + k) - 1)
      BY <2>2, <3>1
    <3>4. Tried(h[k + 1], cs, from, len, from + k)
      BY <1>3, <3>1, <3>2, <3>3, TryFinds
    <3>. QED  BY <2>2, <3>1, <3>4
  <2>. HIDE DEF I
  <2>3. \A k \in 0..N : k \in I
    BY <1>2, <2>1, <2>2, Reached
  <2>4. N \in I
    BY <1>2, <2>3
  <2>. QED  BY <1>2, <2>4 DEF I
<1>4. h[N] \in SUBSET Loop1
  BY <1>1, <1>2
<1>. QED  BY <1>1, <1>3, <1>4

\* The next length begins where the one before ended.
LEMMA NextLength ==
  ASSUME NEW V, NEW cs \in Seq(V), NEW from \in Nat, from >= 1, NEW len \in Nat, NEW F,
         Tried(F, cs, from, len, Len(cs))
  PROVE  /\ Tried(F, cs, from, len + 1, from - 1)
         /\ len + 1 < MinSeqLen => Tried(F, cs, from, len + 1, Len(cs))
<1>1. \A s, l \in Nat : TriedBy(s, l, len, Len(cs)) => TriedBy(s, l, len + 1, from - 1) /\ TriedBy(s, l, len + 1, Len(cs))
  BY LenProperties DEF TriedBy
<1>2. ASSUME NEW s \in Nat, NEW l \in Nat, s >= from, l >= MinSeqLen, Runs(cs, s, l, l * MinReps)
      PROVE  /\ TriedBy(s, l, len + 1, from - 1) => TriedBy(s, l, len, Len(cs))
             /\ len + 1 < MinSeqLen => ~TriedBy(s, l, len + 1, Len(cs))
  <2>1. l >= 1 /\ l * MinReps \in Nat /\ l * MinReps >= l
    BY <1>2, LoopLimits, Times
  <2>2. Len(cs) \in Nat /\ s + l * MinReps - 1 <= Len(cs)
    BY <1>2, LenProperties DEF Runs
  <2>. DEFINE x == l * MinReps
  <2>. HIDE DEF x
  <2>3. s <= Len(cs)
    BY <2>1, <2>2 DEF x
  <2>. QED  BY <1>2, <2>2, <2>3, LoopLimits DEF TriedBy
<1>3. \A f \in F : f.start \in Nat /\ f.length \in Nat /\ IsLoop(f, cs, from) /\ TriedBy(f.start, f.length, len, Len(cs))
  BY DEF Tried, IsLoop, Loop1
<1>4. Apart(F) /\ \A s, l \in Nat :
        s >= from /\ l >= MinSeqLen /\ TriedBy(s, l, len, Len(cs)) /\ Runs(cs, s, l, l * MinReps) => Covers(F, s, l)
  BY Zenon DEF Tried
<1>5. Tried(F, cs, from, len + 1, from - 1)
  BY <1>1, <1>2, <1>3, <1>4, Zenon DEF Tried
<1>6. len + 1 < MinSeqLen => Tried(F, cs, from, len + 1, Len(cs))
  BY <1>1, <1>2, <1>3, <1>4, Zenon DEF Tried
<1>. QED  BY <1>5, <1>6

\* What the search returns.
LEMMA SearchFinds ==
  ASSUME NEW V, NEW cs \in Seq(V), NEW from \in Nat, from >= 1, from <= Len(cs) + 1
  PROVE  Found(Loop!Search(cs, from), cs, from)
<1>. DEFINE N == Len(cs)
            S == SUBSET Loop1
            T(len, G) == IF len < MinSeqLen THEN G ELSE Loop!AtLength(cs, from, len, G)
            Is(g) == g = [len \in 0..N |-> IF len = 0 THEN {} ELSE T(len, g[len - 1])]
            f == CHOOSE g : g = [len \in 0..N |->
                   IF len = 0 THEN {}
                   ELSE IF len < MinSeqLen THEN g[len - 1]
                   ELSE Loop!AtLength(cs, from, len, g[len - 1])]
<1>1. Loop!Search(cs, from) = f[N]
  BY DEF Loop!Search
<1>2. N \in Nat
  BY LenProperties
<1>3. \A len \in 1..N : \A G \in S : T(len, G) \in S
  <2>. SUFFICES ASSUME NEW len \in 1..N, NEW G \in S PROVE T(len, G) \in S
    OBVIOUS
  <2>1. len \in Nat /\ len >= 1
    BY <1>2
  <2>2. Loop!AtLength(cs, from, len, G) \in SUBSET Loop1
    BY <2>1, LengthFinds
  <2>. QED  BY <2>2
<1>4. f = CHOOSE g : Is(g)
  OBVIOUS
<1>. HIDE DEF f
<1>5. Is(f)
  <2>. DEFINE step == [x \in (1..N) \X S |-> T(x[1], x[2])]
  <2>. HIDE DEF N, T
  <2>1. step \in [(1..N) \X S -> S]
    BY <1>3
  <2>2. \A k \in 1..N : \A G \in S : step[<<k, G>>] = T(k, G)
    OBVIOUS
  <2>. HIDE DEF step, Is, S
  <2>3. PICK g : Iterated(g, N, S, {}, step)
    <3>1. {} \in S
      BY DEF S
    <3>. QED  BY ONLY <1>2, <2>1, <3>1, Iterates, Zenon
  <2>4. \A k \in 0..N : g[k] = IF k = 0 THEN {} ELSE T(k, g[k - 1])
    <3>1. \A k \in 0..N : k # 0 => k \in 1..N /\ k - 1 \in 0..N
      BY <1>2
    <3>. QED  BY <2>2, <2>3, <3>1 DEF Iterated
  <2>5. Is(g)
    BY <2>3, <2>4 DEF Is, Iterated
  <2>. QED  BY <1>4, <2>5, Zenon
<1>. HIDE DEF T
<1>6. f = [k \in 0..N |-> IF k = 0 THEN {} ELSE T(k, f[k - 1])]
  BY <1>5
<1>. HIDE DEF N
<1>. HIDE DEF Is, S
<1>7. f[0] = {} /\ \A k \in 1..N : f[k] = T(k, f[k - 1])
  <2>1. 0 \in 0..N /\ \A k \in 1..N : k \in 0..N /\ k # 0
    BY <1>2
  <2>. QED  BY <1>6, <2>1, Zenon
<1>. DEFINE I == {k \in 0..N : f[k] \in S /\ Tried(f[k], cs, from, k, Len(cs))}
<1>8. 0 \in I
  <2>1. \A s, l \in Nat : l >= MinSeqLen => ~TriedBy(s, l, 0, Len(cs))
    BY LoopLimits DEF TriedBy
  <2>2. Tried({}, cs, from, 0, Len(cs))
    BY <2>1, Zenon DEF Tried, Apart
  <2>3. {} \in S /\ 0 \in 0..N
    BY <1>2 DEF S
  <2>. QED  BY <1>7, <2>2, <2>3, Zenon
<1>9. ASSUME NEW k \in 0..N, k \in I, k + 1 \in 0..N PROVE k + 1 \in I
  <2>1. k + 1 \in 1..N /\ (k + 1) - 1 = k /\ k \in Nat /\ k + 1 \in Nat /\ k + 1 >= 1
    BY <1>2, <1>9
  <2>2. f[k + 1] = T(k + 1, f[k]) /\ f[k] \in S /\ Tried(f[k], cs, from, k, Len(cs))
    BY <1>7, <1>9, <2>1
  <2>. HIDE DEF I
  <2>3. f[k + 1] \in S
    BY <1>3, <2>1, <2>2
  <2>4. /\ Tried(f[k], cs, from, k + 1, from - 1)
        /\ k + 1 < MinSeqLen => Tried(f[k], cs, from, k + 1, Len(cs))
    BY <2>1, <2>2, NextLength
  <2>5. CASE k + 1 < MinSeqLen
    <3>1. f[k + 1] = f[k]
      BY <2>2, <2>5 DEF T
    <3>. QED  BY <1>9, <2>3, <2>4, <2>5, <3>1 DEF I
  <2>6. CASE ~(k + 1 < MinSeqLen)
    <3>1. f[k + 1] = Loop!AtLength(cs, from, k + 1, f[k]) /\ k + 1 >= MinSeqLen
      BY <2>1, <2>2, <2>6, LoopLimits DEF T
    <3>2. f[k] \in SUBSET Loop1
      BY <2>2 DEF S
    <3>3. Tried(f[k + 1], cs, from, k + 1, Len(cs))
      BY <2>1, <2>4, <3>1, <3>2, LengthFinds
    <3>. QED  BY <1>9, <2>3, <3>3 DEF I
  <2>. QED  BY <2>5, <2>6
<1>. HIDE DEF I
<1>10. \A k \in 0..N : k \in I
  BY <1>2, <1>8, <1>9, Reached
<1>11. Tried(f[N], cs, from, Len(cs), Len(cs))
  <2>1. N \in I
    BY <1>2, <1>10
  <2>. QED  BY <2>1 DEF I, N
<1>12. ASSUME NEW s \in Nat, NEW l \in Nat, s >= from, l >= MinSeqLen, Runs(cs, s, l, l * MinReps)
       PROVE  TriedBy(s, l, Len(cs), Len(cs))
  <2>1. l >= 1 /\ l * MinReps \in Nat /\ l * MinReps >= l
    BY <1>12, LoopLimits, Times
  <2>2. Len(cs) \in Nat /\ s + l * MinReps - 1 <= Len(cs)
    BY <1>12, LenProperties DEF Runs
  <2>. DEFINE x == l * MinReps
  <2>. HIDE DEF x
  <2>3. s <= Len(cs) /\ l <= Len(cs)
    BY <1>12, <2>1, <2>2 DEF x
  <2>. QED  BY <2>2, <2>3 DEF TriedBy
<1>. QED  BY <1>1, <1>11, <1>12, Zenon DEF Tried, Found

\* A loop that is found has the least length that repeats from its first call.
LEMMA FoundIsShortest ==
  ASSUME NEW V, NEW cs \in Seq(V), NEW from \in Nat, from >= 1, NEW F, Found(F, cs, from), NEW f \in F,
         NEW l \in Nat, l >= MinSeqLen, l < f.length
  PROVE  ~Runs(cs, f.start, l, l * MinReps)
<1>. SUFFICES ASSUME Runs(cs, f.start, l, l * MinReps) PROVE FALSE
  OBVIOUS
<1>1. f.start \in Nat /\ f.length \in Nat /\ f.start >= from
  BY DEF Found, IsLoop, Loop1
<1>2. PICK g \in F : f.start \in Loop!Span(g) /\ g.length <= l
  BY <1>1, Zenon DEF Found, Covers
<1>3. g.length \in Nat
  BY DEF Found, IsLoop, Loop1
<1>4. g.length <= f.length /\ g.length # f.length
  BY <1>1, <1>2, <1>3
<1>. QED  BY <1>2, <1>4, Zenon DEF Found, Apart

LEMMA FoundLoop ==
  ASSUME NEW V, NEW cs \in Seq(V), NEW from \in Nat, from >= 1, NEW F, Found(F, cs, from), NEW f \in F
  PROVE  /\ f \in Loop1 /\ f.start \in Nat /\ f.length \in Nat /\ f.reps \in Nat
         /\ f.start >= from /\ f.start >= 1 /\ f.length >= MinSeqLen /\ f.length >= 1
         /\ Runs(cs, f.start, f.length, f.length * MinReps)
         /\ f.reps >= MinReps /\ f.reps >= 1 /\ f.length * f.reps \in Nat /\ f.length * f.reps >= f.length
         /\ Runs(cs, f.start, f.length, f.length * f.reps)
         /\ \A q \in Nat : q >= 1 /\ Runs(cs, f.start, f.length, f.length * q) => q <= f.reps
         /\ \A s \in Nat : s \in Loop!Span(f) <=> f.start <= s /\ s <= f.start + f.length * f.reps - 1
<1>1. IsLoop(f, cs, from)
  BY Zenon DEF Found
<1>2. /\ f \in Loop1 /\ f.start \in Nat /\ f.length \in Nat /\ f.reps \in Nat
      /\ f.start >= from /\ f.start >= 1 /\ f.length >= MinSeqLen /\ f.length >= 1
      /\ Runs(cs, f.start, f.length, f.length * MinReps) /\ f.reps = Loop!RepsAt(cs, f.start, f.length)
  BY <1>1, LoopLimits DEF IsLoop, Loop1
<1>3. \A q \in Nat : q >= 1 /\ Runs(cs, f.start, f.length, f.length * q) => q <= f.reps
  BY <1>2, RepsAtIs
<1>4. /\ f.reps >= MinReps /\ f.reps >= 1 /\ f.length * f.reps \in Nat /\ f.length * f.reps >= f.length
      /\ Runs(cs, f.start, f.length, f.length * f.reps)
      /\ \A s \in Nat : s \in Loop!Span(f) <=> f.start <= s /\ s <= f.start + f.length * f.reps - 1
  BY <1>2, SpanIs
<1>. QED  BY <1>2, <1>3, <1>4

-----------------------------------------------------------------------------
(***************************************************************************)
(* One call more.  What was found is found again: a loop that would cover  *)
(* its first call ends with the new call, and so begins too late.          *)
(***************************************************************************)
Kept(f, G) == \E g \in G : g.start = f.start /\ g.length = f.length /\ g.reps >= f.reps

Earlier(h, f) == h.length < f.length \/ (h.length = f.length /\ h.start < f.start)

LEMMA LessIs ==
  \A e, l, y : e \in Nat /\ l \in Nat /\ y = e - l => y \in Int /\ y <= e
OBVIOUS

LEMMA OneLess ==
  \A s, e, m, l, y : /\ s \in Nat /\ e \in Nat /\ m \in Nat /\ l \in Nat /\ l >= 1
                     /\ y = e - l /\ s + e - 1 <= m + 1
                     => s + y - 1 <= m
OBVIOUS

LEMMA KeptInTurn ==
  ASSUME NEW V, NEW cs \in Seq(V), NEW c \in V, NEW from \in Nat, from >= 1,
         NEW F, Found(F, cs, from), NEW G, Found(G, Append(cs, c), from),
         NEW f \in F, \A h \in F : Earlier(h, f) => Kept(h, G)
  PROVE  Kept(f, G)
<1>. DEFINE now == Append(cs, c)
            n == Len(cs)
            fm == f.length * MinReps
<1>0. now \in Seq(V) /\ n \in Nat /\ Len(now) = n + 1 /\ MinReps \in Nat /\ MinReps >= 1
  BY AppendProperties, LenProperties, LoopLimits
<1>1. /\ f.start \in Nat /\ f.length \in Nat /\ f.reps \in Nat /\ f.start >= 1
      /\ f.length >= MinSeqLen /\ f.length >= 1 /\ f.reps >= 1 /\ f.start >= from
  BY FoundLoop
<1>2. Runs(cs, f.start, f.length, fm) /\ Runs(cs, f.start, f.length, f.length * f.reps)
  BY FoundLoop
<1>3. fm \in Nat /\ fm >= f.length /\ f.length * f.reps \in Nat
  BY <1>0, <1>1, Times
<1>4. f.start + fm - 1 <= n
  BY <1>2 DEF Runs
<1>5. Runs(now, f.start, f.length, fm) /\ Runs(now, f.start, f.length, f.length * f.reps)
  BY <1>1, <1>2, <1>3, RunsStay
<1>6. PICK g \in G : f.start \in Loop!Span(g) /\ g.length <= f.length
  BY <1>1, <1>5, Zenon DEF Found, Covers
<1>. DEFINE gm == g.length * MinReps
            b == g.length * g.reps
<1>. HIDE DEF now, n, fm, gm, b
<1>7. /\ g.start \in Nat /\ g.length \in Nat /\ g.reps \in Nat /\ g.start >= 1
      /\ g.length >= MinSeqLen /\ g.length >= 1 /\ g.reps >= 1 /\ g.start >= from /\ b \in Nat
      /\ g.start <= f.start /\ f.start <= g.start + b - 1
      /\ Runs(now, g.start, g.length, gm) /\ Runs(now, g.start, g.length, b)
  <2>1. Found(G, now, from)
    BY DEF now
  <2>. QED  BY <1>0, <1>1, <1>6, <2>1, FoundLoop DEF b, gm
<1>8. \A q \in Nat : q >= 1 /\ Runs(now, g.start, g.length, g.length * q) => q <= g.reps
  <2>1. Found(G, now, from)
    BY DEF now
  <2>. QED  BY <1>0, <2>1, FoundLoop
<1>9. gm \in Nat /\ gm <= fm
  <2>1. MinReps * g.length \in Nat /\ MinReps * g.length <= MinReps * f.length
    BY <1>0, <1>1, <1>6, <1>7, Times
  <2>2. MinReps * g.length = gm /\ MinReps * f.length = fm
    BY <1>0, <1>1, <1>7 DEF fm, gm
  <2>. QED  BY <2>1, <2>2
<1>10. Runs(cs, g.start, g.length, gm)
  <2>1. g.start + gm - 1 <= n
    <3>1. f.start \in Nat /\ g.start \in Nat /\ g.start <= f.start
      BY <1>1, <1>7
    <3>. QED  BY ONLY <1>0, <1>3, <1>4, <1>9, <3>1, SMT
  <2>. QED  BY <1>7, <1>9, <2>1, RunsStay DEF n, now
<1>11. PICK h \in F : g.start \in Loop!Span(h) /\ h.length <= g.length
  BY <1>7, <1>10, Zenon DEF Found, Covers, gm
<1>. DEFINE a == h.length * h.reps
<1>. HIDE DEF a
<1>12. /\ h.start \in Nat /\ h.length \in Nat /\ h.reps \in Nat /\ h.start >= 1
       /\ h.length >= 1 /\ h.reps >= 1 /\ a \in Nat
       /\ h.start <= g.start /\ g.start <= h.start + a - 1
  BY <1>7, <1>11, FoundLoop DEF a
<1>13. \A s \in Nat : s \in Loop!Span(h) <=> h.start <= s /\ s <= h.start + a - 1
  BY FoundLoop DEF a
<1>14. \A q \in Nat : q >= 1 /\ Runs(cs, h.start, h.length, h.length * q) => q <= h.reps
  BY FoundLoop
<1>15. CASE g.start = f.start /\ g.length = f.length
  <2>1. f.reps <= g.reps
    BY <1>1, <1>5, <1>8, <1>15, Zenon
  <2>2. g.reps >= f.reps
    BY <1>1, <1>7, <2>1
  <2>. QED  BY <1>15, <2>2, Zenon DEF Kept
<1>16. CASE ~(g.start = f.start /\ g.length = f.length)
  <2>1. Earlier(h, f)
    <3>0. /\ f.start \in Nat /\ f.length \in Nat /\ g.start \in Nat /\ g.length \in Nat
          /\ h.start \in Nat /\ h.length \in Nat
          /\ g.start <= f.start /\ h.start <= g.start /\ h.length <= g.length /\ g.length <= f.length
      BY <1>1, <1>6, <1>7, <1>11, <1>12, Zenon
    <3>. QED  BY ONLY <1>16, <3>0, SMT DEF Earlier
  <2>2. PICK k \in G : k.start = h.start /\ k.length = h.length /\ k.reps >= h.reps
    BY <2>1, Zenon DEF Kept
  <2>. DEFINE x == k.length * k.reps
  <2>. HIDE DEF x
  <2>3. k.reps \in Nat /\ \A s \in Nat : s \in Loop!Span(k) <=> k.start <= s /\ s <= k.start + x - 1
    <3>1. Found(G, now, from)
      BY DEF now
    <3>. QED  BY <1>0, <3>1, FoundLoop DEF x
  <2>4. a <= x /\ x \in Nat
    BY <1>12, <2>2, <2>3, Times DEF a, x
  <2>5. g.start \in Loop!Span(k)
    <3>1. k.start <= g.start /\ g.start <= k.start + x - 1
      BY <1>7, <1>12, <2>2, <2>4
    <3>. QED  BY <1>7, <2>3, <3>1
  <2>6. g = k
    BY <1>11, <2>2, <2>5, Zenon DEF Found, Apart
  <2>7. g.start = h.start /\ g.length = h.length
    BY <2>2, <2>6
  <2>8. f.start \notin Loop!Span(h)
    <3>1. SUFFICES ASSUME f.start \in Loop!Span(h) PROVE FALSE
      OBVIOUS
    <3>2. f = h
      BY <1>6, <2>7, <3>1, Zenon DEF Found, Apart
    <3>. QED  BY <1>16, <2>7, <3>2
  <2>9. f.start >= g.start + a
    <3>1. f.start \in Nat /\ h.start \in Nat /\ a \in Nat /\ h.start <= f.start
      BY <1>1, <1>7, <1>12, <2>7, Zenon
    <3>2. ~(f.start <= h.start + a - 1)
      BY <1>13, <2>8, <3>1, Zenon
    <3>3. f.start >= h.start + a
      BY ONLY <3>1, <3>2, SMT
    <3>. QED  BY <2>7, <3>3, Zenon
  <2>10. h.reps < g.reps
    <3>1. g.reps <= h.reps => b <= a
      BY <1>7, <1>12, <2>7, Times DEF a, b
    <3>2. /\ f.start \in Nat /\ g.start \in Nat /\ a \in Nat /\ b \in Nat
          /\ f.start <= g.start + b - 1 /\ g.reps \in Nat /\ h.reps \in Nat
      BY <1>1, <1>7, <1>12, Zenon
    <3>3. ~(b <= a)
      BY ONLY <2>9, <3>2, SMT
    <3>. QED  BY ONLY <3>1, <3>2, <3>3, SMT
  <2>. DEFINE d == g.length * (g.reps - 1)
  <2>. HIDE DEF d
  <2>11. d = b - g.length
    BY <1>7, Times DEF b, d
  <2>12. g.start + b - 1 <= n + 1
    BY <1>0, <1>7 DEF Runs
  <2>13. Runs(cs, g.start, g.length, d)
    <3>1. g.start \in Nat /\ b \in Nat /\ n \in Nat /\ g.length \in Nat /\ g.length >= 1
      BY <1>0, <1>7, Zenon
    <3>2. g.start + d - 1 <= n
      BY ONLY <3>1, <2>11, <2>12, OneLess, Zenon
    <3>3. d \in Int /\ d <= b
      BY ONLY <3>1, <2>11, LessIs, Zenon
    <3>4. b \in Int
      BY <3>1
    <3>5. Runs(now, g.start, g.length, d)
      BY <1>0, <1>7, <3>3, <3>4, RunsShorter
    <3>. QED  BY <1>7, <3>2, <3>3, <3>5, RunsStay DEF n, now
  <2>14. g.reps - 1 <= h.reps
    <3>1. g.reps - 1 \in Nat /\ g.reps - 1 >= 1
      BY <1>7, <1>12, <2>10
    <3>2. Runs(cs, h.start, h.length, h.length * (g.reps - 1))
      BY <2>7, <2>13, Zenon DEF d
    <3>. QED  BY <1>14, <3>1, <3>2, Zenon
  <2>15. b = a + g.length
    <3>1. g.reps = h.reps + 1
      BY <1>7, <1>12, <2>10, <2>14
    <3>2. g.length * (h.reps + 1) = g.length * h.reps + g.length
      BY <1>7, <1>12, Times
    <3>. QED  BY <2>7, <3>1, <3>2, Zenon DEF a, b
  <2>16. g.start + b - 1 <= n
    <3>1. /\ g.start \in Nat /\ g.length \in Nat /\ a \in Nat /\ n \in Nat /\ fm \in Nat
          /\ f.start \in Nat /\ f.length \in Nat
      BY <1>0, <1>1, <1>3, <1>7, <1>12
    <3>2. fm >= f.length /\ f.start + fm - 1 <= n /\ g.length <= f.length
      BY <1>3, <1>4, <1>6
    <3>3. \A s, l, t, u, v, m, e \in Nat :
            t >= s + v /\ m >= u /\ t + m - 1 <= e /\ l <= u => s + (v + l) - 1 <= e
      OBVIOUS
    <3>. QED  BY ONLY <2>9, <2>15, <3>1, <3>2, <3>3, Zenon
  <2>17. Runs(cs, g.start, g.length, b)
    <3>1. b \in Int
      BY <1>7
    <3>. QED  BY <1>7, <2>16, <3>1, RunsStay DEF n, now
  <2>18. g.reps <= h.reps
    <3>1. Runs(cs, h.start, h.length, h.length * g.reps)
      BY <2>7, <2>17, Zenon DEF b
    <3>. QED  BY <1>7, <1>14, <3>1, Zenon
  <2>. QED  BY <1>7, <1>12, <2>10, <2>18
<1>. QED  BY <1>15, <1>16

LEMMA AllKept ==
  ASSUME NEW V, NEW cs \in Seq(V), NEW c \in V, NEW from \in Nat, from >= 1,
         NEW F, Found(F, cs, from), NEW G, Found(G, Append(cs, c), from)
  PROVE  \A f \in F : Kept(f, G)
<1>. DEFINE lost == {f \in F : ~Kept(f, G)}
<1>1. \A f \in F : f.start \in Nat /\ f.length \in Nat
  BY FoundLoop
<1>. SUFFICES ASSUME lost # {} PROVE FALSE
  OBVIOUS
<1>2. PICK l \in {f.length : f \in lost} : \A x \in {f.length : f \in lost} : l <= x
  <2>1. {f.length : f \in lost} \in SUBSET Nat /\ {f.length : f \in lost} # {}
    BY <1>1
  <2>. HIDE DEF lost
  <2>. QED  BY <2>1, LeastExists
<1>. DEFINE least == {f \in lost : f.length = l}
<1>3. PICK s \in {f.start : f \in least} : \A x \in {f.start : f \in least} : s <= x
  <2>1. {f.start : f \in least} \in SUBSET Nat /\ {f.start : f \in least} # {}
    BY <1>1, <1>2
  <2>. HIDE DEF least
  <2>. QED  BY <2>1, LeastExists
<1>4. PICK f \in least : f.start = s
  BY <1>3
<1>5. \A h \in F : Earlier(h, f) => Kept(h, G)
  <2>. SUFFICES ASSUME NEW h \in lost, Earlier(h, f) PROVE FALSE
    OBVIOUS
  <2>1. l <= h.length /\ f.length = l /\ h.length \in Nat /\ l \in Nat
    BY <1>1, <1>2
  <2>2. h.length = l /\ h.start < f.start
    BY <2>1 DEF Earlier
  <2>3. s <= h.start /\ h.start \in Nat /\ s \in Nat
    BY <1>1, <1>3, <1>4, <2>2
  <2>. QED  BY <1>4, <2>2, <2>3
<1>6. f \in F /\ ~Kept(f, G)
  OBVIOUS
<1>. HIDE DEF lost, least
<1>. QED  BY <1>5, <1>6, KeptInTurn

-----------------------------------------------------------------------------
(***************************************************************************)
(* The loop detector without a window.                                     *)
(***************************************************************************)
LoopCall == [tool : LoopTools, time : Nat]

LoopInv ==
  /\ lCalls \in Seq(LoopCall) /\ lFirst = 1
  /\ lEmitted = {r.loop.start : r \in lReports}
  /\ lEmitted = {f.start : f \in Loop!Search(lCalls, 1)}
  /\ \A r \in lReports : r.loop \in Loop1 /\ r.loop.reps >= 1 /\ Kept(r.loop, Loop!Search(lCalls, 1))
  /\ \A r, q \in lReports : r.loop.start = q.loop.start => r = q

LEMMA KeptOn ==
  ASSUME NEW f \in Loop1, NEW F \in SUBSET Loop1, NEW G \in SUBSET Loop1, Kept(f, F), \A g \in F : Kept(g, G)
  PROVE  Kept(f, G)
<1>1. PICK g \in F : g.start = f.start /\ g.length = f.length /\ g.reps >= f.reps
  BY DEF Kept
<1>2. PICK h \in G : h.start = g.start /\ h.length = g.length /\ h.reps >= g.reps
  BY DEF Kept
<1>3. f.reps \in Nat /\ g.reps \in Nat /\ h.reps \in Nat
  BY DEF Loop1
<1>4. h.reps >= f.reps
  BY <1>1, <1>2, <1>3
<1>. QED  BY <1>1, <1>2, <1>4 DEF Kept

LEMMA LoopFed ==
  ASSUME LoopInv, NEW tool \in LoopTools, NEW delay \in {0}, Loop!Analyze(tool, delay)
  PROVE  LoopInv'
<1>. DEFINE time == delay + (IF lCalls = <<>> THEN 0 ELSE Loop!Last(lCalls).time)
            c == [tool |-> tool, time |-> time]
            now == Append(lCalls, c)
            F == Loop!Search(lCalls, 1)
            G == Loop!Search(now, 1)
            new == {f \in G : f.start \notin lEmitted}
<1>1. /\ lCalls' = now /\ lFirst' = 1
      /\ lReports' = lReports \cup {[loop |-> f, at |-> Len(now)] : f \in new}
      /\ lEmitted' = lEmitted \cup {f.start : f \in new}
  BY DEF LoopInv, Loop!Analyze, Loop!Trimmed, Loop!New
<1>2. lCalls \in Seq(LoopCall)
  BY DEF LoopInv
<1>3. c \in LoopCall
  <2>1. lCalls # <<>> => Loop!Last(lCalls) \in LoopCall
    BY <1>2 DEF Loop!Last
  <2>2. time \in Nat
    BY <2>1 DEF LoopCall
  <2>. QED  BY <2>2 DEF LoopCall
<1>. HIDE DEF c
<1>4. now \in Seq(LoopCall) /\ Len(now) = Len(lCalls) + 1 /\ Len(lCalls) \in Nat
  BY <1>2, <1>3, AppendProperties, LenProperties
<1>5. Found(F, lCalls, 1) /\ Found(G, now, 1)
  <2>1. 1 \in Nat /\ 1 >= 1 /\ 1 <= Len(lCalls) + 1 /\ 1 <= Len(now) + 1
    BY <1>4
  <2>. HIDE DEF now
  <2>. QED  BY <1>2, <1>4, <2>1, SearchFinds
<1>6. \A f \in F : Kept(f, G)
  <2>. HIDE DEF F, G
  <2>. QED  BY <1>2, <1>3, <1>5, AllKept
<1>7. \A f \in G : f \in Loop1 /\ f.start \in Nat /\ f.length \in Nat /\ f.reps \in Nat
                   /\ f.start \in Loop!Span(f) /\ f.reps >= 1
  <2>. HIDE DEF now, G
  <2>1. \A f \in G : /\ f \in Loop1 /\ f.start \in Nat /\ f.length \in Nat /\ f.reps \in Nat /\ f.reps >= 1
                     /\ f.start >= 1 /\ f.length >= 1
                     /\ Runs(now, f.start, f.length, f.length * MinReps) /\ f.reps = Loop!RepsAt(now, f.start, f.length)
    BY <1>4, <1>5, FoundLoop DEF Found, IsLoop
  <2>. QED  BY <1>4, <2>1, SpanIs
<1>8. \A f \in F : f \in Loop1
  BY <1>5 DEF Found, IsLoop
<1>9. \A r \in lReports' : \/ r \in lReports
                           \/ \E f \in new : r = [loop |-> f, at |-> Len(now)]
  BY <1>1
<1>10. \A f \in new : [loop |-> f, at |-> Len(now)] \in lReports'
  BY <1>1
<1>11. lEmitted = {r.loop.start : r \in lReports} /\ lEmitted = {f.start : f \in F}
  BY DEF LoopInv
<1>12. \A f : [loop |-> f, at |-> Len(now)].loop = f /\ [loop |-> f, at |-> Len(now)].at = Len(now)
  OBVIOUS
<1>13. lReports \subseteq lReports'
  BY <1>1
<1>14. \A r \in lReports : r.loop \in Loop1 /\ r.loop.reps >= 1 /\ Kept(r.loop, F)
  BY DEF LoopInv
<1>15. \A r, q \in lReports : r.loop.start = q.loop.start => r = q
  BY DEF LoopInv
<1>. HIDE DEF now, F, G
<1>16. lEmitted' = {r.loop.start : r \in lReports'}
  <2>1. ASSUME NEW s \in lEmitted' PROVE \E r \in lReports' : s = r.loop.start
    <3>1. CASE s \in lEmitted
      BY <3>1, <1>11, <1>13
    <3>2. CASE s \notin lEmitted
      <4>1. PICK f \in new : s = f.start
        BY <1>1, <2>1, <3>2
      <4>. QED  BY <4>1, <1>10, <1>12
    <3>. QED  BY <3>1, <3>2
  <2>2. ASSUME NEW r \in lReports' PROVE r.loop.start \in lEmitted'
    <3>1. CASE r \in lReports
      BY <3>1, <1>1, <1>11
    <3>2. CASE r \notin lReports
      <4>1. PICK f \in new : r = [loop |-> f, at |-> Len(now)]
        BY <1>9, <3>2
      <4>. QED  BY <4>1, <1>1, <1>12
    <3>. QED  BY <3>1, <3>2
  <2>. QED  BY <2>1, <2>2
<1>17. lEmitted' = {f.start : f \in G}
  <2>1. ASSUME NEW s \in lEmitted PROVE \E g \in G : s = g.start
    <3>1. PICK f \in F : s = f.start
      BY <1>11
    <3>2. Kept(f, G)
      BY <1>6
    <3>. QED  BY <3>1, <3>2 DEF Kept
  <2>. QED  BY <1>1, <2>1
<1>18. ASSUME NEW r \in lReports' PROVE r.loop \in Loop1 /\ r.loop.reps >= 1 /\ Kept(r.loop, G)
  <2>1. CASE r \in lReports
    <3>1. F \in SUBSET Loop1 /\ G \in SUBSET Loop1
      BY <1>7, <1>8
    <3>. QED  BY <2>1, <3>1, <1>6, <1>14, KeptOn
  <2>2. CASE r \notin lReports
    <3>1. PICK f \in new : r = [loop |-> f, at |-> Len(now)]
      BY <1>9, <2>2
    <3>2. r.loop = f /\ f \in G
      BY <3>1, <1>12
    <3>3. f.reps >= f.reps
      BY <1>7, <3>2
    <3>. QED  BY <1>7, <3>2, <3>3, Zenon DEF Kept
  <2>. QED  BY <2>1, <2>2
<1>19. ASSUME NEW r \in lReports', NEW q \in lReports', r.loop.start = q.loop.start PROVE r = q
  <2>1. ASSUME NEW x \in lReports', x \notin lReports
        PROVE  \E f \in G : x = [loop |-> f, at |-> Len(now)] /\ x.loop = f /\ f.start \notin lEmitted
    <3>1. PICK f \in new : x = [loop |-> f, at |-> Len(now)]
      BY <1>9, <2>1
    <3>. QED  BY <3>1, <1>12
  <2>2. \A x \in lReports : x.loop.start \in lEmitted
    BY <1>11
  <2>3. CASE r \in lReports /\ q \in lReports
    BY <2>3, <1>15, <1>19
  <2>4. CASE r \in lReports /\ q \notin lReports
    BY <2>1, <2>2, <2>4, <1>19
  <2>5. CASE r \notin lReports /\ q \in lReports
    BY <2>1, <2>2, <2>5, <1>19
  <2>6. CASE r \notin lReports /\ q \notin lReports
    <3>1. PICK f \in G : r = [loop |-> f, at |-> Len(now)] /\ r.loop = f
      BY <2>1, <2>6
    <3>2. PICK g \in G : q = [loop |-> g, at |-> Len(now)] /\ q.loop = g
      BY <2>1, <2>6
    <3>3. f.start = g.start
      BY <1>19, <3>1, <3>2, Zenon
    <3>4. f.length <= g.length \/ g.length <= f.length
      BY <1>7
    <3>5. f = g
      BY <1>5, <1>7, <3>3, <3>4, Zenon DEF Found, Apart
    <3>. QED  BY <3>1, <3>2, <3>5, Zenon
  <2>. QED  BY <2>3, <2>4, <2>5, <2>6
<1>. QED  BY <1>1, <1>4, <1>16, <1>17, <1>18, <1>19, Zenon DEF LoopInv, G

LEMMA LoopSteps ==
  LoopInv /\ (Loop!Next \/ UNCHANGED loopVars) => LoopInv'
<1>. SUFFICES ASSUME LoopInv, Loop!Next \/ UNCHANGED loopVars PROVE LoopInv'
  OBVIOUS
<1>1. CASE \E tool \in LoopTools, delay \in {0} : Loop!Analyze(tool, delay)
  BY <1>1, LoopFed, Zenon
<1>2. CASE Loop!Rest \/ UNCHANGED loopVars
  <2>1. UNCHANGED <<lCalls, lFirst, lEmitted, lReports>>
    BY <1>2 DEF Loop!Rest, Loop!vars, loopVars
  <2>. QED  BY <2>1, Zenon DEF LoopInv
<1>. QED  BY <1>1, <1>2 DEF Loop!Next

\* Nothing is found where nothing was called.
LEMMA NothingFound == Loop!Search(<<>>, 1) = {}
<1>1. <<>> \in Seq({}) /\ Len(<<>>) = 0 /\ 1 <= Len(<<>>) + 1 /\ 1 \in Nat /\ 1 >= 1
  OBVIOUS
<1>2. Found(Loop!Search(<<>>, 1), <<>>, 1)
  BY <1>1, SearchFinds
<1>3. ASSUME NEW f \in Loop!Search(<<>>, 1) PROVE FALSE
  <2>1. /\ f.start \in Nat /\ f.start >= 1 /\ f.length * f.reps \in Nat /\ f.length * f.reps >= f.length
        /\ f.length \in Nat /\ f.length >= 1 /\ Runs(<<>>, f.start, f.length, f.length * f.reps)
    BY <1>1, <1>2, FoundLoop
  <2>. DEFINE x == f.length * f.reps
  <2>2. f.start + x - 1 <= 0
    BY <1>1, <2>1 DEF Runs
  <2>. HIDE DEF x
  <2>3. x \in Nat /\ x >= 1
    BY <2>1 DEF x
  <2>. QED  BY <2>1, <2>2, <2>3
<1>. QED  BY <1>3

LEMMA LoopStarts == Loop!Init => LoopInv
<1>. SUFFICES ASSUME Loop!Init PROVE LoopInv
  OBVIOUS
<1>1. lCalls = <<>> /\ lFirst = 1 /\ lEmitted = {} /\ lReports = {}
  BY DEF Loop!Init
<1>2. Loop!Search(lCalls, 1) = {}
  BY <1>1, NothingFound
<1>. QED  BY <1>1, <1>2 DEF LoopInv

LEMMA LoopTold == LoopInv => Loop!AsReference /\ Loop!LoopInstanceOnce
<1>. SUFFICES ASSUME LoopInv PROVE Loop!AsReference /\ Loop!LoopInstanceOnce
  OBVIOUS
<1>1. Loop!AsReference
  <2>1. {f.start : f \in {r.loop : r \in lReports}} = {r.loop.start : r \in lReports}
    OBVIOUS
  <2>. QED  BY <2>1, Zenon DEF LoopInv, Loop!AsReference, Loop!Starts, Loop!Loops
<1>2. Loop!LoopInstanceOnce
  <2>. DEFINE F == Loop!Search(lCalls, 1)
  <2>1. lCalls \in Seq(LoopCall) /\ Len(lCalls) \in Nat
    BY LenProperties DEF LoopInv
  <2>2. Found(F, lCalls, 1)
    BY <2>1, SearchFinds
  <2>. HIDE DEF F
  <2>3. \A f \in Loop!Loops : f \in Loop1 /\ f.reps >= 1 /\ Kept(f, F)
    BY DEF LoopInv, Loop!Loops, F
  <2>. SUFFICES ASSUME NEW f \in Loop!Loops, NEW g \in Loop!Loops, f.start < g.start, f.length = g.length,
                       Loop!Unbroken(f.start, g.start + g.length * g.reps - 1, f.length)
                PROVE  FALSE
    BY Zenon DEF Loop!LoopInstanceOnce
  <2>4. /\ f.start \in Nat /\ f.length \in Nat /\ f.reps \in Nat /\ f.reps >= 1
        /\ g.start \in Nat /\ g.reps \in Nat /\ g.reps >= 1
    BY <2>3 DEF Loop1
  <2>5. PICK p \in F : p.start = f.start /\ p.length = f.length
    BY <2>3 DEF Kept
  <2>6. PICK r \in F : r.start = g.start /\ r.length = g.length /\ r.reps >= g.reps
    BY <2>3 DEF Kept
  <2>7. /\ p.reps \in Nat /\ p.start >= 1 /\ p.length >= 1
        /\ \A s \in Nat : s \in Loop!Span(p) <=> p.start <= s /\ s <= p.start + p.length * p.reps - 1
    BY <2>1, <2>2, FoundLoop
  <2>8. \A q \in Nat : q >= 1 /\ Runs(lCalls, p.start, p.length, p.length * q) => q <= p.reps
    BY <2>1, <2>2, FoundLoop
  <2>. DEFINE L == f.length
              e == L * g.reps
              re == r.length * r.reps
  <2>9. e \in Nat /\ e >= L /\ re \in Nat /\ e <= re /\ Runs(lCalls, r.start, r.length, re)
    <3>1. r.reps \in Nat /\ re \in Nat /\ Runs(lCalls, r.start, r.length, re)
      BY <2>1, <2>2, FoundLoop
    <3>. QED  BY <2>4, <2>5, <2>6, <2>7, <3>1, Times
  <2>. HIDE DEF e, re
  <2>10. g.start + e - 1 <= Len(lCalls)
    <3>1. g.start + re - 1 <= Len(lCalls)
      BY <2>6, <2>9 DEF Runs
    <3>. QED  BY <2>1, <2>4, <2>9, <3>1
  <2>11. \A k \in f.start .. g.start + e - 1 - L : lCalls[k].tool = lCalls[k + L].tool
    <3>1. g.length * g.reps = e
      BY Zenon DEF e
    <3>2. Loop!Unbroken(f.start, g.start + e - 1, L)
      BY <3>1, Zenon
    <3>3. \A k \in f.start .. (g.start + e - 1) - L : Loop!Tool(lCalls, k) = Loop!Tool(lCalls, k + L)
      BY <3>2, Zenon DEF Loop!Unbroken
    <3>4. (g.start + e - 1) - L = g.start + e - 1 - L
      BY <2>4, <2>9
    <3>. QED  BY <3>3, <3>4, Zenon DEF Loop!Tool
  <2>. DEFINE gap == g.start - f.start
              Q == {q \in Nat : L * q > gap}
  <2>12. gap \in Nat /\ gap >= 1
    BY <2>4
  <2>13. PICK q \in Q : \A x \in Q : q <= x
    <3>1. L * (gap + 1) >= gap + 1 /\ L * (gap + 1) \in Nat
      BY <2>4, <2>5, <2>7, <2>12, Times
    <3>2. gap + 1 \in Q
      BY <2>12, <3>1
    <3>3. Q \in SUBSET Nat /\ Q # {}
      BY <3>2
    <3>. HIDE DEF Q
    <3>. QED  BY <3>3, LeastExists
  <2>14. q \in Nat /\ L * q > gap
    OBVIOUS
  <2>15. q >= 1
    <3>1. q # 0
      BY <2>4, <2>12, <2>14
    <3>. QED  BY <2>14, <3>1
  <2>. DEFINE d == L * q
  <2>16. d \in Nat /\ L * (q - 1) = d - L
    BY <2>4, <2>5, <2>7, <2>14, Times
  <2>17. d <= gap + L
    <3>1. q - 1 \in Nat /\ ~(q <= q - 1)
      BY <2>14, <2>15
    <3>2. q - 1 \notin Q
      BY <2>13, <3>1, Zenon
    <3>3. ~(d - L > gap)
      BY <2>16, <3>1, <3>2
    <3>. HIDE DEF d, Q, gap
    <3>. QED  BY ONLY <2>4, <2>12, <2>16, <3>3, SMT
  <2>18. d > gap
    BY <2>14
  <2>. HIDE DEF d, Q
  <2>19. f.start + d - 1 <= g.start + e - 1
    BY <2>4, <2>9, <2>16, <2>17
  <2>20. Runs(lCalls, p.start, p.length, d)
    <3>1. f.start + d - 1 <= Len(lCalls)
      <4>1. f.start \in Nat /\ g.start \in Nat /\ d \in Nat /\ e \in Nat /\ Len(lCalls) \in Nat
        BY <2>1, <2>4, <2>9, <2>16, Zenon
      <4>. QED  BY ONLY <2>10, <2>19, <4>1, SMT
    <3>2. \A k \in f.start .. f.start + d - L - 1 : k \in f.start .. g.start + e - 1 - L
      BY <2>4, <2>9, <2>16, <2>19
    <3>. QED  BY <2>5, <2>11, <3>1, <3>2, Zenon DEF Runs
  <2>21. q <= p.reps
    BY <2>5, <2>8, <2>14, <2>15, <2>20, Zenon DEF d
  <2>. DEFINE pe == p.length * p.reps
  <2>22. d <= pe /\ pe \in Nat
    BY <2>4, <2>5, <2>7, <2>14, <2>21, Times DEF d
  <2>23. g.start \in Loop!Span(p)
    <3>1. p.start <= g.start /\ g.start <= p.start + pe - 1
      <4>. HIDE DEF pe
      <4>. QED  BY <2>4, <2>5, <2>16, <2>18, <2>22
    <3>. QED  BY <2>4, <2>7, <3>1
  <2>24. p.length <= r.length
    BY <2>4, <2>5, <2>6
  <2>25. r = p
    BY <2>2, <2>6, <2>23, <2>24, Zenon DEF Found, Apart
  <2>. QED  BY <2>4, <2>5, <2>6, <2>25
<1>. QED  BY <1>1, <1>2

-----------------------------------------------------------------------------
(***************************************************************************)
(* The loop detector with a window.                                        *)
(***************************************************************************)
WindowCall == [tool : WindowTools, time : Nat]

InOrderOfTime(cs) == \A k, m \in 1..Len(cs) : k <= m => cs[k].time <= cs[m].time

\* A loop that was reported, of the calls seen since.
Reported(f, cs) ==
  /\ f \in Loop1 /\ f.start >= 1 /\ f.length >= MinSeqLen /\ f.reps >= MinReps
  /\ Runs(cs, f.start, f.length, f.length * f.reps)
  /\ Runs(cs, f.start, f.length, f.length * MinReps)
  /\ \A l \in Nat : l >= MinSeqLen /\ l < f.length => ~Runs(cs, f.start, l, l * MinReps)
  /\ Window > 0 => cs[f.start + f.length * f.reps - 1].time - cs[f.start].time <= Window

WindowInv ==
  /\ wCalls \in Seq(WindowCall) /\ InOrderOfTime(wCalls)
  /\ wFirst \in Nat /\ wFirst >= 1 /\ wFirst <= Len(wCalls) + 1
  /\ wEmitted = {r.loop.start : r \in wReports}
  /\ \A f \in Loop!Search(wCalls, wFirst) : f.start \in wEmitted
  /\ \A r \in wReports : Reported(r.loop, wCalls)

LEMMA SameSearch ==
  ASSUME NEW cs, NEW from
  PROVE  Windowed!Search(cs, from) = Loop!Search(cs, from)
BY DEF Loop!Search, Windowed!Search, Loop!AtLength, Windowed!AtLength, Loop!Try, Windowed!Try,
       Loop!Span, Windowed!Span, Loop!Repeats, Windowed!Repeats, Loop!Tool, Windowed!Tool,
       Loop!RepsAt, Windowed!RepsAt, Loop!Max, Windowed!Max

LEMMA WindowLimits == Window \in Nat /\ Delays \subseteq Nat
BY WindowedOk DEF Windowed!LoopAssumption

\* A loop that repeats in more calls did in those before.
LEMMA ReportedStays ==
  ASSUME NEW cs \in Seq(WindowCall), NEW c \in WindowCall, NEW f, Reported(f, cs)
  PROVE  Reported(f, Append(cs, c))
<1>. DEFINE now == Append(cs, c)
            e == f.length * f.reps
            m == f.length * MinReps
<1>1. /\ f \in Loop1 /\ f.start \in Nat /\ f.length \in Nat /\ f.reps \in Nat /\ f.start >= 1
      /\ f.length >= 1 /\ f.length >= MinSeqLen /\ f.reps >= MinReps /\ f.reps >= 1
  BY LoopLimits DEF Reported, Loop1
<1>2. /\ e \in Nat /\ e >= 1 /\ m \in Nat /\ m >= 1 /\ Len(cs) \in Nat
      /\ \A k \in 1..Len(cs) : now[k] = cs[k]
  <2>1. e \in Nat /\ e >= f.length /\ m \in Nat /\ m >= f.length
    BY <1>1, LoopLimits, Times
  <2>2. Len(cs) \in Nat /\ \A k \in 1..Len(cs) : now[k] = cs[k]
    BY AppendProperties, LenProperties
  <2>. HIDE DEF e, m, now
  <2>. QED  BY <1>1, <2>1, <2>2
<1>3. Runs(cs, f.start, f.length, e) /\ Runs(cs, f.start, f.length, m)
  BY DEF Reported
<1>. HIDE DEF e, m, now
<1>4. Runs(now, f.start, f.length, e) /\ Runs(now, f.start, f.length, m)
  BY <1>1, <1>2, <1>3, RunsStay DEF now
<1>5. f.start + e - 1 <= Len(cs) /\ f.start + m - 1 <= Len(cs)
  BY <1>3 DEF Runs
<1>6. ASSUME NEW l \in Nat, l >= MinSeqLen, l < f.length
      PROVE  ~Runs(now, f.start, l, l * MinReps)
  <2>. DEFINE x == l * MinReps
  <2>1. x \in Nat /\ x <= m
    <3>1. MinReps * l \in Nat /\ MinReps * l <= MinReps * f.length
      BY <1>1, <1>6, LoopLimits, Times
    <3>2. MinReps * l = x /\ MinReps * f.length = m
      BY <1>1, LoopLimits DEF m
    <3>. QED  BY <3>1, <3>2
  <2>2. ~Runs(cs, f.start, l, x)
    BY <1>6 DEF Reported
  <2>. HIDE DEF x
  <2>3. f.start + x - 1 <= Len(cs)
    BY <1>1, <1>2, <1>5, <2>1
  <2>4. ~Runs(now, f.start, l, x)
    BY <1>1, <2>1, <2>2, <2>3, RunsStay DEF now
  <2>. QED  BY <2>4 DEF x
<1>7. f.start \in 1..Len(cs) /\ f.start + e - 1 \in 1..Len(cs)
  BY <1>1, <1>2, <1>5
<1>8. Window > 0 => now[f.start + e - 1].time - now[f.start].time <= Window
  <2>1. Window > 0 => cs[f.start + e - 1].time - cs[f.start].time <= Window
    BY Zenon DEF Reported, e
  <2>. QED  BY <1>2, <1>7, <2>1, Zenon
<1>. QED  BY <1>1, <1>4, <1>6, <1>8, Zenon DEF Reported, now, e, m

\* What is found within the window may be reported.
LEMMA FoundReported ==
  ASSUME NEW cs \in Seq(WindowCall), InOrderOfTime(cs), NEW from \in Nat, from >= 1,
         NEW F, Found(F, cs, from), NEW f \in F,
         Window > 0 => from <= Len(cs) /\ cs[from].time + Window >= cs[Len(cs)].time
  PROVE  Reported(f, cs)
<1>. DEFINE e == f.length * f.reps
<1>1. /\ f \in Loop1 /\ f.start \in Nat /\ f.length \in Nat /\ f.reps \in Nat /\ f.start >= from
      /\ f.start >= 1 /\ f.length >= 1 /\ f.length >= MinSeqLen /\ f.reps >= MinReps
      /\ Runs(cs, f.start, f.length, f.length * MinReps)
      /\ Runs(cs, f.start, f.length, e) /\ e \in Nat /\ e >= f.length
  BY FoundLoop
<1>2. \A l \in Nat : l >= MinSeqLen /\ l < f.length => ~Runs(cs, f.start, l, l * MinReps)
  BY FoundIsShortest
<1>3. Window > 0 => cs[f.start + e - 1].time - cs[f.start].time <= Window
  <2>. SUFFICES ASSUME Window > 0 PROVE cs[f.start + e - 1].time - cs[f.start].time <= Window
    OBVIOUS
  <2>. HIDE DEF e
  <2>. DEFINE last == f.start + e - 1
              n == Len(cs)
  <2>1. last <= n /\ n \in Nat
    BY <1>1, LenProperties DEF Runs
  <2>. HIDE DEF n
  <2>2. f.start \in 1..n /\ last \in 1..n /\ from \in 1..n /\ n \in 1..n /\ last <= n /\ from <= f.start
    BY <1>1, <2>1
  <2>. HIDE DEF last
  <2>3. cs[last].time <= cs[n].time /\ cs[from].time <= cs[f.start].time
    BY <2>2, Zenon DEF InOrderOfTime, n
  <2>4. cs[last].time \in Nat /\ cs[n].time \in Nat /\ cs[from].time \in Nat /\ cs[f.start].time \in Nat
    <3>1. \A k \in 1..n : cs[k] \in WindowCall
      BY ElementOfSeq DEF n
    <3>. QED  BY <2>2, <3>1 DEF WindowCall
  <2>5. cs[from].time + Window >= cs[n].time
    BY DEF n
  <2>6. \A w, x, y, z \in Nat : x <= y /\ z <= w /\ z + Window >= y => x - w <= Window
    BY WindowLimits
  <2>7. cs[last].time - cs[f.start].time <= Window
    BY <2>3, <2>4, <2>5, <2>6, Zenon
  <2>. QED  BY <2>7 DEF last
<1>. QED  BY <1>1, <1>2, <1>3 DEF Reported

\* The front that is trimmed: the first call that is not too old.
LEMMA TrimmedIs ==
  ASSUME NEW cs \in Seq(WindowCall), NEW from \in Nat, from >= 1, from <= Len(cs)
  PROVE  LET first == Windowed!Trimmed(cs, from) IN
         /\ first \in Nat /\ first >= 1 /\ first <= Len(cs)
         /\ Window > 0 => cs[first].time + Window >= cs[Len(cs)].time
<1>. DEFINE n == Len(cs)
            young == {i \in from..n : cs[i].time + Window >= cs[n].time}
<1>1. n \in Nat
  BY LenProperties
<1>2. Windowed!Trimmed(cs, from) = IF Window = 0 THEN from ELSE Windowed!Min(young)
  BY Zenon DEF Windowed!Trimmed, Windowed!Last
<1>3. n \in young
  <2>1. n \in from..n
    BY <1>1
  <2>2. cs[n].time \in Nat
    <3>1. n \in 1..n
      BY <1>1
    <3>2. cs[n] \in WindowCall
      BY <3>1, ElementOfSeq
    <3>. QED  BY <3>2 DEF WindowCall
  <2>3. cs[n].time + Window >= cs[n].time
    <3>. HIDE DEF n
    <3>. QED  BY <2>2, WindowLimits
  <2>. QED  BY <2>1, <2>3
<1>4. young \in SUBSET Nat
  BY <1>1
<1>5. Windowed!Min(young) \in young
  <2>. HIDE DEF young
  <2>1. PICK m \in young : \A x \in young : m <= x
    BY <1>3, <1>4, LeastExists
  <2>. QED  BY <2>1, Zenon DEF Windowed!Min
<1>. HIDE DEF n
<1>. QED  BY <1>1, <1>2, <1>5, WindowLimits DEF n

LEMMA WindowFed ==
  ASSUME WindowInv, NEW tool \in WindowTools, NEW delay \in Delays, Windowed!Analyze(tool, delay)
  PROVE  WindowInv'
<1>. DEFINE n == Len(wCalls)
            time == delay + (IF wCalls = <<>> THEN 0 ELSE Windowed!Last(wCalls).time)
            c == [tool |-> tool, time |-> time]
            now == Append(wCalls, c)
            from == Windowed!Trimmed(now, wFirst)
            G == Windowed!Search(now, from)
            new == {f \in G : f.start \notin wEmitted}
<1>1. /\ wCalls' = now /\ wFirst' = from
      /\ wReports' = wReports \cup {[loop |-> f, at |-> Len(now)] : f \in new}
      /\ wEmitted' = wEmitted \cup {f.start : f \in new}
  BY DEF Windowed!Analyze, Windowed!New
<1>2. /\ wCalls \in Seq(WindowCall) /\ InOrderOfTime(wCalls)
      /\ wFirst \in Nat /\ wFirst >= 1 /\ wFirst <= n + 1 /\ n \in Nat
  BY LenProperties DEF WindowInv
<1>3. /\ time \in Nat
      /\ n > 0 => wCalls[n].time \in Nat /\ wCalls[n].time <= time
  <2>0. delay \in Nat
    BY WindowLimits
  <2>1. CASE wCalls = <<>>
    BY <2>0, <2>1
  <2>2. CASE wCalls # <<>>
    <3>1. n \in 1..n
      BY <1>2, <2>2, EmptySeq
    <3>2. wCalls[n] \in WindowCall
      BY <1>2, <3>1, ElementOfSeq
    <3>3. time = delay + wCalls[n].time
      BY <2>2, Zenon DEF Windowed!Last
    <3>4. wCalls[n].time \in Nat
      BY <3>2 DEF WindowCall
    <3>. HIDE DEF n, time
    <3>. QED  BY <2>0, <3>3, <3>4
  <2>. QED  BY <2>1, <2>2
<1>. HIDE DEF time
<1>4. c \in WindowCall /\ c.time = time
  BY <1>3 DEF WindowCall
<1>. HIDE DEF c
<1>5. /\ now \in Seq(WindowCall) /\ Len(now) = n + 1 /\ now[n + 1] = c
      /\ \A k \in 1..n : now[k] = wCalls[k]
  BY <1>2, <1>4, AppendProperties
<1>. HIDE DEF now, n
<1>6. InOrderOfTime(now)
  <2>. SUFFICES ASSUME NEW k \in 1..n + 1, NEW m \in 1..n + 1, k <= m PROVE now[k].time <= now[m].time
    BY <1>5 DEF InOrderOfTime
  <2>1. CASE m \in 1..n
    <3>1. k \in 1..n
      BY <1>2, <2>1
    <3>2. wCalls[k].time <= wCalls[m].time
      BY <1>2, <2>1, <3>1 DEF InOrderOfTime, n
    <3>. QED  BY <1>5, <2>1, <3>1, <3>2
  <2>2. CASE m = n + 1 /\ k = n + 1
    BY <1>3, <1>4, <1>5, <2>2
  <2>3. CASE m = n + 1 /\ k \in 1..n
    <3>1. n \in 1..n /\ k <= n /\ n > 0
      BY <1>2, <2>3
    <3>2. wCalls[k].time <= wCalls[n].time /\ wCalls[k] \in WindowCall
      BY <1>2, <2>3, <3>1, ElementOfSeq DEF InOrderOfTime, n
    <3>3. wCalls[k].time \in Nat
      BY <3>2 DEF WindowCall
    <3>4. wCalls[k].time <= time
      BY <1>3, <3>1, <3>2, <3>3
    <3>. QED  BY <1>4, <1>5, <2>3, <3>4
  <2>. QED  BY <1>2, <2>1, <2>2, <2>3
<1>7. /\ from \in Nat /\ from >= 1 /\ from <= Len(now)
      /\ Window > 0 => now[from].time + Window >= now[Len(now)].time
  BY <1>2, <1>5, TrimmedIs
<1>8. G = Loop!Search(now, from)
  BY SameSearch
<1>. HIDE DEF from, G
<1>9. Found(G, now, from)
  <2>1. from <= Len(now) + 1
    BY <1>2, <1>5, <1>7
  <2>. QED  BY <1>5, <1>7, <1>8, <2>1, SearchFinds
<1>10. \A f \in G : Reported(f, now)
  BY <1>5, <1>6, <1>7, <1>9, FoundReported
<1>11. \A r \in wReports : Reported(r.loop, now)
  <2>1. \A r \in wReports : Reported(r.loop, wCalls)
    BY DEF WindowInv
  <2>. QED  BY <1>2, <1>4, <2>1, ReportedStays DEF now
<1>12. \A f : [loop |-> f, at |-> Len(now)].loop = f
  OBVIOUS
<1>13. \A r \in wReports' : \/ r \in wReports
                            \/ \E f \in new : r = [loop |-> f, at |-> Len(now)]
  BY <1>1
<1>14. wReports \subseteq wReports' /\ \A f \in new : [loop |-> f, at |-> Len(now)] \in wReports'
  BY <1>1
<1>15. wEmitted = {r.loop.start : r \in wReports}
  BY DEF WindowInv
<1>16. wEmitted' = {r.loop.start : r \in wReports'}
  <2>1. ASSUME NEW s \in wEmitted' PROVE \E r \in wReports' : s = r.loop.start
    <3>1. CASE s \in wEmitted
      BY <3>1, <1>14, <1>15
    <3>2. CASE s \notin wEmitted
      <4>1. PICK f \in new : s = f.start
        BY <1>1, <2>1, <3>2
      <4>. QED  BY <4>1, <1>12, <1>14
    <3>. QED  BY <3>1, <3>2
  <2>2. ASSUME NEW r \in wReports' PROVE r.loop.start \in wEmitted'
    <3>1. CASE r \in wReports
      BY <3>1, <1>1, <1>15
    <3>2. CASE r \notin wReports
      <4>1. PICK f \in new : r = [loop |-> f, at |-> Len(now)]
        BY <1>13, <3>2
      <4>. QED  BY <4>1, <1>1, <1>12
    <3>. QED  BY <3>1, <3>2
  <2>. QED  BY <2>1, <2>2
<1>17. \A f \in G : f.start \in wEmitted'
  BY <1>1
<1>18. ASSUME NEW r \in wReports' PROVE Reported(r.loop, now)
  <2>1. CASE r \in wReports
    BY <2>1, <1>11
  <2>2. CASE r \notin wReports
    <3>1. PICK f \in new : r = [loop |-> f, at |-> Len(now)]
      BY <1>13, <2>2
    <3>2. r.loop = f /\ f \in G
      BY <3>1, <1>12
    <3>. QED  BY <3>2, <1>10
  <2>. QED  BY <2>1, <2>2
<1>19. from <= Len(now) + 1
  BY <1>2, <1>5, <1>7
<1>. QED  BY <1>1, <1>5, <1>6, <1>7, <1>8, <1>16, <1>17, <1>18, <1>19, Zenon DEF WindowInv

LEMMA WindowSteps ==
  WindowInv /\ (Windowed!Next \/ UNCHANGED windowVars) => WindowInv'
<1>. SUFFICES ASSUME WindowInv, Windowed!Next \/ UNCHANGED windowVars PROVE WindowInv'
  OBVIOUS
<1>1. CASE \E tool \in WindowTools, delay \in Delays : Windowed!Analyze(tool, delay)
  BY <1>1, WindowFed, Zenon
<1>2. CASE Windowed!Rest \/ UNCHANGED windowVars
  <2>1. UNCHANGED <<wCalls, wFirst, wEmitted, wReports>>
    BY <1>2 DEF Windowed!Rest, Windowed!vars, windowVars
  <2>. QED  BY <2>1, Zenon DEF WindowInv
<1>. QED  BY <1>1, <1>2 DEF Windowed!Next

LEMMA WindowStarts == Windowed!Init => WindowInv
<1>. SUFFICES ASSUME Windowed!Init PROVE WindowInv
  OBVIOUS
<1>1. wCalls = <<>> /\ wFirst = 1 /\ wEmitted = {} /\ wReports = {}
  BY DEF Windowed!Init
<1>2. Loop!Search(wCalls, wFirst) = {}
  BY <1>1, NothingFound
<1>3. InOrderOfTime(wCalls)
  BY <1>1 DEF InOrderOfTime
<1>. QED  BY <1>1, <1>2, <1>3 DEF WindowInv

LEMMA WindowTold == WindowInv => Windowed!ReallyRepeated /\ Windowed!NothingMissed
<1>. SUFFICES ASSUME WindowInv PROVE Windowed!ReallyRepeated /\ Windowed!NothingMissed
  OBVIOUS
<1>1. wCalls \in Seq(WindowCall) /\ Len(wCalls) \in Nat /\ wFirst \in Nat /\ wFirst >= 1 /\ wFirst <= Len(wCalls) + 1
  BY LenProperties DEF WindowInv
<1>2. \A cs, i, l, r : Windowed!Repeats(cs, i, l, r) <=> Loop!Repeats(cs, i, l, r)
  BY Zenon DEF Windowed!Repeats, Loop!Repeats, Windowed!Tool, Loop!Tool
<1>3. \A f \in Windowed!Loops : Reported(f, wCalls)
  BY DEF WindowInv, Windowed!Loops
<1>4. Windowed!ReallyRepeated
  <2>. SUFFICES ASSUME NEW f \in Windowed!Loops
                PROVE  /\ f.length >= MinSeqLen /\ f.reps >= MinReps
                       /\ Windowed!Repeats(wCalls, f.start, f.length, f.reps)
                       /\ Window > 0 => wCalls[f.start + f.length * f.reps - 1].time - wCalls[f.start].time <= Window
    BY Zenon DEF Windowed!ReallyRepeated
  <2>1. Reported(f, wCalls) /\ f.start \in Nat /\ f.length \in Nat /\ f.reps \in Nat /\ f.length >= 1
    BY <1>3, LoopLimits DEF Reported, Loop1
  <2>2. Loop!Repeats(wCalls, f.start, f.length, f.reps)
    BY <2>1, RepeatsRuns DEF Reported
  <2>. QED  BY <1>2, <2>1, <2>2, Zenon DEF Reported
<1>5. Windowed!NothingMissed
  <2>. DEFINE F == Loop!Search(wCalls, wFirst)
              n == Len(wCalls)
  <2>1. Found(F, wCalls, wFirst)
    BY <1>1, SearchFinds
  <2>2. \A f \in F : \E g \in Windowed!Loops : g.start = f.start
    BY DEF WindowInv, Windowed!Loops
  <2>. HIDE DEF F
  <2>. SUFFICES ASSUME NEW len \in MinSeqLen..n, NEW start, start = n - len * MinReps + 1, start >= wFirst,
                       Windowed!Repeats(wCalls, start, len, MinReps)
                PROVE  \E f \in Windowed!Loops : f.start <= start /\ Windowed!Unbroken(f.start, start, f.length)
    BY Zenon DEF Windowed!NothingMissed
  <2>3. len \in Nat /\ len >= MinSeqLen /\ len >= 1 /\ MinReps \in Nat /\ MinReps >= 1
    BY <1>1, LoopLimits
  <2>4. start \in Nat
    <3>1. len * MinReps \in Nat
      BY <2>3, Times
    <3>. DEFINE x == len * MinReps
    <3>. HIDE DEF x
    <3>2. x \in Nat /\ start = n - x + 1
      BY <3>1 DEF x
    <3>. QED  BY <1>1, <3>2
  <2>5. Runs(wCalls, start, len, len * MinReps)
    BY <1>2, <2>3, <2>4, RepeatsRuns
  <2>6. PICK g \in F : start \in Loop!Span(g) /\ g.length <= len
    BY <2>1, <2>3, <2>4, <2>5, Zenon DEF Found, Covers
  <2>7. PICK f \in Windowed!Loops : f.start = g.start
    BY <2>2
  <2>. DEFINE e == g.length * g.reps
  <2>8. /\ g.start \in Nat /\ g.length \in Nat /\ g.length >= MinSeqLen /\ g.length >= 1 /\ e \in Nat
        /\ Runs(wCalls, g.start, g.length, g.length * MinReps) /\ Runs(wCalls, g.start, g.length, e)
        /\ g.start <= start /\ start <= g.start + e - 1
    BY <1>1, <2>1, <2>4, <2>6, FoundLoop
  <2>9. /\ f.length \in Nat /\ f.length >= MinSeqLen /\ Runs(wCalls, f.start, f.length, f.length * MinReps)
        /\ \A l \in Nat : l >= MinSeqLen /\ l < f.length => ~Runs(wCalls, f.start, l, l * MinReps)
    BY <1>3 DEF Reported, Loop1
  <2>10. f.length = g.length
    <3>1. ~(f.length < g.length)
      BY <1>1, <2>1, <2>7, <2>9, FoundIsShortest
    <3>2. ~(g.length < f.length)
      BY <2>7, <2>8, <2>9, Zenon
    <3>. QED  BY <2>8, <2>9, <3>1, <3>2
  <2>. HIDE DEF e
  <2>11. \A k \in g.start .. start - g.length : k \in g.start .. g.start + e - g.length - 1
    BY <2>4, <2>8
  <2>12. \A k \in g.start .. start - g.length : wCalls[k].tool = wCalls[k + g.length].tool
    BY <2>8, <2>11, Zenon DEF Runs
  <2>13. Windowed!Unbroken(f.start, start, f.length)
    BY <2>7, <2>10, <2>12, Zenon DEF Windowed!Unbroken, Windowed!Tool
  <2>. QED  BY <2>7, <2>8, <2>13, Zenon
<1>. QED  BY <1>4, <1>5

\* loop.go:73-190: with and without a window, the loop detector reports the
\* loops there are, for every sequence of calls.
THEOREM LoopsAreFound == DetectorsSpec => []LoopsFound
<1>1. DetectorsInit => LoopInv /\ WindowInv
  BY LoopStarts, WindowStarts DEF DetectorsInit
<1>2. LoopInv /\ WindowInv /\ [DetectorsNext]_detectorVars => LoopInv' /\ WindowInv'
  <2>1. DetectorsNext \/ UNCHANGED detectorVars =>
          /\ Loop!Next \/ UNCHANGED loopVars
          /\ Windowed!Next \/ UNCHANGED windowVars
    BY Zenon DEF DetectorsNext, LoopMoves, WindowedMoves, DriftMoves, MisuseMoves, detectorVars, loopVars, windowVars
  <2>. QED  BY <2>1, LoopSteps, WindowSteps
<1>3. LoopInv /\ WindowInv => LoopsFound
  BY LoopTold, WindowTold DEF LoopsFound
<1>. QED  BY <1>1, <1>2, <1>3, PTL DEF DetectorsSpec
=============================================================================
