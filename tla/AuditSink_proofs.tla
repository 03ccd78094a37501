--------------------------- MODULE AuditSink_proofs ---------------------------
(***************************************************************************)
(* Theorems about the audit log for every bound: about the sink and its    *)
(* disk (AuditSink), and about an edited file and the readers of the file  *)
(* beside it (AuditTamper and AuditReaders, as MCAudit puts them).         *)
(***************************************************************************)
EXTENDS MCAudit, SequenceTheorems, FiniteSetTheorems, WellFoundedInduction, TLAPS

(***************************************************************************)
(* The inductive invariant of a sink, as a relation between the values of  *)
(* its variables, since MCAudit has two sinks.  FileInv speaks of a disk d *)
(* of which st lines are stable and hold the acknowledged entries acks,    *)
(* HeadInv of the sink's memory against the file; the calls of Log so far  *)
(* are made.                                                               *)
(***************************************************************************)
Record(e) ==
  e = [seq |-> e.seq, prev |-> e.prev, body |-> e.body, rest |-> e.rest, hash |-> e.hash]

\* An entry that a call of Log made, and a line and a file of such entries; what
\* the hash does not tell may have been edited since.
Logged(e, made) ==
  /\ Record(e)
  /\ e.seq \in Nat /\ e.body \in 1 .. made

LoggedLine(line, made) == Readable(line) => line = <<line[1]>> /\ Logged(line[1], made)

LoggedFile(ls, made) ==
  ls \in Seq(Range(ls)) /\ \A i \in 1 .. Len(ls) : LoggedLine(ls[i], made)

\* The head <<s, h>> continues the file ls: an entry numbered s + 1 that links
\* to h may stand behind its last line.
Continues(ls, s, h) ==
  /\ ls = <<>> => s = 0 /\ h = Genesis
  /\ ls # <<>> /\ Readable(ls[Len(ls)]) =>
       s = ls[Len(ls)][1].seq /\ h = ls[Len(ls)][1].hash

\* The chain, line by line.
Chained(ls) ==
  /\ \A i \in 1 .. Len(ls) : Readable(ls[i]) => HashMatches(ls[i][1])
  /\ Len(ls) > 0 /\ Readable(ls[1]) => ls[1][1].seq = 1 /\ ls[1][1].prev = Genesis
  /\ \A i \in 2 .. Len(ls) : Readable(ls[i - 1]) /\ Readable(ls[i]) =>
       /\ ls[i][1].prev = ls[i - 1][1].hash
       /\ ls[i][1].seq = ls[i - 1][1].seq + 1

\* An unfinished line is not stable; the line of an acknowledged entry holds
\* that entry or cannot be read.
FileInv(d, st, acks, made) ==
  /\ d = [lines |-> d.lines, nl |-> d.nl]
  /\ LoggedFile(d.lines, made)
  /\ d.nl \in BOOLEAN
  /\ st \in 0 .. Len(d.lines)
  /\ ~d.nl => st < Len(d.lines)
  /\ Chained(d.lines)
  /\ \A a \in acks : /\ a.line \in 1 .. st /\ Logged(a.entry, made)
                     /\ d.lines[a.line] \in {<<a.entry>>, Corrupt}

SinkType(m, p, en, sq, fl, made) ==
  /\ m \in {"open", "closed", "down"}
  /\ p \in {"idle", "buffered", "flushed"}
  /\ p # "idle" => m # "down" /\ en = <<en[1]>> /\ Logged(en[1], made)
  /\ sq \in Nat
  /\ fl \in BOOLEAN
  /\ made \in Nat

HeadInv(d, m, p, en, sq, ph, fl) ==
  /\ p = "idle" /\ m = "open" /\ ~fl => Continues(d.lines, sq, ph)
  /\ p = "buffered" =>
       /\ ~fl
       /\ HashMatches(en[1])
       /\ sq = en[1].seq /\ ph = en[1].hash
       /\ m = "open" => Continues(d.lines, en[1].seq - 1, en[1].prev)
  /\ p = "flushed" =>
       /\ m = "open" /\ ~fl
       /\ d.nl /\ d.lines # <<>>
       /\ Continues(d.lines, sq, ph)
       /\ d.lines[Len(d.lines)] \in {<<en[1]>>, Corrupt}

SinkInv(d, st, acks, m, p, en, sq, ph, fl, made) ==
  FileInv(d, st, acks, made) /\ SinkType(m, p, en, sq, fl, made) /\ HeadInv(d, m, p, en, sq, ph, fl)

IInv ==
  /\ SinkInv(disk, stable, acked, mode, pc, entry, seq, previousHash, failed, calls)
  /\ calls \in 0 .. MaxCalls /\ restarts \in 0 .. MaxRestarts

-----------------------------------------------------------------------------
(***************************************************************************)
(* Sequences that are their own range's sequences.                         *)
(***************************************************************************)
LEMMA OwnRange ==
  ASSUME NEW S, NEW s \in Seq(S)
  PROVE  s \in Seq(Range(s))
<1>1. \A i \in 1 .. Len(s) : s[i] \in Range(s)
  BY LenProperties DEF Range
<1>2. s = [i \in 1 .. Len(s) |-> s[i]] /\ Len(s) \in Nat
  BY LenProperties
<1>. QED  BY <1>1, <1>2, IsASeq

LEMMA Appended ==
  ASSUME NEW s, s \in Seq(Range(s)), NEW x
  PROVE  LET t == Append(s, x)
         IN  /\ t \in Seq(Range(t)) /\ t # <<>>
             /\ Len(s) \in Nat /\ Len(t) = Len(s) + 1
             /\ \A i \in 1 .. Len(s) : t[i] = s[i]
             /\ t[Len(s) + 1] = x
<1>. DEFINE S == Range(s) \cup {x}
<1>1. s \in Seq(S)
  BY SeqMonotonic
<1>2. /\ Append(s, x) \in Seq(S) /\ Append(s, x) # <<>>
      /\ Len(Append(s, x)) = Len(s) + 1
      /\ \A i \in 1 .. Len(s) : Append(s, x)[i] = s[i]
      /\ Append(s, x)[Len(s) + 1] = x
  <2>. HIDE DEF S
  <2>. QED  BY <1>1, AppendProperties DEF S
<1>3. Append(s, x) \in Seq(Range(Append(s, x)))
  BY <1>2, OwnRange
<1>4. Len(s) \in Nat
  BY LenProperties
<1>. QED  BY <1>2, <1>3, <1>4

LEMMA Overwritten ==
  ASSUME NEW s, s \in Seq(Range(s)), Len(s) > 0, NEW x
  PROVE  LET t == [s EXCEPT ![Len(s)] = x]
         IN  /\ t \in Seq(Range(t)) /\ t # <<>>
             /\ Len(s) \in Nat /\ Len(t) = Len(s)
             /\ \A i \in 1 .. Len(s) - 1 : t[i] = s[i]
             /\ t[Len(s)] = x
<1>. DEFINE S == Range(s) \cup {x}
            t == [s EXCEPT ![Len(s)] = x]
<1>1. s \in Seq(S) /\ Len(s) \in Nat
  BY SeqMonotonic, LenProperties
<1>2. /\ t \in Seq(S) /\ Len(t) = Len(s)
      /\ \A j \in 1 .. Len(s) : t[j] = IF j = Len(s) THEN x ELSE s[j]
  <2>1. Len(s) \in 1 .. Len(s)
    BY <1>1
  <2>2. x \in S
    OBVIOUS
  <2>. HIDE DEF S
  <2>. QED  BY <1>1, <2>1, <2>2, ExceptSeq
<1>3. t \in Seq(Range(t))
  BY <1>2, OwnRange
<1>4. t # <<>>
  BY <1>2, EmptySeq
<1>. HIDE DEF t
<1>5. /\ \A i \in 1 .. Len(s) - 1 : t[i] = s[i]
      /\ t[Len(s)] = x
  BY <1>1, <1>2
<1>. QED  BY <1>1, <1>2, <1>3, <1>4, <1>5 DEF t

LEMMA CutAt ==
  ASSUME NEW s, s \in Seq(Range(s)), NEW n \in 0 .. Len(s)
  PROVE  LET t == SubSeq(s, 1, n)
         IN  /\ t \in Seq(Range(t))
             /\ Len(s) \in Nat /\ Len(t) = n
             /\ \A i \in 1 .. n : t[i] = s[i]
<1>1. Len(s) \in Nat /\ \A i \in 1 .. Len(s) : s[i] \in Range(s)
  BY LenProperties, ElementOfSeq
<1>2. /\ SubSeq(s, 1, n) \in Seq(Range(s))
      /\ Len(SubSeq(s, 1, n)) = IF 1 <= n THEN n - 1 + 1 ELSE 0
      /\ \A i \in 1 .. n - 1 + 1 : SubSeq(s, 1, n)[i] = s[1 + i - 1]
  BY <1>1, SubSeqProperties, 1 \in Int, n \in Int, \A i \in 1 .. n : s[i] \in Range(s)
<1>3. SubSeq(s, 1, n) \in Seq(Range(SubSeq(s, 1, n)))
  BY <1>2, OwnRange
<1>. QED  BY <1>1, <1>2, <1>3

-----------------------------------------------------------------------------
(***************************************************************************)
(* What the disk may do to a file.                                         *)
(***************************************************************************)
LEMMA EntryLine ==
  ASSUME NEW made, NEW e, Logged(e, made)
  PROVE  LoggedLine(<<e>>, made) /\ Readable(<<e>>) /\ <<e>>[1] = e
BY DEF LoggedLine, Readable, Corrupt

LEMMA CorruptLine == (\A made : LoggedLine(Corrupt, made)) /\ ~Readable(Corrupt)
BY DEF LoggedLine, Readable

\* Behind a file comes an unreadable line.
LEMMA AddCorrupt ==
  ASSUME NEW made, NEW ls, LoggedFile(ls, made), Chained(ls)
  PROVE  LoggedFile(Append(ls, Corrupt), made) /\ Chained(Append(ls, Corrupt))
<1>. DEFINE t == Append(ls, Corrupt)
<1>1. /\ t \in Seq(Range(t))
      /\ Len(ls) \in Nat /\ Len(t) = Len(ls) + 1
      /\ \A i \in 1 .. Len(ls) : t[i] = ls[i]
      /\ t[Len(ls) + 1] = Corrupt
  BY Appended DEF LoggedFile
<1>. HIDE DEF t
<1>2. LoggedFile(t, made)
  BY <1>1, CorruptLine DEF LoggedFile
<1>3. Chained(t)
  <2>1. \A i \in 1 .. Len(t) : Readable(t[i]) => HashMatches(t[i][1])
    BY <1>1, CorruptLine DEF Chained
  <2>2. Len(t) > 0 /\ Readable(t[1]) => t[1][1].seq = 1 /\ t[1][1].prev = Genesis
    BY <1>1, CorruptLine DEF Chained
  <2>3. \A i \in 2 .. Len(t) : Readable(t[i - 1]) /\ Readable(t[i]) =>
          /\ t[i][1].prev = t[i - 1][1].hash
          /\ t[i][1].seq = t[i - 1][1].seq + 1
    BY <1>1, CorruptLine DEF Chained
  <2>. QED  BY <2>1, <2>2, <2>3 DEF Chained
<1>. QED  BY <1>2, <1>3 DEF t

\* Behind a file comes the entry its head asks for.
LEMMA AddEntry ==
  ASSUME NEW made, NEW ls, LoggedFile(ls, made), Chained(ls),
         NEW e, Logged(e, made), HashMatches(e), Continues(ls, e.seq - 1, e.prev)
  PROVE  LoggedFile(Append(ls, <<e>>), made) /\ Chained(Append(ls, <<e>>))
<1>. DEFINE t == Append(ls, <<e>>)
<1>1. /\ t \in Seq(Range(t))
      /\ Len(ls) \in Nat /\ Len(t) = Len(ls) + 1
      /\ \A i \in 1 .. Len(ls) : t[i] = ls[i]
      /\ t[Len(ls) + 1] = <<e>>
  BY Appended DEF LoggedFile
<1>2. ls = <<>> <=> Len(ls) = 0
  BY EmptySeq DEF LoggedFile
<1>3. LoggedLine(<<e>>, made) /\ Readable(<<e>>) /\ <<e>>[1] = e
  BY EntryLine
<1>. DEFINE l == <<e>>
<1>. HIDE DEF t
<1>4. LoggedFile(t, made)
  BY <1>1, <1>3 DEF LoggedFile
<1>5. \A i \in 1 .. Len(ls) : Readable(ls[i]) => ls[i][1].seq \in Nat
  BY DEF LoggedFile, LoggedLine, Logged
<1>6. e.seq \in Nat
  BY DEF Logged
<1>7. t[Len(ls) + 1] = l /\ Readable(l) /\ l[1] = e
  BY <1>1, <1>3
<1>. HIDE DEF l
<1>8. Chained(t)
  <2>1. \A i \in 1 .. Len(t) : Readable(t[i]) => HashMatches(t[i][1])
    BY <1>1, <1>7 DEF Chained
  <2>2. Len(t) > 0 /\ Readable(t[1]) => t[1][1].seq = 1 /\ t[1][1].prev = Genesis
    <3>1. CASE Len(ls) = 0
      BY <3>1, <1>1, <1>2, <1>6, <1>7 DEF Continues
    <3>2. CASE Len(ls) > 0
      BY <3>2, <1>1 DEF Chained
    <3>. QED  BY <1>1, <3>1, <3>2
  <2>3. ASSUME NEW i \in 2 .. Len(t), Readable(t[i - 1]), Readable(t[i])
        PROVE  /\ t[i][1].prev = t[i - 1][1].hash
               /\ t[i][1].seq = t[i - 1][1].seq + 1
    <3>1. CASE i \in 2 .. Len(ls)
      <4>1. t[i] = ls[i] /\ t[i - 1] = ls[i - 1]
        BY <1>1, <3>1
      <4>. QED  BY <2>3, <3>1, <4>1 DEF Chained
    <3>2. CASE i = Len(ls) + 1
      <4>1. Len(ls) > 0 /\ t[i - 1] = ls[Len(ls)] /\ t[i][1] = e
        BY <1>1, <1>7, <3>2, <2>3
      <4>2. e.seq - 1 = ls[Len(ls)][1].seq /\ e.prev = ls[Len(ls)][1].hash
        BY <4>1, <1>2, <2>3 DEF Continues
      <4>3. ls[Len(ls)][1].seq \in Nat
        BY <1>1, <1>5, <2>3, <4>1
      <4>. QED  BY <4>1, <4>2, <4>3, <1>6
    <3>. QED  BY <1>1, <3>1, <3>2
  <2>. QED  BY <2>1, <2>2, <2>3 DEF Chained
<1>. QED  BY <1>4, <1>8 DEF t

\* The last line becomes unreadable.
LEMMA SpoilLast ==
  ASSUME NEW made, NEW ls, LoggedFile(ls, made), Chained(ls), Len(ls) > 0
  PROVE  LET t == [ls EXCEPT ![Len(ls)] = Corrupt]
         IN  LoggedFile(t, made) /\ Chained(t)
<1>. DEFINE t == [ls EXCEPT ![Len(ls)] = Corrupt]
<1>1. /\ t \in Seq(Range(t))
      /\ Len(ls) \in Nat /\ Len(t) = Len(ls)
      /\ \A i \in 1 .. Len(ls) - 1 : t[i] = ls[i]
      /\ t[Len(ls)] = Corrupt
  BY Overwritten DEF LoggedFile
<1>. HIDE DEF t
<1>2. LoggedFile(t, made)
  BY <1>1, CorruptLine DEF LoggedFile
<1>3. \A i \in 1 .. Len(t) : Readable(t[i]) => t[i] = ls[i] /\ i \in 1 .. Len(ls)
  BY <1>1, CorruptLine
<1>4. Chained(t)
  <2>1. \A i \in 1 .. Len(t) : Readable(t[i]) => HashMatches(t[i][1])
    BY <1>3 DEF Chained
  <2>2. Len(t) > 0 /\ Readable(t[1]) => t[1][1].seq = 1 /\ t[1][1].prev = Genesis
    BY <1>1, <1>3 DEF Chained
  <2>3. ASSUME NEW i \in 2 .. Len(t), Readable(t[i - 1]), Readable(t[i])
        PROVE  /\ t[i][1].prev = t[i - 1][1].hash
               /\ t[i][1].seq = t[i - 1][1].seq + 1
    <3>1. t[i] = ls[i] /\ t[i - 1] = ls[i - 1] /\ i \in 2 .. Len(ls)
      BY <1>1, <1>3, <2>3
    <3>. QED  BY <2>3, <3>1 DEF Chained
  <2>. QED  BY <2>1, <2>2, <2>3 DEF Chained
<1>. QED  BY <1>2, <1>4 DEF t

\* The file is cut behind line n.
LEMMA CutFile ==
  ASSUME NEW made, NEW ls, LoggedFile(ls, made), Chained(ls), NEW n \in 0 .. Len(ls)
  PROVE  LoggedFile(SubSeq(ls, 1, n), made) /\ Chained(SubSeq(ls, 1, n))
<1>. DEFINE t == SubSeq(ls, 1, n)
<1>1. /\ t \in Seq(Range(t))
      /\ Len(ls) \in Nat /\ Len(t) = n
      /\ \A i \in 1 .. n : t[i] = ls[i]
  BY CutAt DEF LoggedFile
<1>. HIDE DEF t
<1>2. \A i \in 1 .. n : i \in 1 .. Len(ls) /\ (i >= 2 => i - 1 \in 1 .. n)
  BY <1>1
<1>3. LoggedFile(t, made)
  BY <1>1, <1>2 DEF LoggedFile
<1>4. Chained(t)
  <2>1. \A i \in 1 .. Len(t) : Readable(t[i]) => HashMatches(t[i][1])
    BY <1>1, <1>2 DEF Chained
  <2>2. Len(t) > 0 /\ Readable(t[1]) => t[1][1].seq = 1 /\ t[1][1].prev = Genesis
    BY <1>1, <1>2 DEF Chained
  <2>3. ASSUME NEW i \in 2 .. Len(t), Readable(t[i - 1]), Readable(t[i])
        PROVE  /\ t[i][1].prev = t[i - 1][1].hash
               /\ t[i][1].seq = t[i - 1][1].seq + 1
    <3>1. t[i] = ls[i] /\ t[i - 1] = ls[i - 1] /\ i \in 2 .. Len(ls)
      BY <1>1, <1>2
    <3>. QED  BY <2>3, <3>1 DEF Chained
  <2>. QED  BY <2>1, <2>2, <2>3 DEF Chained
<1>. QED  BY <1>3, <1>4 DEF t

-----------------------------------------------------------------------------
(***************************************************************************)
(* What resumeChain finds.                                                 *)
(***************************************************************************)
LEMMA MaxExists ==
  ASSUME NEW n \in Nat, NEW S \in SUBSET (0 .. n), S # {}
  PROVE  Max(S) \in S /\ \A y \in S : y <= Max(S)
<1>. DEFINE T == {n - x : x \in S}
            R == OpToRel(<, Nat)
<1>1. T \in SUBSET Nat /\ T # {}
  <2>1. \A x \in S : n - x \in Nat
    OBVIOUS
  <2>2. PICK x \in S : TRUE
    OBVIOUS
  <2>3. n - x \in T
    OBVIOUS
  <2>. QED  BY <2>1, <2>3
<1>2. PICK m \in T : \A y \in T : <<y, m>> \notin R
  <2>. HIDE DEF T, R
  <2>. QED  BY <1>1, NatLessThanWellFounded, WFMin DEF R
<1>3. \A y \in T : ~(y < m)
  BY <1>1, <1>2 DEF OpToRel
<1>4. PICK x \in S : m = n - x
  BY <1>2
<1>5. \A y \in S : x >= y
  BY <1>3, <1>4
<1>. QED  BY <1>4, <1>5 DEF Max

LEMMA MinExists ==
  ASSUME NEW S \in SUBSET Nat, S # {}
  PROVE  Min(S) \in S /\ \A y \in S : Min(S) <= y
<1>. DEFINE R == OpToRel(<, Nat)
<1>1. PICK m \in S : \A y \in S : <<y, m>> \notin R
  <2>. HIDE DEF R
  <2>. QED  BY NatLessThanWellFounded, WFMin DEF R
<1>2. \A y \in S : ~(y < m)
  BY <1>1 DEF OpToRel
<1>3. \A y \in S : m <= y
  BY <1>2
<1>. QED  BY <1>1, <1>3 DEF Min

LEMMA LastReadableIs ==
  ASSUME NEW made, NEW ls, LoggedFile(ls, made)
  PROVE  /\ LastReadable(ls) \in 0 .. Len(ls)
         /\ LastReadable(ls) # 0 => Readable(ls[LastReadable(ls)])
         /\ \A i \in 1 .. Len(ls) : Readable(ls[i]) => i <= LastReadable(ls)
<1>. DEFINE S == {0} \cup {i \in DOMAIN ls : Readable(ls[i])}
<1>1. Len(ls) \in Nat /\ DOMAIN ls = 1 .. Len(ls)
  BY LenProperties DEF LoggedFile
<1>2. S \in SUBSET (0 .. Len(ls)) /\ S # {}
  BY <1>1
<1>3. Max(S) \in S /\ \A y \in S : y <= Max(S)
  <2>. HIDE DEF S
  <2>. QED  BY <1>1, <1>2, MaxExists
<1>. QED  BY <1>1, <1>2, <1>3 DEF LastReadable

LEMMA ResumedContinues ==
  ASSUME NEW made, NEW ls, LoggedFile(ls, made)
  PROVE  /\ ResumedSeq(ls) \in Nat
         /\ Continues(ls, ResumedSeq(ls), ResumedHash(ls))
<1>. DEFINE k == LastReadable(ls)
<1>1. /\ k \in 0 .. Len(ls) /\ Len(ls) \in Nat
      /\ k # 0 => Readable(ls[k])
      /\ \A i \in 1 .. Len(ls) : Readable(ls[i]) => i <= k
  BY LastReadableIs, LenProperties DEF LoggedFile
<1>2. ResumedSeq(ls) = IF k = 0 THEN 0 ELSE ls[k][1].seq
  BY DEF ResumedSeq
<1>3. ResumedHash(ls) = IF k = 0 THEN Genesis ELSE ls[k][1].hash
  BY DEF ResumedHash
<1>. HIDE DEF k
<1>4. ResumedSeq(ls) \in Nat
  <2>1. k # 0 => LoggedLine(ls[k], made)
    BY <1>1 DEF LoggedFile
  <2>. QED  BY <1>1, <1>2, <2>1 DEF LoggedLine, Logged
<1>5. ASSUME ls = <<>>
      PROVE  ResumedSeq(ls) = 0 /\ ResumedHash(ls) = Genesis
  <2>1. Len(ls) = 0
    BY <1>5, EmptySeq
  <2>. QED  BY <1>1, <1>2, <1>3, <2>1
<1>6. ASSUME ls # <<>>, Readable(ls[Len(ls)])
      PROVE  ResumedSeq(ls) = ls[Len(ls)][1].seq /\ ResumedHash(ls) = ls[Len(ls)][1].hash
  <2>1. Len(ls) > 0
    BY <1>6, <1>1, EmptySeq DEF LoggedFile
  <2>2. k = Len(ls)
    BY <1>1, <1>6, <2>1
  <2>. QED  BY <1>2, <1>3, <2>1, <2>2
<1>. QED  BY <1>4, <1>5, <1>6 DEF Continues

-----------------------------------------------------------------------------
(***************************************************************************)
(* Writes and crashes keep the file invariant.                             *)
(***************************************************************************)
LEMMA LandedKeeps ==
  ASSUME NEW made, NEW d, NEW st, NEW acks, FileInv(d, st, acks, made),
         NEW e, Logged(e, made), HashMatches(e), Continues(d.lines, e.seq - 1, e.prev),
         NEW part \in Parts
  PROVE  FileInv(Landed(d, e, part), st, acks, made)
<1>. DEFINE ls == d.lines
<1>1. /\ LoggedFile(ls, made) /\ Chained(ls) /\ d.nl \in BOOLEAN
      /\ st \in 0 .. Len(ls) /\ (~d.nl => st < Len(ls)) /\ Len(ls) \in Nat
      /\ \A a \in acks : /\ a.line \in 1 .. st /\ Logged(a.entry, made)
                         /\ ls[a.line] \in {<<a.entry>>, Corrupt}
  BY LenProperties DEF FileInv, LoggedFile
\* The three files a write can leave, the line it extends being stable in none.
<1>2. ASSUME NEW line \in {<<e>>, Corrupt}
      PROVE  /\ LoggedFile(Put(d, line), made) /\ Chained(Put(d, line))
             /\ st < Len(Put(d, line))
             /\ \A i \in 1 .. st : Put(d, line)[i] = ls[i]
  <2>1. CASE d.nl /\ line = <<e>>
    <3>1. Put(d, line) = Append(ls, <<e>>)
      BY <2>1 DEF Put
    <3>2. LoggedFile(Append(ls, <<e>>), made) /\ Chained(Append(ls, <<e>>))
      BY <1>1, AddEntry
    <3>3. /\ Len(Append(ls, <<e>>)) = Len(ls) + 1
          /\ \A i \in 1 .. Len(ls) : Append(ls, <<e>>)[i] = ls[i]
      <4>. DEFINE l == <<e>>
      <4>. HIDE DEF l
      <4>1. /\ Len(Append(ls, l)) = Len(ls) + 1
            /\ \A i \in 1 .. Len(ls) : Append(ls, l)[i] = ls[i]
        BY <1>1, Appended DEF LoggedFile
      <4>. QED  BY <4>1 DEF l
    <3>. QED  BY <1>1, <3>1, <3>2, <3>3
  <2>2. CASE d.nl /\ line = Corrupt
    <3>1. Put(d, line) = Append(ls, Corrupt)
      BY <2>2 DEF Put
    <3>2. LoggedFile(Append(ls, Corrupt), made) /\ Chained(Append(ls, Corrupt))
      BY <1>1, AddCorrupt
    <3>3. /\ Len(Append(ls, Corrupt)) = Len(ls) + 1
          /\ \A i \in 1 .. Len(ls) : Append(ls, Corrupt)[i] = ls[i]
      <4>1. ls \in Seq(Range(ls))
        BY <1>1 DEF LoggedFile
      <4>. QED  BY <4>1, Appended
    <3>. QED  BY <1>1, <3>1, <3>2, <3>3
  <2>3. CASE ~d.nl
    <3>1. Put(d, line) = [ls EXCEPT ![Len(ls)] = Corrupt]
      BY <2>3 DEF Put
    <3>2. Len(ls) > 0
      BY <1>1, <2>3
    <3>3. st \in 0 .. Len(ls) - 1
      BY <1>1, <2>3
    <3>4. LoggedFile([ls EXCEPT ![Len(ls)] = Corrupt], made) /\ Chained([ls EXCEPT ![Len(ls)] = Corrupt])
      BY <1>1, <3>2, SpoilLast
    <3>5. /\ Len([ls EXCEPT ![Len(ls)] = Corrupt]) = Len(ls)
          /\ \A i \in 1 .. Len(ls) - 1 : [ls EXCEPT ![Len(ls)] = Corrupt][i] = ls[i]
      <4>1. ls \in Seq(Range(ls))
        BY <1>1 DEF LoggedFile
      <4>. QED  BY <3>2, <4>1, Overwritten
    <3>6. \A i \in 1 .. st : i \in 1 .. Len(ls) - 1
      BY <1>1, <3>3
    <3>. QED  BY <1>1, <3>1, <3>3, <3>4, <3>5, <3>6
  <2>. QED  BY <1>1, <1>2, <2>1, <2>2, <2>3
<1>3. ASSUME NEW line \in {<<e>>, Corrupt}, NEW nl \in BOOLEAN
      PROVE  FileInv([lines |-> Put(d, line), nl |-> nl], st, acks, made)
  <2>1. /\ LoggedFile(Put(d, line), made) /\ Chained(Put(d, line))
        /\ st < Len(Put(d, line))
        /\ \A i \in 1 .. st : Put(d, line)[i] = ls[i]
    BY <1>2
  <2>2. Len(Put(d, line)) \in Nat
    BY <2>1, LenProperties DEF LoggedFile
  <2>3. \A a \in acks : /\ a.line \in 1 .. st /\ Logged(a.entry, made)
                        /\ Put(d, line)[a.line] \in {<<a.entry>>, Corrupt}
    BY <1>1, <2>1
  <2>. DEFINE x == [lines |-> Put(d, line), nl |-> nl]
  <2>4. x = [lines |-> x.lines, nl |-> x.nl] /\ x.lines = Put(d, line) /\ x.nl = nl
    OBVIOUS
  <2>. HIDE DEF x
  <2>. QED  BY <1>1, <2>1, <2>2, <2>3, <2>4 DEF FileInv, x
<1>. QED  BY <1>3 DEF Landed, Parts

LEMMA SurvivorsKeep ==
  ASSUME NEW made, NEW d, NEW st, NEW acks, FileInv(d, st, acks, made),
         NEW x \in Survivors(d, st)
  PROVE  FileInv(x, st, acks, made)
<1>. DEFINE ls == d.lines
<1>1. /\ LoggedFile(ls, made) /\ Chained(ls) /\ d.nl \in BOOLEAN
      /\ st \in 0 .. Len(ls) /\ (~d.nl => st < Len(ls)) /\ Len(ls) \in Nat
      /\ \A a \in acks : /\ a.line \in 1 .. st /\ Logged(a.entry, made)
                         /\ ls[a.line] \in {<<a.entry>>, Corrupt}
  BY LenProperties DEF FileInv, LoggedFile
<1>2. ASSUME NEW n \in st .. Len(ls)
      PROVE  /\ LoggedFile(SubSeq(ls, 1, n), made) /\ Chained(SubSeq(ls, 1, n))
             /\ Len(SubSeq(ls, 1, n)) = n
             /\ \A i \in 1 .. st : SubSeq(ls, 1, n)[i] = ls[i]
  <2>1. n \in 0 .. Len(ls)
    BY <1>1
  <2>2. LoggedFile(SubSeq(ls, 1, n), made) /\ Chained(SubSeq(ls, 1, n))
    BY <1>1, <2>1, CutFile
  <2>3. ls \in Seq(Range(ls))
    BY <1>1 DEF LoggedFile
  <2>4. Len(SubSeq(ls, 1, n)) = n /\ \A i \in 1 .. n : SubSeq(ls, 1, n)[i] = ls[i]
    BY <2>1, <2>3, CutAt
  <2>5. \A i \in 1 .. st : i \in 1 .. n
    BY <1>1
  <2>. QED  BY <2>2, <2>4, <2>5
<1>3. ASSUME NEW n \in st .. Len(ls) - 1
      PROVE  LET t == Append(SubSeq(ls, 1, n), Corrupt)
             IN  /\ LoggedFile(t, made) /\ Chained(t)
                 /\ Len(t) = n + 1
                 /\ \A i \in 1 .. st : t[i] = ls[i]
  <2>. DEFINE c == SubSeq(ls, 1, n)
  <2>1. n \in st .. Len(ls) /\ n \in Nat
    BY <1>1
  <2>2. LoggedFile(c, made) /\ Chained(c) /\ Len(c) = n /\ \A i \in 1 .. st : c[i] = ls[i]
    BY <1>2, <2>1
  <2>. HIDE DEF c
  <2>3. LoggedFile(Append(c, Corrupt), made) /\ Chained(Append(c, Corrupt))
    BY <2>2, AddCorrupt
  <2>4. /\ Len(Append(c, Corrupt)) = n + 1
        /\ \A i \in 1 .. st : Append(c, Corrupt)[i] = ls[i]
    BY <1>1, <2>1, <2>2, Appended DEF LoggedFile
  <2>. QED  BY <2>3, <2>4 DEF c
<1>4. ASSUME NEW t, NEW nl \in BOOLEAN, LoggedFile(t, made), Chained(t),
             Len(t) >= st, ~nl => Len(t) > st, \A i \in 1 .. st : t[i] = ls[i]
      PROVE  FileInv([lines |-> t, nl |-> nl], st, acks, made)
  <2>1. Len(t) \in Nat
    BY <1>4, LenProperties DEF LoggedFile
  <2>2. \A a \in acks : /\ a.line \in 1 .. st /\ Logged(a.entry, made)
                        /\ t[a.line] \in {<<a.entry>>, Corrupt}
    BY <1>1, <1>4
  <2>. QED  BY <1>1, <1>4, <2>1, <2>2 DEF FileInv
<1>5. CASE \E n \in st .. Len(ls) :
             x = [lines |-> SubSeq(ls, 1, n), nl |-> n < Len(ls) \/ d.nl]
  <2>1. PICK n \in st .. Len(ls) :
               x = [lines |-> SubSeq(ls, 1, n), nl |-> n < Len(ls) \/ d.nl]
    BY <1>5
  <2>. DEFINE c == SubSeq(ls, 1, n)
              nl == n < Len(ls) \/ d.nl
  <2>2. nl \in BOOLEAN /\ n >= st /\ (~nl => n > st)
    BY <1>1
  <2>3. LoggedFile(c, made) /\ Chained(c) /\ Len(c) = n /\ \A i \in 1 .. st : c[i] = ls[i]
    BY <1>2
  <2>. HIDE DEF c, nl
  <2>4. FileInv([lines |-> c, nl |-> nl], st, acks, made)
    BY <1>4, <2>2, <2>3
  <2>. QED  BY <2>1, <2>4 DEF c, nl
<1>6. CASE \E n \in st .. Len(ls) - 1 :
             x = [lines |-> Append(SubSeq(ls, 1, n), Corrupt), nl |-> FALSE]
  <2>1. PICK n \in st .. Len(ls) - 1 :
               x = [lines |-> Append(SubSeq(ls, 1, n), Corrupt), nl |-> FALSE]
    BY <1>6
  <2>. DEFINE t == Append(SubSeq(ls, 1, n), Corrupt)
  <2>2. LoggedFile(t, made) /\ Chained(t) /\ Len(t) = n + 1 /\ \A i \in 1 .. st : t[i] = ls[i]
    BY <1>3
  <2>3. n + 1 >= st /\ n + 1 > st
    BY <1>1
  <2>. HIDE DEF t
  <2>4. FileInv([lines |-> t, nl |-> FALSE], st, acks, made)
    BY <1>4, <2>2, <2>3
  <2>. QED  BY <2>1, <2>4 DEF t
<1>7. CASE \E n \in st + 1 .. Len(ls) : x = [lines |-> SubSeq(ls, 1, n), nl |-> FALSE]
  <2>1. PICK n \in st + 1 .. Len(ls) : x = [lines |-> SubSeq(ls, 1, n), nl |-> FALSE]
    BY <1>7
  <2>2. n \in st .. Len(ls) /\ n >= st /\ n > st
    BY <1>1
  <2>. DEFINE c == SubSeq(ls, 1, n)
  <2>3. LoggedFile(c, made) /\ Chained(c) /\ Len(c) = n /\ \A i \in 1 .. st : c[i] = ls[i]
    BY <1>2, <2>2
  <2>. HIDE DEF c
  <2>4. FileInv([lines |-> c, nl |-> FALSE], st, acks, made)
    BY <1>4, <2>2, <2>3
  <2>. QED  BY <2>1, <2>4 DEF c
<1>. QED  BY <1>5, <1>6, <1>7 DEF Survivors

\* A line that was written whole ends the file, or has spoiled its last line.
LEMMA WholeLine ==
  ASSUME NEW made, NEW d, NEW st, NEW acks, FileInv(d, st, acks, made), NEW e
  PROVE  LET x == Landed(d, e, "line")
         IN  /\ x.nl = TRUE
             /\ x.lines # <<>>
             /\ x.lines[Len(x.lines)] \in {<<e>>, Corrupt}
<1>. DEFINE x == Landed(d, e, "line")
            l == <<e>>
<1>1. x = [lines |-> Put(d, l), nl |-> TRUE]
  BY DEF Landed
<1>. HIDE DEF x, l
<1>2. /\ d.lines \in Seq(Range(d.lines)) /\ Len(d.lines) \in Nat
      /\ ~d.nl => Len(d.lines) > 0
  <2>1. d.lines \in Seq(Range(d.lines)) /\ st \in 0 .. Len(d.lines)
        /\ (~d.nl => st < Len(d.lines))
    BY DEF FileInv, LoggedFile
  <2>2. Len(d.lines) \in Nat
    BY <2>1, LenProperties
  <2>. QED  BY <2>1, <2>2
<1>3. CASE d.nl
  <2>1. Put(d, l) = Append(d.lines, l)
    BY <1>3 DEF Put
  <2>2. /\ Append(d.lines, l) # <<>>
        /\ Append(d.lines, l)[Len(Append(d.lines, l))] = l
    BY <1>2, Appended
  <2>. QED  BY <1>1, <2>1, <2>2 DEF x, l
<1>4. CASE ~d.nl
  <2>1. Put(d, l) = [d.lines EXCEPT ![Len(d.lines)] = Corrupt]
    BY <1>4 DEF Put
  <2>. QED  BY <1>1, <1>2, <1>4, <2>1, Overwritten DEF x, l
<1>. QED  BY <1>3, <1>4

-----------------------------------------------------------------------------
(***************************************************************************)
(* What each step of a sink makes of its invariant.                        *)
(***************************************************************************)
\* An entry stays logged when more calls are made.
LEMMA MoreCalls ==
  ASSUME NEW made \in Nat, NEW d, NEW st, NEW acks, FileInv(d, st, acks, made)
  PROVE  FileInv(d, st, acks, made + 1)
<1>1. \A b \in 1 .. made : b \in 1 .. made + 1
  OBVIOUS
<1>2. \A e : Logged(e, made) => Logged(e, made + 1)
  BY <1>1 DEF Logged
<1>3. \A l : LoggedLine(l, made) => LoggedLine(l, made + 1)
  BY <1>2 DEF LoggedLine
<1>. QED  BY <1>2, <1>3 DEF FileInv, LoggedFile

\* The empty file of a new sink.
LEMMA SinkStarts ==
  SinkInv([lines |-> <<>>, nl |-> TRUE], 0, {}, "open", "idle", <<>>, 0, Genesis, FALSE, 0)
<1>. DEFINE d == [lines |-> <<>>, nl |-> TRUE]
<1>1. <<>> \in Seq(Range(<<>>)) /\ Len(<<>>) = 0
  BY EmptySeq
<1>2. d.lines = <<>> /\ d.nl = TRUE /\ d = [lines |-> d.lines, nl |-> d.nl]
  OBVIOUS
<1>. HIDE DEF d
<1>3. FileInv(d, 0, {}, 0)
  <2>1. LoggedFile(d.lines, 0)
    BY <1>1, <1>2 DEF LoggedFile
  <2>2. Chained(d.lines)
    BY <1>1, <1>2 DEF Chained
  <2>3. 0 \in 0 .. Len(d.lines) /\ d.nl
    BY <1>1, <1>2
  <2>. QED  BY <1>2, <2>1, <2>2, <2>3 DEF FileInv
<1>4. SinkType("open", "idle", <<>>, 0, FALSE, 0)
  BY DEF SinkType
<1>5. HeadInv(d, "open", "idle", <<>>, 0, Genesis, FALSE)
  BY <1>2 DEF HeadInv, Continues
<1>. QED  BY <1>3, <1>4, <1>5 DEF SinkInv, d

\* LogBuffer and LogRejected: the head moves on to the entry that is made.
LEMMA SinkBuffers ==
  ASSUME NEW d, NEW st, NEW acks, NEW m, NEW en, NEW sq, NEW ph, NEW made,
         SinkInv(d, st, acks, m, "idle", en, sq, ph, FALSE, made), m # "down"
  PROVE  LET e == Entry(sq + 1, ph, made + 1)
         IN  SinkInv(d, st, acks, m, "buffered", <<e>>, e.seq, e.hash, FALSE, made + 1)
<1>. DEFINE e == Entry(sq + 1, ph, made + 1)
<1>1. sq \in Nat /\ made \in Nat /\ m \in {"open", "closed", "down"} /\ FileInv(d, st, acks, made)
  BY DEF SinkInv, SinkType
<1>2. e.seq = sq + 1 /\ e.prev = ph /\ e.body = made + 1 /\ e.hash = Digest(sq + 1, ph, made + 1)
  BY DEF Entry
<1>3. Record(e)
  BY DEF Entry, Record
<1>. HIDE DEF e
<1>4. Logged(e, made + 1) /\ HashMatches(e)
  BY <1>1, <1>2, <1>3 DEF Logged, HashMatches
<1>5. FileInv(d, st, acks, made + 1)
  BY <1>1, MoreCalls
<1>6. SinkType(m, "buffered", <<e>>, e.seq, FALSE, made + 1)
  BY <1>1, <1>2, <1>4 DEF SinkType
<1>7. HeadInv(d, m, "buffered", <<e>>, e.seq, e.hash, FALSE)
  <2>1. e.seq - 1 = sq
    BY <1>1, <1>2
  <2>2. m = "open" => Continues(d.lines, e.seq - 1, e.prev)
    BY <1>2, <2>1 DEF SinkInv, HeadInv
  <2>. QED  BY <1>4, <2>2 DEF HeadInv
<1>. QED  BY <1>5, <1>6, <1>7 DEF SinkInv, e

LEMMA SinkRejects ==
  ASSUME NEW d, NEW st, NEW acks, NEW m, NEW en, NEW sq, NEW ph, NEW made,
         SinkInv(d, st, acks, m, "idle", en, sq, ph, TRUE, made)
  PROVE  LET e == Entry(sq + 1, ph, made + 1)
         IN  SinkInv(d, st, acks, m, "idle", en, e.seq, e.hash, TRUE, made + 1)
<1>. DEFINE e == Entry(sq + 1, ph, made + 1)
<1>1. sq \in Nat /\ made \in Nat /\ m \in {"open", "closed", "down"} /\ FileInv(d, st, acks, made)
  BY DEF SinkInv, SinkType
<1>2. e.seq = sq + 1
  BY DEF Entry
<1>. HIDE DEF e
<1>3. FileInv(d, st, acks, made + 1)
  BY <1>1, MoreCalls
<1>4. SinkType(m, "idle", en, e.seq, TRUE, made + 1)
  BY <1>1, <1>2 DEF SinkType
<1>5. HeadInv(d, m, "idle", en, e.seq, e.hash, TRUE)
  BY DEF HeadInv
<1>. QED  BY <1>3, <1>4, <1>5 DEF SinkInv, e

\* Whatever of the entry in flight lands, the file invariant survives.
LEMMA FlightKeeps ==
  ASSUME NEW d, NEW st, NEW acks, NEW en, NEW sq, NEW ph, NEW fl, NEW made,
         SinkInv(d, st, acks, "open", "buffered", en, sq, ph, fl, made), NEW part \in Parts
  PROVE  FileInv(Landed(d, en[1], part), st, acks, made)
BY LandedKeeps DEF SinkInv, SinkType, HeadInv

\* Flush: the line is in the file, or has spoiled the file's torn tail.
LEMMA SinkFlushes ==
  ASSUME NEW d, NEW st, NEW acks, NEW en, NEW sq, NEW ph, NEW fl, NEW made,
         SinkInv(d, st, acks, "open", "buffered", en, sq, ph, fl, made)
  PROVE  SinkInv(Landed(d, en[1], "line"), st, acks, "open", "flushed", en, sq, ph, fl, made)
<1>. DEFINE x == Landed(d, en[1], "line")
<1>1. FileInv(x, st, acks, made)
  BY FlightKeeps DEF Parts
<1>2. FileInv(d, st, acks, made)
  BY DEF SinkInv
<1>3. x.nl = TRUE /\ x.lines # <<>> /\ x.lines[Len(x.lines)] \in {<<en[1]>>, Corrupt}
  BY <1>2, WholeLine
<1>. HIDE DEF x
<1>4. SinkType("open", "flushed", en, sq, fl, made)
  BY DEF SinkInv, SinkType
<1>5. sq = en[1].seq /\ ph = en[1].hash /\ ~fl
  BY DEF SinkInv, HeadInv
<1>6. Continues(x.lines, sq, ph)
  BY <1>3, <1>5 DEF Continues, Readable, Corrupt
<1>7. HeadInv(x, "open", "flushed", en, sq, ph, fl)
  BY <1>3, <1>5, <1>6 DEF HeadInv
<1>. QED  BY <1>1, <1>4, <1>7 DEF SinkInv, x

\* FlushFails: part of the line may have landed, and the writer keeps its error.
LEMMA SinkFlushFails ==
  ASSUME NEW d, NEW st, NEW acks, NEW m, NEW en, NEW sq, NEW ph, NEW fl, NEW made,
         SinkInv(d, st, acks, m, "buffered", en, sq, ph, fl, made),
         NEW part \in Parts, m = "closed" => part = "nothing"
  PROVE  SinkInv(Landed(d, en[1], part), st, acks, m, "idle", <<>>, sq, ph, TRUE, made)
<1>1. m \in {"open", "closed"}
  BY DEF SinkInv, SinkType
<1>2. FileInv(Landed(d, en[1], part), st, acks, made)
  <2>1. CASE m = "open"
    BY <2>1, FlightKeeps
  <2>2. CASE m = "closed"
    BY <2>2 DEF Landed, SinkInv
  <2>. QED  BY <1>1, <2>1, <2>2
<1>3. SinkType(m, "idle", <<>>, sq, TRUE, made) /\ HeadInv(Landed(d, en[1], part), m, "idle", <<>>, sq, ph, TRUE)
  BY DEF SinkInv, SinkType, HeadInv
<1>. QED  BY <1>2, <1>3 DEF SinkInv

\* Sync: every line is stable, and the entry may be acknowledged.
LEMMA SinkSyncs ==
  ASSUME NEW d, NEW st, NEW acks, NEW m, NEW en, NEW sq, NEW ph, NEW fl, NEW made,
         SinkInv(d, st, acks, m, "flushed", en, sq, ph, fl, made),
         NEW more \in SUBSET {[line |-> Len(d.lines), entry |-> en[1]]}
  PROVE  SinkInv(d, Len(d.lines), acks \cup more, m, "idle", <<>>, sq, ph, fl, made)
<1>. DEFINE last == Len(d.lines)
<1>1. /\ FileInv(d, st, acks, made) /\ Logged(en[1], made) /\ d.nl /\ d.lines # <<>>
      /\ d.lines[last] \in {<<en[1]>>, Corrupt} /\ m = "open" /\ ~fl /\ Continues(d.lines, sq, ph)
  BY DEF SinkInv, SinkType, HeadInv
<1>2. last \in Nat /\ last > 0
  BY <1>1, LenProperties, EmptySeq DEF FileInv, LoggedFile
<1>3. \A a \in acks \cup more :
        /\ a.line \in 1 .. last /\ Logged(a.entry, made)
        /\ d.lines[a.line] \in {<<a.entry>>, Corrupt}
  <2>. SUFFICES ASSUME NEW a \in acks \cup more
                PROVE  /\ a.line \in 1 .. last /\ Logged(a.entry, made)
                       /\ d.lines[a.line] \in {<<a.entry>>, Corrupt}
    OBVIOUS
  <2>1. CASE a \in acks
    <3>1. st \in 0 .. last /\ a.line \in 1 .. st
      BY <1>1, <2>1 DEF FileInv
    <3>. QED  BY <1>1, <1>2, <2>1, <3>1 DEF FileInv
  <2>2. CASE a = [line |-> last, entry |-> en[1]]
    BY <1>1, <1>2, <2>2
  <2>. QED  BY <2>1, <2>2
<1>4. FileInv(d, last, acks \cup more, made)
  BY <1>1, <1>2, <1>3 DEF FileInv
<1>5. SinkType(m, "idle", <<>>, sq, fl, made) /\ HeadInv(d, m, "idle", <<>>, sq, ph, fl)
  BY <1>1 DEF SinkInv, SinkType, HeadInv
<1>. QED  BY <1>4, <1>5 DEF SinkInv

\* SyncFails: the entry is in the file, its call returns the error.
LEMMA SinkSyncFails ==
  ASSUME NEW d, NEW st, NEW acks, NEW m, NEW en, NEW sq, NEW ph, NEW fl, NEW made,
         SinkInv(d, st, acks, m, "flushed", en, sq, ph, fl, made)
  PROVE  SinkInv(d, st, acks, m, "idle", <<>>, sq, ph, fl, made)
BY DEF SinkInv, SinkType, HeadInv

LEMMA SinkCloses ==
  ASSUME NEW d, NEW st, NEW acks, NEW en, NEW sq, NEW ph, NEW fl, NEW made,
         SinkInv(d, st, acks, "open", "idle", en, sq, ph, fl, made)
  PROVE  SinkInv(d, st, acks, "closed", "idle", en, sq, ph, fl, made)
BY DEF SinkInv, SinkType, HeadInv

\* ProcessDies and PowerLoss: part of the entry in flight may have landed, and
\* the power takes part of what is not stable.
LEMMA SinkDies ==
  ASSUME NEW d, NEW st, NEW acks, NEW m, NEW p, NEW en, NEW sq, NEW ph, NEW fl, NEW made,
         SinkInv(d, st, acks, m, p, en, sq, ph, fl, made),
         NEW x, FileInv(x, st, acks, made)
  PROVE  SinkInv(x, st, acks, "down", "idle", <<>>, 0, Genesis, FALSE, made)
BY DEF SinkInv, SinkType, HeadInv

\* Restart: resumeChain finds the head that continues the file.
LEMMA SinkRestarts ==
  ASSUME NEW d, NEW st, NEW acks, NEW p, NEW en, NEW sq, NEW ph, NEW fl, NEW made,
         SinkInv(d, st, acks, "down", p, en, sq, ph, fl, made)
  PROVE  SinkInv(d, st, acks, "open", p, en, ResumedSeq(d.lines), ResumedHash(d.lines), fl, made)
<1>1. FileInv(d, st, acks, made) /\ p = "idle"
  BY DEF SinkInv, SinkType
<1>2. /\ ResumedSeq(d.lines) \in Nat
      /\ Continues(d.lines, ResumedSeq(d.lines), ResumedHash(d.lines))
  BY <1>1, ResumedContinues DEF FileInv
<1>. QED  BY <1>1, <1>2 DEF SinkInv, SinkType, HeadInv

-----------------------------------------------------------------------------
(***************************************************************************)
(* The invariant of AuditSink is inductive.                                *)
(***************************************************************************)
LEMMA InitIInv == Init => IInv
<1>. SUFFICES ASSUME Init PROVE IInv
  OBVIOUS
<1>1. SinkInv(disk, stable, acked, mode, pc, entry, seq, previousHash, failed, calls)
  BY SinkStarts DEF Init
<1>. QED  BY <1>1, BoundsAssumption DEF Init, IInv

LEMMA NextIInv == IInv /\ [Next]_vars => IInv'
<1>. SUFFICES ASSUME IInv, [Next]_vars PROVE IInv'
  OBVIOUS
<1>. USE DEF IInv
<1>1. CASE LogBuffer
  <2>1. SinkInv(disk, stable, acked, mode, pc, entry, seq, previousHash, failed, calls)'
    <3>1. SinkInv(disk, stable, acked, mode, "idle", entry, seq, previousHash, FALSE, calls)
          /\ mode # "down"
      BY <1>1 DEF LogBuffer, SinkInv, SinkType
    <3>2. LET e == NextEntry
          IN  SinkInv(disk, stable, acked, mode, "buffered", <<e>>, e.seq, e.hash, FALSE, calls + 1)
      BY <3>1, SinkBuffers DEF NextEntry
    <3>3. ~failed /\ failed \in BOOLEAN
      BY <1>1 DEF LogBuffer, SinkInv, SinkType
    <3>. QED  BY <1>1, <3>2, <3>3 DEF LogBuffer, Stamp
  <2>2. calls' \in 0 .. MaxCalls
    BY <1>1, BoundsAssumption DEF LogBuffer
  <2>. QED  BY <1>1, <2>1, <2>2 DEF LogBuffer
<1>2. CASE LogRejected
  <2>1. SinkInv(disk, stable, acked, mode, pc, entry, seq, previousHash, failed, calls)'
    <3>1. SinkInv(disk, stable, acked, mode, "idle", entry, seq, previousHash, TRUE, calls)
      BY <1>2 DEF LogRejected, SinkInv, SinkType
    <3>2. LET e == NextEntry
          IN  SinkInv(disk, stable, acked, mode, "idle", entry, e.seq, e.hash, TRUE, calls + 1)
      BY <3>1, SinkRejects DEF NextEntry
    <3>3. failed /\ failed \in BOOLEAN
      BY <1>2 DEF LogRejected, SinkInv, SinkType
    <3>. QED  BY <1>2, <3>2, <3>3 DEF LogRejected, Stamp
  <2>2. calls' \in 0 .. MaxCalls
    BY <1>2, BoundsAssumption DEF LogRejected
  <2>. QED  BY <1>2, <2>1, <2>2 DEF LogRejected
<1>3. CASE Flush
  BY <1>3, SinkFlushes DEF Flush, Writing
<1>4. CASE FlushFails
  BY <1>4, SinkFlushFails DEF FlushFails
<1>5. CASE Sync
  BY <1>5, SinkSyncs DEF Sync
<1>6. CASE SyncFails
  BY <1>6, SinkSyncFails DEF SyncFails
<1>7. CASE Close
  BY <1>7, SinkCloses DEF Close
<1>8. CASE ProcessDies
  <2>1. FileInv(disk', stable, acked, calls)
    <3>1. CASE Writing
      BY <1>8, <3>1, FlightKeeps DEF ProcessDies, Writing
    <3>2. CASE ~Writing
      BY <1>8, <3>2 DEF ProcessDies, SinkInv
    <3>. QED  BY <3>1, <3>2
  <2>. QED  BY <1>8, <2>1, SinkDies DEF ProcessDies, Die
<1>9. CASE PowerLoss
  <2>. DEFINE d == IF Writing THEN Landed(disk, entry[1], "line") ELSE disk
  <2>1. FileInv(d, stable, acked, calls)
    BY FlightKeeps DEF Parts, Writing, SinkInv
  <2>2. disk' \in Survivors(d, stable)
    BY <1>9 DEF PowerLoss
  <2>. HIDE DEF d
  <2>3. FileInv(disk', stable, acked, calls)
    BY <2>1, <2>2, SurvivorsKeep
  <2>. QED  BY <1>9, <2>3, SinkDies DEF PowerLoss, Die
<1>10. CASE Restart
  <2>1. SinkInv(disk, stable, acked, mode, pc, entry, seq, previousHash, failed, calls)'
    BY <1>10, SinkRestarts DEF Restart
  <2>. QED  BY <1>10, <2>1, BoundsAssumption DEF Restart
<1>11. CASE UNCHANGED vars
  BY <1>11 DEF vars, sinkVars
<1>. QED
  BY <1>1, <1>2, <1>3, <1>4, <1>5, <1>6, <1>7, <1>8, <1>9, <1>10, <1>11 DEF Next

LEMMA InductiveInvariant == Spec => []IInv
BY InitIInv, NextIInv, PTL DEF Spec

-----------------------------------------------------------------------------
(***************************************************************************)
(* The theorems.                                                           *)
(***************************************************************************)
\* Every variable keeps its type.
THEOREM TypeCorrect == Spec => []TypeOK
<1>1. IInv => TypeOK
  <2>. SUFFICES ASSUME IInv PROVE TypeOK
    OBVIOUS
  <2>1. DOMAIN disk.lines = 1 .. Len(disk.lines)
    BY LenProperties DEF IInv, SinkInv, FileInv, LoggedFile
  <2>. QED  BY <2>1 DEF IInv, SinkInv, FileInv, LoggedFile, SinkType, TypeOK, LoggedLine, Logged, IsLine, IsEntry
<1>. QED  BY <1>1, InductiveInvariant, PTL

\* Two readable neighbours in the file are always consecutive links of the
\* chain, whatever write, fsync, process or machine failed between them.
THEOREM ChainNeverBreaksBetweenNeighbours == Spec => []NeighboursLinked
<1>1. IInv => NeighboursLinked
  <2>. SUFFICES ASSUME IInv, NEW i \in 2 .. Len(disk.lines),
                       Readable(disk.lines[i - 1]), Readable(disk.lines[i])
                PROVE  /\ LinksUp(disk.lines, i)
                       /\ disk.lines[i][1].seq = disk.lines[i - 1][1].seq + 1
    BY DEF NeighboursLinked
  <2>1. i # 1
    OBVIOUS
  <2>. QED  BY <2>1 DEF IInv, SinkInv, FileInv, Chained, LinksUp, ExpectedPrev
<1>. QED  BY <1>1, InductiveInvariant, PTL

\* A file in which every line can be read passes Verify from the first entry on.
THEOREM VerifyRaisesNoFalseAlarm == Spec => []NoFalseAlarm
<1>1. IInv => NoFalseAlarm
  <2>. SUFFICES ASSUME IInv, \A i \in DOMAIN disk.lines : Readable(disk.lines[i]),
                       NEW from \in 0 .. MaxCalls
                PROVE  Verify(disk.lines, from) = -1
    BY DEF NoFalseAlarm
  <2>1. DOMAIN disk.lines = 1 .. Len(disk.lines) /\ Len(disk.lines) \in Nat
    BY LenProperties DEF IInv, SinkInv, FileInv, LoggedFile
  <2>2. ASSUME NEW i \in 1 .. Len(disk.lines)
        PROVE  LinksUp(disk.lines, i) /\ HashMatches(disk.lines[i][1])
    <3>1. CASE i = 1
      BY <2>1, <3>1 DEF IInv, SinkInv, FileInv, Chained, LinksUp, ExpectedPrev
    <3>2. CASE i # 1
      <4>1. i \in 2 .. Len(disk.lines) /\ i - 1 \in 1 .. Len(disk.lines)
        BY <2>1, <3>2
      <4>. QED  BY <2>1, <3>2, <4>1 DEF IInv, SinkInv, FileInv, Chained, LinksUp, ExpectedPrev
    <3>. QED  BY <3>1, <3>2
  <2>3. Broken(disk.lines, from) = {}
    BY <2>1, <2>2 DEF Broken, StopsAt
  <2>. QED  BY <2>3 DEF Verify
<1>. QED  BY <1>1, InductiveInvariant, PTL

\* When Verify(0) reports an intact chain, every entry Log ever acknowledged is
\* in the file: a lost entry is never lost in silence.
THEOREM IntactMeansComplete == Spec => []NoSilentLoss
<1>1. IInv => NoSilentLoss
  <2>. SUFFICES ASSUME IInv, Verify(disk.lines, 0) = -1, NEW a \in acked
                PROVE  <<a.entry>> \in Range(disk.lines)
    BY DEF NoSilentLoss
  <2>1. DOMAIN disk.lines = 1 .. Len(disk.lines) /\ Len(disk.lines) \in Nat
    BY LenProperties DEF IInv, SinkInv, FileInv, LoggedFile
  <2>2. a.line \in 1 .. Len(disk.lines) /\ disk.lines[a.line] \in {<<a.entry>>, Corrupt}
    BY <2>1 DEF IInv, SinkInv, FileInv
  <2>3. \A i \in 1 .. Len(disk.lines) : Readable(disk.lines[i])
    <3>1. CASE Broken(disk.lines, 0) = {}
      BY <2>1, <3>1 DEF Broken, StopsAt
    <3>2. CASE Broken(disk.lines, 0) # {}
      \* The verdict would be a sequence number.
      <4>. DEFINE i == Min(Broken(disk.lines, 0))
      <4>1. Broken(disk.lines, 0) \in SUBSET Nat
        BY <2>1 DEF Broken
      <4>2. i \in Broken(disk.lines, 0) /\ \A j \in Broken(disk.lines, 0) : i <= j
        BY <3>2, <4>1, MinExists
      <4>3. Verify(disk.lines, 0) = IF Readable(disk.lines[i]) THEN disk.lines[i][1].seq
                                    ELSE LastSeq(disk.lines, i) + 1
        BY <3>2 DEF Verify
      <4>. HIDE DEF i
      <4>4. i \in 1 .. Len(disk.lines)
        BY <2>1, <4>2 DEF Broken
      <4>5. \A j \in 1 .. Len(disk.lines) :
              Readable(disk.lines[j]) => disk.lines[j][1].seq \in Nat
        BY DEF IInv, SinkInv, FileInv, LoggedFile, LoggedLine, Logged
      <4>6. i > 1 => Readable(disk.lines[i - 1])
        <5>1. i > 1 => i - 1 \in 1 .. Len(disk.lines) /\ ~(i <= i - 1)
          BY <2>1, <4>4
        <5>. QED  BY <2>1, <4>2, <5>1 DEF Broken, StopsAt
      <4>7. LastSeq(disk.lines, i) \in Nat
        BY <2>1, <4>4, <4>5, <4>6 DEF LastSeq
      <4>. QED  BY <4>3, <4>4, <4>5, <4>7
    <3>. QED  BY <3>1, <3>2
  <2>4. disk.lines[a.line] = <<a.entry>>
    BY <2>2, <2>3 DEF Readable
  <2>. QED  BY <2>1, <2>2, <2>4 DEF Range
<1>. QED  BY <1>1, InductiveInvariant, PTL

-----------------------------------------------------------------------------
(***************************************************************************)
(* The sink implements AuditTrail: what a write or a crash does to the     *)
(* lines of the file is nothing or a step of the trail.                    *)
(***************************************************************************)
LEMMA SamePrefix ==
  ASSUME NEW S, NEW s \in Seq(S), NEW t \in Seq(S), NEW n \in 0 .. Len(s),
         n <= Len(t), \A i \in 1 .. n : t[i] = s[i]
  PROVE  SubSeq(t, 1, n) = SubSeq(s, 1, n)
<1>1. Len(s) \in Nat /\ Len(t) \in Nat
  BY LenProperties
<1>2. \A i \in 1 .. n : s[i] \in S /\ t[i] \in S
  BY <1>1, ElementOfSeq
<1>3. /\ SubSeq(s, 1, n) \in Seq(S) /\ Len(SubSeq(s, 1, n)) = IF 1 <= n THEN n - 1 + 1 ELSE 0
      /\ \A i \in 1 .. n - 1 + 1 : SubSeq(s, 1, n)[i] = s[1 + i - 1]
  BY <1>2, SubSeqProperties, 1 \in Int, n \in Int
<1>4. /\ SubSeq(t, 1, n) \in Seq(S) /\ Len(SubSeq(t, 1, n)) = IF 1 <= n THEN n - 1 + 1 ELSE 0
      /\ \A i \in 1 .. n - 1 + 1 : SubSeq(t, 1, n)[i] = t[1 + i - 1]
  BY <1>2, SubSeqProperties, 1 \in Int, n \in Int
<1>. DEFINE x == SubSeq(s, 1, n)    y == SubSeq(t, 1, n)
<1>. HIDE DEF x, y
<1>5. x \in Seq(S) /\ y \in Seq(S) /\ Len(y) = Len(x) /\ \A i \in 1 .. Len(y) : y[i] = x[i]
  BY <1>1, <1>3, <1>4 DEF x, y
<1>6. y = x
  BY <1>5, SeqEqual
<1>. QED  BY <1>6 DEF x, y

\* The steps of the trail, of the lines ls that become t when st are stable.
Grown(ls, t) ==
  /\ Len(t) = Len(ls) + 1
  /\ SubSeq(t, 1, Len(ls)) = ls
  /\ Readable(t[Len(t)]) => HashMatches(t[Len(t)][1]) /\ Continues(ls, t[Len(t)][1].seq - 1, t[Len(t)][1].prev)

Spoilt(ls, t, st) == st < Len(ls) /\ t = [ls EXCEPT ![Len(ls)] = Corrupt]

CutTo(ls, t, st) ==
  \E n \in st .. Len(ls) :
    \/ t = SubSeq(ls, 1, n)
    \/ n < Len(ls) /\ t = Append(SubSeq(ls, 1, n), Corrupt)

TrailStep(ls, t, st) == t = ls \/ Grown(ls, t) \/ Spoilt(ls, t, st) \/ CutTo(ls, t, st)

LEMMA AppendGrown ==
  ASSUME NEW ls, ls \in Seq(Range(ls)), NEW line,
         Readable(line) => HashMatches(line[1]) /\ Continues(ls, line[1].seq - 1, line[1].prev)
  PROVE  Grown(ls, Append(ls, line))
<1>. DEFINE t == Append(ls, line)    S == Range(ls) \cup {line}
<1>1. ls \in Seq(S) /\ line \in S
  BY SeqMonotonic
<1>2. /\ t \in Seq(S) /\ Len(t) = Len(ls) + 1
      /\ \A i \in 1 .. Len(ls) : t[i] = ls[i]
      /\ t[Len(ls) + 1] = line
  <2>. HIDE DEF S
  <2>. QED  BY <1>1, AppendProperties
<1>. HIDE DEF t
<1>3. SubSeq(t, 1, Len(ls)) = SubSeq(ls, 1, Len(ls))
  <2>. HIDE DEF S
  <2>1. Len(ls) \in Nat
    BY <1>1, LenProperties
  <2>. QED  BY <1>1, <1>2, <2>1, SamePrefix
<1>4. SubSeq(ls, 1, Len(ls)) = ls
  BY SubSeqFull
<1>5. Grown(ls, t)
  BY <1>2, <1>3, <1>4 DEF Grown
<1>. QED  BY <1>5 DEF t

\* A line is put behind the file or spoils its unfinished last line.
LEMMA PutIsTrailStep ==
  ASSUME NEW made, NEW d, NEW st, NEW acks, FileInv(d, st, acks, made), NEW line,
         Readable(line) => HashMatches(line[1]) /\ Continues(d.lines, line[1].seq - 1, line[1].prev)
  PROVE  LET t == Put(d, line)
         IN  /\ d.nl => t = Append(d.lines, line) /\ Grown(d.lines, t)
             /\ ~d.nl => Spoilt(d.lines, t, st)
<1>1. d.lines \in Seq(Range(d.lines)) /\ Len(d.lines) \in Nat
  BY LenProperties DEF FileInv, LoggedFile
<1>2. CASE d.nl
  <2>1. Put(d, line) = Append(d.lines, line)
    BY <1>2 DEF Put
  <2>. QED  BY <1>1, <1>2, <2>1, AppendGrown
<1>3. CASE ~d.nl
  BY <1>1, <1>3 DEF FileInv, Put, Spoilt
<1>. QED  BY <1>2, <1>3

LEMMA WriteIsTrailStep ==
  ASSUME IInv, Writing, NEW part \in Parts
  PROVE  LET t == Landed(disk, entry[1], part).lines
         IN  t = disk.lines \/ Grown(disk.lines, t) \/ Spoilt(disk.lines, t, stable)
<1>1. FileInv(disk, stable, acked, calls)
  BY DEF IInv, SinkInv
<1>2. HashMatches(entry[1]) /\ Continues(disk.lines, entry[1].seq - 1, entry[1].prev)
  BY DEF IInv, SinkInv, HeadInv, Writing
<1>3. disk.nl \in BOOLEAN
  BY DEF IInv, SinkInv, FileInv
<1>4. ASSUME NEW line \in {<<entry[1]>>, Corrupt}
      PROVE  Grown(disk.lines, Put(disk, line)) \/ Spoilt(disk.lines, Put(disk, line), stable)
  <2>1. Readable(line) => line[1] = entry[1]
    BY <1>4 DEF Readable
  <2>. QED  BY <1>1, <1>2, <1>3, <2>1, PutIsTrailStep
<1>. QED  BY <1>4 DEF Landed, Parts

\* What survives of a file is the file cut.
LEMMA SurvivorIsCut ==
  ASSUME NEW d, NEW st \in Nat, NEW x \in Survivors(d, st), Len(d.lines) \in Nat
  PROVE  CutTo(d.lines, x.lines, st)
<1>1. CASE x \in {[lines |-> SubSeq(d.lines, 1, n), nl |-> n < Len(d.lines) \/ d.nl] : n \in st .. Len(d.lines)}
  BY <1>1 DEF CutTo
<1>2. CASE x \in {[lines |-> Append(SubSeq(d.lines, 1, n), Corrupt), nl |-> FALSE] : n \in st .. Len(d.lines) - 1}
  <2>1. PICK n \in st .. Len(d.lines) - 1 : x.lines = Append(SubSeq(d.lines, 1, n), Corrupt)
    BY <1>2
  <2>2. n \in st .. Len(d.lines) /\ n < Len(d.lines)
    OBVIOUS
  <2>. QED  BY <2>1, <2>2 DEF CutTo
<1>3. CASE x \in {[lines |-> SubSeq(d.lines, 1, n), nl |-> FALSE] : n \in st + 1 .. Len(d.lines)}
  BY <1>3 DEF CutTo
<1>. QED  BY <1>1, <1>2, <1>3 DEF Survivors

\* A cut of what a write left is a step of the trail too.
LEMMA CutAfterWrite ==
  ASSUME NEW ls, ls \in Seq(Range(ls)), NEW t, t \in Seq(Range(t)), NEW st \in 0 .. Len(ls),
         t = ls \/ Grown(ls, t) \/ Spoilt(ls, t, st),
         NEW u, CutTo(t, u, st)
  PROVE  TrailStep(ls, u, st)
<1>. DEFINE S == Range(ls) \cup Range(t)
<1>1. ls \in Seq(S) /\ t \in Seq(S) /\ Len(ls) \in Nat /\ Len(t) \in Nat
  BY SeqMonotonic, LenProperties
<1>. HIDE DEF S
<1>2. PICK n \in st .. Len(t) :
             u = SubSeq(t, 1, n) \/ (n < Len(t) /\ u = Append(SubSeq(t, 1, n), Corrupt))
  BY DEF CutTo
<1>3. n \in Nat
  BY <1>1
<1>4. ASSUME n <= Len(ls), \A i \in 1 .. n : t[i] = ls[i]
      PROVE  SubSeq(t, 1, n) = SubSeq(ls, 1, n)
  BY <1>1, <1>3, <1>4, SamePrefix
<1>5. SubSeq(t, 1, Len(t)) = t
  BY <1>1, SubSeqFull
<1>6. CASE t = ls
  BY <1>6 DEF TrailStep
<1>7. CASE Grown(ls, t)
  <2>1. Len(t) = Len(ls) + 1 /\ SubSeq(t, 1, Len(ls)) = ls
    BY <1>7 DEF Grown
  <2>2. \A i \in 1 .. Len(ls) : t[i] = ls[i]
    <3>1. \A i \in 1 .. Len(ls) : SubSeq(t, 1, Len(ls))[i] = t[i]
      BY <1>1, <2>1, CutAt
    <3>. QED  BY <2>1, <3>1
  <2>3. CASE n = Len(t)
    BY <1>2, <1>5, <1>7, <2>3 DEF TrailStep
  <2>4. CASE n < Len(ls)
    <3>1. SubSeq(t, 1, n) = SubSeq(ls, 1, n)
      BY <1>1, <1>3, <1>4, <2>2, <2>4
    <3>2. n \in st .. Len(ls)
      BY <1>1, <1>3, <2>4
    <3>3. CutTo(ls, u, st)
      BY <1>2, <2>4, <3>1, <3>2 DEF CutTo
    <3>. QED  BY <3>3 DEF TrailStep
  <2>5. CASE n = Len(ls)
    <3>1. CASE u = SubSeq(t, 1, n)
      BY <2>1, <2>5, <3>1 DEF TrailStep
    <3>2. CASE u = Append(SubSeq(t, 1, n), Corrupt)
      <4>1. u = Append(ls, Corrupt)
        BY <2>1, <2>5, <3>2
      <4>. QED  BY <4>1, AppendGrown, CorruptLine DEF TrailStep
    <3>. QED  BY <1>2, <3>1, <3>2
  <2>6. n = Len(t) \/ n < Len(ls) \/ n = Len(ls)
    <3>1. n <= Len(t) /\ Len(t) = Len(ls) + 1
      BY <1>1, <2>1
    <3>. QED  BY <1>1, <1>3, <3>1
  <2>. QED  BY <2>3, <2>4, <2>5, <2>6
<1>8. CASE Spoilt(ls, t, st)
  <2>1. Len(t) = Len(ls) /\ \A i \in 1 .. Len(ls) - 1 : t[i] = ls[i]
    BY <1>1, <1>8, Overwritten DEF Spoilt
  <2>2. CASE n = Len(t)
    BY <1>2, <1>5, <1>8, <2>2 DEF TrailStep
  <2>3. CASE n < Len(ls)
    <3>1. SubSeq(t, 1, n) = SubSeq(ls, 1, n)
      BY <1>1, <1>3, <1>4, <2>1, <2>3
    <3>2. n \in st .. Len(ls)
      BY <1>1, <1>3, <2>3
    <3>3. CutTo(ls, u, st)
      BY <1>2, <2>3, <3>1, <3>2 DEF CutTo
    <3>. QED  BY <3>3 DEF TrailStep
  <2>4. n = Len(t) \/ n < Len(ls)
    BY <1>1, <1>3, <2>1
  <2>. QED  BY <2>2, <2>3, <2>4
<1>. QED  BY <1>6, <1>7, <1>8

\* Every step is one of the trail or makes the whole file stable.
LEMMA StepOfTrail ==
  ASSUME IInv, [Next]_vars
  PROVE  \/ TrailStep(disk.lines, disk'.lines, stable) /\ stable' = stable
         \/ UNCHANGED disk /\ stable' = Len(disk.lines)
<1>. DEFINE ls == disk.lines    Ends(t) == TrailStep(ls, t, stable)
<1>1. FileInv(disk, stable, acked, calls) /\ ls \in Seq(Range(ls)) /\ Len(ls) \in Nat /\ stable \in 0 .. Len(ls)
  BY LenProperties DEF IInv, SinkInv, FileInv, LoggedFile
<1>2. ASSUME UNCHANGED disk PROVE Ends(disk'.lines)
  BY <1>2 DEF TrailStep
<1>3. ASSUME Writing, NEW part \in Parts, disk' = Landed(disk, entry[1], part) PROVE Ends(disk'.lines)
  BY <1>3, WriteIsTrailStep DEF TrailStep
<1>4. CASE Flush
  BY <1>3, <1>4 DEF Flush, Parts
<1>5. CASE FlushFails
  <2>1. mode # "down"
    BY <1>5 DEF FlushFails, IInv, SinkInv, SinkType
  <2>2. CASE mode = "closed"
    BY <1>2, <1>5, <2>2 DEF FlushFails, Landed
  <2>3. CASE mode = "open"
    BY <1>3, <1>5, <2>3 DEF FlushFails, Writing
  <2>. QED  BY <1>5, <2>1, <2>2, <2>3 DEF FlushFails, IInv, SinkInv, SinkType
<1>6. CASE ProcessDies
  BY <1>2, <1>3, <1>6 DEF ProcessDies, Die
<1>7. CASE PowerLoss
  <2>1. stable' = stable
    BY <1>7 DEF PowerLoss, Die
  <2>. DEFINE d == IF Writing THEN Landed(disk, entry[1], "line") ELSE disk    t == d.lines
  <2>2. disk' \in Survivors(d, stable)
    BY <1>7 DEF PowerLoss
  <2>3. FileInv(d, stable, acked, calls)
    BY <1>1, FlightKeeps DEF Parts, Writing, IInv
  <2>4. t = ls \/ Grown(ls, t) \/ Spoilt(ls, t, stable)
    <3>1. CASE Writing
      BY <3>1, WriteIsTrailStep DEF Parts
    <3>2. CASE ~Writing
      BY <3>2
    <3>. QED  BY <3>1, <3>2
  <2>. HIDE DEF d
  <2>5. t \in Seq(Range(t)) /\ Len(t) \in Nat
    BY <2>3, LenProperties DEF FileInv, LoggedFile
  <2>6. stable \in Nat
    BY <1>1
  <2>7. CutTo(t, disk'.lines, stable)
    BY <2>2, <2>5, <2>6, SurvivorIsCut
  <2>. HIDE DEF t, ls
  <2>8. TrailStep(ls, disk'.lines, stable)
    BY <1>1, <2>4, <2>5, <2>7, CutAfterWrite
  <2>. QED  BY <2>1, <2>8 DEF ls
<1>8. CASE LogBuffer \/ LogRejected \/ SyncFails \/ Close \/ Restart \/ UNCHANGED vars
  BY <1>2, <1>8 DEF LogBuffer, LogRejected, SyncFails, Close, Restart, vars
<1>9. CASE Sync
  BY <1>9 DEF Sync
<1>. QED  BY <1>4, <1>5, <1>6, <1>7, <1>8, <1>9 DEF Next, Flush, FlushFails, ProcessDies, Die

-----------------------------------------------------------------------------
(***************************************************************************)
(* Acknowledged entries that are lost.  Log acknowledges an entry it has   *)
(* appended to the torn tail of a crash; only the first call after a       *)
(* restart meets one.                                                      *)
(***************************************************************************)
Lost == {a \in acked : disk.lines[a.line] # <<a.entry>>}

\* The entry in flight, or the next one, will be acknowledged on a line that
\* cannot be read.
AtRisk ==
  \/ mode = "open" /\ ~failed /\ ~disk.nl /\ pc # "flushed"
  \/ pc = "flushed" /\ disk.lines[Len(disk.lines)] = Corrupt

LossBudget == IsFiniteSet(Lost) /\ Cardinality(Lost) + (IF AtRisk THEN 1 ELSE 0) <= restarts

\* No step of the trail touches a line that is stable.
LEMMA StableLinesKept ==
  ASSUME NEW ls, ls \in Seq(Range(ls)), NEW t, t \in Seq(Range(t)), NEW st \in 0 .. Len(ls),
         TrailStep(ls, t, st)
  PROVE  \A i \in 1 .. st : t[i] = ls[i]
<1>1. Len(ls) \in Nat /\ Len(t) \in Nat
  BY LenProperties
<1>2. CASE t = ls
  BY <1>2
<1>3. CASE Grown(ls, t)
  <2>1. Len(t) = Len(ls) + 1 /\ SubSeq(t, 1, Len(ls)) = ls
    BY <1>3 DEF Grown
  <2>2. \A i \in 1 .. Len(ls) : SubSeq(t, 1, Len(ls))[i] = t[i]
    BY <1>1, <2>1, CutAt
  <2>. QED  BY <1>1, <2>1, <2>2
<1>4. CASE Spoilt(ls, t, st)
  <2>1. st < Len(ls) /\ \A i \in 1 .. Len(ls) - 1 : t[i] = ls[i]
    BY <1>1, <1>4, Overwritten DEF Spoilt
  <2>. QED  BY <1>1, <2>1
<1>5. CASE CutTo(ls, t, st)
  <2>1. PICK n \in st .. Len(ls) :
               t = SubSeq(ls, 1, n) \/ (n < Len(ls) /\ t = Append(SubSeq(ls, 1, n), Corrupt))
    BY <1>5 DEF CutTo
  <2>. DEFINE c == SubSeq(ls, 1, n)
  <2>2. /\ n \in Nat /\ c \in Seq(Range(c)) /\ Len(c) = n
        /\ \A i \in 1 .. n : c[i] = ls[i]
    BY <1>1, CutAt
  <2>. HIDE DEF c
  <2>3. \A i \in 1 .. n : Append(c, Corrupt)[i] = c[i]
    BY <2>2, Appended
  <2>4. \A i \in 1 .. n : t[i] = ls[i]
    BY <2>1, <2>2, <2>3 DEF c
  <2>. QED  BY <2>2, <2>4
<1>. QED  BY <1>2, <1>3, <1>4, <1>5 DEF TrailStep

\* Nothing is lost but by the call that acknowledges it.
LEMMA LostKept ==
  ASSUME IInv, IInv', [Next]_vars, UNCHANGED <<acked, stable>>
  PROVE  Lost' = Lost
<1>1. /\ disk.lines \in Seq(Range(disk.lines)) /\ disk'.lines \in Seq(Range(disk'.lines))
      /\ stable \in 0 .. Len(disk.lines)
      /\ \A a \in acked : a.line \in 1 .. stable
  BY DEF IInv, SinkInv, FileInv, LoggedFile
<1>2. TrailStep(disk.lines, disk'.lines, stable)
  BY StepOfTrail DEF TrailStep
<1>3. \A i \in 1 .. stable : disk'.lines[i] = disk.lines[i]
  BY <1>1, <1>2, StableLinesKept
<1>. QED  BY <1>1, <1>3 DEF Lost

LEMMA SyncLoses ==
  ASSUME IInv, LossBudget, Sync
  PROVE  LossBudget'
<1>. DEFINE a == [line |-> Len(disk.lines), entry |-> entry[1]]
<1>1. /\ pc = "flushed" /\ mode = "open" /\ disk.nl
      /\ disk.lines[Len(disk.lines)] \in {<<entry[1]>>, Corrupt}
  BY DEF Sync, IInv, SinkInv, HeadInv
<1>2. UNCHANGED <<disk, restarts>> /\ acked' = acked \cup {a} /\ ~AtRisk'
  BY <1>1 DEF Sync, AtRisk
<1>3. IsFiniteSet(Lost) /\ Cardinality(Lost) \in Nat /\ restarts \in Nat
  BY FS_CardinalityType, BoundsAssumption DEF LossBudget, IInv, SinkInv, SinkType
<1>4. Lost' = IF disk.lines[a.line] = <<a.entry>> THEN Lost ELSE Lost \cup {a}
  BY <1>2 DEF Lost
<1>. HIDE DEF a
<1>5. CASE disk.lines[a.line] = <<a.entry>>
  BY <1>2, <1>3, <1>4, <1>5 DEF LossBudget
<1>6. CASE disk.lines[a.line] # <<a.entry>>
  <2>1. AtRisk
    BY <1>1, <1>6 DEF AtRisk, a
  <2>2. IsFiniteSet(Lost \cup {a}) /\ Cardinality(Lost \cup {a}) \in Nat
        /\ Cardinality(Lost \cup {a}) <= Cardinality(Lost) + 1
    BY <1>3, FS_AddElement, FS_CardinalityType
  <2>3. Cardinality(Lost) + 1 <= restarts
    BY <2>1 DEF LossBudget
  <2>. QED  BY <1>2, <1>3, <1>4, <1>6, <2>2, <2>3 DEF LossBudget
<1>. QED  BY <1>5, <1>6

\* Only a restart puts an entry at risk: the torn tail is there before.
LEMMA RiskByRestart ==
  ASSUME IInv, [Next]_vars, ~Sync, AtRisk'
  PROVE  AtRisk \/ Restart
<1>1. HeadInv(disk, mode, pc, entry, seq, previousHash, failed)
  BY DEF IInv, SinkInv
<1>2. CASE Flush
  <2>1. disk' = [lines |-> Put(disk, <<entry[1]>>), nl |-> TRUE]
    BY <1>2 DEF Flush, Landed
  <2>0. pc = "buffered" /\ pc' = "flushed" /\ mode = "open" /\ ~failed
    BY <1>1, <1>2 DEF Flush, Writing, HeadInv
  <2>2. disk'.lines[Len(disk'.lines)] = Corrupt
    BY <2>0, <2>1 DEF AtRisk
  <2>3. ~disk.nl
    <3>. DEFINE s == disk.lines    l == <<entry[1]>>
    <3>. SUFFICES ASSUME disk.nl PROVE FALSE
      OBVIOUS
    <3>1. disk'.lines = Append(s, l) /\ s \in Seq(Range(s)) /\ l # Corrupt
      BY <2>1 DEF Put, IInv, SinkInv, FileInv, LoggedFile, Corrupt
    <3>. HIDE DEF s, l
    <3>2. Append(s, l)[Len(Append(s, l))] = l
      BY <3>1, Appended
    <3>. QED  BY <2>2, <3>1, <3>2
  <2>. QED  BY <2>0, <2>3 DEF AtRisk
<1>3. CASE LogBuffer
  BY <1>3 DEF LogBuffer, AtRisk
<1>4. CASE LogRejected \/ FlushFails \/ Close \/ ProcessDies \/ PowerLoss
  BY <1>4 DEF LogRejected, FlushFails, Close, ProcessDies, PowerLoss, Die, AtRisk
<1>5. CASE SyncFails
  BY <1>1, <1>5 DEF SyncFails, HeadInv, AtRisk
<1>6. CASE UNCHANGED vars
  BY <1>6 DEF vars, sinkVars, AtRisk
<1>. QED  BY <1>2, <1>3, <1>4, <1>5, <1>6 DEF Next

LEMMA LossBudgetKept == IInv /\ IInv' /\ LossBudget /\ [Next]_vars => LossBudget'
<1>. SUFFICES ASSUME IInv, IInv', LossBudget, [Next]_vars PROVE LossBudget'
  OBVIOUS
<1>1. CASE Sync
  BY <1>1, SyncLoses
<1>2. CASE ~Sync
  <2>1. UNCHANGED <<acked, stable>>
    BY <1>2 DEF Next, LogBuffer, LogRejected, Flush, FlushFails, SyncFails, Close, ProcessDies, PowerLoss,
                Die, Restart, vars
  <2>2. Lost' = Lost
    BY <2>1, LostKept
  <2>3. IsFiniteSet(Lost) /\ Cardinality(Lost) \in Nat /\ restarts \in Nat
    BY FS_CardinalityType, BoundsAssumption DEF LossBudget, IInv, SinkInv, SinkType
  <2>4. CASE Restart
    <3>1. restarts' = restarts + 1 /\ Cardinality(Lost) <= restarts
      BY <2>3, <2>4 DEF Restart, LossBudget
    <3>. QED  BY <2>2, <2>3, <3>1 DEF LossBudget
  <2>5. CASE ~Restart
    <3>1. restarts' = restarts
      BY <1>2, <2>5 DEF Next, LogBuffer, LogRejected, Flush, FlushFails, SyncFails, Close, ProcessDies, PowerLoss,
                  Die, vars
    <3>2. AtRisk' => AtRisk
      BY <1>2, <2>5, RiskByRestart
    <3>. QED  BY <2>2, <2>3, <3>1, <3>2 DEF LossBudget
  <2>. QED  BY <2>4, <2>5
<1>. QED  BY <1>1, <1>2

LEMMA LossBudgetInvariant == Spec => []LossBudget
<1>1. Init => LossBudget
  <2>. SUFFICES ASSUME Init PROVE LossBudget
    OBVIOUS
  <2>1. Lost = {} /\ ~AtRisk /\ restarts = 0
    BY DEF Init, Lost, AtRisk
  <2>. QED  BY <2>1, FS_EmptySet DEF LossBudget
<1>. QED  BY <1>1, LossBudgetKept, InductiveInvariant, PTL DEF Spec

-----------------------------------------------------------------------------
\* No more acknowledged entries become unreadable than there were restarts: the one
\* a restarted process appends to the tail its crash left torn (hashchain.go:84-97
\* with 45-58).
THEOREM AtMostOneLossPerRestart == Spec => []OneLossPerRestart
<1>1. IInv /\ LossBudget => OneLossPerRestart
  <2>. SUFFICES ASSUME IInv, LossBudget PROVE OneLossPerRestart
    OBVIOUS
  <2>1. Unreadable \subseteq Lost
    <3>1. ASSUME NEW a \in acked, disk.lines[a.line] = <<a.entry>> PROVE <<a.entry>> \in Range(disk.lines)
      <4>1. a.line \in DOMAIN disk.lines
        BY LenProperties DEF IInv, SinkInv, FileInv, LoggedFile
      <4>. QED  BY <3>1, <4>1 DEF Range
    <3>. QED  BY <3>1 DEF Unreadable, Lost
  <2>2. /\ IsFiniteSet(Unreadable) /\ Cardinality(Unreadable) <= Cardinality(Lost)
        /\ Cardinality(Unreadable) \in Nat /\ Cardinality(Lost) \in Nat
    BY <2>1, FS_Subset, FS_CardinalityType DEF LossBudget
  <2>3. restarts \in Nat
    BY BoundsAssumption DEF IInv, SinkInv, SinkType
  <2>. QED  BY <2>2, <2>3 DEF LossBudget, OneLossPerRestart
<1>. QED  BY <1>1, InductiveInvariant, LossBudgetInvariant, PTL

\* The sink with its crashes, failed writes and restarts implements the audit trail:
\* lines are appended, spoiled or cut behind what is stable, and an entry that
\* follows a readable one links to it (AuditTrail).
THEOREM ImplementsTheTrail == Spec => KeepsTrail
<1>. USE DEF Trail!Readable, Readable, Trail!Corrupt, Corrupt
<1>1. Init => Trail!Init
  BY DEF Init, Trail!Init
<1>2. IInv /\ [Next]_vars => [Trail!Next]_(Trail!vars)
  <2>. SUFFICES ASSUME IInv, [Next]_vars PROVE [Trail!Next]_(Trail!vars)
    OBVIOUS
  <2>1. \A i \in 1 .. Len(disk.lines) : Readable(disk.lines[i]) => disk.lines[i][1].seq \in Nat
    BY DEF IInv, SinkInv, FileInv, LoggedFile, LoggedLine, Logged
  <2>2. IInv' => \A i \in 1 .. Len(disk'.lines) : Readable(disk'.lines[i]) => disk'.lines[i][1].seq \in Nat
    BY DEF IInv, SinkInv, FileInv, LoggedFile, LoggedLine, Logged
  <2>3. CASE UNCHANGED disk /\ stable' = Len(disk.lines)
    BY <2>3 DEF Trail!Next, Trail!Settle
  <2>4. CASE disk'.lines = disk.lines /\ stable' = stable
    BY <2>4 DEF Trail!vars
  <2>5. CASE Spoilt(disk.lines, disk'.lines, stable) /\ stable' = stable
    BY <2>5 DEF Spoilt, Trail!Next, Trail!Spoil
  <2>6. CASE CutTo(disk.lines, disk'.lines, stable) /\ stable' = stable
    BY <2>6 DEF CutTo, Trail!Next, Trail!Cut
  <2>7. CASE Grown(disk.lines, disk'.lines) /\ stable' = stable
    <3>. DEFINE ls == disk.lines    e == disk'.lines[Len(disk'.lines)][1]
    <3>1. ASSUME Readable(disk'.lines[Len(disk'.lines)]) PROVE Trail!Follows(ls, e)
      <4>1. HashMatches(e) /\ Continues(ls, e.seq - 1, e.prev)
        BY <2>7, <3>1 DEF Grown
      <4>2. Len(ls) \in Nat /\ (ls # <<>> => Len(ls) \in 1 .. Len(ls)) /\ Len(disk'.lines) \in 1 .. Len(disk'.lines)
        BY <2>7, LenProperties, EmptySeq DEF IInv, SinkInv, FileInv, LoggedFile, Grown
      <4>3. e.seq \in Nat
        BY <2>2, <3>1, <4>2, NextIInv
      <4>4. ls # <<>> /\ Readable(ls[Len(ls)]) => ls[Len(ls)][1].seq \in Nat
        BY <2>1, <4>2
      <4>. HIDE DEF e, ls
      <4>5. Trail!HashMatches(e)
        BY <4>1 DEF HashMatches, Trail!HashMatches, Digest, Trail!Digest
      <4>. QED  BY <4>1, <4>3, <4>4, <4>5 DEF Continues, Trail!Follows, Genesis, Trail!Genesis
    <3>. QED  BY <2>7, <3>1 DEF Grown, Trail!Next, Trail!Extend
  <2>. QED  BY <2>3, <2>4, <2>5, <2>6, <2>7, StepOfTrail DEF TrailStep
<1>. QED  BY <1>1, <1>2, InductiveInvariant, PTL DEF Spec, KeepsTrail, Trail!Spec

-----------------------------------------------------------------------------
(***************************************************************************)
(* The order of the sequence numbers.  What a step leaves of a file stems  *)
(* from its lines; a write may put the entry in flight behind them.        *)
(***************************************************************************)
Stems(ls, t) ==
  \A i \in 1 .. Len(t) : Readable(t[i]) => i \in 1 .. Len(ls) /\ t[i] = ls[i]

StemsOrEnds(ls, e, t) ==
  \A i \in 1 .. Len(t) : Readable(t[i]) => \/ i \in 1 .. Len(ls) /\ t[i] = ls[i]
                                           \/ i = Len(ls) + 1 /\ t[i] = <<e>>

Rising(ls) ==
  \A i, j \in 1 .. Len(ls) :
    i < j /\ Readable(ls[i]) /\ Readable(ls[j]) => ls[i][1].seq < ls[j][1].seq

Below(ls, n) == \A i \in 1 .. Len(ls) : Readable(ls[i]) => ls[i][1].seq <= n

\* The head is never behind a number in the file, and the entry in flight is
\* ahead of them all.
SeqInv ==
  /\ Rising(disk.lines)
  /\ mode # "down" /\ pc # "buffered" => Below(disk.lines, seq)
  /\ pc = "buffered" => Below(disk.lines, entry[1].seq - 1)

LEMMA LandedAdds ==
  ASSUME NEW made, NEW d, NEW st, NEW acks, FileInv(d, st, acks, made), NEW e, NEW part \in Parts
  PROVE  StemsOrEnds(d.lines, e, Landed(d, e, part).lines)
<1>. DEFINE ls == d.lines
<1>1. /\ ls \in Seq(Range(ls)) /\ Len(ls) \in Nat /\ d.nl \in BOOLEAN
      /\ ~d.nl => Len(ls) > 0
  <2>1. ls \in Seq(Range(ls)) /\ d.nl \in BOOLEAN /\ st \in 0 .. Len(ls) /\ (~d.nl => st < Len(ls))
    BY DEF FileInv, LoggedFile
  <2>2. Len(ls) \in Nat
    BY <2>1, LenProperties
  <2>. HIDE DEF ls
  <2>. QED  BY <2>1, <2>2
<1>2. ASSUME NEW line, Readable(line) => line = <<e>>
      PROVE  StemsOrEnds(ls, e, Put(d, line))
  <2>1. CASE d.nl
    <3>. DEFINE t == Append(ls, line)
    <3>1. /\ Len(t) = Len(ls) + 1 /\ \A i \in 1 .. Len(ls) : t[i] = ls[i]
          /\ t[Len(ls) + 1] = line
      BY <1>1, Appended
    <3>2. Put(d, line) = t
      BY <2>1 DEF Put
    <3>. HIDE DEF t, ls
    <3>3. \A i \in 1 .. Len(t) : i \in 1 .. Len(ls) \/ i = Len(ls) + 1
      BY <1>1, <3>1
    <3>. QED  BY <1>2, <3>1, <3>2, <3>3 DEF StemsOrEnds
  <2>2. CASE ~d.nl
    <3>. DEFINE t == [ls EXCEPT ![Len(ls)] = Corrupt]
    <3>1. /\ Len(t) = Len(ls) /\ \A i \in 1 .. Len(ls) - 1 : t[i] = ls[i]
          /\ t[Len(ls)] = Corrupt
      BY <1>1, <2>2, Overwritten
    <3>2. Put(d, line) = t
      BY <2>2 DEF Put
    <3>. HIDE DEF t, ls
    <3>3. \A i \in 1 .. Len(t) : i \in 1 .. Len(ls) /\ (i \in 1 .. Len(ls) - 1 \/ i = Len(ls))
      BY <1>1, <3>1
    <3>. QED  BY <3>1, <3>2, <3>3, CorruptLine DEF StemsOrEnds
  <2>. QED  BY <1>1, <2>1, <2>2
<1>3. StemsOrEnds(ls, e, ls)
  BY DEF StemsOrEnds
<1>. QED  BY <1>2, <1>3, CorruptLine DEF Landed, Parts

LEMMA CutStems ==
  ASSUME NEW ls, ls \in Seq(Range(ls)), NEW st \in Nat, NEW u, CutTo(ls, u, st)
  PROVE  Stems(ls, u)
<1>1. PICK n \in st .. Len(ls) :
             u = SubSeq(ls, 1, n) \/ (n < Len(ls) /\ u = Append(SubSeq(ls, 1, n), Corrupt))
  BY DEF CutTo
<1>. DEFINE c == SubSeq(ls, 1, n)
<1>2. n \in 0 .. Len(ls) /\ Len(ls) \in Nat /\ n \in Nat
  BY LenProperties
<1>3. c \in Seq(Range(c)) /\ Len(c) = n /\ \A i \in 1 .. n : c[i] = ls[i]
  BY <1>2, CutAt
<1>. HIDE DEF c
<1>4. \A i \in 1 .. n : i \in 1 .. Len(ls)
  BY <1>2
<1>5. CASE u = c
  BY <1>3, <1>4, <1>5 DEF Stems
<1>6. CASE u = Append(c, Corrupt)
  <2>1. /\ Len(u) = n + 1 /\ \A i \in 1 .. n : u[i] = c[i]
        /\ u[n + 1] = Corrupt
    BY <1>3, <1>6, Appended
  <2>2. \A i \in 1 .. Len(u) : i \in 1 .. n \/ i = n + 1
    BY <1>2, <2>1
  <2>. QED  BY <1>3, <1>4, <2>1, <2>2, CorruptLine DEF Stems
<1>. QED  BY <1>1, <1>5, <1>6 DEF c

\* What is in the file after a step, apart from the flush of an entry.
LEMMA StepAdds ==
  ASSUME IInv, [Next]_vars
  PROVE  IF Writing THEN StemsOrEnds(disk.lines, entry[1], disk'.lines)
                    ELSE Stems(disk.lines, disk'.lines)
<1>. DEFINE ls == disk.lines
<1>1. FileInv(disk, stable, acked, calls) /\ ls \in Seq(Range(ls)) /\ Len(ls) \in Nat /\ stable \in Nat
  <2>1. FileInv(disk, stable, acked, calls) /\ ls \in Seq(Range(ls)) /\ stable \in 0 .. Len(ls)
    BY DEF IInv, SinkInv, FileInv, LoggedFile
  <2>2. Len(ls) \in Nat
    BY <2>1, LenProperties
  <2>. QED  BY <2>1, <2>2
<1>2. Stems(ls, ls) /\ StemsOrEnds(ls, entry[1], ls)
  BY DEF Stems, StemsOrEnds
<1>3. ASSUME UNCHANGED disk
      PROVE  IF Writing THEN StemsOrEnds(ls, entry[1], disk'.lines) ELSE Stems(ls, disk'.lines)
  BY <1>2, <1>3
<1>4. ASSUME Writing, NEW part \in Parts, disk' = Landed(disk, entry[1], part)
      PROVE  StemsOrEnds(ls, entry[1], disk'.lines)
  BY <1>1, <1>4, LandedAdds
<1>5. CASE Flush
  BY <1>4, <1>5 DEF Flush, Parts
<1>6. CASE FlushFails
  <2>1. PICK part \in Parts : /\ disk' = Landed(disk, entry[1], part)
                              /\ mode = "closed" => part = "nothing"
    BY <1>6 DEF FlushFails
  <2>2. CASE Writing
    BY <1>4, <2>1, <2>2
  <2>3. CASE ~Writing
    <3>1. mode = "closed"
      BY <1>6, <2>3 DEF FlushFails, Writing, IInv, SinkInv, SinkType
    <3>2. UNCHANGED disk
      BY <2>1, <3>1 DEF Landed
    <3>. QED  BY <1>3, <3>2
  <2>. QED  BY <2>2, <2>3
<1>7. CASE ProcessDies
  <2>1. CASE Writing
    BY <1>4, <1>7, <2>1 DEF ProcessDies
  <2>2. CASE ~Writing
    BY <1>3, <1>7, <2>2 DEF ProcessDies
  <2>. QED  BY <2>1, <2>2
<1>8. CASE PowerLoss
  <2>. DEFINE d == IF Writing THEN Landed(disk, entry[1], "line") ELSE disk    t == d.lines
  <2>1. FileInv(d, stable, acked, calls)
    BY <1>1, FlightKeeps DEF Parts, Writing, IInv
  <2>2. disk' \in Survivors(d, stable)
    BY <1>8 DEF PowerLoss
  <2>3. IF Writing THEN StemsOrEnds(ls, entry[1], t) ELSE t = ls
    BY <1>1, LandedAdds DEF Parts
  <2>. HIDE DEF d
  <2>4. t \in Seq(Range(t)) /\ Len(t) \in Nat
    BY <2>1, LenProperties DEF FileInv, LoggedFile
  <2>5. Stems(t, disk'.lines)
    BY <1>1, <2>2, <2>4, SurvivorIsCut, CutStems
  <2>. HIDE DEF t
  <2>. QED  BY <2>3, <2>5 DEF Stems, StemsOrEnds
<1>9. CASE LogBuffer \/ LogRejected \/ Sync \/ SyncFails \/ Close \/ Restart \/ UNCHANGED vars
  BY <1>3, <1>9 DEF LogBuffer, LogRejected, Sync, SyncFails, Close, Restart, vars
<1>. QED  BY <1>5, <1>6, <1>7, <1>8, <1>9 DEF Next

LEMMA StemsRise ==
  ASSUME NEW ls, Rising(ls), NEW t, Stems(ls, t)
  PROVE  Rising(t) /\ \A n : Below(ls, n) => Below(t, n)
BY DEF Stems, Rising, Below

LEMMA EndsRise ==
  ASSUME NEW made, NEW ls, LoggedFile(ls, made), Rising(ls), NEW e, e.seq \in Nat,
         Below(ls, e.seq - 1), NEW t, StemsOrEnds(ls, e, t)
  PROVE  Rising(t) /\ Below(t, e.seq)
<1>1. Len(ls) \in Nat /\ \A i \in 1 .. Len(ls) : Readable(ls[i]) => ls[i][1].seq \in Nat
  BY LenProperties DEF LoggedFile, LoggedLine, Logged
<1>2. \A i \in 1 .. Len(ls) : Readable(ls[i]) => ls[i][1].seq < e.seq
  BY <1>1 DEF Below
<1>. DEFINE New(i) == i = Len(ls) + 1 /\ t[i][1] = e    Old(i) == i \in 1 .. Len(ls) /\ t[i] = ls[i]
<1>3. \A i \in 1 .. Len(t) : Readable(t[i]) => Old(i) \/ New(i)
  BY DEF StemsOrEnds
<1>4. ASSUME NEW i \in 1 .. Len(t), NEW j \in 1 .. Len(t), i < j, Readable(t[i]), Readable(t[j])
      PROVE  t[i][1].seq < t[j][1].seq
  <2>1. CASE Old(i) /\ Old(j)
    BY <1>4, <2>1 DEF Rising
  <2>2. CASE Old(i) /\ New(j)
    BY <1>2, <1>4, <2>2
  <2>3. ~New(i)
    <3>1. j <= Len(ls) + 1
      BY <1>1, <1>3, <1>4
    <3>. QED  BY <1>1, <1>4, <3>1
  <2>. QED  BY <1>3, <1>4, <2>1, <2>2, <2>3
<1>5. \A i \in 1 .. Len(t) : Readable(t[i]) => t[i][1].seq <= e.seq
  BY <1>1, <1>2, <1>3
<1>. QED  BY <1>4, <1>5 DEF Rising, Below

\* The last number that can be read is the highest.
LEMMA ResumedIsHighest ==
  ASSUME NEW made, NEW ls, LoggedFile(ls, made), Rising(ls)
  PROVE  Below(ls, ResumedSeq(ls))
<1>. DEFINE k == LastReadable(ls)
<1>1. /\ k \in 0 .. Len(ls) /\ Len(ls) \in Nat
      /\ k # 0 => Readable(ls[k])
      /\ \A i \in 1 .. Len(ls) : Readable(ls[i]) => i <= k
  BY LastReadableIs, LenProperties DEF LoggedFile
<1>2. ResumedSeq(ls) = IF k = 0 THEN 0 ELSE ls[k][1].seq
  BY DEF ResumedSeq
<1>3. \A i \in 1 .. Len(ls) : Readable(ls[i]) => ls[i][1].seq \in Nat
  BY DEF LoggedFile, LoggedLine, Logged
<1>. HIDE DEF k
<1>4. ASSUME NEW i \in 1 .. Len(ls), Readable(ls[i]) PROVE ls[i][1].seq <= ResumedSeq(ls)
  <2>1. i <= k /\ k # 0 /\ k \in 1 .. Len(ls)
    BY <1>1, <1>4
  <2>2. CASE i = k
    BY <1>2, <1>3, <1>4, <2>1, <2>2
  <2>3. CASE i < k
    BY <1>1, <1>2, <1>3, <1>4, <2>1, <2>3 DEF Rising
  <2>. QED  BY <1>1, <2>1, <2>2, <2>3
<1>. QED  BY <1>4 DEF Below

LEMMA SeqInvKept == IInv /\ SeqInv /\ [Next]_vars => SeqInv'
<1>. SUFFICES ASSUME IInv, SeqInv, [Next]_vars PROVE SeqInv'
  OBVIOUS
<1>1. /\ LoggedFile(disk.lines, calls) /\ Rising(disk.lines)
      /\ seq \in Nat /\ mode \in {"open", "closed", "down"}
      /\ pc \in {"idle", "buffered", "flushed"}
      /\ pc = "buffered" => mode # "down" /\ entry[1].seq \in Nat /\ seq = entry[1].seq
  BY DEF IInv, SinkInv, FileInv, SinkType, HeadInv, Logged, SeqInv
<1>2. ASSUME Writing
      PROVE  Rising(disk'.lines) /\ Below(disk'.lines, seq)
  <2>1. StemsOrEnds(disk.lines, entry[1], disk'.lines) /\ pc = "buffered"
    BY <1>2, StepAdds DEF Writing
  <2>2. Below(disk.lines, entry[1].seq - 1)
    BY <2>1 DEF SeqInv
  <2>. QED  BY <1>1, <2>1, <2>2, EndsRise
<1>3. ASSUME ~Writing
      PROVE  Rising(disk'.lines) /\ \A n : Below(disk.lines, n) => Below(disk'.lines, n)
  BY <1>1, <1>3, StepAdds, StemsRise
<1>4. Rising(disk'.lines)
  BY <1>2, <1>3
<1>5. ASSUME NEW n \in Nat, Below(disk.lines, n) PROVE Below(disk.lines, n + 1)
  <2>1. \A i \in 1 .. Len(disk.lines) : Readable(disk.lines[i]) => disk.lines[i][1].seq \in Nat
    BY <1>1 DEF LoggedFile, LoggedLine, Logged
  <2>. QED  BY <1>5, <2>1 DEF Below
<1>6. CASE LogBuffer
  <2>1. /\ mode # "down" /\ pc = "idle" /\ pc' = "buffered" /\ disk' = disk
        /\ entry' = <<NextEntry>>
    BY <1>6 DEF LogBuffer
  <2>2. NextEntry.seq - 1 = seq
    BY <1>1 DEF NextEntry, Entry
  <2>. DEFINE e == NextEntry
  <2>3. entry'[1].seq - 1 = seq
    BY <2>1, <2>2
  <2>. QED  BY <1>4, <2>1, <2>3 DEF SeqInv
<1>7. CASE LogRejected
  <2>1. /\ mode # "down" /\ pc = "idle" /\ pc' = "idle" /\ disk' = disk /\ seq' = seq + 1
    BY <1>7 DEF LogRejected, Stamp, NextEntry, Entry
  <2>. QED  BY <1>1, <1>4, <1>5, <2>1 DEF SeqInv
<1>8. CASE Flush
  <2>1. Writing /\ pc' = "flushed" /\ seq' = seq
    BY <1>8 DEF Flush
  <2>. QED  BY <1>2, <1>4, <2>1 DEF SeqInv
<1>9. CASE FlushFails
  <2>1. pc = "buffered" /\ pc' = "idle" /\ seq' = seq
    BY <1>9 DEF FlushFails
  <2>2. CASE Writing
    BY <1>2, <1>4, <2>1, <2>2 DEF SeqInv
  <2>3. CASE ~Writing
    <3>1. Below(disk'.lines, entry[1].seq - 1)
      BY <1>3, <2>1, <2>3 DEF SeqInv
    <3>2. Below(disk'.lines, seq)
      <4>. DEFINE t == disk'.lines
      <4>1. \A i \in 1 .. Len(t) : Readable(t[i]) => t[i][1].seq \in Nat
        BY NextIInv DEF IInv, SinkInv, FileInv, LoggedFile, LoggedLine, Logged
      <4>2. \A i \in 1 .. Len(t) : Readable(t[i]) => t[i][1].seq <= entry[1].seq - 1
        BY <3>1 DEF Below
      <4>. HIDE DEF t
      <4>3. \A i \in 1 .. Len(t) : Readable(t[i]) => t[i][1].seq <= seq
        BY <1>1, <2>1, <4>1, <4>2
      <4>. QED  BY <4>3 DEF Below, t
    <3>. QED  BY <1>4, <2>1, <3>2 DEF SeqInv
  <2>. QED  BY <2>2, <2>3
<1>10. CASE Sync \/ SyncFails
  <2>1. pc = "flushed" /\ pc' = "idle" /\ UNCHANGED <<disk, mode, seq>>
    BY <1>10 DEF Sync, SyncFails
  <2>. QED  BY <1>4, <2>1 DEF SeqInv
<1>11. CASE Close
  <2>1. mode = "open" /\ pc = "idle" /\ UNCHANGED <<disk, pc, entry, seq>>
    BY <1>11 DEF Close
  <2>. QED  BY <1>4, <2>1 DEF SeqInv
<1>12. CASE ProcessDies \/ PowerLoss
  <2>1. mode' = "down" /\ pc' = "idle"
    BY <1>12 DEF ProcessDies, PowerLoss, Die
  <2>. QED  BY <1>4, <2>1 DEF SeqInv
<1>13. CASE Restart
  <2>1. mode = "down" /\ UNCHANGED <<disk, pc, entry>> /\ seq' = ResumedSeq(disk.lines)
    BY <1>13 DEF Restart
  <2>2. Below(disk.lines, ResumedSeq(disk.lines))
    BY <1>1, ResumedIsHighest
  <2>. QED  BY <1>1, <1>4, <2>1, <2>2 DEF SeqInv
<1>14. CASE UNCHANGED vars
  BY <1>14 DEF vars, sinkVars, SeqInv
<1>. QED  BY <1>6, <1>7, <1>8, <1>9, <1>10, <1>11, <1>12, <1>13, <1>14 DEF Next

\* Whatever failed or crashed, the entries that can be read stand in the order of
\* their numbers and no number stands twice, although a restart may hand out a
\* number again (hashchain.go:67-77 with 190-221).
THEOREM EntriesInSequenceOrder == Spec => []InSequenceOrder
<1>1. Init => SeqInv
  <2>. SUFFICES ASSUME Init PROVE SeqInv
    OBVIOUS
  <2>1. disk.lines = <<>> /\ Len(disk.lines) = 0 /\ pc = "idle"
    BY EmptySeq DEF Init
  <2>. QED  BY <2>1 DEF SeqInv, Rising, Below
<1>2. IInv /\ SeqInv => InSequenceOrder
  <2>. SUFFICES ASSUME IInv, SeqInv PROVE InSequenceOrder
    OBVIOUS
  <2>1. DOMAIN disk.lines = 1 .. Len(disk.lines)
    BY LenProperties DEF IInv, SinkInv, FileInv, LoggedFile
  <2>. QED  BY <2>1 DEF InSequenceOrder, SeqInv, Rising
<1>. QED  BY <1>1, <1>2, SeqInvKept, InductiveInvariant, PTL DEF Spec

-----------------------------------------------------------------------------
(***************************************************************************)
(* The edited file (AuditTamper, as MCAudit's Edit).  The operators of the *)
(* instance are those of AuditSink.                                        *)
(***************************************************************************)
LEMMA SameDisk ==
  /\ \A d, e, part : Edit!Landed(d, e, part) = Landed(d, e, part)
  /\ \A d, st : Edit!Survivors(d, st) = Survivors(d, st)
  /\ Edit!Parts = Parts
<1>1. \A d, l : Edit!Put(d, l) = Put(d, l)
  BY DEF Edit!Put, Put, Edit!Corrupt, Corrupt
<1>2. \A d, e, part : Edit!Landed(d, e, part) = Landed(d, e, part)
  BY <1>1 DEF Edit!Landed, Landed, Edit!Corrupt, Corrupt
<1>3. \A d, st : Edit!Survivors(d, st) = Survivors(d, st)
  BY DEF Edit!Survivors, Survivors, Edit!Corrupt, Corrupt
<1>. QED  BY <1>2, <1>3 DEF Edit!Parts, Parts

LEMMA SameHead ==
  /\ \A ls : Edit!ResumedSeq(ls) = ResumedSeq(ls) /\ Edit!ResumedHash(ls) = ResumedHash(ls)
  /\ Edit!NextEntry = Entry(eSeq + 1, ePreviousHash, eCalls + 1)
  /\ Edit!Genesis = Genesis
<1>1. \A ls : Edit!LastReadable(ls) = LastReadable(ls)
  BY DEF Edit!LastReadable, LastReadable, Edit!Readable, Readable, Edit!Corrupt, Corrupt, Edit!Max, Max
<1>2. \A ls : Edit!ResumedSeq(ls) = ResumedSeq(ls) /\ Edit!ResumedHash(ls) = ResumedHash(ls)
  BY <1>1 DEF Edit!ResumedSeq, ResumedSeq, Edit!ResumedHash, ResumedHash, Edit!Genesis, Genesis
<1>3. Edit!NextEntry = Entry(eSeq + 1, ePreviousHash, eCalls + 1)
  BY DEF Edit!NextEntry, Edit!Entry, Entry, Edit!Digest, Digest
<1>. QED  BY <1>2, <1>3 DEF Edit!Genesis, Genesis

LEMMA SameVerdict == \A ls, from : Edit!Verify(ls, from) = Verify(ls, from)
<1>1. \A ls, i : Edit!LinksUp(ls, i) = LinksUp(ls, i)
  BY DEF Edit!LinksUp, LinksUp, Edit!ExpectedPrev, ExpectedPrev, Edit!Readable, Readable,
         Edit!Corrupt, Corrupt, Edit!Genesis, Genesis
<1>2. \A e : Edit!HashMatches(e) = HashMatches(e)
  BY DEF Edit!HashMatches, HashMatches, Edit!Digest, Digest
<1>3. \A ls, i, from : Edit!StopsAt(ls, i, from) = StopsAt(ls, i, from)
  BY <1>1, <1>2 DEF Edit!StopsAt, StopsAt, Edit!Readable, Readable, Edit!Corrupt, Corrupt
<1>4. \A ls, from : Edit!Broken(ls, from) = Broken(ls, from)
  BY <1>3 DEF Edit!Broken, Broken
<1>5. \A S : Edit!Min(S) = Min(S)
  BY DEF Edit!Min, Min
<1>. QED  BY <1>4, <1>5 DEF Edit!Verify, Verify, Edit!LastSeq, LastSeq, Edit!Readable, Readable,
                            Edit!Corrupt, Corrupt

-----------------------------------------------------------------------------
(***************************************************************************)
(* What an edit leaves is a scar: the first line of the file that does not *)
(* continue the chain.  It is among the stable lines, so no write and no   *)
(* crash reaches it.                                                       *)
(***************************************************************************)
FileShape(d, st) ==
  /\ d = [lines |-> d.lines, nl |-> d.nl]
  /\ d.lines \in Seq(Range(d.lines)) /\ d.nl \in BOOLEAN
  /\ st \in 0 .. Len(d.lines)
  /\ ~d.nl => st < Len(d.lines)

\* Line k is the scar, its number is not below that of the line edited.
Scarred(ls, st, k) ==
  /\ k \in 1 .. st
  /\ \A j \in 1 .. k : Readable(ls[j]) /\ Record(ls[j][1]) /\ ls[j][1].seq \in Nat
  /\ \A j \in 1 .. k - 1 : LinksUp(ls, j) /\ HashMatches(ls[j][1])
  /\ ls[k][1].seq >= k
  /\ ~LinksUp(ls, k) \/ ~HashMatches(ls[k][1])

\* A scar stays as long as the stable lines do.
LEMMA ScarStays ==
  ASSUME NEW ls, NEW st \in Nat, NEW k, Scarred(ls, st, k),
         NEW t, NEW st2 \in Nat, st <= st2, \A j \in 1 .. st : t[j] = ls[j]
  PROVE  Scarred(t, st2, k)
<1>1. k \in 1 .. st /\ k \in 1 .. st2 /\ \A j \in 1 .. k : t[j] = ls[j]
  BY DEF Scarred
<1>2. \A j \in 1 .. k : LinksUp(t, j) <=> LinksUp(ls, j)
  <2>. SUFFICES ASSUME NEW j \in 1 .. k PROVE LinksUp(t, j) <=> LinksUp(ls, j)
    OBVIOUS
  <2>1. t[j] = ls[j] /\ (j # 1 => t[j - 1] = ls[j - 1])
    BY <1>1
  <2>. QED  BY <2>1 DEF LinksUp, ExpectedPrev
<1>3. k \in 1 .. k /\ \A j \in 1 .. k - 1 : j \in 1 .. k
  BY <1>1
<1>. QED  BY <1>1, <1>2, <1>3 DEF Scarred

\* Whatever Verify is asked up to the scar, it answers with a number; asked
\* from the start it answers with that of the scar.
LEMMA ScarIsSeen ==
  ASSUME NEW ls, ls \in Seq(Range(ls)), NEW st \in 0 .. Len(ls), NEW k, Scarred(ls, st, k)
  PROVE  /\ \A from \in 0 .. k : Verify(ls, from) # -1
         /\ Verify(ls, 0) >= k
<1>1. /\ DOMAIN ls = 1 .. Len(ls) /\ Len(ls) \in Nat
      /\ k \in 1 .. st /\ k \in Nat /\ k \in 1 .. Len(ls)
  BY LenProperties DEF Scarred
<1>2. ASSUME NEW from \in 0 .. k
      PROVE  /\ Min(Broken(ls, from)) \in 1 .. k
             /\ Min(Broken(ls, from)) \in Broken(ls, from)
             /\ Verify(ls, from) = ls[Min(Broken(ls, from))][1].seq
  <2>1. k \in Broken(ls, from)
    BY <1>1 DEF Scarred, Broken, StopsAt
  <2>2. Broken(ls, from) \in SUBSET Nat
    BY <1>1 DEF Broken
  <2>. DEFINE i == Min(Broken(ls, from))
  <2>3. i \in Broken(ls, from) /\ i <= k
    BY <2>1, <2>2, MinExists
  <2>4. i \in 1 .. k
    BY <1>1, <2>3 DEF Broken
  <2>5. Readable(ls[i])
    BY <2>4 DEF Scarred
  <2>. QED  BY <2>1, <2>3, <2>4, <2>5 DEF Verify
<1>3. \A from \in 0 .. k : Verify(ls, from) \in Nat
  BY <1>2 DEF Scarred
<1>4. Verify(ls, 0) >= k
  <2>. DEFINE i == Min(Broken(ls, 0))
  <2>1. i \in 1 .. k /\ i \in Broken(ls, 0) /\ Verify(ls, 0) = ls[i][1].seq
    BY <1>1, <1>2
  <2>. HIDE DEF i
  <2>2. ~(i \in 1 .. k - 1)
    <3>. SUFFICES ASSUME i \in 1 .. k - 1 PROVE FALSE
      OBVIOUS
    <3>1. Readable(ls[i]) /\ LinksUp(ls, i) /\ HashMatches(ls[i][1])
      BY <2>1 DEF Scarred
    <3>. QED  BY <2>1, <3>1 DEF Broken, StopsAt
  <2>3. i = k
    BY <1>1, <2>1, <2>2
  <2>. QED  BY <2>1, <2>3 DEF Scarred
<1>. QED  BY <1>3, <1>4

\* Writes and crashes keep the stable lines of any file.
LEMMA LandedShape ==
  ASSUME NEW d, NEW st, FileShape(d, st), NEW e, NEW part \in Parts
  PROVE  LET x == Landed(d, e, part)
         IN  /\ FileShape(x, st)
             /\ \A j \in 1 .. st : x.lines[j] = d.lines[j]
             /\ part = "line" => x.nl /\ st < Len(x.lines)
<1>. DEFINE ls == d.lines
<1>1. /\ ls \in Seq(Range(ls)) /\ Len(ls) \in Nat /\ d.nl \in BOOLEAN
      /\ st \in 0 .. Len(ls) /\ (~d.nl => st < Len(ls))
  BY LenProperties DEF FileShape
<1>2. ASSUME NEW line
      PROVE  /\ Put(d, line) \in Seq(Range(Put(d, line)))
             /\ st < Len(Put(d, line)) /\ Len(Put(d, line)) \in Nat
             /\ \A j \in 1 .. st : Put(d, line)[j] = ls[j]
  <2>1. CASE d.nl
    <3>. DEFINE t == Append(ls, line)
    <3>1. /\ t \in Seq(Range(t)) /\ Len(t) = Len(ls) + 1
          /\ \A i \in 1 .. Len(ls) : t[i] = ls[i]
      BY <1>1, Appended
    <3>2. Put(d, line) = t
      BY <2>1 DEF Put
    <3>. HIDE DEF t
    <3>. QED  BY <1>1, <3>1, <3>2
  <2>2. CASE ~d.nl
    <3>. DEFINE t == [ls EXCEPT ![Len(ls)] = Corrupt]
    <3>1. Len(ls) > 0
      BY <1>1, <2>2
    <3>2. /\ t \in Seq(Range(t)) /\ Len(t) = Len(ls)
          /\ \A i \in 1 .. Len(ls) - 1 : t[i] = ls[i]
      BY <1>1, <3>1, Overwritten
    <3>3. Put(d, line) = t
      BY <2>2 DEF Put
    <3>4. \A j \in 1 .. st : j \in 1 .. Len(ls) - 1
      BY <1>1, <2>2
    <3>. HIDE DEF t
    <3>. QED  BY <1>1, <2>2, <3>2, <3>3, <3>4
  <2>. QED  BY <1>1, <2>1, <2>2
<1>3. ASSUME NEW line, NEW nl \in BOOLEAN
      PROVE  FileShape([lines |-> Put(d, line), nl |-> nl], st)
  BY <1>1, <1>2 DEF FileShape
<1>. QED  BY <1>2, <1>3 DEF Landed, Parts

LEMMA SurvivorShape ==
  ASSUME NEW d, NEW st, FileShape(d, st), NEW x \in Survivors(d, st)
  PROVE  FileShape(x, st) /\ \A j \in 1 .. st : x.lines[j] = d.lines[j]
<1>. DEFINE ls == d.lines
<1>1. /\ ls \in Seq(Range(ls)) /\ Len(ls) \in Nat /\ d.nl \in BOOLEAN
      /\ st \in 0 .. Len(ls) /\ (~d.nl => st < Len(ls))
  BY LenProperties DEF FileShape
<1>2. ASSUME NEW n \in st .. Len(ls)
      PROVE  LET c == SubSeq(ls, 1, n)
             IN  /\ c \in Seq(Range(c)) /\ Len(c) = n
                 /\ \A j \in 1 .. st : c[j] = ls[j]
  <2>1. n \in 0 .. Len(ls) /\ \A j \in 1 .. st : j \in 1 .. n
    BY <1>1
  <2>. QED  BY <1>1, <2>1, CutAt
<1>3. ASSUME NEW n \in st .. Len(ls)
      PROVE  LET t == Append(SubSeq(ls, 1, n), Corrupt)
             IN  /\ t \in Seq(Range(t)) /\ Len(t) = n + 1
                 /\ \A j \in 1 .. st : t[j] = ls[j]
  <2>. DEFINE c == SubSeq(ls, 1, n)
  <2>1. c \in Seq(Range(c)) /\ Len(c) = n /\ \A j \in 1 .. st : c[j] = ls[j]
    BY <1>2
  <2>2. \A j \in 1 .. st : j \in 1 .. n
    BY <1>1
  <2>. HIDE DEF c
  <2>3. /\ Append(c, Corrupt) \in Seq(Range(Append(c, Corrupt)))
        /\ Len(Append(c, Corrupt)) = Len(c) + 1
        /\ \A i \in 1 .. Len(c) : Append(c, Corrupt)[i] = c[i]
    BY <2>1, Appended
  <2>. QED  BY <2>1, <2>2, <2>3 DEF c
<1>4. ASSUME NEW t, t \in Seq(Range(t)), NEW nl \in BOOLEAN, Len(t) \in Nat,
             st <= Len(t), ~nl => st < Len(t)
      PROVE  FileShape([lines |-> t, nl |-> nl], st)
  BY <1>1, <1>4 DEF FileShape
<1>5. CASE \E n \in st .. Len(ls) :
             x = [lines |-> SubSeq(ls, 1, n), nl |-> n < Len(ls) \/ d.nl]
  <2>1. PICK n \in st .. Len(ls) :
               x = [lines |-> SubSeq(ls, 1, n), nl |-> n < Len(ls) \/ d.nl]
    BY <1>5
  <2>. DEFINE c == SubSeq(ls, 1, n)    nl == n < Len(ls) \/ d.nl
  <2>2. c \in Seq(Range(c)) /\ Len(c) = n /\ \A j \in 1 .. st : c[j] = ls[j]
    BY <1>2
  <2>3. nl \in BOOLEAN /\ n \in Nat /\ st <= n /\ (~nl => st < n)
    BY <1>1
  <2>4. x = [lines |-> c, nl |-> nl]
    BY <2>1
  <2>. HIDE DEF c, nl
  <2>. QED  BY <1>4, <2>2, <2>3, <2>4
<1>6. CASE \E n \in st .. Len(ls) - 1 :
             x = [lines |-> Append(SubSeq(ls, 1, n), Corrupt), nl |-> FALSE]
  <2>1. PICK n \in st .. Len(ls) - 1 :
               x = [lines |-> Append(SubSeq(ls, 1, n), Corrupt), nl |-> FALSE]
    BY <1>6
  <2>. DEFINE t == Append(SubSeq(ls, 1, n), Corrupt)
  <2>2. n \in st .. Len(ls) /\ n + 1 \in Nat /\ st <= n + 1 /\ st < n + 1
    BY <1>1
  <2>3. t \in Seq(Range(t)) /\ Len(t) = n + 1 /\ \A j \in 1 .. st : t[j] = ls[j]
    BY <1>3, <2>2
  <2>4. x = [lines |-> t, nl |-> FALSE]
    BY <2>1
  <2>. HIDE DEF t
  <2>. QED  BY <1>4, <2>2, <2>3, <2>4
<1>7. CASE \E n \in st + 1 .. Len(ls) : x = [lines |-> SubSeq(ls, 1, n), nl |-> FALSE]
  <2>1. PICK n \in st + 1 .. Len(ls) : x = [lines |-> SubSeq(ls, 1, n), nl |-> FALSE]
    BY <1>7
  <2>. DEFINE c == SubSeq(ls, 1, n)
  <2>2. n \in st .. Len(ls) /\ n \in Nat /\ st <= n /\ st < n
    BY <1>1
  <2>3. c \in Seq(Range(c)) /\ Len(c) = n /\ \A j \in 1 .. st : c[j] = ls[j]
    BY <1>2, <2>2
  <2>4. x = [lines |-> c, nl |-> FALSE]
    BY <2>1
  <2>. HIDE DEF c
  <2>. QED  BY <1>4, <2>2, <2>3, <2>4
<1>. QED  BY <1>5, <1>6, <1>7 DEF Survivors

-----------------------------------------------------------------------------
(***************************************************************************)
(* The two edits, of a file in which every line can be read.               *)
(***************************************************************************)
\* Such a file is one chain, and the entry on line i has the number i.
LEMMA WholeFile ==
  ASSUME NEW made, NEW d, NEW st, NEW acks, FileInv(d, st, acks, made),
         \A j \in DOMAIN d.lines : Readable(d.lines[j])
  PROVE  \A i \in 1 .. Len(d.lines) :
           /\ d.lines[i] = <<d.lines[i][1]>> /\ Logged(d.lines[i][1], made)
           /\ d.lines[i][1].seq = i
           /\ LinksUp(d.lines, i) /\ HashMatches(d.lines[i][1])
           /\ d.lines[i][1].prev = IF i = 1 THEN Genesis ELSE d.lines[i - 1][1].hash
<1>. DEFINE ls == d.lines
<1>1. /\ DOMAIN ls = 1 .. Len(ls) /\ Len(ls) \in Nat
      /\ \A i \in 1 .. Len(ls) : Readable(ls[i]) /\ LoggedLine(ls[i], made)
      /\ Chained(ls)
  BY LenProperties DEF FileInv, LoggedFile
<1>. HIDE DEF ls
<1>2. \A i \in 1 .. Len(ls) : /\ ls[i] = <<ls[i][1]>> /\ Logged(ls[i][1], made)
                              /\ HashMatches(ls[i][1]) /\ ls[i][1].seq \in Nat
  BY <1>1 DEF LoggedLine, Logged, Chained
<1>3. Len(ls) > 0 => ls[1][1].seq = 1 /\ ls[1][1].prev = Genesis
  <2>1. Len(ls) > 0 => 1 \in 1 .. Len(ls)
    BY <1>1
  <2>. QED  BY <1>1, <2>1 DEF Chained
<1>4. ASSUME NEW i \in 2 .. Len(ls)
      PROVE  /\ i \in 1 .. Len(ls) /\ i - 1 \in 1 .. Len(ls)
             /\ ls[i][1].prev = ls[i - 1][1].hash
             /\ ls[i][1].seq = ls[i - 1][1].seq + 1
  <2>1. i \in 1 .. Len(ls) /\ i - 1 \in 1 .. Len(ls)
    BY <1>1
  <2>. QED  BY <1>1, <2>1 DEF Chained
<1>5. \A i \in 1 .. Len(ls) : ls[i][1].seq = i
  \* The first line that differs would not follow the one before it.
  <2>. DEFINE Odd == {i \in 1 .. Len(ls) : ls[i][1].seq # i}
  <2>. SUFFICES ASSUME Odd # {} PROVE FALSE
    OBVIOUS
  <2>1. Odd \in SUBSET Nat
    BY <1>1
  <2>. DEFINE m == Min(Odd)
  <2>2. m \in Odd /\ \A y \in Odd : m <= y
    <3>. HIDE DEF Odd
    <3>. QED  BY <2>1, MinExists
  <2>3. m \in 1 .. Len(ls) /\ ls[m][1].seq # m /\ \A y \in 1 .. Len(ls) : ls[y][1].seq # y => m <= y
    BY <2>2
  <2>. HIDE DEF m, Odd
  <2>4. m # 1
    BY <1>1, <1>3, <2>3
  <2>5. m \in 2 .. Len(ls)
    BY <1>1, <2>3, <2>4
  <2>6. m - 1 \in 1 .. Len(ls) /\ ls[m][1].seq = ls[m - 1][1].seq + 1
    BY <1>4, <2>5
  <2>7. ls[m - 1][1].seq = m - 1
    <3>1. ~(m <= m - 1)
      BY <2>5
    <3>. QED  BY <2>3, <2>6, <3>1
  <2>. QED  BY <2>3, <2>5, <2>6, <2>7
<1>6. ASSUME NEW i \in 1 .. Len(ls)
      PROVE  /\ ls[i][1].prev = IF i = 1 THEN Genesis ELSE ls[i - 1][1].hash
             /\ LinksUp(ls, i)
  <2>1. CASE i = 1
    BY <1>1, <1>3, <2>1 DEF LinksUp, ExpectedPrev
  <2>2. CASE i # 1
    <3>1. i \in 2 .. Len(ls)
      BY <1>1, <2>2
    <3>2. ls[i][1].prev = ls[i - 1][1].hash /\ Readable(ls[i - 1])
      BY <1>1, <1>4, <3>1
    <3>. QED  BY <2>2, <3>2 DEF LinksUp, ExpectedPrev
  <2>. QED  BY <2>1, <2>2
<1>. QED  BY <1>2, <1>5, <1>6 DEF ls

\* The number is part of the digest.
LEMMA DigestsDiffer ==
  ASSUME NEW s, NEW p, NEW b, NEW s2, NEW p2, NEW b2, Digest(s, p, b) = Digest(s2, p2, b2)
  PROVE  s = s2 /\ p = p2 /\ b = b2
BY DEF Digest

LEMMA DigestIsNotGenesis == \A s, p, b : Digest(s, p, b) # Genesis
BY DEF Digest, Genesis

\* No edit of a field is covered by the hash.
LEMMA EditBreaksHash ==
  ASSUME NEW made, NEW e, Logged(e, made), HashMatches(e), e.seq \in Nat \ {0},
         e.prev # Digest(0, Genesis, 0), NEW x \in Edit!EditsOf(e)
  PROVE  ~HashMatches(x) /\ Record(x) /\ x.seq \in Nat /\ x.seq >= e.seq
<1>1. /\ Record(e)
      /\ e.hash = Digest(e.seq, e.prev, e.body) /\ e.body \in 1 .. made
  BY DEF Logged, HashMatches
<1>2. Edit!Digest(0, Edit!Genesis, 0) = Digest(0, Genesis, 0)
  BY DEF Edit!Digest, Edit!Genesis, Digest, Genesis
<1>3. CASE x = [e EXCEPT !.body = 0]
  <2>1. Record(x) /\ x.seq = e.seq /\ x.prev = e.prev /\ x.body = 0 /\ x.hash = e.hash
    BY <1>1, <1>3 DEF Record
  <2>2. e.body # 0
    BY <1>1
  <2>. QED  BY <1>1, <2>1, <2>2, DigestsDiffer DEF HashMatches
<1>4. CASE x = [e EXCEPT !.prev = Digest(0, Genesis, 0)]
  <2>1. Record(x) /\ x.seq = e.seq /\ x.prev = Digest(0, Genesis, 0) /\ x.body = e.body /\ x.hash = e.hash
    BY <1>1, <1>4 DEF Record
  <2>. QED  BY <1>1, <2>1, DigestsDiffer DEF HashMatches
<1>5. CASE x = [e EXCEPT !.hash = Digest(0, Genesis, 0)]
  <2>1. Record(x) /\ x.seq = e.seq /\ x.prev = e.prev /\ x.body = e.body /\ x.hash = Digest(0, Genesis, 0)
    BY <1>1, <1>5 DEF Record
  <2>. QED  BY <1>1, <2>1, DigestsDiffer DEF HashMatches
<1>6. CASE x = [e EXCEPT !.seq = e.seq + 1]
  <2>1. Record(x) /\ x.seq = e.seq + 1 /\ x.prev = e.prev /\ x.body = e.body /\ x.hash = e.hash
    BY <1>1, <1>6 DEF Record
  <2>2. e.seq + 1 # e.seq /\ e.seq + 1 \in Nat
    OBVIOUS
  <2>. QED  BY <1>1, <2>1, <2>2, DigestsDiffer DEF HashMatches
<1>. QED  BY <1>2, <1>3, <1>4, <1>5, <1>6 DEF Edit!EditsOf

LEMMA EditScars ==
  ASSUME NEW made, NEW d, NEW st, NEW acks, FileInv(d, st, acks, made),
         \A j \in DOMAIN d.lines : Readable(d.lines[j]),
         NEW i \in 1 .. st, NEW x \in Edit!EditsOf(d.lines[i][1])
  PROVE  LET t == [d.lines EXCEPT ![i] = <<x>>]
         IN  t \in Seq(Range(t)) /\ Len(t) = Len(d.lines) /\ Scarred(t, st, i)
<1>. DEFINE ls == d.lines    l == <<x>>    t == [ls EXCEPT ![i] = l]
<1>1. ls \in Seq(Range(ls)) /\ Len(ls) \in Nat /\ st \in 0 .. Len(ls)
  BY LenProperties DEF FileInv, LoggedFile
<1>2. \A j \in 1 .. Len(ls) :
        /\ ls[j] = <<ls[j][1]>> /\ Logged(ls[j][1], made)
        /\ ls[j][1].seq = j
        /\ LinksUp(ls, j) /\ HashMatches(ls[j][1])
        /\ ls[j][1].prev = IF j = 1 THEN Genesis ELSE ls[j - 1][1].hash
  BY WholeFile
<1>3. i \in 1 .. Len(ls) /\ i \in Nat \ {0}
  BY <1>1
<1>4. ls[i][1].prev # Digest(0, Genesis, 0)
  <2>1. CASE i = 1
    BY <1>2, <1>3, <2>1, DigestIsNotGenesis
  <2>2. CASE i # 1
    <3>1. i - 1 \in 1 .. Len(ls) /\ i - 1 # 0
      BY <1>1, <2>2
    <3>2. ls[i][1].prev = ls[i - 1][1].hash /\ HashMatches(ls[i - 1][1]) /\ ls[i - 1][1].seq = i - 1
      BY <1>2, <1>3, <2>2, <3>1
    <3>. QED  BY <3>1, <3>2, DigestsDiffer DEF HashMatches
  <2>. QED  BY <2>1, <2>2
<1>5. ~HashMatches(x) /\ Record(x) /\ x.seq \in Nat /\ x.seq >= i
  <2>. DEFINE e == ls[i][1]
  <2>1. Logged(e, made) /\ HashMatches(e) /\ e.seq = i /\ e.prev # Digest(0, Genesis, 0)
    BY <1>2, <1>3, <1>4
  <2>2. x \in Edit!EditsOf(e)
    OBVIOUS
  <2>. HIDE DEF e
  <2>. QED  BY <1>3, <2>1, <2>2, EditBreaksHash
<1>6. Readable(l) /\ l[1] = x
  BY DEF Readable, Corrupt
<1>7. /\ t \in Seq(Range(t)) /\ Len(t) = Len(ls)
      /\ \A j \in 1 .. Len(ls) : t[j] = IF j = i THEN l ELSE ls[j]
  <2>. DEFINE S == Range(ls) \cup {l}
  <2>. HIDE DEF l
  <2>1. ls \in Seq(S) /\ l \in S
    BY <1>1, SeqMonotonic
  <2>. HIDE DEF S
  <2>2. /\ t \in Seq(S) /\ Len(t) = Len(ls)
        /\ \A j \in 1 .. Len(ls) : t[j] = IF j = i THEN l ELSE ls[j]
    BY <1>3, <2>1, ExceptSeq
  <2>. QED  BY <2>2, OwnRange
<1>. HIDE DEF ls, l, t
<1>8. \A j \in 1 .. Len(ls) : Readable(ls[j])
  <2>1. DOMAIN ls = 1 .. Len(ls)
    BY <1>1, LenProperties
  <2>. QED  BY <2>1 DEF ls
<1>9. \A j \in 1 .. i - 1 : j \in 1 .. Len(ls) /\ j # i /\ (j # 1 => j - 1 \in 1 .. Len(ls) /\ j - 1 # i)
  BY <1>1, <1>3
<1>10. Scarred(t, st, i)
  <2>1. \A j \in 1 .. i : Readable(t[j]) /\ Record(t[j][1]) /\ t[j][1].seq \in Nat
    <3>1. \A j \in 1 .. i : j \in 1 .. Len(ls) /\ j \in Nat
      BY <1>1, <1>3
    <3>2. \A j \in 1 .. Len(ls) : Record(ls[j][1])
      BY <1>2 DEF Logged
    <3>. QED  BY <1>2, <1>5, <1>6, <1>7, <1>8, <3>1, <3>2
  <2>2. \A j \in 1 .. i - 1 : LinksUp(t, j) /\ HashMatches(t[j][1])
    <3>. SUFFICES ASSUME NEW j \in 1 .. i - 1 PROVE LinksUp(t, j) /\ HashMatches(t[j][1])
      OBVIOUS
    <3>1. t[j] = ls[j] /\ (j # 1 => t[j - 1] = ls[j - 1]) /\ j \in 1 .. Len(ls)
      BY <1>7, <1>9
    <3>2. LinksUp(t, j) <=> LinksUp(ls, j)
      BY <3>1 DEF LinksUp, ExpectedPrev
    <3>. QED  BY <1>2, <3>1, <3>2
  <2>3. t[i][1] = x
    BY <1>3, <1>6, <1>7
  <2>. QED  BY <1>5, <2>1, <2>2, <2>3 DEF Scarred
<1>. QED  BY <1>7, <1>10 DEF ls, l, t

\* Without line i, the line after it does not link to the line before it.
LEMMA RemovalScars ==
  ASSUME NEW made, NEW d, NEW st, NEW acks, FileInv(d, st, acks, made),
         \A j \in DOMAIN d.lines : Readable(d.lines[j]), NEW i \in 1 .. st - 1
  PROVE  LET t == SubSeq(d.lines, 1, i - 1) \o SubSeq(d.lines, i + 1, Len(d.lines))
         IN  t \in Seq(Range(t)) /\ Len(t) = Len(d.lines) - 1 /\ Scarred(t, st - 1, i)
<1>. DEFINE ls == d.lines    a == SubSeq(ls, 1, i - 1)    b == SubSeq(ls, i + 1, Len(ls))
            t == a \o b
<1>1. ls \in Seq(Range(ls)) /\ Len(ls) \in Nat /\ st \in 0 .. Len(ls) /\ i \in Nat /\ i < Len(ls) /\ i >= 1
  <2>1. ls \in Seq(Range(ls)) /\ st \in 0 .. Len(ls)
    BY DEF FileInv, LoggedFile
  <2>2. Len(ls) \in Nat
    BY <2>1, LenProperties
  <2>. HIDE DEF ls
  <2>. QED  BY <2>1, <2>2
<1>2. \A j \in 1 .. Len(ls) :
        /\ Record(ls[j][1]) /\ ls[j][1].seq = j
        /\ LinksUp(ls, j) /\ HashMatches(ls[j][1])
        /\ ls[j][1].prev = IF j = 1 THEN Genesis ELSE ls[j - 1][1].hash
  BY WholeFile DEF Logged
<1>3. \A j \in 1 .. Len(ls) : Readable(ls[j])
  <2>1. DOMAIN ls = 1 .. Len(ls)
    BY <1>1, LenProperties
  <2>. QED  BY <2>1
<1>. HIDE DEF ls
<1>4. \A j \in 1 .. Len(ls) : ls[j] \in Range(ls)
  BY <1>1, ElementOfSeq
<1>5. /\ a \in Seq(Range(ls)) /\ Len(a) = i - 1
      /\ \A j \in 1 .. i - 1 : a[j] = ls[j]
  <2>1. i - 1 \in 0 .. Len(ls)
    BY <1>1
  <2>2. /\ a \in Seq(Range(ls))
        /\ Len(a) = IF 1 <= i - 1 THEN (i - 1) - 1 + 1 ELSE 0
        /\ \A j \in 1 .. (i - 1) - 1 + 1 : a[j] = ls[1 + j - 1]
    BY <1>4, <2>1, SubSeqProperties, 1 \in Int, i - 1 \in Int, \A j \in 1 .. i - 1 : ls[j] \in Range(ls)
  <2>. HIDE DEF a
  <2>. QED  BY <1>1, <2>1, <2>2
<1>6. /\ b \in Seq(Range(ls)) /\ Len(b) = Len(ls) - i
      /\ \A j \in 1 .. Len(ls) - i : b[j] = ls[i + j]
  <2>1. \A j \in i + 1 .. Len(ls) : ls[j] \in Range(ls)
    BY <1>1, <1>4
  <2>2. /\ b \in Seq(Range(ls))
        /\ Len(b) = IF i + 1 <= Len(ls) THEN Len(ls) - (i + 1) + 1 ELSE 0
        /\ \A j \in 1 .. Len(ls) - (i + 1) + 1 : b[j] = ls[(i + 1) + j - 1]
    BY <2>1, <1>1, SubSeqProperties, i + 1 \in Int, Len(ls) \in Int
  <2>. HIDE DEF b
  <2>. QED  BY <1>1, <2>2
<1>. HIDE DEF a, b
<1>7. /\ t \in Seq(Range(ls)) /\ Len(t) = Len(ls) - 1
      /\ \A j \in 1 .. Len(ls) - 1 : t[j] = IF j < i THEN ls[j] ELSE ls[j + 1]
  <2>1. /\ t \in Seq(Range(ls)) /\ Len(t) = Len(a) + Len(b)
        /\ \A j \in 1 .. Len(a) + Len(b) : t[j] = IF j <= Len(a) THEN a[j] ELSE b[j - Len(a)]
    BY <1>5, <1>6, ConcatProperties
  <2>. HIDE DEF t
  <2>2. ASSUME NEW j \in 1 .. Len(ls) - 1
        PROVE  t[j] = IF j < i THEN ls[j] ELSE ls[j + 1]
    <3>1. j \in 1 .. Len(a) + Len(b)
      BY <1>1, <1>5, <1>6
    <3>2. CASE j < i
      <4>1. j <= Len(a) /\ j \in 1 .. i - 1
        BY <1>1, <1>5, <3>2
      <4>. QED  BY <1>5, <2>1, <3>1, <3>2, <4>1
    <3>3. CASE ~(j < i)
      <4>1. ~(j <= Len(a)) /\ j - Len(a) = j - i + 1 /\ j - i + 1 \in 1 .. Len(ls) - i
            /\ i + (j - i + 1) = j + 1
        BY <1>1, <1>5, <3>3
      <4>. QED  BY <1>6, <2>1, <3>1, <3>3, <4>1
    <3>. QED  BY <3>2, <3>3
  <2>. QED  BY <1>1, <1>5, <1>6, <2>1, <2>2
<1>8. t \in Seq(Range(t))
  BY <1>7, OwnRange
<1>. HIDE DEF t
<1>9. Scarred(t, st - 1, i)
  <2>1. /\ i \in 1 .. st - 1
        /\ \A j \in 1 .. i - 1 : /\ j \in 1 .. Len(ls) /\ j \in 1 .. Len(ls) - 1 /\ j < i
                                 /\ j # 1 => j - 1 \in 1 .. Len(ls) - 1 /\ j - 1 < i
        /\ i \in 1 .. Len(ls) - 1 /\ i + 1 \in 1 .. Len(ls) /\ ~(i < i) /\ i + 1 # 1
    BY <1>1
  <2>2. t[i] = ls[i + 1] /\ Readable(t[i]) /\ Record(t[i][1]) /\ t[i][1].seq = i + 1
    BY <1>2, <1>3, <1>7, <2>1
  <2>3. \A j \in 1 .. i - 1 : t[j] = ls[j] /\ (j # 1 => t[j - 1] = ls[j - 1])
    BY <1>7, <2>1
  <2>4. \A j \in 1 .. i - 1 : /\ Readable(t[j]) /\ Record(t[j][1]) /\ t[j][1].seq = j
                               /\ LinksUp(t, j) /\ HashMatches(t[j][1])
    <3>. SUFFICES ASSUME NEW j \in 1 .. i - 1
                  PROVE  /\ Readable(t[j]) /\ Record(t[j][1]) /\ t[j][1].seq = j
                         /\ LinksUp(t, j) /\ HashMatches(t[j][1])
      OBVIOUS
    <3>1. LinksUp(t, j) <=> LinksUp(ls, j)
      BY <2>3 DEF LinksUp, ExpectedPrev
    <3>. QED  BY <1>2, <1>3, <2>1, <2>3, <3>1
  <2>5. \A j \in 1 .. i : Readable(t[j]) /\ Record(t[j][1]) /\ t[j][1].seq \in Nat
    <3>1. \A j \in 1 .. i : j = i \/ j \in 1 .. i - 1
      BY <1>1
    <3>2. i + 1 \in Nat /\ \A j \in 1 .. i - 1 : j \in Nat
      BY <1>1
    <3>. QED  BY <2>2, <2>4, <3>1, <3>2
  <2>6. ~LinksUp(t, i)
    \* It links to the digest of the entry numbered i.
    <3>1. /\ ls[i + 1][1].prev = ls[i][1].hash /\ HashMatches(ls[i][1]) /\ ls[i][1].seq = i
      <4>1. i + 1 - 1 = i /\ i \in 1 .. Len(ls)
        BY <1>1
      <4>. QED  BY <1>2, <2>1, <4>1
    <3>2. CASE i = 1
      <4>1. ExpectedPrev(t, i) = Genesis
        BY <3>2 DEF ExpectedPrev
      <4>. QED  BY <2>2, <3>1, <4>1, DigestIsNotGenesis DEF LinksUp, HashMatches
    <3>3. CASE i # 1
      <4>1. i - 1 \in 1 .. i - 1 /\ i - 1 # i
        BY <1>1, <3>3
      <4>2. Readable(t[i - 1]) /\ HashMatches(t[i - 1][1]) /\ t[i - 1][1].seq = i - 1
        BY <2>4, <4>1
      <4>3. ExpectedPrev(t, i) = t[i - 1][1].hash
        BY <3>3, <4>2 DEF ExpectedPrev
      <4>. QED  BY <2>2, <3>1, <4>1, <4>2, <4>3, DigestsDiffer DEF LinksUp, HashMatches
    <3>. QED  BY <3>2, <3>3
  <2>7. t[i][1].seq >= i
    BY <1>1, <2>2
  <2>. QED  BY <2>1, <2>4, <2>5, <2>6, <2>7 DEF Scarred
<1>. QED  BY <1>7, <1>8, <1>9 DEF ls, a, b, t

-----------------------------------------------------------------------------
(***************************************************************************)
(* The invariant of the edited file: until the edit it is the sink's, but  *)
(* for what was acknowledged, then the scar is there.                      *)
(***************************************************************************)
FlushedTail == ePc = "flushed" => eDisk.nl /\ eStable < Len(eDisk.lines)

TamperInv ==
  /\ FileShape(eDisk, eStable)
  /\ FlushedTail
  /\ edited \in Nat
  /\ edited = 0 => SinkInv(eDisk, eStable, {}, eMode, ePc, eEntry, eSeq, ePreviousHash, eFailed, eCalls)
  /\ edited # 0 => Scarred(eDisk.lines, eStable, edited)

LEMMA SinkHasShape ==
  ASSUME NEW d, NEW st, NEW acks, NEW m, NEW p, NEW en, NEW sq, NEW ph, NEW fl, NEW made,
         SinkInv(d, st, acks, m, p, en, sq, ph, fl, made)
  PROVE  FileShape(d, st)
BY DEF SinkInv, FileInv, LoggedFile, FileShape

LEMMA InitTamper == Edit!TamperInit => TamperInv
<1>. SUFFICES ASSUME Edit!TamperInit PROVE TamperInv
  OBVIOUS
<1>1. SinkInv(eDisk, eStable, {}, eMode, ePc, eEntry, eSeq, ePreviousHash, eFailed, eCalls)
  BY SinkStarts, SameHead DEF Edit!TamperInit, Edit!Init
<1>2. edited = 0 /\ ePc = "idle"
  BY DEF Edit!TamperInit, Edit!Init
<1>. QED  BY <1>1, <1>2, SinkHasShape DEF TamperInv, FlushedTail

\* Before the edit every step of the sink keeps the sink's invariant.
LEMMA EditedSinkSteps ==
  ASSUME SinkInv(eDisk, eStable, {}, eMode, ePc, eEntry, eSeq, ePreviousHash, eFailed, eCalls),
         Edit!Next
  PROVE  SinkInv(eDisk, eStable, {}, eMode, ePc, eEntry, eSeq, ePreviousHash, eFailed, eCalls)'
<1>1. CASE Edit!LogBuffer
  <2>1. SinkInv(eDisk, eStable, {}, eMode, "idle", eEntry, eSeq, ePreviousHash, FALSE, eCalls)
        /\ eMode # "down"
    BY <1>1 DEF Edit!LogBuffer, SinkInv, SinkType
  <2>2. LET e == Edit!NextEntry
        IN  SinkInv(eDisk, eStable, {}, eMode, "buffered", <<e>>, e.seq, e.hash, FALSE, eCalls + 1)
    BY <2>1, SinkBuffers, SameHead
  <2>3. ~eFailed /\ eFailed \in BOOLEAN
    BY <1>1 DEF Edit!LogBuffer, SinkInv, SinkType
  <2>. QED  BY <1>1, <2>2, <2>3 DEF Edit!LogBuffer, Edit!Stamp
<1>2. CASE Edit!LogRejected
  <2>1. SinkInv(eDisk, eStable, {}, eMode, "idle", eEntry, eSeq, ePreviousHash, TRUE, eCalls)
    BY <1>2 DEF Edit!LogRejected, SinkInv, SinkType
  <2>2. LET e == Edit!NextEntry
        IN  SinkInv(eDisk, eStable, {}, eMode, "idle", eEntry, e.seq, e.hash, TRUE, eCalls + 1)
    BY <2>1, SinkRejects, SameHead
  <2>3. eFailed /\ eFailed \in BOOLEAN
    BY <1>2 DEF Edit!LogRejected, SinkInv, SinkType
  <2>. QED  BY <1>2, <2>2, <2>3 DEF Edit!LogRejected, Edit!Stamp
<1>3. CASE Edit!Flush
  BY <1>3, SinkFlushes, SameDisk DEF Edit!Flush, Edit!Writing
<1>4. CASE Edit!FlushFails
  BY <1>4, SinkFlushFails, SameDisk DEF Edit!FlushFails
<1>5. CASE Edit!Sync
  <2>1. SinkInv(eDisk, Len(eDisk.lines), {} \cup {}, eMode, "idle", <<>>, eSeq, ePreviousHash, eFailed, eCalls)
    BY <1>5, SinkSyncs DEF Edit!Sync
  <2>2. {} \cup {} = {}
    OBVIOUS
  <2>. QED  BY <1>5, <2>1, <2>2 DEF Edit!Sync
<1>6. CASE Edit!SyncFails
  BY <1>6, SinkSyncFails DEF Edit!SyncFails
<1>7. CASE Edit!Close
  BY <1>7, SinkCloses DEF Edit!Close
<1>8. CASE Edit!ProcessDies
  <2>1. FileInv(eDisk', eStable, {}, eCalls)
    <3>1. CASE Edit!Writing
      BY <1>8, <3>1, FlightKeeps, SameDisk DEF Edit!ProcessDies, Edit!Writing
    <3>2. CASE ~Edit!Writing
      BY <1>8, <3>2 DEF Edit!ProcessDies, SinkInv
    <3>. QED  BY <3>1, <3>2
  <2>. QED  BY <1>8, <2>1, SinkDies, SameHead DEF Edit!ProcessDies, Edit!Die
<1>9. CASE Edit!PowerLoss
  <2>. DEFINE d == IF Edit!Writing THEN Landed(eDisk, eEntry[1], "line") ELSE eDisk
  <2>1. FileInv(d, eStable, {}, eCalls)
    BY FlightKeeps DEF Parts, Edit!Writing, SinkInv
  <2>2. eDisk' \in Survivors(d, eStable)
    BY <1>9, SameDisk DEF Edit!PowerLoss
  <2>. HIDE DEF d
  <2>3. FileInv(eDisk', eStable, {}, eCalls)
    BY <2>1, <2>2, SurvivorsKeep
  <2>. QED  BY <1>9, <2>3, SinkDies, SameHead DEF Edit!PowerLoss, Edit!Die
<1>10. CASE Edit!Restart
  BY <1>10, SinkRestarts, SameHead DEF Edit!Restart
<1>. QED
  BY <1>1, <1>2, <1>3, <1>4, <1>5, <1>6, <1>7, <1>8, <1>9, <1>10 DEF Edit!Next

\* Before and after the edit every step of the sink keeps the stable lines.
LEMMA ScarredSinkSteps ==
  ASSUME FileShape(eDisk, eStable), FlushedTail, Edit!Next
  PROVE  /\ FileShape(eDisk', eStable') /\ FlushedTail'
         /\ eStable <= eStable'
         /\ \A j \in 1 .. eStable : eDisk'.lines[j] = eDisk.lines[j]
<1>. USE DEF FlushedTail
<1>1. /\ eDisk.lines \in Seq(Range(eDisk.lines)) /\ Len(eDisk.lines) \in Nat /\ eDisk.nl \in BOOLEAN
      /\ eStable \in Nat /\ eStable <= Len(eDisk.lines)
  BY LenProperties DEF FileShape
<1>2. CASE Edit!LogBuffer \/ Edit!LogRejected \/ Edit!SyncFails \/ Edit!Close \/ Edit!Restart
  BY <1>1, <1>2 DEF Edit!LogBuffer, Edit!LogRejected, Edit!SyncFails, Edit!Close, Edit!Restart
<1>3. CASE Edit!Flush
  <2>1. eDisk' = Landed(eDisk, eEntry[1], "line") /\ eStable' = eStable
    BY <1>3, SameDisk DEF Edit!Flush
  <2>. QED  BY <1>1, <2>1, LandedShape DEF Parts
<1>4. CASE Edit!FlushFails
  <2>1. PICK part \in Parts : eDisk' = Landed(eDisk, eEntry[1], part)
    BY <1>4, SameDisk DEF Edit!FlushFails
  <2>2. eStable' = eStable /\ ePc' = "idle"
    BY <1>4 DEF Edit!FlushFails
  <2>. QED  BY <1>1, <2>1, <2>2, LandedShape
<1>5. CASE Edit!Sync
  BY <1>1, <1>5 DEF Edit!Sync, FileShape
<1>6. CASE Edit!ProcessDies
  <2>1. eStable' = eStable /\ ePc' = "idle"
    BY <1>6 DEF Edit!ProcessDies, Edit!Die
  <2>2. CASE Edit!Writing
    <3>1. PICK part \in Parts : eDisk' = Landed(eDisk, eEntry[1], part)
      BY <1>6, <2>2, SameDisk DEF Edit!ProcessDies
    <3>. QED  BY <1>1, <2>1, <3>1, LandedShape
  <2>3. CASE ~Edit!Writing
    <3>1. eDisk' = eDisk
      BY <1>6, <2>3 DEF Edit!ProcessDies
    <3>. QED  BY <1>1, <2>1, <3>1
  <2>. QED  BY <2>2, <2>3
<1>7. CASE Edit!PowerLoss
  <2>. DEFINE d == IF Edit!Writing THEN Landed(eDisk, eEntry[1], "line") ELSE eDisk
  <2>1. FileShape(d, eStable) /\ \A j \in 1 .. eStable : d.lines[j] = eDisk.lines[j]
    BY LandedShape DEF Parts
  <2>2. eDisk' \in Survivors(d, eStable)
    BY <1>7, SameDisk DEF Edit!PowerLoss
  <2>. HIDE DEF d
  <2>3. FileShape(eDisk', eStable) /\ \A j \in 1 .. eStable : eDisk'.lines[j] = d.lines[j]
    BY <2>1, <2>2, SurvivorShape
  <2>4. eStable' = eStable /\ ePc' = "idle"
    BY <1>7 DEF Edit!PowerLoss, Edit!Die
  <2>. QED  BY <1>1, <2>1, <2>3, <2>4
<1>. QED  BY <1>2, <1>3, <1>4, <1>5, <1>6, <1>7 DEF Edit!Next

LEMMA EditedLineScars ==
  ASSUME TamperInv, Edit!EditField
  PROVE  TamperInv'
<1>1. PICK i \in Edit!Editable :
        /\ \E e \in Edit!EditsOf(eDisk.lines[i][1]) : eDisk' = [eDisk EXCEPT !.lines[i] = <<e>>]
        /\ edited' = eDisk.lines[i][1].seq
  BY DEF Edit!EditField
<1>2. PICK e \in Edit!EditsOf(eDisk.lines[i][1]) : eDisk' = [eDisk EXCEPT !.lines[i] = <<e>>]
  BY <1>1
<1>3. edited = 0 /\ eStable' = eStable /\ ePc' = ePc
  BY DEF Edit!EditField, Edit!sinkVars
<1>4. FileInv(eDisk, eStable, {}, eCalls) /\ FileShape(eDisk, eStable) /\ FlushedTail
  BY <1>3 DEF TamperInv, SinkInv
<1>5. i \in 1 .. eStable /\ \A j \in DOMAIN eDisk.lines : Readable(eDisk.lines[j])
  BY DEF Edit!Editable, Edit!Readable, Readable, Edit!Corrupt, Corrupt
<1>. DEFINE t == [eDisk.lines EXCEPT ![i] = <<e>>]
<1>6. eDisk' = [lines |-> t, nl |-> eDisk.nl]
  <2>1. eDisk = [lines |-> eDisk.lines, nl |-> eDisk.nl]
    BY <1>4 DEF FileInv
  <2>. QED  BY <1>2, <2>1
<1>7. t \in Seq(Range(t)) /\ Len(t) = Len(eDisk.lines) /\ Scarred(t, eStable, i)
  BY <1>4, <1>5, EditScars
<1>8. edited' = i /\ i # 0 /\ i \in Nat
  <2>1. i \in 1 .. Len(eDisk.lines) /\ i \in Nat /\ i # 0
    BY <1>4, <1>5, LenProperties DEF FileShape
  <2>. QED  BY <1>1, <1>4, <1>5, <2>1, WholeFile
<1>. HIDE DEF t
<1>9. FileShape(eDisk', eStable') /\ FlushedTail' /\ eDisk'.lines = t
  BY <1>3, <1>4, <1>6, <1>7 DEF FileShape, FlushedTail
<1>. QED  BY <1>3, <1>7, <1>8, <1>9 DEF TamperInv

LEMMA RemovedLineScars ==
  ASSUME TamperInv, Edit!RemoveLine
  PROVE  TamperInv'
<1>1. PICK i \in Edit!Editable \ {eStable} :
        /\ eDisk' = [eDisk EXCEPT !.lines = SubSeq(eDisk.lines, 1, i - 1) \o
                                            SubSeq(eDisk.lines, i + 1, Len(eDisk.lines))]
        /\ edited' = eDisk.lines[i][1].seq
  BY DEF Edit!RemoveLine
<1>2. edited = 0 /\ eStable' = eStable - 1 /\ ePc' = ePc
  BY DEF Edit!RemoveLine, Edit!sinkVars
<1>3. FileInv(eDisk, eStable, {}, eCalls) /\ FileShape(eDisk, eStable) /\ FlushedTail
  BY <1>2 DEF TamperInv, SinkInv
<1>4. Len(eDisk.lines) \in Nat /\ eStable \in 0 .. Len(eDisk.lines)
  BY <1>3, LenProperties DEF FileShape
<1>5. i \in 1 .. eStable - 1 /\ \A j \in DOMAIN eDisk.lines : Readable(eDisk.lines[j])
  <2>1. i \in 1 .. eStable /\ i # eStable
    BY DEF Edit!Editable
  <2>2. \A j \in DOMAIN eDisk.lines : Readable(eDisk.lines[j])
    BY DEF Edit!Editable, Edit!Readable, Readable, Edit!Corrupt, Corrupt
  <2>. QED  BY <1>4, <2>1, <2>2
<1>. DEFINE t == SubSeq(eDisk.lines, 1, i - 1) \o SubSeq(eDisk.lines, i + 1, Len(eDisk.lines))
<1>6. eDisk' = [lines |-> t, nl |-> eDisk.nl]
  <2>1. eDisk = [lines |-> eDisk.lines, nl |-> eDisk.nl]
    BY <1>3 DEF FileInv
  <2>. QED  BY <1>1, <2>1
<1>7. t \in Seq(Range(t)) /\ Len(t) = Len(eDisk.lines) - 1 /\ Scarred(t, eStable - 1, i)
  BY <1>3, <1>5, RemovalScars
<1>8. edited' = i /\ i # 0 /\ i \in Nat
  <2>1. i \in 1 .. Len(eDisk.lines) /\ i \in Nat /\ i # 0
    BY <1>4, <1>5
  <2>2. eDisk.lines[i][1].seq = i
    <3>. HIDE DEF t
    <3>. QED  BY <1>3, <1>5, <2>1, WholeFile
  <2>. QED  BY <1>1, <2>1, <2>2
<1>. HIDE DEF t
<1>9. FileShape(eDisk', eStable') /\ FlushedTail' /\ eDisk'.lines = t
  BY <1>2, <1>3, <1>4, <1>5, <1>6, <1>7 DEF FileShape, FlushedTail
<1>. QED  BY <1>2, <1>7, <1>8, <1>9 DEF TamperInv

\* An edit of what the hash does not tell, of one line.
LEMMA RestOf ==
  ASSUME NEW e, Record(e)
  PROVE  LET x == [e EXCEPT !.rest = 1]
         IN  /\ Record(x) /\ x.seq = e.seq /\ x.prev = e.prev /\ x.body = e.body /\ x.hash = e.hash
BY DEF Record

\* The lines t are ls, but for what the hash does not tell.
AlikeLine(a, b) ==
  /\ Readable(a) <=> Readable(b)
  /\ Readable(a) => /\ b = <<b[1]>> /\ Record(b[1])
                    /\ b[1].seq = a[1].seq /\ b[1].prev = a[1].prev
                    /\ b[1].body = a[1].body /\ b[1].hash = a[1].hash

Alike(ls, t, n) == \A j \in 1 .. n : AlikeLine(ls[j], t[j])

\* The disk x is d with the line l in the place of line i.
LineEdited(d, x, i, l) ==
  /\ Len(x.lines) = Len(d.lines) /\ x.nl = d.nl
  /\ \A j \in 1 .. Len(d.lines) : x.lines[j] = IF j = i THEN l ELSE d.lines[j]

LEMMA RestEditDoes ==
  ASSUME NEW d, NEW st, FileShape(d, st), NEW i \in 1 .. st, NEW l,
         NEW x, x = [d EXCEPT !.lines[i] = l]
  PROVE  FileShape(x, st) /\ LineEdited(d, x, i, l)
<1>. DEFINE ls == d.lines    t == [ls EXCEPT ![i] = l]
<1>1. /\ d = [lines |-> ls, nl |-> d.nl] /\ ls \in Seq(Range(ls)) /\ Len(ls) \in Nat
      /\ st \in 0 .. Len(ls) /\ i \in 1 .. Len(ls) /\ d.nl \in BOOLEAN /\ (~d.nl => st < Len(ls))
  BY LenProperties DEF FileShape
<1>2. x = [lines |-> t, nl |-> d.nl]
  BY <1>1
<1>3. /\ t \in Seq(Range(t)) /\ Len(t) = Len(ls)
      /\ \A j \in 1 .. Len(ls) : t[j] = IF j = i THEN l ELSE ls[j]
  <2>. DEFINE S == Range(ls) \cup {l}
  <2>1. ls \in Seq(S) /\ l \in S
    BY <1>1, SeqMonotonic
  <2>. HIDE DEF S
  <2>2. /\ t \in Seq(S) /\ Len(t) = Len(ls)
        /\ \A j \in 1 .. Len(ls) : t[j] = IF j = i THEN l ELSE ls[j]
    BY <1>1, <2>1, ExceptSeq
  <2>. QED  BY <2>2, OwnRange
<1>. HIDE DEF t
<1>4. x.lines = t /\ x.nl = d.nl
  BY <1>2
<1>5. x = [lines |-> x.lines, nl |-> x.nl]
  BY <1>2, <1>4
<1>6. FileShape(x, st)
  BY <1>1, <1>3, <1>4, <1>5 DEF FileShape
<1>. QED  BY <1>3, <1>4, <1>6 DEF LineEdited

LEMMA AlikeKeepsFile ==
  ASSUME NEW d, NEW st, NEW made, FileInv(d, st, {}, made), NEW x, FileShape(x, st),
         Len(x.lines) = Len(d.lines), Alike(d.lines, x.lines, Len(d.lines))
  PROVE  FileInv(x, st, {}, made)
<1>. DEFINE ls == d.lines    t == x.lines
<1>1. Len(ls) \in Nat /\ LoggedFile(ls, made) /\ Chained(ls)
  BY LenProperties DEF FileInv, LoggedFile
<1>2. \A j \in 1 .. Len(ls) : AlikeLine(ls[j], t[j]) /\ LoggedLine(ls[j], made)
  BY <1>1 DEF Alike, LoggedFile
<1>3. \A j \in 1 .. Len(ls) : LoggedLine(t[j], made)
  BY <1>2 DEF AlikeLine, LoggedLine, Logged
<1>4. LoggedFile(t, made)
  BY <1>3 DEF LoggedFile, FileShape
<1>5. Chained(t)
  <2>1. \A j \in 1 .. Len(t) : Readable(t[j]) => HashMatches(t[j][1])
    BY <1>1, <1>2 DEF Chained, AlikeLine, HashMatches
  <2>2. Len(t) > 0 /\ Readable(t[1]) => t[1][1].seq = 1 /\ t[1][1].prev = Genesis
    <3>1. Len(t) > 0 => 1 \in 1 .. Len(ls)
      BY <1>1
    <3>. QED  BY <1>1, <1>2, <3>1 DEF Chained, AlikeLine
  <2>3. ASSUME NEW j \in 2 .. Len(t), Readable(t[j - 1]), Readable(t[j])
        PROVE  t[j][1].prev = t[j - 1][1].hash /\ t[j][1].seq = t[j - 1][1].seq + 1
    <3>1. j \in 1 .. Len(ls) /\ j - 1 \in 1 .. Len(ls) /\ j \in 2 .. Len(ls)
      BY <1>1
    <3>2. AlikeLine(ls[j], t[j]) /\ AlikeLine(ls[j - 1], t[j - 1])
      BY <1>2, <3>1
    <3>3. Readable(ls[j]) /\ Readable(ls[j - 1])
      BY <2>3, <3>2 DEF AlikeLine
    <3>4. ls[j][1].prev = ls[j - 1][1].hash /\ ls[j][1].seq = ls[j - 1][1].seq + 1
      BY <1>1, <3>1, <3>3 DEF Chained
    <3>. QED  BY <3>2, <3>3, <3>4 DEF AlikeLine
  <2>. QED  BY <2>1, <2>2, <2>3 DEF Chained
<1>. QED  BY <1>4, <1>5 DEF FileInv, FileShape

LEMMA AlikeKeepsHead ==
  ASSUME NEW d, NEW st, NEW made, NEW m, NEW p, NEW en, NEW sq, NEW ph, NEW fl,
         SinkInv(d, st, {}, m, p, en, sq, ph, fl, made), NEW x, FileShape(x, st), x.nl = d.nl,
         Len(x.lines) = Len(d.lines), Alike(d.lines, x.lines, Len(d.lines)),
         p = "flushed" => x.lines[Len(d.lines)] = d.lines[Len(d.lines)]
  PROVE  SinkInv(x, st, {}, m, p, en, sq, ph, fl, made)
<1>. DEFINE ls == d.lines    t == x.lines
<1>1. FileInv(d, st, {}, made) /\ Len(ls) \in Nat /\ ls \in Seq(Range(ls)) /\ t \in Seq(Range(t))
  BY LenProperties DEF SinkInv, FileInv, LoggedFile, FileShape
<1>2. FileInv(x, st, {}, made)
  BY <1>1, AlikeKeepsFile
<1>3. (ls = <<>> <=> Len(ls) = 0) /\ (t = <<>> <=> Len(t) = 0)
  BY <1>1, EmptySeq
<1>4. ASSUME NEW s, NEW h, Continues(ls, s, h) PROVE Continues(t, s, h)
  <2>1. t = <<>> <=> ls = <<>>
    BY <1>3
  <2>2. ls # <<>> => AlikeLine(ls[Len(ls)], t[Len(t)])
    <3>1. ls # <<>> => Len(ls) \in 1 .. Len(ls)
      BY <1>1, <1>3
    <3>. QED  BY <3>1 DEF Alike
  <2>. QED  BY <1>4, <2>1, <2>2 DEF Continues, AlikeLine
<1>5. HeadInv(x, m, p, en, sq, ph, fl)
  <2>1. HeadInv(d, m, p, en, sq, ph, fl)
    BY DEF SinkInv
  <2>2. t = <<>> <=> ls = <<>>
    BY <1>3
  <2>. QED  BY <1>4, <2>1, <2>2 DEF HeadInv
<1>. QED  BY <1>2, <1>5 DEF SinkInv

LEMMA AlikeKeepsScar ==
  ASSUME NEW ls, NEW st \in Nat, NEW k, Scarred(ls, st, k), NEW n \in Nat, st <= n, NEW t,
         NEW i, NEW x, x = [ls[i][1] EXCEPT !.rest = 1],
         \A j \in 1 .. n : t[j] = IF j = i THEN <<x>> ELSE ls[j]
  PROVE  Scarred(t, st, k)
<1>1. k \in 1 .. st /\ k \in Nat /\ \A j \in 1 .. k : j \in 1 .. n /\ Readable(ls[j]) /\ Record(ls[j][1])
  BY DEF Scarred
<1>2. ASSUME NEW j \in 1 .. k
      PROVE  Readable(t[j]) /\ Record(t[j][1]) /\ t[j][1].seq = ls[j][1].seq
             /\ t[j][1].prev = ls[j][1].prev /\ t[j][1].hash = ls[j][1].hash
             /\ t[j][1].body = ls[j][1].body
  <2>1. CASE j = i
    <3>1. t[j] = <<x>> /\ Record(ls[j][1])
      BY <1>1, <2>1
    <3>2. Record(x) /\ x.seq = ls[j][1].seq /\ x.prev = ls[j][1].prev /\ x.body = ls[j][1].body /\ x.hash = ls[j][1].hash
      BY <2>1, <3>1, RestOf
    <3>3. Readable(<<x>>) /\ <<x>>[1] = x
      BY DEF Readable, Corrupt
    <3>. QED  BY <3>1, <3>2, <3>3
  <2>2. CASE j # i
    BY <1>1, <2>2
  <2>. QED  BY <2>1, <2>2
<1>3. ASSUME NEW j \in 1 .. k
      PROVE  /\ LinksUp(t, j) <=> LinksUp(ls, j)
             /\ HashMatches(t[j][1]) <=> HashMatches(ls[j][1])
  <2>1. HashMatches(t[j][1]) <=> HashMatches(ls[j][1])
    BY <1>2 DEF HashMatches
  <2>2. ExpectedPrev(t, j) = ExpectedPrev(ls, j)
    <3>1. j # 1 => j - 1 \in 1 .. k
      BY <1>1
    <3>. QED  BY <1>1, <1>2, <3>1 DEF ExpectedPrev
  <2>. QED  BY <1>2, <2>1, <2>2 DEF LinksUp
<1>4. k \in 1 .. k /\ \A j \in 1 .. k - 1 : j \in 1 .. k
  BY <1>1
<1>. QED  BY <1>1, <1>2, <1>3, <1>4 DEF Scarred

LEMMA EditedRestKeeps ==
  ASSUME TamperInv, Edit!EditRest
  PROVE  TamperInv'
<1>1. PICK i \in 1 .. eStable :
        /\ Readable(eDisk.lines[i])
        /\ eDisk' = [eDisk EXCEPT !.lines[i] = <<[eDisk.lines[i][1] EXCEPT !.rest = 1]>>]
  BY DEF Edit!EditRest, Edit!Readable, Readable, Edit!Corrupt, Corrupt
<1>2. UNCHANGED <<eStable, eMode, ePc, eEntry, eSeq, ePreviousHash, eFailed, eCalls, edited>>
  BY DEF Edit!EditRest, Edit!sinkVars
<1>. DEFINE ls == eDisk.lines    x == [ls[i][1] EXCEPT !.rest = 1]    t == eDisk'.lines
<1>3. /\ FileShape(eDisk, eStable) /\ FlushedTail /\ eStable \in Nat /\ eStable <= Len(ls)
      /\ Len(ls) \in Nat /\ i \in 1 .. Len(ls)
  BY LenProperties DEF TamperInv, FileShape
<1>4. /\ FileShape(eDisk', eStable) /\ Len(t) = Len(ls) /\ eDisk'.nl = eDisk.nl
      /\ \A j \in 1 .. Len(ls) : t[j] = IF j = i THEN <<x>> ELSE ls[j]
  <2>. DEFINE l == <<x>>
  <2>1. eDisk' = [eDisk EXCEPT !.lines[i] = l]
    BY <1>1
  <2>. HIDE DEF l
  <2>2. FileShape(eDisk', eStable) /\ LineEdited(eDisk, eDisk', i, l)
    BY <1>3, <2>1, RestEditDoes
  <2>. QED  BY <2>2 DEF l, LineEdited
<1>5. FlushedTail'
  BY <1>2, <1>3, <1>4 DEF FlushedTail
<1>6. ASSUME edited = 0
      PROVE  SinkInv(eDisk', eStable, {}, eMode, ePc, eEntry, eSeq, ePreviousHash, eFailed, eCalls)
  <2>1. SinkInv(eDisk, eStable, {}, eMode, ePc, eEntry, eSeq, ePreviousHash, eFailed, eCalls)
    BY <1>6 DEF TamperInv
  <2>2. \A j \in 1 .. Len(ls) : LoggedLine(ls[j], eCalls)
    BY <2>1 DEF SinkInv, FileInv, LoggedFile
  <2>. HIDE DEF x
  <2>3. Record(x) /\ x.seq = ls[i][1].seq /\ x.prev = ls[i][1].prev /\ x.body = ls[i][1].body /\ x.hash = ls[i][1].hash
    <3>1. Record(ls[i][1])
      BY <1>1, <1>3, <2>2 DEF LoggedLine, Logged
    <3>. QED  BY <3>1, RestOf DEF x
  <2>4. Alike(ls, t, Len(ls))
    <3>. SUFFICES ASSUME NEW j \in 1 .. Len(ls) PROVE AlikeLine(ls[j], t[j])
      BY DEF Alike
    <3>1. CASE j = i
      <4>1. Readable(<<x>>) /\ <<x>>[1] = x /\ t[j] = <<x>>
        BY <1>4, <3>1 DEF Readable, Corrupt
      <4>. QED  BY <1>1, <2>3, <3>1, <4>1 DEF AlikeLine
    <3>2. CASE j # i
      <4>1. t[j] = ls[j]
        BY <1>4, <3>2
      <4>. QED  BY <2>2, <4>1 DEF AlikeLine, LoggedLine, Logged
    <3>. QED  BY <3>1, <3>2
  <2>5. ePc = "flushed" => t[Len(ls)] = ls[Len(ls)]
    <3>1. ePc = "flushed" => Len(ls) \in 1 .. Len(ls) /\ Len(ls) # i
      BY <1>3 DEF FlushedTail
    <3>. QED  BY <1>4, <3>1
  <2>. QED  BY <1>4, <2>1, <2>4, <2>5, AlikeKeepsHead
<1>7. ASSUME edited # 0 PROVE Scarred(t, eStable, edited)
  <2>. DEFINE n == Len(ls)
  <2>1. Scarred(ls, eStable, edited)
    BY <1>7 DEF TamperInv
  <2>2. n \in Nat /\ eStable \in Nat /\ eStable <= n
    BY <1>3
  <2>3. x = [ls[i][1] EXCEPT !.rest = 1]
    OBVIOUS
  <2>4. \A j \in 1 .. n : t[j] = IF j = i THEN <<x>> ELSE ls[j]
    BY <1>4
  <2>. HIDE DEF n, ls, x, t
  <2>. QED  BY <2>1, <2>2, <2>3, <2>4, AlikeKeepsScar
<1>8. edited \in Nat
  BY DEF TamperInv
<1>. QED  BY <1>2, <1>4, <1>5, <1>6, <1>7, <1>8 DEF TamperInv

LEMMA NextTamper == TamperInv /\ Edit!TamperNext => TamperInv'
<1>. SUFFICES ASSUME TamperInv, Edit!TamperNext PROVE TamperInv'
  OBVIOUS
<1>1. CASE Edit!EditField
  BY <1>1, EditedLineScars
<1>2. CASE Edit!RemoveLine
  BY <1>2, RemovedLineScars
<1>3. CASE Edit!EditRest
  BY <1>3, EditedRestKeeps
<1>4. CASE Edit!Next /\ UNCHANGED edited
  <2>1. FileShape(eDisk, eStable) /\ FlushedTail /\ edited \in Nat
    BY DEF TamperInv
  <2>2. /\ FileShape(eDisk', eStable') /\ FlushedTail'
        /\ eStable <= eStable'
        /\ \A j \in 1 .. eStable : eDisk'.lines[j] = eDisk.lines[j]
    BY <1>4, <2>1, ScarredSinkSteps
  <2>3. CASE edited = 0
    <3>1. SinkInv(eDisk, eStable, {}, eMode, ePc, eEntry, eSeq, ePreviousHash, eFailed, eCalls)'
      BY <1>4, <2>3, EditedSinkSteps DEF TamperInv
    <3>. QED  BY <1>4, <2>2, <2>3, <3>1 DEF TamperInv
  <2>4. CASE edited # 0
    <3>1. Scarred(eDisk.lines, eStable, edited)
      BY <2>4 DEF TamperInv
    <3>2. eStable \in Nat /\ eStable' \in Nat
      BY <2>1, <2>2, LenProperties DEF FileShape
    <3>3. Scarred(eDisk'.lines, eStable', edited)
      BY <2>2, <3>1, <3>2, ScarStays
    <3>. QED  BY <1>4, <2>1, <2>2, <2>4, <3>3 DEF TamperInv
  <2>. QED  BY <2>3, <2>4
<1>. QED  BY <1>1, <1>2, <1>3, <1>4 DEF Edit!TamperNext

LEMMA TamperIsSeen == TamperInv => Edit!EditStaysVisible /\ Edit!BlamesNoEarlier
<1>. SUFFICES ASSUME TamperInv, edited # 0
              PROVE  /\ \A from \in 0 .. edited : Edit!Verify(eDisk.lines, from) # -1
                     /\ Edit!Verify(eDisk.lines, 0) >= edited
  BY DEF Edit!EditStaysVisible, Edit!BlamesNoEarlier
<1>1. /\ eDisk.lines \in Seq(Range(eDisk.lines)) /\ eStable \in 0 .. Len(eDisk.lines)
      /\ Scarred(eDisk.lines, eStable, edited)
  BY DEF TamperInv, FileShape
<1>. QED  BY <1>1, ScarIsSeen, SameVerdict

\* A file in which every line can be read, with no scar, is one chain.
LEMMA RestIsNotSeen == TamperInv => Edit!RestGoesUnseen
<1>. DEFINE ls == eDisk.lines
<1>. SUFFICES ASSUME TamperInv, edited = 0, \A i \in DOMAIN ls : Readable(ls[i]),
                     NEW from \in 0 .. EditCalls
              PROVE  Edit!Verify(ls, from) = -1
  BY DEF Edit!RestGoesUnseen, Edit!Readable, Readable, Edit!Corrupt, Corrupt
<1>1. FileInv(eDisk, eStable, {}, eCalls)
  BY DEF TamperInv, SinkInv
<1>2. DOMAIN ls = 1 .. Len(ls)
  BY <1>1, LenProperties DEF FileInv, LoggedFile
<1>3. \A i \in 1 .. Len(ls) : LinksUp(ls, i) /\ HashMatches(ls[i][1])
  BY <1>1, WholeFile
<1>4. Broken(ls, from) = {}
  BY <1>2, <1>3 DEF Broken, StopsAt
<1>. QED  BY <1>4, SameVerdict DEF Verify

\* The half of the promise that is about edits (hashchain.go:19-21, 173-185).
LEMMA EditsAreSeen ==
  AllSpec => [](Edit!EditStaysVisible /\ Edit!BlamesNoEarlier /\ Edit!RestGoesUnseen)
<1>1. AllInit => TamperInv
  BY InitTamper DEF AllInit
<1>2. TamperInv /\ [SinkMoves \/ EditMoves \/ ReadMoves]_allVars => TamperInv'
  <2>. SUFFICES ASSUME TamperInv, [SinkMoves \/ EditMoves \/ ReadMoves]_allVars PROVE TamperInv'
    OBVIOUS
  <2>1. CASE UNCHANGED editVars
    BY <2>1 DEF editVars, TamperInv, FlushedTail
  <2>2. CASE EditMoves
    BY <2>2, NextTamper DEF EditMoves
  <2>. QED  BY <2>1, <2>2 DEF SinkMoves, ReadMoves, allVars
<1>. QED  BY <1>1, <1>2, TamperIsSeen, RestIsNotSeen, PTL DEF AllSpec

-----------------------------------------------------------------------------
(***************************************************************************)
(* The readers of a file nobody edits (AuditReaders, as MCAudit's Read).   *)
(***************************************************************************)
LEMMA SameReading ==
  /\ \A ls : Read!ResumedSeq(ls) = ResumedSeq(ls) /\ Read!ResumedHash(ls) = ResumedHash(ls)
  /\ \A s, p, b : Read!Entry(s, p, b) = Entry(s, p, b)
  /\ \A e : Read!HashMatches(e) <=> HashMatches(e)
  /\ Read!Genesis = Genesis /\ Read!Corrupt = Corrupt
<1>1. \A ls : Read!LastReadable(ls) = LastReadable(ls)
  BY DEF Read!LastReadable, LastReadable, Read!Readable, Readable, Read!Corrupt, Corrupt, Read!Max, Max
<1>2. \A ls : Read!ResumedSeq(ls) = ResumedSeq(ls) /\ Read!ResumedHash(ls) = ResumedHash(ls)
  BY <1>1 DEF Read!ResumedSeq, ResumedSeq, Read!ResumedHash, ResumedHash, Read!Genesis, Genesis
<1>3. \A s, p, b : Read!Entry(s, p, b) = Entry(s, p, b)
  BY DEF Read!Entry, Entry, Read!Digest, Digest
<1>4. \A e : Read!HashMatches(e) <=> HashMatches(e)
  BY DEF Read!HashMatches, HashMatches, Read!Digest, Digest
<1>. QED  BY <1>2, <1>3, <1>4 DEF Read!Genesis, Genesis, Read!Corrupt, Corrupt

\* The hash behind line n.
HashAt(ls, n) == IF n = 0 THEN Genesis ELSE ls[n][1].hash

\* The file is one chain of numbered entries that can be read.
LogFile(ls) ==
  /\ LoggedFile(ls, ReadCalls) /\ Chained(ls)
  /\ \A i \in 1 .. Len(ls) : /\ Readable(ls[i]) /\ ls[i][1].seq = i
                             /\ ls[i][1].prev = HashAt(ls, i - 1)

\* The line being written continues the file, and the sink's head is its entry.
HalfLine(ls, w, sk, sq, ph) ==
  /\ sk = "up" /\ w = <<w[1]>>
  /\ Logged(w[1], ReadCalls) /\ HashMatches(w[1])
  /\ w[1].seq = Len(ls) + 1 /\ Continues(ls, Len(ls), w[1].prev)
  /\ w[1].prev = HashAt(ls, Len(ls))
  /\ sq = Len(ls) + 1 /\ ph = w[1].hash

\* Verify stands behind line rPos of a file that only grows.
ScanInv ==
  /\ rPos \in 0 .. Len(rLines) /\ rWhole \in 0 .. Len(rLines)
  /\ rVerify = "scan" =>
       /\ rExpectedPrev = HashAt(rLines, rPos) /\ rLastSeq = rPos
       /\ \A i \in 1 .. rPos : i \notin rLong
  /\ rVerify = "intact" => rPos >= rWhole /\ \A i \in 1 .. rWhole : i \notin rLong
  /\ rVerify = "blamed" => rBlamed = rWhole + 1

ReadInv ==
  /\ LogFile(rLines)
  /\ rLong \subseteq 1 .. Len(rLines)
  /\ rWriting # Corrupt => HalfLine(rLines, rWriting, rSink, rSeq, rPreviousHash)
  /\ rWriting = Corrupt /\ rSink = "up" =>
       /\ rSeq = Len(rLines) /\ rPreviousHash = HashAt(rLines, Len(rLines))
       /\ Continues(rLines, Len(rLines), rPreviousHash)
  /\ ScanInv

LEMMA LogFileLength == \A ls : LogFile(ls) => ls \in Seq(Range(ls)) /\ Len(ls) \in Nat
BY LenProperties DEF LogFile, LoggedFile

LEMMA InitRead == Read!Init => ReadInv
<1>. SUFFICES ASSUME Read!Init PROVE ReadInv
  OBVIOUS
<1>1. <<>> \in Seq(Range(<<>>)) /\ Len(<<>>) = 0
  BY EmptySeq
<1>2. /\ rLines = <<>> /\ rLong = {} /\ rWriting = Corrupt /\ rSeq = 0 /\ rPreviousHash = Genesis
      /\ rVerify = "idle" /\ rPos = 0 /\ rWhole = 0
  BY SameReading DEF Read!Init
<1>3. LogFile(rLines)
  <2>1. LoggedFile(rLines, ReadCalls)
    BY <1>1, <1>2 DEF LoggedFile
  <2>2. Chained(rLines)
    BY <1>1, <1>2 DEF Chained
  <2>. QED  BY <1>1, <1>2, <2>1, <2>2 DEF LogFile
<1>4. ScanInv
  BY <1>1, <1>2 DEF ScanInv
<1>5. Continues(rLines, Len(rLines), rPreviousHash)
  BY <1>1, <1>2 DEF Continues
<1>. QED  BY <1>1, <1>2, <1>3, <1>4, <1>5 DEF ReadInv, HashAt

\* The line that was being written becomes whole.
LEMMA FileGrows ==
  ASSUME NEW ls, LogFile(ls), NEW w, NEW sk, NEW sq, NEW ph, HalfLine(ls, w, sk, sq, ph)
  PROVE  LET t == Append(ls, w)
         IN  /\ LogFile(t) /\ Len(t) = Len(ls) + 1
             /\ \A i \in 0 .. Len(ls) : HashAt(t, i) = HashAt(ls, i)
             /\ HashAt(t, Len(t)) = ph /\ Continues(t, Len(t), ph)
<1>. DEFINE e == w[1]    t == Append(ls, <<e>>)
<1>1. /\ ls \in Seq(Range(ls)) /\ Len(ls) \in Nat
      /\ w = <<e>> /\ Logged(e, ReadCalls) /\ HashMatches(e) /\ e.seq = Len(ls) + 1
      /\ Continues(ls, Len(ls), e.prev) /\ e.prev = HashAt(ls, Len(ls)) /\ ph = e.hash
  BY LogFileLength DEF HalfLine
<1>2. e.seq - 1 = Len(ls)
  BY <1>1
<1>3. LoggedFile(t, ReadCalls) /\ Chained(t)
  BY <1>1, <1>2, AddEntry DEF LogFile
<1>4. Readable(<<e>>) /\ <<e>>[1] = e
  BY DEF Readable, Corrupt
<1>5. /\ t # <<>> /\ Len(t) = Len(ls) + 1
      /\ \A i \in 1 .. Len(ls) : t[i] = ls[i]
      /\ t[Len(ls) + 1] = <<e>>
  BY <1>1, Appended
<1>. DEFINE l == <<e>>
<1>6. t[Len(ls) + 1] = l /\ Readable(l) /\ l[1] = e /\ w = l
  BY <1>1, <1>4, <1>5
<1>. HIDE DEF l, e
<1>7. \A i \in 0 .. Len(ls) : HashAt(t, i) = HashAt(ls, i)
  <2>1. \A i \in 0 .. Len(ls) : i = 0 \/ i \in 1 .. Len(ls)
    BY <1>1
  <2>. HIDE DEF t
  <2>. QED  BY <1>5, <2>1 DEF HashAt
<1>. HIDE DEF t
<1>8. \A i \in 1 .. Len(t) : /\ Readable(t[i]) /\ t[i][1].seq = i
                             /\ t[i][1].prev = HashAt(t, i - 1)
  <2>. SUFFICES ASSUME NEW i \in 1 .. Len(t)
                PROVE  Readable(t[i]) /\ t[i][1].seq = i /\ t[i][1].prev = HashAt(t, i - 1)
    OBVIOUS
  <2>1. CASE i \in 1 .. Len(ls)
    <3>1. t[i] = ls[i] /\ HashAt(t, i - 1) = HashAt(ls, i - 1)
      BY <1>1, <1>5, <1>7, <2>1
    <3>. QED  BY <2>1, <3>1 DEF LogFile
  <2>2. CASE i = Len(ls) + 1
    <3>1. HashAt(t, i - 1) = HashAt(ls, Len(ls))
      BY <1>1, <1>7, <2>2
    <3>. QED  BY <1>1, <1>6, <2>2, <3>1
  <2>. QED  BY <1>1, <1>5, <2>1, <2>2
<1>9. HashAt(t, Len(t)) = ph /\ Continues(t, Len(t), ph)
  <2>1. Len(t) # 0
    BY <1>1, <1>5
  <2>. QED  BY <1>1, <1>5, <1>6, <2>1 DEF HashAt, Continues
<1>. QED  BY <1>3, <1>5, <1>6, <1>7, <1>8, <1>9 DEF LogFile, t

\* A start resumes behind the last line.
LEMMA StartFindsHead ==
  ASSUME NEW ls, LogFile(ls)
  PROVE  /\ ResumedSeq(ls) = Len(ls) /\ ResumedHash(ls) = HashAt(ls, Len(ls))
         /\ Continues(ls, Len(ls), ResumedHash(ls))
<1>1. ls \in Seq(Range(ls)) /\ Len(ls) \in Nat
  BY LogFileLength
<1>2. Continues(ls, ResumedSeq(ls), ResumedHash(ls))
  BY ResumedContinues DEF LogFile
<1>3. CASE ls = <<>>
  <2>1. Len(ls) = 0
    BY <1>3, EmptySeq
  <2>. QED  BY <1>2, <1>3, <2>1 DEF Continues, HashAt
<1>4. CASE ls # <<>>
  <2>1. Len(ls) # 0 /\ Len(ls) \in 1 .. Len(ls)
    BY <1>1, <1>4, EmptySeq
  <2>2. Readable(ls[Len(ls)]) /\ ls[Len(ls)][1].seq = Len(ls)
    BY <2>1 DEF LogFile
  <2>. QED  BY <1>2, <1>4, <2>1, <2>2 DEF Continues, HashAt
<1>. QED  BY <1>3, <1>4

\* The sink's steps: the file grows behind what Verify has read.
LEMMA LogsRead ==
  ASSUME ReadInv, Read!Logs
  PROVE  ReadInv'
<1>1. rLines \in Seq(Range(rLines)) /\ Len(rLines) \in Nat
  BY LogFileLength DEF ReadInv
<1>2. CASE \E isLong \in {FALSE, TRUE} : Read!LogBegins(isLong)
  <2>. DEFINE e == Entry(rSeq + 1, rPreviousHash, rSeq + 1)
  <2>1. /\ rSink = "up" /\ rWriting = Corrupt /\ rSeq < ReadCalls
        /\ rSeq' = e.seq /\ rPreviousHash' = e.hash /\ rWriting' = <<e>>
        /\ rSink' = rSink /\ rLines' = rLines /\ rLong' = rLong /\ UNCHANGED Read!scan
    BY <1>2, SameReading DEF Read!LogBegins, Read!HalfWritten
  <2>2. /\ rSeq = Len(rLines) /\ rPreviousHash = HashAt(rLines, Len(rLines))
        /\ Continues(rLines, Len(rLines), rPreviousHash)
    BY <2>1 DEF ReadInv
  <2>3. /\ Record(e)
        /\ e.seq = rSeq + 1 /\ e.prev = rPreviousHash /\ e.body = rSeq + 1
        /\ e.hash = Digest(rSeq + 1, rPreviousHash, rSeq + 1)
    BY DEF Entry, Record
  <2>. HIDE DEF e
  <2>4. Logged(e, ReadCalls) /\ HashMatches(e)
    <3>1. ReadCalls \in Nat
      BY ReadersOk DEF Read!ReadersAssumption
    <3>. QED  BY <1>1, <2>1, <2>2, <2>3, <3>1 DEF Logged, HashMatches
  <2>5. HalfLine(rLines', rWriting', rSink', rSeq', rPreviousHash')
    BY <1>1, <2>1, <2>2, <2>3, <2>4 DEF HalfLine
  <2>6. ScanInv'
    BY <2>1 DEF ReadInv, ScanInv, Read!scan
  <2>7. rWriting' # Corrupt
    BY <2>1 DEF Corrupt
  <2>. QED  BY <2>1, <2>5, <2>6, <2>7 DEF ReadInv
<1>3. CASE Read!LogEnds
  <2>1. /\ rWriting # Corrupt /\ rLines' = Append(rLines, rWriting) /\ rWriting' = Corrupt
        /\ rLong' \subseteq rLong \cup {Len(rLines) + 1}
        /\ UNCHANGED <<Read!head, Read!scan>>
    BY <1>3, SameReading DEF Read!LogEnds, Read!HalfWritten
  <2>2. HalfLine(rLines, rWriting, rSink, rSeq, rPreviousHash) /\ LogFile(rLines)
    BY <2>1 DEF ReadInv
  <2>3. /\ LogFile(rLines') /\ Len(rLines') = Len(rLines) + 1
        /\ \A i \in 0 .. Len(rLines) : HashAt(rLines', i) = HashAt(rLines, i)
        /\ HashAt(rLines', Len(rLines')) = rPreviousHash
        /\ Continues(rLines', Len(rLines'), rPreviousHash)
    BY <2>1, <2>2, FileGrows
  <2>4. rLong' \subseteq 1 .. Len(rLines')
    BY <1>1, <2>1, <2>3 DEF ReadInv
  <2>5. \A n \in 0 .. Len(rLines) : (\A i \in 1 .. n : i \notin rLong) => \A i \in 1 .. n : i \notin rLong'
    BY <1>1, <2>1
  <2>6. ScanInv'
    BY <1>1, <2>1, <2>3, <2>5 DEF ReadInv, ScanInv, Read!scan
  <2>7. rSeq' = Len(rLines') /\ rPreviousHash' = rPreviousHash
    BY <2>1, <2>2, <2>3 DEF HalfLine, Read!head
  <2>. QED  BY <2>1, <2>3, <2>4, <2>6, <2>7 DEF ReadInv
<1>4. CASE Read!Close
  <2>1. /\ rSink' = "down" /\ rWriting = Corrupt
        /\ UNCHANGED <<rLines, rLong, rWriting, Read!scan>>
    BY <1>4, SameReading DEF Read!Close, Read!HalfWritten, Read!file
  <2>2. ScanInv'
    BY <2>1 DEF ReadInv, ScanInv, Read!scan
  <2>. QED  BY <2>1, <2>2 DEF ReadInv
<1>5. CASE Read!Start
  <2>1. /\ rSink # "up" /\ UNCHANGED <<rLines, rLong, rWriting, Read!scan>>
        /\ rSink' = "up" => rSeq' = ResumedSeq(rLines) /\ rPreviousHash' = ResumedHash(rLines)
    BY <1>5, SameReading DEF Read!Start, Read!file
  <2>2. rWriting = Corrupt
    BY <2>1 DEF ReadInv, HalfLine
  <2>3. ScanInv'
    BY <2>1 DEF ReadInv, ScanInv, Read!scan
  <2>4. /\ ResumedSeq(rLines) = Len(rLines) /\ ResumedHash(rLines) = HashAt(rLines, Len(rLines))
        /\ Continues(rLines, Len(rLines), ResumedHash(rLines))
    BY StartFindsHead DEF ReadInv
  <2>. QED  BY <2>1, <2>2, <2>3, <2>4 DEF ReadInv
<1>. QED  BY <1>2, <1>3, <1>4, <1>5 DEF Read!Logs

\* Verify's steps.
LEMMA VerifiesRead ==
  ASSUME ReadInv, Read!Verifies
  PROVE  ReadInv'
<1>1. /\ LogFile(rLines) /\ rLines \in Seq(Range(rLines)) /\ Len(rLines) \in Nat /\ ScanInv
  BY LogFileLength DEF ReadInv
<1>2. UNCHANGED <<Read!file, Read!head>>
  BY DEF Read!Verifies, Read!VerifyBegins, Read!VerifyTrusts, Read!VerifyChecks, Read!MoveOn,
         Read!VerifyOverruns, Read!VerifyMeetsHalf, Read!VerifyEnds, Read!file, Read!head
<1>3. ASSUME Read!Scanned PROVE Read!Sound /\ Read!Current.seq = rPos + 1
                                /\ Read!Current.hash = HashAt(rLines, rPos + 1)
  <2>1. rPos + 1 \in 1 .. Len(rLines) /\ rPos \in Nat /\ rPos + 1 # 0
        /\ rExpectedPrev = HashAt(rLines, rPos)
    BY <1>1, <1>3 DEF Read!Scanned, ScanInv
  <2>2. /\ Readable(rLines[rPos + 1]) /\ rLines[rPos + 1][1].seq = rPos + 1
        /\ rLines[rPos + 1][1].prev = HashAt(rLines, rPos) /\ HashMatches(rLines[rPos + 1][1])
    <3>. DEFINE n == rPos + 1
    <3>1. n \in 1 .. Len(rLines) /\ n - 1 = rPos
      BY <2>1
    <3>. HIDE DEF n
    <3>2. Readable(rLines[n]) /\ rLines[n][1].seq = n /\ rLines[n][1].prev = HashAt(rLines, n - 1)
      BY <1>1, <3>1 DEF LogFile
    <3>3. HashMatches(rLines[n][1])
      BY <1>1, <3>1, <3>2 DEF LogFile, Chained
    <3>. QED  BY <3>1, <3>2, <3>3 DEF n
  <2>. QED  BY <2>1, <2>2, SameReading DEF Read!Sound, Read!Current, HashAt
<1>4. CASE \E n \in 0 .. ReadCalls + 1 : Read!VerifyBegins(n)
  <2>1. /\ rVerify' = "scan" /\ rPos' = 0 /\ rExpectedPrev' = Genesis /\ rLastSeq' = 0
        /\ rWhole' = Len(rLines)
    BY <1>4, SameReading DEF Read!VerifyBegins
  <2>. QED  BY <1>1, <1>2, <2>1 DEF ReadInv, ScanInv, HashAt, Read!file, Read!head
<1>5. CASE Read!Scanned /\ Read!MoveOn
  <2>1. /\ rVerify' = "scan" /\ rPos' = rPos + 1 /\ rExpectedPrev' = HashAt(rLines, rPos + 1)
        /\ rLastSeq' = rPos + 1 /\ rWhole' = rWhole
    BY <1>3, <1>5 DEF Read!MoveOn, Read!Scanned
  <2>2. /\ rPos + 1 \in 0 .. Len(rLines) /\ \A i \in 1 .. rPos + 1 : i \notin rLong
    BY <1>1, <1>5 DEF ScanInv, Read!Scanned
  <2>. QED  BY <1>1, <1>2, <2>1, <2>2 DEF ReadInv, ScanInv, Read!file, Read!head
<1>6. CASE Read!VerifyOverruns
  <2>1. rVerify' = "failed" /\ rPos' = rPos /\ rWhole' = Len(rLines)
    BY <1>6 DEF Read!VerifyOverruns, Read!Returns
  <2>. QED  BY <1>1, <1>2, <2>1 DEF ReadInv, ScanInv, Read!file, Read!head
<1>7. CASE Read!VerifyMeetsHalf
  <2>1. /\ rVerify = "scan" /\ rVerify' = "blamed" /\ rPos' = rPos /\ rPos = Len(rLines)
        /\ rWhole' = Len(rLines) /\ rBlamed' = rLastSeq + 1
    BY <1>7 DEF Read!VerifyMeetsHalf, Read!Returns
  <2>. QED  BY <1>1, <1>2, <2>1 DEF ReadInv, ScanInv, Read!file, Read!head
<1>8. CASE Read!VerifyEnds
  <2>1. /\ rVerify = "scan" /\ rVerify' = "intact" /\ rPos' = rPos /\ rPos = Len(rLines)
        /\ rWhole' = rWhole
    BY <1>8 DEF Read!VerifyEnds, Read!Returns
  <2>2. \A i \in 1 .. rWhole : i \notin rLong
    BY <1>1, <2>1 DEF ScanInv
  <2>. QED  BY <1>1, <1>2, <2>1, <2>2 DEF ReadInv, ScanInv, Read!file, Read!head
<1>9. Read!VerifyTrusts \/ Read!VerifyChecks => Read!Scanned /\ Read!MoveOn
  BY <1>3 DEF Read!VerifyTrusts, Read!VerifyChecks
<1>. QED  BY <1>4, <1>5, <1>6, <1>7, <1>8, <1>9 DEF Read!Verifies

LEMMA ReadingIsTrue == ReadInv => Read!BlamesNoWholeEntry /\ Read!IntactHasReadAll /\ Read!NumbersContinue
<1>. SUFFICES ASSUME ReadInv
              PROVE  Read!BlamesNoWholeEntry /\ Read!IntactHasReadAll /\ Read!NumbersContinue
  OBVIOUS
<1>1. LogFile(rLines) /\ DOMAIN rLines = 1 .. Len(rLines) /\ ScanInv
  BY LogFileLength, LenProperties DEF ReadInv
<1>2. Read!BlamesNoWholeEntry
  BY <1>1 DEF ScanInv, Read!BlamesNoWholeEntry
<1>3. Read!IntactHasReadAll
  BY <1>1 DEF ScanInv, Read!IntactHasReadAll
<1>4. Read!NumbersContinue
  BY <1>1 DEF LogFile, Read!NumbersContinue
<1>. QED  BY <1>2, <1>3, <1>4

\* The half of the promise that is about readers (hashchain.go:104-153, 190-221).
LEMMA ReadersAreTold ==
  AllSpec => [](Read!BlamesNoWholeEntry /\ Read!IntactHasReadAll /\ Read!NumbersContinue)
<1>1. AllInit => ReadInv
  BY InitRead DEF AllInit
<1>2. ReadInv /\ [SinkMoves \/ EditMoves \/ ReadMoves]_allVars => ReadInv'
  <2>. SUFFICES ASSUME ReadInv, [SinkMoves \/ EditMoves \/ ReadMoves]_allVars PROVE ReadInv'
    OBVIOUS
  <2>1. CASE UNCHANGED readVars
    BY <2>1 DEF readVars, ReadInv, ScanInv
  <2>2. CASE ReadMoves
    BY <2>2, LogsRead, VerifiesRead DEF ReadMoves, Read!Next
  <2>. QED  BY <2>1, <2>2 DEF SinkMoves, EditMoves, allVars
<1>. QED  BY <1>1, <1>2, ReadingIsTrue, PTL DEF AllSpec

\* Verify never vouches for a file of which a line was removed or its hashed text
\* edited, whatever is written, crashes or is resumed around the edit, and never
\* blames what stands before it; it has no word of an edit of what is not hashed;
\* and while the file is only appended to it blames no entry that is wholly there
\* and vouches for none it has not read (hashchain.go:104-153, 173-185).
THEOREM VerifyAlwaysTellsTheTruth == AllSpec => []VerifyTellsTheTruth
BY EditsAreSeen, ReadersAreTold, PTL DEF VerifyTellsTheTruth
=============================================================================
