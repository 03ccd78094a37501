----------------------------- MODULE AuditReaders -----------------------------
(***************************************************************************)
(* Those who read the audit file (internal/audit/hashchain.go): Verify,    *)
(* which scans it line by line without the sink's mutex while Log appends, *)
(* and resumeChain at a start.  Both scan with a buffer of 256 KB, and an  *)
(* entry may be longer: its resource and detail come from the event.       *)
(*                                                                         *)
(* Nothing fails here and nobody edits the file; that is AuditSink and     *)
(* AuditTamper.  A line is written in two parts, since a reader may meet   *)
(* the first part of one: a write is not atomic for a reader, and a line   *)
(* above the writer's buffer takes several.                                *)
(***************************************************************************)
EXTENDS Integers, HashChain

CONSTANTS MaxCalls, MaxStarts,    \* bounds
          MayBeLong               \* some entries are longer than the buffer

\* What the constants are, assumed by the module that gives them values.
ReadersAssumption ==
  MaxCalls \in Nat /\ MaxStarts \in Nat \ {0} /\ MayBeLong \in BOOLEAN

VARIABLES
  sink,       \* "up", "down", or "refused": resumeChain returned an error
  seq, previousHash,    \* the sink's head
  starts,
  lines,      \* the whole lines of the file
  long,       \* the lines that are longer than the buffer
  writing,    \* the entry whose line is half written, as a line, or Corrupt
  writingLong,
  verify,     \* "idle", "scan", "intact", "blamed" or "failed"
  fromSeq, pos, expectedPrev, lastSeq,    \* its parameter and locals
  blamed,     \* the sequence number it returned
  whole       \* history: number of whole lines when it began, then when it returned

file == <<lines, long, writing, writingLong>>
head == <<sink, seq, previousHash, starts>>
scan == <<verify, fromSeq, pos, expectedPrev, lastSeq, blamed, whole>>
vars == <<file, head, scan>>

Init ==
  /\ sink = "up" /\ seq = 0 /\ previousHash = Genesis /\ starts = 1
  /\ lines = <<>> /\ long = {} /\ writing = Corrupt /\ writingLong = FALSE
  /\ verify = "idle" /\ fromSeq = 0 /\ pos = 0 /\ expectedPrev = Genesis
  /\ lastSeq = 0 /\ blamed = 0 /\ whole = 0

HalfWritten == writing # Corrupt

-----------------------------------------------------------------------------
(***************************************************************************)
(* The sink: Log, Close and the next start.                                *)
(***************************************************************************)
LogBegins(isLong) ==
  LET e == Entry(seq + 1, previousHash, seq + 1)
  IN  /\ sink = "up" /\ ~HalfWritten /\ seq < MaxCalls
      /\ seq' = e.seq /\ previousHash' = e.hash
      /\ writing' = <<e>> /\ writingLong' = isLong
      /\ UNCHANGED <<sink, starts, lines, long, scan>>

LogEnds ==
  /\ HalfWritten
  /\ lines' = Append(lines, writing) /\ writing' = Corrupt
  /\ long' = IF writingLong THEN long \cup {Len(lines) + 1} ELSE long
  /\ UNCHANGED <<head, writingLong, scan>>

\* Close waits for the mutex.
Close ==
  /\ sink = "up" /\ ~HalfWritten
  /\ sink' = "down"
  /\ UNCHANGED <<seq, previousHash, starts, file, scan>>

\* NewHashChainSink: resumeChain reads the whole file or fails.
Start ==
  /\ sink \in {"down", "refused"} /\ starts < MaxStarts
  /\ starts' = starts + 1
  /\ IF long = {}
     THEN /\ sink' = "up"
          /\ seq' = ResumedSeq(lines) /\ previousHash' = ResumedHash(lines)
     ELSE sink' = "refused" /\ UNCHANGED <<seq, previousHash>>
  /\ UNCHANGED <<file, scan>>

-----------------------------------------------------------------------------
(***************************************************************************)
(* Verify, one line at a time.                                             *)
(***************************************************************************)
VerifyBegins(from) ==
  /\ verify # "scan"
  /\ verify' = "scan" /\ fromSeq' = from
  /\ pos' = 0 /\ expectedPrev' = Genesis /\ lastSeq' = 0 /\ blamed' = 0
  /\ whole' = Len(lines)
  /\ UNCHANGED <<file, head>>

Returns(how) == verify' = how /\ whole' = IF how = "intact" THEN whole ELSE Len(lines)

\* The scanner has a whole line.
Scanned == verify = "scan" /\ pos < Len(lines) /\ (pos + 1) \notin long
Current == lines[pos + 1][1]

\* Faulty variant: an entry below fromSeq is skipped without a trace.
VerifyTrustsBlindly ==
  /\ Scanned /\ Current.seq < fromSeq
  /\ pos' = pos + 1
  /\ UNCHANGED <<file, head, verify, fromSeq, expectedPrev, lastSeq, blamed, whole>>

MoveOn ==
  /\ pos' = pos + 1
  /\ expectedPrev' = Current.hash /\ lastSeq' = Current.seq
  /\ UNCHANGED <<file, head, verify, fromSeq, blamed, whole>>

VerifyTrusts == Scanned /\ Current.seq < fromSeq /\ MoveOn

Sound == Current.prev = expectedPrev /\ HashMatches(Current)

VerifyChecks ==
  /\ Scanned /\ Current.seq >= fromSeq
  /\ IF Sound THEN MoveOn
     ELSE /\ Returns("blamed") /\ blamed' = Current.seq
          /\ UNCHANGED <<file, head, fromSeq, pos, expectedPrev, lastSeq>>

\* A line the buffer does not hold, or as much of it as there is.
VerifyOverruns ==
  /\ verify = "scan"
  /\ \/ pos < Len(lines) /\ (pos + 1) \in long
     \/ pos = Len(lines) /\ HalfWritten /\ writingLong
  /\ Returns("failed")
  /\ UNCHANGED <<file, head, fromSeq, pos, expectedPrev, lastSeq, blamed>>

\* The end of the file: what there is of a last line does not parse.
VerifyMeetsHalf ==
  /\ verify = "scan" /\ pos = Len(lines) /\ HalfWritten
  /\ Returns("blamed") /\ blamed' = lastSeq + 1
  /\ UNCHANGED <<file, head, fromSeq, pos, expectedPrev, lastSeq>>

VerifyEnds ==
  /\ verify = "scan" /\ pos = Len(lines) /\ ~HalfWritten
  /\ Returns("intact")
  /\ UNCHANGED <<file, head, fromSeq, pos, expectedPrev, lastSeq, blamed>>

Verifies ==
  \/ \E n \in 0..(MaxCalls + 1) : VerifyBegins(n)
  \/ VerifyTrusts \/ VerifyChecks
  \/ VerifyOverruns \/ VerifyMeetsHalf \/ VerifyEnds

Logs ==
  \/ \E isLong \in {FALSE, MayBeLong} : LogBegins(isLong)
  \/ LogEnds \/ Close \/ Start

Next == Logs \/ Verifies
Spec == Init /\ [][Next]_vars

-----------------------------------------------------------------------------
TypeOK ==
  /\ sink \in {"up", "down", "refused"} /\ seq \in 0..MaxCalls /\ starts \in 1..MaxStarts
  /\ Len(lines) <= MaxCalls /\ long \subseteq DOMAIN lines
  /\ HalfWritten => (sink = "up" /\ writing[1].seq = Len(lines) + 1)
  /\ verify \in {"idle", "scan", "intact", "blamed", "failed"}
  /\ fromSeq \in 0..(MaxCalls + 1) /\ pos \in 0..Len(lines) /\ lastSeq \in 0..MaxCalls
  /\ blamed \in 0..MaxCalls /\ whole \in 0..Len(lines)

\* Verify never blames an entry whose line was whole when it returned: at most
\* the one that was being written, whatever it is called with and whatever is
\* logged and restarted meanwhile (hashchain.go:117-145).
BlamesNoWholeEntry == verify = "blamed" => blamed = whole + 1

\* When Verify reports the chain intact it has read every entry that was in the
\* file when it was called, however long (hashchain.go:117, 148-152).
IntactHasReadAll ==
  verify = "intact" => pos >= whole /\ (1..whole) \cap long = {}

\* One sequence of numbers, whoever reads and however often the sink is
\* started: no start forgets an entry (hashchain.go:190-221).
NumbersContinue == \A i \in DOMAIN lines : lines[i][1].seq = i

\* An implementation is "safe for concurrent use" (sink.go:55), and Verify
\* returns -1 if the chain is intact: nothing but the sink touches the file.
NoAlarmWhileLogging == verify # "blamed"

\* A start "resumes from the last entry to maintain the chain" (hashchain.go:33).
StartResumes == sink # "refused"
=============================================================================
