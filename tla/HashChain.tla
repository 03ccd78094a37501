------------------------------ MODULE HashChain ------------------------------
(***************************************************************************)
(* The data of the audit log (internal/audit/hashchain.go): entries linked *)
(* by hashes, the lines of the file that hold them, and the verdict of     *)
(* Verify on a file.                                                       *)
(*                                                                         *)
(* A digest is a term: the tuple of what computeHash covers.  Two digests  *)
(* are equal only if everything hashed is equal, which is what SHA-256 is  *)
(* used for here.  "body" is the text hashed for timestamp, action,        *)
(* outcome, actor, resource and detail, a bar between two of them; the UTC *)
(* nanosecond timestamp makes the bodies of two Log calls differ.          *)
(* "rest" is what the hash does not tell: the source address, the          *)
(* correlation id and the labels, and which of the bars in the text divide *)
(* two fields and which are part of one.  It is 0 in the entry Log writes. *)
(*                                                                         *)
(* A line is the sequence of the entries json.Unmarshal reads from it:     *)
(* <<e>> for a readable line, Corrupt for bytes that do not parse.         *)
(***************************************************************************)
EXTENDS Sequences, FiniteSetsExt

Genesis == <<>>

Digest(seq, prev, body) == <<seq, prev, body>>

\* The entry Log builds: the counter, the hash of its predecessor, its own hash.
Entry(seq, prev, body) ==
  [seq |-> seq, prev |-> prev, body |-> body, rest |-> 0, hash |-> Digest(seq, prev, body)]

Corrupt == <<>>
Readable(line) == line # Corrupt

-----------------------------------------------------------------------------
\* The line of the last readable entry, 0 if there is none.
LastReadable(lines) == Max({0} \cup {i \in DOMAIN lines : Readable(lines[i])})

\* What resumeChain takes over from a file: unreadable lines are skipped.
ResumedSeq(lines) ==
  LET i == LastReadable(lines) IN IF i = 0 THEN 0 ELSE lines[i][1].seq
ResumedHash(lines) ==
  LET i == LastReadable(lines) IN IF i = 0 THEN Genesis ELSE lines[i][1].hash

-----------------------------------------------------------------------------
\* The hash the entry on line i must link to.  It is compared only when line
\* i - 1 was readable: Verify has returned otherwise.
ExpectedPrev(lines, i) ==
  IF i = 1 \/ ~Readable(lines[i - 1]) THEN Genesis ELSE lines[i - 1][1].hash

LinksUp(lines, i) == lines[i][1].prev = ExpectedPrev(lines, i)
HashMatches(e) == e.hash = Digest(e.seq, e.prev, e.body)

\* Faulty variant: Verify skips unreadable lines as resumeChain does.
StopsAtReadable(lines, i, fromSeq) ==
  /\ Readable(lines[i])
  /\ lines[i][1].seq >= fromSeq
  /\ ~LinksUp(lines, i) \/ ~HashMatches(lines[i][1])

\* The lines at which Verify(fromSeq) returns: entries below fromSeq are
\* trusted, an unreadable line is not.
StopsAt(lines, i, fromSeq) ==
  \/ ~Readable(lines[i])
  \/ /\ lines[i][1].seq >= fromSeq
     /\ ~LinksUp(lines, i) \/ ~HashMatches(lines[i][1])

Broken(lines, fromSeq) == {i \in DOMAIN lines : StopsAt(lines, i, fromSeq)}

\* The seq of the entry on line i - 1 (Verify's lastSeq when it reads line i).
LastSeq(lines, i) == IF i = 1 THEN 0 ELSE lines[i - 1][1].seq

\* -1 if the chain is intact, else the sequence number of the first broken link.
Verify(lines, fromSeq) ==
  IF Broken(lines, fromSeq) = {} THEN -1
  ELSE LET i == Min(Broken(lines, fromSeq))
       IN  IF Readable(lines[i]) THEN lines[i][1].seq ELSE LastSeq(lines, i) + 1
=============================================================================
