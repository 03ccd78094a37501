----------------------------- MODULE AuditTamper -----------------------------
(***************************************************************************)
(* The hash chain of AuditSink as the detector of edits: one line that has *)
(* been synced is edited or removed behind the sink's back while the sink  *)
(* runs, crashes and resumes, and Verify is asked afterwards.  What an     *)
(* entry holds beside the text that is hashed (see HashChain) may be       *)
(* edited as well.                                                         *)
(***************************************************************************)
EXTENDS AuditSink

VARIABLE edited    \* the seq at which the file was edited, 0 before that

tamperVars == <<vars, edited>>

\* The text that is hashed, a link or the number of e differs.  A new seq stays at
\* or above the old one: an entry whose seq falls below fromSeq is trusted by
\* Verify, see StopsAt.
EditsOf(e) ==
  { [e EXCEPT !.body = 0], [e EXCEPT !.prev = Digest(0, Genesis, 0)],
    [e EXCEPT !.hash = Digest(0, Genesis, 0)], [e EXCEPT !.seq = e.seq + 1] }

\* The synced lines that an edit may touch, while every line can be read.
Editable ==
  {i \in 1 .. stable : \A j \in DOMAIN disk.lines : Readable(disk.lines[j])}

\* The entry changes, its hash is not recomputed.
EditField ==
  /\ edited = 0
  /\ \E i \in Editable :
       /\ \E e \in EditsOf(disk.lines[i][1]) :
            disk' = [disk EXCEPT !.lines[i] = <<e>>]
       /\ edited' = disk.lines[i][1].seq
  /\ UNCHANGED <<stable, sinkVars, calls, restarts, acked>>

\* A synced line that is not the last synced one is removed.
RemoveLine ==
  /\ edited = 0
  /\ \E i \in Editable \ {stable} :
       /\ disk' = [disk EXCEPT !.lines = SubSeq(disk.lines, 1, i - 1) \o
                              SubSeq(disk.lines, i + 1, Len(disk.lines))]
       /\ edited' = disk.lines[i][1].seq
  /\ stable' = stable - 1
  /\ UNCHANGED <<sinkVars, calls, restarts, acked>>

RestEdited == \E i \in DOMAIN disk.lines : Readable(disk.lines[i]) /\ disk.lines[i][1].rest # 0

\* What the hash does not tell changes in a synced entry: a label, or the place
\* where one field ends and the next begins.
EditRest ==
  /\ ~RestEdited
  /\ \E i \in {n \in 1 .. stable : Readable(disk.lines[n])} :
       disk' = [disk EXCEPT !.lines[i] = <<[disk.lines[i][1] EXCEPT !.rest = 1]>>]
  /\ UNCHANGED <<stable, sinkVars, calls, restarts, acked, edited>>

TamperInit == Init /\ edited = 0
TamperNext == (Next /\ UNCHANGED edited) \/ EditField \/ RemoveLine \/ EditRest
TamperSpec == TamperInit /\ [][TamperNext]_tamperVars

-----------------------------------------------------------------------------
\* hashchain.go:19-21 "hash chaining for tamper detection": once a synced line
\* has been removed or its number, a hash or the hashed text edited, Verify
\* reports a broken link from every fromSeq up to that line, whatever is logged,
\* crashes or is resumed afterwards: the sink never repairs the chain over it.
EditStaysVisible ==
  edited # 0 => \A from \in 0 .. edited : Verify(disk.lines, from) # -1

\* What precedes the edit stays vouched for: Verify(0) never blames an entry
\* that stands before the edited one (Verify:104-153 returns the first broken link).
BlamesNoEarlier ==
  edited # 0 => Verify(disk.lines, 0) >= edited

\* Verify sees no other edit: while every line can be read, one of what the hash
\* does not tell leaves the chain intact from every fromSeq (computeHash:173-185).
RestGoesUnseen ==
  edited = 0 /\ (\A i \in DOMAIN disk.lines : Readable(disk.lines[i])) =>
    \A from \in 0 .. MaxCalls : Verify(disk.lines, from) = -1

\* sink.go:63-65: "Verify checks the integrity of the audit chain", whose entries
\* carry the source address, the correlation id and the labels (sink.go:44-46).
EveryEditIsSeen == RestEdited => Verify(disk.lines, 0) # -1
=============================================================================
