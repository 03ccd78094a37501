------------------------------ MODULE AuditTrail ------------------------------
(***************************************************************************)
(* What an audit trail promises, whatever the sink does to keep it: a file *)
(* of lines that only grows, except that a crash may cut the tail that was *)
(* never made stable; lines that are stable never change; and an entry     *)
(* that follows a readable entry links to it.                              *)
(***************************************************************************)
EXTENDS HashChain

VARIABLES lines,    \* the lines of the file
          stable    \* how many of them no crash can take back

vars == <<lines, stable>>

Init == lines = <<>> /\ stable = 0

\* The entry e may stand after the lines ls.
Follows(ls, e) ==
  /\ HashMatches(e)
  /\ ls = <<>> => e.seq = 1 /\ e.prev = Genesis
  /\ ls # <<>> /\ Readable(ls[Len(ls)]) =>
       e.seq = ls[Len(ls)][1].seq + 1 /\ e.prev = ls[Len(ls)][1].hash

\* One more line: unreadable, or an entry that may stand there.
Extend ==
  /\ Len(lines') = Len(lines) + 1
  /\ SubSeq(lines', 1, Len(lines)) = lines
  /\ LET new == lines'[Len(lines')]
     IN  Readable(new) => Follows(lines, new[1])
  /\ UNCHANGED stable

\* The last line, not stable yet, becomes unreadable.
Spoil ==
  /\ stable < Len(lines)
  /\ lines' = [lines EXCEPT ![Len(lines)] = Corrupt]
  /\ UNCHANGED stable

\* A crash cuts the tail, perhaps in the middle of a line.
Cut ==
  /\ \E n \in stable .. Len(lines) :
       \/ lines' = SubSeq(lines, 1, n)
       \/ n < Len(lines) /\ lines' = Append(SubSeq(lines, 1, n), Corrupt)
  /\ UNCHANGED stable

Settle == stable' = Len(lines) /\ UNCHANGED lines

Next == Extend \/ Spoil \/ Cut \/ Settle

Spec == Init /\ [][Next]_vars
=============================================================================
