------------------------------ MODULE AuditSink ------------------------------
(***************************************************************************)
(* HashChainSink (internal/audit/hashchain.go): the process that appends   *)
(* hash-chained entries to one file, the disk under it, and the crashes    *)
(* between two of its steps.                                               *)
(*                                                                         *)
(* Log holds the mutex from its first line to its last, so callers are     *)
(* serialised and at most one entry is in flight; a Log call is the steps  *)
(*    LogBuffer -> Flush | FlushFails,   Flush -> Sync | SyncFails         *)
(* or LogRejected alone once bufio.Writer holds an error, which it returns *)
(* for ever.  The body of the n-th Log call is n (its timestamp).          *)
(*                                                                         *)
(* "disk" is what open() would read now, "stable" how many of its lines    *)
(* the last fsync covers.  A process crash keeps what was written; a power *)
(* loss also takes any part of what was not synced.                        *)
(***************************************************************************)
EXTENDS HashChain

CONSTANTS MaxCalls,      \* bound on the calls of Log
          MaxRestarts    \* bound on the restarts of the service

ASSUME BoundsAssumption == MaxCalls \in Nat /\ MaxRestarts \in Nat

VARIABLES
  disk,          \* [lines, nl]: the lines; nl: the last one ends in a newline
  stable,        \* the lines that survive a power loss
  mode,          \* "open" after NewHashChainSink, "closed" after Close, "down"
  pc,            \* where the Log call that holds the mutex is
  entry,         \* the entry in the buffer: <<e>>, or <<>>
  seq,           \* HashChainSink.seq
  previousHash,  \* HashChainSink.previousHash
  failed,        \* bufio.Writer's sticky error
  calls,         \* history: the calls of Log so far
  restarts,      \* history: the restarts so far
  acked          \* history: what Log returned nil for, and on which line

sinkVars == <<mode, pc, entry, seq, previousHash, failed>>
vars == <<disk, stable, sinkVars, calls, restarts, acked>>

Init ==
  /\ disk = [lines |-> <<>>, nl |-> TRUE]
  /\ stable = 0
  /\ mode = "open"
  /\ pc = "idle"
  /\ entry = <<>>
  /\ seq = 0
  /\ previousHash = Genesis
  /\ failed = FALSE
  /\ calls = 0
  /\ restarts = 0
  /\ acked = {}

-----------------------------------------------------------------------------
(***************************************************************************)
(* The disk.                                                               *)
(***************************************************************************)
\* O_APPEND: bytes that follow an unfinished line become part of it, and the
\* two together do not parse.
Put(d, line) ==
  IF d.nl THEN Append(d.lines, line)
          ELSE [d.lines EXCEPT ![Len(d.lines)] = Corrupt]

\* Faulty variant: the newline is written ahead of the next entry only.
LandedWithoutNewline(d, e, part) ==
  CASE part = "nothing" -> d
    [] part = "torn"    -> [lines |-> Put(d, Corrupt), nl |-> FALSE]
    [] OTHER            -> [lines |-> Put(d, <<e>>), nl |-> FALSE]

\* The disk after a write of entry e and its newline of which this much landed.
Landed(d, e, part) ==
  CASE part = "nothing" -> d
    [] part = "torn"    -> [lines |-> Put(d, Corrupt), nl |-> FALSE]
    [] part = "entry"   -> [lines |-> Put(d, <<e>>), nl |-> FALSE]
    [] part = "line"    -> [lines |-> Put(d, <<e>>), nl |-> TRUE]

Parts == {"nothing", "torn", "entry", "line"}

\* The disks a power loss may leave: the first n lines whole, the next one
\* gone, torn, or short of its newline only.
Survivors(d, synced) ==
  {[lines |-> SubSeq(d.lines, 1, n), nl |-> n < Len(d.lines) \/ d.nl] :
      n \in synced .. Len(d.lines)}
  \cup {[lines |-> Append(SubSeq(d.lines, 1, n), Corrupt), nl |-> FALSE] :
      n \in synced .. Len(d.lines) - 1}
  \cup {[lines |-> SubSeq(d.lines, 1, n), nl |-> FALSE] :
      n \in synced + 1 .. Len(d.lines)}

-----------------------------------------------------------------------------
(***************************************************************************)
(* Log.                                                                    *)
(***************************************************************************)
NextEntry == Entry(seq + 1, previousHash, calls + 1)

\* Faulty variant: the link to the predecessor is not advanced.
StampWithoutLink == seq' = NextEntry.seq /\ UNCHANGED previousHash

\* The chain moves on before anything is written, and stays there on an error.
Stamp ==
  /\ seq' = NextEntry.seq
  /\ previousHash' = NextEntry.hash

\* The marshalled entry and its newline are in the buffer.
LogBuffer ==
  /\ mode # "down" /\ pc = "idle" /\ ~failed
  /\ calls < MaxCalls
  /\ Stamp
  /\ entry' = <<NextEntry>>
  /\ pc' = "buffered"
  /\ calls' = calls + 1
  /\ UNCHANGED <<disk, stable, mode, failed, restarts, acked>>

\* The writer returns the error it met in an earlier call.
LogRejected ==
  /\ mode # "down" /\ pc = "idle" /\ failed
  /\ calls < MaxCalls
  /\ Stamp
  /\ calls' = calls + 1
  /\ UNCHANGED <<disk, stable, mode, pc, entry, failed, restarts, acked>>

\* Whether a Log call is inside the write(2) that may reach the file.
Writing == mode = "open" /\ pc = "buffered"

Flush ==
  /\ Writing
  /\ disk' = Landed(disk, entry[1], "line")
  /\ pc' = "flushed"
  /\ UNCHANGED <<stable, mode, entry, seq, previousHash, failed, calls, restarts, acked>>

\* Faulty variant: a writer that forgets its error.
FlushFailsForgotten ==
  /\ pc = "buffered"
  /\ \E part \in Parts \ {"line"} :
       /\ mode = "closed" => part = "nothing"
       /\ disk' = Landed(disk, entry[1], part)
  /\ pc' = "idle"
  /\ entry' = <<>>
  /\ UNCHANGED <<stable, mode, seq, previousHash, failed, calls, restarts, acked>>

\* A short write (a full disk), or any write after Close: Log returns the
\* error, the writer keeps it.
FlushFails ==
  /\ pc = "buffered"
  /\ \E part \in Parts \ {"line"} :
       /\ mode = "closed" => part = "nothing"
       /\ disk' = Landed(disk, entry[1], part)
  /\ failed' = TRUE
  /\ pc' = "idle"
  /\ entry' = <<>>
  /\ UNCHANGED <<stable, mode, seq, previousHash, calls, restarts, acked>>

\* fsync succeeds and Log returns nil.
Sync ==
  /\ pc = "flushed"
  /\ stable' = Len(disk.lines)
  /\ acked' = acked \cup {[line |-> Len(disk.lines), entry |-> entry[1]]}
  /\ pc' = "idle"
  /\ entry' = <<>>
  /\ UNCHANGED <<disk, mode, seq, previousHash, failed, calls, restarts>>

\* fsync fails: Log returns an error for an entry that is in the file.
SyncFails ==
  /\ pc = "flushed"
  /\ pc' = "idle"
  /\ entry' = <<>>
  /\ UNCHANGED <<disk, stable, mode, seq, previousHash, failed, calls, restarts, acked>>

-----------------------------------------------------------------------------
(***************************************************************************)
(* The life of the sink.                                                   *)
(***************************************************************************)
\* Between two calls the buffer is empty or its writer has failed, so the
\* Flush of Close writes nothing.
Close ==
  /\ mode = "open" /\ pc = "idle"
  /\ mode' = "closed"
  /\ UNCHANGED <<disk, stable, pc, entry, seq, previousHash, failed, calls, restarts, acked>>

Die ==
  /\ mode # "down"
  /\ mode' = "down"
  /\ pc' = "idle"
  /\ entry' = <<>>
  /\ seq' = 0
  /\ previousHash' = Genesis
  /\ failed' = FALSE
  /\ UNCHANGED <<stable, calls, restarts, acked>>

\* The process ends; a write it was in may have landed in part.
ProcessDies ==
  /\ Die
  /\ IF Writing THEN \E part \in Parts : disk' = Landed(disk, entry[1], part)
                ELSE disk' = disk

\* The machine stops: of what was not synced any prefix survives.
PowerLoss ==
  /\ Die
  /\ disk' \in Survivors(IF Writing THEN Landed(disk, entry[1], "line") ELSE disk,
                        stable)

\* NewHashChainSink: resume behind the last readable entry, open for append.
Restart ==
  /\ mode = "down"
  /\ restarts < MaxRestarts
  /\ mode' = "open"
  /\ seq' = ResumedSeq(disk.lines)
  /\ previousHash' = ResumedHash(disk.lines)
  /\ restarts' = restarts + 1
  /\ UNCHANGED <<disk, stable, pc, entry, failed, calls, acked>>

Next ==
  \/ LogBuffer \/ LogRejected \/ Flush \/ FlushFails \/ Sync \/ SyncFails
  \/ Close \/ ProcessDies \/ PowerLoss \/ Restart

Spec == Init /\ [][Next]_vars

-----------------------------------------------------------------------------
(***************************************************************************)
(* Properties.                                                             *)
(***************************************************************************)
IsEntry(e) == e.seq \in Nat /\ e.body \in 1 .. calls
IsLine(line) == Readable(line) => line = <<line[1]>> /\ IsEntry(line[1])

\* Every variable has its type; a line holds at most one entry; a Log call is
\* under way only in a running process.
TypeOK ==
  /\ disk = [lines |-> disk.lines, nl |-> disk.nl]
  /\ disk.lines \in Seq(Range(disk.lines))
  /\ \A i \in DOMAIN disk.lines : IsLine(disk.lines[i])
  /\ disk.nl \in BOOLEAN
  /\ stable \in 0 .. Len(disk.lines)
  /\ mode \in {"open", "closed", "down"}
  /\ pc \in {"idle", "buffered", "flushed"}
  /\ pc # "idle" => mode # "down" /\ entry = <<entry[1]>> /\ IsEntry(entry[1])
  /\ seq \in Nat
  /\ failed \in BOOLEAN
  /\ calls \in 0 .. MaxCalls /\ restarts \in 0 .. MaxRestarts
  /\ \A a \in acked : a.line \in 1 .. stable /\ IsEntry(a.entry)

\* Crashes and failed writes alone never make Verify blame an entry: as long
\* as every line can be read, the chain is intact from every fromSeq
\* (Verify, hashchain.go:104-153).
NoFalseAlarm ==
  (\A i \in DOMAIN disk.lines : Readable(disk.lines[i])) =>
    \A from \in 0 .. MaxCalls : Verify(disk.lines, from) = -1

\* The chain between two readable neighbours never breaks: whatever failed or
\* crashed in between, the second one continues the first (Log:67-77 together
\* with resumeChain:190-221).
NeighboursLinked ==
  \A i \in 2 .. Len(disk.lines) :
    Readable(disk.lines[i - 1]) /\ Readable(disk.lines[i]) =>
      /\ LinksUp(disk.lines, i)
      /\ disk.lines[i][1].seq = disk.lines[i - 1][1].seq + 1

\* No acknowledged entry is lost in silence: if Verify(0) says the chain is
\* intact, every entry for which Log returned nil is in the file.
NoSilentLoss ==
  Verify(disk.lines, 0) = -1 =>
    \A a \in acked : <<a.entry>> \in Range(disk.lines)

\* Entries stand in the order of their sequence numbers, and no number stands
\* twice, although a restart may hand out a number again.
InSequenceOrder ==
  \A i, j \in DOMAIN disk.lines :
    i < j /\ Readable(disk.lines[i]) /\ Readable(disk.lines[j]) =>
      disk.lines[i][1].seq < disk.lines[j][1].seq

Unreadable == {a \in acked : <<a.entry>> \notin Range(disk.lines)}

\* An acknowledged entry can become unreadable only by being appended to the
\* torn tail a crash left, so no more of them are lost than there were restarts.
OneLossPerRestart == Cardinality(Unreadable) <= restarts

\* The sink keeps the promise of an audit trail.
Trail == INSTANCE AuditTrail WITH lines <- disk.lines, stable <- stable
KeepsTrail == Trail!Spec

\* sink.go:55-56: implementations "must guarantee that entries are written in
\* sequence order with no gaps": each entry that can be read follows the one
\* with the number before it.
NoGaps ==
  \A i \in DOMAIN disk.lines :
    Readable(disk.lines[i]) /\ disk.lines[i][1].seq > 1 =>
      \E j \in 1 .. i - 1 : Readable(disk.lines[j])
                            /\ disk.lines[j][1].seq = disk.lines[i][1].seq - 1

\* hashchain.go:155: LatestCheckpoint "returns the current chain head": while no
\* Log call runs, the head is the hash of the last entry of the file.
CheckpointIsHead ==
  mode = "open" /\ pc = "idle" => previousHash = ResumedHash(disk.lines)
=============================================================================
