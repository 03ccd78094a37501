------------------------------- MODULE Analyzer -------------------------------
(***************************************************************************)
(* The analyzer (internal/analyzer): a process that polls the event files  *)
(* another process, the ingester, is appending to, feeds the new events to *)
(* stateful detectors, appends their findings to a file and saves how far  *)
(* it has read.                                                            *)
(*                                                                         *)
(* An event's line is written in two units, its head and its tail; the     *)
(* tail carries the newline.  Reads and offsets are counted in units.  A   *)
(* reader in another process may find the head alone: a write of more than *)
(* a page reaches the file page by page, and it may be cut short.  (A line *)
(* that only lacks its newline parses; that benign case is left out.)      *)
(*                                                                         *)
(* Every event is a failing tool call; KeyOf is its session, tool and      *)
(* arguments, and the detector is the retry storm of ToolMisuseDetector:   *)
(* one finding per key, at the call after MaxFailures failures.            *)
(***************************************************************************)
EXTENDS Sequences, FiniteSetsExt

CONSTANTS Events, Keys, Files,
          KeyOf, FileOf,    \* of an event
          FileOrder,        \* the files sorted by path
          MaxFailures,      \* ToolMisuseDetector.maxConsecutiveFailures
          SplitWrites,      \* whether a line may appear in two writes
          MaxRestarts,      \* bound on the crashes of the analyzer
          MaxFaults,        \* bound on the failures of its reads, writes, saves
          NoEvent

ASSUME EventsAssumption ==
  /\ KeyOf \in [Events -> Keys] /\ FileOf \in [Events -> Files]
  /\ NoEvent \notin Events
ASSUME BoundsAssumption ==
  /\ MaxFailures \in Nat /\ MaxRestarts \in Nat /\ MaxFaults \in Nat
  /\ SplitWrites \in BOOLEAN
ASSUME FileOrderAssumption == FileOrder \in Seq(Files) /\ Range(FileOrder) = Files

VARIABLES
  file,         \* the units of each event file
  writing,      \* the event whose head the ingester has written, or NoEvent
  appended,     \* history: the events for which Append returned
  pc,           \* "down", "idle", "next": at the top of the loop over files,
                \* "write": between runDetectors and cursor.Set
  todo,         \* the files this poll has still to read
  readTo,       \* newOffset of the file being processed
  pending,      \* findings of that file not yet encoded, by key
  cursor,       \* Cursor.Files in memory
  failures,     \* the detector's failure count per key
  emitted,      \* the detector's emittedRetryStorm
  saved,        \* .cursor.json
  out,          \* how many findings of each key the findings files hold
  analysed,     \* history: the events a detector has seen
  cutShort,     \* history: the events of whose line a poll took the head only
  restarts, writeErrors, faults

ingester == <<file, writing, appended>>
memory == <<pc, todo, readTo, pending, cursor, failures, emitted>>
history == <<analysed, cutShort, restarts, writeErrors, faults>>
vars == <<ingester, memory, saved, out, history>>

Init ==
  /\ file = [f \in Files |-> <<>>]
  /\ writing = NoEvent
  /\ appended = {}
  /\ pc = "idle"
  /\ todo = {}
  /\ readTo = 0
  /\ pending = {}
  /\ cursor = [f \in Files |-> 0]
  /\ failures = [k \in Keys |-> 0]
  /\ emitted = {}
  /\ saved = [f \in Files |-> 0]
  /\ out = [k \in Keys |-> 0]
  /\ analysed = {}
  /\ cutShort = {}
  /\ restarts = 0 /\ writeErrors = 0 /\ faults = 0

-----------------------------------------------------------------------------
(***************************************************************************)
(* The ingester's side: JSONLStore.Append, one event at a time.            *)
(***************************************************************************)
Head1(e) == [ev |-> e, part |-> "head"]
Tail1(e) == [ev |-> e, part |-> "tail"]

Unwritten(e) == \A f \in Files : Head1(e) \notin Range(file[f])

Put(e, units) == file' = [file EXCEPT ![FileOf[e]] = @ \o units]

AppendLine(e) ==
  /\ writing = NoEvent /\ Unwritten(e)
  /\ Put(e, <<Head1(e), Tail1(e)>>)
  /\ appended' = appended \cup {e}
  /\ UNCHANGED <<writing, memory, saved, out, history>>

AppendHead(e) ==
  /\ SplitWrites
  /\ writing = NoEvent /\ Unwritten(e)
  /\ Put(e, <<Head1(e)>>)
  /\ writing' = e
  /\ UNCHANGED <<appended, memory, saved, out, history>>

AppendTail ==
  /\ writing # NoEvent
  /\ Put(writing, <<Tail1(writing)>>)
  /\ appended' = appended \cup {writing}
  /\ writing' = NoEvent
  /\ UNCHANGED <<memory, saved, out, history>>

\* The ingester dies between the two: the next line joins the torn one.
IngesterDies ==
  /\ writing # NoEvent
  /\ faults < MaxFaults
  /\ writing' = NoEvent
  /\ faults' = faults + 1
  /\ UNCHANGED <<file, appended, memory, saved, out, analysed, cutShort, restarts, writeErrors>>

-----------------------------------------------------------------------------
(***************************************************************************)
(* Reading a file from an offset.                                          *)
(***************************************************************************)
\* The line that ends at unit p holds one event, read from offset off.
ParsesAt(units, off, p) ==
  /\ p - 1 > off
  /\ units[p].part = "tail"
  /\ units[p - 1] = Head1(units[p].ev)
  /\ p - 2 = off \/ units[p - 2].part = "tail"

EventsFrom(units, off) ==
  {units[p].ev : p \in {q \in off + 1 .. Len(units) : ParsesAt(units, off, q)}}

\* What readNewEvents counts: every byte up to the end of the file, those of an
\* unfinished last line too.
OffsetAfter(units) == Len(units)

\* An unfinished last line is among what was read.
LeftUnfinished(units) ==
  IF units # <<>> /\ units[Len(units)].part = "head" THEN {units[Len(units)].ev} ELSE {}

CallsOf(k, evs) == Cardinality({e \in evs : KeyOf[e] = k})

\* The keys whose storm is found while these events are fed to the detector.
Storms(evs) ==
  {k \in Keys \ emitted : CallsOf(k, evs) > 0 /\ failures[k] + CallsOf(k, evs) > MaxFailures}

-----------------------------------------------------------------------------
(***************************************************************************)
(* poll.                                                                   *)
(***************************************************************************)
\* Faulty variant: only files never read before are listed.
StartPollOnNewFiles ==
  /\ pc = "idle"
  /\ pc' = "next"
  /\ todo' = {f \in Files : file[f] # <<>> /\ saved[f] = 0}
  /\ UNCHANGED <<ingester, readTo, pending, cursor, failures, emitted, saved, out, history>>

\* eventFiles: a file exists once something was written to it.
StartPoll ==
  /\ pc = "idle"
  /\ pc' = "next"
  /\ todo' = {f \in Files : file[f] # <<>>}
  /\ UNCHANGED <<ingester, readTo, pending, cursor, failures, emitted, saved, out, history>>

\* eventFiles sorts by path.
Current == FileOrder[Min({i \in DOMAIN FileOrder : FileOrder[i] \in todo})]
NewEvents == EventsFrom(file[Current], cursor[Current])

\* No event could be parsed: the cursor stays.
NothingNew ==
  /\ pc = "next" /\ todo # {}
  /\ NewEvents = {}
  /\ todo' = todo \ {Current}
  /\ UNCHANGED <<ingester, pc, readTo, pending, cursor, failures, emitted, saved, out, history>>

ReadFails ==
  /\ pc = "next" /\ todo # {}
  /\ faults < MaxFaults
  /\ faults' = faults + 1
  /\ todo' = todo \ {Current}
  /\ UNCHANGED <<ingester, pc, readTo, pending, cursor, failures, emitted, saved, out,
                 analysed, cutShort, restarts, writeErrors>>

\* Faulty variant: a storm that was found is not remembered.
ReadAndForget ==
  /\ pc = "next" /\ todo # {}
  /\ NewEvents # {}
  /\ readTo' = OffsetAfter(file[Current])
  /\ failures' = [k \in Keys |-> failures[k] + CallsOf(k, NewEvents)]
  /\ pending' = Storms(NewEvents)
  /\ pc' = "write"
  /\ analysed' = analysed \cup NewEvents
  /\ cutShort' = cutShort \cup LeftUnfinished(file[Current])
  /\ UNCHANGED <<ingester, todo, cursor, emitted, saved, out, restarts, writeErrors, faults>>

\* readNewEvents and runDetectors; the detector remembers what it reported
\* before anything is written.
ReadAndDetect ==
  /\ pc = "next" /\ todo # {}
  /\ NewEvents # {}
  /\ readTo' = OffsetAfter(file[Current])
  /\ failures' = [k \in Keys |-> failures[k] + CallsOf(k, NewEvents)]
  /\ pending' = Storms(NewEvents)
  /\ emitted' = emitted \cup Storms(NewEvents)
  /\ pc' = "write"
  /\ analysed' = analysed \cup NewEvents
  /\ cutShort' = cutShort \cup LeftUnfinished(file[Current])
  /\ UNCHANGED <<ingester, todo, cursor, saved, out, restarts, writeErrors, faults>>

\* writeFindings encodes one finding after the other.
EncodeFinding(k) ==
  /\ pc = "write" /\ k \in pending
  /\ out' = [out EXCEPT ![k] = @ + 1]
  /\ pending' = pending \ {k}
  /\ UNCHANGED <<ingester, pc, todo, readTo, cursor, failures, emitted, saved, history>>

\* writeFindings fails: on to the next file with the cursor where it was; the
\* events will be read again, the detector has seen them.
WriteFails ==
  /\ pc = "write" /\ pending # {}
  /\ faults < MaxFaults
  /\ faults' = faults + 1
  /\ writeErrors' = writeErrors + 1
  /\ pending' = {}
  /\ todo' = todo \ {Current}
  /\ pc' = "next"
  /\ UNCHANGED <<ingester, readTo, cursor, failures, emitted, saved, out,
                 analysed, cutShort, restarts>>

\* Faulty variants: the cursor jumps to the end the file has by now; the cursor
\* is left alone.
SetCursorToEnd ==
  /\ pc = "write" /\ pending = {}
  /\ cursor' = [cursor EXCEPT ![Current] = Len(file[Current])]
  /\ todo' = todo \ {Current}
  /\ pc' = "next"
  /\ UNCHANGED <<ingester, readTo, pending, failures, emitted, saved, out, history>>
SetCursorLater ==
  /\ pc = "write" /\ pending = {}
  /\ cursor' = cursor
  /\ todo' = todo \ {Current}
  /\ pc' = "next"
  /\ UNCHANGED <<ingester, readTo, pending, failures, emitted, saved, out, history>>

SetCursor ==
  /\ pc = "write" /\ pending = {}
  /\ cursor' = [cursor EXCEPT ![Current] = readTo]
  /\ todo' = todo \ {Current}
  /\ pc' = "next"
  /\ UNCHANGED <<ingester, readTo, pending, failures, emitted, saved, out, history>>

SaveCursor ==
  /\ pc = "next" /\ todo = {}
  /\ saved' = cursor
  /\ pc' = "idle"
  /\ UNCHANGED <<ingester, todo, readTo, pending, cursor, failures, emitted, out, history>>

SaveFails ==
  /\ pc = "next" /\ todo = {}
  /\ faults < MaxFaults
  /\ faults' = faults + 1
  /\ pc' = "idle"
  /\ UNCHANGED <<ingester, todo, readTo, pending, cursor, failures, emitted, saved, out,
                 analysed, cutShort, restarts, writeErrors>>

-----------------------------------------------------------------------------
\* The process ends anywhere; a cancelled context ends it at the top of the
\* loop over files, without a save.
Die ==
  /\ pc # "down"
  /\ restarts < MaxRestarts
  /\ restarts' = restarts + 1
  /\ pc' = "down"
  /\ todo' = {} /\ readTo' = 0 /\ pending' = {}
  /\ cursor' = [f \in Files |-> 0]
  /\ failures' = [k \in Keys |-> 0]
  /\ emitted' = {}
  /\ UNCHANGED <<ingester, saved, out, analysed, cutShort, writeErrors, faults>>

\* New loads the cursor; the detectors start empty.
Start ==
  /\ pc = "down"
  /\ cursor' = saved
  /\ pc' = "idle"
  /\ UNCHANGED <<ingester, todo, readTo, pending, failures, emitted, saved, out, history>>

Ingest == (\E e \in Events : AppendLine(e) \/ AppendHead(e)) \/ AppendTail \/ IngesterDies

Poll ==
  \/ StartPoll \/ NothingNew \/ ReadAndDetect
  \/ \E k \in Keys : EncodeFinding(k)
  \/ SetCursor \/ SaveCursor

Fault == ReadFails \/ WriteFails \/ SaveFails

Next == Ingest \/ Poll \/ Fault \/ Die \/ Start

Spec == Init /\ [][Next]_vars

\* Run polls again on every tick, and the service is restarted when it ends.
FairSpec == Spec /\ WF_vars(Poll) /\ WF_vars(Start)

-----------------------------------------------------------------------------
(***************************************************************************)
(* Properties.                                                             *)
(***************************************************************************)
TypeOK ==
  /\ \A f \in Files : \A u \in Range(file[f]) : u.ev \in Events /\ u.part \in {"head", "tail"}
  /\ writing \in Events \cup {NoEvent} /\ appended \subseteq Events
  /\ pc \in {"down", "idle", "next", "write"}
  /\ todo \subseteq Files /\ (pc = "write" => todo # {})
  /\ readTo \in Nat /\ pending \subseteq emitted
  /\ pending # {} => pc = "write"
  /\ \A f \in Files : cursor[f] \in 0 .. Len(file[f]) /\ saved[f] \in 0 .. Len(file[f])
  /\ failures \in [Keys -> Nat] /\ emitted \subseteq Keys
  /\ out \in [Keys -> Nat]
  /\ analysed \subseteq Events /\ cutShort \subseteq Events

\* The events that stand on a line of their own.
WholeLines(f) == EventsFrom(file[f], 0)
\* ... and behind the first n units.
WholeLinesUpTo(f, n) == EventsFrom(SubSeq(file[f], 1, n), 0)

\* Whatever fails or crashes, a cursor that was saved has no unread event behind
\* it, but for those whose line was taken in two halves (poll:128-183).
SavedBehindRead ==
  \A f \in Files : WholeLinesUpTo(f, saved[f]) \subseteq analysed \cup cutShort

\* A finding is repeated only by a restart that replays its events, once per
\* restart: a failed write of findings or of the cursor never repeats one
\* (poll:145-179 with ToolMisuseDetector:129-138).
RepeatedByRestartsOnly == \A k \in Keys : out[k] <= 1 + restarts

\* A storm in the findings has more than MaxFailures calls behind it, unless a
\* write of findings has failed, after which events are counted twice.
RealUnlessWriteFailed ==
  writeErrors = 0 =>
    \A k \in Keys : out[k] > 0 => CallsOf(k, analysed) > MaxFailures

\* A storm among the events read is in the findings once the file's findings are
\* written, unless the analyzer was restarted or a write of findings failed.
FoundUnlessFault ==
  restarts = 0 /\ writeErrors = 0 /\ pc # "write" =>
    \A k \in Keys : CallsOf(k, analysed) > MaxFailures => out[k] > 0

\* Until a write fails the findings are what was read: none without its calls,
\* and none missing before a restart (poll:130-179).
FindingsFaithful == RealUnlessWriteFailed /\ FoundUnlessFault

\* The cursor of a file only moves forward, in memory while the process lives
\* and on disk always; a restart goes back to the saved one.
CursorsAdvance ==
  [][ \A f \in Files : /\ saved'[f] >= saved[f]
                       /\ pc # "down" /\ pc' # "down" => cursor'[f] >= cursor[f] ]_vars

\* Every event that was appended to a line of its own is read in the end.
AppendedIsRead ==
  \A e \in Events :
    (e \in appended /\ e \in WholeLines(FileOf[e])) ~> (e \in analysed \cup cutShort)

\* analyzer.go:206-208: readNewEvents returns the "byte position after the last
\* complete line consumed": no event is passed over because a poll met its line
\* half written.
NoEventPassedOver ==
  \A f \in Files : WholeLinesUpTo(f, saved[f]) \subseteq analysed

\* toolmisuse.go:48-49: a retry storm is a call that "fails more than
\* maxConsecutiveFailures times".
FindingsAreReal ==
  \A k \in Keys : out[k] > 0 => CallsOf(k, analysed) > MaxFailures
=============================================================================
