------------------------------ MODULE EventStore ------------------------------
(***************************************************************************)
(* The event store (internal/eventstore/jsonl.go): a file for every tenant *)
(* and day, written one event at a time under a mutex; queries that walk   *)
(* the files without it; and a stream, a query repeated for what is later  *)
(* than the last event sent.                                               *)
(*                                                                         *)
(* A reader may find the first part of a line that is being written; a     *)
(* crash or an error of the disk may leave it there, and what is appended  *)
(* next joins it, so that neither can be parsed.  A bufio.Writer that has  *)
(* failed once fails for good: until a restart nothing more is written to  *)
(* that file.                                                              *)
(***************************************************************************)
EXTENDS Naturals, Sequences, FiniteSets, Functions, SequencesExt

CONSTANTS Events,
          TenantOf, TimeOf,    \* of an event; times are counted from 1
          DayLength,
          Unencodable,    \* events json.Marshal cannot encode
          Oversized,      \* events whose line is longer than a scan can take
          Filters,        \* what callers ask for
          ChannelSize,    \* capacity of a stream's channel
          MaxFaults, MaxRestarts    \* bounds

Tenants == Range(TenantOf)
Days == {TimeOf[e] \div DayLength : e \in Events}
Buckets == Tenants \X Days

Query == "query"
Stream == "stream"
Readers == {Query, Stream}
Nothing == "nothing"

\* QueryFilter: the events its ids and types let through; times and limit are 0
\* where they are not given.
Filter == [selected : SUBSET Events, after : Nat, until : Nat, limit : Nat]
NoFilter == [selected |-> Events, after |-> 0, until |-> 0, limit |-> 0]

\* What the constants are, assumed by the module that gives them values.
StoreAssumption ==
  /\ TenantOf \in [Events -> Nat] /\ TimeOf \in [Events -> Nat \ {0}]
  /\ DayLength \in Nat \ {0} /\ ChannelSize \in Nat \ {0}
  /\ Unencodable \subseteq Events /\ Oversized \subseteq Events /\ Filters \subseteq Filter
  /\ MaxFaults \in Nat /\ MaxRestarts \in Nat
  /\ Nothing \notin Events

VARIABLES
  file,       \* bucket -> its lines; the buckets are those in its domain
  writing,    \* the event being written, holding the mutex, or Nothing
  joins,      \* its line joins an unfinished one
  stuck,      \* buckets whose writer has failed
  closed,
  filter,     \* Readers -> what it asks for
  phase,      \* Readers -> "off", "walk", "done", "failed" or "ended"
  tenants, days,    \* Readers -> directories, files still to be visited
  found,      \* Readers -> the events found
  lastSeen,   \* time of the last event the stream sent, or 0
  channel,
  appended,   \* history: events for which Append returned a key
  refused,    \* history: events for which it returned an error
  before,     \* history: Readers -> what was appended when the walk began
  received,   \* history: the events the consumer of the stream received
  faults, restarts

storage == <<file, writing, joins, stuck>>
walks == <<filter, phase, tenants, days, found, before>>
streaming == <<lastSeen, channel, received>>
counts == <<faults, restarts>>
vars == <<storage, closed, walks, streaming, appended, refused, counts>>

\* bucketKey
BucketOf(e) == <<TenantOf[e], TimeOf[e] \div DayLength>>

Init ==
  /\ file = [b \in {} |-> <<>>]
  /\ writing = Nothing /\ joins = FALSE /\ stuck = {} /\ closed = FALSE
  /\ filter \in [Readers -> Filters \cup {NoFilter}] /\ filter[Query] = NoFilter
  /\ phase = [r \in Readers |-> "off"]
  /\ tenants = [r \in Readers |-> <<>>] /\ days = [r \in Readers |-> <<>>]
  /\ found = [r \in Readers |-> <<>>] /\ before = [r \in Readers |-> {}]
  /\ lastSeen = 0 /\ channel = <<>> /\ received = <<>>
  /\ appended = {} /\ refused = {} /\ faults = 0 /\ restarts = 0

-----------------------------------------------------------------------------
(***************************************************************************)
(* Append.                                                                 *)
(***************************************************************************)
Lines(b) == IF b \in DOMAIN file THEN file[b] ELSE <<>>
Fresh(e) == e \notin appended \cup refused \cup {writing}

\* getWriter creates the file.
WithFile(b) == [x \in DOMAIN file \cup {b} |-> Lines(x)]

Unfinished(b) == Lines(b) # <<>> /\ Last(Lines(b)).state = "part"

Spoilt(line) == [line EXCEPT !.state = "spoilt"]

StartLine(e) ==
  LET b == BucketOf(e)
      lines == IF Unfinished(b) THEN Append(Front(Lines(b)), Spoilt(Last(Lines(b)))) ELSE Lines(b)
  IN  [WithFile(b) EXCEPT ![b] = Append(lines, [event |-> e, state |-> "part"])]

EndLine(e) ==
  [file EXCEPT ![BucketOf(e)] =
     Append(Front(@), [event |-> e, state |-> IF joins THEN "spoilt" ELSE "whole"])]

Free == ~closed /\ writing = Nothing

\* Faulty variant: a writer that failed is replaced by a new one.
AppendStartsAfresh(e) ==
  /\ Free /\ Fresh(e) /\ e \notin Unencodable
  /\ file' = StartLine(e) /\ joins' = Unfinished(BucketOf(e)) /\ writing' = e
  /\ stuck' = stuck \ {BucketOf(e)}
  /\ UNCHANGED <<closed, walks, streaming, appended, refused, counts>>

AppendStarts(e) ==
  /\ Free /\ Fresh(e) /\ e \notin Unencodable /\ BucketOf(e) \notin stuck
  /\ file' = StartLine(e) /\ joins' = Unfinished(BucketOf(e)) /\ writing' = e
  /\ UNCHANGED <<stuck, closed, walks, streaming, appended, refused, counts>>

AppendReturns ==
  /\ writing # Nothing
  /\ file' = EndLine(writing) /\ writing' = Nothing /\ joins' = FALSE
  /\ appended' = appended \cup {writing}
  /\ UNCHANGED <<stuck, closed, walks, streaming, refused, counts>>

\* The disk fails with a part of the line written.
AppendFails ==
  /\ writing # Nothing /\ faults < MaxFaults
  /\ stuck' = stuck \cup {BucketOf(writing)} /\ refused' = refused \cup {writing}
  /\ writing' = Nothing /\ joins' = FALSE /\ faults' = faults + 1
  /\ UNCHANGED <<file, closed, walks, streaming, appended, restarts>>

\* Nothing is written: the store is closed, the writer failed before, or the
\* event cannot be encoded, for which the file has been created already.
AppendRefuses(e) ==
  /\ writing = Nothing /\ Fresh(e)
  /\ closed \/ BucketOf(e) \in stuck \/ e \in Unencodable
  /\ refused' = refused \cup {e}
  /\ file' = IF closed THEN file ELSE WithFile(BucketOf(e))
  /\ UNCHANGED <<writing, joins, stuck, closed, walks, streaming, appended, counts>>

-----------------------------------------------------------------------------
(***************************************************************************)
(* Query: lock, flush and unlock, then fs.WalkDir: the directories of the  *)
(* tenants and the files of each in the order of their names, listed when  *)
(* the walk comes to them.                                                 *)
(***************************************************************************)
Sorted(S) ==
  CHOOSE q \in [1..Cardinality(S) -> S] : \A i, j \in DOMAIN q : i < j => q[i] < q[j]

\* What pollEvents asks for: later than the event it sent last.
AfterOf(r) == IF r = Stream /\ lastSeen > 0 THEN lastSeen ELSE filter[r].after

\* matchesFilter
Matches(e, f, after) ==
  /\ e \in f.selected
  /\ after = 0 \/ TimeOf[e] > after
  /\ f.until = 0 \/ TimeOf[e] < f.until

\* The lines of a file that match, in their order.
MatchingLines(lines, r) ==
  Sorted({i \in DOMAIN lines : lines[i].state = "whole" /\ Matches(lines[i].event, filter[r], AfterOf(r))})

\* Faulty variant: a line that cannot be parsed ends the file.
ScanStops(lines, r) ==
  LET readable == {n \in 0..Len(lines) : \A i \in 1..n : lines[i].state = "whole"}
      upTo == CHOOSE n \in readable : \A m \in readable : m <= n
      at == MatchingLines(SubSeq(lines, 1, upTo), r)
  IN  [k \in DOMAIN at |-> lines[at[k]].event]

\* scanFile: what cannot be parsed is passed over.
Scan(lines, r) ==
  LET at == MatchingLines(lines, r) IN [k \in DOMAIN at |-> lines[at[k]].event]

TooLong(lines) == \E i \in DOMAIN lines : lines[i].event \in Oversized /\ lines[i].state # "part"

Full(r, results) == filter[r].limit > 0 /\ Len(results) >= filter[r].limit

\* A query has its caller's filter, the polls of a stream have that of the stream.
Asked(r) == IF r = Query THEN Filters ELSE {filter[r]}

\* The stream polls at a tick, with all it found last time sent.
StartWalk(r) ==
  /\ writing = Nothing
  /\ phase[r] = "off"
  /\ phase' = [phase EXCEPT ![r] = IF closed THEN "failed" ELSE "walk"]
  /\ \E f \in Asked(r) : filter' = [filter EXCEPT ![r] = f]
  /\ tenants' = [tenants EXCEPT ![r] = Sorted({b[1] : b \in DOMAIN file})]
  /\ days' = [days EXCEPT ![r] = <<>>] /\ found' = [found EXCEPT ![r] = <<>>]
  /\ before' = [before EXCEPT ![r] = appended]
  /\ UNCHANGED <<storage, closed, streaming, appended, refused, counts>>

ListTenant(r) ==
  /\ phase[r] = "walk" /\ days[r] = <<>> /\ tenants[r] # <<>>
  /\ LET t == Head(tenants[r]) IN
     days' = [days EXCEPT ![r] = LET ds == Sorted({b[2] : b \in {x \in DOMAIN file : x[1] = t}})
                                 IN  [i \in DOMAIN ds |-> <<t, ds[i]>>]]
  /\ tenants' = [tenants EXCEPT ![r] = Tail(@)]
  /\ UNCHANGED <<filter, phase, found, before, storage, closed, streaming, appended, refused, counts>>

ScanFile(r) ==
  /\ phase[r] = "walk" /\ days[r] # <<>> /\ ~closed
  /\ days' = [days EXCEPT ![r] = Tail(@)]
  /\ LET lines == file[Head(days[r])]
         results == found[r] \o Scan(lines, r)
     IN  /\ found' = [found EXCEPT ![r] =
                        IF TooLong(lines) THEN @
                        ELSE IF Full(r, results) THEN SubSeq(results, 1, filter[r].limit) ELSE results]
         /\ phase' = [phase EXCEPT ![r] =
                        IF TooLong(lines) THEN "failed" ELSE IF Full(r, results) THEN "done" ELSE @]
  /\ UNCHANGED <<filter, tenants, before, storage, closed, streaming, appended, refused, counts>>

FinishWalk(r) ==
  /\ phase[r] = "walk" /\ days[r] = <<>> /\ tenants[r] = <<>>
  /\ phase' = [phase EXCEPT ![r] = "done"]
  /\ UNCHANGED <<filter, tenants, days, found, before, storage, closed, streaming, appended, refused, counts>>

\* The disk fails to list a directory or to open or read a file.
WalkMeetsError(r) ==
  /\ phase[r] = "walk" /\ faults < MaxFaults
  /\ phase' = [phase EXCEPT ![r] = "failed"] /\ faults' = faults + 1
  /\ UNCHANGED <<filter, tenants, days, found, before, storage, closed, streaming, appended, refused, restarts>>

\* The caller has gone, which a scan notices at the next line; that of a stream
\* is Cancel's.
QueryIsCancelled ==
  /\ phase[Query] = "walk" /\ days[Query] # <<>>
  /\ file[Head(days[Query])] # <<>>
  /\ phase' = [phase EXCEPT ![Query] = "failed"]
  /\ UNCHANGED <<filter, tenants, days, found, before, storage, closed, streaming, appended, refused, counts>>

\* Close has closed the root directory under a walk.
WalkFails(r) ==
  /\ phase[r] = "walk" /\ closed
  /\ phase' = [phase EXCEPT ![r] = "failed"]
  /\ UNCHANGED <<filter, tenants, days, found, before, storage, closed, streaming, appended, refused, counts>>

-----------------------------------------------------------------------------
(***************************************************************************)
(* Stream and pollEvents.  A query that failed is not used.                *)
(***************************************************************************)
\* Faulty variant: the time is taken from the first event of a batch.
SendFirstTime ==
  /\ phase[Stream] = "done" /\ found[Stream] # <<>> /\ Len(channel) < ChannelSize
  /\ channel' = Append(channel, Head(found[Stream]))
  /\ found' = [found EXCEPT ![Stream] = Tail(@)]
  /\ lastSeen' = IF lastSeen = 0 THEN TimeOf[Head(found[Stream])] ELSE lastSeen
  /\ UNCHANGED <<filter, phase, tenants, days, before, storage, closed, received, appended, refused, counts>>

\* Faulty variant: a full channel drops the event.
SendOrDrop ==
  /\ phase[Stream] = "done" /\ found[Stream] # <<>>
  /\ channel' = IF Len(channel) < ChannelSize THEN Append(channel, Head(found[Stream])) ELSE channel
  /\ lastSeen' = TimeOf[Head(found[Stream])]
  /\ found' = [found EXCEPT ![Stream] = Tail(@)]
  /\ UNCHANGED <<filter, phase, tenants, days, before, storage, closed, received, appended, refused, counts>>

Send ==
  /\ phase[Stream] = "done" /\ found[Stream] # <<>> /\ Len(channel) < ChannelSize
  /\ channel' = Append(channel, Head(found[Stream]))
  /\ lastSeen' = TimeOf[Head(found[Stream])]
  /\ found' = [found EXCEPT ![Stream] = Tail(@)]
  /\ UNCHANGED <<filter, phase, tenants, days, before, storage, closed, received, appended, refused, counts>>

NextPoll ==
  /\ phase[Stream] = "failed" \/ (phase[Stream] = "done" /\ found[Stream] = <<>>)
  /\ phase' = [phase EXCEPT ![Stream] = "off"]
  /\ found' = [found EXCEPT ![Stream] = <<>>]
  /\ UNCHANGED <<filter, tenants, days, before, storage, closed, streaming, appended, refused, counts>>

Cancel ==
  /\ phase[Stream] # "ended"
  /\ phase' = [phase EXCEPT ![Stream] = "ended"]
  /\ found' = [found EXCEPT ![Stream] = <<>>]
  /\ UNCHANGED <<filter, tenants, days, before, storage, closed, streaming, appended, refused, counts>>

Receive ==
  /\ channel # <<>>
  /\ received' = Append(received, Head(channel)) /\ channel' = Tail(channel)
  /\ UNCHANGED <<storage, closed, walks, lastSeen, appended, refused, counts>>

\* The caller of Query has its result.
Answered ==
  /\ phase[Query] \in {"done", "failed"}
  /\ phase' = [phase EXCEPT ![Query] = "off"] /\ filter' = [filter EXCEPT ![Query] = NoFilter]
  /\ found' = [found EXCEPT ![Query] = <<>>]
  /\ UNCHANGED <<tenants, days, before, storage, closed, streaming, appended, refused, counts>>

-----------------------------------------------------------------------------
Close ==
  /\ writing = Nothing /\ ~closed
  /\ closed' = TRUE /\ stuck' = {}
  /\ UNCHANGED <<file, writing, joins, walks, streaming, appended, refused, counts>>

\* The process dies and is started again; its walks and its stream are gone.
Restart ==
  /\ restarts < MaxRestarts
  /\ restarts' = restarts + 1
  /\ refused' = refused \cup ({writing} \ {Nothing})
  /\ writing' = Nothing /\ joins' = FALSE /\ stuck' = {} /\ closed' = FALSE
  /\ filter' = [filter EXCEPT ![Query] = NoFilter]
  /\ phase' = [r \in Readers |-> "off"] /\ tenants' = [r \in Readers |-> <<>>]
  /\ days' = [r \in Readers |-> <<>>] /\ found' = [r \in Readers |-> <<>>]
  /\ before' = [r \in Readers |-> {}]
  /\ lastSeen' = 0 /\ channel' = <<>> /\ received' = <<>>
  /\ UNCHANGED <<file, appended, faults>>

Appending == (\E e \in Events : AppendStarts(e) \/ AppendRefuses(e)) \/ AppendReturns \/ AppendFails

Walking(r) ==
  StartWalk(r) \/ ListTenant(r) \/ ScanFile(r) \/ FinishWalk(r) \/ WalkFails(r) \/ WalkMeetsError(r)

Next ==
  \/ Appending
  \/ \E r \in Readers : Walking(r)
  \/ QueryIsCancelled \/ Answered
  \/ Send \/ NextPoll \/ Cancel \/ Receive \/ Close \/ Restart

Spec == Init /\ [][Next]_vars

\* The poll's ticker goes on, an append under way returns, the consumer reads.
Fairness ==
  WF_vars(Walking(Stream) \/ Send \/ NextPoll) /\ WF_vars(AppendReturns) /\ WF_vars(Receive)

-----------------------------------------------------------------------------
TypeOK ==
  /\ DOMAIN file \subseteq Buckets
  /\ \A b \in DOMAIN file : file[b] \in Seq([event : Events, state : {"part", "whole", "spoilt"}])
  /\ writing \in Events \cup {Nothing} /\ joins \in BOOLEAN
  /\ stuck \subseteq Buckets /\ closed \in BOOLEAN
  /\ filter \in [Readers -> Filter]
  /\ phase \in [Readers -> {"off", "walk", "done", "failed", "ended"}]
  /\ tenants \in [Readers -> Seq(Tenants)] /\ days \in [Readers -> Seq(Buckets)]
  /\ found \in [Readers -> Seq(Events)] /\ before \in [Readers -> SUBSET Events]
  /\ lastSeen \in Nat /\ channel \in Seq(Events) /\ Len(channel) <= ChannelSize
  /\ received \in Seq(Events)
  /\ appended \cup refused \subseteq Events
  /\ faults \in 0..MaxFaults /\ restarts \in 0..MaxRestarts

\* The event has a line of its own, which can be parsed.  A query comes to it
\* when it can read the file up to there (ConfirmedCanBeQueried).
Intact(e) == \E i \in DOMAIN Lines(BucketOf(e)) : Lines(BucketOf(e))[i] = [event |-> e, state |-> "whole"]

\* Until a restart every event whose key was returned keeps its line, also
\* after the disk failed in the middle of another (jsonl.go:46-75).
StoredIsIntact == restarts = 0 => \A e \in appended : Intact(e)

\* store.go:22: "Query retrieves events matching the given filter."  A confirmed
\* event does not keep a query from those of its file (jsonl.go:214-232).
ConfirmedCanBeQueried == \A e \in appended : ~TooLong(Lines(BucketOf(e)))

\* A restart loses at most one event of a file whose key was returned: the one
\* that joins the part left behind (jsonl.go:195-204).
OneLossPerRestart ==
  \A b \in DOMAIN file :
    Cardinality({e \in appended : BucketOf(e) = b /\ ~Intact(e)}) <= restarts

\* A query that succeeds finds every intact event that was appended before it
\* began and matches, once, and nothing else; with a limit, no more than that and,
\* if less, all of them (jsonl.go:79-108, 206-266).
QueryComplete ==
  phase[Query] = "done" =>
    LET got == found[Query]
        f == filter[Query]
    IN  /\ IsInjective(got)
        /\ \A e \in Range(got) : Matches(e, f, f.after) /\ Intact(e)
        /\ f.limit > 0 => Len(got) <= f.limit
        /\ f.limit = 0 \/ Len(got) < f.limit =>
             \A e \in before[Query] : Intact(e) /\ Matches(e, f, f.after) => e \in Range(got)

\* An event that matches comes through a stream that is not cancelled,
\* unless the store is closed or restarted (store.go:25-27, jsonl.go:110-150).
StreamDelivers(e) ==
  (e \in appended /\ Intact(e) /\ Matches(e, filter[Stream], filter[Stream].after)) ~>
    (e \in Range(received) \/ phase[Stream] = "ended" \/ closed \/ restarts > 0)

\* What the stream asks for is of one tenant, and a file has it in the order of
\* the times.
OneTenant == \A e, g \in filter[Stream].selected : TenantOf[e] = TenantOf[g]
Wanted(line) == line.state = "whole" /\ line.event \in filter[Stream].selected
InTimeOrder ==
  \A b \in DOMAIN file : \A i, j \in DOMAIN file[b] :
    i < j /\ Wanted(file[b][i]) /\ Wanted(file[b][j]) =>
      TimeOf[file[b][i].event] < TimeOf[file[b][j].event]

\* A stream sends such events once, in the order of their times, whatever is
\* appended to the other files (jsonl.go:140-146).
StreamOnceInOrder ==
  OneTenant /\ InTimeOrder =>
    \A i, j \in DOMAIN received : i < j => TimeOf[received[i]] < TimeOf[received[j]]

\* store.go:22-23: "Results are returned in chronological order."
Chronological ==
  phase[Query] = "done" =>
    \A i, j \in DOMAIN found[Query] : i < j => TimeOf[found[Query][i]] <= TimeOf[found[Query][j]]
=============================================================================
