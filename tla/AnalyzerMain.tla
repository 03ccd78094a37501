----------------------------- MODULE AnalyzerMain -----------------------------
(***************************************************************************)
(* The process around the analyzer (cmd/analyzer/main.go, Analyzer.Run):   *)
(* the goroutine that polls, the health server, the signal or error that   *)
(* ends them, and the service manager that starts the process again.       *)
(*                                                                         *)
(* Module Analyzer has what a poll does to a file; here a file is the      *)
(* number of events in it, every event gives a finding, and the question   *)
(* is where in a poll the process stops.                                   *)
(***************************************************************************)
EXTENDS Naturals, FiniteSets

CONSTANTS NFiles,
          MaxEvents, MaxStarts,   \* bounds: events in a file, starts
          MaxFailures             \* bound: writes of findings and cursor that fail

EventFiles == 1..NFiles

\* What the constants are, assumed by the module that gives them values.
MainAssumption == /\ NFiles \in Nat \ {0} /\ MaxEvents \in Nat /\ MaxStarts \in Nat \ {0}
                  /\ MaxFailures \in Nat

VARIABLES
  events,     \* events in each file
  saved,      \* .cursor.json
  reported,   \* findings written for each file
  main,       \* "down", "start", "serve", "shutdown", "join" or "exited"
  status,     \* exit status: "none", "ok" or "error"
  cancelled,  \* the context
  server,     \* the health server: "off", "up" or "failed"
  loop,       \* Analyzer.Run: "off", "idle", "poll" or "done"
  next,       \* the file the poll comes to, NFiles + 1 when it has seen all
  read,       \* the cursor in memory
  unsaved,    \* history: the times findings were written and the position after
              \* them was not saved
  failed,     \* history: a component of this process has failed
  starts

data == <<events, saved, reported>>
vars == <<data, main, status, cancelled, server, loop, next, read, unsaved, failed, starts>>

Zero == [f \in EventFiles |-> 0]

Init ==
  /\ events = Zero /\ saved = Zero /\ reported = Zero /\ read = Zero
  /\ main = "down" /\ status = "none" /\ cancelled = FALSE /\ failed = FALSE
  /\ server = "off" /\ loop = "off" /\ next = 1 /\ unsaved = 0 /\ starts = 0

\* The ingester appends.
EventArrives(f) ==
  /\ events[f] < MaxEvents
  /\ events' = [events EXCEPT ![f] = @ + 1]
  /\ UNCHANGED <<saved, reported, main, status, cancelled, server, loop, next, read, unsaved, failed, starts>>

-----------------------------------------------------------------------------
(***************************************************************************)
(* run.                                                                    *)
(***************************************************************************)
\* The service manager starts the process: the first time, and after a failure.
Launch ==
  /\ main = "down" \/ (main = "exited" /\ status = "error")
  /\ starts < MaxStarts
  /\ main' = "start" /\ status' = "none" /\ starts' = starts + 1
  /\ cancelled' = FALSE /\ failed' = FALSE /\ server' = "off" /\ loop' = "off"
  /\ UNCHANGED <<data, next, read, unsaved>>

\* An operator starts it again, or has it started after an upgrade.
Relaunch ==
  /\ main = "exited" /\ status = "ok" /\ starts < MaxStarts
  /\ main' = "start" /\ status' = "none" /\ starts' = starts + 1
  /\ cancelled' = FALSE /\ failed' = FALSE /\ server' = "off" /\ loop' = "off"
  /\ UNCHANGED <<data, next, read, unsaved>>

\* The configuration, the directories or the cursor cannot be read.
StartFails ==
  /\ main = "start"
  /\ main' = "exited" /\ status' = "error"
  /\ UNCHANGED <<data, cancelled, server, loop, next, read, unsaved, failed, starts>>

\* Faulty variant: the cursor on disk is not loaded.
StartAfresh ==
  /\ main = "start"
  /\ main' = "serve" /\ server' = "up" /\ loop' = "poll"
  /\ next' = 1 /\ read' = Zero
  /\ UNCHANGED <<data, status, cancelled, unsaved, failed, starts>>

\* New loads the cursor; both goroutines are started; Run polls at once.
Start ==
  /\ main = "start"
  /\ main' = "serve" /\ server' = "up" /\ loop' = "poll"
  /\ next' = 1 /\ read' = saved
  /\ UNCHANGED <<data, status, cancelled, unsaved, failed, starts>>

\* The listener ends with an error, which goes to errCh.
ServerFails ==
  /\ server = "up" /\ main = "serve"
  /\ server' = "failed"
  /\ UNCHANGED <<data, main, status, cancelled, loop, next, read, unsaved, failed, starts>>

Signal ==
  /\ main = "serve"
  /\ main' = "shutdown"
  /\ UNCHANGED <<data, status, cancelled, server, loop, next, read, unsaved, failed, starts>>

\* An error cancels first, then shuts the server down as after a signal.
ComponentError ==
  /\ main = "serve" /\ server = "failed"
  /\ main' = "shutdown" /\ cancelled' = TRUE /\ failed' = TRUE
  /\ UNCHANGED <<data, status, server, loop, next, read, unsaved, starts>>

\* The server is shut down, within its timeout; then the loop is told to stop.
ShutServerDown ==
  /\ main = "shutdown"
  /\ main' = "join" /\ server' = "off" /\ cancelled' = TRUE
  /\ UNCHANGED <<data, status, loop, next, read, unsaved, failed, starts>>

\* The loop has ended; whatever the reason, run returns no error.
Return ==
  /\ main = "join" /\ loop = "done"
  /\ main' = "exited" /\ status' = "ok"
  /\ UNCHANGED <<data, cancelled, server, loop, next, read, unsaved, failed, starts>>

-----------------------------------------------------------------------------
(***************************************************************************)
(* Analyzer.Run and poll.                                                  *)
(***************************************************************************)
PollFile ==
  /\ loop = "poll" /\ next <= NFiles /\ ~cancelled
  /\ reported' = [reported EXCEPT ![next] = @ + (events[next] - read[next])]
  /\ read' = [read EXCEPT ![next] = events[next]]
  /\ next' = next + 1
  /\ UNCHANGED <<events, saved, main, status, cancelled, server, loop, unsaved, failed, starts>>

\* The context was cancelled: poll returns without saving the cursor.
PollIsCut ==
  /\ loop = "poll" /\ next <= NFiles /\ cancelled
  /\ loop' = "idle" /\ unsaved' = IF next > 1 THEN unsaved + 1 ELSE unsaved
  /\ UNCHANGED <<data, main, status, cancelled, server, next, read, failed, starts>>

\* The list of files cannot be read.
ListFails ==
  /\ loop = "poll" /\ next = 1
  /\ loop' = "idle"
  /\ UNCHANGED <<data, main, status, cancelled, server, next, read, unsaved, failed, starts>>

\* The file cannot be read, or some of its findings not be written: the poll goes
\* on to the next one, and comes back to all of them.
PollFileFails ==
  /\ loop = "poll" /\ next <= NFiles /\ ~cancelled
  /\ \E written \in 0..events[next] - read[next] :
       /\ written > 0 => unsaved < MaxFailures
       /\ reported' = [reported EXCEPT ![next] = @ + written]
       /\ unsaved' = IF written > 0 THEN unsaved + 1 ELSE unsaved
  /\ next' = next + 1
  /\ UNCHANGED <<events, saved, main, status, cancelled, server, loop, read, failed, starts>>

PollSaves ==
  /\ loop = "poll" /\ next = NFiles + 1
  /\ saved' = read /\ loop' = "idle"
  /\ UNCHANGED <<events, reported, main, status, cancelled, server, next, read, unsaved, failed, starts>>

\* The cursor is not saved: the loop logs it and goes on with the one in memory.
PollSaveFails ==
  /\ loop = "poll" /\ next = NFiles + 1 /\ unsaved < MaxFailures
  /\ loop' = "idle" /\ unsaved' = unsaved + 1
  /\ UNCHANGED <<data, main, status, cancelled, server, next, read, failed, starts>>

\* A tick; when the context is cancelled too, select takes either.
Tick ==
  /\ loop = "idle"
  /\ loop' = "poll" /\ next' = 1
  /\ UNCHANGED <<data, main, status, cancelled, server, read, unsaved, failed, starts>>

LoopEnds ==
  /\ loop = "idle" /\ cancelled
  /\ loop' = "done"
  /\ UNCHANGED <<data, main, status, cancelled, server, next, read, unsaved, failed, starts>>

\* The process dies, at any point of a poll.
Die ==
  /\ main \notin {"down", "exited"}
  /\ main' = "exited" /\ status' = "error" /\ server' = "off" /\ loop' = "off"
  /\ unsaved' = IF loop = "poll" /\ next > 1 THEN unsaved + 1 ELSE unsaved
  /\ UNCHANGED <<data, cancelled, next, read, failed, starts>>

\* The process is down for good, or for want of starts.
Rest == main = "exited" /\ (status = "ok" \/ starts = MaxStarts) /\ UNCHANGED vars

Running == main \notin {"down", "exited"}
Loop ==
  /\ Running
  /\ ListFails \/ PollFile \/ PollFileFails \/ PollIsCut \/ PollSaves \/ PollSaveFails \/ Tick

Next ==
  \/ \E f \in EventFiles : EventArrives(f)
  \/ Launch \/ Relaunch \/ StartFails \/ Start
  \/ ServerFails \/ Signal \/ ComponentError \/ ShutServerDown \/ Return
  \/ Loop \/ (Running /\ LoopEnds) \/ Die \/ Rest

Spec == Init /\ [][Next]_vars

\* The goroutines run; select, which may take a tick again and again, takes the
\* other case in the end; the service manager restarts what failed.
FairSpec ==
  /\ Spec
  /\ WF_vars(Launch) /\ WF_vars(Start \/ StartFails)
  /\ WF_vars(ComponentError) /\ WF_vars(ShutServerDown) /\ WF_vars(Return)
  /\ WF_vars(Loop) /\ SF_vars(Running /\ LoopEnds)

-----------------------------------------------------------------------------
TypeOK ==
  /\ events \in [EventFiles -> 0..MaxEvents] /\ saved \in [EventFiles -> 0..MaxEvents]
  /\ read \in [EventFiles -> 0..MaxEvents] /\ reported \in [EventFiles -> Nat]
  /\ main \in {"down", "start", "serve", "shutdown", "join", "exited"}
  /\ status \in {"none", "ok", "error"} /\ cancelled \in BOOLEAN /\ failed \in BOOLEAN
  /\ server \in {"off", "up", "failed"} /\ loop \in {"off", "idle", "poll", "done"}
  /\ next \in 1..NFiles + 1 /\ unsaved \in Nat /\ starts \in 0..MaxStarts

\* The cursor never passes what was reported, in memory or on disk, through
\* stops, failures and starts: no event goes unreported (analyzer.go:145-159, 179).
CursorBehindReports ==
  \A f \in EventFiles : saved[f] <= reported[f] /\ (loop # "off" => read[f] <= reported[f])

\* When the process has exited the loop has ended: nothing is written after the
\* directories were closed, and the next process finds what this one left
\* (main.go:165-167).
LoopEndsFirst == (main = "exited" /\ status = "ok") => loop = "done"

\* What is reported twice was reported without the position after it being saved:
\* by a poll that was cut off, or could not write the rest of the findings or the
\* cursor, or whose process died.  Each time repeats no event more than once
\* (analyzer.go:129-131, 145-150, 172-183).
RepeatedByUnsavedOnly == \A f \in EventFiles : reported[f] <= events[f] * (1 + unsaved)

\* The process ends after a signal or an error, whatever the loop is doing
\* (main.go:152-167).
StopEnds == main = "shutdown" ~> main = "exited"

\* cursor.go:20 and main.go:114: the position persists across restarts, and a
\* process that was asked to stop stops gracefully.
StopRepeatsNothing == \A f \in EventFiles : reported[f] <= events[f]

\* analyzer.service.j2:14: a process that failed is started again.
FailureIsRestarted == (failed /\ starts < MaxStarts) ~> (main = "start" \/ starts = MaxStarts)
=============================================================================
