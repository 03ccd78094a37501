----------------------------- MODULE LoopDetector -----------------------------
(***************************************************************************)
(* LoopDetector (internal/analyzer/detectors/loop.go), one session: every  *)
(* tool call is appended to the session's sequence, calls older than the   *)
(* window are trimmed from its front, and what is left is searched for a   *)
(* sequence that repeats.  A call is the tool's name and a time; its event *)
(* is its number in "calls".                                               *)
(*                                                                         *)
(* The detector is a port of archive/analysis-python/.../loop_detector.py, *)
(* which searches a whole session once: Search is that algorithm, and the  *)
(* search of the port.                                                     *)
(***************************************************************************)
EXTENDS Naturals, Sequences, FiniteSetsExt, SequencesExt

CONSTANTS Tools,
          Delays,       \* time between a call and the next
          MinSeqLen, MinReps,
          Window,       \* windowSeconds, 0 for none
          MaxCalls      \* bound

\* What the constants are, assumed by the module that gives them values.
LoopAssumption ==
  /\ Delays \subseteq Nat /\ Window \in Nat /\ MaxCalls \in Nat
  /\ MinSeqLen \in Nat \ {0} /\ MinReps \in Nat \ {0}

VARIABLES
  calls,      \* history: every call of the session
  first,      \* the session holds the calls from here on
  emitted,    \* emittedStartIDs
  reports     \* findings: [loop : [start, length, reps], at : the number of calls then]

vars == <<calls, first, emitted, reports>>

Init == calls = <<>> /\ first = 1 /\ emitted = {} /\ reports = {}

-----------------------------------------------------------------------------
(***************************************************************************)
(* The search.                                                             *)
(***************************************************************************)
Tool(cs, i) == cs[i].tool

\* The calls from i on are r times those from i to i + len - 1.
Repeats(cs, i, len, r) ==
  /\ i + len * r - 1 <= Len(cs)
  /\ \A k \in i .. i + len * (r - 1) - 1 : Tool(cs, k) = Tool(cs, k + len)

RepsAt(cs, i, len) == Max({r \in 1..Len(cs) : Repeats(cs, i, len, r)})

\* The calls a loop is made of, reportedPositions.
Span(f) == f.start .. f.start + f.length * f.reps - 1

\* A position within a loop that was found is not tried again.
Try(cs, i, len, found) ==
  IF (\E f \in found : i \in Span(f)) \/ ~Repeats(cs, i, len, MinReps) THEN found
  ELSE found \cup {[start |-> i, length |-> len, reps |-> RepsAt(cs, i, len)]}

\* Every position from the first, and every length from the least.
AtLength(cs, from, len, found) ==
  LET n == Len(cs) - from + 1
      after[k \in 0..n] ==
        IF k = 0 THEN found ELSE Try(cs, from + k - 1, len, after[k - 1])
  IN  after[n]

Search(cs, from) ==
  LET upTo[len \in 0..Len(cs)] ==
        IF len = 0 THEN {}
        ELSE IF len < MinSeqLen THEN upTo[len - 1]
        ELSE AtLength(cs, from, len, upTo[len - 1])
  IN  upTo[Len(cs)]

-----------------------------------------------------------------------------
(***************************************************************************)
(* Analyze.                                                                *)
(***************************************************************************)
\* Trimming stops at the first call that is not too old.
Trimmed(cs, from) ==
  LET young == {i \in from..Len(cs) : cs[i].time + Window >= Last(cs).time}
  IN  IF Window = 0 THEN from ELSE Min(young)

\* Faulty variant: a session is reported once.
NewOnce(found) == IF emitted # {} THEN {} ELSE {f \in found : f.start \notin emitted}

\* Only starts that were not emitted before.
New(found) == {f \in found : f.start \notin emitted}

Analyze(tool, delay) ==
  LET time == delay + (IF calls = <<>> THEN 0 ELSE Last(calls).time)
      now == Append(calls, [tool |-> tool, time |-> time])
  IN  /\ calls' = now
      /\ first' = Trimmed(now, first)
      /\ LET new == New(Search(now, first')) IN
           /\ reports' = reports \cup {[loop |-> f, at |-> Len(now)] : f \in new}
           /\ emitted' = emitted \cup {f.start : f \in new}

Rest == Len(calls) = MaxCalls /\ UNCHANGED vars

Next ==
  \/ Len(calls) < MaxCalls /\ \E tool \in Tools, delay \in Delays : Analyze(tool, delay)
  \/ Rest

Spec == Init /\ [][Next]_vars

-----------------------------------------------------------------------------
TypeOK ==
  /\ calls \in Seq([tool : Tools, time : Nat]) /\ Len(calls) <= MaxCalls
  /\ first \in 1..Len(calls) + 1 /\ emitted \subseteq 1..MaxCalls
  /\ reports \subseteq [loop : [start : 1..MaxCalls, length : 1..MaxCalls, reps : 1..MaxCalls],
                        at : 1..Len(calls)]

Starts(found) == {f.start : f \in found}

Loops == {r.loop : r \in reports}

\* Fed one call at a time, the detector reports the loops the reference finds
\* in the whole session, each once (loop.go:21-25, 138-150).
AsReference ==
  /\ Starts(Loops) = Starts(Search(calls, 1))
  /\ \A r, q \in reports : r.loop.start = q.loop.start => r = q

\* What is reported did repeat, within one window (loop.go:101-114, 132-136).
ReallyRepeated ==
  \A f \in Loops :
    /\ f.length >= MinSeqLen /\ f.reps >= MinReps
    /\ Repeats(calls, f.start, f.length, f.reps)
    /\ Window > 0 => calls[f.start + f.length * f.reps - 1].time - calls[f.start].time <= Window

\* The calls from i to j are one repetition with the given period.
Unbroken(i, j, period) == \A k \in i .. j - period : Tool(calls, k) = Tool(calls, k + period)

\* When the last calls repeat often enough within the window, a loop was
\* reported that they begin in: a search never begins a loop inside another
\* (loop.go:122-138, 187-190).
NothingMissed ==
  \A len \in MinSeqLen..Len(calls) :
    LET start == Len(calls) - len * MinReps + 1 IN
    (start >= first /\ Repeats(calls, start, len, MinReps)) =>
      \E f \in Loops : f.start <= start /\ Unbroken(f.start, start, f.length)

\* loop.go:24-25: "reporting each loop instance exactly once."
LoopInstanceOnce ==
  \A f, g \in Loops :
    (f.start < g.start /\ f.length = g.length) =>
      ~Unbroken(f.start, g.start + g.length * g.reps - 1, f.length)
=============================================================================
