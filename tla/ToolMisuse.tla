----------------------------- MODULE ToolMisuse ------------------------------
(***************************************************************************)
(* ToolMisuseDetector (internal/analyzer/detectors/toolmisuse.go), one     *)
(* session.  Two signals are looked for after each call: the same tool     *)
(* with the same arguments fails too often (a storm), or too large a share *)
(* of the tool's calls fails (its rate).                                   *)
(*                                                                         *)
(* The arguments of a call are a value n, written in one of several ways   *)
(* (the order of the keys, blanks): canonicalArgs is the value.            *)
(***************************************************************************)
EXTENDS Naturals, Sequences, FiniteSets

CONSTANTS Tools, Arguments, Ways,
          MaxFailures,         \* maxConsecutiveFailures
          Percent, MinCalls,   \* minFailureRate, minCallsForRate
          MaxCalls, MaxRestarts   \* bounds

\* What the constants are, assumed by the module that gives them values.
MisuseAssumption ==
  /\ MaxFailures \in Nat \ {0}
  /\ Percent \in 1..100 /\ MinCalls \in Nat \ {0} /\ MaxCalls \in Nat /\ MaxRestarts \in Nat

VARIABLES
  calls,      \* history: [tool, n, way, ok]
  from,       \* the detector has seen the calls from here on
  storms,     \* emittedRetryStorm of each tool: keys
  rated,      \* emittedRateDetection
  findings,   \* [kind, tool, key, from, at, failed]
  restarts

vars == <<calls, from, storms, rated, findings, restarts>>

Init ==
  /\ calls = <<>> /\ from = 1 /\ findings = {} /\ restarts = 0
  /\ storms = [t \in Tools |-> {}] /\ rated = [t \in Tools |-> FALSE]

-----------------------------------------------------------------------------
canonicalArgs(call) == call.n

Of(cs, since, t) == {i \in since..Len(cs) : cs[i].tool = t}

Failed(cs, ids) == {i \in ids : ~cs[i].ok}

\* Faulty variant: the calls of every tool with these arguments.
SameOfAll(cs, since, t, key) == {i \in since..Len(cs) : canonicalArgs(cs[i]) = key}

Same(cs, since, t, key) == {i \in Of(cs, since, t) : canonicalArgs(cs[i]) = key}

IsStorm(t, key, failed) == key \notin storms[t] /\ Cardinality(failed) > MaxFailures

\* Not when a storm of the tool was reported, this call's included.
IsRate(t, stormy, total, failed) ==
  /\ ~rated[t] /\ total >= MinCalls
  /\ 100 * Cardinality(failed) >= Percent * total
  /\ stormy = {}

Finding(kind, t, key, failed) ==
  [kind |-> kind, tool |-> t, key |-> key, from |-> from, at |-> Len(calls'), failed |-> failed]

Analyze(call) ==
  LET t == call.tool
      key == canonicalArgs(call)
      now == Append(calls, call)
      all == Of(now, from, t)
      same == Failed(now, Same(now, from, t, key))
      storm == IsStorm(t, key, same)
      stormy == storms[t] \cup (IF storm THEN {key} ELSE {})
      rate == IsRate(t, stormy, Cardinality(all), Failed(now, all))
  IN  /\ calls' = now
      /\ storms' = [storms EXCEPT ![t] = stormy]
      /\ rated' = [rated EXCEPT ![t] = @ \/ rate]
      /\ findings' = findings
           \cup (IF storm THEN {Finding("storm", t, key, same)} ELSE {})
           \cup (IF rate THEN {Finding("rate", t, key, Failed(now, all))} ELSE {})
      /\ UNCHANGED <<from, restarts>>

\* The analyzer process starts with new detectors.
Restart ==
  /\ restarts < MaxRestarts /\ restarts' = restarts + 1
  /\ from' = Len(calls) + 1
  /\ storms' = [t \in Tools |-> {}] /\ rated' = [t \in Tools |-> FALSE]
  /\ UNCHANGED <<calls, findings>>

Rest == Len(calls) = MaxCalls /\ UNCHANGED vars

Calls == [tool : Tools, n : Arguments, way : Ways, ok : BOOLEAN]

Next ==
  \/ Len(calls) < MaxCalls /\ \E call \in Calls : Analyze(call)
  \/ Restart
  \/ Rest

Spec == Init /\ [][Next]_vars

-----------------------------------------------------------------------------
TypeOK ==
  /\ calls \in Seq(Calls) /\ Len(calls) <= MaxCalls
  /\ from \in 1..Len(calls) + 1 /\ restarts \in 0..MaxRestarts
  /\ \A t \in Tools : storms[t] \subseteq Arguments /\ rated[t] \in BOOLEAN
  /\ \A f \in findings :
       /\ f.kind \in {"storm", "rate"} /\ f.tool \in Tools /\ f.key \in Arguments
       /\ f.failed # {} /\ f.failed \subseteq f.from..f.at /\ f.at <= Len(calls)

\* The calls of t with these arguments that failed, until call k.
Failures(t, n, since, k) ==
  {i \in since..k : calls[i].tool = t /\ calls[i].n = n /\ ~calls[i].ok}

\* A storm is reported for a tool and arguments when they failed more than the
\* maximum since the process started, whatever other calls came between
\* (toolmisuse.go:46-49, 129-137).
StormWhenTooMany ==
  \A t \in Tools, n \in Arguments :
    n \in storms[t] <=> Cardinality(Failures(t, n, from, Len(calls))) > MaxFailures

\* A tool is reported for its rate when, after some call, it had calls enough,
\* at least the share of them had failed that is the limit, and no arguments had
\* made a storm (toolmisuse.go:173-213; the comment at 51-52 says "more than").
RateWhenTooHigh ==
  \A t \in Tools :
    rated[t] <=> \E k \in from..Len(calls) :
      LET all == {i \in from..k : calls[i].tool = t}
          failed == {i \in all : ~calls[i].ok}
      IN  /\ k \in all /\ Cardinality(all) >= MinCalls
          /\ 100 * Cardinality(failed) >= Percent * Cardinality(all)
          /\ \A n \in Arguments : Cardinality(Failures(t, n, from, k)) <= MaxFailures

\* One process reports one storm for a tool and arguments and one rate for a
\* tool, and never the rate after a storm (toolmisuse.go:22-27, 130, 185-188).
OnceAndNoRateAfterStorm ==
  \A f, g \in findings :
    (f.from = g.from /\ f.tool = g.tool /\ f # g) =>
      /\ f.kind = g.kind => (f.kind = "storm" /\ f.key # g.key)
      /\ f.kind = "rate" /\ g.kind = "storm" => f.at < g.at

\* toolmisuse.go:51-52: "High failure rate: more than minFailureRate fraction of all
\* calls to a given tool fail": what is reported for its rate had more failures
\* than that.
RateAboveThreshold ==
  \A f \in findings : f.kind = "rate" =>
    100 * Cardinality(f.failed) > Percent * Cardinality({i \in f.from..f.at : calls[i].tool = f.tool})

\* toolmisuse.go:185: "Avoid double-reporting if the retry-storm already fired
\* for this tool.": a tool is reported for its rate or for storms.
NotReportedTwice ==
  \A f, g \in findings : (f.from = g.from /\ f.tool = g.tool) => f.kind = g.kind
=============================================================================
