---------------------------- MODULE DriftDetector ----------------------------
(***************************************************************************)
(* DriftDetector (internal/analyzer/detectors/drift.go): the prompts of a  *)
(* session are compared with its first one; when one has too few words in  *)
(* common with it the session is reported, once.                           *)
(*                                                                         *)
(* A prompt is a set of words.  Pieces[w] is what Go's \w+ finds in the    *)
(* word w: w itself when its letters are ASCII, else its ASCII stretches.  *)
(* The sessions live in the process: a restart of the analyzer forgets     *)
(* them, and the cursor takes up the reading where it was.                 *)
(*                                                                         *)
(* The Reference operators are the detector it was ported from             *)
(* (archive/analysis-python/flight_recorder_analysis/detectors/            *)
(* drift_detector.py), which sees a session at once.                       *)
(***************************************************************************)
EXTENDS Naturals, Sequences, FiniteSets, FiniteSetsExt

CONSTANTS Sessions, Words, Pieces,
          Percent,       \* drift threshold
          MinPrompts,
          MaxPrompts, MaxRestarts   \* bounds

\* What the constants are, assumed by the module that gives them values.
DriftAssumption ==
  /\ DOMAIN Pieces = Words /\ Percent \in 1..100 /\ MinPrompts \in Nat \ {0}
  /\ MaxPrompts \in Nat /\ MaxRestarts \in Nat

VARIABLES
  prompts,    \* history: the prompts of each session
  held,       \* sess.prompts
  emitted,    \* sess.emittedFinding
  findings,   \* [session, base, total, drifted, severity]
  restarts

vars == <<prompts, held, emitted, findings, restarts>>

Init ==
  /\ prompts = [s \in Sessions |-> <<>>] /\ held = prompts
  /\ emitted = [s \in Sessions |-> FALSE] /\ findings = {} /\ restarts = 0

-----------------------------------------------------------------------------
(***************************************************************************)
(* Similarity.                                                             *)
(***************************************************************************)
tokenise(prompt) == UNION {Pieces[w] : w \in prompt}

\* Faulty variant: a prompt at the threshold is taken for drift.
BelowOrAt(a, b) ==
  a \cup b # {} /\ 100 * Cardinality(a \cap b) <= Percent * Cardinality(a \cup b)

\* The Jaccard similarity of two sets of tokens, 1 when both are empty, is
\* below the threshold.
Below(a, b) ==
  a \cup b # {} /\ 100 * Cardinality(a \cap b) < Percent * Cardinality(a \cup b)

Drifted(ps) == {i \in 2..Len(ps) : Below(tokenise(ps[1]), tokenise(ps[i]))}

Severity(drifted, total) ==
  IF 10 * Cardinality(drifted) >= 8 * (total - 1) THEN "error" ELSE "warning"

\* The reference compares all the words.
ReferenceDrifted(ps) ==
  {i \in 2..Len(ps) : LET union == ps[1] \cup ps[i] IN
    union # {} /\ 100 * Cardinality(ps[1] \cap ps[i]) < Percent * Cardinality(union)}

ReferenceSeverity(ps) ==
  IF 10 * Cardinality(ReferenceDrifted(ps)) >= 8 * (Len(ps) - 1) THEN "error" ELSE "warning"

ReferenceFinds(ps) == Len(ps) >= MinPrompts /\ ReferenceDrifted(ps) # {}

-----------------------------------------------------------------------------
(***************************************************************************)
(* Analyze.                                                                *)
(***************************************************************************)
\* A prompt of a session: the base of a finding is the number of prompts that
\* came before those the detector holds.
Analyze(s, p) ==
  LET now == Append(held[s], p)
      base == Len(prompts[s]) - Len(held[s])
      drifted == Drifted(now)
      found == Len(now) >= MinPrompts /\ ~emitted[s] /\ drifted # {}
  IN  /\ prompts' = [prompts EXCEPT ![s] = Append(@, p)]
      /\ held' = [held EXCEPT ![s] = now]
      /\ emitted' = [emitted EXCEPT ![s] = @ \/ found]
      /\ findings' = IF found
           THEN findings \cup {[session |-> s, base |-> base, total |-> Len(now),
                  drifted |-> drifted, severity |-> Severity(drifted, Len(now))]}
           ELSE findings
      /\ UNCHANGED restarts

\* The analyzer process starts with new detectors.
Restart ==
  /\ restarts < MaxRestarts /\ restarts' = restarts + 1
  /\ held' = [s \in Sessions |-> <<>>] /\ emitted' = [s \in Sessions |-> FALSE]
  /\ UNCHANGED <<prompts, findings>>

Seen == MapThenSumSet(LAMBDA s : Len(prompts[s]), Sessions)

Rest == Seen = MaxPrompts /\ UNCHANGED vars

Next ==
  \/ Seen < MaxPrompts /\ \E s \in Sessions, p \in SUBSET Words : Analyze(s, p)
  \/ Restart
  \/ Rest

Spec == Init /\ [][Next]_vars

-----------------------------------------------------------------------------
TypeOK ==
  /\ \A s \in Sessions :
       /\ prompts[s] \in Seq(SUBSET Words) /\ held[s] \in Seq(SUBSET Words)
       /\ emitted[s] \in BOOLEAN
  /\ \A f \in findings :
       /\ f.session \in Sessions /\ f.severity \in {"warning", "error"}
       /\ f.total \in MinPrompts..MaxPrompts /\ f.base + f.total <= Len(prompts[f.session])
       /\ f.drifted # {} /\ f.drifted \subseteq 2..f.total
  /\ restarts \in 0..MaxRestarts

SeenFor(f) == SubSeq(prompts[f.session], f.base + 1, f.base + f.total)

\* Fed one prompt at a time, with other sessions between, the detector has
\* reported a session when the reference would on the prompts it has seen since
\* the process started (drift.go:55-63).
AsReference ==
  \A s \in Sessions : emitted[s] <=> ReferenceFinds(held[s])

\* A finding names the prompts the reference names, with its severity, on the
\* prompts seen until then (drift.go:118-154).
TrueWhenReported ==
  \A f \in findings :
    /\ f.drifted = ReferenceDrifted(SeenFor(f))
    /\ f.severity = ReferenceSeverity(SeenFor(f))

\* A session is reported once for each start of the process (drift.go:107).
OncePerStart ==
  \A s \in Sessions : Cardinality({f \in findings : f.session = s}) <= restarts + 1

\* drift.go:55-60: "similarity between the initial session prompt and
\* subsequent prompts", "Treat the first prompt as the reference (original
\* goal)": a prompt that is reported has drifted from the session's first.
DriftedFromFirst ==
  \A f \in findings : \A i \in f.drifted :
    f.base + i \in ReferenceDrifted(prompts[f.session])
=============================================================================
