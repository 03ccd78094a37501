------------------------------ MODULE Detectors ------------------------------
(***************************************************************************)
(* The three detectors of the analyzer: the loop detector without a        *)
(* window, as its reference works, and with one, the drift detector and    *)
(* the tool misuse detector.                                               *)
(*                                                                         *)
(* They share no variable: Engine.Analyze gives each event to each of them *)
(* in turn.  A behaviour is one of one of them, the subject, chosen in the *)
(* initial state; the states add up and do not multiply.                   *)
(***************************************************************************)
EXTENDS Naturals

CONSTANTS
  MinSeqLen, MinReps,                 \* of both loop detectors
  LoopTools, LoopCalls,               \* without a window
  WindowTools, Delays, Window, WindowCalls,
  Sessions, Words, DriftPercent, MinPrompts, Prompts, DriftRestarts,
  Tools, Arguments, Ways, MaxSameFailures, RatePercent, MinCalls,
  MisuseCalls, MisuseRestarts

VARIABLES
  subject,
  lCalls, lFirst, lEmitted, lReports,                        \* Loop
  wCalls, wFirst, wEmitted, wReports,                        \* Windowed
  dPrompts, dHeld, dEmitted, dFindings, dRestarts,           \* Drift
  mCalls, mFrom, mStorms, mRated, mFindings, mRestarts       \* Misuse

loopVars == <<lCalls, lFirst, lEmitted, lReports>>
windowVars == <<wCalls, wFirst, wEmitted, wReports>>
driftVars == <<dPrompts, dHeld, dEmitted, dFindings, dRestarts>>
misuseVars == <<mCalls, mFrom, mStorms, mRated, mFindings, mRestarts>>
detectorVars == <<subject, loopVars, windowVars, driftVars, misuseVars>>

Loop == INSTANCE LoopDetector WITH
  Tools <- LoopTools, Delays <- {0}, Window <- 0,
  MaxCalls <- LoopCalls,
  calls <- lCalls, first <- lFirst, emitted <- lEmitted, reports <- lReports

Windowed == INSTANCE LoopDetector WITH
  Tools <- WindowTools, MaxCalls <- WindowCalls,
  calls <- wCalls, first <- wFirst, emitted <- wEmitted, reports <- wReports

\* Words in ASCII: each is one token.
Drift == INSTANCE DriftDetector WITH
  Pieces <- [w \in Words |-> {w}], Percent <- DriftPercent,
  MaxPrompts <- Prompts, MaxRestarts <- DriftRestarts,
  prompts <- dPrompts, held <- dHeld, emitted <- dEmitted, findings <- dFindings,
  restarts <- dRestarts

Misuse == INSTANCE ToolMisuse WITH
  MaxFailures <- MaxSameFailures, Percent <- RatePercent,
  MaxCalls <- MisuseCalls, MaxRestarts <- MisuseRestarts,
  calls <- mCalls, from <- mFrom, storms <- mStorms, rated <- mRated,
  findings <- mFindings, restarts <- mRestarts

ASSUME LoopOk == Loop!LoopAssumption
ASSUME WindowedOk == Windowed!LoopAssumption
ASSUME DriftOk == Drift!DriftAssumption
ASSUME MisuseOk == Misuse!MisuseAssumption

DetectorsInit ==
  /\ subject \in {"loop", "window", "drift", "misuse"}
  /\ Loop!Init /\ Windowed!Init /\ Drift!Init /\ Misuse!Init

LoopMoves ==
  /\ subject = "loop" /\ Loop!Next
  /\ UNCHANGED <<subject, windowVars, driftVars, misuseVars>>
WindowedMoves ==
  /\ subject = "window" /\ Windowed!Next
  /\ UNCHANGED <<subject, loopVars, driftVars, misuseVars>>
DriftMoves ==
  /\ subject = "drift" /\ Drift!Next
  /\ UNCHANGED <<subject, loopVars, windowVars, misuseVars>>
MisuseMoves ==
  /\ subject = "misuse" /\ Misuse!Next
  /\ UNCHANGED <<subject, loopVars, windowVars, driftVars>>

DetectorsNext == LoopMoves \/ WindowedMoves \/ DriftMoves \/ MisuseMoves
DetectorsSpec == DetectorsInit /\ [][DetectorsNext]_detectorVars

-----------------------------------------------------------------------------
\* Fed one call at a time, the loop detector (loop.go:73-190) without a window
\* reports what its reference finds in the whole session, each loop once; with
\* a window every report did repeat within it, and no repetition that ends at
\* the last call is missed.
LoopsFound ==
  /\ Loop!AsReference /\ Loop!LoopInstanceOnce
  /\ Windowed!ReallyRepeated /\ Windowed!NothingMissed

\* Fed prompt by prompt with other sessions between, the drift detector
\* (drift.go:55-154) reports a session when its reference would on what was
\* seen since the process started, once, with the reference's prompts and severity.
DriftAsReference ==
  Drift!AsReference /\ Drift!TrueWhenReported /\ Drift!OncePerStart

\* The tool misuse detector (toolmisuse.go:46-213) reports a storm exactly when
\* one tool failed too often with the same arguments, however these are
\* written, and a rate exactly when the share of a tool's calls that failed is the
\* limit or more and no storm had come first; each once while the process runs.
MisuseFaithful ==
  Misuse!StormWhenTooMany /\ Misuse!RateWhenTooHigh /\ Misuse!OnceAndNoRateAfterStorm
=============================================================================
