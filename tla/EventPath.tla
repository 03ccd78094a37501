------------------------------ MODULE EventPath ------------------------------
(***************************************************************************)
(* One event on its way from the application to the store: the SDK's queue *)
(* and sender (SdkSender), its signature in two languages (EventCodec) and *)
(* its redaction (Redaction).                                              *)
(*                                                                         *)
(* Each module abstracts from what the other two look at, and they share   *)
(* no variable.  A behaviour is one of one of them, the subject, chosen in *)
(* the initial state; the other two do not move.                           *)
(***************************************************************************)
EXTENDS SdkSender

CONSTANTS
  Types, Severities, SdkTypes, SdkSeverities, Texts, Tools, Durations,      \* Codec
  Zones, Certs, Config, BadTenants, Agents, Tenants, MaxFaults,
  DefaultPatterns, CustomPatterns, Words, Bare, MaxWords,                   \* Redact
  None

VARIABLES
  subject,
  sdk, queued, key, cert, wire, verdict, stored, analysed, faults,    \* Codec
  event, now, redacted, phase, line                                   \* Redact

codecVars == <<sdk, queued, key, cert, wire, verdict, stored, analysed, faults>>
redactVars == <<event, now, redacted, phase, line>>
allVars == <<subject, vars, codecVars, redactVars>>

Codec == INSTANCE EventCodec
Redact == INSTANCE Redaction

ASSUME SdkOk == SdkAssumption
ASSUME CodecOk == Codec!CodecAssumption
ASSUME RedactOk == Redact!RedactionAssumption

NoCodec ==
  /\ sdk = None /\ queued = None /\ key = None /\ cert = None /\ faults = 0
  /\ wire = None /\ verdict = None /\ stored = None /\ analysed = None
NoRedact ==
  event = None /\ now = None /\ redacted = {} /\ phase = "verified" /\ line = None

AllInit ==
  /\ Init
  /\ \/ subject = "queue" /\ NoCodec /\ NoRedact
     \/ subject = "codec" /\ Codec!Init /\ NoRedact
     \/ subject = "redact" /\ NoCodec /\ Redact!Init

\* The steps of the queue and its threads, as steps of the whole.
OfQueue(A) == subject = "queue" /\ A /\ UNCHANGED <<subject, codecVars, redactVars>>

QueueMoves == OfQueue(Next)
CodecMoves == subject = "codec" /\ Codec!Next /\ UNCHANGED <<subject, vars, redactVars>>
RedactMoves == subject = "redact" /\ Redact!Next /\ UNCHANGED <<subject, vars, codecVars>>

AllSpec == AllInit /\ [][QueueMoves \/ CodecMoves \/ RedactMoves]_allVars

\* The fairness of SdkSender!FairSpec.
AllFairSpec ==
  /\ AllSpec
  /\ WF_allVars(OfQueue(Sender)) /\ WF_allVars(OfQueue(PutMark))
  /\ WF_allVars(OfQueue(Join \/ JoinTimesOut))
  /\ WF_allVars(OfQueue(FlushSeesEmpty \/ FlushTimesOut))

-----------------------------------------------------------------------------
\* Retries do not reorder or duplicate the SDK's events; a close that saw the
\* thread end left none unsettled, a flush that returned at most one
\* (client.py:274-323, __init__.py:409-431).
SdkOrder == InOnePlace /\ SettledInOrder /\ CloseFlushes /\ FlushLeavesOne

\* Every event the SDK was given before close is sent or given up in the end,
\* and close returns, as long as the sender thread lives (client.py:249-323).
SdkSettles == EveryEventSettled /\ CloseReturnsIfAlive

\* An event is accepted exactly when its agent is known, it was signed with
\* the agent's key and both languages write its data alike
\* (hmac.py:20-29, event.go:174-210, tls.go:66-112).
AcceptedIffPortable == Codec!AcceptedIffPortable

\* What is stored and sent to the engine is what was signed, under the agent of
\* the certificate, whatever changed between signing and verifying
\* (__init__.py:386-402, pipeline.go:124-159, analysis.go:271-437).
SignedIsStoredAndAnalysed == Codec!AcceptedIsSigned /\ Codec!EngineSeesStored

\* Nothing a pattern matches is stored in the fields that are scrubbed, the
\* fields that changed are listed, and an event is lost to redaction only by a
\* match of a number, with a letter of an escape, or through the end of a value
\* (redactor.go:83-143, pipeline.go:173-193).
RedactionSound == Redact!NothingLeft /\ Redact!ListedIffChanged /\ Redact!LostToAMatchOnly
=============================================================================
