------------------------------- MODULE MCAudit -------------------------------
(***************************************************************************)
(* The audit log for TLC: the sink and its disk (AuditSink), the sink with *)
(* an edited file (AuditTamper) and the readers of the file (AuditReaders).*)
(*                                                                         *)
(* The three share no variable.  A behaviour is one of one of them, chosen *)
(* in the initial state as the subject, and the other two stay as they     *)
(* start: the states TLC visits add up and do not multiply.                *)
(***************************************************************************)
EXTENDS AuditSink

CONSTANTS EditCalls, EditRestarts,    \* bounds of AuditTamper
          ReadCalls, ReadStarts       \* bounds of AuditReaders

VARIABLES
  subject,    \* the module whose behaviour this is
  eDisk, eStable, eMode, ePc, eEntry, eSeq, ePreviousHash, eFailed, eCalls,
  eRestarts, eAcked, edited,    \* AuditTamper
  rSink, rSeq, rPreviousHash, rStarts, rLines, rLong, rWriting, rWritingLong,
  rVerify, rFromSeq, rPos, rExpectedPrev, rLastSeq, rBlamed, rWhole    \* AuditReaders

Edit == INSTANCE AuditTamper WITH
  MaxCalls <- EditCalls, MaxRestarts <- EditRestarts,
  disk <- eDisk, stable <- eStable, mode <- eMode, pc <- ePc, entry <- eEntry,
  seq <- eSeq, previousHash <- ePreviousHash, failed <- eFailed, calls <- eCalls,
  restarts <- eRestarts, acked <- eAcked

Read == INSTANCE AuditReaders WITH
  MaxCalls <- ReadCalls, MaxStarts <- ReadStarts, MayBeLong <- TRUE,
  sink <- rSink, seq <- rSeq, previousHash <- rPreviousHash, starts <- rStarts,
  lines <- rLines, long <- rLong, writing <- rWriting, writingLong <- rWritingLong,
  verify <- rVerify, fromSeq <- rFromSeq, pos <- rPos,
  expectedPrev <- rExpectedPrev, lastSeq <- rLastSeq, blamed <- rBlamed, whole <- rWhole

ASSUME ReadersOk == Read!ReadersAssumption

editVars ==
  <<eDisk, eStable, eMode, ePc, eEntry, eSeq, ePreviousHash, eFailed, eCalls,
    eRestarts, eAcked, edited>>
readVars ==
  <<rSink, rSeq, rPreviousHash, rStarts, rLines, rLong, rWriting, rWritingLong,
    rVerify, rFromSeq, rPos, rExpectedPrev, rLastSeq, rBlamed, rWhole>>
allVars == <<subject, vars, editVars, readVars>>

AllInit ==
  /\ subject \in {"sink", "edit", "read"}
  /\ Init /\ Edit!TamperInit /\ Read!Init

SinkMoves ==
  subject = "sink" /\ Next /\ UNCHANGED <<subject, editVars, readVars>>
EditMoves ==
  subject = "edit" /\ Edit!TamperNext /\ UNCHANGED <<subject, vars, readVars>>
ReadMoves ==
  subject = "read" /\ Read!Next /\ UNCHANGED <<subject, vars, editVars>>

AllSpec == AllInit /\ [][SinkMoves \/ EditMoves \/ ReadMoves]_allVars

\* Verify (hashchain.go:104-153) never vouches for a file of which a line was
\* removed or its hashed text edited, nor blames an entry before that line,
\* whatever crashes and is resumed around the edit; it has no word of an edit of
\* what is not hashed; and while the file is only appended to it never blames an
\* entry that is wholly there nor vouches for entries it has not read.
VerifyTellsTheTruth ==
  /\ Edit!EditStaysVisible /\ Edit!BlamesNoEarlier /\ Edit!RestGoesUnseen
  /\ Read!BlamesNoWholeEntry /\ Read!IntactHasReadAll /\ Read!NumbersContinue
=============================================================================
