-------------------------------- MODULE MCKeys --------------------------------
(***************************************************************************)
(* The key manager for TLC: its store and its restarts (KeyManager) and    *)
(* one DEK in the hands of its users (KeyHandles).                         *)
(*                                                                         *)
(* The operations of KeyManager are single steps, those of KeyHandles are  *)
(* not: a behaviour is one of one of the two modules, the subject, which   *)
(* is chosen in the initial state.                                         *)
(***************************************************************************)
EXTENDS KeyManager

CONSTANT Users

VARIABLES subject, present, header, bytes, pc, written, shred, closing, used, askedLate

Handles == INSTANCE KeyHandles

handleVars == <<present, header, bytes, pc, written, shred, closing, used, askedLate>>
allVars == <<subject, vars, handleVars>>

AllInit == subject \in {"store", "handles"} /\ Init /\ Handles!Init

StoreMoves == subject = "store" /\ Next /\ UNCHANGED <<subject, handleVars>>
HandlesMove == subject = "handles" /\ Handles!Next /\ UNCHANGED <<subject, vars>>

AllSpec == AllInit /\ [][StoreMoves \/ HandlesMove]_allVars

\* What the users of a DEK have in hand (local.go:86-128, 191-204): the whole key
\* until it is shredded or the manager closed, or nothing when their GetDEK met
\* another one unwrapping it; and GetDEK returns nothing once ShredDEK has returned.
HeldKeysAreSound ==
  /\ Handles!WholeUntilDestroyed /\ Handles!EmptyOnlyByRace /\ Handles!NoneAfterShredding
=============================================================================
