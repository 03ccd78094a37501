------------------------------ MODULE KeyHandles ------------------------------
(***************************************************************************)
(* The DEK of one bucket in the hands of its users: GetDEK, ShredDEK and   *)
(* Close of LocalManager (internal/keymanager/local.go) work on one        *)
(* object, whose address GetDEK returns.  What the object says on disk is  *)
(* the module KeyManager.                                                  *)
(*                                                                         *)
(* GetDEK sets dek.Key under the read lock, so two calls may do it at      *)
(* once.  dek.Key is a slice: an address and a length, written one after   *)
(* the other in either order; another goroutine may see one without the    *)
(* other.  ShredDEK and Close zero the key byte by byte (two halves here)  *)
(* under the write lock, which those who use the key do not hold.  Close   *)
(* leaves the DEK in the map: a later GetDEK hands the zeroes out, or      *)
(* fails to unwrap with a KEK that is zeroed too.                          *)
(***************************************************************************)
EXTENDS Naturals, FiniteSets, Functions

CONSTANT Users

VARIABLES
  present,    \* the bucket is in m.deks
  header,     \* the parts of dek.Key that are set: subset of Parts
  bytes,      \* its two halves: "key" or "zero"
  pc,         \* Users -> "idle", "loading", "have" or "refused"
  written,    \* Users -> the parts a loading user has written
  shred,      \* ShredDEK: "idle", "zeroing", "deleted" or "returned"
  closing,    \* Close: "idle", "zeroing" or "returned"
  used,       \* what the users have encrypted with
  askedLate   \* history: the users that called GetDEK after ShredDEK returned

user == <<pc, written>>
history == <<used, askedLate>>
vars == <<present, header, bytes, user, shred, closing, history>>

Parts == {"address", "length"}
Halves == {1, 2}

\* The DEK was generated by this process, or read from the file and not yet
\* unwrapped.
Init ==
  /\ present = TRUE
  /\ header \in {{}, Parts}
  /\ bytes = [h \in Halves |-> "key"]
  /\ pc = [u \in Users |-> "idle"] /\ written = [u \in Users |-> {}]
  /\ shred = "idle" /\ closing = "idle"
  /\ used = {} /\ askedLate = {}

-----------------------------------------------------------------------------
ReadLocked == \E u \in Users : pc[u] = "loading"
WriteLocked == shred \in {"zeroing", "deleted"} \/ closing = "zeroing"

Arrives(u) ==
  /\ pc[u] = "idle" /\ ~WriteLocked
  /\ askedLate' = IF shred = "returned" THEN askedLate \cup {u} ELSE askedLate

\* GetDEK: no such bucket, or a key to unwrap and no KEK.
Refused(u) ==
  /\ Arrives(u) /\ (~present \/ (closing = "returned" /\ "address" \notin header))
  /\ pc' = [pc EXCEPT ![u] = "refused"]
  /\ UNCHANGED <<present, header, bytes, written, shred, closing, used>>

\* GetDEK: dek.Key is not nil, its address is set.
Get(u) ==
  /\ Arrives(u) /\ present /\ "address" \in header
  /\ pc' = [pc EXCEPT ![u] = "have"]
  /\ UNCHANGED <<present, header, bytes, written, shred, closing, used>>

\* GetDEK: dek.Key is nil and the key is unwrapped.
Load(u) ==
  /\ Arrives(u) /\ present /\ "address" \notin header /\ closing = "idle"
  /\ pc' = [pc EXCEPT ![u] = "loading"]
  /\ UNCHANGED <<present, header, bytes, written, shred, closing, used>>

\* Faulty variant: the buffer the key was unwrapped into is cleared on return.
SetKeyThenClear(u, part) ==
  /\ pc[u] = "loading"
  /\ header' = Parts /\ bytes' = [h \in Halves |-> "zero"]
  /\ written' = [written EXCEPT ![u] = Parts]
  /\ pc' = [pc EXCEPT ![u] = "have"]
  /\ UNCHANGED <<present, shred, closing, history>>

\* GetDEK: dek.Key = raw, a part at a time.
SetKey(u, part) ==
  /\ pc[u] = "loading" /\ part \notin written[u]
  /\ header' = header \cup {part}
  /\ written' = [written EXCEPT ![u] = @ \cup {part}]
  /\ pc' = [pc EXCEPT ![u] = IF written'[u] = Parts THEN "have" ELSE @]
  /\ UNCHANGED <<present, bytes, shred, closing, history>>

\* What is in the slice as its user sees it.
Contents ==
  IF "length" \notin header THEN "empty"
  ELSE IF \A h \in Halves : bytes[h] = "key" THEN "key"
  ELSE IF \A h \in Halves : bytes[h] = "zero" THEN "zeroes"
  ELSE "mixture"

\* The user of a DEK encrypts with what the slice holds now.
Encrypt(u) ==
  /\ pc[u] = "have"
  /\ used' = used \cup {Contents}
  /\ UNCHANGED <<present, header, bytes, user, shred, closing, askedLate>>

-----------------------------------------------------------------------------
\* ShredDEK takes the write lock; a key that was not unwrapped has no bytes.
ShredDEK ==
  /\ shred = "idle" /\ ~ReadLocked /\ ~WriteLocked
  /\ shred' = "zeroing"
  /\ UNCHANGED <<present, header, bytes, user, closing, history>>

ZeroHalf(h) ==
  /\ shred = "zeroing" \/ (closing = "zeroing" /\ present)
  /\ header = Parts
  /\ bytes[h] = "key" /\ \A g \in Halves : g < h => bytes[g] = "zero"
  /\ bytes' = [bytes EXCEPT ![h] = "zero"]
  /\ UNCHANGED <<present, header, user, shred, closing, history>>

Delete ==
  /\ shred = "zeroing"
  /\ header = Parts => \A h \in Halves : bytes[h] = "zero"
  /\ present' = FALSE /\ shred' = "deleted"
  /\ UNCHANGED <<header, bytes, user, closing, history>>

\* The file is saved and the lock given back.
ShredReturns ==
  /\ shred = "deleted"
  /\ shred' = "returned"
  /\ UNCHANGED <<present, header, bytes, user, closing, history>>

\* Close takes the write lock and zeroes the keys that are in the map, and the KEK.
Close ==
  /\ closing = "idle" /\ ~ReadLocked /\ ~WriteLocked
  /\ closing' = "zeroing"
  /\ UNCHANGED <<present, header, bytes, user, shred, history>>

CloseReturns ==
  /\ closing = "zeroing"
  /\ (present /\ header = Parts) => \A h \in Halves : bytes[h] = "zero"
  /\ closing' = "returned"
  /\ UNCHANGED <<present, header, bytes, user, shred, history>>

\* Every call was refused.
Rest == (\A u \in Users : pc[u] = "refused") /\ UNCHANGED vars

Next ==
  \/ \E u \in Users :
       \/ Refused(u) \/ Get(u) \/ Load(u) \/ Encrypt(u)
       \/ \E part \in Parts : SetKey(u, part)
  \/ ShredDEK \/ Delete \/ ShredReturns \/ Close \/ CloseReturns \/ Rest
  \/ \E h \in Halves : ZeroHalf(h)

Spec == Init /\ [][Next]_vars

-----------------------------------------------------------------------------
TypeOK ==
  /\ present \in BOOLEAN /\ header \subseteq Parts
  /\ bytes \in [Halves -> {"key", "zero"}]
  /\ pc \in [Users -> {"idle", "loading", "have", "refused"}]
  /\ written \in [Users -> SUBSET Parts]
  /\ \A u \in Users : pc[u] = "loading" => written[u] # Parts
  /\ shred \in {"idle", "zeroing", "deleted", "returned"}
  /\ closing \in {"idle", "zeroing", "returned"}
  /\ used \subseteq {"key", "zeroes", "mixture", "empty"}
  /\ askedLate \subseteq Users

\* A DEK never decays under its user as long as nobody shreds it or closes the
\* manager (local.go:117-120, 195-199).
WholeUntilDestroyed ==
  (used \cap {"zeroes", "mixture"} # {}) => shred # "idle" \/ closing # "idle"

\* GetDEK returns a key without its length only when calls overlap: two that
\* unwrap at once, or one that comes while another unwraps (local.go:96-104).
EmptyOnlyByRace ==
  "empty" \in used => Cardinality({u \in Users : written[u] # {} \/ pc[u] = "have"}) > 1

\* GetDEK fails once ShredDEK has returned (manager.go:27).
NoneAfterShredding == \A u \in askedLate : pc[u] = "refused"

\* Once shredded, data encrypted with the key cannot be recovered
\* (manager.go:30-31): nothing is encrypted with a key that anyone knows.
NothingUnderZeroes == "zeroes" \notin used

\* GetDEK "retrieves and unwraps" the DEK (manager.go:26): its user has a key.
UserHasKey == "empty" \notin used
=============================================================================
