------------------------------ MODULE KeyManager ------------------------------
(***************************************************************************)
(* LocalManager (internal/keymanager): data encryption keys (DEKs), one    *)
(* per bucket, wrapped by a key encryption key (KEK) in a store file.      *)
(*                                                                         *)
(* A DEK's raw key is a number, a wrapped DEK the pair of its raw key and  *)
(* the KEK it was sealed with: unwrapping with another KEK fails.  KEK 0   *)
(* is the one every start takes from the environment (AT_KEK); RotateKEK   *)
(* draws a fresh one, which lives in memory only.  Every operation holds   *)
(* the manager's lock, and the file is replaced by a rename, so each is    *)
(* one step.                                                               *)
(***************************************************************************)
EXTENDS Naturals, FiniteSets, Functions

CONSTANTS Buckets,
          MaxKeys,        \* bound on the DEKs generated
          MaxRotations,   \* bound on the calls of RotateKEK
          MaxRestarts,    \* bound on the ends of the process
          MaxFaults       \* bound on the failures of saveStore

ASSUME BoundsAssumption ==
  /\ MaxKeys \in Nat /\ MaxRotations \in Nat
  /\ MaxRestarts \in Nat /\ MaxFaults \in Nat

NotLoaded == 0        \* dek.Key == nil; raw keys are 1 .. MaxKeys
NoKey == 0

VARIABLES
  up,           \* the process runs
  kek,          \* m.kek
  deks,         \* m.deks: bucket -> [key, wrapped]
  store,        \* the store file: bucket -> wrapped
  keys,         \* how many DEKs were generated
  issued,       \* history: the key of the last GenerateDEK that succeeded
  shredded,     \* history: the keys a ShredDEK that succeeded should have destroyed
  aborted,      \* history: a rotation of this process failed after its first DEK
  forgotten,    \* history: a process ended whose KEK the store needs
  rotations, failedSaves, restarts

history == <<issued, shredded>>
counts == <<aborted, forgotten, rotations, failedSaves, restarts>>
vars == <<up, kek, deks, store, keys, history, counts>>

Wrap(key, k) == [key |-> key, kek |-> k]
Loaded(b) == deks[b].key # NotLoaded
Unwraps(b) == deks[b].wrapped.kek = kek

\* What GetDEK returns the raw key of b from.
Gets(b) ==
  CASE b \notin DOMAIN deks -> NoKey
    [] b \in DOMAIN deks /\ Loaded(b) -> deks[b].key
    [] b \in DOMAIN deks /\ ~Loaded(b) /\ Unwraps(b) -> deks[b].wrapped.key
    [] OTHER -> NoKey

Init ==
  /\ up = TRUE
  /\ kek = 0
  /\ deks = [b \in {} |-> 0]
  /\ store = [b \in {} |-> 0]
  /\ keys = 0
  /\ issued = [b \in Buckets |-> NoKey]
  /\ shredded = {}
  /\ aborted = FALSE /\ forgotten = FALSE
  /\ rotations = 0 /\ failedSaves = 0 /\ restarts = 0

-----------------------------------------------------------------------------
\* saveStore writes every wrapped DEK to a new file and renames it.
Save(ds) == store' = [b \in DOMAIN ds |-> ds[b].wrapped]

SaveFails ==
  /\ failedSaves < MaxFaults
  /\ failedSaves' = failedSaves + 1
  /\ UNCHANGED store

NewDek == [key |-> keys + 1, wrapped |-> Wrap(keys + 1, kek)]
WithNewDek(b) == [c \in DOMAIN deks \cup {b} |-> IF c = b THEN NewDek ELSE deks[c]]

\* Faulty variant: the new DEK is kept in memory only.
GenerateInMemory(b) ==
  /\ up /\ keys < MaxKeys
  /\ keys' = keys + 1
  /\ deks' = WithNewDek(b)
  /\ issued' = [issued EXCEPT ![b] = keys + 1]
  /\ UNCHANGED <<up, kek, store, shredded, counts>>

\* The DEK a bucket had is replaced without a word.
GenerateDEK(b) ==
  /\ up /\ keys < MaxKeys
  /\ keys' = keys + 1
  /\ deks' = WithNewDek(b)
  /\ Save(deks')
  /\ issued' = [issued EXCEPT ![b] = keys + 1]
  /\ UNCHANGED <<up, kek, shredded, counts>>

\* An error is returned, the DEK stays in memory.
GenerateUnsaved(b) ==
  /\ up /\ keys < MaxKeys
  /\ keys' = keys + 1
  /\ deks' = WithNewDek(b)
  /\ SaveFails
  /\ UNCHANGED <<up, kek, history, aborted, forgotten, rotations, restarts>>

\* GetDEK keeps the raw key it unwrapped; the calls that change nothing are
\* left out.
GetDEK(b) ==
  /\ up /\ b \in DOMAIN deks
  /\ ~Loaded(b) /\ Unwraps(b)
  /\ deks' = [deks EXCEPT ![b].key = deks[b].wrapped.key]
  /\ UNCHANGED <<up, kek, store, keys, history, counts>>

\* The keys the caller of ShredDEK wants destroyed.
KeysOf(b) ==
  ({issued[b]} \cup {deks[c].wrapped.key : c \in DOMAIN deks \cap {b}}) \ {NoKey}

\* Faulty variant: the DEK is dropped from memory only.
ShredInMemory(b) ==
  /\ up /\ b \in DOMAIN deks
  /\ deks' = Restrict(deks, DOMAIN deks \ {b})
  /\ shredded' = shredded \cup KeysOf(b)
  /\ UNCHANGED <<up, kek, store, keys, issued, counts>>

ShredDEK(b) ==
  /\ up /\ b \in DOMAIN deks
  /\ deks' = Restrict(deks, DOMAIN deks \ {b})
  /\ Save(deks')
  /\ shredded' = shredded \cup KeysOf(b)
  /\ UNCHANGED <<up, kek, keys, issued, counts>>

ShredUnsaved(b) ==
  /\ up /\ b \in DOMAIN deks
  /\ deks' = Restrict(deks, DOMAIN deks \ {b})
  /\ SaveFails
  /\ UNCHANGED <<up, kek, keys, history, aborted, forgotten, rotations, restarts>>

\* "Already gone": success, whatever the file holds.
ShredGone(b) ==
  /\ up /\ b \notin DOMAIN deks
  /\ shredded' = shredded \cup KeysOf(b)
  /\ UNCHANGED <<up, kek, deks, store, keys, issued, counts>>

-----------------------------------------------------------------------------
(***************************************************************************)
(* RotateKEK goes through the DEKs in an order the map chooses.  It sets   *)
(* m.kek to the new KEK with the first DEK, so it can unwrap only the      *)
(* first with the old one: the others have to be loaded already.           *)
(***************************************************************************)
NewKek == rotations + 1

\* b, with its raw key loaded, wrapped by the new KEK.
Rewrapped(b) ==
  LET key == IF Loaded(b) THEN deks[b].key ELSE deks[b].wrapped.key
  IN  [key |-> key, wrapped |-> Wrap(key, NewKek)]

Readable(b) == Loaded(b) \/ Unwraps(b)

\* The sets of DEKs the loop can have re-wrapped after some rounds.
RewrappedSets ==
  {{}} \cup {S \in SUBSET DOMAIN deks :
              \E b \in S : Readable(b) /\ \A c \in S \ {b} : Loaded(c)}

Rewrap(S) == deks' = [b \in DOMAIN deks |-> IF b \in S THEN Rewrapped(b) ELSE deks[b]]

RotateGuard == up /\ rotations < MaxRotations

\* Faulty variant: only the DEKs in use are wrapped again.
RotateLoaded ==
  /\ RotateGuard
  /\ Rewrap({b \in DOMAIN deks : Loaded(b)})
  /\ kek' = NewKek /\ rotations' = rotations + 1
  /\ Save(deks')
  /\ UNCHANGED <<up, keys, history, aborted, forgotten, failedSaves, restarts>>

RotateKEK ==
  /\ RotateGuard
  /\ DOMAIN deks \in RewrappedSets
  /\ Rewrap(DOMAIN deks)
  /\ kek' = NewKek /\ rotations' = rotations + 1
  /\ Save(deks')
  /\ UNCHANGED <<up, keys, history, aborted, forgotten, failedSaves, restarts>>

\* The save at the end fails: memory has moved to the new KEK.
RotateUnsaved ==
  /\ RotateGuard
  /\ DOMAIN deks \in RewrappedSets
  /\ Rewrap(DOMAIN deks)
  /\ kek' = NewKek /\ rotations' = rotations + 1
  /\ SaveFails
  /\ UNCHANGED <<up, keys, history, aborted, forgotten, restarts>>

\* A DEK cannot be unwrapped: nothing is rolled back, nothing saved.
RotateAborts ==
  /\ RotateGuard
  /\ \E S \in RewrappedSets :
       /\ \E b \in DOMAIN deks \ S : ~Loaded(b) /\ (S # {} \/ ~Unwraps(b))
       /\ Rewrap(S)
       /\ kek' = IF S = {} THEN kek ELSE NewKek
       /\ aborted' = (aborted \/ S # {})
  /\ rotations' = rotations + 1
  /\ UNCHANGED <<up, store, keys, history, forgotten, failedSaves, restarts>>

-----------------------------------------------------------------------------
\* Close, or a crash: memory is lost, neither writes the file.
Stop ==
  /\ up /\ restarts < MaxRestarts
  /\ up' = FALSE
  /\ restarts' = restarts + 1
  /\ kek' = 0 /\ deks' = Restrict(deks, {}) /\ aborted' = FALSE
  /\ forgotten' = (forgotten \/ \E b \in DOMAIN store : store[b].kek # 0)
  /\ UNCHANGED <<store, keys, history, rotations, failedSaves>>

\* NewLocalManager, with the KEK of the environment; loadStore unwraps nothing.
Start ==
  /\ ~up
  /\ up' = TRUE
  /\ deks' = [b \in DOMAIN store |-> [key |-> NotLoaded, wrapped |-> store[b]]]
  /\ UNCHANGED <<kek, store, keys, history, counts>>

Next ==
  \/ \E b \in Buckets :
       \/ GenerateDEK(b) \/ GenerateUnsaved(b) \/ GetDEK(b)
       \/ ShredDEK(b) \/ ShredUnsaved(b) \/ ShredGone(b)
  \/ RotateKEK \/ RotateUnsaved \/ RotateAborts
  \/ Stop \/ Start

Spec == Init /\ [][Next]_vars

-----------------------------------------------------------------------------
(***************************************************************************)
(* Properties.                                                             *)
(***************************************************************************)
IsWrapped(w) == w.key \in 1 .. keys /\ w.kek \in 0 .. rotations

\* Types, and a raw key in memory is the one its wrapping holds.
TypeOK ==
  /\ up \in BOOLEAN /\ aborted \in BOOLEAN /\ forgotten \in BOOLEAN
  /\ kek \in 0 .. rotations
  /\ DOMAIN deks \subseteq Buckets /\ DOMAIN store \subseteq Buckets
  /\ \A b \in DOMAIN deks :
       IsWrapped(deks[b].wrapped) /\ deks[b].key \in {NotLoaded, deks[b].wrapped.key}
  /\ \A b \in DOMAIN store : IsWrapped(store[b])
  /\ keys \in 0 .. MaxKeys
  /\ issued \in [Buckets -> 0 .. keys] /\ shredded \subseteq 1 .. keys
  /\ rotations \in 0 .. MaxRotations /\ failedSaves \in 0 .. MaxFaults
  /\ restarts \in 0 .. MaxRestarts

\* A failed save alone never locks a DEK: every DEK in memory can be read as long
\* as no rotation stopped midway and no KEK the file needs was forgotten
\* (RotateKEK:131-171 with saveStore:255-277 and loadStore:279-303).
NoFailedSaveLocksKeys ==
  up /\ ~aborted /\ ~forgotten => \A b \in DOMAIN deks : Gets(b) # NoKey

\* Through restarts and rotations GetDEK returns the key GenerateDEK returned
\* last, until the bucket is shredded, under the same condition and if no save
\* failed (GenerateDEK:52-83, GetDEK:86-105, loadStore:279-303).
KeysSurvive ==
  up /\ failedSaves = 0 /\ ~aborted /\ ~forgotten =>
    \A b \in Buckets : issued[b] \notin shredded \cup {NoKey} => Gets(b) = issued[b]

\* A shredded key is gone from the file and from every later process, if no save
\* failed (ShredDEK:108-128).
ShreddedUnlessSaveFailed ==
  failedSaves = 0 =>
    \A b \in Buckets : Gets(b) \notin shredded /\ (b \in DOMAIN store => store[b].key \notin shredded)

\* manager.go:30-31: after ShredDEK "data encrypted with this key is
\* unrecoverable": GetDEK never returns the key again.
ShreddedForGood == \A b \in Buckets : Gets(b) \notin shredded

\* manager.go:26-27: GetDEK "returns an error if the key has been shredded", and
\* finds it otherwise.
LostOnlyByShredding ==
  up => \A b \in Buckets : issued[b] \notin shredded \cup {NoKey} => Gets(b) # NoKey

\* manager.go:35-36: RotateKEK "re-wraps all active DEKs": but for a forgotten KEK,
\* every DEK in memory is wrapped by the active one.
AllUnderActiveKek ==
  up /\ ~forgotten => \A b \in DOMAIN deks : deks[b].wrapped.kek = kek
=============================================================================
