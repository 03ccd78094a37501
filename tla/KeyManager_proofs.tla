--------------------------- MODULE KeyManager_proofs ---------------------------
(***************************************************************************)
(* Theorems about the key manager: KeyManager for every set of buckets and *)
(* every bound, and, at the end, KeyHandles as MCKeys puts it beside       *)
(* KeyManager, for every set of users.                                     *)
(***************************************************************************)
EXTENDS MCKeys, FiniteSetTheorems, TLAPS

(***************************************************************************)
(* The inductive invariant, its parts stated of the DEKs ds and the file   *)
(* st after n keys and r rotations.                                        *)
(***************************************************************************)
WrappedKeys(n, r) == [key : 1 .. n, kek : 0 .. r]

\* A raw key that is loaded is the one its wrapping holds.
IsDek(d, n, r) ==
  /\ d \in [key : 0 .. n, wrapped : WrappedKeys(n, r)]
  /\ d.key \in {NotLoaded, d.wrapped.key}

DeksOk(ds, n, r) == DOMAIN ds \subseteq Buckets /\ \A b \in DOMAIN ds : IsDek(ds[b], n, r)
StoreOk(st, n, r) == DOMAIN st \subseteq Buckets /\ \A b \in DOMAIN st : st[b] \in WrappedKeys(n, r)

RestOk ==
  /\ up \in BOOLEAN /\ aborted \in BOOLEAN /\ forgotten \in BOOLEAN
  /\ kek \in 0 .. rotations
  /\ keys \in 0 .. MaxKeys
  /\ issued \in [Buckets -> 0 .. keys] /\ shredded \subseteq 1 .. keys
  /\ rotations \in 0 .. MaxRotations /\ failedSaves \in 0 .. MaxFaults
  /\ restarts \in 0 .. MaxRestarts

\* All the DEKs ds can be read with the KEK k.
Open(ds, k) == \A b \in DOMAIN ds : ds[b].key # NotLoaded \/ ds[b].wrapped.kek = k

\* While no rotation stopped midway and no KEK is forgotten the DEKs in memory
\* are open; between two processes the file is open to the KEK of the environment.
Access ==
  /\ up /\ ~aborted /\ ~forgotten => Open(deks, kek)
  /\ ~up => ~aborted /\ kek = 0
  /\ ~up /\ ~forgotten => \A b \in DOMAIN store : store[b].kek = 0

TypeInv == DeksOk(deks, keys, rotations) /\ StoreOk(store, keys, rotations) /\ RestOk
IInv == TypeInv /\ Access

-----------------------------------------------------------------------------
LEMMA InitIInv == Init => IInv
<1>. SUFFICES ASSUME Init PROVE IInv
  OBVIOUS
<1>1. DOMAIN deks = {} /\ DOMAIN store = {}
  BY DEF Init
<1>2. issued \in [Buckets -> 0 .. keys]
  BY DEF Init, NoKey
<1>3. RestOk
  <2>1. up \in BOOLEAN /\ aborted \in BOOLEAN /\ forgotten \in BOOLEAN
    BY Zenon DEF Init
  <2>2. /\ kek \in 0 .. rotations /\ keys \in 0 .. MaxKeys
        /\ rotations \in 0 .. MaxRotations /\ failedSaves \in 0 .. MaxFaults
        /\ restarts \in 0 .. MaxRestarts
    BY BoundsAssumption DEF Init
  <2>3. shredded \subseteq 1 .. keys
    BY DEF Init
  <2>. QED  BY <1>2, <2>1, <2>2, <2>3, Zenon DEF RestOk
<1>4. Access
  BY <1>1 DEF Init, Access, Open
<1>. QED  BY <1>1, <1>3, <1>4 DEF IInv, TypeInv, DeksOk, StoreOk

\* More keys and rotations leave every DEK one.
LEMMA Grows ==
  ASSUME NEW n \in Nat, NEW r \in Nat, NEW m \in Nat, NEW s \in Nat, n <= m, r <= s
  PROVE  /\ \A w \in WrappedKeys(n, r) : w \in WrappedKeys(m, s)
         /\ \A d : IsDek(d, n, r) => IsDek(d, m, s)
<1>1. ASSUME NEW w \in WrappedKeys(n, r) PROVE w \in WrappedKeys(m, s)
  BY DEF WrappedKeys
<1>2. ASSUME NEW d, IsDek(d, n, r) PROVE IsDek(d, m, s)
  <2>1. d \in [key : 0 .. m, wrapped : WrappedKeys(m, s)]
    BY <1>1, <1>2 DEF IsDek
  <2>. QED  BY <2>1, <1>2 DEF IsDek
<1>. QED  BY <1>1, <1>2

\* A saved file holds what is in memory.
LEMMA Saved ==
  ASSUME NEW ds, NEW n, NEW r, DeksOk(ds, n, r)
  PROVE  StoreOk([b \in DOMAIN ds |-> ds[b].wrapped], n, r)
BY DEF DeksOk, StoreOk, IsDek

LEMMA NewDekOk ==
  ASSUME TypeInv, NEW b \in Buckets
  PROVE  /\ DeksOk(WithNewDek(b), keys + 1, rotations)
         /\ Open(deks, kek) => Open(WithNewDek(b), kek)
<1>. DEFINE new == WithNewDek(b)
<1>1. keys \in Nat /\ rotations \in Nat /\ kek \in 0 .. rotations
  BY BoundsAssumption DEF TypeInv, RestOk
<1>2. IsDek(NewDek, keys + 1, rotations) /\ NewDek.key # NotLoaded
  BY <1>1 DEF IsDek, NewDek, Wrap, WrappedKeys, NotLoaded
<1>3. DOMAIN new = DOMAIN deks \cup {b}
      /\ \A c \in DOMAIN new : new[c] = IF c = b THEN NewDek ELSE deks[c]
  BY DEF WithNewDek
<1>4. \A c \in DOMAIN deks : IsDek(deks[c], keys + 1, rotations)
  BY <1>1, Grows DEF TypeInv, DeksOk
<1>5. DeksOk(new, keys + 1, rotations)
  BY <1>2, <1>3, <1>4 DEF DeksOk, TypeInv
<1>6. ASSUME Open(deks, kek) PROVE Open(new, kek)
  BY <1>2, <1>3, <1>6 DEF Open
<1>. QED  BY <1>5, <1>6

LEMMA FewerOk ==
  ASSUME TypeInv, NEW S, S \subseteq DOMAIN deks
  PROVE  /\ DeksOk(Restrict(deks, S), keys, rotations)
         /\ Open(deks, kek) => Open(Restrict(deks, S), kek)
BY DEF Restrict, TypeInv, DeksOk, Open

\* Whatever part of the DEKs is wrapped again, by the KEK that comes next.
LEMMA RewrapOk ==
  ASSUME TypeInv, NEW S \in RewrappedSets, Rewrap(S)
  PROVE  /\ DeksOk(deks', keys, rotations + 1)
         /\ S = DOMAIN deks => Open(deks', NewKek)
<1>1. keys \in Nat /\ rotations \in Nat
  BY BoundsAssumption DEF TypeInv, RestOk
<1>2. S \subseteq DOMAIN deks
  BY DEF RewrappedSets
<1>3. ASSUME NEW b \in S
      PROVE  IsDek(Rewrapped(b), keys, rotations + 1) /\ Rewrapped(b).wrapped.kek = NewKek
  <2>. DEFINE key == IF Loaded(b) THEN deks[b].key ELSE deks[b].wrapped.key
  <2>1. IsDek(deks[b], keys, rotations)
    BY <1>2 DEF TypeInv, DeksOk
  <2>2. key \in 1 .. keys
    BY <1>1, <2>1 DEF IsDek, WrappedKeys, Loaded, NotLoaded
  <2>. HIDE DEF key
  <2>3. IsDek([key |-> key, wrapped |-> [key |-> key, kek |-> rotations + 1]], keys, rotations + 1)
    BY <1>1, <2>2 DEF IsDek, WrappedKeys
  <2>4. Rewrapped(b) = [key |-> key, wrapped |-> [key |-> key, kek |-> rotations + 1]]
    BY DEF key, Rewrapped, Wrap, NewKek
  <2>. QED  BY <2>3, <2>4 DEF NewKek
<1>4. \A b \in DOMAIN deks : IsDek(deks[b], keys, rotations + 1)
  BY <1>1, Grows DEF TypeInv, DeksOk
<1>5. DOMAIN deks' = DOMAIN deks
      /\ \A b \in DOMAIN deks : deks'[b] = IF b \in S THEN Rewrapped(b) ELSE deks[b]
  BY DEF Rewrap
<1>6. DeksOk(deks', keys, rotations + 1)
  BY <1>3, <1>4, <1>5 DEF DeksOk, TypeInv
<1>7. ASSUME S = DOMAIN deks PROVE Open(deks', NewKek)
  BY <1>3, <1>5, <1>7 DEF Open
<1>. QED  BY <1>6, <1>7

-----------------------------------------------------------------------------
(***************************************************************************)
(* Each operation preserves the invariant.                                 *)
(***************************************************************************)
LEMMA GenerateKeeps ==
  ASSUME IInv, NEW b \in Buckets, GenerateDEK(b) \/ GenerateUnsaved(b)
  PROVE  IInv'
<1>0. keys \in Nat /\ rotations \in Nat /\ failedSaves \in Nat /\ TypeInv
  BY BoundsAssumption DEF IInv, TypeInv, RestOk
<1>1. /\ deks' = WithNewDek(b) /\ keys < MaxKeys /\ keys' = keys + 1
      /\ up /\ up' = up /\ kek' = kek /\ aborted' = aborted /\ forgotten' = forgotten
      /\ rotations' = rotations /\ restarts' = restarts /\ shredded' = shredded
      /\ store' = store \/ store' = [c \in DOMAIN deks' |-> deks'[c].wrapped]
      /\ issued' = issued \/ issued' = [issued EXCEPT ![b] = keys + 1]
      /\ failedSaves' = failedSaves \/ (failedSaves < MaxFaults /\ failedSaves' = failedSaves + 1)
  <2>1. CASE GenerateDEK(b)
    BY <2>1 DEF GenerateDEK, Save, counts
  <2>2. CASE GenerateUnsaved(b)
    BY <2>2 DEF GenerateUnsaved, SaveFails, history
  <2>. QED  BY <2>1, <2>2
<1>2. DeksOk(deks', keys', rotations')
  BY <1>0, <1>1, NewDekOk
<1>3. StoreOk(store', keys', rotations')
  <2>1. CASE store' = store
    BY <1>0, <1>1, <2>1, Grows DEF TypeInv, StoreOk
  <2>2. CASE store' = [c \in DOMAIN deks' |-> deks'[c].wrapped]
    BY <1>2, <2>2, Saved
  <2>. QED  BY <1>1, <2>1, <2>2
<1>4. RestOk'
  <2>1. issued' \in [Buckets -> 0 .. keys']
    BY <1>0, <1>1 DEF TypeInv, RestOk
  <2>2. /\ kek' \in 0 .. rotations' /\ keys' \in 0 .. MaxKeys
        /\ rotations' \in 0 .. MaxRotations /\ failedSaves' \in 0 .. MaxFaults
        /\ restarts' \in 0 .. MaxRestarts
        /\ shredded' \subseteq 1 .. keys'
    BY <1>0, <1>1, BoundsAssumption DEF TypeInv, RestOk
  <2>3. up' \in BOOLEAN /\ aborted' \in BOOLEAN /\ forgotten' \in BOOLEAN
    BY <1>0, <1>1, Zenon DEF TypeInv, RestOk
  <2>. QED  BY <2>1, <2>2, <2>3, Zenon DEF RestOk
<1>5. Access'
  <2>1. up' /\ ~aborted' /\ ~forgotten' => Open(deks', kek')
    BY <1>0, <1>1, NewDekOk DEF IInv, Access
  <2>. QED  BY <1>1, <2>1 DEF Access
<1>. QED  BY <1>2, <1>3, <1>4, <1>5 DEF IInv, TypeInv

LEMMA GetKeeps ==
  ASSUME IInv, NEW b \in Buckets, GetDEK(b)
  PROVE  IInv'
<1>0. keys \in Nat /\ rotations \in Nat /\ TypeInv
  BY BoundsAssumption DEF IInv, TypeInv, RestOk
<1>1. /\ b \in DOMAIN deks /\ up /\ deks[b].wrapped.kek = kek
      /\ deks' = [deks EXCEPT ![b].key = deks[b].wrapped.key]
      /\ UNCHANGED <<up, kek, store, keys, issued, shredded, aborted, forgotten,
                     rotations, failedSaves, restarts>>
  BY DEF GetDEK, Unwraps, counts, history
<1>2. /\ DOMAIN deks' = DOMAIN deks
      /\ \A c \in DOMAIN deks : c # b => deks'[c] = deks[c]
      /\ deks'[b] = [deks[b] EXCEPT !.key = deks[b].wrapped.key]
  BY <1>1
<1>3. IsDek(deks[b], keys, rotations)
  BY <1>0, <1>1 DEF TypeInv, DeksOk
<1>4. /\ IsDek(deks'[b], keys, rotations)
      /\ deks'[b].key # NotLoaded
  BY <1>0, <1>2, <1>3 DEF IsDek, WrappedKeys, NotLoaded
<1>5. DeksOk(deks', keys, rotations)
  BY <1>0, <1>2, <1>4 DEF TypeInv, DeksOk
<1>6. Open(deks, kek) => Open(deks', kek)
  BY <1>2, <1>4 DEF Open
<1>. QED  BY <1>0, <1>1, <1>5, <1>6 DEF IInv, TypeInv, StoreOk, RestOk, Access

LEMMA ShredKeeps ==
  ASSUME IInv, NEW b \in Buckets, ShredDEK(b) \/ ShredUnsaved(b) \/ ShredGone(b)
  PROVE  IInv'
<1>0. keys \in Nat /\ rotations \in Nat /\ failedSaves \in Nat /\ TypeInv
  BY BoundsAssumption DEF IInv, TypeInv, RestOk
<1>1. /\ deks' = deks \/ deks' = Restrict(deks, DOMAIN deks \ {b})
      /\ store' = store \/ store' = [c \in DOMAIN deks' |-> deks'[c].wrapped]
      /\ shredded' = shredded \/ shredded' = shredded \cup KeysOf(b)
      /\ failedSaves' = failedSaves \/ (failedSaves < MaxFaults /\ failedSaves' = failedSaves + 1)
      /\ UNCHANGED <<up, kek, keys, issued, aborted, forgotten, rotations, restarts>>
      /\ up
  <2>1. CASE ShredDEK(b)
    BY <2>1 DEF ShredDEK, Save, counts
  <2>2. CASE ShredUnsaved(b)
    BY <2>2 DEF ShredUnsaved, SaveFails, history
  <2>3. CASE ShredGone(b)
    BY <2>3 DEF ShredGone, counts
  <2>. QED  BY <2>1, <2>2, <2>3
<1>2. DeksOk(deks', keys, rotations) /\ (Open(deks, kek) => Open(deks', kek))
  BY <1>0, <1>1, FewerOk DEF TypeInv
<1>3. StoreOk(store', keys, rotations)
  BY <1>0, <1>1, <1>2, Saved DEF TypeInv
<1>4. KeysOf(b) \subseteq 1 .. keys
  <2>1. issued[b] \in 0 .. keys
    BY <1>0 DEF TypeInv, RestOk
  <2>2. \A c \in DOMAIN deks : deks[c].wrapped.key \in 1 .. keys
    BY <1>0 DEF TypeInv, DeksOk, IsDek, WrappedKeys
  <2>. QED  BY <1>0, <2>1, <2>2 DEF KeysOf, NoKey
<1>5. RestOk'
  <2>1. shredded' \subseteq 1 .. keys
    <3>1. shredded \subseteq 1 .. keys
      BY <1>0 DEF TypeInv, RestOk
    <3>. QED  BY <1>1, <1>4, <3>1, Zenon
  <2>2. failedSaves' \in 0 .. MaxFaults
    BY <1>0, <1>1, BoundsAssumption DEF TypeInv, RestOk
  <2>. QED  BY <1>0, <1>1, <2>1, <2>2 DEF TypeInv, RestOk
<1>6. Access'
  BY <1>1, <1>2 DEF IInv, Access
<1>. QED  BY <1>1, <1>2, <1>3, <1>5, <1>6 DEF IInv, TypeInv

LEMMA RotateKeeps ==
  ASSUME IInv, RotateKEK \/ RotateUnsaved \/ RotateAborts
  PROVE  IInv'
<1>0. keys \in Nat /\ rotations \in Nat /\ failedSaves \in Nat /\ TypeInv
  BY BoundsAssumption DEF IInv, TypeInv, RestOk
<1>1. PICK S \in RewrappedSets :
        /\ Rewrap(S)
        /\ \/ kek' = NewKek /\ S = DOMAIN deks /\ aborted' = aborted
           \/ kek' = NewKek /\ aborted'
           \/ kek' = kek /\ S = {} /\ aborted' = aborted
  <2>1. ASSUME RotateKEK \/ RotateUnsaved
        PROVE  /\ DOMAIN deks \in RewrappedSets /\ Rewrap(DOMAIN deks)
               /\ kek' = NewKek /\ aborted' = aborted
    BY <2>1 DEF RotateKEK, RotateUnsaved
  <2>2. ASSUME RotateAborts
        PROVE  \E S \in RewrappedSets :
                 /\ Rewrap(S)
                 /\ kek' = IF S = {} THEN kek ELSE NewKek
                 /\ aborted' = (aborted \/ S # {})
    BY <2>2, Zenon DEF RotateAborts
  <2>3. ASSUME NEW S \in RewrappedSets,
               Rewrap(S),
               kek' = IF S = {} THEN kek ELSE NewKek,
               aborted' = (aborted \/ S # {}),
               aborted \in BOOLEAN
        PROVE  \/ kek' = NewKek /\ aborted'
               \/ kek' = kek /\ S = {} /\ aborted' = aborted
    BY <2>3, Zenon
  <2>4. aborted \in BOOLEAN
    BY <1>0, Zenon DEF TypeInv, RestOk
  <2>. QED  BY <2>1, <2>2, <2>3, <2>4, Zenon
<1>2. /\ up /\ rotations < MaxRotations /\ rotations' = rotations + 1
      /\ store' = store \/ store' = [c \in DOMAIN deks' |-> deks'[c].wrapped]
      /\ failedSaves' = failedSaves \/ (failedSaves < MaxFaults /\ failedSaves' = failedSaves + 1)
      /\ UNCHANGED <<up, keys, issued, shredded, forgotten, restarts>>
  <2>1. CASE RotateKEK
    BY <2>1 DEF RotateKEK, RotateGuard, Save, history
  <2>2. CASE RotateUnsaved
    BY <2>2 DEF RotateUnsaved, RotateGuard, SaveFails, history
  <2>3. CASE RotateAborts
    BY <2>3 DEF RotateAborts, RotateGuard, history
  <2>. QED  BY <2>1, <2>2, <2>3
<1>3. DeksOk(deks', keys', rotations')
  BY <1>0, <1>1, <1>2, RewrapOk
<1>4. StoreOk(store', keys', rotations')
  <2>1. CASE store' = store
    BY <1>0, <1>2, <2>1, Grows DEF TypeInv, StoreOk
  <2>2. CASE store' = [c \in DOMAIN deks' |-> deks'[c].wrapped]
    BY <1>3, <2>2, Saved
  <2>. QED  BY <1>2, <2>1, <2>2
<1>5. RestOk'
  <2>1. aborted' \in BOOLEAN
    BY <1>0, Zenon DEF TypeInv, RestOk, RotateKEK, RotateUnsaved, RotateAborts
  <2>2. /\ kek' \in 0 .. rotations' /\ rotations' \in 0 .. MaxRotations
        /\ failedSaves' \in 0 .. MaxFaults
    BY <1>0, <1>1, <1>2, BoundsAssumption DEF TypeInv, RestOk, NewKek
  <2>. QED  BY <1>0, <1>2, <2>1, <2>2 DEF TypeInv, RestOk
<1>6. Access'
  <2>1. ASSUME ~aborted', ~forgotten' PROVE Open(deks', kek')
    <3>1. CASE kek' = NewKek /\ S = DOMAIN deks
      BY <1>0, <1>1, <3>1, RewrapOk
    <3>2. CASE kek' = kek /\ S = {} /\ aborted' = aborted
      <4>1. Open(deks, kek)
        BY <1>2, <2>1, <3>2 DEF IInv, Access
      <4>. QED  BY <1>1, <3>2, <4>1 DEF Rewrap, Open
    <3>. QED  BY <1>1, <2>1, <3>1, <3>2
  <2>. QED  BY <1>2, <2>1 DEF Access
<1>. QED  BY <1>3, <1>4, <1>5, <1>6 DEF IInv, TypeInv

LEMMA StopKeeps ==
  ASSUME IInv, Stop
  PROVE  IInv'
<1>0. rotations \in Nat /\ restarts \in Nat /\ TypeInv
  BY BoundsAssumption DEF IInv, TypeInv, RestOk
<1>1. DOMAIN deks' = {}
  BY DEF Stop, Restrict
<1>2. /\ ~up' /\ kek' = 0 /\ ~aborted'
      /\ restarts < MaxRestarts /\ restarts' = restarts + 1
      /\ UNCHANGED <<store, keys, issued, shredded, rotations, failedSaves>>
  BY DEF Stop, history
<1>3. RestOk'
  <2>1. up' \in BOOLEAN /\ aborted' \in BOOLEAN /\ forgotten' \in BOOLEAN
    BY <1>0, Zenon DEF Stop, TypeInv, RestOk
  <2>2. kek' \in 0 .. rotations' /\ restarts' \in 0 .. MaxRestarts
    BY <1>0, <1>2, BoundsAssumption
  <2>. QED  BY <1>0, <1>2, <2>1, <2>2 DEF TypeInv, RestOk
<1>4. ~forgotten' => \A b \in DOMAIN store : store[b].kek = 0
  BY Zenon DEF Stop
<1>5. Access'
  BY <1>2, <1>4 DEF Access
<1>. QED  BY <1>0, <1>1, <1>2, <1>3, <1>5 DEF IInv, TypeInv, DeksOk, StoreOk

LEMMA StartKeeps ==
  ASSUME IInv, Start
  PROVE  IInv'
<1>0. keys \in Nat /\ rotations \in Nat /\ TypeInv
  BY BoundsAssumption DEF IInv, TypeInv, RestOk
<1>1. /\ ~up /\ up' = TRUE
      /\ deks' = [b \in DOMAIN store |-> [key |-> NotLoaded, wrapped |-> store[b]]]
      /\ UNCHANGED <<kek, store, keys, issued, shredded, aborted, forgotten,
                     rotations, failedSaves, restarts>>
  BY DEF Start, counts, history
<1>2. DeksOk(deks', keys, rotations)
  <2>1. ASSUME NEW w \in WrappedKeys(keys, rotations)
        PROVE  IsDek([key |-> NotLoaded, wrapped |-> w], keys, rotations)
    BY <1>0 DEF IsDek, NotLoaded
  <2>. QED  BY <1>0, <1>1, <2>1 DEF DeksOk, StoreOk, TypeInv
<1>3. RestOk'
  BY <1>0, <1>1 DEF TypeInv, RestOk
<1>4. kek' = 0 /\ (~forgotten' => \A b \in DOMAIN store : store[b].kek = 0)
  BY <1>1 DEF IInv, Access
<1>5. ~forgotten' => Open(deks', kek')
  BY <1>1, <1>4 DEF Open
<1>6. Access'
  BY <1>1, <1>5 DEF Access
<1>. QED  BY <1>0, <1>1, <1>2, <1>3, <1>6 DEF IInv, TypeInv, StoreOk

LEMMA NextIInv == IInv /\ [Next]_vars => IInv'
<1>. SUFFICES ASSUME IInv, [Next]_vars PROVE IInv'
  OBVIOUS
<1>1. CASE UNCHANGED vars
  BY <1>1 DEF vars, history, counts, IInv, TypeInv, DeksOk, StoreOk, RestOk, Access, Open
<1>2. CASE Next
  BY <1>2, GenerateKeeps, GetKeeps, ShredKeeps, RotateKeeps, StopKeeps, StartKeeps DEF Next
<1>. QED  BY <1>1, <1>2

LEMMA InductiveInvariant == Spec => []IInv
<1>. QED  BY InitIInv, NextIInv, PTL DEF Spec

-----------------------------------------------------------------------------
(***************************************************************************)
(* Which keys are where, as long as every save succeeded: the file and     *)
(* memory hold the keys that were issued last and not shredded.            *)
(***************************************************************************)
InStep ==
  failedSaves = 0 =>
    /\ DOMAIN store = {b \in Buckets : issued[b] \notin shredded \cup {NoKey}}
    /\ \A b \in DOMAIN store : store[b].key = issued[b]
    /\ up => DOMAIN deks = DOMAIN store
    /\ \A b \in DOMAIN deks : deks[b].wrapped.key = issued[b]

\* A key is issued to one bucket.
OwnKeys == \A b, c \in Buckets : issued[b] = issued[c] => b = c \/ issued[b] = NoKey

NoneWhenDown == ~up => DOMAIN deks = {}

KeysInv == InStep /\ OwnKeys /\ NoneWhenDown

LEMMA InitKeysInv == Init => KeysInv
<1>. SUFFICES ASSUME Init PROVE KeysInv
  OBVIOUS
<1>1. DOMAIN deks = {} /\ DOMAIN store = {} /\ \A b \in Buckets : issued[b] = NoKey
  BY DEF Init
<1>. QED  BY <1>1 DEF KeysInv, InStep, OwnKeys, NoneWhenDown

\* What the keys are when the history is kept and so are the keys of the file and
\* of memory.
LEMMA SameKeys ==
  ASSUME KeysInv, UNCHANGED <<issued, shredded>>,
         failedSaves' = 0 => failedSaves = 0,
         DOMAIN store' = DOMAIN store, \A b \in DOMAIN store : store'[b].key = store[b].key,
         DOMAIN deks' = DOMAIN deks,
         \A b \in DOMAIN deks : deks'[b].wrapped.key = deks[b].wrapped.key,
         up' = up
  PROVE  KeysInv'
BY DEF KeysInv, InStep, OwnKeys, NoneWhenDown

LEMMA GenerateKeepsKeys ==
  ASSUME IInv, KeysInv, NEW b \in Buckets, GenerateDEK(b) \/ GenerateUnsaved(b)
  PROVE  KeysInv'
<1>1. /\ keys \in Nat /\ failedSaves \in Nat /\ shredded \subseteq 1 .. keys
      /\ issued \in [Buckets -> 0 .. keys] /\ DOMAIN deks \subseteq Buckets
  BY BoundsAssumption DEF IInv, TypeInv, RestOk, DeksOk
<1>2. CASE GenerateUnsaved(b)
  <2>1. failedSaves' # 0 /\ UNCHANGED <<issued, up>> /\ up
    BY <1>1, <1>2 DEF GenerateUnsaved, SaveFails, history
  <2>. QED  BY <2>1 DEF KeysInv, InStep, OwnKeys, NoneWhenDown
<1>3. CASE GenerateDEK(b)
  <2>1. /\ up /\ up' = up /\ shredded' = shredded /\ failedSaves' = failedSaves
        /\ issued' = [issued EXCEPT ![b] = keys + 1]
        /\ DOMAIN deks' = DOMAIN deks \cup {b}
        /\ \A c \in DOMAIN deks \cup {b} :
             deks'[c].wrapped.key = IF c = b THEN keys + 1 ELSE deks[c].wrapped.key
        /\ DOMAIN store' = DOMAIN deks'
        /\ \A c \in DOMAIN deks' : store'[c].key = deks'[c].wrapped.key
    BY <1>3 DEF GenerateDEK, WithNewDek, NewDek, Wrap, Save, counts
  <2>2. \A c \in Buckets : issued'[c] = IF c = b THEN keys + 1 ELSE issued[c]
    BY <1>1, <2>1
  <2>3. keys + 1 \notin shredded \cup {NoKey} /\ \A c \in Buckets : issued[c] # keys + 1
    <3>1. \A c \in Buckets : issued[c] \in 0 .. keys
      BY <1>1
    <3>. QED  BY <1>1, <3>1 DEF NoKey
  <2>4. InStep'
    <3>1. SUFFICES ASSUME failedSaves = 0
                   PROVE  /\ DOMAIN store' = {c \in Buckets : issued'[c] \notin shredded \cup {NoKey}}
                          /\ \A c \in DOMAIN store' : store'[c].key = issued'[c]
                          /\ \A c \in DOMAIN deks' : deks'[c].wrapped.key = issued'[c]
      BY <2>1 DEF InStep
    <3>2. /\ DOMAIN deks = {c \in Buckets : issued[c] \notin shredded \cup {NoKey}}
          /\ \A c \in DOMAIN deks : deks[c].wrapped.key = issued[c]
      BY <2>1, <3>1 DEF KeysInv, InStep
    <3>3. \A c \in DOMAIN deks' : deks'[c].wrapped.key = issued'[c]
      BY <2>1, <2>2, <3>2
    <3>4. DOMAIN deks' = {c \in Buckets : issued'[c] \notin shredded \cup {NoKey}}
      BY <2>1, <2>2, <2>3, <3>2
    <3>. QED  BY <2>1, <3>3, <3>4
  <2>5. OwnKeys'
    BY <2>2, <2>3 DEF KeysInv, OwnKeys
  <2>. QED  BY <2>1, <2>4, <2>5 DEF KeysInv, NoneWhenDown
<1>. QED  BY <1>2, <1>3

LEMMA ShredKeepsKeys ==
  ASSUME IInv, KeysInv, NEW b \in Buckets, ShredDEK(b) \/ ShredUnsaved(b) \/ ShredGone(b)
  PROVE  KeysInv'
<1>1. /\ failedSaves \in Nat /\ up /\ up' = up /\ issued' = issued
      /\ DOMAIN deks \subseteq Buckets
  BY BoundsAssumption DEF IInv, TypeInv, RestOk, DeksOk, ShredDEK, ShredUnsaved, ShredGone, history
<1>2. OwnKeys' /\ NoneWhenDown'
  BY <1>1 DEF KeysInv, OwnKeys, NoneWhenDown
<1>3. CASE ShredUnsaved(b)
  <2>1. failedSaves' # 0
    BY <1>1, <1>3 DEF ShredUnsaved, SaveFails
  <2>. QED  BY <1>2, <2>1 DEF KeysInv, InStep
<1>4. ASSUME failedSaves = 0
      PROVE  /\ DOMAIN deks = {c \in Buckets : issued[c] \notin shredded \cup {NoKey}}
             /\ DOMAIN store = DOMAIN deks
             /\ \A c \in DOMAIN deks : store[c].key = issued[c] /\ deks[c].wrapped.key = issued[c]
  BY <1>1, <1>4 DEF KeysInv, InStep
\* The keys to destroy are b's alone.
<1>5. ASSUME failedSaves = 0
      PROVE  KeysOf(b) = {issued[b]} \ {NoKey}
  BY <1>4, <1>5 DEF KeysOf
<1>6. ASSUME failedSaves = 0, NEW c \in Buckets
      PROVE  issued[c] \notin (shredded \cup KeysOf(b)) \cup {NoKey}
               <=> c # b /\ issued[c] \notin shredded \cup {NoKey}
  BY <1>5, <1>6 DEF KeysInv, OwnKeys
<1>7. CASE ShredDEK(b)
  <2>1. /\ DOMAIN deks' = DOMAIN deks \ {b} /\ \A c \in DOMAIN deks' : deks'[c] = deks[c]
        /\ DOMAIN store' = DOMAIN deks'
        /\ \A c \in DOMAIN deks' : store'[c] = deks'[c].wrapped
        /\ shredded' = shredded \cup KeysOf(b) /\ failedSaves' = failedSaves
    BY <1>7 DEF ShredDEK, Restrict, Save, counts
  <2>2. ASSUME failedSaves = 0
        PROVE  /\ DOMAIN store' = {c \in Buckets : issued[c] \notin shredded' \cup {NoKey}}
               /\ \A c \in DOMAIN deks' : deks'[c].wrapped.key = issued[c] /\ store'[c].key = issued[c]
    BY <1>4, <1>6, <2>1, <2>2
  <2>. QED  BY <1>1, <1>2, <2>1, <2>2 DEF KeysInv, InStep
<1>8. CASE ShredGone(b)
  <2>1. /\ b \notin DOMAIN deks /\ UNCHANGED <<deks, store>>
        /\ shredded' = shredded \cup KeysOf(b) /\ failedSaves' = failedSaves
    BY <1>8 DEF ShredGone, counts
  <2>2. ASSUME failedSaves = 0
        PROVE  DOMAIN store = {c \in Buckets : issued[c] \notin shredded' \cup {NoKey}}
    BY <1>4, <1>6, <2>1, <2>2
  <2>. QED  BY <1>1, <1>2, <1>4, <2>1, <2>2 DEF KeysInv, InStep
<1>. QED  BY <1>3, <1>7, <1>8

\* Rotations, whole or not, wrap the same keys again.
LEMMA RotateKeepsKeys ==
  ASSUME IInv, KeysInv, RotateKEK \/ RotateUnsaved \/ RotateAborts
  PROVE  KeysInv'
<1>1. failedSaves \in Nat /\ DeksOk(deks, keys, rotations)
  BY BoundsAssumption DEF IInv, TypeInv, RestOk
<1>2. PICK S \in SUBSET DOMAIN deks : Rewrap(S)
  BY DEF RotateKEK, RotateUnsaved, RotateAborts, RewrappedSets
<1>3. /\ DOMAIN deks' = DOMAIN deks
      /\ \A b \in DOMAIN deks : deks'[b].wrapped.key = deks[b].wrapped.key
  <2>1. \A b \in DOMAIN deks : Rewrapped(b).wrapped.key = deks[b].wrapped.key
    BY <1>1 DEF DeksOk, IsDek, Rewrapped, Wrap, Loaded
  <2>. QED  BY <1>2, <2>1 DEF Rewrap
<1>4. UNCHANGED <<up, issued, shredded>> /\ up
  BY DEF RotateKEK, RotateUnsaved, RotateAborts, RotateGuard, history
<1>5. CASE RotateUnsaved
  <2>1. failedSaves' # 0
    BY <1>1, <1>5 DEF RotateUnsaved, SaveFails
  <2>. QED  BY <1>4, <2>1 DEF KeysInv, InStep, OwnKeys, NoneWhenDown
<1>6. CASE RotateAborts
  <2>1. UNCHANGED <<store, failedSaves>>
    BY <1>6 DEF RotateAborts
  <2>. QED  BY <1>3, <1>4, <2>1, SameKeys
<1>7. CASE RotateKEK
  <2>1. /\ failedSaves' = failedSaves
        /\ DOMAIN store' = DOMAIN deks' /\ \A b \in DOMAIN deks' : store'[b] = deks'[b].wrapped
    BY <1>7 DEF RotateKEK, Save
  <2>. QED  BY <1>3, <1>4, <2>1 DEF KeysInv, InStep, OwnKeys, NoneWhenDown
<1>. QED  BY <1>5, <1>6, <1>7

LEMMA RestartKeepsKeys ==
  ASSUME KeysInv, Stop \/ Start
  PROVE  KeysInv'
<1>1. CASE Stop
  <2>1. DOMAIN deks' = {} /\ ~up' /\ UNCHANGED <<store, issued, shredded, failedSaves>>
    BY <1>1 DEF Stop, Restrict, history
  <2>. QED  BY <2>1 DEF KeysInv, InStep, OwnKeys, NoneWhenDown
<1>2. CASE Start
  <2>1. /\ up' /\ UNCHANGED <<store, issued, shredded, failedSaves>>
        /\ DOMAIN deks' = DOMAIN store /\ \A b \in DOMAIN store : deks'[b].wrapped = store[b]
    BY <1>2 DEF Start, history, counts
  <2>. QED  BY <2>1 DEF KeysInv, InStep, OwnKeys, NoneWhenDown
<1>. QED  BY <1>1, <1>2

LEMMA GetKeepsKeys ==
  ASSUME KeysInv, NEW b \in Buckets, GetDEK(b)
  PROVE  KeysInv'
<1>1. /\ DOMAIN deks' = DOMAIN deks
      /\ \A c \in DOMAIN deks : deks'[c].wrapped.key = deks[c].wrapped.key
      /\ UNCHANGED <<up, store, issued, shredded, failedSaves>>
  BY DEF GetDEK, counts, history
<1>. QED  BY <1>1, SameKeys

LEMMA NextKeysInv == IInv /\ KeysInv /\ [Next]_vars => KeysInv'
<1>. SUFFICES ASSUME IInv, KeysInv, [Next]_vars PROVE KeysInv'
  OBVIOUS
<1>1. CASE UNCHANGED vars
  BY <1>1 DEF vars, history, counts, KeysInv, InStep, OwnKeys, NoneWhenDown
<1>2. CASE Next
  BY <1>2, GenerateKeepsKeys, GetKeepsKeys, ShredKeepsKeys, RotateKeepsKeys, RestartKeepsKeys DEF Next
<1>. QED  BY <1>1, <1>2

LEMMA KeysInvariant == Spec => []KeysInv
BY InductiveInvariant, InitKeysInv, NextKeysInv, PTL DEF Spec

\* GetDEK returns the key that is wrapped, or none.
LEMMA GetsWrapped ==
  ASSUME IInv, NEW b
  PROVE  /\ b \in DOMAIN deks => Gets(b) \in {deks[b].wrapped.key, NoKey}
         /\ b \notin DOMAIN deks => Gets(b) = NoKey
BY DEF Gets, Loaded, IInv, TypeInv, DeksOk, IsDek

-----------------------------------------------------------------------------
(***************************************************************************)
(* The theorems.                                                           *)
(***************************************************************************)
\* Every variable keeps its type, and a raw key in memory is always the one the
\* file would give back.
THEOREM TypeCorrect == Spec => []TypeOK
<1>1. IInv => TypeOK
  <2>. SUFFICES ASSUME IInv PROVE TypeOK
    OBVIOUS
  <2>1. \A b \in DOMAIN deks :
          IsWrapped(deks[b].wrapped) /\ deks[b].key \in {NotLoaded, deks[b].wrapped.key}
    BY DEF IInv, TypeInv, DeksOk, IsDek, WrappedKeys, IsWrapped
  <2>2. \A b \in DOMAIN store : IsWrapped(store[b])
    BY DEF IInv, TypeInv, StoreOk, WrappedKeys, IsWrapped
  <2>. QED  BY <2>1, <2>2 DEF IInv, TypeInv, DeksOk, StoreOk, RestOk, TypeOK
<1>. QED  BY <1>1, InductiveInvariant, PTL

\* Only a rotation that stopped midway or a KEK that was forgotten can lock a DEK
\* that is in memory: failed saves, shredding, restarts and whole rotations do not.
THEOREM OnlyRotationsLockKeys == Spec => []NoFailedSaveLocksKeys
<1>1. IInv => NoFailedSaveLocksKeys
  <2>. SUFFICES ASSUME IInv, up, ~aborted, ~forgotten, NEW b \in DOMAIN deks
                PROVE  Gets(b) # NoKey
    BY DEF NoFailedSaveLocksKeys
  <2>1. deks[b].key # NotLoaded \/ deks[b].wrapped.kek = kek
    BY DEF IInv, Access, Open
  <2>2. deks[b].wrapped.key # NoKey
    BY DEF IInv, TypeInv, DeksOk, IsDek, WrappedKeys, NoKey
  <2>. QED  BY <2>1, <2>2 DEF Gets, Loaded, Unwraps, NotLoaded, NoKey
<1>. QED  BY <1>1, InductiveInvariant, PTL

\* Until its bucket is shredded GetDEK returns the key that was generated last,
\* through restarts and rotations, unless a save failed, a rotation stopped midway
\* or a KEK was forgotten (GenerateDEK:52-83, GetDEK:86-105, RotateKEK:131-171).
THEOREM KeysAlwaysSurvive == Spec => []KeysSurvive
<1>1. IInv /\ KeysInv /\ NoFailedSaveLocksKeys => KeysSurvive
  <2>. SUFFICES ASSUME IInv, KeysInv, NoFailedSaveLocksKeys,
                       up, failedSaves = 0, ~aborted, ~forgotten,
                       NEW b \in Buckets, issued[b] \notin shredded \cup {NoKey}
                PROVE  Gets(b) = issued[b]
    BY DEF KeysSurvive
  <2>1. b \in DOMAIN deks /\ deks[b].wrapped.key = issued[b]
    BY DEF KeysInv, InStep
  <2>2. Gets(b) # NoKey
    BY <2>1 DEF NoFailedSaveLocksKeys
  <2>. QED  BY <2>1, <2>2, GetsWrapped
<1>. QED  BY <1>1, InductiveInvariant, KeysInvariant, OnlyRotationsLockKeys, PTL

\* If no save failed a shredded key is in no file and no GetDEK returns it, whatever
\* the rotations and restarts since (ShredDEK:108-128).
THEOREM ShreddedStaysShredded == Spec => []ShreddedUnlessSaveFailed
<1>1. IInv /\ KeysInv => ShreddedUnlessSaveFailed
  <2>. SUFFICES ASSUME IInv, KeysInv, failedSaves = 0, NEW b \in Buckets
                PROVE  Gets(b) \notin shredded /\ (b \in DOMAIN store => store[b].key \notin shredded)
    BY DEF ShreddedUnlessSaveFailed
  <2>1. b \in DOMAIN store => store[b].key \notin shredded
    BY DEF KeysInv, InStep
  <2>2. b \in DOMAIN deks => deks[b].wrapped.key \notin shredded
    BY DEF KeysInv, InStep, NoneWhenDown
  <2>3. NoKey \notin shredded
    BY DEF IInv, TypeInv, RestOk, NoKey
  <2>. QED  BY <2>1, <2>2, <2>3, GetsWrapped
<1>. QED  BY <1>1, InductiveInvariant, KeysInvariant, PTL

-----------------------------------------------------------------------------
(***************************************************************************)
(* One DEK in the hands of its users.  A key is seen without its length    *)
(* only by a user that found the address another user had written: the     *)
(* invariant says who wrote what is set.                                   *)
(***************************************************************************)
HandlesTypes ==
  /\ present \in BOOLEAN /\ header \subseteq Handles!Parts
  /\ bytes \in [Handles!Halves -> {"key", "zero"}]
  /\ pc \in [Users -> {"idle", "loading", "have", "refused"}]
  /\ written \in [Users -> SUBSET Handles!Parts]
  /\ shred \in {"idle", "zeroing", "deleted", "returned"}
  /\ closing \in {"idle", "zeroing", "returned"}

\* The users that have done anything.
Active == {u \in Users : pc[u] # "idle"}
\* The users in whose hands the key has been.
Holders == {u \in Users : written[u] # {} \/ pc[u] = "have"}

Writers ==
  /\ IsFiniteSet(Active)
  /\ \A u \in Users : written[u] \subseteq header
  /\ \A u \in Users : pc[u] \in {"idle", "refused"} => written[u] = {}
  /\ \A u \in Users : pc[u] = "loading" => written[u] # Handles!Parts
  /\ \A u \in Users : pc[u] = "have" => written[u] \in {{}, Handles!Parts} /\ header # {}
  /\ header \notin {{}, Handles!Parts} => \E u \in Users : written[u] # {}

Shredding ==
  /\ shred = "idle" /\ closing = "idle" => \A h \in Handles!Halves : bytes[h] = "key"
  /\ shred \in {"deleted", "returned"} => ~present
  /\ \A u \in askedLate : pc[u] = "refused"

Uses ==
  /\ used \cap {"zeroes", "mixture"} # {} => shred # "idle" \/ closing # "idle"
  /\ "empty" \in used => \E u, v \in Holders : u # v

HandlesInv == HandlesTypes /\ Writers /\ Shredding /\ Uses

LEMMA HandlesStart ==
  ASSUME Handles!Init
  PROVE  HandlesInv
<1>. USE DEF Handles!Init
<1>1. HandlesTypes
  <2>1. present \in BOOLEAN
    OBVIOUS
  <2>. QED  BY <2>1 DEF HandlesTypes
<1>2. Active = {}
  BY DEF Active
<1>3. Writers
  BY <1>2, FS_EmptySet DEF Writers
<1>4. Shredding /\ Uses
  BY DEF Shredding, Uses
<1>. QED  BY <1>1, <1>3, <1>4 DEF HandlesInv

\* A step of one user.
LEMMA UserKeeps ==
  ASSUME HandlesInv, NEW u \in Users,
         \/ Handles!Refused(u) \/ Handles!Get(u) \/ Handles!Load(u) \/ Handles!Encrypt(u)
         \/ \E part \in Handles!Parts : Handles!SetKey(u, part)
  PROVE  HandlesInv'
<1>. USE DEF HandlesInv
<1>1. /\ \A v \in Users \ {u} : pc'[v] = pc[v] /\ written'[v] = written[v]
      /\ UNCHANGED <<present, bytes, shred, closing>>
  BY DEF Handles!Refused, Handles!Get, Handles!Load, Handles!Encrypt, Handles!SetKey,
         Handles!Arrives, Handles!user, HandlesTypes
<1>2. IsFiniteSet(Active')
  <2>1. Active' \subseteq Active \cup {u}
    BY <1>1 DEF Active
  <2>2. IsFiniteSet(Active \cup {u})
    BY FS_AddElement DEF Writers
  <2>. QED  BY <2>1, <2>2, FS_Subset
<1>3. ASSUME Handles!Refused(u) PROVE HandlesInv'
  <2>1. /\ pc[u] = "idle" /\ pc' = [pc EXCEPT ![u] = "refused"]
        /\ askedLate' \in {askedLate, askedLate \cup {u}}
        /\ UNCHANGED <<present, header, bytes, written, shred, closing, used>>
    BY <1>3 DEF Handles!Refused, Handles!Arrives
  <2>2. HandlesTypes'
    BY <2>1 DEF HandlesTypes
  <2>3. Writers'
    BY <1>2, <2>1 DEF Writers, HandlesTypes
  <2>4. Shredding'
    BY <2>1 DEF Shredding, HandlesTypes
  <2>5. Uses'
    BY <2>1 DEF Uses, Holders, HandlesTypes
  <2>. QED  BY <2>2, <2>3, <2>4, <2>5
<1>4. ASSUME Handles!Get(u) PROVE HandlesInv'
  <2>1. /\ pc[u] = "idle" /\ present /\ "address" \in header /\ pc' = [pc EXCEPT ![u] = "have"]
        /\ (shred # "returned" => askedLate' = askedLate)
        /\ UNCHANGED <<present, header, bytes, written, shred, closing, used>>
    BY <1>4 DEF Handles!Get, Handles!Arrives
  <2>2. HandlesTypes'
    BY <2>1 DEF HandlesTypes
  <2>3. Writers'
    BY <1>2, <2>1 DEF Writers, HandlesTypes
  <2>4. Shredding'
    BY <2>1 DEF Shredding, HandlesTypes
  <2>5. Uses'
    BY <2>1 DEF Uses, Holders, HandlesTypes
  <2>. QED  BY <2>2, <2>3, <2>4, <2>5
<1>5. ASSUME Handles!Load(u) PROVE HandlesInv'
  <2>1. /\ pc[u] = "idle" /\ present /\ pc' = [pc EXCEPT ![u] = "loading"]
        /\ (shred # "returned" => askedLate' = askedLate)
        /\ UNCHANGED <<present, header, bytes, written, shred, closing, used>>
    BY <1>5 DEF Handles!Load, Handles!Arrives
  <2>2. HandlesTypes'
    BY <2>1 DEF HandlesTypes
  <2>3. Writers'
    BY <1>2, <2>1 DEF Writers, HandlesTypes, Handles!Parts
  <2>4. Shredding'
    BY <2>1 DEF Shredding, HandlesTypes
  <2>5. Uses'
    BY <2>1 DEF Uses, Holders, HandlesTypes
  <2>. QED  BY <2>2, <2>3, <2>4, <2>5
<1>6. ASSUME NEW part \in Handles!Parts, Handles!SetKey(u, part) PROVE HandlesInv'
  <2>1. /\ pc[u] = "loading" /\ part \notin written[u] /\ header' = header \cup {part}
        /\ written' = [written EXCEPT ![u] = @ \cup {part}]
        /\ pc' = [pc EXCEPT ![u] = IF written'[u] = Handles!Parts THEN "have" ELSE @]
        /\ UNCHANGED <<present, bytes, shred, closing, used, askedLate>>
    BY <1>6 DEF Handles!SetKey, Handles!history
  <2>2. /\ written'[u] = written[u] \cup {part}
        /\ pc'[u] = IF written'[u] = Handles!Parts THEN "have" ELSE "loading"
    BY <2>1 DEF HandlesTypes
  <2>3. HandlesTypes'
    BY <2>1, <2>2 DEF HandlesTypes
  <2>4. Writers'
    <3>1. \A v \in Users : written'[v] \subseteq header'
      BY <1>1, <2>1, <2>2 DEF Writers
    <3>2. \A v \in Users : pc'[v] = "have" => written'[v] \in {{}, Handles!Parts} /\ header' # {}
      BY <1>1, <2>1, <2>2 DEF Writers
    <3>3. \A v \in Users : /\ pc'[v] \in {"idle", "refused"} => written'[v] = {}
                           /\ pc'[v] = "loading" => written'[v] # Handles!Parts
      BY <1>1, <2>2 DEF Writers
    <3>4. \E v \in Users : written'[v] # {}
      BY <2>2
    <3>. QED  BY <1>2, <3>1, <3>2, <3>3, <3>4 DEF Writers
  <2>5. Shredding'
    BY <1>1, <2>1 DEF Shredding
  <2>6. Uses'
    BY <1>1, <2>1, <2>2 DEF Uses, Holders
  <2>. QED  BY <2>3, <2>4, <2>5, <2>6
<1>7. ASSUME Handles!Encrypt(u) PROVE HandlesInv'
  <2>1. /\ pc[u] = "have" /\ used' = used \cup {Handles!Contents}
        /\ UNCHANGED <<present, header, bytes, pc, written, shred, closing, askedLate>>
    BY <1>7 DEF Handles!Encrypt, Handles!user
  <2>2. Handles!Contents \in {"zeroes", "mixture"} => shred # "idle" \/ closing # "idle"
    BY DEF Handles!Contents, Shredding, Handles!Halves
  <2>3. Handles!Contents = "empty" => \E v \in Holders : u # v /\ u \in Holders
    <3>. SUFFICES ASSUME Handles!Contents = "empty" PROVE \E v \in Holders : u # v /\ u \in Holders
      OBVIOUS
    <3>1. "length" \notin header
      BY DEF Handles!Contents
    <3>2. written[u] = {} /\ header # {} /\ header # Handles!Parts
      BY <2>1, <3>1 DEF Writers, Handles!Parts
    <3>3. PICK v \in Users : written[v] # {}
      BY <3>2 DEF Writers
    <3>. QED  BY <2>1, <3>2, <3>3 DEF Holders
  <2>4. Uses'
    BY <2>1, <2>2, <2>3 DEF Uses, Holders
  <2>. QED  BY <2>1, <2>4 DEF HandlesTypes, Writers, Active, Shredding
<1>. QED  BY <1>3, <1>4, <1>5, <1>6, <1>7

\* A step of ShredDEK or of Close.
LEMMA ShredderKeeps ==
  ASSUME HandlesInv,
         \/ Handles!ShredDEK \/ Handles!Delete \/ Handles!ShredReturns
         \/ Handles!Close \/ Handles!CloseReturns
         \/ \E h \in Handles!Halves : Handles!ZeroHalf(h)
  PROVE  HandlesInv'
<1>. USE DEF HandlesInv
<1>1. /\ UNCHANGED <<header, pc, written, used, askedLate>>
      /\ shred' # "idle" \/ closing' # "idle"
      /\ present' \in BOOLEAN /\ closing' \in {"idle", "zeroing", "returned"}
      /\ shred' \in {"idle", "zeroing", "deleted", "returned"}
      /\ bytes' \in [Handles!Halves -> {"key", "zero"}]
      /\ shred' \in {"deleted", "returned"} => ~present'
  <2>. USE DEF Handles!user, Handles!history, HandlesTypes, Shredding
  <2>1. CASE Handles!ShredDEK
    BY <2>1 DEF Handles!ShredDEK
  <2>2. CASE Handles!Delete
    BY <2>2 DEF Handles!Delete
  <2>3. CASE Handles!ShredReturns
    BY <2>3 DEF Handles!ShredReturns
  <2>4. CASE \E h \in Handles!Halves : Handles!ZeroHalf(h)
    BY <2>4 DEF Handles!ZeroHalf
  <2>5. CASE Handles!Close \/ Handles!CloseReturns
    BY <2>5 DEF Handles!Close, Handles!CloseReturns
  <2>. QED  BY <2>1, <2>2, <2>3, <2>4, <2>5
<1>2. HandlesTypes'
  BY <1>1 DEF HandlesTypes
<1>3. Writers'
  BY <1>1 DEF Writers, Active
<1>4. Shredding'
  BY <1>1 DEF Shredding
<1>5. Uses'
  BY <1>1 DEF Uses, Holders
<1>. QED  BY <1>2, <1>3, <1>4, <1>5

\* Whatever users, shredding and closing do at once, a user holds the whole key
\* until it is shredded or the manager is closed, or nothing if another was
\* unwrapping it, and none is handed out after shredding (GetDEK:86-105,
\* ShredDEK:108-128, Close:191-204).
THEOREM HandedOutKeysAreSound == AllSpec => []HeldKeysAreSound
<1>1. AllInit => HandlesInv
  BY HandlesStart DEF AllInit
<1>2. HandlesInv /\ [StoreMoves \/ HandlesMove]_allVars => HandlesInv'
  <2>. SUFFICES ASSUME HandlesInv, [StoreMoves \/ HandlesMove]_allVars PROVE HandlesInv'
    OBVIOUS
  <2>1. CASE UNCHANGED handleVars
    BY <2>1 DEF handleVars, HandlesInv, HandlesTypes, Writers, Active, Holders, Shredding, Uses
  <2>2. CASE Handles!Next
    BY <2>1, <2>2, UserKeeps, ShredderKeeps
    DEF Handles!Next, Handles!Rest, Handles!vars, Handles!user, Handles!history, handleVars
  <2>. QED  BY <2>1, <2>2 DEF StoreMoves, HandlesMove, allVars
<1>3. HandlesInv => HeldKeysAreSound
  <2>. SUFFICES ASSUME HandlesInv PROVE HeldKeysAreSound
    OBVIOUS
  <2>1. Handles!WholeUntilDestroyed /\ Handles!NoneAfterShredding
    BY DEF HandlesInv, Uses, Shredding, Handles!WholeUntilDestroyed, Handles!NoneAfterShredding
  <2>2. ASSUME NEW u \in Holders, NEW v \in Holders, u # v
        PROVE  Cardinality(Holders) > 1
    <3>1. Holders \subseteq Active
      BY DEF HandlesInv, HandlesTypes, Writers, Holders, Active
    <3>2. IsFiniteSet(Holders)
      BY <3>1, FS_Subset DEF HandlesInv, Writers
    <3>3. Cardinality({u, v}) = 2
      <4>1. IsFiniteSet({u}) /\ Cardinality({u}) = 1
        BY FS_Singleton
      <4>2. v \notin {u} /\ {u} \cup {v} = {u, v}
        BY <2>2
      <4>3. Cardinality({u} \cup {v}) = Cardinality({u}) + 1
        BY <4>1, <4>2, FS_AddElement
      <4>. QED  BY <4>1, <4>2, <4>3
    <3>4. Cardinality({u, v}) <= Cardinality(Holders) /\ Cardinality(Holders) \in Nat
      <4>1. {u, v} \subseteq Holders
        OBVIOUS
      <4>. HIDE DEF Holders
      <4>. QED  BY <3>2, <4>1, FS_Subset, FS_CardinalityType
    <3>. QED  BY <3>3, <3>4
  <2>3. Handles!Cardinality(Holders) = Cardinality(Holders)
    BY DEF Handles!Cardinality, Cardinality
  <2>4. "empty" \in used => Handles!Cardinality(Holders) > 1
    BY <2>2, <2>3 DEF HandlesInv, Uses
  <2>5. Handles!EmptyOnlyByRace
    BY <2>4 DEF Holders, Handles!EmptyOnlyByRace
  <2>. QED  BY <2>1, <2>5 DEF HeldKeysAreSound
<1>. QED  BY <1>1, <1>2, <1>3, PTL DEF AllSpec
=============================================================================
