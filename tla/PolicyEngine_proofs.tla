------------------------- MODULE PolicyEngine_proofs -------------------------
(***************************************************************************)
(* Theorems about PolicyEngine: for all rule files, all rates and bursts,  *)
(* any number of agents and of goroutines, and every bound.                *)
(***************************************************************************)
EXTENDS PolicyEngine, SequenceTheorems, TLAPS

(***************************************************************************)
(* The inductive invariant.  WithinLimit alone says nothing of the tokens  *)
(* that are left: what a bucket has let through and what it still holds,   *)
(* together, are at most the burst and what was earned until the last      *)
(* fill.                                                                   *)
(***************************************************************************)
Sound(b, t) ==
  /\ b.born <= b.lastFill /\ b.lastFill <= t
  /\ b.tokens <= b.max
  /\ b.tokens + b.admitted * Unit <= b.max + b.rate * (b.lastFill - b.born)

BucketsSound == \A i \in DOMAIN made : Sound(made[i], now)

\* A bucket that can be found is its agent's, under the rules in force.
IsOf(m, r, i, a) == i \in DOMAIN m /\ m[i].agent = a /\ m[i].version = r
MapOk == \A a \in Agents : buckets[a] # NoBucket => IsOf(made, rules, buckets[a], a)

CallOk(c) ==
  /\ Reading(c) => who[c] \in Agents /\ ~Denied(rules, who[c])
  /\ pc[c] \in {"take", "wait"} => IsOf(made, rules, mine[c], who[c])

IInv == TypeOK /\ BucketsSound /\ MapOk /\ (\A c \in Calls : CallOk(c))

-----------------------------------------------------------------------------
(***************************************************************************)
(* Arithmetic: what a rate earns in two spans of time is what it earns in  *)
(* both together.                                                          *)
(***************************************************************************)
LEMMA EarnedTogether ==
  ASSUME NEW r \in Nat, NEW x \in Nat, NEW y \in Nat
  PROVE  r * (x + y) = r * x + r * y /\ r * x \in Nat /\ r * y \in Nat
OBVIOUS

LEMMA EarnsMore ==
  ASSUME NEW r \in Nat, NEW x \in Nat, NEW y \in Nat, x <= y
  PROVE  r * x <= r * y
<1>1. PICK d \in Nat : y = x + d
  <2>1. y - x \in Nat /\ y = x + (y - x)
    OBVIOUS
  <2>. QED  BY <2>1
<1>2. r * (x + d) = r * x + r * d /\ r * x \in Nat /\ r * d \in Nat
  BY EarnedTogether
<1>. QED  BY <1>1, <1>2

-----------------------------------------------------------------------------
(***************************************************************************)
(* Buckets.                                                                *)
(***************************************************************************)
LEMMA LimitIsLimit ==
  ASSUME NEW r \in 1..Len(Files), NEW a \in Agents
  PROVE  Limit(r, a).rate \in Nat /\ Limit(r, a).burst \in Nat
<1>1. IsRuleFile(Files[r])
  BY PolicyAssumption
<1>2. Files[r].default.rate \in Nat /\ Files[r].default.burst \in Nat
  BY <1>1 DEF IsRuleFile, Limits
<1>3. CASE a \in DOMAIN Files[r].overrides
  <2>1. Files[r].overrides[a] \in Limits
    BY <1>1, <1>3 DEF IsRuleFile
  <2>. QED  BY <1>3, <2>1 DEF Limit, Limits
<1>4. CASE a \notin DOMAIN Files[r].overrides
  BY <1>2, <1>4, PolicyAssumption DEF Limit, OrElse
<1>. QED  BY <1>3, <1>4

\* A new bucket is full, and sound.
LEMMA NewIsSound ==
  ASSUME NEW r \in 1..Len(Files), NEW a \in Agents, now \in Nat
  PROVE  /\ newTokenBucket(a, r) \in Bucket /\ Sound(newTokenBucket(a, r), now)
         /\ newTokenBucket(a, r).agent = a /\ newTokenBucket(a, r).version = r
<1>. DEFINE b == newTokenBucket(a, r)
<1>1. Limit(r, a).rate \in Nat /\ Limit(r, a).burst \in Nat
  BY LimitIsLimit
<1>2. b \in Bucket
  BY <1>1 DEF newTokenBucket, Bucket, Never
<1>3. /\ b.born = now /\ b.lastFill = now /\ b.tokens = Limit(r, a).burst
      /\ b.max = Limit(r, a).burst /\ b.admitted = 0 /\ b.rate = Limit(r, a).rate
      /\ b.agent = a /\ b.version = r
  BY DEF newTokenBucket
<1>4. b.admitted * Unit = 0 /\ b.rate * (b.lastFill - b.born) = 0
  BY <1>1, <1>3, PolicyAssumption
<1>. QED  BY <1>1, <1>2, <1>3, <1>4 DEF Sound

\* A refill earns for the time since the last one, up to the burst.
LEMMA RefillIsSound ==
  ASSUME NEW b \in Bucket, now \in Nat, Sound(b, now)
  PROVE  /\ refill(b) \in Bucket /\ Sound(refill(b), now)
         /\ refill(b).agent = b.agent /\ refill(b).version = b.version
<1>. DEFINE f == refill(b)
            since == now - b.lastFill
            earned == b.rate * since
<1>1. /\ b.rate \in Nat /\ b.max \in Nat /\ b.tokens \in Nat /\ b.lastFill \in Nat
      /\ b.born \in Nat /\ b.admitted \in Nat
  BY DEF Bucket
<1>2. since \in Nat /\ b.lastFill - b.born \in Nat
      /\ now - b.born = (b.lastFill - b.born) + since
  BY <1>1 DEF Sound
<1>3. b.rate * (now - b.born) = b.rate * (b.lastFill - b.born) + earned /\ earned \in Nat
  BY <1>1, <1>2, EarnedTogether
<1>4. /\ f.tokens = Least(b.max, b.tokens + earned) /\ f.lastFill = now
      /\ f.agent = b.agent /\ f.version = b.version /\ f.rate = b.rate /\ f.max = b.max
      /\ f.born = b.born /\ f.admitted = b.admitted
  BY DEF refill, Bucket
<1>5. f.tokens \in Nat /\ f.tokens <= b.max /\ f.tokens <= b.tokens + earned
  BY <1>1, <1>3, <1>4 DEF Least
<1>6. f \in Bucket
  BY <1>4, <1>5 DEF refill, Bucket
<1>7. Sound(f, now)
  <2>1. b.admitted * Unit \in Nat /\ b.rate * (b.lastFill - b.born) \in Nat
    <3>1. Unit \in Nat
      BY PolicyAssumption
    <3>. QED  BY <1>1, <1>2, <3>1, EarnedTogether
  <2>2. f.tokens + f.admitted * Unit <= f.max + f.rate * (f.lastFill - f.born)
    <3>. DEFINE out == b.admitted * Unit
                upTo == b.rate * (b.lastFill - b.born)
                in == b.rate * (now - b.born)
    <3>1. in = upTo + earned /\ b.tokens + out <= b.max + upTo
      BY <1>3 DEF Sound
    <3>2. f.admitted * Unit = out /\ f.rate * (f.lastFill - f.born) = in /\ f.max = b.max
      BY <1>4
    <3>. HIDE DEF out, upTo, in, earned, f
    <3>3. out \in Nat /\ upTo \in Nat /\ earned \in Nat
      BY <2>1, <1>3 DEF out, upTo, earned
    <3>. QED  BY <1>1, <1>5, <3>1, <3>2, <3>3
  <2>3. f.born <= f.lastFill /\ f.lastFill <= now /\ f.tokens <= f.max
    BY <1>1, <1>2, <1>4, <1>5
  <2>. QED  BY <2>2, <2>3 DEF Sound
<1>. QED  BY <1>4, <1>6, <1>7

\* A call that is let through takes a token, one that is not takes none.
LEMMA AllowIsSound ==
  ASSUME NEW b \in Bucket, now \in Nat, Sound(b, now)
  PROVE  /\ allow(b) \in Bucket /\ Sound(allow(b), now)
         /\ allow(b).agent = b.agent /\ allow(b).version = b.version
<1>. DEFINE f == refill(b)
            g == allow(b)
<1>1. f \in Bucket /\ Sound(f, now) /\ f.agent = b.agent /\ f.version = b.version
  BY RefillIsSound
<1>2. Unit \in Nat /\ Unit > 0
  BY PolicyAssumption
<1>3. CASE allowed(b)
  <2>1. g = [f EXCEPT !.tokens = @ - Unit, !.admitted = @ + 1, !.told = Never]
    BY <1>3 DEF allow
  <2>2. f.tokens >= Unit
    BY <1>3 DEF allowed
  <2>. HIDE DEF f, g
  <2>3. /\ f.rate \in Nat /\ f.max \in Nat /\ f.tokens \in Nat /\ f.lastFill \in Nat
        /\ f.born \in Nat /\ f.admitted \in Nat
    BY <1>1 DEF Bucket
  <2>4. /\ g.tokens = f.tokens - Unit /\ g.admitted = f.admitted + 1 /\ g.told = Never
        /\ g.agent = f.agent /\ g.version = f.version /\ g.rate = f.rate /\ g.max = f.max
        /\ g.born = f.born /\ g.lastFill = f.lastFill
    BY <1>1, <2>1, Zenon DEF Bucket
  <2>5. g.tokens \in Nat /\ g.admitted \in Nat
    BY <1>2, <2>2, <2>3, <2>4
  <2>6. g \in Bucket
    BY <1>1, <2>1, <2>4, <2>5 DEF Bucket, Never
  <2>7. Sound(g, now)
    <3>1. (f.admitted + 1) * Unit = f.admitted * Unit + Unit /\ f.admitted * Unit \in Nat
      BY <1>2, <2>3
    <3>2. f.lastFill - f.born \in Nat
      BY <1>1, <2>3 DEF Sound
    <3>3. f.rate * (f.lastFill - f.born) \in Nat
      BY <2>3, <3>2, EarnedTogether
    <3>4. g.tokens + g.admitted * Unit = f.tokens + f.admitted * Unit
      BY <1>2, <2>3, <2>4, <3>1
    <3>5. g.tokens + g.admitted * Unit <= g.max + g.rate * (g.lastFill - g.born)
      BY <1>1, <2>4, <3>4, Zenon DEF Sound
    <3>6. g.tokens <= g.max
      BY <1>1, <1>2, <2>3, <2>4 DEF Sound
    <3>7. g.born <= g.lastFill /\ g.lastFill <= now
      BY <1>1, <2>4, Zenon DEF Sound
    <3>. QED  BY <3>5, <3>6, <3>7 DEF Sound
  <2>. QED  BY <1>1, <2>4, <2>6, <2>7, Zenon DEF f, g
<1>4. CASE ~allowed(b)
  <2>1. g = [f EXCEPT !.told = IF @ = Never THEN now ELSE @]
    BY <1>4 DEF allow
  <2>. HIDE DEF f, g
  <2>2. g \in Bucket
    BY <1>1, <2>1 DEF Bucket, Never
  <2>3. /\ g.tokens = f.tokens /\ g.admitted = f.admitted
        /\ g.agent = f.agent /\ g.version = f.version /\ g.rate = f.rate /\ g.max = f.max
        /\ g.born = f.born /\ g.lastFill = f.lastFill
    BY <1>1, <2>1, Zenon DEF Bucket
  <2>4. Sound(g, now)
    BY <1>1, <2>3, Zenon DEF Sound
  <2>. QED  BY <1>1, <2>2, <2>3, <2>4, Zenon DEF f, g
<1>. QED  BY <1>3, <1>4

\* Time that passes leaves a bucket sound.
LEMMA LaterIsSound ==
  ASSUME NEW b \in Bucket, NEW t \in Nat, Sound(b, t)
  PROVE  Sound(b, t + 1)
BY DEF Sound, Bucket

-----------------------------------------------------------------------------
(***************************************************************************)
(* The invariant holds in the beginning, and every action keeps it.        *)
(***************************************************************************)
LEMMA InitIInv == Init => IInv
<1>. SUFFICES ASSUME Init PROVE IInv
  OBVIOUS
<1>1. 1 \in 1..Len(Files)
  BY PolicyAssumption DEF IsRuleFile
<1>2. TypeOK
  <2>1. made \in Seq(Bucket) /\ Len(made) = 0
    BY DEF Init
  <2>2. readable \in BOOLEAN /\ fatal \in BOOLEAN
    BY Zenon DEF Init
  <2>3. buckets \in [Agents -> 0..Len(made)] /\ mine \in [Calls -> 0..Len(made)]
    BY <2>1 DEF Init, NoBucket
  <2>4. /\ pc \in [Calls -> {"idle", "look", "create", "take", "wait"}]
        /\ who \in [Calls -> Callers]
    BY DEF Init, Callers
  <2>5. /\ file \in 1..Len(Files) /\ rules \in 1..Len(Files)
        /\ now \in 0..MaxNow /\ calls \in 0..MaxCalls
    BY <1>1, PolicyAssumption DEF Init
  <2>. QED  BY <2>1, <2>2, <2>3, <2>4, <2>5, Zenon DEF TypeOK
<1>3. DOMAIN made = {}
  BY DEF Init
<1>4. \A c \in Calls : CallOk(c)
  BY DEF Init, CallOk, Reading
<1>5. MapOk
  BY DEF Init, MapOk
<1>. QED  BY <1>2, <1>3, <1>4, <1>5, Zenon DEF IInv, BucketsSound

\* What the types say of the places the actions look at.
LEMMA Types ==
  ASSUME TypeOK
  PROVE  /\ made \in Seq(Bucket) /\ Len(made) \in Nat /\ DOMAIN made = 1..Len(made)
         /\ \A i \in DOMAIN made : made[i] \in Bucket
         /\ now \in Nat /\ rules \in 1..Len(Files) /\ file \in 1..Len(Files)
<1>1. made \in Seq(Bucket)
  BY DEF TypeOK
<1>2. Len(made) \in Nat /\ DOMAIN made = 1..Len(made) /\ \A i \in DOMAIN made : made[i] \in Bucket
  BY <1>1
<1>3. now \in Nat /\ rules \in 1..Len(Files) /\ file \in 1..Len(Files)
  BY PolicyAssumption DEF TypeOK
<1>. QED  BY <1>1, <1>2, <1>3

LEMMA EvaluateKeeps ==
  ASSUME IInv, NEW c \in Calls, NEW a \in Callers, Evaluate(c, a)
  PROVE  IInv'
<1>1. TypeOK /\ BucketsSound /\ MapOk /\ \A d \in Calls : CallOk(d)
  BY DEF IInv
<1>2. CASE Denied(rules, a)
  <2>1. calls' \in 0..MaxCalls
    BY <1>1, PolicyAssumption DEF TypeOK, Evaluate
  <2>2. UNCHANGED <<file, readable, rules, buckets, made, now, pc, who, mine, fatal>>
    BY <1>2 DEF Evaluate, call
  <2>. QED  BY <1>1, <2>1, <2>2, Zenon
            DEF IInv, TypeOK, BucketsSound, Sound, MapOk, IsOf, CallOk, Reading, Denied
<1>3. CASE ~Denied(rules, a)
  <2>1. a \in Agents
    BY <1>3 DEF Denied, Callers
  <2>2. /\ pc' = [pc EXCEPT ![c] = "look"] /\ who' = [who EXCEPT ![c] = a]
        /\ UNCHANGED <<file, readable, rules, buckets, made, now, mine, fatal>>
    BY <1>3 DEF Evaluate
  <2>3. TypeOK'
    <3>1. calls' \in 0..MaxCalls
      BY <1>1, PolicyAssumption DEF TypeOK, Evaluate
    <3>2. /\ pc' \in [Calls -> {"idle", "look", "create", "take", "wait"}]
          /\ who' \in [Calls -> Callers]
      BY <1>1, <2>2 DEF TypeOK
    <3>. QED  BY <1>1, <2>2, <3>1, <3>2, Zenon DEF TypeOK
  <2>4. \A d \in Calls : CallOk(d)'
    <3>. SUFFICES ASSUME NEW d \in Calls PROVE CallOk(d)'
      OBVIOUS
    <3>1. CASE d = c
      <4>1. pc'[c] = "look" /\ who'[c] = a
        BY <1>1, <2>2 DEF TypeOK
      <4>. QED  BY <1>3, <2>1, <2>2, <3>1, <4>1 DEF CallOk, Denied
    <3>2. CASE d # c
      <4>1. pc'[d] = pc[d] /\ who'[d] = who[d]
        BY <1>1, <2>2, <3>2 DEF TypeOK
      <4>. QED  BY <1>1, <2>2, <4>1, Zenon DEF CallOk, Reading, Denied, IsOf
    <3>. QED  BY <3>1, <3>2
  <2>. QED  BY <1>1, <2>2, <2>3, <2>4, Zenon DEF IInv, BucketsSound, Sound, MapOk, IsOf
<1>. QED  BY <1>2, <1>3

LEMMA FindBucketKeeps ==
  ASSUME IInv, NEW c \in Calls, FindBucket(c)
  PROVE  IInv'
<1>1. TypeOK /\ BucketsSound /\ MapOk /\ \A d \in Calls : CallOk(d)
  BY DEF IInv
<1>2. who[c] \in Agents /\ ~Denied(rules, who[c])
  BY <1>1 DEF FindBucket, CallOk, Reading
<1>3. buckets[who[c]] \in 0..Len(made)
  BY <1>1, <1>2 DEF TypeOK
<1>4. UNCHANGED <<file, readable, rules, buckets, made, now, who, calls, fatal>>
  BY DEF FindBucket
<1>5. /\ mine' = [mine EXCEPT ![c] = buckets[who[c]]]
      /\ pc' = [pc EXCEPT ![c] = IF buckets[who[c]] = NoBucket THEN "create" ELSE "take"]
  BY DEF FindBucket
<1>6. TypeOK'
  <2>1. mine' \in [Calls -> 0..Len(made)]
    BY <1>1, <1>3, <1>5 DEF TypeOK
  <2>2. pc' \in [Calls -> {"idle", "look", "create", "take", "wait"}]
    BY <1>1, <1>5 DEF TypeOK
  <2>. QED  BY <1>1, <1>4, <2>1, <2>2, Zenon DEF TypeOK
<1>7. \A d \in Calls : CallOk(d)'
  <2>. SUFFICES ASSUME NEW d \in Calls PROVE CallOk(d)'
    OBVIOUS
  <2>1. CASE d = c
    <3>1. pc'[c] \in {"take", "wait"} => buckets[who[c]] # NoBucket
      BY <1>1, <1>5 DEF TypeOK
    <3>2. mine'[c] = buckets[who[c]]
      BY <1>1, <1>5 DEF TypeOK
    <3>. QED  BY <1>1, <1>2, <1>4, <2>1, <3>1, <3>2, Zenon DEF CallOk, MapOk, IsOf, Denied
  <2>2. CASE d # c
    <3>1. pc'[d] = pc[d] /\ mine'[d] = mine[d]
      BY <1>1, <1>5, <2>2 DEF TypeOK
    <3>. QED  BY <1>1, <1>4, <3>1, Zenon DEF CallOk, Reading, Denied, IsOf
  <2>. QED  BY <2>1, <2>2
<1>. QED  BY <1>1, <1>4, <1>6, <1>7, Zenon DEF IInv, BucketsSound, Sound, MapOk, IsOf

LEMMA NewBucketKeeps ==
  ASSUME IInv, NEW c \in Calls, NewBucket(c)
  PROVE  IInv'
<1>1. TypeOK /\ BucketsSound /\ MapOk /\ \A d \in Calls : CallOk(d)
  BY DEF IInv
<1>2. who[c] \in Agents /\ ~Denied(rules, who[c])
  BY <1>1 DEF NewBucket, CallOk, Reading
<1>. DEFINE b == newTokenBucket(who[c], rules)
            n == Len(made) + 1
<1>3. /\ made' = Append(made, b) /\ buckets' = [buckets EXCEPT ![who[c]] = n]
      /\ mine' = [mine EXCEPT ![c] = n] /\ pc' = [pc EXCEPT ![c] = "take"]
      /\ UNCHANGED <<file, readable, rules, now, who, calls, fatal>>
  BY DEF NewBucket
<1>4. /\ made \in Seq(Bucket) /\ Len(made) \in Nat /\ DOMAIN made = 1..Len(made)
      /\ now \in Nat /\ rules \in 1..Len(Files)
  BY <1>1, Types
<1>5. b \in Bucket /\ Sound(b, now) /\ b.agent = who[c] /\ b.version = rules
  BY <1>2, <1>4, NewIsSound
<1>. HIDE DEF b
<1>6. /\ made' \in Seq(Bucket) /\ Len(made') = n /\ DOMAIN made' = 1..n
      /\ \A i \in 1..Len(made) : made'[i] = made[i]
      /\ made'[n] = b
  BY <1>3, <1>4, <1>5, AppendProperties, LenProperties
<1>7. TypeOK'
  <2>1. buckets' \in [Agents -> 0..n] /\ mine' \in [Calls -> 0..n]
    <3>1. \A i \in 0..Len(made) : i \in 0..n
      BY <1>4
    <3>2. n \in 0..n
      BY <1>4
    <3>3. buckets \in [Agents -> 0..Len(made)] /\ mine \in [Calls -> 0..Len(made)]
      BY <1>1 DEF TypeOK
    <3>. HIDE DEF n
    <3>. QED  BY <1>3, <3>1, <3>2, <3>3
  <2>2. pc' \in [Calls -> {"idle", "look", "create", "take", "wait"}]
    BY <1>1, <1>3 DEF TypeOK
  <2>. QED  BY <1>1, <1>3, <1>6, <2>1, <2>2, Zenon DEF TypeOK
<1>8. BucketsSound'
  <2>. SUFFICES ASSUME NEW i \in 1..n PROVE Sound(made'[i], now)
    BY <1>3, <1>6, Zenon DEF BucketsSound, Sound
  <2>1. i \in 1..Len(made) \/ i = n
    BY <1>4
  <2>. QED  BY <1>1, <1>4, <1>5, <1>6, <2>1, Zenon DEF BucketsSound
<1>9. \A i, a : IsOf(made, rules, i, a) => IsOf(made', rules, i, a)
  BY <1>3, <1>4, <1>6 DEF IsOf
<1>10. IsOf(made', rules, n, who[c])
  BY <1>3, <1>4, <1>5, <1>6 DEF IsOf
<1>11. MapOk'
  <2>. SUFFICES ASSUME NEW a \in Agents, buckets'[a] # NoBucket PROVE IsOf(made', rules, buckets'[a], a)
    BY <1>3, Zenon DEF MapOk
  <2>1. CASE a = who[c]
    BY <1>1, <1>2, <1>3, <1>10, <2>1 DEF TypeOK
  <2>2. CASE a # who[c]
    <3>1. buckets'[a] = buckets[a]
      BY <1>1, <1>3, <2>2 DEF TypeOK
    <3>2. IsOf(made, rules, buckets[a], a)
      BY <1>1, <3>1, Zenon DEF MapOk
    <3>. QED  BY <1>9, <3>1, <3>2, Zenon
  <2>. QED  BY <2>1, <2>2
<1>12. \A d \in Calls : CallOk(d)'
  <2>. SUFFICES ASSUME NEW d \in Calls PROVE CallOk(d)'
    OBVIOUS
  <2>1. CASE d = c
    <3>1. mine'[c] = n /\ who'[c] = who[c]
      BY <1>1, <1>3 DEF TypeOK
    <3>. QED  BY <1>2, <1>3, <1>10, <2>1, <3>1 DEF CallOk, IsOf, Denied
  <2>2. CASE d # c
    <3>1. pc'[d] = pc[d] /\ mine'[d] = mine[d] /\ who'[d] = who[d]
      BY <1>1, <1>3, <2>2 DEF TypeOK
    <3>2. pc[d] \in {"take", "wait"} => IsOf(made', rules, mine[d], who[d])
      BY <1>1, <1>3, <1>9, Zenon DEF CallOk
    <3>. QED  BY <1>1, <1>3, <3>1, <3>2 DEF CallOk, Reading, Denied, IsOf
  <2>. QED  BY <2>1, <2>2
<1>. QED  BY <1>7, <1>8, <1>11, <1>12, Zenon DEF IInv

LEMMA TakeKeeps ==
  ASSUME IInv, NEW c \in Calls, Take(c)
  PROVE  IInv'
<1>1. TypeOK /\ BucketsSound /\ MapOk /\ \A d \in Calls : CallOk(d)
  BY DEF IInv
<1>2. who[c] \in Agents /\ ~Denied(rules, who[c]) /\ IsOf(made, rules, mine[c], who[c])
  BY <1>1 DEF Take, CallOk, Reading
<1>. DEFINE m == mine[c]
            b == allow(made[m])
<1>3. /\ made' = [made EXCEPT ![m] = b]
      /\ UNCHANGED <<file, readable, rules, buckets, now, calls, fatal>>
  BY DEF Take
<1>4. /\ pc'[c] \in {"idle", "wait"}
      /\ pc'[c] = "wait" => who'[c] = who[c] /\ mine'[c] = m
      /\ \A d \in Calls \ {c} : pc'[d] = pc[d] /\ who'[d] = who[d] /\ mine'[d] = mine[d]
  BY <1>1 DEF Take, TypeOK
<1>5. /\ made \in Seq(Bucket) /\ Len(made) \in Nat /\ DOMAIN made = 1..Len(made)
      /\ now \in Nat /\ m \in DOMAIN made /\ made[m] \in Bucket
  BY <1>1, <1>2, Types DEF IsOf
<1>6. Sound(made[m], now)
  BY <1>1, <1>5 DEF BucketsSound
<1>7. b \in Bucket /\ Sound(b, now) /\ b.agent = made[m].agent /\ b.version = made[m].version
  BY <1>5, <1>6, AllowIsSound
<1>. HIDE DEF b, m
<1>8. /\ made' \in Seq(Bucket) /\ Len(made') = Len(made) /\ DOMAIN made' = DOMAIN made
      /\ \A i \in DOMAIN made : made'[i] = IF i = m THEN b ELSE made[i]
  BY <1>3, <1>5, <1>7, ExceptSeq, LenProperties
<1>9. TypeOK'
  <2>1. /\ pc' \in [Calls -> {"idle", "look", "create", "take", "wait"}]
        /\ who' \in [Calls -> Callers]
    BY <1>1 DEF Take, TypeOK, Callers
  <2>2. mine' \in [Calls -> 0..Len(made)]
    <3>1. mine' = mine \/ mine' = [mine EXCEPT ![c] = NoBucket]
      BY Zenon DEF Take
    <3>2. mine \in [Calls -> 0..Len(made)]
      BY <1>1 DEF TypeOK
    <3>3. NoBucket \in 0..Len(made)
      BY <1>5 DEF NoBucket
    <3>. QED  BY <3>1, <3>2, <3>3
  <2>. QED  BY <1>1, <1>3, <1>8, <2>1, <2>2, Zenon DEF TypeOK
<1>10. BucketsSound'
  <2>. SUFFICES ASSUME NEW i \in DOMAIN made PROVE Sound(made'[i], now)
    BY <1>3, <1>8, Zenon DEF BucketsSound, Sound
  <2>. QED  BY <1>1, <1>7, <1>8, Zenon DEF BucketsSound
<1>11. \A i, a : IsOf(made, rules, i, a) => IsOf(made', rules, i, a)
  BY <1>3, <1>7, <1>8 DEF IsOf
<1>12. MapOk'
  <2>. SUFFICES ASSUME NEW a \in Agents, buckets'[a] # NoBucket PROVE IsOf(made', rules, buckets'[a], a)
    BY <1>3, Zenon DEF MapOk
  <2>1. IsOf(made, rules, buckets[a], a)
    BY <1>1, <1>3, Zenon DEF MapOk
  <2>. QED  BY <1>3, <1>11, <2>1, Zenon
<1>13. \A d \in Calls : CallOk(d)'
  <2>. SUFFICES ASSUME NEW d \in Calls PROVE CallOk(d)'
    OBVIOUS
  <2>1. CASE d = c
    <3>1. CASE pc'[c] = "wait"
      <4>1. who'[c] = who[c] /\ mine'[c] = mine[c]
        BY <1>4, <3>1 DEF m
      <4>2. IsOf(made', rules, mine[c], who[c])
        BY <1>2, <1>11
      <4>. QED  BY <1>2, <1>3, <2>1, <4>1, <4>2 DEF CallOk, IsOf, Denied
    <3>2. CASE pc'[c] = "idle"
      BY <2>1, <3>2 DEF CallOk, Reading
    <3>. QED  BY <1>4, <3>1, <3>2
  <2>2. CASE d # c
    <3>1. pc'[d] = pc[d] /\ mine'[d] = mine[d] /\ who'[d] = who[d]
      BY <1>4, <2>2
    <3>2. pc[d] \in {"take", "wait"} => IsOf(made', rules, mine[d], who[d])
      BY <1>1, <1>11, Zenon DEF CallOk
    <3>. QED  BY <1>1, <1>3, <3>1, <3>2 DEF CallOk, Reading, Denied, IsOf
  <2>. QED  BY <2>1, <2>2
<1>. QED  BY <1>9, <1>10, <1>12, <1>13, Zenon DEF IInv

LEMMA ThrottledKeeps ==
  ASSUME IInv, NEW c \in Calls, Throttled(c)
  PROVE  IInv'
<1>1. TypeOK /\ BucketsSound /\ MapOk /\ \A d \in Calls : CallOk(d)
  BY DEF IInv
<1>2. UNCHANGED <<file, readable, rules, buckets, made, now, calls, fatal>>
  BY DEF Throttled
<1>3. /\ pc'[c] = "idle"
      /\ \A d \in Calls \ {c} : pc'[d] = pc[d] /\ who'[d] = who[d] /\ mine'[d] = mine[d]
  BY <1>1 DEF Throttled, TypeOK
<1>4. TypeOK'
  <2>1. /\ pc' \in [Calls -> {"idle", "look", "create", "take", "wait"}]
        /\ who' \in [Calls -> Callers]
    BY <1>1 DEF Throttled, TypeOK, Callers
  <2>2. mine' \in [Calls -> 0..Len(made)]
    BY <1>1, Types DEF Throttled, TypeOK, NoBucket
  <2>. QED  BY <1>1, <1>2, <2>1, <2>2, Zenon DEF TypeOK
<1>5. \A d \in Calls : CallOk(d)'
  <2>. SUFFICES ASSUME NEW d \in Calls PROVE CallOk(d)'
    OBVIOUS
  <2>1. CASE d = c
    BY <1>3, <2>1 DEF CallOk, Reading
  <2>2. CASE d # c
    BY <1>1, <1>2, <1>3, <2>2 DEF CallOk, Reading, Denied, IsOf
  <2>. QED  BY <2>1, <2>2
<1>. QED  BY <1>1, <1>2, <1>4, <1>5, Zenon DEF IInv, BucketsSound, Sound, MapOk, IsOf

LEMMA ReloadKeeps ==
  ASSUME IInv, Reload
  PROVE  IInv'
<1>1. TypeOK /\ BucketsSound /\ MapOk /\ \A d \in Calls : CallOk(d)
  BY DEF IInv
<1>2. UNCHANGED <<file, readable, made, now, pc, who, mine, calls, fatal>>
  BY DEF Reload, call
<1>3. \A d \in Calls : CallOk(d)'
  BY <1>2 DEF Reload, CallOk, Reading
<1>4. CASE readable
  <2>1. rules' = file /\ buckets' = [a \in Agents |-> NoBucket]
    BY <1>4 DEF Reload
  <2>2. buckets' \in [Agents -> 0..Len(made)]
    BY <1>1, <2>1, Types DEF NoBucket
  <2>3. TypeOK'
    BY <1>1, <1>2, <2>1, <2>2, Zenon DEF TypeOK
  <2>4. MapOk'
    BY <2>1 DEF MapOk
  <2>. QED  BY <1>1, <1>2, <1>3, <2>3, <2>4, Zenon DEF IInv, BucketsSound, Sound
<1>5. CASE ~readable
  <2>1. UNCHANGED <<rules, buckets>>
    BY <1>5 DEF Reload
  <2>. QED  BY <1>1, <1>2, <1>3, <2>1, Zenon
            DEF IInv, TypeOK, BucketsSound, Sound, MapOk, IsOf
<1>. QED  BY <1>4, <1>5

LEMMA EditKeeps ==
  ASSUME IInv, Edit
  PROVE  IInv'
<1>1. TypeOK /\ BucketsSound /\ MapOk /\ \A d \in Calls : CallOk(d)
  BY DEF IInv
<1>2. UNCHANGED <<rules, buckets, made, now, pc, who, mine, calls, fatal>>
  BY DEF Edit, call
<1>3. readable' \in BOOLEAN
  BY Zenon DEF Edit
<1>4. file' \in 1..Len(Files)
  BY <1>1, Types, PolicyAssumption DEF Edit
<1>5. TypeOK'
  BY <1>1, <1>2, <1>3, <1>4, Zenon DEF TypeOK
<1>. QED  BY <1>1, <1>2, <1>5, Zenon
          DEF IInv, BucketsSound, Sound, MapOk, IsOf, CallOk, Reading, Denied

LEMMA TickKeeps ==
  ASSUME IInv, Tick
  PROVE  IInv'
<1>1. TypeOK /\ BucketsSound /\ MapOk /\ \A d \in Calls : CallOk(d)
  BY DEF IInv
<1>2. UNCHANGED <<file, readable, rules, buckets, made, pc, who, mine, calls, fatal>>
  BY DEF Tick, call
<1>3. now' = now + 1 /\ now \in Nat /\ now' \in 0..MaxNow
  BY <1>1, Types, PolicyAssumption DEF Tick, TypeOK
<1>4. TypeOK'
  BY <1>1, <1>2, <1>3, Zenon DEF TypeOK
<1>5. BucketsSound'
  <2>. SUFFICES ASSUME NEW i \in DOMAIN made PROVE Sound(made[i], now + 1)
    BY <1>2, <1>3, Zenon DEF BucketsSound, Sound
  <2>. QED  BY <1>1, <1>3, Types, LaterIsSound DEF BucketsSound
<1>. QED  BY <1>1, <1>2, <1>4, <1>5, Zenon DEF IInv, MapOk, IsOf, CallOk, Reading, Denied

LEMMA NextKeepsIInv ==
  ASSUME IInv, [Next]_vars
  PROVE  IInv'
<1>1. ASSUME NEW c \in Calls, NEW a \in Callers, Evaluate(c, a) PROVE IInv'
  BY <1>1, EvaluateKeeps
<1>2. ASSUME NEW c \in Calls, FindBucket(c) PROVE IInv'
  BY <1>2, FindBucketKeeps
<1>3. ASSUME NEW c \in Calls, NewBucket(c) PROVE IInv'
  BY <1>3, NewBucketKeeps
<1>4. ASSUME NEW c \in Calls, Take(c) PROVE IInv'
  BY <1>4, TakeKeeps
<1>5. ASSUME NEW c \in Calls, Throttled(c) PROVE IInv'
  BY <1>5, ThrottledKeeps
<1>6. ASSUME NEW c \in Calls, NEW d \in Calls, ConcurrentMapWrite(c, d) PROVE IInv'
  <2>1. UNCHANGED <<file, readable, rules, buckets, made, now, pc, who, mine, calls>>
    BY <1>6 DEF ConcurrentMapWrite, call
  <2>2. fatal' \in BOOLEAN
    BY <1>6, Zenon DEF ConcurrentMapWrite
  <2>. QED  BY <2>1, <2>2, Zenon
            DEF IInv, TypeOK, BucketsSound, Sound, MapOk, IsOf, CallOk, Reading, Denied
<1>7. CASE Edit
  BY <1>7, EditKeeps
<1>8. CASE Reload
  BY <1>8, ReloadKeeps
<1>9. CASE Tick
  BY <1>9, TickKeeps
<1>10. CASE Rest \/ UNCHANGED vars
  <2>1. UNCHANGED <<file, readable, rules, buckets, made, now, pc, who, mine, calls, fatal>>
    BY <1>10, Zenon DEF Rest, vars, call
  <2>. QED  BY <2>1, Zenon
            DEF IInv, TypeOK, BucketsSound, Sound, MapOk, IsOf, CallOk, Reading, Denied
<1>. QED  BY <1>1, <1>2, <1>3, <1>4, <1>5, <1>6, <1>7, <1>8, <1>9, <1>10, Zenon DEF Next

-----------------------------------------------------------------------------
(***************************************************************************)
(* The theorems.                                                           *)
(***************************************************************************)
LEMMA SpecIInv == Spec => []IInv
BY InitIInv, NextKeepsIInv, PTL DEF Spec

\* The state of the engine stays well formed (config.go:15-33, 150-156).
THEOREM TypeCorrect == Spec => []TypeOK
<1>1. IInv => TypeOK
  BY DEF IInv
<1>. QED  BY <1>1, SpecIInv, PTL

\* No bucket ever lets through more than its burst and what its rate has earned
\* since it was made, however its calls interleave (config.go:167-178, 190-198).
THEOREM NeverAboveTheLimit == Spec => []WithinLimit
<1>1. IInv => WithinLimit
  <2>. SUFFICES ASSUME IInv, NEW i \in DOMAIN made
                PROVE  made[i].admitted * Unit <= made[i].max + made[i].rate * (now - made[i].born)
    BY DEF WithinLimit
  <2>. DEFINE b == made[i]
              upTo == b.lastFill - b.born
              age == now - b.born
  <2>1. b \in Bucket /\ now \in Nat
    BY Types DEF IInv
  <2>2. Sound(b, now)
    BY DEF IInv, BucketsSound
  <2>3. /\ b.rate \in Nat /\ b.max \in Nat /\ b.tokens \in Nat /\ b.lastFill \in Nat
        /\ b.born \in Nat /\ b.admitted \in Nat
    BY <2>1 DEF Bucket
  <2>4. upTo \in Nat /\ age \in Nat /\ upTo <= age
    BY <2>1, <2>2, <2>3 DEF Sound
  <2>5. b.rate * upTo <= b.rate * age /\ b.rate * upTo \in Nat /\ b.rate * age \in Nat
    <3>1. b.rate \in Nat
      BY <2>3
    <3>. HIDE DEF b, upTo, age
    <3>2. b.rate * upTo <= b.rate * age
      BY <2>4, <3>1, EarnsMore
    <3>3. b.rate * upTo \in Nat /\ b.rate * age \in Nat
      BY <2>4, <3>1, EarnedTogether
    <3>. QED  BY <3>2, <3>3
  <2>6. b.tokens + b.admitted * Unit <= b.max + b.rate * upTo
    BY <2>2 DEF Sound
  <2>7. Unit \in Nat
    BY PolicyAssumption
  <2>8. b.admitted * Unit \in Nat
    BY <2>3, <2>7, EarnedTogether
  <2>. DEFINE out == b.admitted * Unit
              then == b.rate * upTo
              in == b.rate * age
  <2>9. out \in Nat /\ then \in Nat /\ in \in Nat /\ then <= in /\ b.tokens + out <= b.max + then
    BY <2>5, <2>6, <2>8
  <2>. HIDE DEF out, then, in
  <2>10. out <= b.max + in
    BY <2>3, <2>9
  <2>. QED  BY <2>10 DEF out, in
<1>. QED  BY <1>1, SpecIInv, PTL

\* However long the pause, no bucket holds more than its burst (config.go:193-196).
THEOREM PausesEarnNoMore == Spec => []NoHoarding
<1>1. IInv => NoHoarding
  BY DEF IInv, BucketsSound, Sound, NoHoarding
<1>. QED  BY <1>1, SpecIInv, PTL

\* One call sees one set of rules: the bucket it takes from is its agent's and
\* was made under the rules in force, whatever is reloaded (config.go:52-53, 116-121).
THEOREM OneSetOfRules == Spec => []CurrentLimits
<1>1. IInv => CurrentLimits
  BY DEF IInv, CallOk, IsOf, CurrentLimits
<1>. QED  BY <1>1, SpecIInv, PTL

\* Nobody waits for a token whom the rules in force deny (config.go:60-82).
THEOREM DeniedStayOut == Spec => []DeniedTakesNone
<1>1. IInv => DeniedTakesNone
  BY DEF IInv, CallOk, DeniedTakesNone
<1>. QED  BY <1>1, SpecIInv, PTL

-----------------------------------------------------------------------------
(***************************************************************************)
(* RetryAfterHelps speaks of a time to come.  The invariant behind it: a   *)
(* bucket that has throttled holds at least what its rate has earned since *)
(* it first did, unless it is full.                                        *)
(***************************************************************************)
Saving(b) ==
  b.told # Never =>
    /\ b.told <= b.lastFill
    /\ b.tokens = b.max \/ b.tokens >= b.rate * (b.lastFill - b.told)
AllSaving == \A i \in DOMAIN made : Saving(made[i])

LEMMA RefillSaves ==
  ASSUME NEW b \in Bucket, now \in Nat, Sound(b, now), b.told # Never, Saving(b)
  PROVE  /\ b.told <= now /\ refill(b).max = b.max /\ refill(b).tokens \in Nat
         /\ refill(b).tokens = b.max \/ refill(b).tokens >= b.rate * (now - b.told)
<1>. DEFINE f == refill(b)
            until == b.lastFill - b.told
            since == now - b.lastFill
<1>1. /\ b.rate \in Nat /\ b.max \in Nat /\ b.tokens \in Nat /\ b.lastFill \in Nat /\ b.told \in Nat
  BY DEF Bucket
<1>2. until \in Nat /\ since \in Nat /\ now - b.told = until + since /\ b.told <= now
  BY <1>1 DEF Sound, Saving
<1>3. /\ b.rate * (now - b.told) = b.rate * until + b.rate * since
      /\ b.rate * until \in Nat /\ b.rate * since \in Nat
  BY <1>1, <1>2, EarnedTogether
<1>4. f.tokens = Least(b.max, b.tokens + b.rate * since) /\ f.max = b.max
  BY DEF refill, Bucket
<1>5. b.tokens = b.max \/ b.tokens >= b.rate * until
  BY DEF Saving
<1>. DEFINE x == b.rate * until
            y == b.rate * since
            z == b.rate * (now - b.told)
<1>6. f.tokens \in Nat /\ (f.tokens = b.max \/ f.tokens >= z)
  <2>1. /\ z = x + y /\ x \in Nat /\ y \in Nat /\ f.tokens = Least(b.max, b.tokens + y)
        /\ b.tokens = b.max \/ b.tokens >= x
    BY <1>3, <1>4, <1>5
  <2>. HIDE DEF x, y, z, f
  <2>. QED  BY <1>1, <2>1 DEF Least
<1>. QED  BY <1>2, <1>4, <1>6

LEMMA AllowSaves ==
  ASSUME NEW b \in Bucket, now \in Nat, Sound(b, now), Saving(b)
  PROVE  Saving(allow(b))
<1>. DEFINE f == refill(b)
            g == allow(b)
<1>1. f \in Bucket /\ f.lastFill = now /\ f.rate = b.rate /\ f.told = b.told
  BY RefillIsSound DEF refill, Bucket
<1>2. CASE allowed(b)
  <2>1. g = [f EXCEPT !.tokens = @ - Unit, !.admitted = @ + 1, !.told = Never]
    BY <1>2 DEF allow
  <2>2. g.told = Never
    BY <1>1, <2>1 DEF Bucket
  <2>. QED  BY <2>2 DEF Saving
<1>3. CASE ~allowed(b)
  <2>1. g = [f EXCEPT !.told = IF @ = Never THEN now ELSE @]
    BY <1>3 DEF allow
  <2>. HIDE DEF f, g
  <2>2. /\ g.lastFill = now /\ g.tokens = f.tokens /\ g.max = f.max /\ g.rate = b.rate
        /\ g.told = IF b.told = Never THEN now ELSE b.told
    BY <1>1, <2>1 DEF Bucket
  <2>3. CASE b.told = Never
    <3>1. g.told = now /\ f.tokens \in Nat /\ b.rate \in Nat
      BY <1>1, <2>2, <2>3 DEF Bucket
    <3>2. now - now = 0 /\ b.rate * 0 = 0 /\ now <= now
      BY <3>1
    <3>3. g.rate * (g.lastFill - g.told) = 0
      BY <2>2, <3>1, <3>2
    <3>. QED  BY <2>2, <3>1, <3>2, <3>3 DEF Saving, g
  <2>4. CASE b.told # Never
    <3>1. /\ b.told <= now /\ f.max = b.max
          /\ f.tokens = b.max \/ f.tokens >= b.rate * (now - b.told)
      BY <2>4, RefillSaves DEF f
    <3>2. g.told = b.told
      BY <2>2, <2>4
    <3>3. Saving(g)
      BY <2>2, <3>1, <3>2, Zenon DEF Saving
    <3>. QED  BY <3>3 DEF g
  <2>. QED  BY <2>3, <2>4
<1>. QED  BY <1>2, <1>3

LEMMA SavingKept ==
  ASSUME IInv, AllSaving, [Next]_vars
  PROVE  AllSaving'
<1>. USE DEF AllSaving
<1>1. TypeOK /\ BucketsSound /\ MapOk /\ \A d \in Calls : CallOk(d)
  BY DEF IInv
<1>2. /\ made \in Seq(Bucket) /\ Len(made) \in Nat /\ DOMAIN made = 1..Len(made)
      /\ now \in Nat /\ rules \in 1..Len(Files)
  BY <1>1, Types
<1>3. CASE UNCHANGED made
  BY <1>3
<1>4. ASSUME NEW c \in Calls, NewBucket(c) PROVE AllSaving'
  <2>. DEFINE b == newTokenBucket(who[c], rules)
  <2>1. who[c] \in Agents /\ made' = Append(made, b)
    BY <1>1, <1>4 DEF NewBucket, CallOk, Reading
  <2>2. b \in Bucket
    BY <1>2, <2>1, NewIsSound
  <2>3. Saving(b)
    BY DEF newTokenBucket, Saving
  <2>. HIDE DEF b
  <2>4. /\ DOMAIN made' = 1..Len(made) + 1 /\ made'[Len(made) + 1] = b
        /\ \A i \in 1..Len(made) : made'[i] = made[i]
    BY <1>2, <2>1, <2>2, AppendProperties, LenProperties
  <2>5. \A i \in DOMAIN made' : i \in DOMAIN made \/ i = Len(made) + 1
    BY <1>2, <2>4
  <2>. QED  BY <1>2, <2>3, <2>4, <2>5
<1>5. ASSUME NEW c \in Calls, Take(c) PROVE AllSaving'
  <2>1. IsOf(made, rules, mine[c], who[c])
    BY <1>1, <1>5 DEF Take, CallOk
  <2>2. PICK m \in DOMAIN made : m = mine[c]
    BY <2>1 DEF IsOf
  <2>. DEFINE b == allow(made[m])
  <2>3. made' = [made EXCEPT ![m] = b]
    BY <1>5, <2>2 DEF Take
  <2>4. made[m] \in Bucket /\ Sound(made[m], now) /\ Saving(made[m])
    BY <1>1, <1>2, Types DEF BucketsSound
  <2>5. b \in Bucket /\ Saving(b)
    BY <1>2, <2>4, AllowIsSound, AllowSaves
  <2>. HIDE DEF b
  <2>6. DOMAIN made' = DOMAIN made /\ \A i \in DOMAIN made : made'[i] = IF i = m THEN b ELSE made[i]
    BY <2>3
  <2>. QED  BY <2>5, <2>6
<1>6. [Next]_vars => UNCHANGED made \/ \E c \in Calls : NewBucket(c) \/ Take(c)
  BY DEF Next, vars, Evaluate, FindBucket, Throttled, ConcurrentMapWrite, Edit, Reload, Tick, Rest
<1>. QED  BY <1>3, <1>4, <1>5, <1>6

\* A quotient that is cut down falls short of what was divided by less than one.
LEMMA CutDownCovers ==
  ASSUME NEW x \in Nat, NEW r \in Nat \ {0}, NEW c, c = (IF x % r = 0 THEN 0 ELSE 1)
  PROVE  (x \div r) + c \in Nat /\ r * ((x \div r) + c) >= x
<1>. DEFINE q == x \div r
            m == x % r
<1>1. r \in Nat /\ r > 0
  OBVIOUS
<1>2. q \in Nat /\ m \in 0..(r - 1) /\ x = r * q + m
  BY <1>1
<1>3. c = (IF m = 0 THEN 0 ELSE 1)
  OBVIOUS
<1>. HIDE DEF q, m
<1>4. r * q \in Nat /\ r * (q + 1) = r * q + r
  BY <1>1, <1>2
<1>5. CASE m = 0
  BY <1>1, <1>2, <1>3, <1>4, <1>5 DEF q
<1>6. CASE m # 0
  <2>1. c = 1 /\ q + c \in Nat
    BY <1>2, <1>3, <1>6
  <2>2. r * (q + 1) >= x
    BY <1>1, <1>2, <1>4
  <2>. QED  BY <2>1, <2>2 DEF q
<1>. QED  BY <1>5, <1>6

\* An agent that was throttled and waits as long as it was told, and one tick more
\* where the announced wait was cut down to whole ticks, finds a token, unless
\* another of its calls took it (config.go:84-91, 180-188).
THEOREM WaitingHelps == Spec => []RetryAfterHelps
<1>1. Init => AllSaving
  BY DEF Init, AllSaving
<1>2. IInv /\ AllSaving /\ [Next]_vars => AllSaving'
  BY SavingKept
<1>3. Spec => []AllSaving
  BY <1>1, <1>2, SpecIInv, PTL DEF Spec
<1>4. IInv /\ AllSaving => RetryAfterHelps
  <2>. SUFFICES ASSUME IInv, AllSaving, NEW i \in DOMAIN made,
                       made[i].told # Never, made[i].rate > 0, made[i].max >= Unit,
                       now >= made[i].told + retryAfter(made[i]) + CutDown(made[i])
                PROVE  refill(made[i]).tokens >= Unit
    BY DEF RetryAfterHelps, allowed
  <2>1. PICK b : b = made[i]
    OBVIOUS
  <2>2. b \in Bucket /\ now \in Nat
    BY <2>1, Types DEF IInv
  <2>3. Sound(b, now) /\ Saving(b) /\ b.told # Never
    BY <2>1 DEF IInv, BucketsSound, AllSaving
  <2>4. b.rate \in Nat \ {0} /\ b.max \in Nat /\ b.told \in Nat /\ Unit \in Nat
    BY <2>1, <2>2, <2>3, PolicyAssumption DEF Bucket
  <2>5. /\ b.told <= now /\ refill(b).tokens \in Nat
        /\ refill(b).tokens = b.max \/ refill(b).tokens >= b.rate * (now - b.told)
    BY <2>2, <2>3, RefillSaves
  <2>. DEFINE w == retryAfter(b) + CutDown(b)
              t == now - b.told
  <2>6. w \in Nat /\ b.rate * w >= Unit
    <3>1. b.rate # 0 /\ retryAfter(b) = Unit \div b.rate
      BY <2>4 DEF retryAfter
    <3>2. CutDown(b) = (IF Unit % b.rate = 0 THEN 0 ELSE 1)
      BY DEF CutDown
    <3>3. /\ (Unit \div b.rate) + CutDown(b) \in Nat
          /\ b.rate * ((Unit \div b.rate) + CutDown(b)) >= Unit
      BY <2>4, <3>2, CutDownCovers, Zenon
    <3>. QED  BY <3>1, <3>3
  <2>11. now >= b.told + w
    <3>. HIDE DEF w
    <3>1. retryAfter(b) \in Int /\ CutDown(b) \in Int
      BY <2>4 DEF retryAfter, CutDown
    <3>. QED  BY <2>1, <2>4, <3>1 DEF w
  <2>7. t \in Nat /\ w <= t
    <3>. HIDE DEF w
    <3>. QED  BY <2>2, <2>4, <2>5, <2>6, <2>11
  <2>. HIDE DEF w, t
  <2>8. b.rate * w <= b.rate * t /\ b.rate * w \in Nat /\ b.rate * t \in Nat
    BY <2>4, <2>6, <2>7, EarnsMore, EarnedTogether
  <2>9. b.rate * t >= Unit
    BY <2>4, <2>6, <2>8
  <2>10. refill(b).tokens >= Unit
    <3>. DEFINE held == refill(b).tokens
                earned == b.rate * t
    <3>1. held = b.max \/ held >= earned
      BY <2>5 DEF t
    <3>2. b.max >= Unit /\ b.max \in Nat /\ Unit \in Nat
      BY <2>1, <2>4
    <3>3. held \in Nat /\ earned \in Nat /\ earned >= Unit
      BY <2>5, <2>8, <2>9
    <3>. HIDE DEF held, earned
    <3>4. held >= Unit
      BY <3>1, <3>2, <3>3
    <3>. QED  BY <3>4 DEF held
  <2>. QED  BY <2>1, <2>10
<1>. QED  BY <1>3, <1>4, SpecIInv, PTL
=============================================================================
