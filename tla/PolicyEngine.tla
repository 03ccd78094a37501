----------------------------- MODULE PolicyEngine -----------------------------
(***************************************************************************)
(* The policy engine (internal/policy/config.go): a deny list, the actions *)
(* an agent is allowed, and a token bucket for every agent.                *)
(*                                                                         *)
(* Evaluate holds the read lock from beginning to end, Reload writes under *)
(* the write lock.  getBucket adds to the map of buckets under the read    *)
(* lock only, so two evaluations may do it at once: the Go runtime may     *)
(* end the process ("concurrent map writes"), or one bucket replaces the   *)
(* other.  A bucket has a lock of its own, and reads the clock holding it. *)
(*                                                                         *)
(* Tokens are counted in parts, Unit parts to a token, so that a tick may  *)
(* add less than a token.                                                  *)
(***************************************************************************)
EXTENDS Integers, Sequences, FiniteSets, Functions, FiniteSetsExt

CONSTANTS Agents,
          Calls,          \* the goroutines that evaluate
          Files,          \* the rule files an operator installs, in order
          Unit,           \* parts in a token
          Second,         \* ticks in a second
          DefaultRate, DefaultBurst,    \* parts a tick, parts
          MaxNow, MaxCalls              \* bounds

NoBucket == 0
\* What an agent with a list of allowed actions must have to ingest.
Ingesting == {"ingest", "*"}

\* The agent of a call that brings no identity.
Nobody == "nobody"
Callers == Agents \cup {Nobody}

\* A limit that is left out is zero.
Limits == [rate : Nat, burst : Nat]
IsRuleFile(f) ==
  /\ f.denied \subseteq Agents
  /\ DOMAIN f.actions \subseteq Agents
  /\ f.default \in Limits
  /\ DOMAIN f.overrides \subseteq Agents
  /\ \A a \in DOMAIN f.overrides : f.overrides[a] \in Limits

ASSUME PolicyAssumption ==
  /\ Nobody \notin Agents
  /\ Len(Files) > 0 /\ \A i \in DOMAIN Files : IsRuleFile(Files[i])
  /\ Unit \in Nat \ {0} /\ Second \in Nat \ {0}
  /\ DefaultRate \in Nat \ {0} /\ DefaultBurst \in Nat \ {0}
  /\ MaxNow \in Nat /\ MaxCalls \in Nat

VARIABLES
  file,       \* index of the rule file on disk
  readable,   \* the file can be read and parsed
  rules,      \* index of the rules in force
  buckets,    \* Agents -> index in made, or NoBucket: the map of buckets
  made,       \* every bucket made, also those the map has lost
  now,
  pc,         \* Calls -> "idle", "look", "create", "take" or "wait"
  who, mine,  \* Calls -> the agent, the bucket in hand
  calls,      \* number of evaluations begun
  fatal       \* the Go runtime has ended the process

call == <<pc, who, mine>>
vars == <<file, readable, rules, buckets, made, now, call, calls, fatal>>

-----------------------------------------------------------------------------
(***************************************************************************)
(* The rules.                                                              *)
(***************************************************************************)
Denied(r, a) ==
  \/ a = Nobody
  \/ a \in Files[r].denied
  \/ a \in DOMAIN Files[r].actions /\ Files[r].actions[a] \cap Ingesting = {}

OrElse(n, default) == IF n = 0 THEN default ELSE n

\* The default limit is completed by Reload, an override is not.
Limit(r, a) ==
  IF a \in DOMAIN Files[r].overrides THEN Files[r].overrides[a]
  ELSE [rate |-> OrElse(Files[r].default.rate, DefaultRate),
        burst |-> OrElse(Files[r].default.burst, DefaultBurst)]

-----------------------------------------------------------------------------
(***************************************************************************)
(* A bucket.  "born", "admitted" and "told" are history: when it was made, *)
(* the calls it let through, and when it first throttled a call after it   *)
(* last let one through (Never if it did not).                             *)
(***************************************************************************)
Never == -1

Bucket ==
  [agent : Agents, rate : Nat, max : Nat, tokens : Nat, lastFill : Nat, version : 1..Len(Files),
   born : Nat, admitted : Nat, told : Nat \cup {Never}]

newTokenBucket(a, r) ==
  [agent |-> a, rate |-> Limit(r, a).rate, max |-> Limit(r, a).burst,
   tokens |-> Limit(r, a).burst, lastFill |-> now, version |-> r,
   born |-> now, admitted |-> 0, told |-> Never]

Least(m, n) == IF m < n THEN m ELSE n

\* Faulty variant: the time of the last fill is not moved on.
RefillForgetsTime(b) ==
  [b EXCEPT !.tokens = Least(b.max, b.tokens + b.rate * (now - b.lastFill))]

\* Faulty variant: whole tokens only, the rest of the time is lost.
RefillWhole(b) ==
  [b EXCEPT !.tokens = Least(b.max, b.tokens + Unit * ((b.rate * (now - b.lastFill)) \div Unit)),
            !.lastFill = now]

refill(b) ==
  [b EXCEPT !.tokens = Least(b.max, b.tokens + b.rate * (now - b.lastFill)),
            !.lastFill = now]

allowed(b) == refill(b).tokens >= Unit

allow(b) ==
  IF allowed(b)
  THEN [refill(b) EXCEPT !.tokens = @ - Unit, !.admitted = @ + 1, !.told = Never]
  ELSE [refill(b) EXCEPT !.told = IF @ = Never THEN now ELSE @]

\* What a throttled call is told to wait: the time of one token, cut down to
\* whole ticks (a tick is the nanosecond a time.Duration counts in).
retryAfter(b) == IF b.rate = 0 THEN Second ELSE Unit \div b.rate

-----------------------------------------------------------------------------
Init ==
  /\ file = 1 /\ readable = TRUE /\ rules = 1
  /\ buckets = [a \in Agents |-> NoBucket] /\ made = <<>>
  /\ now = 0 /\ calls = 0 /\ fatal = FALSE
  /\ pc = [c \in Calls |-> "idle"]
  /\ who = [c \in Calls |-> Nobody] /\ mine = [c \in Calls |-> NoBucket]

Reading(c) == pc[c] \in {"look", "create", "take", "wait"}

\* Evaluate takes the read lock and settles a denied agent at once.
Evaluate(c, a) ==
  /\ ~fatal /\ pc[c] = "idle" /\ calls < MaxCalls
  /\ calls' = calls + 1
  /\ IF Denied(rules, a)
     THEN UNCHANGED call
     ELSE /\ pc' = [pc EXCEPT ![c] = "look"] /\ who' = [who EXCEPT ![c] = a]
          /\ UNCHANGED mine
  /\ UNCHANGED <<file, readable, rules, buckets, made, now, fatal>>

\* getBucket finds the agent's bucket in the map, or not.
FindBucket(c) ==
  /\ ~fatal /\ pc[c] = "look"
  /\ mine' = [mine EXCEPT ![c] = buckets[who[c]]]
  /\ pc' = [pc EXCEPT ![c] = IF buckets[who[c]] = NoBucket THEN "create" ELSE "take"]
  /\ UNCHANGED <<file, readable, rules, buckets, made, now, who, calls, fatal>>

\* getBucket makes a bucket and puts it in the map.
NewBucket(c) ==
  /\ ~fatal /\ pc[c] = "create"
  /\ made' = Append(made, newTokenBucket(who[c], rules))
  /\ buckets' = [buckets EXCEPT ![who[c]] = Len(made) + 1]
  /\ mine' = [mine EXCEPT ![c] = Len(made) + 1]
  /\ pc' = [pc EXCEPT ![c] = "take"]
  /\ UNCHANGED <<file, readable, rules, now, who, calls, fatal>>

\* The runtime notices one goroutine writing the map and another using it.
ConcurrentMapWrite(c, d) ==
  /\ ~fatal /\ c # d /\ pc[c] = "create" /\ pc[d] \in {"look", "create"}
  /\ fatal' = TRUE
  /\ UNCHANGED <<file, readable, rules, buckets, made, now, call, calls>>

\* allow: the call is let through and answered, or goes on to retryAfter.
Take(c) ==
  /\ ~fatal /\ pc[c] = "take"
  /\ made' = [made EXCEPT ![mine[c]] = allow(@)]
  /\ IF allowed(made[mine[c]])
     THEN /\ pc' = [pc EXCEPT ![c] = "idle"] /\ who' = [who EXCEPT ![c] = Nobody]
          /\ mine' = [mine EXCEPT ![c] = NoBucket]
     ELSE pc' = [pc EXCEPT ![c] = "wait"] /\ UNCHANGED <<who, mine>>
  /\ UNCHANGED <<file, readable, rules, buckets, now, calls, fatal>>

\* retryAfter only reads; the read lock is given back.
Throttled(c) ==
  /\ ~fatal /\ pc[c] = "wait"
  /\ pc' = [pc EXCEPT ![c] = "idle"] /\ who' = [who EXCEPT ![c] = Nobody]
  /\ mine' = [mine EXCEPT ![c] = NoBucket]
  /\ UNCHANGED <<file, readable, rules, buckets, made, now, calls, fatal>>

-----------------------------------------------------------------------------
Edit ==
  /\ file < Len(Files)
  /\ file' = file + 1 /\ readable' \in BOOLEAN
  /\ UNCHANGED <<rules, buckets, made, now, call, calls, fatal>>

\* Faulty variant: the buckets are kept.
ReloadKeepsBuckets ==
  /\ ~fatal
  /\ \A c \in Calls : ~Reading(c)
  /\ rules' = IF readable THEN file ELSE rules
  /\ UNCHANGED <<file, readable, buckets, made, now, call, calls, fatal>>

\* Reload: the buckets start afresh, also when the file has not changed; one that
\* cannot be read or parsed leaves everything as it was.
Reload ==
  /\ ~fatal
  /\ \A c \in Calls : ~Reading(c)
  /\ IF readable
     THEN rules' = file /\ buckets' = [a \in Agents |-> NoBucket]
     ELSE UNCHANGED <<rules, buckets>>
  /\ UNCHANGED <<file, readable, made, now, call, calls, fatal>>

Tick ==
  /\ now < MaxNow
  /\ now' = now + 1
  /\ UNCHANGED <<file, readable, rules, buckets, made, call, calls, fatal>>

Rest ==
  /\ fatal \/ (calls = MaxCalls /\ now = MaxNow)
  /\ UNCHANGED vars

Next ==
  \/ \E c \in Calls :
       \/ \E a \in Callers : Evaluate(c, a)
       \/ FindBucket(c) \/ NewBucket(c) \/ Take(c) \/ Throttled(c)
       \/ \E d \in Calls : ConcurrentMapWrite(c, d)
  \/ Edit \/ Reload \/ Tick \/ Rest

Spec == Init /\ [][Next]_vars

-----------------------------------------------------------------------------
TypeOK ==
  /\ file \in 1..Len(Files) /\ rules \in 1..Len(Files) /\ readable \in BOOLEAN
  /\ buckets \in [Agents -> 0..Len(made)]
  /\ made \in Seq(Bucket)
  /\ now \in 0..MaxNow /\ calls \in 0..MaxCalls /\ fatal \in BOOLEAN
  /\ pc \in [Calls -> {"idle", "look", "create", "take", "wait"}]
  /\ who \in [Calls -> Callers] /\ mine \in [Calls -> 0..Len(made)]

\* A bucket never lets through more than its burst and what its rate has
\* earned since it was made, whatever the pauses between the calls
\* (config.go:167-178, 190-198).
WithinLimit ==
  \A i \in DOMAIN made :
    made[i].admitted * Unit <= made[i].max + made[i].rate * (now - made[i].born)

\* A pause, however long, earns no more than the burst (config.go:193-196).
NoHoarding == \A i \in DOMAIN made : made[i].tokens <= made[i].max

\* A throttled agent that waits as long as it was told, and one tick more where
\* the time of a token was cut down, is let through, unless another of its calls
\* took the token; a limit below one call in a burst, or without a rate, promises
\* nothing (config.go:84-91, 180-188).
CutDown(b) == IF Unit % b.rate = 0 THEN 0 ELSE 1

RetryAfterHelps ==
  \A i \in DOMAIN made :
    LET bucket == made[i] IN
    (bucket.told # Never /\ bucket.rate > 0 /\ bucket.max >= Unit
       /\ now >= bucket.told + retryAfter(bucket) + CutDown(bucket))
      => allowed(bucket)

\* The announced wait is enough by itself (engine.go:26, config.go:84-91).
RetryAfterIsEnough ==
  \A i \in DOMAIN made :
    LET bucket == made[i] IN
    (bucket.told # Never /\ bucket.rate > 0 /\ bucket.max >= Unit
       /\ now >= bucket.told + retryAfter(bucket))
      => allowed(bucket)

\* A call is limited by the rules in force, for its own agent, whatever is
\* reloaded meanwhile (config.go:52-53, 116-121).
CurrentLimits ==
  \A c \in Calls :
    pc[c] \in {"take", "wait"} =>
      made[mine[c]].agent = who[c] /\ made[mine[c]].version = rules

\* A denied agent is not waiting for a token, also when the file that denies it
\* was just loaded (config.go:60-82).
DeniedTakesNone == \A c \in Calls : Reading(c) => ~Denied(rules, who[c])

\* The limit is the agent's: it bounds what the agent gets under one set of
\* rules (engine.go:30, policy.yaml:4).
AgentLimit ==
  \A a \in Agents :
    LET own == {i \in DOMAIN made : made[i].agent = a /\ made[i].version = rules}
        admitted == MapThenSumSet(LAMBDA i : made[i].admitted, own)
    IN  own # {} => admitted * Unit <= Limit(rules, a).burst + Limit(rules, a).rate * now
=============================================================================
