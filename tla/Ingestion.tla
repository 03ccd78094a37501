------------------------------ MODULE Ingestion ------------------------------
(***************************************************************************)
(* The ingestion service: the life of the process (cmd/ingestion/main.go), *)
(* the handlers that take an event through the pipeline                    *)
(* (cmd/ingestion/pipeline.go), and the agents that send events and retry  *)
(* (EventSender of sdk/agent_transponder/client.py).                       *)
(*                                                                         *)
(* A handler is one goroutine of the gRPC server; between two of its steps *)
(* other handlers run, the client may time out and the process may shut    *)
(* down or crash.  Of store and audit log the model has the tail of each   *)
(* file: a crash or a failed write may leave a part of a line there, and   *)
(* the next line, which a later process writes and confirms, joins it and  *)
(* cannot be parsed.  What the operating system was given survives.        *)
(***************************************************************************)
EXTENDS Naturals, Sequences, FiniteSets, Functions, SequencesExt

CONSTANTS
  Events, Clients, Handlers,
  Script,         \* the events of each client, in the order they are sent
  Forged,         \* events whose HMAC does not match their content
  Invalid,        \* events validateEvent refuses
  Unencodable,    \* events json.Marshal refuses once they are redacted
  Denied,         \* clients the policy denies
  Renamed,        \* clients whose agent id differs from that of their certificate
  FileOf,         \* the file of an event in the store: its tenant's of the day
  MaxRetries,     \* cfg.max_retries
  MaxFaults,      \* bound: failed writes and starts of the model
  MaxStarts       \* bound: process starts of the model

NoHandler == "none"
NoEvent == "none"

\* The files of the store, and that of the audit log.
Files == Range(FileOf)
AuditLog == "audit log"
LogFiles == Files \cup {AuditLog}

\* Every event is sent by one client, once.
SentBy(c) == Range(Script[c])

ASSUME ScriptAssumption ==
  /\ Script \in [Clients -> Seq(Events)]
  /\ \A c \in Clients : IsInjective(Script[c])
  /\ \A c, d \in Clients : c # d => Range(Script[c]) \cap Range(Script[d]) = {}
  /\ Events = UNION {Range(Script[c]) : c \in Clients}
  /\ NoEvent \notin Events /\ NoHandler \notin Handlers
ASSUME KindsAssumption ==
  /\ Forged \subseteq Events /\ Invalid \subseteq Events /\ Unencodable \subseteq Events
  /\ Denied \subseteq Clients /\ Renamed \subseteq Clients
  /\ DOMAIN FileOf = Events /\ AuditLog \notin Files
ASSUME BoundsAssumption == MaxRetries \in Nat /\ MaxFaults \in Nat /\ MaxStarts \in Nat

SenderOf(e) == CHOOSE c \in Clients : e \in SentBy(c)

\* What initSubsystems opens, in its order.
Subsystems == <<"identity", "store", "audit", "keys", "policy", "forwarder">>

VARIABLES
  phase,      \* main: "init", "serving", "draining", "closing" or "exited"
  open,       \* the subsystems that are open
  server,     \* the gRPC server takes calls
  starts, faults,
  step,       \* each handler's position in IngestEvent
  event,      \* the event it works on
  agent,      \* the event's agent id: what the client wrote or the certificate's
  verdict,    \* its answer: "accepted" or "refused" (a rejection or an error)
  next, tries, waitsOn,  \* each client: the event it is at, attempts made, its call
  told,       \* what the client knows of each event
  stored,     \* the events of the lines of the store that can be parsed, in order
  audited,    \* events with an audit entry, of success or of denial, that can be
  submitted,  \* events given to the running forwarder
  torn,       \* files that end in a part of a line
  stuck,      \* files whose writer has failed, which is for good, or died
  joined,     \* file -> events whose line was written behind a part and joined it
  refused,    \* history: events with a refusal, and its reason
  spoilt,     \* history: events whose audit entry the disk refused
  late,       \* history: events that met a closed audit log or a stopped forwarder
  lost,       \* history: events one of whose answers was lost
  unclean     \* history: a process left the serving phase by an error path

main == <<phase, open, server, starts, unclean>>
rpc == <<step, event, agent, verdict>>
sender == <<next, tries, waitsOn, told, lost>>
files == <<torn, stuck, joined>>
disk == <<stored, audited, submitted, files>>
history == <<refused, spoilt, late>>
vars == <<main, faults, rpc, sender, disk, history>>

Running == phase \in {"serving", "draining", "closing"}
Idle(h) == step[h] = "idle"

Init ==
  /\ phase = "init" /\ open = {} /\ server = FALSE /\ unclean = FALSE
  /\ starts = 1 /\ faults = 0
  /\ step = [h \in Handlers |-> "idle"]
  /\ event = [h \in Handlers |-> NoEvent]
  /\ agent = [h \in Handlers |-> "claimed"]
  /\ verdict = [h \in Handlers |-> "accepted"]
  /\ next = [c \in Clients |-> 1] /\ tries = [c \in Clients |-> 0]
  /\ waitsOn = [c \in Clients |-> NoHandler]
  /\ told = [e \in Events |-> "pending"] /\ lost = {}
  /\ stored = <<>> /\ audited = {} /\ submitted = {}
  /\ torn = {} /\ stuck = {} /\ joined = [f \in LogFiles |-> {}]
  /\ refused = {} /\ spoilt = {} /\ late = {}

-----------------------------------------------------------------------------
(***************************************************************************)
(* main.go: initSubsystems, run, close.                                    *)
(***************************************************************************)
Fault == faults < MaxFaults /\ faults' = faults + 1

\* initSubsystems opens the next subsystem.
OpenNext ==
  /\ phase = "init" /\ Cardinality(open) < Len(Subsystems)
  /\ open' = open \cup {Subsystems[Cardinality(open) + 1]}
  /\ UNCHANGED <<phase, server, starts, unclean, faults, rpc, sender, disk, history>>

\* It cannot be opened, or the listener cannot: what is open is closed.
StartFails ==
  /\ phase = "init" /\ Fault
  /\ phase' = "closing"
  /\ UNCHANGED <<open, server, starts, unclean, rpc, sender, disk, history>>

Serve ==
  /\ phase = "init" /\ Cardinality(open) = Len(Subsystems)
  /\ phase' = "serving" /\ server' = TRUE
  /\ UNCHANGED <<open, starts, unclean, faults, rpc, sender, disk, history>>

\* A signal: GracefulStop takes no new call.
Signal ==
  /\ phase = "serving"
  /\ phase' = "draining" /\ server' = FALSE
  /\ UNCHANGED <<open, starts, unclean, faults, rpc, sender, disk, history>>

\* A listener failed: run returns, and the gRPC server goes on meanwhile.
ServerFails ==
  /\ phase = "serving" /\ Fault
  /\ phase' = "closing" /\ unclean' = TRUE
  /\ UNCHANGED <<open, server, starts, rpc, sender, disk, history>>

\* GracefulStop returns.
Drained ==
  /\ phase = "draining" /\ \A h \in Handlers : Idle(h)
  /\ phase' = "closing"
  /\ UNCHANGED <<open, server, starts, unclean, faults, rpc, sender, disk, history>>

CloseOrder == <<"forwarder", "policy", "keys", "audit", "store", "identity">>

CloseNext ==
  /\ phase = "closing"
  /\ \E i \in DOMAIN CloseOrder :
       /\ CloseOrder[i] \in open /\ \A j \in 1 .. i - 1 : CloseOrder[j] \notin open
       /\ open' = open \ {CloseOrder[i]}
  /\ UNCHANGED <<phase, server, starts, unclean, faults, rpc, sender, disk, history>>

\* The end of the process is the end of its handlers.
HandlersEnd ==
  /\ step' = [h \in Handlers |-> "idle"]
  /\ event' = [h \in Handlers |-> NoEvent]
  /\ agent' = [h \in Handlers |-> "claimed"]
  /\ verdict' = [h \in Handlers |-> "accepted"]

Exit ==
  /\ phase = "closing" /\ open = {}
  /\ phase' = "exited" /\ server' = FALSE
  /\ HandlersEnd
  /\ UNCHANGED <<open, starts, unclean, faults, sender, disk, history>>

\* The HMAC was computed over the agent id the client wrote.
Verifies(h) == event[h] \notin Forged /\ agent[h] = "claimed"

\* What handlers may be writing to.
Appends(h) == step[h] = "store" /\ event[h] \notin Unencodable
Logs(h) ==
  \/ step[h] = "policy" /\ SenderOf(event[h]) \in Denied
  \/ step[h] = "vet" /\ ~Verifies(h)
  \/ step[h] = "audit"
BeingWritten ==
  {f \in Files : "store" \in open /\ \E h \in Handlers : Appends(h) /\ f = FileOf[event[h]]}
  \cup {f \in {AuditLog} : "audit" \in open /\ \E h \in Handlers : Logs(h)}

\* One file of the store is written at a time, and the audit log.
Crash ==
  /\ phase # "exited" /\ Fault
  /\ phase' = "exited" /\ open' = {} /\ server' = FALSE
  /\ HandlersEnd
  /\ \E left \in SUBSET (BeingWritten \ stuck) :
       /\ \A f, g \in left \ {AuditLog} : f = g
       /\ torn' = torn \cup left /\ stuck' = stuck \cup left
  /\ UNCHANGED <<starts, unclean, sender, stored, audited, submitted, joined, history>>

Restart ==
  /\ phase = "exited" /\ starts < MaxStarts
  /\ phase' = "init"
  /\ starts' = starts + 1
  /\ stuck' = {}
  /\ UNCHANGED <<open, server, unclean, faults, rpc, sender, stored, audited, submitted,
                 torn, joined, history>>

-----------------------------------------------------------------------------
(***************************************************************************)
(* pipeline.go: IngestEvent, one action per stage.                         *)
(***************************************************************************)
At(h, s) == Running /\ step[h] = s
Goto(h, s) == step' = [step EXCEPT ![h] = s]

Refuse(h, why) ==
  /\ verdict' = [verdict EXCEPT ![h] = "refused"]
  /\ refused' = refused \cup {<<event[h], why>>}

\* A line of an event goes to a file whose end is whole, or joins a part.
WritesWhole(f) == f \notin torn \cup stuck /\ UNCHANGED files
WritesBehindPart(f, e) ==
  /\ f \in torn \ stuck
  /\ torn' = torn \ {f} /\ joined' = [joined EXCEPT ![f] = @ \cup {e}] /\ UNCHANGED stuck

\* The writer failed before, or does now, with a part written or nothing.
WriterFails(f) ==
  \/ f \in stuck /\ UNCHANGED <<files, faults>>
  \/ /\ f \notin stuck /\ Fault
     /\ stuck' = stuck \cup {f} /\ torn' \in {torn, torn \cup {f}} /\ UNCHANGED joined

\* The line of an event goes into the store, its entry into the audit log.
Appended(e) ==
  \/ WritesWhole(FileOf[e]) /\ stored' = Append(stored, e)
  \/ WritesBehindPart(FileOf[e], e) /\ UNCHANGED stored
Entered(e) ==
  \/ WritesWhole(AuditLog) /\ audited' = audited \cup {e}
  \/ WritesBehindPart(AuditLog, e) /\ UNCHANGED audited

\* Log writes the entry, the disk refuses it or does not sync it, or the log is
\* closed.  logAudit swallows the error.
LogAudit(e) ==
  IF "audit" \in open
  THEN \/ Entered(e) /\ UNCHANGED <<spoilt, late, faults>>
       \/ Entered(e) /\ Fault /\ spoilt' = spoilt \cup {e} /\ UNCHANGED late
       \/ WriterFails(AuditLog) /\ spoilt' = spoilt \cup {e} /\ UNCHANGED <<audited, late>>
  ELSE late' = late \cup {e} /\ UNCHANGED <<audited, spoilt, faults, files>>

\* The policy denies: an audit entry, and the answer.
Deny(h) ==
  /\ At(h, "policy") /\ SenderOf(event[h]) \in Denied
  /\ Refuse(h, "denied") /\ LogAudit(event[h])
  /\ Goto(h, "answer")
  /\ UNCHANGED <<main, event, agent, sender, stored, submitted>>

\* The agent's bucket is empty.
Throttle(h) ==
  /\ At(h, "policy") /\ SenderOf(event[h]) \notin Denied
  /\ Fault
  /\ Refuse(h, "throttled")
  /\ Goto(h, "answer")
  /\ UNCHANGED <<main, event, agent, sender, disk, spoilt, late>>

Allow(h) ==
  /\ At(h, "policy") /\ SenderOf(event[h]) \notin Denied
  /\ Goto(h, "vet")
  /\ UNCHANGED <<main, faults, event, agent, verdict, sender, disk, history>>

\* VerifyHMAC, before the identity of the certificate replaces the client's.
VerifyFails(h) ==
  /\ At(h, "vet") /\ ~Verifies(h)
  /\ Refuse(h, "hmac") /\ LogAudit(event[h])
  /\ Goto(h, "answer")
  /\ UNCHANGED <<main, event, agent, sender, stored, submitted>>

\* validateEvent refuses it.
ValidateFails(h) ==
  /\ At(h, "vet") /\ Verifies(h) /\ event[h] \in Invalid
  /\ Refuse(h, "schema")
  /\ Goto(h, "answer")
  /\ UNCHANGED <<main, faults, event, agent, sender, disk, spoilt, late>>

\* The certificate's identity is set, the event is valid, redacted and stamped.
Vetted(h) ==
  /\ At(h, "vet") /\ Verifies(h) /\ event[h] \notin Invalid
  /\ agent' = [agent EXCEPT ![h] = IF SenderOf(event[h]) \in Renamed THEN "cert" ELSE @]
  /\ Goto(h, "store")
  /\ UNCHANGED <<main, faults, event, verdict, sender, disk, history>>

\* Append fails: the store is closed, the event cannot be encoded, its file
\* cannot be opened, or its writer fails.
AppendFails(e) ==
  \/ "store" \notin open /\ UNCHANGED <<faults, files>>
  \/ e \in Unencodable /\ UNCHANGED <<faults, files>>
  \/ Fault /\ UNCHANGED files
  \/ "store" \in open /\ WriterFails(FileOf[e])

\* Faulty variant: the error of Append is logged and the event goes on.
PersistFailsQuietly(h) ==
  /\ At(h, "store")
  /\ AppendFails(event[h])
  /\ Goto(h, "audit")
  /\ UNCHANGED <<main, event, agent, verdict, sender, stored, audited, submitted, history>>

PersistFails(h) ==
  /\ At(h, "store")
  /\ AppendFails(event[h])
  /\ Refuse(h, "store")
  /\ Goto(h, "answer")
  /\ UNCHANGED <<main, event, agent, sender, stored, audited, submitted, spoilt, late>>

\* Append returns no error, also where the line joins a part of another.
Persist(h) ==
  /\ At(h, "store") /\ "store" \in open /\ event[h] \notin Unencodable
  /\ Appended(event[h])
  /\ Goto(h, "audit")
  /\ UNCHANGED <<main, faults, event, agent, verdict, sender, audited, submitted, history>>

\* Faulty variant: an audit entry that cannot be written fails the call.
AuditOrFail(h) ==
  /\ At(h, "audit")
  /\ LogAudit(event[h])
  /\ IF event[h] \in audited' \cup joined'[AuditLog]
     THEN Goto(h, "forward") /\ UNCHANGED <<verdict, refused>>
     ELSE Goto(h, "answer") /\ Refuse(h, "audit")
  /\ UNCHANGED <<main, event, agent, sender, stored, submitted>>

Audit(h) ==
  /\ At(h, "audit")
  /\ LogAudit(event[h])
  /\ Goto(h, "forward")
  /\ UNCHANGED <<main, event, agent, verdict, sender, stored, submitted, refused>>

\* Submit never waits; after Stop nobody empties the channel.
Forward(h) ==
  /\ At(h, "forward")
  /\ IF "forwarder" \in open
     THEN submitted' = submitted \cup {event[h]} /\ UNCHANGED late
     ELSE late' = late \cup {event[h]} /\ UNCHANGED submitted
  /\ Goto(h, "answer")
  /\ UNCHANGED <<main, faults, event, agent, verdict, sender, stored, audited, files,
                 refused, spoilt>>

\* The handler returns: its locals are gone.
Clear(h) ==
  /\ Goto(h, "idle") /\ event' = [event EXCEPT ![h] = NoEvent]
  /\ agent' = [agent EXCEPT ![h] = "claimed"]
  /\ verdict' = [verdict EXCEPT ![h] = "accepted"]

\* The handler returns and nobody waits for its answer any more.
Unheard(h) ==
  /\ At(h, "answer") /\ \A c \in Clients : waitsOn[c] # h
  /\ Clear(h)
  /\ UNCHANGED <<main, faults, sender, disk, history>>

Pipeline(h) ==
  \/ Deny(h) \/ Throttle(h) \/ Allow(h)
  \/ VerifyFails(h) \/ ValidateFails(h) \/ Vetted(h)
  \/ PersistFails(h) \/ Persist(h)
  \/ Audit(h) \/ Forward(h) \/ Unheard(h)

-----------------------------------------------------------------------------
(***************************************************************************)
(* client.py: _deliver_with_retry, one event at a time.                    *)
(***************************************************************************)
Waiting(c) == waitsOn[c] # NoHandler
HasMore(c) == next[c] <= Len(Script[c])
Current(c) == Script[c][next[c]]

Call(c, h) ==
  /\ server
  /\ HasMore(c) /\ ~Waiting(c)
  /\ Idle(h) /\ \A d \in Clients : waitsOn[d] # h
  /\ Goto(h, "policy")
  /\ event' = [event EXCEPT ![h] = Current(c)]
  /\ waitsOn' = [waitsOn EXCEPT ![c] = h]
  /\ UNCHANGED <<main, faults, agent, verdict, next, tries, told, lost, disk, history>>

\* The outcome of an attempt: done, one more attempt, or the event is dropped.
Settle(c, outcome) ==
  /\ told' = [told EXCEPT ![Current(c)] = outcome]
  /\ next' = [next EXCEPT ![c] = @ + 1]
  /\ tries' = [tries EXCEPT ![c] = 0]

\* Faulty variant: no limit at all.
FailedForever(c) == UNCHANGED <<tries, next, told>>

Failed(c) ==
  IF tries[c] = MaxRetries
  THEN Settle(c, "gaveUp")
  ELSE tries' = [tries EXCEPT ![c] = @ + 1] /\ UNCHANGED <<next, told>>

\* The answer arrives: the handler returns and the client goes on.
Answer(c) ==
  LET h == waitsOn[c]
  IN  /\ Waiting(c) /\ At(h, "answer")
      /\ IF verdict[h] = "accepted" THEN Settle(c, "accepted") ELSE Failed(c)
      /\ waitsOn' = [waitsOn EXCEPT ![c] = NoHandler]
      /\ Clear(h)
      /\ UNCHANGED <<main, faults, lost, disk, history>>

\* Faulty variant: a call that timed out counts as delivered.
LoseAsDelivered(c) ==
  /\ Waiting(c)
  /\ Settle(c, "accepted")
  /\ waitsOn' = [waitsOn EXCEPT ![c] = NoHandler]
  /\ lost' = lost \cup {Current(c)}
  /\ UNCHANGED <<main, faults, rpc, disk, history>>

\* The call times out or its connection breaks; its handler may go on.
Lose(c) ==
  /\ Waiting(c)
  /\ Failed(c)
  /\ waitsOn' = [waitsOn EXCEPT ![c] = NoHandler]
  /\ lost' = lost \cup {Current(c)}
  /\ UNCHANGED <<main, faults, rpc, disk, history>>

\* There is no server to call.
Unreachable(c) ==
  /\ ~server /\ HasMore(c) /\ ~Waiting(c)
  /\ Failed(c)
  /\ UNCHANGED <<main, faults, rpc, waitsOn, lost, disk, history>>

-----------------------------------------------------------------------------
Process ==
  \/ OpenNext \/ StartFails \/ Serve \/ Signal \/ ServerFails \/ Drained
  \/ CloseNext \/ Exit \/ Crash \/ Restart

Client(c) ==
  \/ \E h \in Handlers : Call(c, h)
  \/ Answer(c) \/ Lose(c) \/ Unreachable(c)

\* Nothing is left to do: the end of a behaviour, not a deadlock.
Finished ==
  /\ phase = "exited" /\ starts = MaxStarts
  /\ \A c \in Clients : ~HasMore(c)
  /\ UNCHANGED vars

Next ==
  \/ Process
  \/ \E h \in Handlers : Pipeline(h)
  \/ \E c \in Clients : Client(c)
  \/ Finished

Spec == Init /\ [][Next]_vars

(***************************************************************************)
(* The goroutines run, and every call ends: its deadline is 10 s.  A       *)
(* signal, a failure, a crash or a restart need not come.                  *)
(***************************************************************************)
FairSpec ==
  /\ Spec
  /\ WF_vars(OpenNext \/ Serve) /\ WF_vars(Drained) /\ WF_vars(CloseNext \/ Exit)
  /\ \A h \in Handlers : WF_vars(Pipeline(h))
  /\ \A c \in Clients :
       /\ WF_vars(\E h \in Handlers : Call(c, h))
       /\ WF_vars(Answer(c) \/ Lose(c)) /\ WF_vars(Unreachable(c))

-----------------------------------------------------------------------------
TypeOK ==
  /\ phase \in {"init", "serving", "draining", "closing", "exited"}
  /\ open \subseteq Range(Subsystems) /\ server \in BOOLEAN /\ unclean \in BOOLEAN
  /\ starts \in 1..(MaxStarts + 1) /\ faults \in 0..MaxFaults
  /\ step \in [Handlers -> {"idle", "policy", "vet", "store",
                             "audit", "forward", "answer"}]
  /\ event \in [Handlers -> Events \cup {NoEvent}]
  /\ agent \in [Handlers -> {"claimed", "cert"}]
  /\ verdict \in [Handlers -> {"accepted", "refused"}]
  /\ next \in [Clients -> Nat] /\ tries \in [Clients -> 0..MaxRetries]
  /\ waitsOn \in [Clients -> Handlers \cup {NoHandler}]
  /\ told \in [Events -> {"pending", "accepted", "gaveUp"}]
  /\ stored \in Seq(Events)
  /\ audited \subseteq Events /\ submitted \subseteq Events
  /\ torn \cup stuck \subseteq LogFiles
  /\ joined \in [LogFiles -> SUBSET Events]
  /\ spoilt \subseteq Events /\ late \subseteq Events /\ lost \subseteq Events
  /\ refused \subseteq Events \X {"denied", "throttled", "hmac", "schema", "store", "audit"}

\* Append has put a line of the event into the store, and Log an entry of it
\* into the audit log or failed.
InStore(e) == e \in Range(stored) \cup joined[FileOf[e]]
AuditDone(e) == e \in audited \cup joined[AuditLog] \cup spoilt \cup late

\* An event its client was told is accepted has its line in the store, its audit
\* entry unless the disk refused it, and went to the forwarder, through
\* timeouts, retries, crashes and restarts (pipeline.go:178-193).
AckedIsComplete ==
  \A e \in Events : told[e] = "accepted" =>
    /\ InStore(e)
    /\ AuditDone(e)
    /\ e \in submitted \cup late

\* A refusal for want of permission or of a valid HMAC is in the audit log
\* unless the log could not be written (pipeline.go:107, 145).
RefusalsAudited ==
  \A e \in Events :
    (<<e, "denied">> \in refused \/ <<e, "hmac">> \in refused)
      => AuditDone(e)

\* A restart makes one confirmed line of a file unreadable, at most: the first
\* behind the part the process before left there (jsonl.go:166, 223-225,
\* hashchain.go:208).
OneLossPerRestart ==
  \A f \in LogFiles :
    IsFiniteSet(joined[f]) /\ Cardinality(joined[f]) < starts

\* As long as every process ends by a signal, no handler meets a closed audit
\* log or a stopped forwarder: GracefulStop waits (main.go:273-274).
LateOnlyByError == late # {} => unclean

\* An event is in the store twice only if the answer to one of its calls was
\* lost: no refusal after the store has taken the event makes a client retry.
TwiceOnlyIfLost ==
  \A i, j \in DOMAIN stored : i # j /\ stored[i] = stored[j] => stored[i] \in lost

\* The store holds the events of a client in the order of its script, except
\* those of a call the client stopped waiting for, whose handler went on.
SendOrder ==
  \A c \in Clients : \A i, j \in DOMAIN Script[c] : \A k, l \in DOMAIN stored :
    (i < j /\ k < l /\ stored[l] = Script[c][i] /\ stored[k] = Script[c][j])
      => Script[c][i] \in lost

\* Only a lost call makes the store repeat or reorder what a client sent.
TroubleByLostCallsOnly == TwiceOnlyIfLost /\ SendOrder

\* An event signed by its client is not refused for its signature, whatever
\* identity the certificate asserts (pipeline.go:128-131, 155-159).
HonestNotRefused == \A e \in Events : <<e, "hmac">> \in refused => e \in Forged

\* What is open was opened first: subsystems close in the reverse of the order
\* they open in, also when the start fails halfway (main.go:63-65, 88-95).
OpenIsPrefix == \E n \in 0..Len(Subsystems) : open = {Subsystems[i] : i \in 1..n}

\* What is acknowledged is complete and what is refused is audited, but for one
\* line of a file with every restart; a refused signature is no signed event's,
\* and only an error exit makes a handler meet a closed subsystem, whichever
\* handlers race and wherever a process ends (pipeline.go:95-195,
\* main.go:63-95, 241-295).
AnswersAreTrue ==
  /\ AckedIsComplete /\ RefusalsAudited /\ OneLossPerRestart
  /\ HonestNotRefused /\ LateOnlyByError /\ OpenIsPrefix

\* store.go:17: "Append writes an event to the store."  A process
\* that follows a crash confirms an event whose line nobody can read.
AckedIsLegible == \A e \in Events : told[e] = "accepted" => e \in Range(stored)

\* The service delivers at least once, but for the line behind a torn one.
Swallowed == UNION {joined[f] : f \in Files}
D == INSTANCE Delivery WITH
  held <- Range(stored), torn <- torn \ {AuditLog}, swallowed <- Swallowed
AtLeastOnce == D!Spec

\* A signal ends the process although handlers and clients are at work.
SignalEnds == phase = "draining" ~> phase = "exited"

\* Every event is settled with its client in the end (client.py:301-327).
SettledInTheEnd == <>(\A e \in Events : told[e] # "pending")
=============================================================================
