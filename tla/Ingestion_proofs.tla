--------------------------- MODULE Ingestion_proofs ---------------------------
(***************************************************************************)
(* Theorems about Ingestion for every set of clients, events and handlers, *)
(* every script and every bound.                                           *)
(***************************************************************************)
EXTENDS Ingestion, FiniteSetTheorems, SequenceTheorems, TLAPS

(***************************************************************************)
(* The inductive invariant.                                                *)
(***************************************************************************)
\* The process: which subsystems are open and who may be at work in a phase.
AllIdle == \A h \in Handlers : Idle(h)

Phases ==
  /\ phase \in {"init", "exited"} => ~server /\ AllIdle
  /\ phase \in {"serving", "draining"} => open = Range(Subsystems)
  /\ phase = "draining" => ~server
  /\ phase = "exited" => open = {}
  /\ phase = "closing" /\ ~unclean => ~server /\ AllIdle

\* A handler: what the stages it has behind it have done for its event.
Done(h) == step[h] = "answer" /\ verdict[h] = "accepted"

HandlerOk(h) ==
  /\ Idle(h) => event[h] = NoEvent /\ agent[h] = "claimed"
  /\ ~Idle(h) => event[h] \in Events
  /\ verdict[h] = "refused" => step[h] = "answer"
  /\ step[h] \in {"policy", "vet"} => agent[h] = "claimed"
  /\ step[h] \in {"audit", "forward"} \/ Done(h) => InStore(event[h])
  /\ step[h] = "forward" \/ Done(h) => AuditDone(event[h])
  /\ Done(h) => event[h] \in submitted \cup late

\* A client: the handler it waits for works on its event, for it alone, and it
\* knows the outcome of the events before the one it is at, of no other.
ClientOk(c) ==
  /\ next[c] \in 1 .. Len(Script[c]) + 1
  /\ Waiting(c) => HasMore(c)
  /\ Waiting(c) /\ ~Idle(waitsOn[c]) => event[waitsOn[c]] = Current(c)
  /\ \A d \in Clients : Waiting(c) /\ waitsOn[d] = waitsOn[c] => d = c
  /\ \A i \in DOMAIN Script[c] : told[Script[c][i]] = "pending" <=> next[c] <= i

\* Nothing refuses an event whose handler is past the store.
Kept(h) == step[h] \in {"idle", "audit", "forward"} \/ Done(h)

\* The i-th event e of a client: handlers and store have it only once the client
\* is at it; while none of its calls was lost only the handler the client waits
\* for works on it, and once it is stored the client waits until it is told.
EventOk(c, i, e) ==
  /\ (\E h \in Handlers : event[h] = e) \/ e \in Range(stored) => i <= next[c]
  /\ e \notin lost =>
       /\ \A h \in Handlers : event[h] = e => next[c] = i /\ waitsOn[c] = h
       /\ e \in Range(stored) /\ next[c] = i => Waiting(c) /\ Kept(waitsOn[c])

ScriptOk == \A c \in Clients : \A i \in DOMAIN Script[c] : EventOk(c, i, Script[c][i])

\* The losses of a file: while a writer works at its end that can still lose a
\* line, there is one less than restarts.
LossOk(f) ==
  /\ IsFiniteSet(joined[f]) /\ Cardinality(joined[f]) < starts
  /\ f \in torn \ stuck => Cardinality(joined[f]) + 1 < starts

IInv ==
  /\ TypeOK /\ Phases /\ OpenIsPrefix
  /\ \A f \in LogFiles : LossOk(f)
  /\ \A h \in Handlers : HandlerOk(h)
  /\ \A c \in Clients : ClientOk(c)
  /\ ScriptOk
-----------------------------------------------------------------------------
(***************************************************************************)
(* What the script says of the events.                                     *)
(***************************************************************************)
LEMMA Scripted ==
  /\ \A c \in Clients : Script[c] \in Seq(Events) /\ Len(Script[c]) \in Nat
                        /\ DOMAIN Script[c] = 1 .. Len(Script[c])
  /\ \A c \in Clients : \A i \in DOMAIN Script[c] : Script[c][i] \in Events
  /\ \A e \in Events : \E c \in Clients : \E i \in DOMAIN Script[c] : e = Script[c][i]
<1>1. \A c \in Clients : Script[c] \in Seq(Events)
  BY ScriptAssumption
<1>2. \A c \in Clients : Len(Script[c]) \in Nat /\ DOMAIN Script[c] = 1 .. Len(Script[c])
  BY <1>1, LenProperties
<1>3. \A c \in Clients : \A i \in DOMAIN Script[c] : Script[c][i] \in Events
  BY <1>1, ElementOfSeq, <1>2
<1>4. ASSUME NEW e \in Events PROVE \E c \in Clients : \E i \in DOMAIN Script[c] : e = Script[c][i]
  BY ScriptAssumption DEF Range
<1>. QED  BY <1>1, <1>2, <1>3, <1>4

\* An event has one place in one script.
LEMMA OnePlace ==
  ASSUME NEW c \in Clients, NEW i \in DOMAIN Script[c],
         NEW d \in Clients, NEW j \in DOMAIN Script[d],
         Script[c][i] = Script[d][j]
  PROVE  c = d /\ i = j
<1>1. c = d
  BY ScriptAssumption DEF Range
<1>2. IsInjective(Script[c])
  BY ScriptAssumption
<1>. QED  BY <1>1, <1>2 DEF IsInjective

\* The event a client is at.
LEMMA AtEvent ==
  ASSUME NEW c \in Clients, ClientOk(c), HasMore(c)
  PROVE  next[c] \in DOMAIN Script[c] /\ Current(c) \in Events
<1>1. next[c] \in 1 .. Len(Script[c])
  BY Scripted DEF ClientOk, HasMore
<1>. QED  BY <1>1, Scripted DEF Current

-----------------------------------------------------------------------------
(***************************************************************************)
(* The parts of the invariant, one by one: first the types.                *)
(***************************************************************************)
LEMMA InitIInv == Init => IInv
<1>. SUFFICES ASSUME Init PROVE IInv
  OBVIOUS
<1>1. TypeOK
  <2>1. stored \in Seq(Events)
    BY DEF Init
  <2>2. /\ open \subseteq Range(Subsystems)
        /\ starts \in 1 .. MaxStarts + 1 /\ faults \in 0 .. MaxFaults
        /\ tries \in [Clients -> 0 .. MaxRetries]
    BY BoundsAssumption DEF Init
  <2>3. joined \in [LogFiles -> SUBSET Events]
    BY DEF Init, LogFiles
  <2>. QED  BY <2>1, <2>2, <2>3 DEF Init, TypeOK
<1>2. Phases
  BY DEF Init, Phases, AllIdle, Idle
<1>6. OpenIsPrefix
  <2>1. open = {Subsystems[i] : i \in 1 .. 0} /\ 0 \in 0 .. Len(Subsystems)
    BY DEF Init, Subsystems
  <2>. QED  BY <2>1 DEF OpenIsPrefix
<1>3. \A h \in Handlers : HandlerOk(h)
  BY DEF Init, HandlerOk, Idle, Done
<1>4. ASSUME NEW c \in Clients PROVE ClientOk(c)
  BY Scripted DEF Init, ClientOk, Waiting
<1>5. ASSUME NEW c \in Clients, NEW i \in DOMAIN Script[c] PROVE EventOk(c, i, Script[c][i])
  <2>1. \A h \in Handlers : event[h] # Script[c][i]
    BY Scripted, ScriptAssumption DEF Init
  <2>2. Range(stored) = {}
    BY DEF Init, Range
  <2>. QED  BY <2>1, <2>2 DEF EventOk
<1>7. ASSUME NEW f \in LogFiles PROVE LossOk(f)
  <2>1. joined[f] = {} /\ starts = 1 /\ torn = {}
    BY DEF Init, LogFiles
  <2>2. IsFiniteSet({}) /\ Cardinality({}) = 0
    BY FS_EmptySet
  <2>. QED  BY <2>1, <2>2 DEF LossOk
<1>. QED  BY <1>1, <1>2, <1>6, <1>3, <1>4, <1>5, <1>7 DEF IInv, ScriptOk

MainType ==
  /\ phase \in {"init", "serving", "draining", "closing", "exited"}
  /\ open \subseteq Range(Subsystems) /\ server \in BOOLEAN /\ unclean \in BOOLEAN
  /\ starts \in 1 .. MaxStarts + 1
RpcType ==
  /\ step \in [Handlers -> {"idle", "policy", "vet", "store", "audit", "forward", "answer"}]
  /\ event \in [Handlers -> Events \cup {NoEvent}]
  /\ agent \in [Handlers -> {"claimed", "cert"}]
  /\ verdict \in [Handlers -> {"accepted", "refused"}]
SenderType ==
  /\ next \in [Clients -> Nat] /\ tries \in [Clients -> 0 .. MaxRetries]
  /\ waitsOn \in [Clients -> Handlers \cup {NoHandler}]
  /\ told \in [Events -> {"pending", "accepted", "gaveUp"}]
  /\ lost \subseteq Events
DiskType == stored \in Seq(Events) /\ audited \subseteq Events /\ submitted \subseteq Events
FilesType == torn \cup stuck \subseteq LogFiles /\ joined \in [LogFiles -> SUBSET Events]
HistoryType ==
  /\ refused \subseteq Events \X {"denied", "throttled", "hmac", "schema", "store", "audit"}
  /\ spoilt \subseteq Events /\ late \subseteq Events
FaultsType == faults \in 0 .. MaxFaults

LEMMA TypeParts ==
  LET Parts == MainType /\ RpcType /\ SenderType /\ DiskType /\ FilesType /\ HistoryType /\ FaultsType
  IN  (TypeOK <=> Parts) /\ (TypeOK' <=> Parts')
BY Zenon DEF TypeOK, MainType, RpcType, SenderType, DiskType, FilesType, HistoryType, FaultsType

LEMMA TypeFrame ==
  /\ MainType /\ UNCHANGED main => MainType'
  /\ RpcType /\ UNCHANGED rpc => RpcType'
  /\ SenderType /\ UNCHANGED sender => SenderType'
  /\ DiskType /\ UNCHANGED disk => DiskType'
  /\ HistoryType /\ UNCHANGED history => HistoryType'
  /\ FilesType /\ UNCHANGED disk => FilesType'
  /\ FaultsType /\ UNCHANGED faults => FaultsType'
  /\ FaultsType /\ Fault => FaultsType'
BY BoundsAssumption DEF main, rpc, sender, disk, files, history, Fault,
   MainType, RpcType, SenderType, DiskType, FilesType, HistoryType, FaultsType

\* What a step does to the ends of the files: a line joins a part; writers fail
\* or die and may leave a part; or a process starts with new writers.
Tears ==
  \E left \in SUBSET LogFiles :
    /\ torn \subseteq torn' /\ torn' \subseteq torn \cup left
    /\ stuck' = stuck \cup left /\ UNCHANGED <<joined, starts>>
FileMoves ==
  \/ UNCHANGED <<files, starts>>
  \/ UNCHANGED starts /\ \E f \in LogFiles, e \in Events : WritesBehindPart(f, e)
  \/ Tears
  \/ stuck' = {} /\ starts' = starts + 1 /\ UNCHANGED <<torn, joined>>

LEMMA WriterTears ==
  ASSUME NEW f \in LogFiles, WriterFails(f), UNCHANGED starts
  PROVE  FileMoves
<1>1. CASE f \in stuck /\ UNCHANGED <<files, faults>>
  BY <1>1 DEF FileMoves
<1>2. CASE stuck' = stuck \cup {f} /\ torn' \in {torn, torn \cup {f}} /\ UNCHANGED joined
  <2>1. {f} \in SUBSET LogFiles /\ torn \subseteq torn' /\ torn' \subseteq torn \cup {f}
    BY <1>2
  <2>2. Tears
    BY <1>2, <2>1 DEF Tears
  <2>. QED  BY <2>2 DEF FileMoves
<1>. QED  BY <1>1, <1>2 DEF WriterFails

\* The files of store and audit log are in the list.
LEMMA FileKinds ==
  /\ AuditLog \in LogFiles /\ AuditLog \notin Files /\ Files \subseteq LogFiles
  /\ \A e \in Events : FileOf[e] \in Files
BY KindsAssumption DEF LogFiles, Files, Range

LEMMA LogMoves ==
  ASSUME NEW e \in Events, LogAudit(e), UNCHANGED starts
  PROVE  FileMoves
<1>1. CASE Entered(e)
  BY <1>1, FileKinds DEF Entered, WritesWhole, FileMoves
<1>2. CASE WriterFails(AuditLog)
  BY <1>2, WriterTears, FileKinds
<1>3. CASE UNCHANGED files
  BY <1>3 DEF FileMoves
<1>. QED  BY <1>1, <1>2, <1>3 DEF LogAudit

LEMMA FilesMove ==
  ASSUME IInv, [Next]_vars
  PROVE  FileMoves
<1>1. CASE Process
  <2>1. CASE OpenNext \/ StartFails \/ Serve \/ Signal \/ ServerFails \/ Drained \/ CloseNext \/ Exit
    BY <2>1 DEF OpenNext, StartFails, Serve, Signal, ServerFails, Drained, CloseNext, Exit,
       disk, FileMoves
  <2>2. CASE Crash
    <3>1. BeingWritten \subseteq LogFiles
      BY FileKinds DEF BeingWritten
    <3>2. Tears
      BY <2>2, <3>1 DEF Crash, Tears
    <3>. QED  BY <3>2 DEF FileMoves
  <2>3. CASE Restart
    BY <2>3 DEF Restart, FileMoves
  <2>. QED  BY <1>1, <2>1, <2>2, <2>3 DEF Process
<1>2. ASSUME NEW h \in Handlers, Pipeline(h) PROVE FileMoves
  <2>1. CASE Deny(h) \/ VerifyFails(h) \/ Audit(h)
    <3>1. event[h] \in Events
      BY <2>1 DEF Deny, VerifyFails, Audit, IInv, HandlerOk, At, Idle
    <3>. QED  BY <2>1, <3>1, LogMoves DEF Deny, VerifyFails, Audit, main
  <2>2. CASE Throttle(h) \/ ValidateFails(h) \/ Allow(h) \/ Vetted(h) \/ Forward(h) \/ Unheard(h)
    BY <2>2 DEF Throttle, ValidateFails, Allow, Vetted, Forward, Unheard, disk, main, FileMoves
  <2>3. CASE PersistFails(h) \/ Persist(h)
    <3>1. event[h] \in Events /\ FileOf[event[h]] \in LogFiles
      BY <2>3, FileKinds DEF PersistFails, Persist, IInv, HandlerOk, At, Idle
    <3>2. UNCHANGED starts
      BY <2>3 DEF PersistFails, Persist, main
    <3>3. CASE PersistFails(h)
      BY <3>1, <3>2, <3>3, WriterTears DEF PersistFails, AppendFails, FileMoves
    <3>4. CASE Persist(h)
      BY <3>1, <3>2, <3>4 DEF Persist, Appended, WritesWhole, FileMoves
    <3>. QED  BY <2>3, <3>3, <3>4
  <2>. QED  BY <1>2, <2>1, <2>2, <2>3 DEF Pipeline
<1>3. ASSUME NEW c \in Clients, Client(c) PROVE FileMoves
  BY <1>3 DEF Client, Call, Answer, Lose, Unreachable, disk, main, FileMoves
<1>4. CASE UNCHANGED vars
  BY <1>4 DEF vars, disk, main, FileMoves
<1>. QED  BY <1>1, <1>2, <1>3, <1>4 DEF Next, Finished

LEMMA FilesTypeStep ==
  ASSUME FilesType, FileMoves
  PROVE  FilesType'
BY DEF FilesType, FileMoves, files, WritesBehindPart, Tears

LEMMA LossesStep ==
  ASSUME FilesType, FileMoves, starts \in Nat, NEW f \in LogFiles, LossOk(f)
  PROVE  LossOk(f)'
<1>1. IsFiniteSet(joined[f]) /\ Cardinality(joined[f]) \in Nat
  BY FS_CardinalityType DEF LossOk
<1>2. CASE UNCHANGED <<files, starts>>
  BY <1>2 DEF LossOk, files
<1>3. ASSUME UNCHANGED starts, NEW g \in LogFiles, NEW e \in Events, WritesBehindPart(g, e)
      PROVE  LossOk(f)'
  <2>1. CASE f # g
    <3>1. joined'[f] = joined[f] /\ (f \in torn' \ stuck' => f \in torn \ stuck)
      BY <1>3, <2>1 DEF WritesBehindPart, FilesType
    <3>. QED  BY <1>3, <3>1 DEF LossOk
  <2>2. CASE f = g
    <3>1. joined'[f] = joined[f] \cup {e} /\ f \notin torn' /\ f \in torn \ stuck
      BY <1>3, <2>2 DEF WritesBehindPart, FilesType
    <3>2. /\ IsFiniteSet(joined[f] \cup {e})
          /\ Cardinality(joined[f] \cup {e}) \in {Cardinality(joined[f]), Cardinality(joined[f]) + 1}
      BY <1>1, FS_AddElement
    <3>. QED  BY <1>1, <1>3, <3>1, <3>2 DEF LossOk
  <2>. QED  BY <2>1, <2>2
<1>4. CASE Tears
  <2>1. joined' = joined /\ starts' = starts /\ (f \in torn' \ stuck' => f \in torn \ stuck)
    BY <1>4 DEF Tears
  <2>. QED  BY <2>1 DEF LossOk
<1>5. CASE stuck' = {} /\ starts' = starts + 1 /\ UNCHANGED <<torn, joined>>
  BY <1>1, <1>5 DEF LossOk
<1>. QED  BY <1>2, <1>3, <1>4, <1>5 DEF FileMoves

\* The process opens and closes subsystems from the list.
LEMMA Six == IsFiniteSet(Range(Subsystems)) /\ Cardinality(Range(Subsystems)) = 6
<1>. DEFINE A == {"forwarder"}    B == A \cup {"policy"}    C == B \cup {"keys"}
            E == C \cup {"audit"}   F == E \cup {"store"}     G == F \cup {"identity"}
<1>1. IsFiniteSet(A) /\ Cardinality(A) = 1
  BY FS_Singleton
<1>2. IsFiniteSet(B) /\ Cardinality(B) = 2
  BY <1>1, FS_AddElement, "policy" \notin A
<1>3. IsFiniteSet(C) /\ Cardinality(C) = 3
  BY <1>2, FS_AddElement, "keys" \notin B
<1>4. IsFiniteSet(E) /\ Cardinality(E) = 4
  BY <1>3, FS_AddElement, "audit" \notin C
<1>5. IsFiniteSet(F) /\ Cardinality(F) = 5
  BY <1>4, FS_AddElement, "store" \notin E
<1>6. IsFiniteSet(G) /\ Cardinality(G) = 6
  BY <1>5, FS_AddElement, "identity" \notin F
<1>7. Range(Subsystems) = G
  BY DEF Range, Subsystems
<1>. QED  BY <1>6, <1>7

LEMMA ProcessType ==
  ASSUME TypeOK, Process, FilesType'
  PROVE  TypeOK'
<1>. USE TypeParts, TypeFrame
<1>1. CASE OpenNext
  <2>1. Cardinality(open) \in Nat
    BY Six, FS_Subset, FS_CardinalityType DEF MainType
  <2>2. Cardinality(open) + 1 \in DOMAIN Subsystems
    BY <1>1, <2>1 DEF OpenNext, Subsystems
  <2>3. MainType'
    BY <1>1, <2>2 DEF OpenNext, MainType, Range
  <2>. QED  BY <1>1, <2>3 DEF OpenNext
<1>2. CASE StartFails \/ Serve \/ Signal \/ ServerFails \/ Drained
  <2>1. MainType'
    BY <1>2 DEF MainType, StartFails, Serve, Signal, ServerFails, Drained
  <2>. QED  BY <1>2, <2>1 DEF StartFails, Serve, Signal, ServerFails, Drained
<1>3. CASE CloseNext
  <2>1. MainType'
    BY <1>3 DEF MainType, CloseNext
  <2>. QED  BY <1>3, <2>1 DEF CloseNext
<1>4. CASE Exit \/ Crash
  <2>1. MainType'
    BY <1>4 DEF MainType, Exit, Crash
  <2>2. RpcType'
    BY <1>4 DEF RpcType, Exit, Crash, HandlersEnd
  <2>3. DiskType'
    BY <1>4 DEF DiskType, Exit, Crash, disk
  <2>. QED  BY <1>4, <2>1, <2>2, <2>3 DEF Exit, Crash
<1>5. CASE Restart
  <2>1. MainType'
    BY <1>5, BoundsAssumption DEF MainType, Restart
  <2>2. DiskType'
    BY <1>5 DEF DiskType, Restart
  <2>. QED  BY <1>5, <2>1, <2>2 DEF Restart
<1>. QED  BY <1>1, <1>2, <1>3, <1>4, <1>5 DEF Process

\* A handler at work has an event.
LEMMA AtWork ==
  ASSUME IInv, NEW h \in Handlers, NEW s, At(h, s), s # "idle"
  PROVE  event[h] \in Events
BY DEF IInv, HandlerOk, At, Idle

LEMMA LogAuditType ==
  ASSUME HistoryType, DiskType, FaultsType, NEW e \in Events, LogAudit(e)
  PROVE  /\ audited' \subseteq Events /\ spoilt' \subseteq Events /\ late' \subseteq Events
         /\ FaultsType'
BY TypeFrame DEF LogAudit, Entered, WritesWhole, WritesBehindPart, WriterFails, HistoryType, DiskType

LEMMA PipelineType ==
  ASSUME IInv, NEW h \in Handlers, Pipeline(h), FilesType'
  PROVE  TypeOK'
<1>. USE TypeParts, TypeFrame DEF IInv
<1>a. /\ HistoryType /\ event[h] \in Events
      /\ \E why \in {"denied", "throttled", "hmac", "schema", "store"} : Refuse(h, why)
      /\ spoilt' \subseteq Events /\ late' \subseteq Events
      => HistoryType'
  BY DEF HistoryType, Refuse
<1>b. /\ RpcType /\ UNCHANGED <<event, agent>>
      /\ \E s \in {"policy", "vet", "store", "audit", "forward", "answer"} : Goto(h, s)
      /\ UNCHANGED verdict \/ verdict' = [verdict EXCEPT ![h] = "refused"]
      => RpcType'
  BY DEF RpcType, Goto
<1>1. CASE Deny(h) \/ VerifyFails(h)
  <2>1. event[h] \in Events
    BY <1>1, AtWork DEF Deny, VerifyFails
  <2>2. /\ audited' \subseteq Events /\ spoilt' \subseteq Events /\ late' \subseteq Events
        /\ FaultsType'
    BY <1>1, <2>1, LogAuditType DEF Deny, VerifyFails
  <2>3. DiskType'
    BY <1>1, <2>2 DEF DiskType, Deny, VerifyFails
  <2>4. HistoryType'
    BY <1>1, <1>a, <2>1, <2>2 DEF Deny, VerifyFails
  <2>5. RpcType'
    BY <1>1, <1>b DEF Deny, VerifyFails, Refuse
  <2>. QED  BY <1>1, <2>2, <2>3, <2>4, <2>5 DEF Deny, VerifyFails
<1>2. CASE Throttle(h) \/ ValidateFails(h) \/ PersistFails(h)
  <2>1. event[h] \in Events
    BY <1>2, AtWork DEF Throttle, ValidateFails, PersistFails
  <2>2. HistoryType'
    BY <1>2, <1>a, <2>1 DEF Throttle, ValidateFails, PersistFails, HistoryType
  <2>3. RpcType'
    BY <1>2, <1>b DEF Throttle, ValidateFails, PersistFails, Refuse
  <2>4. DiskType' /\ FaultsType'
    BY <1>2 DEF Throttle, ValidateFails, PersistFails, AppendFails, WriterFails, DiskType, disk
  <2>. QED  BY <1>2, <2>2, <2>3, <2>4 DEF Throttle, ValidateFails, PersistFails
<1>3. CASE Allow(h)
  BY <1>3, <1>b DEF Allow
<1>4. CASE Vetted(h)
  <2>1. RpcType'
    BY <1>4 DEF Vetted, RpcType, Goto
  <2>. QED  BY <1>4, <2>1 DEF Vetted
<1>5. CASE Persist(h)
  <2>1. DiskType'
    BY <1>5, AtWork DEF Persist, Appended, DiskType
  <2>. QED  BY <1>5, <1>b, <2>1 DEF Persist
<1>6. CASE Audit(h)
  <2>1. event[h] \in Events
    BY <1>6, AtWork DEF Audit
  <2>2. /\ audited' \subseteq Events /\ spoilt' \subseteq Events /\ late' \subseteq Events
        /\ FaultsType'
    BY <1>6, <2>1, LogAuditType DEF Audit
  <2>3. DiskType' /\ HistoryType'
    BY <1>6, <2>2 DEF DiskType, HistoryType, Audit
  <2>. QED  BY <1>6, <1>b, <2>2, <2>3 DEF Audit
<1>7. CASE Forward(h)
  <2>1. event[h] \in Events
    BY <1>7, AtWork DEF Forward
  <2>2. DiskType' /\ HistoryType'
    BY <1>7, <2>1 DEF DiskType, HistoryType, Forward
  <2>. QED  BY <1>7, <1>b, <2>2 DEF Forward
<1>8. CASE Unheard(h)
  <2>1. RpcType'
    BY <1>8 DEF Unheard, Clear, RpcType, Goto
  <2>. QED  BY <1>8, <2>1 DEF Unheard
<1>. QED  BY <1>1, <1>2, <1>3, <1>4, <1>5, <1>6, <1>7, <1>8 DEF Pipeline

LEMMA ClientType ==
  ASSUME IInv, NEW c \in Clients, Client(c), FilesType'
  PROVE  TypeOK'
<1>. USE TypeParts, TypeFrame DEF IInv
<1>a. HasMore(c) => Current(c) \in Events
  BY AtEvent
<1>b. Waiting(c) => HasMore(c)
  BY DEF ClientOk
<1>c. /\ SenderType /\ HasMore(c)
      /\ Failed(c) \/ Settle(c, "accepted")
      => /\ next' \in [Clients -> Nat] /\ tries' \in [Clients -> 0 .. MaxRetries]
         /\ told' \in [Events -> {"pending", "accepted", "gaveUp"}]
  BY <1>a, BoundsAssumption DEF SenderType, Failed, Settle
<1>1. ASSUME NEW h \in Handlers, Call(c, h) PROVE TypeOK'
  <2>1. RpcType'
    BY <1>1, <1>a DEF Call, RpcType, Goto
  <2>2. SenderType'
    BY <1>1 DEF Call, SenderType
  <2>. QED  BY <1>1, <2>1, <2>2 DEF Call
<1>2. CASE Answer(c)
  <2>1. waitsOn[c] \in Handlers
    BY <1>2 DEF Answer, Waiting, SenderType
  <2>2. RpcType'
    BY <1>2, <2>1 DEF Answer, Clear, Goto, RpcType
  <2>3. SenderType'
    BY <1>2, <1>b, <1>c DEF Answer, SenderType
  <2>. QED  BY <1>2, <2>2, <2>3 DEF Answer
<1>3. CASE Lose(c)
  <2>1. SenderType'
    BY <1>3, <1>a, <1>b, <1>c DEF Lose, SenderType
  <2>. QED  BY <1>3, <2>1 DEF Lose
<1>4. CASE Unreachable(c)
  <2>1. SenderType'
    BY <1>4, <1>c DEF Unreachable, SenderType
  <2>. QED  BY <1>4, <2>1 DEF Unreachable
<1>. QED  BY <1>1, <1>2, <1>3, <1>4 DEF Client

LEMMA TypeStep ==
  ASSUME IInv, [Next]_vars
  PROVE  TypeOK'
<1>1. TypeOK
  BY DEF IInv
<1>2. CASE UNCHANGED vars
  BY <1>1, <1>2, TypeParts, TypeFrame DEF vars
<1>3. FilesType'
  BY FilesMove, FilesTypeStep, TypeParts, <1>1
<1>. QED  BY <1>1, <1>2, <1>3, ProcessType, PipelineType, ClientType DEF Next, Finished
-----------------------------------------------------------------------------
(***************************************************************************)
(* The phases of the process and the order of its subsystems.              *)
(***************************************************************************)
LEMMA AllOpen ==
  ASSUME MainType, Cardinality(open) = Len(Subsystems)
  PROVE  open = Range(Subsystems)
<1>1. Len(Subsystems) = 6
  BY DEF Subsystems
<1>. QED  BY <1>1, Six, FS_Subset DEF MainType

LEMMA PhasesStep ==
  ASSUME IInv, [Next]_vars
  PROVE  Phases'
<1>. USE DEF main, rpc
<1>1. Phases /\ MainType
  BY TypeParts DEF IInv
<1>2. ASSUME Process PROVE Phases'
  <2>1. CASE OpenNext \/ StartFails \/ Signal \/ ServerFails \/ Drained \/ CloseNext
    BY <1>1, <2>1 DEF Phases, AllIdle, Idle, MainType,
       OpenNext, StartFails, Signal, ServerFails, Drained, CloseNext
  <2>2. CASE Serve
    BY <1>1, <2>2, AllOpen DEF Phases, AllIdle, Idle, Serve
  <2>3. CASE Exit \/ Crash \/ Restart
    BY <1>1, <2>3 DEF Phases, AllIdle, Idle, MainType, Exit, Crash, HandlersEnd, Restart
  <2>. QED  BY <1>2, <2>1, <2>2, <2>3 DEF Process
<1>3. ASSUME NEW h \in Handlers, Pipeline(h) PROVE Phases'
  <2>1. UNCHANGED main /\ Running /\ step[h] # "idle"
    BY <1>3 DEF Pipeline, At, Deny, Throttle, Allow, VerifyFails, ValidateFails, Vetted,
       PersistFails, Persist, Audit, Forward, Unheard
  <2>2. ~AllIdle
    BY <2>1 DEF AllIdle, Idle
  <2>. QED  BY <1>1, <2>1, <2>2 DEF Phases, Running
<1>4. ASSUME NEW c \in Clients, Client(c) PROVE Phases'
  <2>1. ASSUME NEW h \in Handlers, Call(c, h) PROVE Phases'
    BY <1>1, <2>1 DEF Phases, Call
  <2>2. CASE Answer(c)
    <3>1. UNCHANGED main /\ Running /\ step[waitsOn[c]] # "idle" /\ waitsOn[c] \in Handlers
      BY <2>2, TypeParts DEF Answer, At, Waiting, IInv, SenderType
    <3>2. ~AllIdle
      BY <3>1 DEF AllIdle, Idle
    <3>. QED  BY <1>1, <3>1, <3>2 DEF Phases, Running
  <2>3. CASE Lose(c) \/ Unreachable(c)
    BY <1>1, <2>3 DEF Phases, AllIdle, Idle, Lose, Unreachable
  <2>. QED  BY <1>4, <2>1, <2>2, <2>3 DEF Client
<1>5. CASE UNCHANGED vars
  BY <1>1, <1>5 DEF Phases, AllIdle, Idle, vars
<1>. QED  BY <1>2, <1>3, <1>4, <1>5 DEF Next, Finished

\* The first n subsystems.
Opened(n) == {Subsystems[i] : i \in 1 .. n}

LEMMA OpenedSize ==
  ASSUME NEW n \in 0 .. 6
  PROVE  Cardinality(Opened(n)) = n
<1>1. IsFiniteSet(1 .. n) /\ Cardinality(1 .. n) = n
  <2>1. IsFiniteSet(1 .. n) /\ Cardinality(1 .. n) = IF 1 > n THEN 0 ELSE n - 1 + 1
    BY FS_Interval, 1 \in Int, n \in Int
  <2>. QED  BY <2>1
<1>. DEFINE f == [i \in 1 .. n |-> Subsystems[i]]
<1>2. f \in Bijection(1 .. n, Opened(n))
  <2>1. ASSUME NEW i \in 1 .. n, NEW j \in 1 .. n, Subsystems[i] = Subsystems[j] PROVE i = j
    BY <2>1 DEF Subsystems
  <2>. QED  BY <2>1 DEF Opened, Bijection, Injection, Surjection, IsInjective
<1>3. ExistsBijection(1 .. n, Opened(n))
  BY <1>2 DEF ExistsBijection
<1>. QED  BY <1>1, <1>3, FS_Bijection

LEMMA PrefixStep ==
  ASSUME IInv, [Next]_vars
  PROVE  OpenIsPrefix'
<1>. DEFINE P(S) == \E n \in 0 .. 6 : S = Opened(n)
<1>. SUFFICES P(open')
  BY DEF OpenIsPrefix, Opened, Subsystems
<1>1. P(open)
  BY DEF IInv, OpenIsPrefix, Opened, Subsystems
<1>2. CASE OpenNext
  <2>1. PICK n \in 0 .. 6 : open = Opened(n)
    BY <1>1
  <2>2. n < 6 /\ open' = Opened(n) \cup {Subsystems[n + 1]}
    BY <1>2, <2>1, OpenedSize DEF OpenNext, Subsystems
  <2>3. open' = Opened(n + 1)
    BY <2>2 DEF Opened
  <2>. QED  BY <2>2, <2>3
<1>3. CASE CloseNext
  <2>1. PICK n \in 0 .. 6 : open = Opened(n)
    BY <1>1
  <2>2. PICK i \in 1 .. 6 : /\ CloseOrder[i] \in open
                            /\ \A j \in 1 .. i - 1 : CloseOrder[j] \notin open
                            /\ open' = open \ {CloseOrder[i]}
    BY <1>3 DEF CloseNext, CloseOrder
  <2>3. \A k \in 1 .. 6 : CloseOrder[k] = Subsystems[7 - k]
    BY DEF CloseOrder, Subsystems
  <2>4. i = 7 - n
    <3>1. \A k \in 1 .. 6 : CloseOrder[k] \in open <=> 7 - k <= n
      BY <2>1, <2>3 DEF Opened, Subsystems
    <3>. QED  BY <2>2, <3>1
  <2>5. open' = Opened(n - 1)
    BY <2>1, <2>2, <2>3, <2>4 DEF Opened, Subsystems
  <2>. QED  BY <2>4, <2>5
<1>4. CASE Exit \/ Crash
  <2>1. open' = Opened(0)
    BY <1>4 DEF Exit, Crash, Opened
  <2>. QED  BY <2>1
<1>5. CASE \/ StartFails \/ Serve \/ Signal \/ ServerFails \/ Drained \/ Restart \/ UNCHANGED vars
           \/ \E h \in Handlers : Pipeline(h)
           \/ \E c \in Clients : Client(c)
  <2>1. UNCHANGED open
    BY <1>5 DEF StartFails, Serve, Signal, ServerFails, Drained, Restart, vars, main,
       Pipeline, Deny, Throttle, Allow, VerifyFails, ValidateFails, Vetted,
       PersistFails, Persist, Audit, Forward, Unheard,
       Client, Call, Answer, Lose, Unreachable
  <2>. QED  BY <1>1, <2>1
<1>. HIDE DEF P
<1>. QED  BY <1>2, <1>3, <1>4, <1>5 DEF Next, Process, Finished
-----------------------------------------------------------------------------
(***************************************************************************)
(* The handlers: what they have done stays done.                           *)
(***************************************************************************)
LEMMA AppendRange ==
  ASSUME NEW s \in Seq(Events), NEW e \in Events
  PROVE  /\ Len(s) \in Nat /\ DOMAIN s = 1 .. Len(s)
         /\ Append(s, e) \in Seq(Events) /\ Len(Append(s, e)) = Len(s) + 1
         /\ DOMAIN Append(s, e) = 1 .. Len(s) + 1
         /\ \A i \in 1 .. Len(s) : Append(s, e)[i] = s[i]
         /\ Append(s, e)[Len(s) + 1] = e
         /\ Range(Append(s, e)) = Range(s) \cup {e}
<1>1. Len(s) \in Nat /\ DOMAIN s = 1 .. Len(s)
  BY LenProperties
<1>2. /\ Append(s, e) \in Seq(Events) /\ Len(Append(s, e)) = Len(s) + 1
      /\ DOMAIN Append(s, e) = 1 .. Len(s) + 1
      /\ \A i \in 1 .. Len(s) : Append(s, e)[i] = s[i]
      /\ Append(s, e)[Len(s) + 1] = e
  BY <1>1, AppendProperties, LenProperties
<1>3. Range(Append(s, e)) = Range(s) \cup {e}
  BY <1>1, <1>2 DEF Range
<1>. QED  BY <1>1, <1>2, <1>3

Grows ==
  /\ Range(stored) \subseteq Range(stored)'
  /\ \A e \in Events : InStore(e) => InStore(e)'
  /\ \A e \in Events : AuditDone(e) => AuditDone(e)'
  /\ submitted \cup late \subseteq (submitted \cup late)'
  /\ lost \subseteq lost'

\* No step takes an event out of a store, a log or a history.
LEMMA EverGrowing ==
  ASSUME IInv, [Next]_vars
  PROVE  Grows
<1>. DEFINE Seen ==
       /\ Range(stored) \subseteq Range(stored)'
       /\ audited \cup spoilt \cup late \subseteq (audited \cup spoilt \cup late)'
       /\ submitted \cup late \subseteq (submitted \cup late)'
       /\ lost \subseteq lost'
<1>a. ASSUME NEW f \in LogFiles PROVE joined[f] \subseteq joined'[f]
  BY FilesMove, TypeParts DEF IInv, FileMoves, files, WritesBehindPart, Tears, FilesType
<1>b. SUFFICES Seen
  BY <1>a, FileKinds DEF Grows, InStore, AuditDone
<1>. USE DEF disk, history, sender
<1>1. ASSUME Process PROVE Seen
  BY <1>1 DEF Process, OpenNext, StartFails, Serve, Signal, ServerFails, Drained,
     CloseNext, Exit, Crash, Restart
<1>2. ASSUME NEW h \in Handlers, Pipeline(h) PROVE Seen
  <2>1. CASE Deny(h) \/ VerifyFails(h) \/ Audit(h)
    BY <2>1 DEF Deny, VerifyFails, Audit, LogAudit, Entered
  <2>2. CASE Throttle(h) \/ ValidateFails(h) \/ PersistFails(h) \/ Allow(h) \/ Vetted(h) \/ Unheard(h)
    BY <2>2 DEF Throttle, ValidateFails, PersistFails, Allow, Vetted, Unheard
  <2>3. CASE Persist(h)
    <3>1. event[h] \in Events
      BY <2>3, AtWork DEF Persist
    <3>2. Range(Append(stored, event[h])) = Range(stored) \cup {event[h]}
      BY <3>1, AppendRange DEF IInv, TypeOK
    <3>. QED  BY <2>3, <3>2 DEF Persist, Appended
  <2>4. CASE Forward(h)
    BY <2>4 DEF Forward
  <2>. QED  BY <1>2, <2>1, <2>2, <2>3, <2>4 DEF Pipeline
<1>3. ASSUME NEW c \in Clients, Client(c) PROVE Seen
  BY <1>3 DEF Client, Call, Answer, Lose, Unreachable
<1>4. CASE UNCHANGED vars
  BY <1>4 DEF vars
<1>. QED  BY <1>1, <1>2, <1>3, <1>4 DEF Next, Finished

SameHandler(g) ==
  /\ step'[g] = step[g] /\ event'[g] = event[g]
  /\ agent'[g] = agent[g] /\ verdict'[g] = verdict[g]

LEMMA StaysOk ==
  ASSUME NEW g \in Handlers, HandlerOk(g), Grows, SameHandler(g)
  PROVE  HandlerOk(g)'
<1>1. event[g] \in Events => /\ InStore(event[g]) => InStore(event[g])'
                             /\ AuditDone(event[g]) => AuditDone(event[g])'
  BY DEF Grows, SameHandler, InStore, AuditDone
<1>. QED  BY <1>1 DEF HandlerOk, Grows, SameHandler, Idle, Done
\* A stage touches its own handler only.
LEMMA OthersRest ==
  ASSUME IInv, NEW h \in Handlers, Pipeline(h), NEW g \in Handlers, g # h
  PROVE  SameHandler(g)
BY DEF SameHandler, Pipeline, Deny, Throttle, Allow, VerifyFails, ValidateFails, Vetted,
   PersistFails, Persist, Audit, Forward, Unheard, Clear, Goto, Refuse, IInv, TypeOK

\* After LogAudit its event is in the log, spoilt or late.
LEMMA Logged ==
  ASSUME FilesType, NEW e \in Events, LogAudit(e)
  PROVE  AuditDone(e)'
BY FileKinds DEF LogAudit, Entered, WritesBehindPart, FilesType, AuditDone

\* After Append its event is in the store.
LEMMA Persisted ==
  ASSUME FilesType, stored \in Seq(Events), NEW e \in Events, Appended(e)
  PROVE  InStore(e)'
<1>1. CASE WritesWhole(FileOf[e]) /\ stored' = Append(stored, e)
  BY <1>1, AppendRange DEF InStore
<1>2. CASE WritesBehindPart(FileOf[e], e)
  BY <1>2, FileKinds DEF WritesBehindPart, FilesType, InStore
<1>. QED  BY <1>1, <1>2 DEF Appended

LEMMA PipelineHandler ==
  ASSUME IInv, NEW h \in Handlers, Pipeline(h), Grows
  PROVE  HandlerOk(h)'
<1>. USE DEF Goto, Refuse, At, Idle, Done
<1>1. HandlerOk(h) /\ RpcType /\ FilesType
  BY TypeParts DEF IInv
<1>2. step[h] # "idle" => event[h] \in Events
  BY <1>1 DEF HandlerOk
<1>a. event'[h] = event[h] /\ event[h] \in Events =>
        /\ InStore(event[h]) => InStore(event[h])'
        /\ AuditDone(event[h]) => AuditDone(event[h])'
  BY DEF Grows, InStore, AuditDone
<1>3. CASE Deny(h) \/ Throttle(h) \/ VerifyFails(h) \/ ValidateFails(h) \/ PersistFails(h)
  <2>1. step'[h] = "answer" /\ verdict'[h] = "refused" /\ event'[h] = event[h] /\ step[h] # "idle"
    BY <1>1, <1>3 DEF RpcType, Deny, Throttle, VerifyFails, ValidateFails, PersistFails
  <2>. QED  BY <1>2, <2>1 DEF HandlerOk
<1>4. CASE Allow(h)
  BY <1>1, <1>2, <1>4 DEF HandlerOk, RpcType, Allow
<1>5. CASE Vetted(h)
  BY <1>1, <1>2, <1>5 DEF HandlerOk, RpcType, Vetted
<1>6. CASE Persist(h)
  <2>1. event'[h] = event[h] /\ event[h] \in Events
    BY <1>2, <1>6 DEF Persist
  <2>2. Appended(event[h]) /\ stored \in Seq(Events)
    BY <1>6 DEF Persist, IInv, TypeOK
  <2>4. InStore(event[h])'
    BY <1>1, <2>1, <2>2, Persisted DEF InStore
  <2>. QED  BY <1>1, <1>6, <2>1, <2>4 DEF HandlerOk, RpcType, Persist
<1>7. CASE Audit(h)
  <2>1. event'[h] = event[h] /\ event[h] \in Events /\ AuditDone(event[h])' /\ InStore(event[h])'
    <3>1. event'[h] = event[h] /\ event[h] \in Events /\ LogAudit(event[h]) /\ InStore(event[h])
      BY <1>1, <1>2, <1>7 DEF HandlerOk, Audit
    <3>2. AuditDone(event[h])'
      BY <1>1, <3>1, Logged DEF AuditDone
    <3>. QED  BY <1>a, <3>1, <3>2
  <2>. QED  BY <1>1, <1>7, <2>1 DEF HandlerOk, RpcType, Audit
<1>8. CASE Forward(h)
  <2>1. event'[h] = event[h] /\ event[h] \in (submitted \cup late)'
    BY <1>8 DEF Forward
  <2>2. InStore(event[h])' /\ AuditDone(event[h])'
    BY <1>1, <1>2, <1>8, <1>a, <2>1 DEF Forward, HandlerOk
  <2>. QED  BY <1>1, <1>2, <1>8, <2>1, <2>2 DEF HandlerOk, RpcType, Forward
<1>9. CASE Unheard(h)
  BY <1>1, <1>9 DEF HandlerOk, RpcType, Unheard, Clear
<1>. QED  BY <1>3, <1>4, <1>5, <1>6, <1>7, <1>8, <1>9 DEF Pipeline

LEMMA HandlersStep ==
  ASSUME IInv, [Next]_vars, NEW g \in Handlers
  PROVE  HandlerOk(g)'
<1>1. HandlerOk(g) /\ RpcType /\ Grows
  BY TypeParts, EverGrowing DEF IInv
<1>2. CASE Exit \/ Crash
  BY <1>2 DEF Exit, Crash, HandlersEnd, HandlerOk, Idle, Done
<1>3. CASE \/ OpenNext \/ StartFails \/ Serve \/ Signal \/ ServerFails \/ Drained \/ CloseNext
           \/ Restart \/ UNCHANGED vars
           \/ \E c \in Clients : Lose(c) \/ Unreachable(c)
  <2>1. SameHandler(g)
    BY <1>3 DEF SameHandler, OpenNext, StartFails, Serve, Signal, ServerFails, Drained, CloseNext,
       Restart, Lose, Unreachable, vars, rpc
  <2>. QED  BY <1>1, <2>1, StaysOk
<1>4. ASSUME NEW h \in Handlers, Pipeline(h) PROVE HandlerOk(g)'
  BY <1>1, <1>4, OthersRest, StaysOk, PipelineHandler
<1>5. ASSUME NEW c \in Clients, NEW h \in Handlers, Call(c, h) PROVE HandlerOk(g)'
  <2>1. CASE g # h
    BY <1>1, <1>5, <2>1, StaysOk DEF Call, Goto, SameHandler, RpcType
  <2>2. CASE g = h
    <3>1. Current(c) \in Events
      BY <1>5, AtEvent DEF Call, IInv
    <3>. QED  BY <1>1, <1>5, <2>2, <3>1 DEF Call, Goto, HandlerOk, RpcType, Idle, Done
  <2>. QED  BY <2>1, <2>2
<1>6. ASSUME NEW c \in Clients, Answer(c) PROVE HandlerOk(g)'
  <2>1. CASE g # waitsOn[c]
    BY <1>1, <1>6, <2>1, StaysOk DEF Answer, Clear, Goto, SameHandler, RpcType
  <2>2. CASE g = waitsOn[c]
    BY <1>1, <1>6, <2>2 DEF Answer, Clear, Goto, HandlerOk, RpcType, Idle, Done
  <2>. QED  BY <2>1, <2>2
<1>. QED  BY <1>2, <1>3, <1>4, <1>5, <1>6 DEF Next, Process, Client, Finished
-----------------------------------------------------------------------------
(***************************************************************************)
(* The clients: what they wait for and what they know.                     *)
(***************************************************************************)
Knows(c) == \A i \in DOMAIN Script[c] : told[Script[c][i]] = "pending" <=> next[c] <= i

\* The end of an attempt leaves the client at its event or moves it to the next.
LEMMA AttemptEnds ==
  ASSUME IInv, NEW c \in Clients, HasMore(c), Failed(c) \/ Settle(c, "accepted")
  PROVE  /\ next[c] \in DOMAIN Script[c]
         /\ next'[c] \in {next[c], next[c] + 1} /\ next'[c] \in 1 .. Len(Script[c]) + 1
         /\ \A d \in Clients : d # c => next'[d] = next[d]
         /\ \A d \in Clients : Knows(d)'
<1>1. SenderType /\ next[c] \in DOMAIN Script[c] /\ \A d \in Clients : Knows(d)
  BY TypeParts, AtEvent DEF IInv, ClientOk, Knows
<1>2. next[c] \in 1 .. Len(Script[c]) /\ Len(Script[c]) \in Nat
  BY <1>1, Scripted
<1>3. CASE UNCHANGED <<next, told>>
  BY <1>1, <1>2, <1>3 DEF Knows
<1>4. ASSUME NEW o \in {"accepted", "gaveUp"}, Settle(c, o)
      PROVE  /\ next'[c] = next[c] + 1
             /\ \A d \in Clients : d # c => next'[d] = next[d]
             /\ \A d \in Clients : Knows(d)'
  <2>1. next'[c] = next[c] + 1 /\ \A d \in Clients : d # c => next'[d] = next[d]
    BY <1>1, <1>4 DEF Settle, SenderType
  <2>2. \A e \in Events : told'[e] = IF e = Current(c) THEN o ELSE told[e]
    BY <1>1, <1>4 DEF Settle, SenderType
  <2>3. ASSUME NEW d \in Clients, NEW i \in DOMAIN Script[d]
        PROVE  told'[Script[d][i]] = "pending" <=> next'[d] <= i
    <3>1. Script[d][i] \in Events /\ i \in Nat /\ next[d] \in Nat
      <4>1. i \in 1 .. Len(Script[d]) /\ Len(Script[d]) \in Nat
        BY Scripted
      <4>. QED  BY <1>1, <4>1, Scripted DEF SenderType
    <3>2. Script[d][i] = Current(c) <=> d = c /\ i = next[c]
      BY <1>1, OnePlace DEF Current
    <3>. QED  BY <1>1, <2>1, <2>2, <3>1, <3>2 DEF Knows
  <2>. QED  BY <2>1, <2>3 DEF Knows
<1>. QED  BY <1>1, <1>2, <1>3, <1>4 DEF Failed

Waits(c) ==
  /\ Waiting(c) => HasMore(c)
  /\ Waiting(c) /\ ~Idle(waitsOn[c]) => event[waitsOn[c]] = Current(c)
  /\ \A d \in Clients : Waiting(c) /\ waitsOn[d] = waitsOn[c] => d = c

LEMMA ClientParts ==
  ASSUME NEW c \in Clients
  PROVE  /\ ClientOk(c) <=> next[c] \in 1 .. Len(Script[c]) + 1 /\ Waits(c) /\ Knows(c)
         /\ ClientOk(c)' <=> next'[c] \in 1 .. Len(Script[c]) + 1 /\ Waits(c)' /\ Knows(c)'
BY DEF ClientOk, Waits, Knows

\* Only a call gives a handler an event.
LEMMA SameEvents ==
  ASSUME IInv, Process \/ (\E h \in Handlers : Pipeline(h)) \/ (\E c \in Clients : Answer(c)),
         NEW g \in Handlers, ~Idle(g)'
  PROVE  ~Idle(g) /\ event'[g] = event[g]
<1>1. CASE Process
  BY <1>1 DEF Process, OpenNext, StartFails, Serve, Signal, ServerFails, Drained,
     CloseNext, Exit, Crash, HandlersEnd, Restart, rpc, Idle
<1>2. ASSUME NEW h \in Handlers, Pipeline(h) PROVE ~Idle(g) /\ event'[g] = event[g]
  <2>1. CASE g = h
    BY <1>2, <2>1 DEF Pipeline, Deny, Throttle, Allow, VerifyFails, ValidateFails, Vetted,
       PersistFails, Persist, Audit, Forward, Unheard, Clear, At, Goto, Refuse, Idle, IInv, TypeOK
  <2>. QED  BY <1>2, <2>1, OthersRest DEF SameHandler, Idle
<1>3. ASSUME NEW c \in Clients, Answer(c) PROVE ~Idle(g) /\ event'[g] = event[g]
  BY <1>3 DEF Answer, Clear, Goto, At, Idle, IInv, TypeOK
<1>. QED  BY <1>1, <1>2, <1>3

LEMMA ClientsStep ==
  ASSUME IInv, [Next]_vars, NEW c \in Clients
  PROVE  ClientOk(c)'
<1>1. SenderType /\ RpcType /\ ClientOk(c)
  BY TypeParts DEF IInv
<1>2. CASE UNCHANGED sender /\ \A g \in Handlers : ~Idle(g)' => ~Idle(g) /\ event'[g] = event[g]
  <2>1. Waiting(c) => waitsOn[c] \in Handlers
    BY <1>1 DEF Waiting, SenderType
  <2>. QED  BY <1>1, <1>2, <2>1 DEF sender, ClientOk, Waiting, HasMore, Current
<1>3. CASE Process \/ \E h \in Handlers : Pipeline(h)
  <2>1. UNCHANGED sender
    BY <1>3 DEF Process, OpenNext, StartFails, Serve, Signal, ServerFails, Drained,
       CloseNext, Exit, Crash, Restart, Pipeline, Deny, Throttle, Allow, VerifyFails,
       ValidateFails, Vetted, PersistFails, Persist, Audit, Forward, Unheard
  <2>. QED  BY <1>2, <1>3, <2>1, SameEvents
<1>4. CASE UNCHANGED vars
  BY <1>2, <1>4 DEF vars, rpc, Idle
<1>5. ASSUME NEW d \in Clients, NEW h \in Handlers, Call(d, h) PROVE ClientOk(c)'
  <2>1. /\ waitsOn' = [waitsOn EXCEPT ![d] = h] /\ h # NoHandler
        /\ \A x \in Clients : waitsOn[x] # h
        /\ HasMore(d)
        /\ UNCHANGED <<next, told>>
    BY <1>5, ScriptAssumption DEF Call
  <2>2. event'[h] = Current(d) /\ \A g \in Handlers : g # h => step'[g] = step[g] /\ event'[g] = event[g]
    BY <1>1, <1>5 DEF Call, Goto, RpcType
  <2>3. CASE c = d
    BY <1>1, <2>1, <2>2, <2>3 DEF ClientOk, Waiting, HasMore, Current, SenderType
  <2>4. CASE c # d
    <3>1. waitsOn'[c] = waitsOn[c] /\ (Waiting(c) => waitsOn[c] \in Handlers /\ waitsOn[c] # h)
      BY <1>1, <2>1, <2>4 DEF SenderType, Waiting
    <3>2. \A x \in Clients : waitsOn'[x] = IF x = d THEN h ELSE waitsOn[x]
      BY <1>1, <2>1 DEF SenderType
    <3>. QED  BY <1>1, <2>1, <2>2, <2>4, <3>1, <3>2 DEF ClientOk, Waiting, HasMore, Current, Idle
  <2>. QED  BY <2>3, <2>4
<1>6. ASSUME NEW d \in Clients, Answer(d) \/ Lose(d) \/ Unreachable(d) PROVE ClientOk(c)'
  <2>1. HasMore(d) /\ (Failed(d) \/ Settle(d, "accepted"))
    BY <1>6 DEF Answer, Lose, Unreachable, IInv, ClientOk
  <2>2. Knows(c)' /\ next'[c] \in 1 .. Len(Script[c]) + 1 /\ (c # d => next'[c] = next[c])
    BY <1>1, <2>1, AttemptEnds DEF ClientOk
  <2>3. \A x \in Clients : waitsOn'[x] = IF x = d THEN NoHandler ELSE waitsOn[x]
    BY <1>1, <1>6 DEF Answer, Lose, Unreachable, SenderType, Waiting
  <2>4. \A g \in Handlers : ~Idle(g)' => ~Idle(g) /\ event'[g] = event[g]
    BY <1>6, SameEvents DEF Lose, Unreachable, rpc, Idle
  <2>5. Waits(c)'
    <3>1. CASE c = d
      BY <2>3, <3>1 DEF Waits, Waiting
    <3>2. CASE c # d
      <4>1. Waiting(c) => waitsOn[c] \in Handlers
        BY <1>1 DEF Waiting, SenderType
      <4>. QED  BY <1>1, <2>2, <2>3, <2>4, <3>2, <4>1 DEF ClientOk, Waits, Waiting, HasMore, Current
    <3>. QED  BY <3>1, <3>2
  <2>. QED  BY <2>2, <2>5, ClientParts
<1>. QED  BY <1>3, <1>4, <1>5, <1>6 DEF Next, Client, Finished
-----------------------------------------------------------------------------
(***************************************************************************)
(* The events: who works on them, and what the store has of them.          *)
(***************************************************************************)
LEMMA EventRests ==
  ASSUME IInv, NEW c \in Clients, NEW i, NEW e, EventOk(c, i, e),
         next'[c] = next[c], waitsOn'[c] = waitsOn[c], lost \subseteq lost',
         e \in Range(stored)' => e \in Range(stored),
         \A g \in Handlers : event'[g] = e => event[g] = e,
         \A g \in Handlers : g = waitsOn[c] /\ Kept(g) => Kept(g)'
  PROVE  EventOk(c, i, e)'
<1>1. Waiting(c) => waitsOn[c] \in Handlers
  BY TypeParts DEF IInv, Waiting, SenderType
<1>. QED  BY <1>1 DEF EventOk, Waiting, Kept, Done

LEMMA ProcessEvents ==
  ASSUME IInv, Process \/ UNCHANGED vars, NEW c \in Clients, NEW i \in DOMAIN Script[c]
  PROVE  EventOk(c, i, Script[c][i])'
<1>1. UNCHANGED <<sender, stored>>
  BY DEF Process, OpenNext, StartFails, Serve, Signal, ServerFails, Drained,
     CloseNext, Exit, Crash, Restart, vars, disk
<1>2. ASSUME NEW g \in Handlers
      PROVE  /\ event'[g] \in {event[g], NoEvent}
             /\ Kept(g) => Kept(g)'
  BY DEF Process, OpenNext, StartFails, Serve, Signal, ServerFails, Drained,
     CloseNext, Exit, Crash, HandlersEnd, Restart, vars, rpc, Kept, Done
<1>3. Script[c][i] # NoEvent /\ EventOk(c, i, Script[c][i])
  BY Scripted, ScriptAssumption DEF IInv, ScriptOk
<1>. QED  BY <1>1, <1>2, <1>3, EventRests DEF sender

LEMMA PipelineEvents ==
  ASSUME IInv, NEW h \in Handlers, Pipeline(h), NEW c \in Clients, NEW i \in DOMAIN Script[c]
  PROVE  EventOk(c, i, Script[c][i])'
<1>. DEFINE e == Script[c][i]
<1>1. EventOk(c, i, e) /\ e \in Events /\ e # NoEvent /\ RpcType /\ HandlerOk(h)
  BY Scripted, ScriptAssumption, TypeParts DEF IInv, ScriptOk
<1>2. UNCHANGED sender
  BY DEF Pipeline, Deny, Throttle, Allow, VerifyFails, ValidateFails, Vetted,
     PersistFails, Persist, Audit, Forward, Unheard
<1>3. ASSUME NEW g \in Handlers PROVE event'[g] \in {event[g], NoEvent}
  BY <1>1 DEF RpcType, Pipeline, Deny, Throttle, Allow, VerifyFails, ValidateFails, Vetted,
     PersistFails, Persist, Audit, Forward, Unheard, Clear
<1>4. ASSUME NEW g \in Handlers, Kept(g) PROVE Kept(g)'
  <2>1. CASE g = h
    <3>1. Audit(h) \/ Forward(h) \/ Unheard(h)
      BY <1>1, <1>4, <2>1 DEF Pipeline, Deny, Throttle, Allow, VerifyFails, ValidateFails, Vetted,
         PersistFails, Persist, Kept, Done, At
    <3>. QED  BY <1>1, <2>1, <3>1 DEF Audit, Forward, Unheard, Clear, At, Goto, Kept, Done, HandlerOk, RpcType
  <2>. QED  BY <1>4, <2>1, OthersRest DEF SameHandler, Kept, Done
<1>5. CASE Persist(h) /\ e = event[h]
  <2>1. event'[h] = e /\ Kept(h)' /\ NoHandler \notin Handlers
    BY <1>1, <1>5, ScriptAssumption DEF Persist, Goto, Kept, RpcType
  <2>2. i <= next[c] /\ (e \notin lost => next[c] = i /\ waitsOn[c] = h)
    BY <1>1, <1>5 DEF EventOk
  <2>3. e \notin lost => Waiting(c)' /\ Kept(waitsOn[c])'
    BY <1>2, <2>1, <2>2 DEF Waiting, sender
  <2>. QED  BY <1>1, <1>2, <1>3, <2>2, <2>3 DEF EventOk, sender
<1>6. CASE ~(Persist(h) /\ e = event[h])
  <2>1. e \in Range(stored)' => e \in Range(stored)
    <3>1. CASE Persist(h)
      <4>1. event[h] \in Events /\ stored \in Seq(Events) /\ e # event[h]
        BY <1>6, <3>1, AtWork DEF Persist, IInv, TypeOK
      <4>2. CASE stored' = Append(stored, event[h])
        BY <4>1, <4>2, AppendRange
      <4>3. CASE UNCHANGED stored
        BY <4>3
      <4>. QED  BY <3>1, <4>2, <4>3 DEF Persist, Appended
    <3>2. CASE ~Persist(h)
      BY <3>2 DEF Pipeline, Deny, Throttle, Allow, VerifyFails, ValidateFails, Vetted,
         PersistFails, Audit, Forward, Unheard, disk
    <3>. QED  BY <3>1, <3>2
  <2>. QED  BY <1>1, <1>2, <1>3, <1>4, <2>1, EventRests DEF sender
<1>. QED  BY <1>5, <1>6
LEMMA CallEvents ==
  ASSUME IInv, NEW d \in Clients, NEW h \in Handlers, Call(d, h),
         NEW c \in Clients, NEW i \in DOMAIN Script[c]
  PROVE  EventOk(c, i, Script[c][i])'
<1>. DEFINE e == Script[c][i]
<1>1. EventOk(c, i, e) /\ RpcType /\ SenderType /\ NoHandler \notin Handlers
  BY TypeParts, ScriptAssumption DEF IInv, ScriptOk
<1>2. /\ event' = [event EXCEPT ![h] = Current(d)] /\ waitsOn' = [waitsOn EXCEPT ![d] = h]
      /\ step' = [step EXCEPT ![h] = "policy"]
      /\ UNCHANGED <<verdict, next, lost, stored>>
      /\ ~Waiting(d) /\ HasMore(d) /\ \A x \in Clients : waitsOn[x] # h
  BY DEF Call, Goto, disk
<1>3. next[d] \in DOMAIN Script[d] /\ Current(d) = Script[d][next[d]]
  BY <1>2, AtEvent DEF IInv, Current
<1>4. CASE c = d
  <2>1. e \notin lost => ~(\E g \in Handlers : event[g] = e) /\ ~(e \in Range(stored) /\ next[c] = i)
    BY <1>1, <1>2, <1>4 DEF EventOk, Waiting
  <2>2. e = Current(d) => next[c] = i
    BY <1>3, <1>4, OnePlace
  <2>3. next[c] \in Nat /\ i \in Nat
    BY <1>1, Scripted DEF SenderType
  <2>. QED  BY <1>1, <1>2, <1>4, <2>1, <2>2, <2>3 DEF EventOk, RpcType, SenderType
<1>5. CASE c # d
  <2>1. e # Current(d)
    BY <1>3, <1>5, OnePlace
  <2>2. waitsOn'[c] = waitsOn[c] /\ waitsOn[c] # h
    BY <1>1, <1>2, <1>5 DEF SenderType
  <2>3. \A g \in Handlers : event'[g] = e => event[g] = e
    BY <1>1, <1>2, <2>1 DEF RpcType
  <2>4. \A g \in Handlers : g # h /\ Kept(g) => Kept(g)'
    BY <1>1, <1>2 DEF RpcType, Kept, Done
  <2>. QED  BY <1>1, <1>2, <2>2, <2>3, <2>4, EventRests
<1>. QED  BY <1>4, <1>5

LEMMA AttemptEvents ==
  ASSUME IInv, NEW d \in Clients, Answer(d) \/ Lose(d) \/ Unreachable(d),
         NEW c \in Clients, NEW i \in DOMAIN Script[c]
  PROVE  EventOk(c, i, Script[c][i])'
<1>. DEFINE e == Script[c][i]
<1>1. /\ EventOk(c, i, e) /\ RpcType /\ SenderType /\ NoHandler \notin Handlers
      /\ e # NoEvent /\ next[c] \in Nat /\ i \in Nat
  <2>1. i \in 1 .. Len(Script[c]) /\ Len(Script[c]) \in Nat /\ e \in Events
    BY Scripted
  <2>. QED  BY <2>1, TypeParts, ScriptAssumption DEF IInv, ScriptOk, SenderType
<1>2. /\ HasMore(d) /\ (Failed(d) \/ Settle(d, "accepted"))
      /\ next'[d] \in {next[d], next[d] + 1}
      /\ \A x \in Clients : x # d => next'[x] = next[x]
  <2>1. HasMore(d) /\ (Failed(d) \/ Settle(d, "accepted"))
    BY DEF Answer, Lose, Unreachable, IInv, ClientOk
  <2>. QED  BY <2>1, AttemptEnds
<1>3. /\ \A x \in Clients : waitsOn'[x] = IF x = d THEN NoHandler ELSE waitsOn[x]
      /\ lost \subseteq lost' /\ UNCHANGED stored
  BY <1>1 DEF Answer, Lose, Unreachable, disk, SenderType, Waiting
<1>4. \A g \in Handlers : event'[g] \in {event[g], NoEvent} /\ (Kept(g) => Kept(g)')
  BY <1>1 DEF Answer, Clear, Goto, Lose, Unreachable, rpc, RpcType, Kept, Done
<1>5. CASE c # d
  BY <1>1, <1>2, <1>3, <1>4, <1>5, EventRests
<1>6. CASE c = d
  <2>1. (\E g \in Handlers : event'[g] = e) \/ e \in Range(stored)' => i <= next'[c]
    BY <1>1, <1>2, <1>3, <1>4, <1>6 DEF EventOk
  <2>2. ASSUME e \notin lost'
        PROVE  /\ \A g \in Handlers : event'[g] # e
               /\ e \in Range(stored)' => next'[c] # i
    <3>1. e \notin lost
      BY <1>3, <2>2
    <3>2. CASE Answer(d)
      <4>. DEFINE h == waitsOn[d]
      <4>1. h \in Handlers /\ step[h] = "answer" /\ event'[h] = NoEvent
        BY <1>1, <3>2 DEF Answer, Waiting, At, Clear, SenderType, RpcType
      <4>2. \A g \in Handlers : event[g] = e => g = h
        BY <1>1, <1>6, <3>1 DEF EventOk
      <4>3. ASSUME e \in Range(stored), next[c] = i PROVE next'[c] = next[c] + 1
        <5>1. verdict[h] = "accepted"
          BY <1>1, <1>6, <3>1, <4>1, <4>3 DEF EventOk, Kept, Done
        <5>. QED  BY <1>1, <1>6, <3>2, <5>1 DEF Answer, Settle, SenderType
      <4>4. e \in Range(stored) => i <= next[c]
        BY <1>1 DEF EventOk
      <4>. QED  BY <1>1, <1>2, <1>3, <1>4, <1>6, <4>1, <4>2, <4>3, <4>4
    <3>3. CASE Lose(d)
      <4>1. e # Current(d)
        BY <2>2, <3>3 DEF Lose
      <4>2. next[c] # i
        BY <1>6, <4>1 DEF Current
      <4>. QED  BY <1>1, <1>2, <1>3, <1>4, <1>6, <3>1, <4>2 DEF EventOk
    <3>4. CASE Unreachable(d)
      <4>1. waitsOn[c] \notin Handlers /\ ~Waiting(c)
        BY <1>1, <1>6, <3>4 DEF Unreachable, Waiting
      <4>. QED  BY <1>1, <1>2, <1>3, <1>4, <1>6, <3>1, <4>1 DEF EventOk
    <3>. QED  BY <3>2, <3>3, <3>4
  <2>. QED  BY <2>1, <2>2 DEF EventOk
<1>. QED  BY <1>5, <1>6

LEMMA EventsStep ==
  ASSUME IInv, [Next]_vars, NEW c \in Clients, NEW i \in DOMAIN Script[c]
  PROVE  EventOk(c, i, Script[c][i])'
BY ProcessEvents, PipelineEvents, CallEvents, AttemptEvents DEF Next, Client, Finished

LEMMA Inductive == IInv /\ [Next]_vars => IInv'
<1>. SUFFICES ASSUME IInv, [Next]_vars PROVE IInv'
  OBVIOUS
<1>1. ASSUME NEW f \in LogFiles PROVE LossOk(f)'
  <2>1. FilesType /\ starts \in Nat /\ LossOk(f)
    BY TypeParts, BoundsAssumption DEF IInv, MainType
  <2>. QED  BY <2>1, FilesMove, LossesStep
<1>. QED  BY <1>1, TypeStep, PhasesStep, PrefixStep, HandlersStep, ClientsStep, EventsStep, Zenon
     DEF IInv, ScriptOk

LEMMA Invariance == Spec => []IInv
<1>1. Init => IInv
  BY InitIInv
<1>2. IInv /\ [Next]_vars => IInv'
  BY Inductive
<1>. QED  BY <1>1, <1>2, PTL DEF Spec
-----------------------------------------------------------------------------
(***************************************************************************)
(* Theorems.                                                               *)
(***************************************************************************)
\* For every set of clients, events and handlers, the state stays well formed.
THEOREM TypeCorrect == Spec => []TypeOK
<1>1. IInv => TypeOK
  BY DEF IInv
<1>. QED  BY <1>1, Invariance, PTL

\* The answer "accepted" comes from a handler that has all stages behind it.
LEMMA AckedStep ==
  ASSUME IInv, [Next]_vars, AckedIsComplete
  PROVE  AckedIsComplete'
<1>1. SenderType /\ Grows
  BY TypeParts, EverGrowing DEF IInv
<1>2. SUFFICES ASSUME NEW e \in Events, told'[e] = "accepted", told[e] # "accepted"
               PROVE  /\ InStore(e)
                      /\ AuditDone(e)
                      /\ e \in submitted \cup late
  BY <1>1, Zenon DEF AckedIsComplete, Grows
<1>3. PICK c \in Clients : Answer(c) \/ Lose(c) \/ Unreachable(c)
  BY <1>2 DEF Next, Process, OpenNext, StartFails, Serve, Signal, ServerFails, Drained,
     CloseNext, Exit, Crash, Restart, Pipeline, Deny, Throttle, Allow, VerifyFails, ValidateFails,
     Vetted, PersistFails, Persist, Audit, Forward, Unheard, Client, Call, Finished, vars, sender
<1>4. ~Failed(c)
  BY <1>1, <1>2 DEF Failed, Settle, SenderType
<1>5. Answer(c) /\ Done(waitsOn[c]) /\ waitsOn[c] \in Handlers /\ e = Current(c)
  BY <1>1, <1>2, <1>3, <1>4 DEF Answer, Lose, Unreachable, Settle, Done, At, Waiting, SenderType
<1>6. event[waitsOn[c]] = e
  BY <1>5 DEF IInv, ClientOk, Answer, At, Idle
<1>. QED  BY <1>5, <1>6 DEF IInv, HandlerOk

\* Deny and VerifyFails write the audit entry, and VerifyFails sees what the
\* client signed.
LEMMA RefusedStep ==
  ASSUME IInv, [Next]_vars
  PROVE  /\ RefusalsAudited => RefusalsAudited'
         /\ HonestNotRefused => HonestNotRefused'
<1>1. Grows
  BY EverGrowing
<1>2. CASE UNCHANGED refused
  BY <1>1, <1>2 DEF RefusalsAudited, HonestNotRefused, Grows
<1>3. ASSUME NEW h \in Handlers, Deny(h) \/ VerifyFails(h)
      PROVE  /\ RefusalsAudited => RefusalsAudited'
             /\ HonestNotRefused => HonestNotRefused'
  <2>. DEFINE e == event[h]
  <2>1. AuditDone(e)'
    <3>1. e \in Events /\ event'[h] = e
      BY <1>3, AtWork DEF Deny, VerifyFails
    <3>. QED  BY <1>3, <3>1, Logged, TypeParts DEF Deny, VerifyFails, IInv, AuditDone
  <2>2. CASE Deny(h)
    BY <1>1, <2>1, <2>2 DEF Deny, Refuse, RefusalsAudited, HonestNotRefused, Grows, AuditDone
  <2>3. CASE VerifyFails(h)
    <3>1. event[h] \in Forged
      BY <2>3 DEF VerifyFails, Verifies, At, IInv, HandlerOk
    <3>. QED  BY <1>1, <2>1, <2>3, <3>1
         DEF VerifyFails, Refuse, RefusalsAudited, HonestNotRefused, Grows, AuditDone
  <2>. QED  BY <1>3, <2>2, <2>3
<1>4. ASSUME NEW h \in Handlers, Throttle(h) \/ ValidateFails(h) \/ PersistFails(h)
      PROVE  /\ RefusalsAudited => RefusalsAudited'
             /\ HonestNotRefused => HonestNotRefused'
  <2>1. \E why \in {"throttled", "schema", "store"} : refused' = refused \cup {<<event[h], why>>}
    BY <1>4 DEF Throttle, ValidateFails, PersistFails, Refuse
  <2>. QED  BY <1>1, <2>1 DEF RefusalsAudited, HonestNotRefused, Grows
<1>. QED  BY <1>2, <1>3, <1>4 DEF Next, Process, OpenNext, StartFails, Serve, Signal, ServerFails,
     Drained, CloseNext, Exit, Crash, Restart, Pipeline, Allow, Vetted, Persist, Audit, Forward,
     Unheard, Client, Call, Answer, Lose, Unreachable, Finished, vars, history

\* A handler at work outside an error exit finds every subsystem open.
LEMMA LateStep ==
  ASSUME IInv, [Next]_vars, LateOnlyByError
  PROVE  LateOnlyByError'
<1>1. unclean => unclean'
  BY DEF Next, Process, OpenNext, StartFails, Serve, Signal, ServerFails,
     Drained, CloseNext, Exit, Crash, Restart, Pipeline, Deny, Throttle, Allow, VerifyFails,
     ValidateFails, Vetted, PersistFails, Persist, Audit, Forward, Unheard,
     Client, Call, Answer, Lose, Unreachable, Finished, vars, main
<1>2. ASSUME NEW h \in Handlers, Pipeline(h), ~unclean PROVE UNCHANGED late
  <2>1. Running /\ ~AllIdle
    BY <1>2 DEF Pipeline, Deny, Throttle, Allow, VerifyFails, ValidateFails, Vetted,
       PersistFails, Persist, Audit, Forward, Unheard, At, AllIdle, Idle
  <2>2. open = Range(Subsystems)
    BY <1>2, <2>1 DEF IInv, Phases, Running
  <2>3. "audit" \in open /\ "forwarder" \in open
    BY <2>2 DEF Subsystems, Range
  <2>. QED  BY <1>2, <2>3 DEF Pipeline, Deny, Throttle, Allow, VerifyFails, ValidateFails, Vetted,
       PersistFails, Persist, Audit, Forward, Unheard, LogAudit, history
<1>3. CASE ~ \E h \in Handlers : Pipeline(h)
  <2>1. UNCHANGED late
    BY <1>3 DEF Next, Process, OpenNext, StartFails, Serve, Signal, ServerFails, Drained,
       CloseNext, Exit, Crash, Restart, Client, Call, Answer, Lose, Unreachable, Finished, vars, history
  <2>. QED  BY <1>1, <2>1 DEF LateOnlyByError
<1>. QED  BY <1>1, <1>2, <1>3 DEF LateOnlyByError

\* Whatever handlers race and wherever a process ends: what a client was told is
\* accepted has its line in the store, its entry in the audit log unless the disk
\* refused it, and went to the forwarder; refusals for want of permission or
\* signature are audited; with every restart one line of a file, at most, joins a
\* part that was left there and is lost; no signed event is refused for its
\* signature; only an error exit makes a handler meet a closed subsystem; and
\* subsystems close in the reverse of the order they open in (pipeline.go:95-195,
\* main.go:63-95, 241-295, jsonl.go:223-225, hashchain.go:208).
THEOREM AnswersAreAlwaysTrue == Spec => []AnswersAreTrue
<1>1. Init => AnswersAreTrue
  <2>1. Init => OpenIsPrefix
    BY InitIInv DEF IInv
  <2>2. Init => OneLossPerRestart
    BY InitIInv DEF IInv, OneLossPerRestart, LossOk
  <2>. QED  BY <2>1, <2>2
       DEF Init, AnswersAreTrue, AckedIsComplete, RefusalsAudited, HonestNotRefused, LateOnlyByError
<1>2. IInv /\ [Next]_vars /\ AnswersAreTrue => AnswersAreTrue'
  <2>1. IInv /\ [Next]_vars => OneLossPerRestart'
    BY Inductive DEF IInv, OneLossPerRestart, LossOk
  <2>. QED  BY <2>1, AckedStep, RefusedStep, LateStep, PrefixStep, Zenon DEF AnswersAreTrue
<1>. QED  BY <1>1, <1>2, Invariance, PTL DEF Spec
\* Only the stage Persist writes to the store.
LEMMA StoredByPersist ==
  ASSUME [Next]_vars, ~UNCHANGED stored
  PROVE  \E h \in Handlers : Persist(h)
BY DEF Next, Process, OpenNext, StartFails, Serve, Signal, ServerFails,
   Drained, CloseNext, Exit, Crash, Restart, Pipeline, Deny, Throttle, Allow, VerifyFails,
   ValidateFails, Vetted, PersistFails, Audit, Forward, Unheard,
   Client, Call, Answer, Lose, Unreachable, Finished, vars, disk

\* What is stored while no call of it was lost is new, and behind it in the
\* script the store has nothing.
LEMMA NewUnlessLost ==
  ASSUME IInv, NEW h \in Handlers, Persist(h),
         NEW c \in Clients, NEW i \in DOMAIN Script[c], event[h] = Script[c][i], event[h] \notin lost
  PROVE  /\ event[h] \notin Range(stored)
         /\ \A j \in DOMAIN Script[c] : i < j => Script[c][j] \notin Range(stored)
<1>1. EventOk(c, i, event[h])
  BY DEF IInv, ScriptOk
<1>2. next[c] = i /\ waitsOn[c] = h
  BY <1>1 DEF EventOk
<1>3. ~Kept(h)
  BY DEF Persist, At, Kept, Done
<1>4. event[h] \notin Range(stored)
  BY <1>1, <1>2, <1>3 DEF EventOk
<1>5. ASSUME NEW j \in DOMAIN Script[c], i < j PROVE Script[c][j] \notin Range(stored)
  <2>1. EventOk(c, j, Script[c][j])
    BY DEF IInv, ScriptOk
  <2>2. i \in Nat /\ j \in Nat
    BY Scripted
  <2>. QED  BY <1>2, <1>5, <2>1, <2>2 DEF EventOk
<1>. QED  BY <1>4, <1>5

LEMMA TroubleStep ==
  ASSUME IInv, [Next]_vars, TroubleByLostCallsOnly
  PROVE  TroubleByLostCallsOnly'
<1>1. lost \subseteq lost'
  BY EverGrowing DEF Grows
<1>2. CASE UNCHANGED stored
  BY <1>1, <1>2 DEF TroubleByLostCallsOnly, TwiceOnlyIfLost, SendOrder
<1>3. ASSUME NEW h \in Handlers, Persist(h), ~UNCHANGED stored PROVE TroubleByLostCallsOnly'
  <2>. DEFINE e == event[h]    n == Len(stored)
  <2>1. e \in Events /\ stored \in Seq(Events) /\ stored' = Append(stored, e)
    BY <1>3, AtWork DEF Persist, Appended, IInv, TypeOK
  <2>2. PICK c \in Clients : \E i \in DOMAIN Script[c] : e = Script[c][i]
    BY <2>1, Scripted
  <2>3. PICK i \in DOMAIN Script[c] : e = Script[c][i]
    BY <2>2
  <2>4. /\ n \in Nat /\ DOMAIN stored = 1 .. n /\ DOMAIN stored' = 1 .. n + 1
        /\ \A k \in 1 .. n : stored'[k] = stored[k]
        /\ stored'[n + 1] = e
    BY <2>1, AppendRange
  <2>5. e \notin lost => /\ e \notin Range(stored)
                         /\ \A j \in DOMAIN Script[c] : i < j => Script[c][j] \notin Range(stored)
    BY <1>3, <2>3, NewUnlessLost
  <2>6. \A k \in 1 .. n : stored[k] \in Range(stored)
    BY <2>4 DEF Range
  <2>. HIDE DEF e, n
  <2>7. TwiceOnlyIfLost'
    <3>1. SUFFICES ASSUME NEW k \in 1 .. n + 1, NEW l \in 1 .. n + 1, k # l, stored'[k] = stored'[l]
                   PROVE  stored'[k] \in lost'
      BY <2>4 DEF TwiceOnlyIfLost
    <3>2. CASE k \in 1 .. n /\ l \in 1 .. n
      BY <1>1, <2>4, <3>1, <3>2 DEF TroubleByLostCallsOnly, TwiceOnlyIfLost
    <3>3. CASE k = n + 1 \/ l = n + 1
      <4>1. e \in Range(stored) /\ stored'[k] = e
        BY <2>4, <2>6, <3>1, <3>3
      <4>. QED  BY <1>1, <2>5, <4>1
    <3>. QED  BY <2>4, <3>2, <3>3
  <2>8. SendOrder'
    <3>1. SUFFICES ASSUME NEW d \in Clients, NEW x \in DOMAIN Script[d], NEW y \in DOMAIN Script[d],
                          NEW k \in 1 .. n + 1, NEW l \in 1 .. n + 1,
                          x < y, k < l, stored'[l] = Script[d][x], stored'[k] = Script[d][y]
                   PROVE  Script[d][x] \in lost'
      BY <2>4 DEF SendOrder
    <3>2. k \in 1 .. n
      BY <2>4, <3>1
    <3>3. CASE l \in 1 .. n
      BY <1>1, <2>4, <3>1, <3>2, <3>3 DEF TroubleByLostCallsOnly, SendOrder
    <3>4. CASE l = n + 1
      <4>1. Script[d][x] = e
        BY <2>4, <3>1, <3>4
      <4>2. d = c /\ x = i
        BY <2>3, <4>1, OnePlace
      <4>3. Script[c][y] \in Range(stored)
        BY <2>4, <2>6, <3>1, <3>2, <4>2
      <4>. QED  BY <1>1, <2>5, <3>1, <4>1, <4>2, <4>3
    <3>. QED  BY <2>4, <3>3, <3>4
  <2>. QED  BY <2>7, <2>8 DEF TroubleByLostCallsOnly
<1>. QED  BY <1>2, <1>3, StoredByPersist, Zenon

\* Whatever handlers race, are refused or crash, the store repeats an event or
\* turns round what a client sent only if the client stopped waiting for one of
\* its calls (pipeline.go:162-195, client.py:301-327).
THEOREM OnlyLostCallsMakeTrouble == Spec => []TroubleByLostCallsOnly
<1>1. Init => TroubleByLostCallsOnly
  BY DEF Init, TroubleByLostCallsOnly, TwiceOnlyIfLost, SendOrder
<1>2. IInv /\ [Next]_vars /\ TroubleByLostCallsOnly => TroubleByLostCallsOnly'
  BY TroubleStep
<1>. QED  BY <1>1, <1>2, Invariance, PTL DEF Spec

-----------------------------------------------------------------------------
(***************************************************************************)
(* The refinement: Persist holds an event, the answer acknowledges it, the *)
(* last failed attempt gives it up, and every other step is a stutter.     *)
(***************************************************************************)
LEMMA DeliverySteps ==
  ASSUME IInv, AckedIsComplete', [Next]_vars
  PROVE  [D!Next]_(D!vars)
<1>. USE DEF D!vars
<1>0. (\A f \in Files : joined'[f] = joined[f]) => Swallowed' = Swallowed
  BY DEF Swallowed
<1>1. SenderType /\ DiskType /\ FilesType
  BY TypeParts DEF IInv
<1>2. ASSUME NEW h \in Handlers, Persist(h) PROVE D!Next
  <2>1. event[h] \in Events /\ FileOf[event[h]] \in Files /\ UNCHANGED told
    BY <1>2, AtWork, FileKinds DEF Persist, sender
  <2>2. CASE WritesWhole(FileOf[event[h]]) /\ stored' = Append(stored, event[h])
    <3>1. Range(stored)' = Range(stored) \cup {event[h]}
      BY <1>1, <2>1, <2>2, AppendRange DEF DiskType
    <3>2. D!Hold(event[h])
      BY <1>0, <2>1, <2>2, <3>1 DEF D!Hold, WritesWhole, files
    <3>. QED  BY <2>1, <3>2 DEF D!Next
  <2>3. CASE WritesBehindPart(FileOf[event[h]], event[h]) /\ UNCHANGED stored
    <3>1. Swallowed' = Swallowed \cup {event[h]}
      BY <1>1, <2>1, <2>3, FileKinds DEF WritesBehindPart, FilesType, Swallowed
    <3>2. D!Swallow(event[h])
      BY <2>1, <2>3, <3>1, FileKinds DEF D!Swallow, WritesBehindPart
    <3>. QED  BY <2>1, <3>2 DEF D!Next
  <2>. QED  BY <1>2, <2>2, <2>3 DEF Persist, Appended
<1>5. ASSUME NEW h \in Handlers, PersistFails(h) PROVE [D!Next]_(D!vars)
  <2>1. event[h] \in Events /\ UNCHANGED <<told, stored>>
    BY <1>5, AtWork DEF PersistFails, sender
  <2>2. CASE UNCHANGED files
    BY <1>0, <2>1, <2>2 DEF files
  <2>3. CASE WriterFails(FileOf[event[h]]) /\ ~UNCHANGED files
    <3>1. UNCHANGED joined /\ torn' \in {torn, torn \cup {FileOf[event[h]]}}
      BY <2>3 DEF WriterFails
    <3>2. UNCHANGED torn \/ D!Tear(event[h])
      BY <1>0, <2>1, <3>1, FileKinds DEF D!Tear
    <3>. QED  BY <1>0, <2>1, <3>1, <3>2 DEF D!Next
  <2>. QED  BY <1>5, <2>2, <2>3 DEF PersistFails, AppendFails
<1>6. ASSUME NEW h \in Handlers, Deny(h) \/ VerifyFails(h) \/ Audit(h) PROVE UNCHANGED D!vars
  <2>1. LogAudit(event[h]) /\ UNCHANGED <<told, stored>>
    BY <1>6 DEF Deny, VerifyFails, Audit, sender
  <2>2. (torn \ {AuditLog})' = torn \ {AuditLog} /\ \A f \in Files : joined'[f] = joined[f]
    BY <1>1, <2>1, FileKinds DEF LogAudit, Entered, WritesWhole, WritesBehindPart, WriterFails,
       files, FilesType
  <2>. QED  BY <1>0, <2>1, <2>2
<1>7. CASE Crash
  <2>1. PICK left \in SUBSET (BeingWritten \ stuck) :
          (\A f, g \in left \ {AuditLog} : f = g) /\ torn' = torn \cup left
    BY <1>7 DEF Crash
  <2>2. UNCHANGED <<told, stored, joined>>
    BY <1>7 DEF Crash, sender
  <2>3. CASE left \ {AuditLog} = {}
    BY <1>0, <2>1, <2>2, <2>3
  <2>4. ASSUME NEW f \in left \ {AuditLog} PROVE D!Next
    <3>1. f \in Files
      BY FileKinds DEF BeingWritten
    <3>2. PICK e \in Events : f = FileOf[e]
      BY <3>1, KindsAssumption DEF Files, Range
    <3>3. (torn \ {AuditLog})' = (torn \ {AuditLog}) \cup {FileOf[e]}
      BY <2>1, <2>4, <3>2
    <3>4. D!Tear(e)
      BY <1>0, <2>2, <3>3 DEF D!Tear
    <3>. QED  BY <3>2, <3>4 DEF D!Next
  <2>. QED  BY <2>3, <2>4
<1>8. CASE Restart
  BY <1>0, <1>8 DEF Restart, sender
<1>3. ASSUME NEW c \in Clients, Answer(c) \/ Lose(c) \/ Unreachable(c) PROVE [D!Next]_(D!vars)
  <2>1. HasMore(c)
    BY <1>3 DEF Answer, Lose, Unreachable, IInv, ClientOk
  <2>2. Current(c) \in Events /\ next[c] \in DOMAIN Script[c] /\ next[c] \in Nat
    BY <1>1, <2>1, AtEvent DEF IInv, SenderType
  <2>3. told[Current(c)] = "pending"
    BY <2>2 DEF IInv, ClientOk, Current
  <2>4. UNCHANGED <<Range(stored), torn \ {AuditLog}, Swallowed>>
    BY <1>0, <1>3 DEF Answer, Lose, Unreachable, disk, files
  <2>5. CASE UNCHANGED told
    BY <2>4, <2>5
  <2>6. CASE told' = [told EXCEPT ![Current(c)] = "gaveUp"]
    BY <2>2, <2>3, <2>4, <2>6 DEF D!Next, D!GiveUp
  <2>7. CASE told' = [told EXCEPT ![Current(c)] = "accepted"]
    <3>1. Current(c) \in Range(stored) \cup Swallowed
      BY <1>1, <2>2, <2>4, <2>7, FileKinds DEF AckedIsComplete, SenderType, InStore, Swallowed
    <3>. QED  BY <2>2, <2>3, <2>4, <2>7, <3>1 DEF D!Next, D!Acknowledge, Swallowed
  <2>. QED  BY <1>3, <2>5, <2>6, <2>7 DEF Answer, Lose, Unreachable, Failed, Settle
<1>4. CASE UNCHANGED <<stored, told, torn, joined>>
  BY <1>0, <1>4
<1>9. ASSUME NEW h \in Handlers, Pipeline(h) PROVE [D!Next]_(D!vars)
  BY <1>2, <1>4, <1>5, <1>6, <1>9 DEF Pipeline, Throttle, Allow, ValidateFails, Vetted, Forward,
     Unheard, disk, files, sender
<1>. QED  BY <1>3, <1>4, <1>7, <1>8, <1>9 DEF Next, Process, OpenNext, StartFails, Serve, Signal,
     ServerFails, Drained, CloseNext, Exit, Client, Call, Finished, vars, disk, files, sender

\* The service, its handlers and the retrying clients implement Delivery: an event
\* is acknowledged only when the store holds it or its line joined a part that a
\* crash or a failed write had left, one event for every such part; what the store
\* holds it keeps, and what a client was told is final (pipeline.go:162-195,
\* jsonl.go:195-204, 223-225, client.py:301-327).
THEOREM DeliversAtLeastOnce == Spec => AtLeastOnce
<1>1. Init => D!Init
  <2>1. Init => Range(stored) = {} /\ torn \ {AuditLog} = {}
    BY DEF Init, Range
  <2>2. Init => Swallowed = {}
    BY FileKinds DEF Init, Swallowed
  <2>. QED  BY <2>1, <2>2 DEF Init, D!Init
<1>2. IInv /\ AckedIsComplete' /\ [Next]_vars => [D!Next]_(D!vars)
  BY DeliverySteps
<1>3. AnswersAreTrue => AckedIsComplete
  BY DEF AnswersAreTrue
<1>. QED  BY <1>1, <1>2, <1>3, Invariance, AnswersAreAlwaysTrue, PTL DEF Spec, AtLeastOnce, D!Spec
=============================================================================
