--------------------------- MODULE Processes_proofs ---------------------------
(***************************************************************************)
(* Proofs about the event store and the processes around it.  The life of  *)
(* the analyzer process, the streaming call and the exporter have each an  *)
(* invariant of their own, which the steps of the other two leave alone.   *)
(* The store has one of its files (FilesInv), one of its readers that      *)
(* rests on it (ReadersInv) and one of the order of a stream (OrderInv).   *)
(***************************************************************************)
EXTENDS Processes, StoreClients, FiniteSets, FiniteSetTheorems, SequenceTheorems, WellFoundedInduction, TLAPS

-----------------------------------------------------------------------------
(***************************************************************************)
(* The analyzer process.                                                   *)
(***************************************************************************)
MainTypes ==
  /\ events \in [Main!EventFiles -> Nat] /\ saved \in [Main!EventFiles -> Nat]
  /\ read \in [Main!EventFiles -> Nat] /\ reported \in [Main!EventFiles -> Nat]
  /\ next \in 1..NFiles + 1 /\ unsaved \in Nat

\* Where there is no process there is no loop, and a clean exit waited for it.
MainFlow ==
  /\ main \in {"down", "start"} => loop = "off"
  /\ main = "exited" => loop = (IF status = "ok" THEN "done" ELSE "off")

\* Every time without a save may have reported each event of a file once more than
\* the cursor in memory says; the saved cursor falls behind only while a poll goes
\* on.
MainNumbers ==
  \A f \in Main!EventFiles :
    /\ saved[f] <= reported[f] /\ saved[f] <= events[f]
    /\ loop # "off" => /\ read[f] <= reported[f] /\ read[f] <= events[f]
                       /\ reported[f] <= read[f] + events[f] * unsaved
    /\ ~(loop = "poll" /\ next > 1) => reported[f] <= saved[f] + events[f] * unsaved

MainInv == MainTypes /\ MainFlow /\ MainNumbers

\* The step of a process that is not the subject of the behaviour.
LEMMA MainUntouched ==
  ASSUME MainInv, UNCHANGED mainVars
  PROVE  MainInv'
BY DEF MainInv, MainTypes, MainFlow, MainNumbers, mainVars

LEMMA MainInitially == Init => MainInv
<1>. SUFFICES ASSUME Main!Init PROVE MainInv
  BY DEF Init
<1>. NFiles \in Nat
  BY MainOk DEF Main!MainAssumption
<1>1. MainTypes
  BY DEF Main!Init, Main!Zero, MainTypes
<1>2. MainFlow
  BY DEF Main!Init, MainFlow
<1>3. MainNumbers
  BY DEF Main!Init, Main!Zero, MainNumbers
<1>. QED  BY <1>1, <1>2, <1>3 DEF MainInv

\* What products of naturals are needed.
LEMMA Product ==
  ASSUME NEW m \in Nat, NEW n \in Nat
  PROVE  m * n \in Nat /\ (m + 1) * n = m * n + n /\ m * (n + 1) = m * n + m
BY SMT

LEMMA EventArrivesKeepsMain ==
  ASSUME MainInv, NEW f \in Main!EventFiles, Main!EventArrives(f)
  PROVE  MainInv'
<1>. USE DEF MainInv
<1>1. MainTypes'
  BY DEF Main!EventArrives, MainTypes
<1>2. MainFlow'
  BY DEF Main!EventArrives, MainFlow
<1>3. ASSUME NEW g \in Main!EventFiles
      PROVE  events[g] <= events'[g] /\ events[g] * unsaved <= events'[g] * unsaved
             /\ events[g] * unsaved \in Nat /\ events'[g] * unsaved \in Nat
  <2>1. events'[g] = events[g] \/ events'[g] = events[g] + 1
    BY DEF Main!EventArrives, MainTypes
  <2>. QED  BY <2>1, Product DEF MainTypes
<1>4. MainNumbers'
  <2>. SUFFICES ASSUME NEW g \in Main!EventFiles
                PROVE  MainNumbers!(g)'
    BY DEF MainNumbers
  <2>. DEFINE p == events[g] * unsaved
              q == events'[g] * unsaved
  <2>1. /\ saved' = saved /\ reported' = reported /\ read' = read
        /\ loop' = loop /\ next' = next /\ unsaved' = unsaved
    BY DEF Main!EventArrives
  <2>2. /\ events[g] <= events'[g] /\ p <= q /\ p \in Nat /\ q \in Nat
        /\ events[g] \in Nat /\ events'[g] \in Nat
        /\ saved[g] \in Nat /\ reported[g] \in Nat /\ read[g] \in Nat
    BY <1>1, <1>3 DEF MainTypes
  <2>3. /\ saved[g] <= reported[g] /\ saved[g] <= events[g]
        /\ loop # "off" => /\ read[g] <= reported[g] /\ read[g] <= events[g]
                           /\ reported[g] <= read[g] + p
        /\ ~(loop = "poll" /\ next > 1) => reported[g] <= saved[g] + p
    BY DEF MainNumbers
  <2>. HIDE DEF p, q
  <2>4. /\ saved[g] <= reported[g] /\ saved[g] <= events'[g]
        /\ loop # "off" => /\ read[g] <= reported[g] /\ read[g] <= events'[g]
                           /\ reported[g] <= read[g] + q
        /\ ~(loop = "poll" /\ next > 1) => reported[g] <= saved[g] + q
    BY <2>2, <2>3
  <2>. QED  BY <2>1, <2>4 DEF q
<1>. QED  BY <1>1, <1>2, <1>4

\* The steps of run leave files, findings and saved cursor alone.
LEMMA RunKeepsMain ==
  ASSUME MainInv,
         \/ Main!Launch \/ Main!Relaunch \/ Main!StartFails \/ Main!Start
         \/ Main!ServerFails \/ Main!Signal \/ Main!ComponentError
         \/ Main!ShutServerDown \/ Main!Return \/ Main!ListFails
  PROVE  MainInv'
<1>. USE DEF MainInv
<1>. NFiles \in Nat
  BY MainOk DEF Main!MainAssumption
<1>. USE DEF Main!data
<1>1. CASE Main!Launch
  BY <1>1 DEF Main!Launch, MainTypes, MainFlow, MainNumbers
<1>2. CASE Main!Relaunch
  BY <1>2 DEF Main!Relaunch, MainTypes, MainFlow, MainNumbers
<1>3. CASE Main!StartFails
  BY <1>3 DEF Main!StartFails, MainTypes, MainFlow, MainNumbers
<1>4. CASE Main!Start
  <2>1. MainTypes' /\ MainFlow'
    BY <1>4 DEF Main!Start, MainTypes, MainFlow
  <2>2. MainNumbers'
    BY <1>4 DEF Main!Start, MainTypes, MainFlow, MainNumbers
  <2>. QED  BY <2>1, <2>2
<1>5. CASE Main!ServerFails
  BY <1>5 DEF Main!ServerFails, MainTypes, MainFlow, MainNumbers
<1>6. CASE Main!Signal
  BY <1>6 DEF Main!Signal, MainTypes, MainFlow, MainNumbers
<1>7. CASE Main!ComponentError
  BY <1>7 DEF Main!ComponentError, MainTypes, MainFlow, MainNumbers
<1>8. CASE Main!ShutServerDown
  BY <1>8 DEF Main!ShutServerDown, MainTypes, MainFlow, MainNumbers
<1>9. CASE Main!Return
  BY <1>9 DEF Main!Return, MainTypes, MainFlow, MainNumbers
<1>10. CASE Main!ListFails
  BY <1>10 DEF Main!ListFails, MainTypes, MainFlow, MainNumbers
<1>. QED  BY <1>1, <1>2, <1>3, <1>4, <1>5, <1>6, <1>7, <1>8, <1>9, <1>10

LEMMA PollFileKeepsMain ==
  ASSUME MainInv, Main!Running, Main!PollFile
  PROVE  MainInv'
<1>. USE DEF MainInv
<1>. NFiles \in Nat
  BY MainOk DEF Main!MainAssumption
<1>1. next \in Main!EventFiles /\ read[next] <= events[next]
  BY DEF Main!PollFile, Main!EventFiles, MainTypes, MainNumbers
<1>2. MainTypes'
  <2>1. reported[next] + (events[next] - read[next]) \in Nat
    BY <1>1 DEF MainTypes
  <2>2. reported' \in [Main!EventFiles -> Nat] /\ read' \in [Main!EventFiles -> Nat]
    BY <2>1, <1>1 DEF Main!PollFile, MainTypes
  <2>. QED  BY <2>2 DEF Main!PollFile, MainTypes
<1>3. MainFlow'
  BY DEF Main!PollFile, Main!Running, MainFlow
<1>4. MainNumbers'
  <2>. SUFFICES ASSUME NEW g \in Main!EventFiles
                PROVE  MainNumbers!(g)'
    BY DEF MainNumbers
  <2>. DEFINE p == events[g] * unsaved
  <2>1. /\ saved' = saved /\ events' = events /\ loop' = loop /\ loop = "poll"
        /\ next' = next + 1 /\ unsaved' = unsaved
    BY DEF Main!PollFile
  <2>2. /\ g = next => reported'[g] = reported[g] + (events[g] - read[g]) /\ read'[g] = events[g]
        /\ g # next => reported'[g] = reported[g] /\ read'[g] = read[g]
    BY DEF Main!PollFile, MainTypes
  <2>3. /\ p \in Nat /\ events[g] \in Nat /\ saved[g] \in Nat /\ reported[g] \in Nat
        /\ read[g] \in Nat /\ next \in Nat /\ next >= 1
    BY Product DEF MainTypes
  <2>4. /\ saved[g] <= reported[g] /\ saved[g] <= events[g]
        /\ read[g] <= reported[g] /\ read[g] <= events[g]
        /\ reported[g] <= read[g] + p
    BY <2>1 DEF MainNumbers
  <2>. HIDE DEF p
  <2>5. /\ saved[g] <= reported'[g] /\ saved[g] <= events[g]
        /\ read'[g] <= reported'[g] /\ read'[g] <= events[g]
        /\ reported'[g] <= read'[g] + p
    BY <2>2, <2>3, <2>4
  <2>6. next' > 1
    BY <2>1, <2>3
  <2>. QED  BY <2>1, <2>5, <2>6 DEF p
<1>. QED  BY <1>2, <1>3, <1>4

\* A step that ends a poll, or a process, without a save leaves the saved cursor
\* behind by at most the events there are, and counts.
LEMMA UnsavedKeepsMain ==
  ASSUME MainInv, MainFlow', MainTypes',
         UNCHANGED <<events, saved, reported, read>>,
         loop' \in {"idle", "off"}, loop = "off" => loop' = "off",
         unsaved' \in {unsaved, unsaved + 1},
         loop = "poll" /\ next > 1 => unsaved' = unsaved + 1
  PROVE  MainInv'
<1>. USE DEF MainInv
<1>1. MainNumbers'
  <2>. SUFFICES ASSUME NEW g \in Main!EventFiles
                PROVE  MainNumbers!(g)'
    BY DEF MainNumbers
  <2>. DEFINE p == events[g] * unsaved
              q == events[g] * unsaved'
  <2>1. /\ p \in Nat /\ q \in Nat /\ events[g] \in Nat /\ saved[g] \in Nat
        /\ reported[g] \in Nat /\ read[g] \in Nat
    BY Product DEF MainTypes
  <2>2. q \in {p, p + events[g]} /\ (loop = "poll" /\ next > 1 => q = p + events[g])
    BY Product DEF MainTypes
  <2>3. /\ saved[g] <= reported[g] /\ saved[g] <= events[g]
        /\ loop # "off" => /\ read[g] <= reported[g] /\ read[g] <= events[g]
                           /\ reported[g] <= read[g] + p
        /\ ~(loop = "poll" /\ next > 1) => reported[g] <= saved[g] + p
    BY DEF MainNumbers
  <2>. HIDE DEF p, q
  <2>4. /\ loop # "off" => reported[g] <= read[g] + q
        /\ reported[g] <= saved[g] + q
    <3>1. CASE loop = "poll" /\ next > 1
      BY <2>1, <2>2, <2>3, <3>1
    <3>2. CASE ~(loop = "poll" /\ next > 1)
      BY <2>1, <2>2, <2>3, <3>2
    <3>. QED  BY <3>1, <3>2
  <2>. QED  BY <2>3, <2>4 DEF q
<1>. QED  BY <1>1

LEMMA PollEndsKeepsMain ==
  ASSUME MainInv, (Main!Running /\ (Main!PollIsCut \/ Main!PollSaveFails)) \/ Main!Die
  PROVE  MainInv'
<1>. NFiles \in Nat /\ NFiles > 0
  BY MainOk DEF Main!MainAssumption
<1>1. MainTypes'
  BY DEF Main!PollIsCut, Main!PollSaveFails, Main!Die, Main!data, MainInv, MainTypes
<1>2. MainFlow'
  BY DEF Main!PollIsCut, Main!PollSaveFails, Main!Die, Main!data, Main!Running, MainInv, MainFlow
<1>3. /\ UNCHANGED <<events, saved, reported, read>>
      /\ loop' \in {"idle", "off"} /\ (loop = "off" => loop' = "off")
      /\ unsaved' \in {unsaved, unsaved + 1}
      /\ loop = "poll" /\ next > 1 => unsaved' = unsaved + 1
  BY DEF Main!PollIsCut, Main!PollSaveFails, Main!Die, Main!data
<1>. QED  BY <1>1, <1>2, <1>3, UnsavedKeepsMain, Zenon

\* Some findings of a file are written and the cursor stays.
LEMMA PollFileFailsKeepsMain ==
  ASSUME MainInv, Main!Running, Main!PollFileFails
  PROVE  MainInv'
<1>. USE DEF MainInv
<1>. NFiles \in Nat
  BY MainOk DEF Main!MainAssumption
<1>1. next \in Main!EventFiles /\ read[next] <= events[next] /\ next' = next + 1
  BY DEF Main!PollFileFails, Main!EventFiles, MainTypes, MainNumbers
<1>2. PICK w \in 0..events[next] - read[next] :
        /\ reported' = [reported EXCEPT ![next] = @ + w]
        /\ unsaved' = IF w > 0 THEN unsaved + 1 ELSE unsaved
  BY DEF Main!PollFileFails
<1>3. /\ UNCHANGED <<events, saved, loop, main, status, read>> /\ loop = "poll"
      /\ w \in Nat /\ w <= events[next] - read[next]
      /\ events[next] \in Nat /\ read[next] \in Nat
  BY <1>1, <1>2 DEF Main!PollFileFails, MainTypes
<1>4. MainTypes'
  <2>1. reported' \in [Main!EventFiles -> Nat]
    BY <1>1, <1>2, <1>3 DEF MainTypes
  <2>2. next' \in 1..NFiles + 1 /\ unsaved' \in Nat
    BY <1>1, <1>2, <1>3 DEF MainTypes, Main!EventFiles
  <2>. QED  BY <1>3, <2>1, <2>2 DEF MainTypes
<1>5. MainFlow'
  BY <1>3 DEF MainFlow
<1>6. MainNumbers'
  <2>. SUFFICES ASSUME NEW g \in Main!EventFiles
                PROVE  MainNumbers!(g)'
    BY DEF MainNumbers
  <2>. DEFINE p == events[g] * unsaved
              q == events[g] * unsaved'
  <2>1. /\ p \in Nat /\ q \in Nat /\ events[g] \in Nat /\ saved[g] \in Nat
        /\ reported[g] \in Nat /\ read[g] \in Nat /\ next \in Nat /\ next >= 1
    BY <1>4, Product DEF MainTypes
  <2>2. q = (IF w > 0 THEN p + events[g] ELSE p)
    BY <1>2, Product DEF MainTypes
  <2>3. reported'[g] = IF g = next THEN reported[g] + w ELSE reported[g]
    BY <1>2 DEF MainTypes
  <2>4. g = next => w <= events[g] - read[g]
    BY <1>3
  <2>5. /\ saved[g] <= reported[g] /\ saved[g] <= events[g]
        /\ read[g] <= reported[g] /\ read[g] <= events[g]
        /\ reported[g] <= read[g] + p
    BY <1>3 DEF MainNumbers
  <2>. HIDE DEF p, q
  <2>6. /\ saved[g] <= reported'[g] /\ read[g] <= reported'[g]
        /\ reported'[g] <= read[g] + q
    BY <1>3, <2>1, <2>2, <2>3, <2>4, <2>5
  <2>7. next' > 1
    BY <1>1, <2>1
  <2>. QED  BY <1>3, <2>5, <2>6, <2>7 DEF q
<1>. QED  BY <1>4, <1>5, <1>6

LEMMA LoopKeepsMain ==
  ASSUME MainInv, Main!Loop \/ (Main!Running /\ Main!LoopEnds)
  PROVE  MainInv'
<1>. USE DEF MainInv
<1>. NFiles \in Nat
  BY MainOk DEF Main!MainAssumption
<1>. Main!Running
  BY DEF Main!Loop
<1>1. CASE Main!PollSaves
  BY <1>1 DEF Main!PollSaves, Main!Running, MainTypes, MainFlow, MainNumbers
<1>2. CASE Main!Tick
  BY <1>2 DEF Main!Tick, Main!data, Main!Running, MainTypes, MainFlow, MainNumbers
<1>3. CASE Main!LoopEnds
  BY <1>3 DEF Main!LoopEnds, Main!data, Main!Running, MainTypes, MainFlow, MainNumbers
<1>. QED  BY <1>1, <1>2, <1>3, PollFileKeepsMain, PollFileFailsKeepsMain, PollEndsKeepsMain,
             RunKeepsMain DEF Main!Loop

LEMMA MainInvariant == Spec => []MainInv
<1>1. MainInv /\ [Next]_vars => MainInv'
  <2>. SUFFICES ASSUME MainInv, [Next]_vars PROVE MainInv'
    OBVIOUS
  <2>1. CASE UNCHANGED vars
    BY <2>1, MainUntouched DEF vars
  <2>2. CASE StreamMoves
    BY <2>2, MainUntouched DEF StreamMoves, OfStream
  <2>3. CASE MetricsMoves
    BY <2>3, MainUntouched DEF MetricsMoves, OfMetrics
  <2>4. CASE MainMoves
    <3>1. Main!Next
      BY <2>4 DEF MainMoves, OfMain
    <3>2. CASE Main!Rest
      BY <3>2, MainUntouched DEF Main!Rest, Main!vars, Main!data, mainVars
    <3>. QED  BY <3>1, <3>2, EventArrivesKeepsMain, RunKeepsMain, LoopKeepsMain, PollEndsKeepsMain
               DEF Main!Next
  <2>. QED  BY <2>1, <2>2, <2>3, <2>4 DEF Next
<1>. QED  BY <1>1, MainInitially, PTL DEF Spec

\* Wherever a signal, an error, a failed start or a death stops the analyzer
\* process, the cursor is not past what was reported, the loop has ended before a
\* clean exit, and findings are repeated only where a position was not saved: a poll
\* was cut off, a write failed, or the process died (analyzer.go:104-184,
\* cmd/analyzer/main.go:126-167).
THEOREM RestartsNeverLose == Spec => []RestartsLoseNothing
<1>1. MainInv => RestartsLoseNothing
  <2>. SUFFICES ASSUME MainInv PROVE RestartsLoseNothing
    OBVIOUS
  <2>1. Main!CursorBehindReports
    BY DEF MainInv, MainNumbers, Main!CursorBehindReports
  <2>2. Main!LoopEndsFirst
    BY DEF MainInv, MainFlow, Main!LoopEndsFirst
  <2>3. ASSUME NEW f \in Main!EventFiles PROVE reported[f] <= events[f] * (1 + unsaved)
    <3>. DEFINE p == events[f] * unsaved
    <3>1. /\ p \in Nat /\ events[f] \in Nat /\ read[f] \in Nat /\ saved[f] \in Nat
          /\ reported[f] \in Nat /\ events[f] * (1 + unsaved) = p + events[f]
      <4>. events[f] \in Nat /\ unsaved \in Nat
        BY DEF MainInv, MainTypes
      <4>. 1 + unsaved = unsaved + 1
        OBVIOUS
      <4>. QED  BY Product DEF MainInv, MainTypes
    <3>2. /\ saved[f] <= events[f]
          /\ loop # "off" => read[f] <= events[f] /\ reported[f] <= read[f] + p
          /\ loop = "off" => reported[f] <= saved[f] + p
      BY DEF MainInv, MainNumbers
    <3>. HIDE DEF p
    <3>. QED  BY <3>1, <3>2
  <2>. QED  BY <2>1, <2>2, <2>3 DEF RestartsLoseNothing, Main!RepeatedByUnsavedOnly
<1>. QED  BY <1>1, MainInvariant, PTL

-----------------------------------------------------------------------------
(***************************************************************************)
(* The streaming call.                                                     *)
(***************************************************************************)
EventsIn(s) == Stream!Range(Script[s])
AllEvents == UNION {EventsIn(s) : s \in Streams}
Handled(s) == accepted[s] + rejected[s]
StoredOf(s) == stored \cap EventsIn(s)

StreamTypes ==
  /\ client \in [Streams -> {"new", "open", "halfClosed", "gone"}]
  /\ handler \in [Streams -> {"none", "recv", "ingest", "answer", "returned"}]
  /\ sent \in [Streams -> Nat] /\ wire \in [Streams -> Seq(AllEvents)]
  /\ accepted \in [Streams -> Nat] /\ rejected \in [Streams -> Nat] /\ errors \in [Streams -> Nat]
  /\ told \in [Streams -> {Stream!Untold, Stream!Failure} \cup
                 [kind : {"counts"}, accepted : Nat, rejected : Nat, errors : Nat]]

\* On its way is the part of the script between what was handled and what was sent.
StreamWire ==
  \A s \in Streams :
    /\ Handled(s) + Len(wire[s]) = sent[s] /\ sent[s] <= Len(Script[s])
    /\ \A i \in 1..Len(wire[s]) : wire[s][i] = Script[s][Handled(s) + i]
    /\ handler[s] = "ingest" => wire[s] # <<>>

\* The events of a stream in the store are as many as were accepted, and among
\* those that were handled.
StreamStored ==
  \A s \in Streams :
    /\ IsFiniteSet(StoredOf(s)) /\ Cardinality(StoredOf(s)) = accepted[s]
    /\ \A e \in StoredOf(s) : \E i \in 1..Handled(s) : e = Script[s][i]

\* A handler that answers a client which listens has handled all it sent.
StreamAnswered ==
  \A s \in Streams :
    /\ client[s] = "new" => told[s] = Stream!Untold /\ handler[s] = "none"
    /\ handler[s] = "answer" =>
         client[s] = "gone" \/ told[s] # Stream!Untold \/ (client[s] = "halfClosed" /\ wire[s] = <<>>)
    /\ told[s].kind = "counts" =>
         /\ handler[s] = "returned" /\ Handled(s) = sent[s]
         /\ told[s].accepted = accepted[s] /\ told[s].rejected = rejected[s]

StreamInv == StreamTypes /\ StreamWire /\ StreamStored /\ StreamAnswered

\* Handlers and events are as they were, and a client opens, closes or leaves.
ClientsMove ==
  /\ UNCHANGED <<sent, wire, handler, accepted, rejected, errors, told, stored>>
  /\ client' \in [Streams -> {"new", "open", "halfClosed", "gone"}]
  /\ \A s \in Streams :
       /\ client'[s] = "new" => client[s] = "new"
       /\ client[s] = "gone" => client'[s] = "gone"
       /\ client[s] = "halfClosed" => client'[s] \in {"halfClosed", "gone"}

LEMMA ClientsKeepStream ==
  ASSUME StreamInv, ClientsMove
  PROVE  StreamInv'
<1>1. /\ sent' = sent /\ wire' = wire /\ handler' = handler
      /\ accepted' = accepted /\ rejected' = rejected /\ errors' = errors
      /\ told' = told /\ stored' = stored
  BY DEF ClientsMove
<1>2. StreamTypes'
  BY <1>1 DEF StreamInv, StreamTypes, ClientsMove
<1>3. StreamWire'
  BY <1>1 DEF StreamInv, StreamWire, Handled
<1>4. StreamStored'
  BY <1>1 DEF StreamInv, StreamStored, Handled, StoredOf
<1>5. StreamAnswered'
  <2>. SUFFICES ASSUME NEW s \in Streams PROVE StreamAnswered!(s)'
    BY DEF StreamAnswered
  <2>1. /\ client'[s] = "new" => client[s] = "new"
        /\ client[s] = "gone" => client'[s] = "gone"
        /\ client[s] = "halfClosed" => client'[s] \in {"halfClosed", "gone"}
    BY DEF ClientsMove
  <2>2. StreamAnswered!(s)
    BY DEF StreamInv, StreamAnswered
  <2>. QED  BY <1>1, <2>1, <2>2 DEF Handled
<1>. QED  BY <1>2, <1>3, <1>4, <1>5 DEF StreamInv

\* The step of a process that is not the subject of the behaviour.
LEMMA StreamUntouched ==
  ASSUME StreamInv, UNCHANGED streamVars
  PROVE  StreamInv'
BY ClientsKeepStream DEF StreamInv, StreamTypes, ClientsMove, streamVars

\* What the constants are.
LEMMA Scripts ==
  /\ \A s \in Streams : Script[s] \in Seq(EventsIn(s)) /\ EventsIn(s) \subseteq AllEvents
  /\ \A s \in Streams : \A i, j \in 1..Len(Script[s]) : Script[s][i] = Script[s][j] => i = j
  /\ \A s, t \in Streams : s # t => EventsIn(s) \cap EventsIn(t) = {}
<1>1. \A s \in Streams : Script[s] \in Seq(EventsIn(s))
  BY StreamOk DEF Stream!StreamAssumption, EventsIn
<1>2. \A s \in Streams : \A i, j \in 1..Len(Script[s]) : Script[s][i] = Script[s][j] => i = j
  <2>. SUFFICES ASSUME NEW s \in Streams
                PROVE  \A i, j \in 1..Len(Script[s]) : Script[s][i] = Script[s][j] => i = j
    OBVIOUS
  <2>1. \A i, j \in DOMAIN Script[s] : Script[s][i] = Script[s][j] => i = j
    BY StreamOk DEF Stream!StreamAssumption, Stream!IsInjective
  <2>2. DOMAIN Script[s] = 1..Len(Script[s])
    BY <1>1
  <2>. QED  BY <2>1, <2>2
<1>3. \A s \in Streams : EventsIn(s) \subseteq AllEvents
  BY DEF AllEvents
<1>. QED  BY <1>1, <1>2, <1>3, StreamOk DEF Stream!StreamAssumption, EventsIn

LEMMA StreamInitially == Init => StreamInv
<1>. SUFFICES ASSUME Stream!Init PROVE StreamInv
  BY DEF Init
<1>1. StreamTypes
  BY DEF Stream!Init, Stream!Zero, StreamTypes
<1>2. StreamWire
  <2>. SUFFICES ASSUME NEW s \in Streams PROVE StreamWire!(s)
    BY DEF StreamWire
  <2>1. wire[s] = <<>> /\ Handled(s) = 0 /\ sent[s] = 0 /\ handler[s] = "none"
    BY DEF Stream!Init, Stream!Zero, Handled
  <2>2. Len(Script[s]) \in Nat
    BY Scripts
  <2>. QED  BY <2>1, <2>2
<1>3. StreamStored
  BY FS_EmptySet DEF Stream!Init, Stream!Zero, StreamStored, StoredOf
<1>4. StreamAnswered
  BY DEF Stream!Init, Stream!Zero, Stream!Untold, StreamAnswered
<1>. QED  BY <1>1, <1>2, <1>3, <1>4 DEF StreamInv

\* Steps of a client or of the process that move no event.
LEMMA StillKeepsStream ==
  ASSUME StreamInv,
         \/ \E s \in Streams : Stream!Open(s) \/ Stream!CloseSend(s) \/ Stream!Leave(s)
         \/ Stream!Signal \/ Stream!Drained \/ Stream!Killed \/ Stream!Rest
  PROVE  StreamInv'
<1>. USE DEF StreamInv, Stream!counts, Stream!peer
<1>1. ASSUME NEW s \in Streams, Stream!Open(s) PROVE StreamInv'
  <2>1. StreamTypes'
    BY <1>1 DEF Stream!Open, StreamTypes
  <2>4. StreamWire'
    BY <1>1 DEF Stream!Open, StreamTypes, StreamWire, Handled
  <2>2. StreamStored'
    BY <1>1 DEF Stream!Open, StreamStored, Handled, StoredOf
  <2>3. StreamAnswered'
    <3>. SUFFICES ASSUME NEW u \in Streams PROVE StreamAnswered!(u)'
      BY DEF StreamAnswered
    <3>1. CASE u = s
      <4>1. told'[s].kind = "untold" /\ handler'[s] = "recv" /\ client'[s] = "open"
        BY <1>1 DEF Stream!Open, Stream!Untold, StreamTypes, StreamAnswered
      <4>. QED  BY <3>1, <4>1
    <3>2. CASE u # s
      BY <3>2, <1>1 DEF Stream!Open, StreamTypes, StreamAnswered, Handled
    <3>. QED  BY <3>1, <3>2
  <2>. QED  BY <2>1, <2>2, <2>3, <2>4
<1>2. ASSUME NEW s \in Streams, Stream!CloseSend(s) \/ Stream!Leave(s) PROVE StreamInv'
  BY <1>2, ClientsKeepStream DEF Stream!CloseSend, Stream!Leave, StreamTypes, ClientsMove
<1>3. CASE Stream!Killed
  BY <1>3, ClientsKeepStream DEF Stream!Killed, StreamTypes, ClientsMove
<1>4. CASE Stream!Signal \/ Stream!Drained \/ Stream!Rest
  BY <1>4, ClientsKeepStream
  DEF Stream!Signal, Stream!Drained, Stream!Rest, Stream!vars, StreamTypes, ClientsMove
<1>. QED  BY <1>1, <1>2, <1>3, <1>4

\* A step of one call leaves the others alone.
OnlyCall(s) ==
  \A u \in Streams \ {s} :
    /\ sent'[u] = sent[u] /\ wire'[u] = wire[u] /\ handler'[u] = handler[u]
    /\ accepted'[u] = accepted[u] /\ rejected'[u] = rejected[u] /\ told'[u] = told[u]
    /\ StoredOf(u)' = StoredOf(u)

LEMMA OthersKeepStream ==
  ASSUME StreamInv, NEW s \in Streams, client' = client, OnlyCall(s), StreamTypes',
         StreamWire!(s)', StreamStored!(s)', StreamAnswered!(s)'
  PROVE  StreamInv'
<1>1. ASSUME NEW u \in Streams, u # s
      PROVE  StreamWire!(u)' /\ StreamStored!(u)' /\ StreamAnswered!(u)'
  <2>1. /\ client'[u] = client[u] /\ Handled(u)' = Handled(u)
        /\ sent'[u] = sent[u] /\ wire'[u] = wire[u] /\ handler'[u] = handler[u]
        /\ accepted'[u] = accepted[u] /\ rejected'[u] = rejected[u] /\ told'[u] = told[u]
        /\ StoredOf(u)' = StoredOf(u)
    BY <1>1 DEF OnlyCall, Handled
  <2>2. StreamWire!(u) /\ StreamStored!(u) /\ StreamAnswered!(u)
    BY DEF StreamInv, StreamWire, StreamStored, StreamAnswered
  <2>3. StreamWire!(u)'
    BY <2>1, <2>2
  <2>4. StreamStored!(u)'
    BY <2>1, <2>2
  <2>5. StreamAnswered!(u)'
    BY <2>1, <2>2
  <2>. QED  BY <2>3, <2>4, <2>5
<1>2. StreamWire'
  BY <1>1 DEF StreamWire
<1>3. StreamStored'
  BY <1>1 DEF StreamStored
<1>4. StreamAnswered'
  BY <1>1 DEF StreamAnswered
<1>. QED  BY <1>2, <1>3, <1>4 DEF StreamInv

LEMMA SendKeepsStream ==
  ASSUME StreamInv, NEW s \in Streams, Stream!Send(s)
  PROVE  StreamInv'
<1>. USE DEF Stream!counts
<1>. DEFINE e == Script[s][sent[s] + 1]
<1>1. /\ sent[s] \in Nat /\ sent[s] < Len(Script[s]) /\ Len(Script[s]) \in Nat
      /\ Script[s] \in Seq(AllEvents) /\ wire[s] \in Seq(AllEvents)
      /\ Handled(s) \in Nat /\ Handled(s) + Len(wire[s]) = sent[s]
      /\ client[s] = "open" /\ told[s] = Stream!Untold
  BY Scripts DEF Stream!Send, StreamInv, StreamTypes, StreamWire, Handled
<1>2. e \in AllEvents
  BY <1>1
<1>3. /\ client' = client /\ handler' = handler /\ accepted' = accepted
      /\ rejected' = rejected /\ errors' = errors /\ told' = told /\ stored' = stored
      /\ sent' = [sent EXCEPT ![s] = @ + 1]
      /\ wire' = [wire EXCEPT ![s] = Append(wire[s], e)]
  BY DEF Stream!Send
<1>. HIDE DEF e
<1>4. StreamTypes'
  <2>1. Append(wire[s], e) \in Seq(AllEvents)
    BY <1>1, <1>2, AppendProperties
  <2>2. sent' \in [Streams -> Nat]
    BY <1>1, <1>3 DEF StreamInv, StreamTypes
  <2>3. wire' \in [Streams -> Seq(AllEvents)]
    BY <1>3, <2>1 DEF StreamInv, StreamTypes
  <2>. QED  BY <1>3, <2>2, <2>3 DEF StreamInv, StreamTypes
<1>5. sent'[s] = sent[s] + 1 /\ wire'[s] = Append(wire[s], e) /\ Handled(s)' = Handled(s)
  BY <1>3 DEF StreamInv, StreamTypes, Handled
<1>6. StreamWire!(s)'
  <2>1. StreamWire!(s)
    BY DEF StreamInv, StreamWire
  <2>2. Len(wire'[s]) = Len(wire[s]) + 1 /\ wire'[s] # <<>>
    <3>1. wire[s] \in Seq(AllEvents)
      BY <1>1
    <3>2. Len(Append(wire[s], e)) = Len(wire[s]) + 1 /\ Append(wire[s], e) # <<>>
      BY <1>2, <3>1, AppendProperties
    <3>. QED  BY <1>5, <3>2
  <2>3. ASSUME NEW i \in 1..Len(wire'[s]) PROVE wire'[s][i] = Script[s][Handled(s)' + i]
    <3>1. CASE i \in 1..Len(wire[s])
      <4>1. wire[s][i] = Script[s][Handled(s) + i]
        BY <3>1, <2>1
      <4>2. Append(wire[s], e)[i] = wire[s][i]
        BY <3>1, <1>1, <1>2, AppendProperties
      <4>. QED  BY <4>1, <4>2, <1>5
    <3>2. CASE i = Len(wire[s]) + 1
      <4>1. wire'[s][i] = e
        BY <3>2, <1>1, <1>2, <1>5, AppendProperties
      <4>2. Handled(s)' + i = sent[s] + 1
        BY <3>2, <1>1, <1>5
      <4>. QED  BY <4>1, <4>2 DEF e
    <3>. QED  BY <3>1, <3>2, <2>2, <1>1
  <2>. DEFINE L == Len(wire'[s])
  <2>5. \A i \in 1..L : wire'[s][i] = Script[s][Handled(s)' + i]
    BY <2>3
  <2>4. Handled(s)' + L = sent'[s] /\ sent'[s] <= Len(Script[s])
    <3>1. Len(wire[s]) \in Nat
      BY <1>1, LenProperties
    <3>2. Handled(s)' = Handled(s) /\ sent'[s] = sent[s] + 1
      BY <1>5
    <3>3. L = Len(wire[s]) + 1
      BY <2>2
    <3>4. /\ Handled(s) \in Nat /\ sent[s] \in Nat /\ Handled(s) + Len(wire[s]) = sent[s]
          /\ Len(Script[s]) \in Nat /\ sent[s] < Len(Script[s])
      BY <1>1
    <3>. HIDE DEF L
    <3>. QED  BY <3>1, <3>2, <3>3, <3>4
  <2>6. Handled(s)' + Len(wire'[s]) = sent'[s] /\ sent'[s] <= Len(Script[s])
    BY <2>4
  <2>. QED  BY <2>2, <2>5, <2>6, Zenon
<1>7. StreamStored!(s)' /\ OnlyCall(s)
  <2>1. StreamStored!(s)
    BY DEF StreamInv, StreamStored
  <2>2. StoredOf(s)' = StoredOf(s) /\ \A u \in Streams : StoredOf(u)' = StoredOf(u)
    BY <1>3 DEF StoredOf
  <2>3. OnlyCall(s)
    BY <1>3, <2>2 DEF StreamInv, StreamTypes, OnlyCall
  <2>. QED  BY <1>3, <1>5, <2>1, <2>2, <2>3
<1>8. StreamAnswered!(s)'
  <2>1. told[s].kind = "untold"
    BY <1>1 DEF Stream!Untold
  <2>2. StreamAnswered!(s)
    BY DEF StreamInv, StreamAnswered
  <2>. QED  BY <1>1, <1>3, <2>1, <2>2
<1>. QED  BY <1>3, <1>4, <1>6, <1>7, <1>8, OthersKeepStream

\* Recv, whatever it returns, and the answer leave counts and store alone.
LEMMA HandlerKeepsStream ==
  ASSUME StreamInv, NEW s \in Streams,
         Stream!Recv(s) \/ Stream!RecvEnds(s) \/ Stream!Answer(s)
  PROVE  StreamInv'
<1>. USE DEF Stream!counts, Stream!peer, Stream!Goto, Stream!At
<1>1. /\ client' = client /\ sent' = sent /\ wire' = wire /\ accepted' = accepted
      /\ rejected' = rejected /\ errors' = errors /\ stored' = stored
  BY DEF Stream!Recv, Stream!RecvEnds, Stream!Answer
<1>2. /\ accepted[s] \in Nat /\ rejected[s] \in Nat /\ errors[s] \in Nat
      /\ handler \in [Streams -> {"none", "recv", "ingest", "answer", "returned"}]
      /\ told \in [Streams -> {Stream!Untold, Stream!Failure} \cup
                     [kind : {"counts"}, accepted : Nat, rejected : Nat, errors : Nat]]
  BY DEF StreamInv, StreamTypes
<1>3. /\ handler' \in [Streams -> {"none", "recv", "ingest", "answer", "returned"}]
      /\ \A u \in Streams \ {s} : handler'[u] = handler[u]
  BY <1>2 DEF Stream!Recv, Stream!RecvEnds, Stream!Answer
<1>4. /\ \A u \in Streams \ {s} : told'[u] = told[u]
      /\ told' \in [Streams -> {Stream!Untold, Stream!Failure} \cup
                      [kind : {"counts"}, accepted : Nat, rejected : Nat, errors : Nat]]
  <2>1. CASE told' = told
    BY <2>1, <1>2
  <2>2. CASE told' = [told EXCEPT ![s] = Stream!Failure]
    BY <2>2, <1>2
  <2>3. CASE told' = [told EXCEPT ![s] = Stream!Counts(accepted[s], rejected[s], errors[s])]
    <3>1. Stream!Counts(accepted[s], rejected[s], errors[s])
            \in [kind : {"counts"}, accepted : Nat, rejected : Nat, errors : Nat]
      BY <1>2 DEF Stream!Counts
    <3>. QED  BY <2>3, <3>1, <1>2
  <2>4. CASE told' = [told EXCEPT ![s] = told[s]]
    BY <2>4, <1>2
  <2>. QED  BY <2>1, <2>2, <2>3, <2>4 DEF Stream!Recv, Stream!RecvEnds, Stream!Answer
<1>5. StreamTypes'
  BY <1>1, <1>3, <1>4 DEF StreamInv, StreamTypes
<1>6. StreamStored!(s)' /\ OnlyCall(s)
  BY <1>1, <1>3, <1>4 DEF StreamInv, StreamStored, StoredOf, OnlyCall, Handled
<1>7. StreamWire!(s)'
  <2>1. handler'[s] = "ingest" => wire[s] # <<>>
    BY <1>2 DEF Stream!Recv, Stream!RecvEnds, Stream!Answer, Stream!Readable
  <2>2. StreamWire!(s)
    BY DEF StreamInv, StreamWire
  <2>. QED  BY <1>1, <2>1, <2>2 DEF Handled
<1>8. StreamAnswered!(s) /\ StreamWire!(s)
  BY DEF StreamInv, StreamAnswered, StreamWire
<1>9. StreamAnswered!(s)'
  <2>1. CASE Stream!Recv(s)
    <3>1. handler[s] = "recv" /\ handler'[s] = "ingest" /\ told' = told
      BY <2>1, <1>2 DEF Stream!Recv
    <3>. QED  BY <3>1, <1>1, <1>8
  <2>2. CASE Stream!RecvEnds(s)
    <3>1. handler[s] = "recv" /\ handler'[s] = "answer"
      BY <2>2, <1>2 DEF Stream!RecvEnds
    <3>2. CASE told' = told /\ (client[s] = "gone" \/ (client[s] = "halfClosed" /\ wire[s] = <<>>))
      BY <3>1, <3>2, <1>1, <1>8
    <3>3. CASE told' = [told EXCEPT ![s] = Stream!Failure] /\ wire[s] # <<>>
      <4>1. told'[s] = Stream!Failure /\ told'[s].kind = "failed" /\ told'[s] # Stream!Untold
        BY <3>3, <1>2 DEF Stream!Failure, Stream!Untold
      <4>2. client[s] # "new"
        BY <3>1, <1>8
      <4>. QED  BY <3>1, <4>1, <4>2, <1>1
    <3>. QED  BY <2>2, <3>2, <3>3 DEF Stream!RecvEnds
  <2>3. CASE Stream!Answer(s)
    <3>1. handler[s] = "answer" /\ handler'[s] = "returned"
      BY <2>3, <1>2 DEF Stream!Answer
    <3>2. CASE told'[s] = told[s]
      BY <3>1, <3>2, <1>1, <1>8
    <3>3. CASE /\ client[s] # "gone" /\ told[s] = Stream!Untold
               /\ told'[s] = Stream!Counts(accepted[s], rejected[s], errors[s])
      <4>1. client[s] = "halfClosed" /\ wire[s] = <<>>
        BY <3>1, <3>3, <1>8
      <4>2. Handled(s) = sent[s]
        BY <4>1, <1>2, <1>8 DEF Handled
      <4>. QED  BY <3>1, <3>3, <4>1, <4>2, <1>1 DEF Stream!Counts, Handled
    <3>. QED  BY <2>3, <3>2, <3>3, <1>2 DEF Stream!Answer
  <2>. QED  BY <2>1, <2>2, <2>3
<1>. QED  BY <1>1, <1>5, <1>6, <1>7, <1>9, OthersKeepStream

\* The event at the head of the wire is the next of the script, and new to the
\* store; behind it the wire goes on as before.
LEMMA NextOnTheWire ==
  ASSUME StreamInv, NEW s \in Streams, wire[s] # <<>>
  PROVE  /\ Head(wire[s]) = Script[s][Handled(s) + 1] /\ Head(wire[s]) \in EventsIn(s)
         /\ Head(wire[s]) \notin stored
         /\ Tail(wire[s]) \in Seq(AllEvents) /\ Len(Tail(wire[s])) = Len(wire[s]) - 1
         /\ \A i \in 1..Len(Tail(wire[s])) : Tail(wire[s])[i] = Script[s][Handled(s) + 1 + i]
<1>1. /\ wire[s] \in Seq(AllEvents) /\ Len(wire[s]) \in Nat /\ Handled(s) \in Nat
      /\ sent[s] \in Nat /\ Len(Script[s]) \in Nat /\ Script[s] \in Seq(EventsIn(s))
  BY Scripts DEF StreamInv, StreamTypes, Handled
<1>2. /\ Handled(s) + Len(wire[s]) = sent[s] /\ sent[s] <= Len(Script[s])
      /\ \A i \in 1..Len(wire[s]) : wire[s][i] = Script[s][Handled(s) + i]
  BY DEF StreamInv, StreamWire
<1>3. Len(wire[s]) >= 1
  BY <1>1, EmptySeq
<1>4. Head(wire[s]) = wire[s][1] /\ wire[s][1] = Script[s][Handled(s) + 1]
  BY <1>1, <1>2, <1>3
<1>5. Handled(s) + 1 \in 1..Len(Script[s])
  BY <1>1, <1>2, <1>3
<1>6. Script[s][Handled(s) + 1] \in EventsIn(s)
  BY <1>1, <1>5
<1>7. Script[s][Handled(s) + 1] \notin stored
  <2>. SUFFICES ASSUME Script[s][Handled(s) + 1] \in StoredOf(s) PROVE FALSE
    BY <1>6 DEF StoredOf
  <2>1. PICK i \in 1..Handled(s) : Script[s][Handled(s) + 1] = Script[s][i]
    BY DEF StreamInv, StreamStored
  <2>2. i \in 1..Len(Script[s]) /\ i # Handled(s) + 1
    BY <1>1, <1>5
  <2>. QED  BY <2>1, <2>2, <1>5, Scripts
<1>8. /\ Tail(wire[s]) \in Seq(AllEvents) /\ Len(Tail(wire[s])) = Len(wire[s]) - 1
      /\ \A i \in 1..Len(Tail(wire[s])) : Tail(wire[s])[i] = wire[s][i + 1]
  BY <1>1, HeadTailProperties
<1>9. ASSUME NEW i \in 1..Len(Tail(wire[s]))
      PROVE  Tail(wire[s])[i] = Script[s][Handled(s) + 1 + i]
  <2>1. i + 1 \in 1..Len(wire[s]) /\ Handled(s) + (i + 1) = Handled(s) + 1 + i
    BY <1>1, <1>8
  <2>. QED  BY <2>1, <1>2, <1>8
<1>. QED  BY <1>4, <1>6, <1>7, <1>8, <1>9

\* An event is handled: it leaves the wire, and one count goes up.
LEMMA IngestKeepsStream ==
  ASSUME StreamInv, NEW s \in Streams, Stream!Accept(s) \/ Stream!Refuse(s)
  PROVE  StreamInv'
<1>. USE DEF Stream!peer, Stream!Goto, Stream!At, Stream!Ingested, Stream!CountOne
<1>1. /\ client' = client /\ sent' = sent /\ told' = told
      /\ handler[s] = "ingest" /\ handler' = [handler EXCEPT ![s] = "recv"]
      /\ wire' = [wire EXCEPT ![s] = Tail(wire[s])]
  BY DEF Stream!Accept, Stream!Refuse
<1>2. wire[s] # <<>>
  BY <1>1 DEF StreamInv, StreamWire
<1>3. \/ /\ accepted' = [accepted EXCEPT ![s] = @ + 1] /\ rejected' = rejected
         /\ stored' = stored \cup {Head(wire[s])}
      \/ /\ rejected' = [rejected EXCEPT ![s] = @ + 1] /\ accepted' = accepted
         /\ stored' = stored
  BY DEF Stream!Accept, Stream!Refuse
<1>4. errors' = errors \/ errors' = [errors EXCEPT ![s] = @ + 1]
  BY DEF Stream!Accept, Stream!Refuse
<1>5. /\ accepted \in [Streams -> Nat] /\ rejected \in [Streams -> Nat]
      /\ errors \in [Streams -> Nat] /\ wire \in [Streams -> Seq(AllEvents)]
      /\ handler \in [Streams -> {"none", "recv", "ingest", "answer", "returned"}]
  BY DEF StreamInv, StreamTypes
<1>6. StreamTypes'
  <2>. /\ accepted[s] + 1 \in Nat /\ rejected[s] + 1 \in Nat /\ errors[s] + 1 \in Nat
    BY <1>5
  <2>1. accepted' \in [Streams -> Nat] /\ rejected' \in [Streams -> Nat]
    BY <1>3, <1>5
  <2>2. errors' \in [Streams -> Nat]
    BY <1>4, <1>5
  <2>3. wire' \in [Streams -> Seq(AllEvents)]
    BY <1>1, <1>2, <1>5, NextOnTheWire
  <2>. QED  BY <1>1, <2>1, <2>2, <2>3 DEF StreamInv, StreamTypes
<1>7. Handled(s)' = Handled(s) + 1 /\ Handled(s) \in Nat
  BY <1>3, <1>5 DEF Handled
<1>8. wire'[s] = Tail(wire[s]) /\ handler'[s] = "recv"
  BY <1>1, <1>5
<1>9. StreamWire!(s)'
  <2>1. Handled(s) + Len(wire[s]) = sent[s] /\ sent[s] <= Len(Script[s]) /\ Len(wire[s]) \in Nat
    BY <1>5 DEF StreamInv, StreamWire
  <2>2. Len(wire'[s]) = Len(wire[s]) - 1
    BY <1>2, <1>8, NextOnTheWire
  <2>3. Handled(s)' + Len(wire'[s]) = sent'[s] /\ sent'[s] <= Len(Script[s])
    BY <2>1, <2>2, <1>1, <1>7
  <2>4. \A i \in 1..Len(wire'[s]) : wire'[s][i] = Script[s][Handled(s)' + i]
    BY <1>2, <1>7, <1>8, NextOnTheWire
  <2>. QED  BY <2>3, <2>4, <1>8
<1>10. StreamStored!(s)'
  <2>1. StreamStored!(s)
    BY DEF StreamInv, StreamStored
  <2>2. CASE stored' = stored /\ accepted' = accepted
    <3>1. StoredOf(s)' = StoredOf(s)
      BY <2>2 DEF StoredOf
    <3>2. \A i \in 1..Handled(s) : i \in 1..Handled(s)'
      BY <1>7
    <3>. QED  BY <2>1, <2>2, <3>1, <3>2
  <2>3. CASE stored' = stored \cup {Head(wire[s])} /\ accepted'[s] = accepted[s] + 1
    <3>1. /\ StoredOf(s)' = StoredOf(s) \cup {Head(wire[s])}
          /\ Head(wire[s]) \notin StoredOf(s)
      BY <2>3, <1>2, NextOnTheWire DEF StoredOf
    <3>2. IsFiniteSet(StoredOf(s)') /\ Cardinality(StoredOf(s)') = accepted'[s]
      BY <2>1, <2>3, <3>1, FS_AddElement
    <3>3. ASSUME NEW e \in StoredOf(s)' PROVE \E i \in 1..Handled(s)' : e = Script[s][i]
      <4>1. CASE e \in StoredOf(s)
        <5>1. PICK i \in 1..Handled(s) : e = Script[s][i]
          BY <4>1, <2>1
        <5>. QED  BY <5>1, <1>7
      <4>2. CASE e = Head(wire[s])
        <5>1. e = Script[s][Handled(s) + 1]
          BY <4>2, <1>2, NextOnTheWire
        <5>2. Handled(s) + 1 \in 1..Handled(s)'
          BY <1>7
        <5>. QED  BY <5>1, <5>2
      <4>. QED  BY <4>1, <4>2, <3>1
    <3>. QED  BY <3>2, <3>3
  <2>. QED  BY <2>2, <2>3, <1>3, <1>5
<1>11. StreamAnswered!(s)'
  <2>1. StreamAnswered!(s)
    BY DEF StreamInv, StreamAnswered
  <2>. QED  BY <2>1, <1>1, <1>8
<1>12. OnlyCall(s)
  <2>. SUFFICES ASSUME NEW u \in Streams \ {s} PROVE OnlyCall(s)!(u)
    BY DEF OnlyCall
  <2>1. StoredOf(u)' = StoredOf(u)
    <3>1. Head(wire[s]) \notin EventsIn(u)
      BY <1>2, NextOnTheWire, Scripts
    <3>. QED  BY <3>1, <1>3 DEF StoredOf
  <2>2. /\ wire'[u] = wire[u] /\ handler'[u] = handler[u]
        /\ accepted'[u] = accepted[u] /\ rejected'[u] = rejected[u]
    BY <1>1, <1>3, <1>5
  <2>. QED  BY <2>1, <2>2, <1>1
<1>. QED  BY <1>1, <1>6, <1>9, <1>10, <1>11, <1>12, OthersKeepStream

LEMMA StreamInvariant == Spec => []StreamInv
<1>1. StreamInv /\ [Next]_vars => StreamInv'
  <2>. SUFFICES ASSUME StreamInv, [Next]_vars PROVE StreamInv'
    OBVIOUS
  <2>1. CASE UNCHANGED vars
    BY <2>1, StreamUntouched DEF vars
  <2>2. CASE MainMoves
    BY <2>2, StreamUntouched DEF MainMoves, OfMain
  <2>3. CASE MetricsMoves
    BY <2>3, StreamUntouched DEF MetricsMoves, OfMetrics
  <2>4. CASE StreamMoves
    <3>1. Stream!Next
      BY <2>4 DEF StreamMoves, OfStream
    <3>. QED  BY <3>1, StillKeepsStream, SendKeepsStream, HandlerKeepsStream, IngestKeepsStream
              DEF Stream!Next, Stream!IngestEventStream
  <2>. QED  BY <2>1, <2>2, <2>3, <2>4 DEF Next
<1>. QED  BY <1>1, StreamInitially, PTL DEF Spec

\* A client that is answered with counts has had every event it sent handled, and
\* the store holds as many of them as the answer says, for any number of streams
\* whose clients close, cancel and come apart from a server that is stopped at any
\* time (pipeline.go:216-241).
THEOREM StreamAnswersAreAlwaysTrue == Spec => []StreamAnswersAreTrue
<1>1. StreamInv => StreamAnswersAreTrue
  <2>. SUFFICES ASSUME StreamInv, NEW s \in Streams, told[s].kind = "counts"
                PROVE  /\ told[s].accepted + told[s].rejected = sent[s]
                       /\ told[s].accepted = Stream!Cardinality(stored \cap Stream!Range(Script[s]))
    BY DEF StreamAnswersAreTrue, Stream!AnswerCoversSent, Stream!AcceptedAreStored
  <2>1. /\ Handled(s) = sent[s] /\ told[s].accepted = accepted[s] /\ told[s].rejected = rejected[s]
    BY DEF StreamInv, StreamAnswered
  <2>2. Cardinality(StoredOf(s)) = accepted[s]
    BY DEF StreamInv, StreamStored
  <2>3. Stream!Cardinality(StoredOf(s)) = Cardinality(StoredOf(s))
    BY DEF Stream!Cardinality, Cardinality
  <2>. QED  BY <2>1, <2>2, <2>3 DEF Handled, StoredOf, EventsIn
<1>. QED  BY <1>1, StreamInvariant, PTL

-----------------------------------------------------------------------------
(***************************************************************************)
(* The exporter: counting places.                                          *)
(***************************************************************************)
Findings(ls, l) == {p \in Metrics!Places(ls) : Metrics!FindingAt(ls, p, l)}
LinesBy(ls, t) == {p \in Metrics!Places(ls) : TenantOf[p[1]] = t}

\* The places in files a walk has done with, and those in one file.
Visited(G, D) == {p \in G : p[1] \notin D}
Row(G, f) == {p \in G : p[1] = f}

Line == [label : Labels \cup {NoType}, whole : BOOLEAN]
WellFormed(ls) == IsFiniteSet(DOMAIN ls) /\ \A f \in DOMAIN ls : ls[f] \in Seq(Line)

\* What the analyzer does to the directory: lines are added and completed.
Extended(a, b) ==
  /\ DOMAIN a \subseteq DOMAIN b
  /\ \A f \in DOMAIN a :
       /\ Len(a[f]) <= Len(b[f])
       /\ \A i \in 1..Len(a[f]) :
            b[f][i].label = a[f][i].label /\ (a[f][i].whole => b[f][i].whole)

LEMMA PlacesAre ==
  ASSUME NEW ls, WellFormed(ls)
  PROVE  /\ IsFiniteSet(Metrics!Places(ls))
         /\ \A p : p \in Metrics!Places(ls) <=>
              \E f \in DOMAIN ls : \E i \in 1..Len(ls[f]) : p = <<f, i>>
<1>. DEFINE rows == {{f} \X DOMAIN ls[f] : f \in DOMAIN ls}
            row == [f \in DOMAIN ls |-> {f} \X DOMAIN ls[f]]
<1>1. \A f \in DOMAIN ls : DOMAIN ls[f] = 1..Len(ls[f]) /\ Len(ls[f]) \in Nat
  BY DEF WellFormed
<1>2. \A p : p \in UNION rows <=> \E f \in DOMAIN ls : \E i \in 1..Len(ls[f]) : p = <<f, i>>
  <2>1. ASSUME NEW p \in UNION rows PROVE \E f \in DOMAIN ls : \E i \in 1..Len(ls[f]) : p = <<f, i>>
    <3>1. PICK f \in DOMAIN ls : p \in {f} \X DOMAIN ls[f]
      OBVIOUS
    <3>2. p[2] \in 1..Len(ls[f]) /\ p = <<f, p[2]>>
      BY <1>1, <3>1
    <3>. QED  BY <3>2
  <2>2. ASSUME NEW f \in DOMAIN ls, NEW i \in 1..Len(ls[f]) PROVE <<f, i>> \in UNION rows
    <3>1. <<f, i>> \in {f} \X DOMAIN ls[f]
      BY <1>1
    <3>. QED  BY <3>1
  <2>. QED  BY <2>1, <2>2
<1>3. IsFiniteSet(rows)
  <2>1. row \in Surjection(DOMAIN ls, rows)
    BY DEF Surjection
  <2>. QED  BY <2>1, FS_Surjection DEF WellFormed
<1>4. ASSUME NEW r \in rows PROVE IsFiniteSet(r)
  <2>1. PICK f \in DOMAIN ls : r = {f} \X DOMAIN ls[f]
    OBVIOUS
  <2>2. IsFiniteSet(DOMAIN ls[f])
    <3>. 1 \in Int /\ Len(ls[f]) \in Int
      BY <1>1
    <3>. QED  BY <1>1, FS_Interval
  <2>. QED  BY <2>1, <2>2, FS_Singleton, FS_Product
<1>5. IsFiniteSet(UNION rows)
  BY <1>3, <1>4, FS_UNION
<1>6. Metrics!Places(ls) = UNION rows
  BY DEF Metrics!Places
<1>. QED  BY <1>2, <1>5, <1>6

LEMMA PlaceSetsFinite ==
  ASSUME NEW ls, WellFormed(ls), NEW x, NEW D
  PROVE  /\ IsFiniteSet(Findings(ls, x)) /\ IsFiniteSet(LinesBy(ls, x))
         /\ IsFiniteSet(Visited(Findings(ls, x), D)) /\ IsFiniteSet(Visited(LinesBy(ls, x), D))
<1>1. Findings(ls, x) \in SUBSET Metrics!Places(ls)
  BY DEF Findings
<1>2. LinesBy(ls, x) \in SUBSET Metrics!Places(ls)
  BY DEF LinesBy
<1>3. Visited(Findings(ls, x), D) \in SUBSET Metrics!Places(ls)
  BY <1>1 DEF Visited
<1>4. Visited(LinesBy(ls, x), D) \in SUBSET Metrics!Places(ls)
  BY <1>2 DEF Visited
<1>. QED  BY <1>1, <1>2, <1>3, <1>4, PlacesAre, FS_Subset

\* A walk that has done one more file has done the places in it besides.
LEMMA VisitOne ==
  ASSUME NEW G, IsFiniteSet(G), NEW D, NEW f \in D
  PROVE  /\ Cardinality(Visited(G, D)) \in Nat /\ Cardinality(Row(G, f)) \in Nat
         /\ Cardinality(Visited(G, D \ {f})) = Cardinality(Visited(G, D)) + Cardinality(Row(G, f))
<1>1. Visited(G, D) \in SUBSET G /\ Row(G, f) \in SUBSET G
  BY DEF Visited, Row
<1>2. IsFiniteSet(Visited(G, D)) /\ IsFiniteSet(Row(G, f))
  BY <1>1, FS_Subset
<1>3. Visited(G, D \ {f}) = Visited(G, D) \cup Row(G, f)
  BY DEF Visited, Row
<1>4. Visited(G, D) \cap Row(G, f) = {}
  BY DEF Visited, Row
<1>5. Cardinality(Visited(G, D)) \in Nat /\ Cardinality(Row(G, f)) \in Nat
  BY <1>2, FS_CardinalityType
<1>6. Cardinality(Visited(G, D) \cup Row(G, f))
        = Cardinality(Visited(G, D)) + Cardinality(Row(G, f)) - 0
  BY <1>2, <1>4, FS_Union, FS_EmptySet
<1>7. Cardinality(Visited(G, D \ {f})) = Cardinality(Visited(G, D) \cup Row(G, f))
  BY <1>3
<1>. QED  BY <1>5, <1>6, <1>7

LEMMA RowSize ==
  ASSUME NEW f, NEW I, IsFiniteSet(I)
  PROVE  Cardinality({f} \X I) = Cardinality(I)
<1>1. IsFiniteSet({f}) /\ Cardinality({f}) = 1
  BY FS_Singleton
<1>2. Cardinality({f} \X I) = 1 * Cardinality(I)
  BY <1>1, FS_Product
<1>3. Cardinality(I) \in Nat
  BY FS_CardinalityType
<1>. QED  BY <1>2, <1>3

LEMMA RowOfLines ==
  ASSUME NEW ls, WellFormed(ls), NEW f \in DOMAIN ls, NEW t
  PROVE  Cardinality(Row(LinesBy(ls, t), f)) = IF TenantOf[f] = t THEN Len(ls[f]) ELSE 0
<1>1. Len(ls[f]) \in Nat
  BY DEF WellFormed
<1>2. CASE TenantOf[f] = t
  <2>1. Row(LinesBy(ls, t), f) = {f} \X (1..Len(ls[f]))
    BY <1>2, PlacesAre DEF Row, LinesBy
  <2>. DEFINE I == 1..Len(ls[f])
  <2>2. IsFiniteSet(I) /\ Cardinality(I) = Len(ls[f])
    <3>. 1 \in Int /\ Len(ls[f]) \in Int
      BY <1>1
    <3>1. IsFiniteSet(I) /\ Cardinality(I) = IF 1 > Len(ls[f]) THEN 0 ELSE Len(ls[f]) - 1 + 1
      BY FS_Interval
    <3>. QED  BY <1>1, <3>1
  <2>. HIDE DEF I
  <2>3. Cardinality({f} \X I) = Cardinality(I)
    BY <2>2, RowSize
  <2>. QED  BY <1>2, <2>1, <2>2, <2>3 DEF I
<1>3. CASE TenantOf[f] # t
  <2>1. Row(LinesBy(ls, t), f) = {}
    BY <1>3 DEF Row, LinesBy
  <2>. QED  BY <1>3, <2>1, FS_EmptySet
<1>. QED  BY <1>2, <1>3

\* The findings of a label among the first n lines of a file.
FindingsIn(q, n, l) == {i \in 1..n : q[i].whole /\ q[i].label = l}

LEMMA RowOfFindings ==
  ASSUME NEW ls, WellFormed(ls), NEW f \in DOMAIN ls, NEW l
  PROVE  /\ IsFiniteSet(FindingsIn(ls[f], Len(ls[f]), l))
         /\ Cardinality(Row(Findings(ls, l), f)) = Cardinality(FindingsIn(ls[f], Len(ls[f]), l))
<1>1. Row(Findings(ls, l), f) = {f} \X FindingsIn(ls[f], Len(ls[f]), l)
  BY PlacesAre DEF Row, Findings, FindingsIn, Metrics!FindingAt
<1>2. IsFiniteSet(1..Len(ls[f]))
  <2>. 1 \in Int /\ Len(ls[f]) \in Int
    BY DEF WellFormed
  <2>. QED  BY FS_Interval
<1>3. FindingsIn(ls[f], Len(ls[f]), l) \in SUBSET (1..Len(ls[f]))
  BY DEF FindingsIn
<1>4. IsFiniteSet(FindingsIn(ls[f], Len(ls[f]), l))
  BY <1>2, <1>3, FS_Subset
<1>. DEFINE I == FindingsIn(ls[f], Len(ls[f]), l)
<1>. HIDE DEF I
<1>5. IsFiniteSet(I)
  BY <1>4 DEF I
<1>6. Cardinality({f} \X I) = Cardinality(I)
  BY <1>5, RowSize
<1>. QED  BY <1>1, <1>4, <1>6 DEF I

LEMMA FoundCounts ==
  ASSUME NEW q, NEW n, NEW l \in Labels
  PROVE  Metrics!At(Metrics!Found(q, n), l) = Cardinality(FindingsIn(q, n, l))
<1>. DEFINE I == Metrics!Labelled(q, n)
            J == {i \in I : q[i].label = l}
<1>1. J = FindingsIn(q, n, l)
  BY MetricsOk DEF Metrics!ExporterAssumption, Metrics!Labelled, FindingsIn
<1>2. Metrics!Cardinality(J) = Cardinality(J)
  BY DEF Metrics!Cardinality, Cardinality
<1>3. CASE l \in {q[i].label : i \in I}
  BY <1>1, <1>2, <1>3 DEF Metrics!At, Metrics!Found
<1>4. CASE l \notin {q[i].label : i \in I}
  <2>1. J = {}
    BY <1>4
  <2>2. Metrics!At(Metrics!Found(q, n), l) = 0
    BY <1>4 DEF Metrics!At, Metrics!Found
  <2>. QED  BY <1>1, <2>1, <2>2, FS_EmptySet
<1>. QED  BY <1>3, <1>4

LEMMA ExtendedPlaces ==
  ASSUME NEW a, NEW b, WellFormed(a), WellFormed(b), Extended(a, b), NEW x, NEW D
  PROVE  /\ Findings(a, x) \subseteq Findings(b, x) /\ LinesBy(a, x) \subseteq LinesBy(b, x)
         /\ Cardinality(Findings(a, x)) <= Cardinality(Findings(b, x))
         /\ Cardinality(LinesBy(a, x)) <= Cardinality(LinesBy(b, x))
         /\ Cardinality(Visited(Findings(a, x), D)) <= Cardinality(Visited(Findings(b, x), D))
         /\ Cardinality(Visited(LinesBy(a, x), D)) <= Cardinality(Visited(LinesBy(b, x), D))
<1>1. ASSUME NEW p \in Metrics!Places(a)
      PROVE  /\ p \in Metrics!Places(b)
             /\ Metrics!FindingAt(a, p, x) => Metrics!FindingAt(b, p, x)
  <2>a. PICK f \in DOMAIN a : \E i \in 1..Len(a[f]) : p = <<f, i>>
    BY PlacesAre
  <2>1. PICK i \in 1..Len(a[f]) : p = <<f, i>>
    BY <2>a
  <2>2. f \in DOMAIN b /\ Len(a[f]) \in Nat /\ Len(b[f]) \in Nat /\ Len(a[f]) <= Len(b[f])
    BY DEF Extended, WellFormed
  <2>3. i \in 1..Len(b[f])
    BY <2>2
  <2>4. b[f][i].label = a[f][i].label /\ (a[f][i].whole => b[f][i].whole)
    BY DEF Extended
  <2>5. p \in Metrics!Places(b)
    BY <2>1, <2>2, <2>3, PlacesAre
  <2>. QED  BY <2>1, <2>4, <2>5 DEF Metrics!FindingAt
<1>2. Findings(a, x) \subseteq Findings(b, x) /\ LinesBy(a, x) \subseteq LinesBy(b, x)
  BY <1>1 DEF Findings, LinesBy
<1>3. /\ Findings(a, x) \in SUBSET Findings(b, x) /\ LinesBy(a, x) \in SUBSET LinesBy(b, x)
      /\ Visited(Findings(a, x), D) \in SUBSET Visited(Findings(b, x), D)
      /\ Visited(LinesBy(a, x), D) \in SUBSET Visited(LinesBy(b, x), D)
  BY <1>2 DEF Visited
<1>. QED  BY <1>2, <1>3, PlaceSetsFinite, FS_Subset

-----------------------------------------------------------------------------
(***************************************************************************)
(* The exporter: its invariant.                                            *)
(***************************************************************************)
ShownOf(l) == Metrics!At(metrics.findings, l)
PublishedOf(t) == Metrics!At(metrics.stored, t)
CountedOf(t) == Metrics!At(counted, t)

MetricsTypes ==
  /\ pc \in {"store", "count", "findings", "scan", "idle"} /\ todo \subseteq DOMAIN lines
  /\ DOMAIN metrics = {"findings", "stored"}
  /\ \A l \in Labels : ShownOf(l) \in Nat
  /\ \A t \in Tenants : CountedOf(t) \in Nat /\ PublishedOf(t) \in Nat

\* The directory has only grown since the round began.
DirectoryGrows == WellFormed(lines) /\ WellFormed(atStart) /\ Extended(atStart, lines)

\* A walk has counted no more than there is in the files it has done with, and no
\* less than there was when the round began, as long as nothing failed.
LinesCounted ==
  pc = "count" => \A t \in Tenants :
    /\ CountedOf(t) <= Cardinality(Visited(LinesBy(lines, t), todo))
    /\ clean => Cardinality(Visited(LinesBy(atStart, t), todo)) <= CountedOf(t)
FindingsCounted ==
  pc = "scan" => \A l \in Labels :
    /\ ShownOf(l) <= Cardinality(Visited(Findings(lines, l), todo))
    /\ clean => Cardinality(Visited(Findings(atStart, l), todo)) <= ShownOf(l)

\* What is published or shown when the walk is over.
LinesTrue ==
  pc \in {"findings", "scan", "idle"} /\ clean => \A t \in Tenants :
    /\ PublishedOf(t) <= Cardinality(LinesBy(lines, t))
    /\ Cardinality(LinesBy(atStart, t)) <= PublishedOf(t)
FindingsTrue ==
  \A l \in Labels :
    /\ ShownOf(l) <= Cardinality(Findings(lines, l))
    /\ pc = "idle" /\ clean => Cardinality(Findings(atStart, l)) <= ShownOf(l)

MetricsInv ==
  MetricsTypes /\ DirectoryGrows /\ LinesCounted /\ FindingsCounted /\ LinesTrue /\ FindingsTrue

\* The step of a process that is not the subject of the behaviour, or one that
\* neither reads nor counts.
LEMMA MetricsUntouched ==
  ASSUME MetricsInv, UNCHANGED <<lines, pc, todo, counted, metrics, atStart, clean>>
  PROVE  MetricsInv'
<1>1. /\ lines' = lines /\ pc' = pc /\ todo' = todo /\ counted' = counted
      /\ metrics' = metrics /\ atStart' = atStart /\ clean' = clean
  OBVIOUS
<1>2. MetricsTypes'
  BY <1>1 DEF MetricsInv, MetricsTypes, ShownOf, PublishedOf, CountedOf
<1>3. DirectoryGrows'
  BY <1>1 DEF MetricsInv, DirectoryGrows
<1>4. LinesCounted' /\ FindingsCounted'
  BY <1>1 DEF MetricsInv, LinesCounted, FindingsCounted, ShownOf, CountedOf
<1>5. LinesTrue' /\ FindingsTrue'
  BY <1>1 DEF MetricsInv, LinesTrue, FindingsTrue, ShownOf, PublishedOf
<1>. QED  BY <1>2, <1>3, <1>4, <1>5 DEF MetricsInv

LEMMA NothingVisited ==
  ASSUME NEW ls, NEW D, DOMAIN ls \subseteq D, WellFormed(ls), NEW x
  PROVE  /\ Cardinality(Visited(Findings(ls, x), D)) = 0
         /\ Cardinality(Visited(LinesBy(ls, x), D)) = 0
<1>1. \A p \in Metrics!Places(ls) : p[1] \in D
  BY PlacesAre
<1>2. Visited(Findings(ls, x), D) = {} /\ Visited(LinesBy(ls, x), D) = {}
  BY <1>1 DEF Visited, Findings, LinesBy
<1>. QED  BY <1>2, FS_EmptySet

LEMMA AllVisited == ASSUME NEW G PROVE Visited(G, {}) = G
BY DEF Visited

LEMMA MetricsInitially == Init => MetricsInv
<1>. SUFFICES ASSUME Metrics!Init PROVE MetricsInv
  BY DEF Init
<1>1. /\ DOMAIN lines = {} /\ DOMAIN atStart = {} /\ DOMAIN counted = {} /\ todo = {}
      /\ DOMAIN metrics = {"findings", "stored"}
      /\ DOMAIN metrics.findings = {} /\ DOMAIN metrics.stored = {} /\ pc = "store"
  BY DEF Metrics!Init, Metrics!None
<1>2. MetricsTypes
  BY <1>1 DEF MetricsTypes, ShownOf, PublishedOf, CountedOf, Metrics!At
<1>3. DirectoryGrows
  BY <1>1, FS_EmptySet DEF DirectoryGrows, WellFormed, Extended
<1>4. LinesCounted /\ FindingsCounted /\ LinesTrue
  BY <1>1 DEF LinesCounted, FindingsCounted, LinesTrue
<1>5. FindingsTrue
  <2>. SUFFICES ASSUME NEW l \in Labels PROVE 0 <= Cardinality(Findings(lines, l))
    BY <1>1 DEF FindingsTrue, ShownOf, Metrics!At
  <2>1. Cardinality(Findings(lines, l)) \in Nat
    BY <1>3, PlaceSetsFinite, FS_CardinalityType DEF DirectoryGrows
  <2>. QED  BY <2>1
<1>. QED  BY <1>2, <1>3, <1>4, <1>5 DEF MetricsInv

\* The directory grows under a round: what was true stays true.
LEMMA GrowthKeepsMetrics ==
  ASSUME MetricsInv, WellFormed(lines'), Extended(lines, lines'),
         UNCHANGED <<pc, todo, counted, metrics, atStart, clean>>
  PROVE  MetricsInv'
<1>. USE DEF MetricsInv
<1>1. /\ pc' = pc /\ todo' = todo /\ counted' = counted
      /\ metrics' = metrics /\ atStart' = atStart /\ clean' = clean
  OBVIOUS
<1>2. MetricsTypes'
  BY <1>1 DEF MetricsTypes, ShownOf, PublishedOf, CountedOf, Extended
<1>3. DirectoryGrows'
  <2>1. DOMAIN atStart \subseteq DOMAIN lines'
    BY DEF DirectoryGrows, Extended
  <2>2. ASSUME NEW f \in DOMAIN atStart
        PROVE  /\ Len(atStart[f]) <= Len(lines'[f])
               /\ \A i \in 1..Len(atStart[f]) :
                    /\ lines'[f][i].label = atStart[f][i].label
                    /\ atStart[f][i].whole => lines'[f][i].whole
    <3>1. f \in DOMAIN lines /\ f \in DOMAIN lines'
      BY <2>1 DEF DirectoryGrows, Extended
    <3>2. /\ Len(atStart[f]) \in Nat /\ Len(lines[f]) \in Nat /\ Len(lines'[f]) \in Nat
          /\ Len(atStart[f]) <= Len(lines[f]) /\ Len(lines[f]) <= Len(lines'[f])
      BY <3>1 DEF DirectoryGrows, WellFormed, Extended
    <3>3. ASSUME NEW i \in 1..Len(atStart[f])
          PROVE  /\ lines'[f][i].label = atStart[f][i].label
                 /\ atStart[f][i].whole => lines'[f][i].whole
      <4>1. i \in 1..Len(lines[f])
        BY <3>2
      <4>2. /\ lines[f][i].label = atStart[f][i].label
            /\ atStart[f][i].whole => lines[f][i].whole
        BY DEF DirectoryGrows, Extended
      <4>3. /\ lines'[f][i].label = lines[f][i].label
            /\ lines[f][i].whole => lines'[f][i].whole
        BY <3>1, <4>1 DEF Extended
      <4>. QED  BY <4>2, <4>3
    <3>. QED  BY <3>2, <3>3
  <2>. QED  BY <1>1, <2>1, <2>2 DEF DirectoryGrows, Extended
<1>4. \A x : /\ Cardinality(Findings(lines, x)) <= Cardinality(Findings(lines', x))
             /\ Cardinality(LinesBy(lines, x)) <= Cardinality(LinesBy(lines', x))
             /\ Cardinality(Visited(Findings(lines, x), todo)) <= Cardinality(Visited(Findings(lines', x), todo))
             /\ Cardinality(Visited(LinesBy(lines, x), todo)) <= Cardinality(Visited(LinesBy(lines', x), todo))
  BY ExtendedPlaces DEF DirectoryGrows
<1>5. \A x : /\ Cardinality(Findings(lines, x)) \in Nat /\ Cardinality(Findings(lines', x)) \in Nat
             /\ Cardinality(LinesBy(lines, x)) \in Nat /\ Cardinality(LinesBy(lines', x)) \in Nat
             /\ Cardinality(Visited(Findings(lines, x), todo)) \in Nat
             /\ Cardinality(Visited(Findings(lines', x), todo)) \in Nat
             /\ Cardinality(Visited(LinesBy(lines, x), todo)) \in Nat
             /\ Cardinality(Visited(LinesBy(lines', x), todo)) \in Nat
  BY PlaceSetsFinite, FS_CardinalityType DEF DirectoryGrows
<1>6. LinesCounted'
  <2>. SUFFICES ASSUME pc = "count", NEW t \in Tenants
                PROVE  /\ CountedOf(t) <= Cardinality(Visited(LinesBy(lines', t), todo))
                       /\ clean => Cardinality(Visited(LinesBy(atStart, t), todo)) <= CountedOf(t)
    BY <1>1 DEF LinesCounted, CountedOf
  <2>1. CountedOf(t) <= Cardinality(Visited(LinesBy(lines, t), todo)) /\ CountedOf(t) \in Nat
    BY DEF LinesCounted, MetricsTypes
  <2>2. clean => Cardinality(Visited(LinesBy(atStart, t), todo)) <= CountedOf(t)
    BY DEF LinesCounted
  <2>. QED  BY <1>4, <1>5, <2>1, <2>2
<1>7. FindingsCounted'
  <2>. SUFFICES ASSUME pc = "scan", NEW l \in Labels
                PROVE  /\ ShownOf(l) <= Cardinality(Visited(Findings(lines', l), todo))
                       /\ clean => Cardinality(Visited(Findings(atStart, l), todo)) <= ShownOf(l)
    BY <1>1 DEF FindingsCounted, ShownOf
  <2>1. ShownOf(l) <= Cardinality(Visited(Findings(lines, l), todo)) /\ ShownOf(l) \in Nat
    BY DEF FindingsCounted, MetricsTypes
  <2>2. clean => Cardinality(Visited(Findings(atStart, l), todo)) <= ShownOf(l)
    BY DEF FindingsCounted
  <2>. QED  BY <1>4, <1>5, <2>1, <2>2
<1>8. LinesTrue'
  <2>. SUFFICES ASSUME pc \in {"findings", "scan", "idle"}, clean, NEW t \in Tenants
                PROVE  /\ PublishedOf(t) <= Cardinality(LinesBy(lines', t))
                       /\ Cardinality(LinesBy(atStart, t)) <= PublishedOf(t)
    BY <1>1 DEF LinesTrue, PublishedOf
  <2>1. /\ PublishedOf(t) <= Cardinality(LinesBy(lines, t)) /\ PublishedOf(t) \in Nat
        /\ Cardinality(LinesBy(atStart, t)) <= PublishedOf(t)
    BY DEF LinesTrue, MetricsTypes
  <2>. QED  BY <1>4, <1>5, <2>1
<1>9. FindingsTrue'
  <2>. SUFFICES ASSUME NEW l \in Labels
                PROVE  /\ ShownOf(l) <= Cardinality(Findings(lines', l))
                       /\ pc = "idle" /\ clean => Cardinality(Findings(atStart, l)) <= ShownOf(l)
    BY <1>1 DEF FindingsTrue, ShownOf
  <2>1. ShownOf(l) <= Cardinality(Findings(lines, l)) /\ ShownOf(l) \in Nat
    BY DEF FindingsTrue, MetricsTypes
  <2>2. pc = "idle" /\ clean => Cardinality(Findings(atStart, l)) <= ShownOf(l)
    BY DEF FindingsTrue
  <2>. QED  BY <1>4, <1>5, <2>1, <2>2
<1>. QED  BY <1>2, <1>3, <1>6, <1>7, <1>8, <1>9

LEMMA AppendKeepsMetrics ==
  ASSUME MetricsInv, NEW f \in Files,
         Metrics!AppendRest(f) \/ \E l \in Labels \cup {NoType} : Metrics!AppendPart(f, l)
  PROVE  MetricsInv'
<1>. USE DEF Metrics!round
<1>1. IsFiniteSet(DOMAIN lines) /\ \A g \in DOMAIN lines : lines[g] \in Seq(Line)
  BY DEF MetricsInv, DirectoryGrows, WellFormed
<1>2. ASSUME NEW l \in Labels \cup {NoType}, Metrics!AppendPart(f, l)
      PROVE  WellFormed(lines') /\ Extended(lines, lines')
  <2>. DEFINE new == [label |-> l, whole |-> FALSE]
              old(g) == IF g \in DOMAIN lines THEN lines[g] ELSE <<>>
  <2>1. new \in Line
    BY DEF Line
  <2>2. DOMAIN lines' = DOMAIN lines \cup {f}
    BY <1>2 DEF Metrics!AppendPart
  <2>3. ASSUME NEW g \in DOMAIN lines'
        PROVE  /\ g # f => lines'[g] = old(g) \o <<>>
               /\ g = f => lines'[g] = old(g) \o <<new>>
    BY <1>2, <2>3 DEF Metrics!AppendPart
  <2>4. \A g \in DOMAIN lines' : old(g) \in Seq(Line)
    BY <1>1
  <2>. HIDE DEF new, old
  <2>5. ASSUME NEW g \in DOMAIN lines'
        PROVE  /\ lines'[g] \in Seq(Line) /\ Len(old(g)) <= Len(lines'[g])
               /\ \A i \in 1..Len(old(g)) : lines'[g][i] = old(g)[i]
    <3>1. <<>> \in Seq(Line) /\ <<new>> \in Seq(Line) /\ Len(<<>>) = 0 /\ Len(<<new>>) = 1
      BY <2>1
    <3>2. PICK z \in Seq(Line) : lines'[g] = old(g) \o z
      BY <2>3, <3>1
    <3>. QED  BY <2>4, <3>2, ConcatProperties
  <2>6. WellFormed(lines')
    BY <1>1, <2>2, <2>5, FS_AddElement DEF WellFormed
  <2>7. \A g \in DOMAIN lines : old(g) = lines[g]
    BY DEF old
  <2>. QED  BY <2>2, <2>5, <2>6, <2>7 DEF Extended
<1>3. ASSUME Metrics!AppendRest(f)
      PROVE  WellFormed(lines') /\ Extended(lines, lines')
  <2>. DEFINE n == Len(lines[f])
  <2>1. f \in DOMAIN lines /\ lines[f] \in Seq(Line) /\ n \in Nat /\ n >= 1
    <3>1. f \in DOMAIN lines /\ \E i \in DOMAIN lines[f] : ~lines[f][i].whole
      BY <1>3 DEF Metrics!AppendRest, Metrics!BeingWritten
    <3>2. lines[f] \in Seq(Line) /\ n \in Nat /\ DOMAIN lines[f] = 1..n
      BY <1>1, <3>1
    <3>. QED  BY <3>1, <3>2
  <2>2. lines[f][n] \in Line /\ n \in DOMAIN lines[f] /\ DOMAIN lines[f] = 1..n
    BY <2>1
  <2>. DEFINE rest == [lines[f] EXCEPT ![n].whole = TRUE]
  <2>3. lines' = [lines EXCEPT ![f] = rest]
    BY <1>3 DEF Metrics!AppendRest
  <2>4. /\ DOMAIN rest = 1..n
        /\ \A i \in 1..n : i # n => rest[i] = lines[f][i]
        /\ rest[n] = [label |-> lines[f][n].label, whole |-> TRUE]
    BY <2>2 DEF Line
  <2>5. rest[n] \in Line /\ rest[n].label = lines[f][n].label /\ rest[n].whole
    BY <2>2, <2>4 DEF Line
  <2>6. rest \in Seq(Line)
    <3>1. \A i \in 1..n : rest[i] \in Line
      BY <2>1, <2>4, <2>5
    <3>2. rest = [i \in 1..n |-> rest[i]]
      BY <2>4
    <3>3. rest \in [1..n -> Line]
      BY <3>1, <3>2
    <3>. QED  BY <2>1, <3>3
  <2>7. Len(rest) = n
    BY <2>1, <2>4, <2>6
  <2>. HIDE DEF rest, n
  <2>8. DOMAIN lines' = DOMAIN lines /\ lines'[f] = rest /\ \A g \in DOMAIN lines : g # f => lines'[g] = lines[g]
    BY <2>1, <2>3
  <2>9. WellFormed(lines')
    BY <1>1, <2>6, <2>8 DEF WellFormed
  <2>10. ASSUME NEW g \in DOMAIN lines
         PROVE  /\ Len(lines[g]) <= Len(lines'[g])
                /\ \A i \in 1..Len(lines[g]) :
                     /\ lines'[g][i].label = lines[g][i].label
                     /\ lines[g][i].whole => lines'[g][i].whole
    <3>1. CASE g = f
      <4>1. Len(lines[g]) = n /\ lines'[g] = rest /\ Len(lines[g]) <= Len(lines'[g])
        BY <3>1, <2>1, <2>7, <2>8 DEF n
      <4>2. ASSUME NEW i \in 1..n
            PROVE  rest[i].label = lines[f][i].label /\ (lines[f][i].whole => rest[i].whole)
        <5>1. CASE i = n
          BY <5>1, <2>5
        <5>2. CASE i # n
          BY <5>2, <2>4
        <5>. QED  BY <5>1, <5>2
      <4>. QED  BY <3>1, <4>1, <4>2
    <3>2. CASE g # f
      <4>1. Len(lines[g]) \in Nat
        BY <1>1
      <4>. QED  BY <3>2, <2>8, <4>1
    <3>. QED  BY <3>1, <3>2
  <2>. QED  BY <2>8, <2>9, <2>10 DEF Extended
<1>4. UNCHANGED <<pc, todo, counted, metrics, atStart, clean>>
  BY DEF Metrics!AppendPart, Metrics!AppendRest
<1>. QED  BY <1>2, <1>3, <1>4, GrowthKeepsMetrics

\* The first walk begins: the round begins with it.
LEMMA OpenStoreKeepsMetrics ==
  ASSUME MetricsInv, Metrics!OpenStore \/ Metrics!OpenStoreFails
  PROVE  MetricsInv'
<1>. USE DEF MetricsInv
<1>1. /\ lines' = lines /\ atStart' = lines /\ metrics'.findings = metrics.findings
      /\ DOMAIN metrics' = {"findings", "stored"}
  BY DEF Metrics!OpenStore, Metrics!OpenStoreFails, Metrics!directory, MetricsTypes
<1>2. \/ /\ pc' = "count" /\ todo' = DOMAIN lines /\ counted' = Metrics!None
         /\ metrics'.stored = Metrics!None
      \/ /\ pc' = "findings" /\ todo' = todo /\ counted' = counted
         /\ metrics'.stored = metrics.stored /\ ~clean'
  BY DEF Metrics!OpenStore, Metrics!OpenStoreFails, MetricsTypes
<1>3. \A x : Metrics!At(Metrics!None, x) = 0
  BY DEF Metrics!At, Metrics!None
<1>4. MetricsTypes'
  BY <1>1, <1>2, <1>3 DEF MetricsTypes, ShownOf, PublishedOf, CountedOf
<1>5. DirectoryGrows'
  <2>1. Extended(lines, lines)
    <3>1. \A f \in DOMAIN lines : Len(lines[f]) \in Nat
      BY DEF DirectoryGrows, WellFormed
    <3>. QED  BY <3>1 DEF Extended
  <2>. QED  BY <1>1, <2>1 DEF DirectoryGrows
<1>6. LinesCounted'
  <2>. SUFFICES ASSUME pc' = "count", NEW t \in Tenants
                PROVE  /\ CountedOf(t)' = 0
                       /\ Cardinality(Visited(LinesBy(lines, t), todo')) = 0
    BY <1>1 DEF LinesCounted
  <2>1. counted' = Metrics!None /\ todo' = DOMAIN lines
    BY <1>2
  <2>. QED  BY <2>1, <1>3, NothingVisited DEF CountedOf, DirectoryGrows
<1>7. FindingsCounted' /\ LinesTrue'
  BY <1>2 DEF FindingsCounted, LinesTrue
<1>8. FindingsTrue'
  BY <1>1, <1>2 DEF FindingsTrue, ShownOf
<1>. QED  BY <1>4, <1>5, <1>6, <1>7, <1>8

\* One file of the first walk, read or given up.
LEMMA CountKeepsMetrics ==
  ASSUME MetricsInv, NEW f \in Files, Metrics!CountLines(f) \/ Metrics!CountLinesFails(f)
  PROVE  MetricsInv'
<1>. USE DEF MetricsInv
<1>1. /\ lines' = lines /\ atStart' = atStart /\ metrics' = metrics /\ pc = "count" /\ pc' = pc
      /\ f \in todo /\ todo' = todo \ {f} /\ f \in DOMAIN lines
  BY DEF Metrics!CountLines, Metrics!CountLinesFails, Metrics!directory, MetricsTypes
<1>2. \/ counted' = Metrics!Plus(counted, TenantOf[f], Len(lines[f])) /\ clean' = clean
      \/ counted' = counted /\ ~clean'
  BY DEF Metrics!CountLines, Metrics!CountLinesFails
<1>3. Len(lines[f]) \in Nat
  BY <1>1 DEF DirectoryGrows, WellFormed
<1>4. ASSUME NEW t \in Tenants
      PROVE  \/ /\ CountedOf(t)' = CountedOf(t) + Cardinality(Row(LinesBy(lines, t), f))
                /\ clean' = clean
             \/ CountedOf(t)' = CountedOf(t) /\ ~clean'
  <2>1. Cardinality(Row(LinesBy(lines, t), f)) = IF TenantOf[f] = t THEN Len(lines[f]) ELSE 0
    BY <1>1, RowOfLines DEF DirectoryGrows
  <2>2. CountedOf(t) \in Nat
    BY DEF MetricsTypes
  <2>3. CASE counted' = counted /\ ~clean'
    BY <2>3 DEF CountedOf
  <2>4. CASE counted' = Metrics!Plus(counted, TenantOf[f], Len(lines[f])) /\ clean' = clean
    BY <2>1, <2>2, <2>4, <1>3 DEF CountedOf, Metrics!At, Metrics!Plus
  <2>. QED  BY <2>3, <2>4, <1>2
<1>5. ASSUME NEW t \in Tenants
      PROVE  /\ Cardinality(Row(LinesBy(lines, t), f)) \in Nat
             /\ Cardinality(Row(LinesBy(atStart, t), f)) \in Nat
             /\ Cardinality(Row(LinesBy(atStart, t), f)) <= Cardinality(Row(LinesBy(lines, t), f))
             /\ Cardinality(Visited(LinesBy(lines, t), todo)) \in Nat
             /\ Cardinality(Visited(LinesBy(atStart, t), todo)) \in Nat
             /\ Cardinality(Visited(LinesBy(lines, t), todo'))
                  = Cardinality(Visited(LinesBy(lines, t), todo)) + Cardinality(Row(LinesBy(lines, t), f))
             /\ Cardinality(Visited(LinesBy(atStart, t), todo'))
                  = Cardinality(Visited(LinesBy(atStart, t), todo)) + Cardinality(Row(LinesBy(atStart, t), f))
  <2>1. IsFiniteSet(LinesBy(lines, t)) /\ IsFiniteSet(LinesBy(atStart, t))
    BY PlaceSetsFinite DEF DirectoryGrows
  <2>2. LinesBy(atStart, t) \subseteq LinesBy(lines, t)
    BY ExtendedPlaces DEF DirectoryGrows
  <2>3. Row(LinesBy(atStart, t), f) \in SUBSET Row(LinesBy(lines, t), f)
    BY <2>2 DEF Row
  <2>4. Row(LinesBy(lines, t), f) \in SUBSET LinesBy(lines, t)
    BY DEF Row
  <2>5. IsFiniteSet(Row(LinesBy(lines, t), f))
    BY <2>1, <2>4, FS_Subset
  <2>6. Cardinality(Row(LinesBy(atStart, t), f)) <= Cardinality(Row(LinesBy(lines, t), f))
    BY <2>3, <2>5, FS_Subset
  <2>. QED  BY <1>1, <2>1, <2>6, VisitOne
<1>6. MetricsTypes'
  <2>1. \A t \in Tenants : CountedOf(t)' \in Nat
    BY <1>4, <1>5 DEF MetricsTypes
  <2>. QED  BY <1>1, <2>1 DEF MetricsTypes, ShownOf, PublishedOf
<1>7. DirectoryGrows'
  BY <1>1 DEF DirectoryGrows
<1>8. LinesCounted'
  <2>. SUFFICES ASSUME NEW t \in Tenants
                PROVE  /\ CountedOf(t)' <= Cardinality(Visited(LinesBy(lines, t), todo'))
                       /\ clean' => Cardinality(Visited(LinesBy(atStart, t), todo')) <= CountedOf(t)'
    BY <1>1 DEF LinesCounted
  <2>1. /\ CountedOf(t) \in Nat /\ CountedOf(t) <= Cardinality(Visited(LinesBy(lines, t), todo))
        /\ clean => Cardinality(Visited(LinesBy(atStart, t), todo)) <= CountedOf(t)
    BY <1>1 DEF LinesCounted, MetricsTypes
  <2>. QED  BY <1>4, <1>5, <2>1
<1>9. FindingsCounted' /\ LinesTrue' /\ FindingsTrue'
  BY <1>1 DEF FindingsCounted, LinesTrue, FindingsTrue, ShownOf
<1>. QED  BY <1>6, <1>7, <1>8, <1>9

\* One file of the second walk, read to its end or not.
LEMMA ScanKeepsMetrics ==
  ASSUME MetricsInv, NEW f \in Files, Metrics!ScanFindings(f) \/ Metrics!ScanFindingsFails(f)
  PROVE  MetricsInv'
<1>. USE DEF MetricsInv
<1>1. /\ lines' = lines /\ atStart' = atStart /\ counted' = counted /\ pc = "scan" /\ pc' = pc
      /\ f \in todo /\ todo' = todo \ {f} /\ f \in DOMAIN lines
  BY DEF Metrics!ScanFindings, Metrics!ScanFindingsFails, Metrics!directory, MetricsTypes
<1>2. PICK n \in 0..Len(lines[f]) :
        /\ metrics' = [metrics EXCEPT !.findings = Metrics!Sum(@, Metrics!Found(lines[f], n))]
        /\ (n = Len(lines[f]) /\ clean' = clean) \/ ~clean'
  <2>1. Len(lines[f]) \in Nat
    BY <1>1 DEF DirectoryGrows, WellFormed
  <2>. QED  BY <2>1 DEF Metrics!ScanFindings, Metrics!ScanFindingsFails
<1>3. /\ DOMAIN metrics' = {"findings", "stored"} /\ metrics'.stored = metrics.stored
      /\ metrics'.findings = Metrics!Sum(metrics.findings, Metrics!Found(lines[f], n))
  BY <1>2 DEF MetricsTypes
<1>4. ASSUME NEW l \in Labels
      PROVE  ShownOf(l)' = ShownOf(l) + Cardinality(FindingsIn(lines[f], n, l))
  <2>. DEFINE shown == Metrics!Found(lines[f], n)
  <2>1. Metrics!At(shown, l) = Cardinality(FindingsIn(lines[f], n, l))
    BY FoundCounts
  <2>2. /\ Metrics!At(metrics.findings, l) \in Nat
        /\ Metrics!At(shown, l) = 0 \/ l \in DOMAIN shown
    BY DEF MetricsTypes, ShownOf, Metrics!At
  <2>. HIDE DEF shown
  <2>3. Metrics!At(Metrics!Sum(metrics.findings, shown), l)
          = Metrics!At(metrics.findings, l) + Metrics!At(shown, l)
    <3>1. CASE l \in DOMAIN metrics.findings \cup DOMAIN shown
      BY <3>1 DEF Metrics!Sum, Metrics!At
    <3>2. CASE l \notin DOMAIN metrics.findings \cup DOMAIN shown
      BY <3>2 DEF Metrics!Sum, Metrics!At
    <3>. QED  BY <3>1, <3>2
  <2>. QED  BY <2>1, <2>3, <1>3 DEF ShownOf, shown
<1>5. ASSUME NEW l \in Labels
      PROVE  /\ Cardinality(FindingsIn(lines[f], n, l)) \in Nat
             /\ Cardinality(FindingsIn(lines[f], n, l)) <= Cardinality(Row(Findings(lines, l), f))
             /\ clean' => Cardinality(FindingsIn(lines[f], n, l)) = Cardinality(Row(Findings(lines, l), f))
  <2>1. /\ IsFiniteSet(FindingsIn(lines[f], Len(lines[f]), l))
        /\ Cardinality(Row(Findings(lines, l), f)) = Cardinality(FindingsIn(lines[f], Len(lines[f]), l))
    BY <1>1, RowOfFindings DEF DirectoryGrows
  <2>2. FindingsIn(lines[f], n, l) \in SUBSET FindingsIn(lines[f], Len(lines[f]), l)
    <3>1. Len(lines[f]) \in Nat
      BY <1>1 DEF DirectoryGrows, WellFormed
    <3>2. \A i \in 1..n : i \in 1..Len(lines[f])
      BY <3>1
    <3>. QED  BY <3>2 DEF FindingsIn
  <2>3. IsFiniteSet(FindingsIn(lines[f], n, l))
    BY <2>1, <2>2, FS_Subset
  <2>4. Cardinality(FindingsIn(lines[f], n, l)) <= Cardinality(FindingsIn(lines[f], Len(lines[f]), l))
    BY <2>1, <2>2, FS_Subset
  <2>. QED  BY <1>2, <2>1, <2>3, <2>4, FS_CardinalityType
<1>6. ASSUME NEW l \in Labels
      PROVE  /\ Cardinality(Row(Findings(lines, l), f)) \in Nat
             /\ Cardinality(Row(Findings(atStart, l), f)) \in Nat
             /\ Cardinality(Row(Findings(atStart, l), f)) <= Cardinality(Row(Findings(lines, l), f))
             /\ Cardinality(Visited(Findings(lines, l), todo)) \in Nat
             /\ Cardinality(Visited(Findings(atStart, l), todo)) \in Nat
             /\ Cardinality(Visited(Findings(lines, l), todo'))
                  = Cardinality(Visited(Findings(lines, l), todo)) + Cardinality(Row(Findings(lines, l), f))
             /\ Cardinality(Visited(Findings(atStart, l), todo'))
                  = Cardinality(Visited(Findings(atStart, l), todo)) + Cardinality(Row(Findings(atStart, l), f))
             /\ Cardinality(Visited(Findings(lines, l), todo')) <= Cardinality(Findings(lines, l))
             /\ Cardinality(Findings(lines, l)) \in Nat
  <2>1. IsFiniteSet(Findings(lines, l)) /\ IsFiniteSet(Findings(atStart, l))
    BY PlaceSetsFinite DEF DirectoryGrows
  <2>2. Findings(atStart, l) \subseteq Findings(lines, l)
    BY ExtendedPlaces DEF DirectoryGrows
  <2>3. Row(Findings(atStart, l), f) \in SUBSET Row(Findings(lines, l), f)
    BY <2>2 DEF Row
  <2>4. Row(Findings(lines, l), f) \in SUBSET Findings(lines, l)
    BY DEF Row
  <2>5. IsFiniteSet(Row(Findings(lines, l), f))
    BY <2>1, <2>4, FS_Subset
  <2>6. Cardinality(Row(Findings(atStart, l), f)) <= Cardinality(Row(Findings(lines, l), f))
    BY <2>3, <2>5, FS_Subset
  <2>7. Visited(Findings(lines, l), todo') \in SUBSET Findings(lines, l)
    BY DEF Visited
  <2>8. /\ Cardinality(Visited(Findings(lines, l), todo')) <= Cardinality(Findings(lines, l))
        /\ Cardinality(Findings(lines, l)) \in Nat
    BY <2>1, <2>7, FS_Subset, FS_CardinalityType
  <2>. QED  BY <1>1, <2>1, <2>6, <2>8, VisitOne
<1>7. ASSUME NEW l \in Labels
      PROVE  /\ ShownOf(l)' \in Nat
             /\ ShownOf(l)' <= Cardinality(Visited(Findings(lines, l), todo'))
             /\ clean' => Cardinality(Visited(Findings(atStart, l), todo')) <= ShownOf(l)'
             /\ ShownOf(l)' <= Cardinality(Findings(lines, l))
  <2>1. /\ ShownOf(l) \in Nat /\ ShownOf(l) <= Cardinality(Visited(Findings(lines, l), todo))
        /\ clean => Cardinality(Visited(Findings(atStart, l), todo)) <= ShownOf(l)
    BY <1>1 DEF FindingsCounted, MetricsTypes
  <2>2. clean' => clean
    BY <1>2
  <2>3. /\ ShownOf(l)' \in Nat
        /\ ShownOf(l)' <= Cardinality(Visited(Findings(lines, l), todo'))
    BY <2>1, <1>4, <1>5, <1>6
  <2>4. clean' => Cardinality(Visited(Findings(atStart, l), todo')) <= ShownOf(l)'
    BY <2>1, <2>2, <1>4, <1>5, <1>6
  <2>5. ShownOf(l)' <= Cardinality(Findings(lines, l))
    <3>1. Cardinality(Visited(Findings(lines, l), todo')) \in Nat
      BY <1>6
    <3>. QED  BY <2>3, <3>1, <1>6
  <2>. QED  BY <2>3, <2>4, <2>5
<1>8. MetricsTypes'
  BY <1>1, <1>3, <1>7 DEF MetricsTypes, PublishedOf, CountedOf
<1>9. DirectoryGrows'
  BY <1>1 DEF DirectoryGrows
<1>10. LinesCounted'
  BY <1>1 DEF LinesCounted
<1>11. FindingsCounted'
  BY <1>1, <1>7 DEF FindingsCounted
<1>12. FindingsTrue'
  BY <1>1, <1>7 DEF FindingsTrue
<1>13. LinesTrue'
  BY <1>1, <1>2, <1>3 DEF LinesTrue, PublishedOf
<1>. QED  BY <1>8, <1>9, <1>10, <1>11, <1>12, <1>13

\* Between the walks, and where a walk ends early.
LEMMA RoundKeepsMetrics ==
  ASSUME MetricsInv,
         \/ Metrics!Publish \/ Metrics!OpenFindings \/ Metrics!OpenFindingsFails
         \/ Metrics!EndRound \/ Metrics!WalkFails \/ Metrics!NextRound
  PROVE  MetricsInv'
<1>. USE DEF MetricsInv, Metrics!directory
<1>1. /\ lines' = lines /\ atStart' = atStart /\ counted' = counted
      /\ clean' => clean
      /\ pc' \in {"store", "count", "findings", "scan", "idle"} /\ todo' \subseteq DOMAIN lines
      /\ DOMAIN metrics' = {"findings", "stored"}
  BY DEF Metrics!Publish, Metrics!OpenFindings, Metrics!OpenFindingsFails, Metrics!EndRound,
         Metrics!WalkFails, Metrics!NextRound, MetricsTypes
<1>2. DirectoryGrows'
  BY <1>1 DEF DirectoryGrows
<1>3. \A x : /\ Cardinality(Findings(lines, x)) \in Nat
             /\ Cardinality(Visited(Findings(lines, x), todo)) \in Nat
             /\ Cardinality(Visited(LinesBy(lines, x), todo)) \in Nat
  BY PlaceSetsFinite, FS_CardinalityType DEF DirectoryGrows
<1>4. \A x : Metrics!At(Metrics!None, x) = 0
  BY DEF Metrics!At, Metrics!None
<1>5. CASE Metrics!Publish
  <2>1. /\ pc = "count" /\ pc' = "findings" /\ todo = {} /\ todo' = todo /\ clean' = clean
        /\ metrics'.stored = counted /\ metrics'.findings = metrics.findings
    BY <1>5 DEF Metrics!Publish, MetricsTypes
  <2>2. MetricsTypes'
    BY <1>1, <2>1 DEF MetricsTypes, ShownOf, PublishedOf, CountedOf
  <2>3. LinesTrue'
    BY <1>1, <2>1, AllVisited DEF LinesTrue, LinesCounted, PublishedOf, CountedOf
  <2>4. LinesCounted' /\ FindingsCounted'
    BY <2>1 DEF LinesCounted, FindingsCounted
  <2>5. FindingsTrue'
    BY <1>1, <2>1 DEF FindingsTrue, ShownOf
  <2>. QED  BY <1>2, <2>2, <2>3, <2>4, <2>5
<1>6. CASE Metrics!OpenFindings \/ Metrics!OpenFindingsFails
  <2>1. /\ pc = "findings" /\ metrics'.findings = Metrics!None /\ metrics'.stored = metrics.stored
        /\ \/ pc' = "scan" /\ todo' = DOMAIN lines /\ clean' = clean
           \/ pc' = "idle" /\ ~clean'
    BY <1>6 DEF Metrics!OpenFindings, Metrics!OpenFindingsFails, MetricsTypes
  <2>2. \A l \in Labels : ShownOf(l)' = 0
    BY <1>4, <2>1 DEF ShownOf
  <2>3. MetricsTypes'
    BY <1>1, <2>1, <2>2 DEF MetricsTypes, PublishedOf, CountedOf
  <2>4. LinesTrue'
    BY <1>1, <2>1 DEF LinesTrue, PublishedOf
  <2>5. LinesCounted'
    BY <2>1 DEF LinesCounted
  <2>6. FindingsCounted'
    <3>1. ASSUME pc' = "scan", NEW l \in Labels
          PROVE  /\ Cardinality(Visited(Findings(lines, l), todo')) = 0
                 /\ Cardinality(Visited(Findings(atStart, l), todo')) = 0
      <4>1. DOMAIN lines \subseteq todo' /\ DOMAIN atStart \subseteq todo'
        BY <2>1, <3>1 DEF DirectoryGrows, Extended
      <4>. QED  BY <4>1, NothingVisited DEF DirectoryGrows
    <3>. QED  BY <1>1, <2>2, <3>1 DEF FindingsCounted
  <2>7. FindingsTrue'
    BY <1>1, <1>3, <2>1, <2>2 DEF FindingsTrue
  <2>. QED  BY <1>2, <2>3, <2>4, <2>5, <2>6, <2>7
<1>7. CASE Metrics!EndRound \/ Metrics!NextRound
  <2>1. /\ todo' = todo /\ metrics' = metrics /\ clean' = clean
        /\ \/ pc = "scan" /\ todo = {} /\ pc' = "idle"
           \/ pc = "idle" /\ pc' = "store"
    BY <1>7 DEF Metrics!EndRound, Metrics!NextRound
  <2>2. MetricsTypes'
    BY <1>1, <2>1 DEF MetricsTypes, ShownOf, PublishedOf, CountedOf
  <2>3. LinesTrue'
    BY <1>1, <2>1 DEF LinesTrue, PublishedOf
  <2>4. LinesCounted' /\ FindingsCounted'
    BY <2>1 DEF LinesCounted, FindingsCounted
  <2>5. FindingsTrue'
    BY <1>1, <2>1, AllVisited DEF FindingsTrue, FindingsCounted, ShownOf
  <2>. QED  BY <1>2, <2>2, <2>3, <2>4, <2>5
<1>8. CASE Metrics!WalkFails
  <2>1. todo' = {} /\ ~clean' /\ pc' = pc /\ metrics' = metrics /\ pc \in {"count", "scan"}
    BY <1>8 DEF Metrics!WalkFails
  <2>2. MetricsTypes'
    BY <1>1, <2>1 DEF MetricsTypes, ShownOf, PublishedOf, CountedOf
  <2>3. LinesTrue' /\ FindingsTrue'
    BY <1>1, <2>1 DEF LinesTrue, FindingsTrue, ShownOf
  <2>4. FindingsCounted'
    BY <1>1, <2>1, AllVisited DEF FindingsCounted, FindingsTrue, ShownOf
  <2>5. LinesCounted'
    <3>. SUFFICES ASSUME pc = "count", NEW t \in Tenants
                  PROVE  CountedOf(t) <= Cardinality(LinesBy(lines, t))
      BY <1>1, <2>1, AllVisited DEF LinesCounted, CountedOf
    <3>1. CountedOf(t) \in Nat /\ CountedOf(t) <= Cardinality(Visited(LinesBy(lines, t), todo))
      BY DEF LinesCounted, MetricsTypes
    <3>2. IsFiniteSet(LinesBy(lines, t)) /\ Visited(LinesBy(lines, t), todo) \in SUBSET LinesBy(lines, t)
      BY PlaceSetsFinite DEF DirectoryGrows, Visited
    <3>3. /\ Cardinality(Visited(LinesBy(lines, t), todo)) <= Cardinality(LinesBy(lines, t))
          /\ Cardinality(LinesBy(lines, t)) \in Nat
      BY <3>2, FS_Subset, FS_CardinalityType
    <3>. QED  BY <1>3, <3>1, <3>3
  <2>. QED  BY <1>2, <2>2, <2>3, <2>4, <2>5
<1>. QED  BY <1>5, <1>6, <1>7, <1>8

LEMMA MetricsInvariant == Spec => []MetricsInv
<1>1. MetricsInv /\ [Next]_vars => MetricsInv'
  <2>. SUFFICES ASSUME MetricsInv, [Next]_vars PROVE MetricsInv'
    OBVIOUS
  <2>1. CASE UNCHANGED vars
    BY <2>1, MetricsUntouched DEF vars, metricsVars
  <2>2. CASE MainMoves
    BY <2>2, MetricsUntouched DEF MainMoves, OfMain, metricsVars
  <2>3. CASE StreamMoves
    BY <2>3, MetricsUntouched DEF StreamMoves, OfStream, metricsVars
  <2>4. CASE MetricsMoves
    <3>1. Metrics!Next
      BY <2>4 DEF MetricsMoves, OfMetrics
    <3>2. CASE Metrics!Scrape \/ Metrics!Signal \/ Metrics!Exit \/ Metrics!Rest
      BY <3>2, MetricsUntouched
      DEF Metrics!Scrape, Metrics!Signal, Metrics!Exit, Metrics!Rest, Metrics!vars,
          Metrics!round, Metrics!directory
    <3>3. CASE Metrics!Collector
      BY <3>3, OpenStoreKeepsMetrics, CountKeepsMetrics, ScanKeepsMetrics, RoundKeepsMetrics
      DEF Metrics!Collector
    <3>. QED  BY <3>1, <3>2, <3>3, AppendKeepsMetrics DEF Metrics!Next
  <2>. QED  BY <2>1, <2>2, <2>3, <2>4 DEF Next
<1>. QED  BY <1>1, MetricsInitially, PTL DEF Spec

\* The metrics never show more findings than the directory holds, and after a round
\* in which nothing failed findings and lines are those of a time within it, for any
\* number of files, tenants and labels, while the analyzer appends between any two
\* steps of the two walks (cmd/exporter/main.go:244-351).
THEOREM MetricsAreAlwaysTrue == Spec => []MetricsAreTrue
<1>1. \A ls, x : /\ Metrics!InAll(ls, x) = Cardinality(Findings(ls, x))
                 /\ Metrics!LinesOf(ls, x) = Cardinality(LinesBy(ls, x))
  <2>. SUFFICES ASSUME NEW ls, NEW x
                PROVE  /\ Metrics!InAll(ls, x) = Cardinality(Findings(ls, x))
                       /\ Metrics!LinesOf(ls, x) = Cardinality(LinesBy(ls, x))
    OBVIOUS
  <2>1. /\ Metrics!Cardinality(Findings(ls, x)) = Cardinality(Findings(ls, x))
        /\ Metrics!Cardinality(LinesBy(ls, x)) = Cardinality(LinesBy(ls, x))
    BY DEF Metrics!Cardinality, Cardinality
  <2>2. Metrics!InAll(ls, x) = Metrics!Cardinality(Findings(ls, x))
    BY DEF Metrics!InAll, Findings
  <2>3. Metrics!LinesOf(ls, x) = Metrics!Cardinality(LinesBy(ls, x))
    BY DEF Metrics!LinesOf, LinesBy
  <2>. QED  BY <2>1, <2>2, <2>3
<1>2. MetricsInv => MetricsAreTrue
  <2>. SUFFICES ASSUME MetricsInv PROVE MetricsAreTrue
    OBVIOUS
  <2>1. Metrics!NeverTooMany
    BY <1>1 DEF MetricsInv, FindingsTrue, ShownOf, Metrics!NeverTooMany
  <2>2. Metrics!RoundIsTrue
    BY <1>1 DEF MetricsInv, FindingsTrue, LinesTrue, ShownOf, PublishedOf, Metrics!RoundIsTrue
  <2>. QED  BY <2>1, <2>2 DEF MetricsAreTrue
<1>. QED  BY <1>2, MetricsInvariant, PTL

-----------------------------------------------------------------------------
(***************************************************************************)
(* The event store.  First what a listing and a scan return: the members   *)
(* of a finite set of numbers in their order.                              *)
(***************************************************************************)
Rising(q) == \A i, j \in DOMAIN q : i < j => q[i] < q[j]

LEMMA LeastExists ==
  ASSUME NEW S \in SUBSET Nat, S # {}
  PROVE  \E m \in S : \A x \in S : m <= x
<1>. DEFINE R == OpToRel(<, Nat)
<1>1. PICK m \in S : \A x \in S : <<x, m>> \notin R
  <2>. HIDE DEF R
  <2>. QED  BY NatLessThanWellFounded, WFMin DEF R
<1>2. \A x \in S : ~(x < m)
  BY <1>1 DEF OpToRel
<1>. QED  BY <1>2

\* A rising sequence of all but the least, with the least before it.
LEMMA RisingPrepended ==
  ASSUME NEW S \in SUBSET Nat, NEW n \in Nat, NEW m \in S, \A x \in S : m <= x,
         NEW q \in [1..n -> S \ {m}], Rising(q)
  PROVE  \E p \in [1..n + 1 -> S] : Rising(p)
<1>. DEFINE p == [i \in 1..n + 1 |-> IF i = 1 THEN m ELSE q[i - 1]]
<1>1. \A i \in 1..n + 1 : i # 1 => i - 1 \in 1..n
  OBVIOUS
<1>2. p \in [1..n + 1 -> S]
  BY <1>1
<1>3. ASSUME NEW i \in 1..n + 1, NEW j \in 1..n + 1, i < j
      PROVE  p[i] < p[j]
  <2>1. j - 1 \in 1..n /\ p[j] = q[j - 1] /\ q[j - 1] \in S \ {m}
    BY <1>1, <1>3
  <2>2. CASE i = 1
    <3>1. p[i] = m
      BY <2>2
    <3>2. m <= q[j - 1] /\ m # q[j - 1] /\ m \in Nat /\ q[j - 1] \in Nat
      BY <2>1
    <3>. HIDE DEF p
    <3>. QED  BY <2>1, <3>1, <3>2
  <2>3. CASE i # 1
    <3>1. i - 1 \in 1..n /\ p[i] = q[i - 1] /\ i - 1 < j - 1
      BY <1>1, <1>3, <2>3
    <3>. QED  BY <2>1, <3>1 DEF Rising
  <2>. QED  BY <2>2, <2>3
<1>. HIDE DEF p
<1>. QED  BY <1>2, <1>3 DEF Rising

LEMMA RisingExists ==
  ASSUME NEW S \in SUBSET Nat, IsFiniteSet(S)
  PROVE  \E q \in [1..Cardinality(S) -> S] : Rising(q)
<1>. DEFINE Bad(T) == T \in SUBSET Nat /\ IsFiniteSet(T) /\ ~\E q \in [1..Cardinality(T) -> T] : Rising(q)
            B == {n \in Nat : \E T \in SUBSET Nat : Bad(T) /\ Cardinality(T) = n}
<1>. SUFFICES ASSUME Bad(S) PROVE FALSE
  OBVIOUS
<1>1. Cardinality(S) \in B
  BY FS_CardinalityType
<1>2. PICK n \in B : \A x \in B : n <= x
  <2>1. B \in SUBSET Nat /\ B # {}
    BY <1>1
  <2>. HIDE DEF B
  <2>. QED  BY <2>1, LeastExists
<1>3. PICK T \in SUBSET Nat : Bad(T) /\ Cardinality(T) = n
  BY <1>2
<1>4. T # {}
  <2>. SUFFICES ASSUME T = {} PROVE FALSE
    OBVIOUS
  <2>1. Cardinality(T) = 0
    BY FS_EmptySet
  <2>2. <<>> \in [1..0 -> T] /\ Rising(<<>>)
    BY DEF Rising
  <2>. QED  BY <1>3, <2>1, <2>2
<1>5. PICK m \in T : \A x \in T : m <= x
  <2>. HIDE DEF Bad, B
  <2>. QED  BY <1>4, LeastExists
<1>6. IsFiniteSet(T \ {m}) /\ Cardinality(T \ {m}) = n - 1 /\ n \in Nat /\ n - 1 \in Nat
  <2>1. IsFiniteSet(T) /\ n \in Nat /\ IsFiniteSet(T \ {m})
    BY <1>2, <1>3, FS_RemoveElement
  <2>2. Cardinality(T \ {m}) = Cardinality(T) - 1 /\ Cardinality(T \ {m}) \in Nat
    BY <2>1, <1>5, FS_RemoveElement, FS_CardinalityType
  <2>. QED  BY <1>3, <2>1, <2>2
<1>7. ~Bad(T \ {m})
  <2>1. n - 1 \notin B
    BY <1>2, <1>6
  <2>. HIDE DEF Bad
  <2>. QED  BY <2>1, <1>6
<1>8. PICK q \in [1..n - 1 -> T \ {m}] : Rising(q)
  BY <1>6, <1>7
<1>9. \E p \in [1..(n - 1) + 1 -> T] : Rising(p)
  <2>. HIDE DEF Bad, B
  <2>. QED  BY <1>5, <1>6, <1>8, RisingPrepended
<1>10. (n - 1) + 1 = n
  BY <1>6
<1>. QED  BY <1>3, <1>9, <1>10

\* What Sorted returns.
LEMMA SortedIs ==
  ASSUME NEW S \in SUBSET Nat, IsFiniteSet(S)
  PROVE  /\ Store!Sorted(S) \in Seq(S) /\ Rising(Store!Sorted(S))
         /\ \A x \in S : \E i \in DOMAIN Store!Sorted(S) : Store!Sorted(S)[i] = x
<1>. DEFINE n == Cardinality(S)
            q == Store!Sorted(S)
<1>1. n \in Nat
  BY FS_CardinalityType
<1>2. q \in [1..n -> S] /\ Rising(q)
  <2>1. Store!Cardinality(S) = n
    BY DEF Store!Cardinality, Cardinality
  <2>2. q = CHOOSE p \in [1..n -> S] : Rising(p)
    BY <2>1 DEF Store!Sorted, Rising
  <2>. HIDE DEF q, n
  <2>. QED  BY <2>2, RisingExists DEF n
<1>. HIDE DEF q
<1>3. q \in Injection(1..n, S)
  <2>. HIDE DEF n
  <2>1. ASSUME NEW i \in 1..n, NEW j \in 1..n, q[i] = q[j]
        PROVE  i = j
    <3>1. q[i] \in S /\ q[j] \in S /\ i \in Int /\ j \in Int /\ i \in DOMAIN q /\ j \in DOMAIN q
      BY <1>1, <1>2
    <3>2. ~(q[i] < q[j]) /\ ~(q[j] < q[i])
      <4>1. \A x \in Nat : ~(x < x)
        OBVIOUS
      <4>2. q[i] \in Nat
        BY <3>1
      <4>. QED  BY <4>1, <4>2, <2>1
    <3>3. ~(i < j) /\ ~(j < i)
      BY <1>2, <3>2 DEF Rising
    <3>. QED  BY <3>1, <3>3
  <2>. QED  BY <2>1, <1>2 DEF Injection, IsInjective
<1>4. q \in Surjection(1..n, S)
  <2>1. IsFiniteSet(1..n) /\ Cardinality(1..n) = n
    <3>1. 1 \in Int /\ n \in Int
      BY <1>1
    <3>2. IsFiniteSet(1..n) /\ Cardinality(1..n) = IF 1 > n THEN 0 ELSE n - 1 + 1
      <4>. HIDE DEF n
      <4>. QED  BY <3>1, FS_Interval
    <3>. HIDE DEF n
    <3>. QED  BY <3>2, <1>1
  <2>. QED  BY <2>1, <1>3, FS_Injection
<1>5. \A x \in S : \E i \in 1..n : q[i] = x
  BY <1>4 DEF Surjection
<1>6. q \in Seq(S) /\ DOMAIN q = 1..n
  BY <1>1, <1>2
<1>. QED  BY <1>2, <1>5, <1>6 DEF q

-----------------------------------------------------------------------------
(***************************************************************************)
(* The lines of a file: each event on one of them, and only the last       *)
(* unfinished.                                                             *)
(***************************************************************************)
StoreLine == [event : Events, state : {"part", "whole", "spoilt"}]

Written(ls, b) ==
  /\ ls \in Seq(StoreLine)
  /\ \A i \in DOMAIN ls : Store!BucketOf(ls[i].event) = b
  /\ \A i, j \in DOMAIN ls : ls[i].event = ls[j].event => i = j
  /\ \A i \in DOMAIN ls : ls[i].state = "part" => i = Len(ls)

\* What holds of a line and stays so: its event, and its state once it is not "part".
Settled(old, new) == new.event = old.event /\ (old.state # "part" => new = old)

LEMMA BucketIs ==
  ASSUME NEW e \in Events
  PROVE  /\ Store!BucketOf(e) \in Store!Buckets /\ Store!BucketOf(e)[1] = EventTenant[e]
         /\ Store!BucketOf(e)[2] = EventTime[e] \div DayLength
<1>1. DOMAIN EventTenant = Events
  BY StoreOk DEF Store!StoreAssumption
<1>2. EventTenant[e] \in Store!Tenants
  BY <1>1 DEF Store!Tenants, Store!Range
<1>3. EventTime[e] \div DayLength \in Store!Days
  BY DEF Store!Days
<1>. QED  BY <1>2, <1>3 DEF Store!Buckets, Store!BucketOf

LEMMA BucketsAre ==
  /\ Store!Tenants \subseteq Nat /\ Store!Days \subseteq Nat
  /\ \A b \in Store!Buckets : /\ b[1] \in Nat /\ b[2] \in Nat /\ b = <<b[1], b[2]>>
                              /\ b[1] \in Store!Tenants
<1>1. /\ EventTenant \in [Events -> Nat] /\ EventTime \in [Events -> Nat]
      /\ DayLength \in Nat \ {0}
  BY StoreOk DEF Store!StoreAssumption
<1>2. Store!Tenants \subseteq Nat
  BY <1>1 DEF Store!Tenants, Store!Range
<1>3. Store!Days \subseteq Nat
  <2>1. \A t \in Nat : t \div DayLength \in Nat
    BY <1>1
  <2>. QED  BY <1>1, <2>1 DEF Store!Days
<1>4. ASSUME NEW b \in Store!Buckets
      PROVE  b[1] \in Nat /\ b[2] \in Nat /\ b = <<b[1], b[2]>> /\ b[1] \in Store!Tenants
  <2>1. PICK t \in Store!Tenants : \E d \in Store!Days : b = <<t, d>>
    BY DEF Store!Buckets
  <2>2. PICK d \in Store!Days : b = <<t, d>>
    BY <2>1
  <2>. QED  BY <1>2, <1>3, <2>2
<1>. QED  BY <1>2, <1>3, <1>4

\* AppendStarts: what an unfinished line is turned into, and the new line after it.
LEMMA LineSpoilt ==
  ASSUME NEW b, NEW ls, Written(ls, b), ls # <<>>, Store!Last(ls).state = "part"
  PROVE  LET new == Append(Store!Front(ls), Store!Spoilt(Store!Last(ls)))
         IN  /\ new \in Seq(StoreLine) /\ Len(new) = Len(ls)
             /\ \A i \in DOMAIN ls : /\ Settled(ls[i], new[i]) /\ new[i].state # "part"
                                     /\ new[i].state = "spoilt" \/ new[i] = ls[i]
<1>. DEFINE n == Len(ls)
            front == Store!Front(ls)
            last == Store!Spoilt(Store!Last(ls))
<1>1. ls \in Seq(StoreLine) /\ n \in Nat /\ DOMAIN ls = 1..n
  BY LenProperties DEF Written
<1>2. n > 0
  BY <1>1, EmptySeq
<1>3. front \in Seq(StoreLine) /\ Len(front) = n - 1 /\ \A i \in 1..n - 1 : front[i] = ls[i]
  <2>1. front = SubSeq(ls, 1, n - 1)
    BY DEF Store!Front
  <2>. QED  BY <1>1, <1>2, <2>1
<1>4. ls[n] \in StoreLine /\ Store!Last(ls) = ls[n]
  BY <1>1, <1>2 DEF Store!Last
<1>5. last \in StoreLine /\ last.event = ls[n].event /\ last.state = "spoilt"
  BY <1>4 DEF Store!Spoilt, StoreLine
<1>. HIDE DEF front, last
<1>6. /\ Append(front, last) \in Seq(StoreLine) /\ Len(Append(front, last)) = n
      /\ Append(front, last)[n] = last
      /\ \A i \in 1..n - 1 : Append(front, last)[i] = ls[i]
  <2>1. /\ Append(front, last) \in Seq(StoreLine) /\ Len(Append(front, last)) = n - 1 + 1
        /\ Append(front, last)[n - 1 + 1] = last
        /\ \A i \in 1..n - 1 : Append(front, last)[i] = front[i]
    BY <1>3, <1>5, AppendProperties
  <2>2. n - 1 + 1 = n
    BY <1>1
  <2>. QED  BY <1>3, <2>1, <2>2
<1>7. ASSUME NEW i \in DOMAIN ls
      PROVE  /\ Settled(ls[i], Append(front, last)[i]) /\ Append(front, last)[i].state # "part"
             /\ Append(front, last)[i].state = "spoilt" \/ Append(front, last)[i] = ls[i]
  <2>1. CASE i = n
    <3>1. ls[n].state = "part"
      BY <1>4
    <3>. QED  BY <1>5, <1>6, <2>1, <3>1 DEF Settled
  <2>2. CASE i # n
    <3>1. i \in 1..n - 1
      BY <1>1, <2>2
    <3>. QED  BY <1>6, <2>2, <3>1 DEF Settled, Written
  <2>. QED  BY <2>1, <2>2
<1>. QED  BY <1>6, <1>7 DEF front, last

LEMMA LineStarted ==
  ASSUME NEW b, NEW ls, Written(ls, b), NEW e \in Events, Store!BucketOf(e) = b,
         \A i \in DOMAIN ls : ls[i].event # e,
         NEW pre \in Seq(StoreLine), Len(pre) = Len(ls),
         \A i \in DOMAIN ls : Settled(ls[i], pre[i]) /\ pre[i].state # "part"
  PROVE  LET new == Append(pre, [event |-> e, state |-> "part"])
         IN  /\ Written(new, b) /\ Len(new) = Len(ls) + 1
             /\ new[Len(ls) + 1] = [event |-> e, state |-> "part"]
             /\ \A i \in DOMAIN ls : i \in DOMAIN new /\ new[i] = pre[i]
<1>. DEFINE n == Len(ls)
            line == [event |-> e, state |-> "part"]
            new == Append(pre, line)
<1>1. ls \in Seq(StoreLine) /\ n \in Nat /\ DOMAIN ls = 1..n
  BY LenProperties DEF Written
<1>2. line \in StoreLine
  BY DEF StoreLine
<1>3. /\ new \in Seq(StoreLine) /\ Len(new) = n + 1 /\ DOMAIN new = 1..n + 1
      /\ new[n + 1] = line /\ \A i \in 1..n : new[i] = pre[i]
  <2>. HIDE DEF line
  <2>1. /\ Append(pre, line) \in Seq(StoreLine) /\ Len(Append(pre, line)) = n + 1
        /\ Append(pre, line)[n + 1] = line
        /\ \A i \in 1..n : Append(pre, line)[i] = pre[i]
    BY <1>2, AppendProperties
  <2>2. DOMAIN new = 1..Len(new)
    BY <2>1, LenProperties
  <2>. QED  BY <2>1, <2>2
<1>. HIDE DEF new
<1>4. \A i \in 1..n : new[i].event = ls[i].event /\ new[i].state # "part"
  BY <1>1, <1>3 DEF Settled
<1>5. \A i \in 1..n + 1 : i \in 1..n \/ i = n + 1
  BY <1>1
<1>6. \A i \in DOMAIN new : Store!BucketOf(new[i].event) = b
  BY <1>1, <1>3, <1>4, <1>5 DEF Written
<1>7. \A i, j \in DOMAIN new : new[i].event = new[j].event => i = j
  BY <1>1, <1>3, <1>4, <1>5 DEF Written
<1>8. \A i \in DOMAIN new : new[i].state = "part" => i = Len(new)
  BY <1>1, <1>3, <1>4, <1>5
<1>9. Written(new, b)
  BY <1>3, <1>6, <1>7, <1>8 DEF Written
<1>. QED  BY <1>1, <1>3, <1>5, <1>9 DEF new

\* AppendReturns: the last line is no longer unfinished.
LEMMA LineEnded ==
  ASSUME NEW b, NEW ls, Written(ls, b), NEW e \in Events, ls # <<>>,
         ls[Len(ls)] = [event |-> e, state |-> "part"], NEW st \in {"spoilt", "whole"}
  PROVE  LET new == Append(Store!Front(ls), [event |-> e, state |-> st])
         IN  /\ Written(new, b) /\ Len(new) = Len(ls)
             /\ new[Len(ls)] = [event |-> e, state |-> st]
             /\ \A i \in DOMAIN ls : i # Len(ls) => new[i] = ls[i]
<1>. DEFINE n == Len(ls)
            front == Store!Front(ls)
            line == [event |-> e, state |-> st]
            new == Append(front, line)
<1>1. ls \in Seq(StoreLine) /\ n \in Nat /\ DOMAIN ls = 1..n
  BY LenProperties DEF Written
<1>2. n > 0
  BY <1>1, EmptySeq
<1>3. front \in Seq(StoreLine) /\ Len(front) = n - 1 /\ \A i \in 1..n - 1 : front[i] = ls[i]
  <2>1. front = SubSeq(ls, 1, n - 1)
    BY DEF Store!Front
  <2>. QED  BY <1>1, <1>2, <2>1
<1>4. line \in StoreLine
  BY DEF StoreLine
<1>5. /\ new \in Seq(StoreLine) /\ Len(new) = n /\ DOMAIN new = 1..n
      /\ new[n] = line /\ \A i \in 1..n - 1 : new[i] = ls[i]
  <2>. HIDE DEF line, front
  <2>1. /\ Append(front, line) \in Seq(StoreLine) /\ Len(Append(front, line)) = n - 1 + 1
        /\ Append(front, line)[n - 1 + 1] = line
        /\ \A i \in 1..n - 1 : Append(front, line)[i] = front[i]
    BY <1>3, <1>4, AppendProperties
  <2>2. n - 1 + 1 = n
    BY <1>1
  <2>3. DOMAIN new = 1..Len(new)
    BY <2>1, LenProperties
  <2>. QED  BY <1>3, <2>1, <2>2, <2>3
<1>. HIDE DEF new, front
<1>6. \A i \in 1..n : i \in 1..n - 1 \/ i = n
  <2>. HIDE DEF n
  <2>. QED  BY <1>1
<1>7. \A i \in 1..n : new[i].event = ls[i].event
  <2>. SUFFICES ASSUME NEW i \in 1..n PROVE new[i].event = ls[i].event
    OBVIOUS
  <2>1. CASE i = n
    BY <1>5, <2>1
  <2>2. CASE i \in 1..n - 1
    <3>1. new[i] = ls[i]
      BY <1>5, <2>2
    <3>. QED  BY <3>1
  <2>. HIDE DEF n
  <2>. QED  BY <1>6, <2>1, <2>2
<1>8. \A i \in DOMAIN new : new[i].state = "part" => i = Len(new)
  <2>1. \A i \in 1..n - 1 : i \in 1..n /\ i # n
    <3>. HIDE DEF n
    <3>. QED  BY <1>1
  <2>. QED  BY <1>1, <1>5, <1>6, <2>1 DEF Written
<1>9. Written(new, b)
  BY <1>1, <1>5, <1>7, <1>8 DEF Written
<1>10. \A i \in DOMAIN ls : i # Len(ls) => new[i] = ls[i]
  BY <1>1, <1>5, <1>6
<1>. QED  BY <1>5, <1>9, <1>10 DEF new, front

-----------------------------------------------------------------------------
(***************************************************************************)
(* What the files hold, of what was appended and refused and is written.   *)
(***************************************************************************)
FilesWritten ==
  /\ DOMAIN file \subseteq Store!Buckets /\ IsFiniteSet(DOMAIN file)
  /\ \A b \in DOMAIN file : Written(file[b], b)

Keys ==
  /\ appended \subseteq Events /\ refused \subseteq Events /\ IsFiniteSet(appended)
  /\ writing \in Events \cup {Store!Nothing} /\ writing \notin appended \cup refused
  /\ stuck \subseteq Store!Buckets /\ storeClosed \in BOOLEAN /\ joins \in BOOLEAN
  /\ diskErrors \in 0..MaxDiskErrors /\ storeStarts \in 0..MaxStoreStarts

\* A whole line is of an event whose key was returned, an unfinished one is not.
LinesKnown ==
  \A b \in DOMAIN file : \A i \in DOMAIN file[b] :
    /\ file[b][i].event \in appended \cup refused \cup {writing}
    /\ file[b][i].state = "whole" => file[b][i].event \in appended
    /\ file[b][i].state = "part" => file[b][i].event \notin appended
    /\ storeStarts = 0 => file[b][i].state # "spoilt"

HasLine(e) ==
  /\ Store!BucketOf(e) \in DOMAIN file
  /\ \E i \in DOMAIN file[Store!BucketOf(e)] : file[Store!BucketOf(e)][i].event = e
LinesThere == \A e \in appended : HasLine(e)

AtWork(b) == writing # Store!Nothing /\ Store!BucketOf(writing) = b

UnderWay ==
  /\ writing # Store!Nothing =>
       LET b == Store!BucketOf(writing) IN
       /\ ~storeClosed /\ b \notin stuck /\ b \in DOMAIN file /\ file[b] # <<>>
       /\ file[b][Len(file[b])] = [event |-> writing, state |-> "part"]
  /\ joins => writing # Store!Nothing /\ storeStarts > 0

\* A line is left unfinished by a writer that has failed, a store closed after that,
\* or a process that died.
LeftUnfinished ==
  \A b \in DOMAIN file :
    Store!Unfinished(b) => AtWork(b) \/ b \in stuck \/ storeClosed \/ storeStarts > 0

\* Events whose key was returned that cannot be read, and whether one more is to
\* be: an unfinished line that the next one will join, or is joined already.
Lost(b) == {e \in appended : Store!BucketOf(e) = b /\ ~Store!Intact(e)}
AtRisk(b) ==
  /\ ~storeClosed /\ b \notin stuck /\ Store!Unfinished(b)
  /\ AtWork(b) => joins
Losses ==
  \A b \in DOMAIN file :
    /\ Cardinality(Lost(b)) <= storeStarts
    /\ AtRisk(b) => Cardinality(Lost(b)) + 1 <= storeStarts

FilesInv == FilesWritten /\ Keys /\ LinesKnown /\ LinesThere /\ UnderWay /\ LeftUnfinished /\ Losses

\* What no step undoes.
Kept(f, g) ==
  \A b \in DOMAIN f :
    b \in DOMAIN g /\ \A i \in DOMAIN f[b] : i \in DOMAIN g[b] /\ Settled(f[b][i], g[b][i])

LEMMA NothingChangedKept ==
  ASSUME NEW f
  PROVE  Kept(f, f)
BY DEF Kept, Settled

-----------------------------------------------------------------------------
(***************************************************************************)
(* What each operation does to the files.                                  *)
(***************************************************************************)
Begun(e) == [event |-> e, state |-> "part"]

LEMMA LinesWritten ==
  ASSUME FilesWritten, NEW e \in Events
  PROVE  Written(Store!Lines(Store!BucketOf(e)), Store!BucketOf(e))
<1>1. CASE Store!BucketOf(e) \in DOMAIN file
  BY <1>1 DEF FilesWritten, Store!Lines
<1>2. CASE Store!BucketOf(e) \notin DOMAIN file
  <2>1. Store!Lines(Store!BucketOf(e)) = <<>>
    BY <1>2 DEF Store!Lines
  <2>2. <<>> \in Seq(StoreLine) /\ DOMAIN <<>> = {}
    OBVIOUS
  <2>. QED  BY <2>1, <2>2 DEF Written
<1>. QED  BY <1>1, <1>2

LEMMA StartLineDoes ==
  ASSUME FilesWritten, NEW e \in Events, NEW b, b = Store!BucketOf(e),
         \A i \in DOMAIN Store!Lines(b) : Store!Lines(b)[i].event # e,
         file' = Store!StartLine(e)
  PROVE  /\ DOMAIN file' = DOMAIN file \cup {b}
         /\ \A x \in DOMAIN file : x # b => file'[x] = file[x]
         /\ Written(file'[b], b) /\ Len(file'[b]) = Len(Store!Lines(b)) + 1
         /\ Len(Store!Lines(b)) \in Nat
         /\ file'[b][Len(file'[b])] = Begun(e)
         /\ \A i \in DOMAIN Store!Lines(b) :
              /\ i \in DOMAIN file'[b] /\ Settled(Store!Lines(b)[i], file'[b][i])
              /\ file'[b][i].state # "part"
              /\ file'[b][i] # Store!Lines(b)[i] => Store!Unfinished(b) /\ file'[b][i].state = "spoilt"
<1>. DEFINE ls == Store!Lines(b)
            pre == IF Store!Unfinished(b) THEN Append(Store!Front(ls), Store!Spoilt(Store!Last(ls))) ELSE ls
            new == Append(pre, Begun(e))
<1>1. Written(ls, b)
  BY LinesWritten
<1>2. /\ pre \in Seq(StoreLine) /\ Len(pre) = Len(ls)
      /\ \A i \in DOMAIN ls : /\ Settled(ls[i], pre[i]) /\ pre[i].state # "part"
                              /\ pre[i].state = "spoilt" \/ pre[i] = ls[i]
  <2>. HIDE DEF ls
  <2>1. CASE Store!Unfinished(b)
    <3>1. ls # <<>> /\ Store!Last(ls).state = "part"
      BY <2>1 DEF Store!Unfinished, ls
    <3>. DEFINE made == Append(Store!Front(ls), Store!Spoilt(Store!Last(ls)))
    <3>2. /\ made \in Seq(StoreLine) /\ Len(made) = Len(ls)
          /\ \A i \in DOMAIN ls : /\ Settled(ls[i], made[i]) /\ made[i].state # "part"
                                  /\ made[i].state = "spoilt" \/ made[i] = ls[i]
      BY <1>1, <3>1, LineSpoilt
    <3>3. pre = made
      BY <2>1
    <3>. QED  BY <3>2, <3>3
  <2>2. CASE ~Store!Unfinished(b)
    <3>1. pre = ls
      BY <2>2
    <3>2. ls = <<>> \/ ls[Len(ls)].state # "part"
      BY <2>2 DEF Store!Unfinished, Store!Last, ls
    <3>3. ls \in Seq(StoreLine) /\ \A i \in DOMAIN ls : ls[i].state = "part" => i = Len(ls)
      BY <1>1 DEF Written
    <3>4. \A i \in DOMAIN ls : ls[i].state # "part"
      <4>1. CASE ls = <<>>
        BY <4>1
      <4>2. CASE ls[Len(ls)].state # "part"
        BY <3>3, <4>2
      <4>. QED  BY <3>2, <4>1, <4>2
    <3>. QED  BY <3>1, <3>3, <3>4 DEF Settled
  <2>. QED  BY <2>1, <2>2
<1>3. /\ Written(new, b) /\ Len(new) = Len(ls) + 1 /\ new[Len(ls) + 1] = Begun(e)
      /\ \A i \in DOMAIN ls : i \in DOMAIN new /\ new[i] = pre[i]
  <2>. HIDE DEF pre, ls
  <2>1. \A i \in DOMAIN ls : ls[i].event # e
    BY DEF ls
  <2>2. Written(ls, b) /\ e \in Events /\ Store!BucketOf(e) = b
    BY <1>1
  <2>3. pre \in Seq(StoreLine) /\ Len(pre) = Len(ls)
    BY <1>2
  <2>4. \A i \in DOMAIN ls : Settled(ls[i], pre[i]) /\ pre[i].state # "part"
    BY <1>2
  <2>5. LET line == [event |-> e, state |-> "part"]
            made == Append(pre, line)
        IN  /\ Written(made, b) /\ Len(made) = Len(ls) + 1 /\ made[Len(ls) + 1] = line
            /\ \A i \in DOMAIN ls : i \in DOMAIN made /\ made[i] = pre[i]
    BY ONLY <2>1, <2>2, <2>3, <2>4, LineStarted, SMTT(30)
  <2>. QED  BY <2>5 DEF Begun
<1>4. \A i \in DOMAIN ls : pre[i] # ls[i] => Store!Unfinished(b)
  OBVIOUS
<1>5. file' = [Store!WithFile(b) EXCEPT ![b] = new]
  BY DEF Store!StartLine, Begun
<1>. HIDE DEF new, pre
<1>6. /\ DOMAIN Store!WithFile(b) = DOMAIN file \cup {b}
      /\ \A x \in DOMAIN file : Store!WithFile(b)[x] = file[x]
  BY DEF Store!WithFile, Store!Lines
<1>7. /\ DOMAIN file' = DOMAIN file \cup {b} /\ file'[b] = new
      /\ \A x \in DOMAIN file : x # b => file'[x] = file[x]
  <2>1. \E f : f = Store!WithFile(b)
    OBVIOUS
  <2>2. PICK f : f = Store!WithFile(b)
    BY <2>1
  <2>3. DOMAIN file' = DOMAIN f /\ (b \in DOMAIN f => file'[b] = new)
        /\ \A x \in DOMAIN f : x # b => file'[x] = f[x]
    BY <1>5, <2>2
  <2>. QED  BY <1>6, <2>2, <2>3
<1>8. Len(ls) \in Nat
  <2>1. ls \in Seq(StoreLine)
    BY <1>1 DEF Written
  <2>. QED  BY <2>1, LenProperties
<1>. QED  BY <1>2, <1>3, <1>4, <1>7, <1>8

LEMMA WithFileDoes ==
  ASSUME FilesWritten, NEW e \in Events, NEW b, b = Store!BucketOf(e), file' = Store!WithFile(b)
  PROVE  /\ FilesWritten' /\ DOMAIN file' = DOMAIN file \cup {b}
         /\ \A x \in DOMAIN file : file'[x] = file[x]
         /\ b \notin DOMAIN file => file'[b] = <<>>
<1>1. /\ DOMAIN file' = DOMAIN file \cup {b}
      /\ \A x \in DOMAIN file : file'[x] = file[x]
      /\ b \notin DOMAIN file => file'[b] = <<>>
  BY DEF Store!WithFile, Store!Lines
<1>2. Written(<<>>, b)
  <2>1. <<>> \in Seq(StoreLine) /\ DOMAIN <<>> = {}
    OBVIOUS
  <2>. QED  BY <2>1 DEF Written
<1>3. b \in Store!Buckets
  BY BucketIs
<1>4. IsFiniteSet(DOMAIN file \cup {b})
  BY FS_AddElement DEF FilesWritten
<1>5. FilesWritten'
  <2>1. DOMAIN file' \subseteq Store!Buckets
    BY <1>1, <1>3 DEF FilesWritten
  <2>2. IsFiniteSet(DOMAIN file')
    BY <1>1, <1>4
  <2>3. \A x \in DOMAIN file' : Written(file'[x], x)
    BY <1>1, <1>2 DEF FilesWritten
  <2>. QED  BY <2>1, <2>2, <2>3 DEF FilesWritten
<1>. QED  BY <1>1, <1>5

LEMMA EndLineDoes ==
  ASSUME FilesWritten, Keys, UnderWay, writing # Store!Nothing,
         NEW b, b = Store!BucketOf(writing), file' = Store!EndLine(writing)
  PROVE  /\ FilesWritten' /\ b \in DOMAIN file /\ DOMAIN file' = DOMAIN file
         /\ \A x \in DOMAIN file : x # b => file'[x] = file[x]
         /\ Len(file'[b]) = Len(file[b]) /\ Len(file[b]) \in DOMAIN file[b]
         /\ file'[b][Len(file[b])] = [event |-> writing, state |-> IF joins THEN "spoilt" ELSE "whole"]
         /\ \A i \in DOMAIN file[b] : i # Len(file[b]) => file'[b][i] = file[b][i]
         /\ DOMAIN file'[b] = DOMAIN file[b]
<1>. DEFINE st == IF joins THEN "spoilt" ELSE "whole"
            new == Append(Store!Front(file[b]), [event |-> writing, state |-> st])
<1>1. /\ b \in DOMAIN file /\ file[b] # <<>> /\ writing \in Events
      /\ file[b][Len(file[b])] = [event |-> writing, state |-> "part"]
      /\ Written(file[b], b)
  BY DEF FilesWritten, Keys, UnderWay
<1>2. file' = [file EXCEPT ![b] = new]
  BY DEF Store!EndLine
<1>3. st \in {"spoilt", "whole"}
  OBVIOUS
<1>4. /\ Written(new, b) /\ Len(new) = Len(file[b])
      /\ new[Len(file[b])] = [event |-> writing, state |-> st]
      /\ \A i \in DOMAIN file[b] : i # Len(file[b]) => new[i] = file[b][i]
  <2>. DEFINE ls == file[b]
              w == writing
  <2>1. /\ Written(ls, b) /\ w \in Events /\ ls # <<>>
        /\ ls[Len(ls)] = [event |-> w, state |-> "part"]
    BY <1>1
  <2>. HIDE DEF st, ls, w, new
  <2>2. LET n == Append(Store!Front(ls), [event |-> w, state |-> st])
        IN  /\ Written(n, b) /\ Len(n) = Len(ls)
            /\ n[Len(ls)] = [event |-> w, state |-> st]
            /\ \A i \in DOMAIN ls : i # Len(ls) => n[i] = ls[i]
    BY ONLY <1>3, <2>1, LineEnded, Zenon
  <2>. QED  BY <2>2 DEF ls, w, new
<1>. HIDE DEF new, st
<1>5. DOMAIN file' = DOMAIN file /\ file'[b] = new /\ \A x \in DOMAIN file : x # b => file'[x] = file[x]
  BY <1>1, <1>2
<1>6. FilesWritten'
  BY <1>4, <1>5 DEF FilesWritten
<1>7. Len(file[b]) \in DOMAIN file[b] /\ DOMAIN new = DOMAIN file[b]
  <2>1. file[b] \in Seq(StoreLine) /\ new \in Seq(StoreLine)
    BY <1>1, <1>4 DEF Written
  <2>2. Len(file[b]) \in Nat /\ Len(file[b]) # 0
    BY <1>1, <2>1, EmptySeq, LenProperties
  <2>. QED  BY <1>4, <2>1, <2>2, LenProperties
<1>. QED  BY <1>1, <1>4, <1>5, <1>6, <1>7 DEF st

-----------------------------------------------------------------------------
(***************************************************************************)
(* Every step keeps the invariant of the files, and what they hold.        *)
(***************************************************************************)
LEMMA IntactStays ==
  ASSUME FilesWritten, FilesWritten', LinesKnown, LinesThere, Kept(file, file'), NEW e \in appended
  PROVE  HasLine(e)' /\ (Store!Intact(e)' <=> Store!Intact(e))
<1>. DEFINE b == Store!BucketOf(e)
<1>1. b \in DOMAIN file /\ b \in DOMAIN file'
  BY DEF LinesThere, HasLine, Kept
<1>2. PICK i \in DOMAIN file[b] : file[b][i].event = e
  BY DEF LinesThere, HasLine
<1>3. Written(file[b], b) /\ Written(file'[b], b)
  BY <1>1 DEF FilesWritten
<1>4. file[b][i].state # "part"
  BY <1>1, <1>2 DEF LinesKnown
<1>5. i \in DOMAIN file'[b] /\ file'[b][i] = file[b][i]
  BY <1>1, <1>2, <1>4 DEF Kept, Settled
<1>6. Store!BucketOf(e)' = b
  BY DEF Store!BucketOf
<1>7. HasLine(e)'
  BY <1>1, <1>2, <1>5, <1>6 DEF HasLine
<1>8. ASSUME NEW j \in DOMAIN file[b], file[b][j] = [event |-> e, state |-> "whole"] PROVE j = i
  BY <1>2, <1>3, <1>8 DEF Written
<1>9. ASSUME NEW j \in DOMAIN file'[b], file'[b][j] = [event |-> e, state |-> "whole"] PROVE j = i
  BY <1>2, <1>3, <1>5, <1>9 DEF Written
<1>10. Store!Intact(e) <=> \E j \in DOMAIN file[b] : file[b][j] = [event |-> e, state |-> "whole"]
  BY <1>1 DEF Store!Intact, Store!Lines
<1>11. Store!Intact(e)' <=> \E j \in DOMAIN file'[b] : file'[b][j] = [event |-> e, state |-> "whole"]
  BY <1>1 DEF Store!Intact, Store!Lines, Store!BucketOf
<1>. HIDE DEF b
<1>. QED  BY <1>2, <1>5, <1>7, <1>8, <1>9, <1>10, <1>11

LEMMA EventOfLine ==
  ASSUME FilesWritten, NEW b \in DOMAIN file, NEW i \in DOMAIN file[b]
  PROVE  file[b][i] \in StoreLine /\ file[b][i].event \in Events /\ file[b][i].event # Store!Nothing
<1>1. file[b] \in Seq(StoreLine)
  BY DEF FilesWritten, Written
<1>2. file[b][i] \in StoreLine
  BY <1>1
<1>3. Store!Nothing \notin Events
  BY StoreOk DEF Store!StoreAssumption
<1>. QED  BY <1>2, <1>3 DEF StoreLine

LEMMA NothingLostElsewhere ==
  ASSUME LinesThere, NEW b, b \notin DOMAIN file
  PROVE  Lost(b) = {}
BY DEF LinesThere, HasLine, Lost

LEMMA LostIsFinite ==
  ASSUME Keys, NEW b
  PROVE  IsFiniteSet(Lost(b)) /\ Cardinality(Lost(b)) \in Nat
<1>1. Lost(b) \in SUBSET appended
  BY DEF Lost
<1>. QED  BY <1>1, FS_Subset, FS_CardinalityType DEF Keys

\* Of a file whose lines stay there is nothing more to be lost.
LEMMA UnfinishedStays ==
  ASSUME NEW b \in DOMAIN file, b \in DOMAIN file', file'[b] = file[b]
  PROVE  Store!Unfinished(b)' <=> Store!Unfinished(b)
BY DEF Store!Unfinished, Store!Lines, Store!Last

LEMMA AppendStartsKeepsFiles ==
  ASSUME FilesInv, NEW e \in Events, Store!AppendStarts(e)
  PROVE  FilesInv' /\ Kept(file, file')
<1>. DEFINE b == Store!BucketOf(e)
<1>1. /\ ~storeClosed /\ writing = Store!Nothing /\ e \notin appended \cup refused
      /\ b \notin stuck /\ file' = Store!StartLine(e) /\ joins' = Store!Unfinished(b)
      /\ writing' = e
      /\ UNCHANGED <<stuck, storeClosed, appended, refused, diskErrors, storeStarts>>
  BY DEF Store!AppendStarts, Store!Free, Store!Fresh, Store!counts
<1>2. FilesWritten /\ Keys /\ LinesKnown /\ LinesThere /\ UnderWay /\ LeftUnfinished /\ Losses
  BY DEF FilesInv
<1>3. b \in Store!Buckets /\ e # Store!Nothing
  BY BucketIs, StoreOk DEF Store!StoreAssumption
<1>4. \A i \in DOMAIN Store!Lines(b) : Store!Lines(b)[i].event # e
  <2>1. CASE b \in DOMAIN file
    <3>1. Store!Lines(b) = file[b]
      BY <2>1 DEF Store!Lines
    <3>. QED  BY <1>1, <1>2, <1>3, <2>1, <3>1 DEF LinesKnown
  <2>2. CASE b \notin DOMAIN file
    <3>1. Store!Lines(b) = <<>>
      BY <2>2 DEF Store!Lines
    <3>. QED  BY <3>1
  <2>. QED  BY <2>1, <2>2
<1>5. /\ DOMAIN file' = DOMAIN file \cup {b}
      /\ \A x \in DOMAIN file : x # b => file'[x] = file[x]
      /\ Written(file'[b], b) /\ Len(file'[b]) = Len(Store!Lines(b)) + 1
      /\ Len(Store!Lines(b)) \in Nat
      /\ file'[b][Len(file'[b])] = Begun(e)
      /\ \A i \in DOMAIN Store!Lines(b) :
           /\ i \in DOMAIN file'[b] /\ Settled(Store!Lines(b)[i], file'[b][i])
           /\ file'[b][i].state # "part"
           /\ file'[b][i] # Store!Lines(b)[i] => Store!Unfinished(b) /\ file'[b][i].state = "spoilt"
  <2>. HIDE DEF b
  <2>. QED  BY <1>1, <1>2, <1>4, StartLineDoes DEF b
<1>6. b \in DOMAIN file => Store!Lines(b) = file[b]
  BY DEF Store!Lines
<1>7. b \notin DOMAIN file => Store!Lines(b) = <<>>
  BY DEF Store!Lines
<1>. HIDE DEF b
<1>8. Kept(file, file')
  BY <1>5, <1>6 DEF Kept, Settled
<1>9. FilesWritten'
  <2>1. IsFiniteSet(DOMAIN file \cup {b})
    BY <1>2, FS_AddElement DEF FilesWritten
  <2>. QED  BY <1>2, <1>3, <1>5, <2>1 DEF FilesWritten
<1>10. Keys'
  BY <1>1, <1>2, <1>3 DEF Keys, Store!Unfinished
\* The last line of the file is the new one; the others were there.
<1>11. \A i \in DOMAIN file'[b] : i = Len(file'[b]) \/ i \in DOMAIN Store!Lines(b)
  <2>1. file'[b] \in Seq(StoreLine) /\ Store!Lines(b) \in Seq(StoreLine)
    <3>1. b \in DOMAIN file => Store!Lines(b) \in Seq(StoreLine)
      BY <1>2, <1>6 DEF FilesWritten, Written
    <3>2. b \notin DOMAIN file => Store!Lines(b) \in Seq(StoreLine)
      BY <1>7
    <3>. QED  BY <1>5, <3>1, <3>2 DEF Written
  <2>2. DOMAIN file'[b] = 1..Len(file'[b]) /\ DOMAIN Store!Lines(b) = 1..Len(Store!Lines(b))
    BY <2>1, LenProperties
  <2>. QED  BY <1>5, <2>2
<1>12. LinesKnown'
  <2>. SUFFICES ASSUME NEW x \in DOMAIN file', NEW i \in DOMAIN file'[x]
                PROVE  /\ file'[x][i].event \in appended \cup refused \cup {e}
                       /\ file'[x][i].state = "whole" => file'[x][i].event \in appended
                       /\ file'[x][i].state = "part" => file'[x][i].event \notin appended
                       /\ storeStarts = 0 => file'[x][i].state # "spoilt"
    BY <1>1 DEF LinesKnown
  <2>1. CASE x # b
    <3>1. x \in DOMAIN file /\ file'[x] = file[x]
      BY <1>5, <2>1
    <3>2. file[x][i].event # Store!Nothing
      BY <1>2, <3>1, EventOfLine
    <3>. QED  BY <1>1, <1>2, <3>1, <3>2 DEF LinesKnown
  <2>2. CASE x = b /\ i = Len(file'[b])
    BY <1>1, <1>5, <2>2 DEF Begun
  <2>3. CASE x = b /\ i \in DOMAIN Store!Lines(b)
    <3>1. b \in DOMAIN file
      BY <1>7, <2>3
    <3>2. i \in DOMAIN file[b] /\ Settled(file[b][i], file'[b][i])
          /\ file'[b][i].state # "part"
          /\ (file'[b][i] # file[b][i] => Store!Unfinished(b) /\ file'[b][i].state = "spoilt")
      BY <1>5, <1>6, <2>3, <3>1
    <3>3. Store!Unfinished(b) => storeStarts > 0
      BY <1>1, <1>2, <3>1 DEF LeftUnfinished, AtWork
    <3>4. storeStarts \in Nat
      BY <1>2 DEF Keys
    <3>5. /\ file[b][i].event \in appended \cup refused \cup {writing}
          /\ file[b][i].state = "whole" => file[b][i].event \in appended
          /\ storeStarts = 0 => file[b][i].state # "spoilt"
      BY <1>2, <3>1, <3>2 DEF LinesKnown
    <3>6. file[b][i].event # Store!Nothing
      BY <1>2, <3>1, <3>2, EventOfLine
    <3>8. file'[b][i].event = file[b][i].event
      BY <3>2 DEF Settled
    <3>. QED  BY <1>1, <2>3, <3>2, <3>3, <3>4, <3>5, <3>6, <3>8
  <2>. QED  BY <1>11, <2>1, <2>2, <2>3
<1>13. \A g \in appended : HasLine(g)' /\ (Store!Intact(g)' <=> Store!Intact(g))
  BY <1>2, <1>8, <1>9, IntactStays
<1>14. LinesThere'
  BY <1>1, <1>13 DEF LinesThere
<1>15. UnderWay'
  <2>1. Store!BucketOf(e) = b
    BY DEF b
  <2>2. Store!Unfinished(b) => storeStarts > 0
    <3>1. Store!Unfinished(b) => b \in DOMAIN file
      BY <1>7 DEF Store!Unfinished
    <3>. QED  BY <1>1, <1>2, <3>1 DEF LeftUnfinished, AtWork
  <2>3. file'[b] # <<>>
    BY <1>5
  <2>. QED  BY <1>1, <1>3, <1>5, <2>1, <2>2, <2>3 DEF UnderWay, Begun, Store!BucketOf
<1>16. AtWork(b)' /\ \A x : x # b => ~AtWork(x)'
  BY <1>1, <1>3 DEF AtWork, Store!BucketOf, b
<1>17. \A x \in DOMAIN file : x # b => (Store!Unfinished(x)' <=> Store!Unfinished(x))
  BY <1>5, UnfinishedStays
<1>18. LeftUnfinished'
  <2>. SUFFICES ASSUME NEW x \in DOMAIN file', x # b, Store!Unfinished(x)'
                PROVE  x \in stuck \/ storeClosed \/ storeStarts > 0
    BY <1>1, <1>16 DEF LeftUnfinished
  <2>. QED  BY <1>1, <1>2, <1>5, <1>17 DEF LeftUnfinished, AtWork
<1>19. Losses'
  <2>. SUFFICES ASSUME NEW x \in DOMAIN file'
                PROVE  /\ Cardinality(Lost(x)') <= storeStarts
                       /\ AtRisk(x)' => Cardinality(Lost(x)') + 1 <= storeStarts
    BY <1>1 DEF Losses
  <2>1. Lost(x)' = Lost(x)
    BY <1>1, <1>13 DEF Lost, Store!BucketOf
  <2>2. storeStarts \in Nat
    BY <1>2 DEF Keys
  <2>3. CASE x \notin DOMAIN file
    <3>1. Cardinality(Lost(x)) = 0
      BY <1>2, <2>3, NothingLostElsewhere, FS_EmptySet
    <3>2. x = b /\ ~Store!Unfinished(b)
      BY <1>5, <1>7, <2>3 DEF Store!Unfinished
    <3>3. ~AtRisk(b)'
      BY <1>1, <1>16, <3>2 DEF AtRisk
    <3>. QED  BY <2>1, <2>2, <3>1, <3>2, <3>3
  <2>4. CASE x \in DOMAIN file
    <3>1. AtRisk(x)' => AtRisk(x)
      <4>1. CASE x = b
        BY <1>1, <1>16, <4>1 DEF AtRisk, AtWork
      <4>2. CASE x # b
        BY <1>1, <1>17, <2>4, <4>2 DEF AtRisk, AtWork
      <4>. QED  BY <4>1, <4>2
    <3>. QED  BY <1>2, <2>1, <2>4, <3>1 DEF Losses
  <2>. QED  BY <2>3, <2>4
<1>. QED  BY <1>8, <1>9, <1>10, <1>12, <1>14, <1>15, <1>18, <1>19 DEF FilesInv

LEMMA AppendReturnsKeepsFiles ==
  ASSUME FilesInv, Store!AppendReturns, NEW w, w = writing, NEW b, b = Store!BucketOf(w)
  PROVE  FilesInv' /\ Kept(file, file')
<1>1. /\ w # Store!Nothing /\ file' = Store!EndLine(w) /\ writing' = Store!Nothing
      /\ joins' = FALSE /\ appended' = appended \cup {w}
      /\ UNCHANGED <<stuck, storeClosed, refused, diskErrors, storeStarts>>
  BY DEF Store!AppendReturns, Store!counts
<1>2. FilesWritten /\ Keys /\ LinesKnown /\ LinesThere /\ UnderWay /\ LeftUnfinished /\ Losses
  BY DEF FilesInv
<1>3. /\ FilesWritten' /\ b \in DOMAIN file /\ DOMAIN file' = DOMAIN file
      /\ \A x \in DOMAIN file : x # b => file'[x] = file[x]
      /\ Len(file'[b]) = Len(file[b]) /\ Len(file[b]) \in DOMAIN file[b]
      /\ file'[b][Len(file[b])] = [event |-> w, state |-> IF joins THEN "spoilt" ELSE "whole"]
      /\ \A i \in DOMAIN file[b] : i # Len(file[b]) => file'[b][i] = file[b][i]
      /\ DOMAIN file'[b] = DOMAIN file[b]
  BY <1>1, <1>2, EndLineDoes
<1>4. /\ w \in Events /\ w \notin appended \cup refused /\ b \notin stuck /\ ~storeClosed
      /\ file[b][Len(file[b])] = [event |-> w, state |-> "part"]
      /\ joins => storeStarts > 0
  BY <1>1, <1>2 DEF Keys, UnderWay
<1>5. storeStarts \in Nat /\ appended \subseteq Events /\ joins \in BOOLEAN
  BY <1>2 DEF Keys
<1>6. Store!Nothing \notin Events
  BY StoreOk DEF Store!StoreAssumption
<1>7. Kept(file, file')
  <2>. SUFFICES ASSUME NEW x \in DOMAIN file, NEW i \in DOMAIN file[x]
                PROVE  i \in DOMAIN file'[x] /\ Settled(file[x][i], file'[x][i])
    BY <1>3 DEF Kept
  <2>1. CASE x # b
    BY <1>3, <2>1 DEF Settled
  <2>2. CASE x = b /\ i # Len(file[b])
    BY <1>3, <2>2 DEF Settled
  <2>3. CASE x = b /\ i = Len(file[b])
    BY <1>3, <1>4, <2>3 DEF Settled
  <2>. QED  BY <2>1, <2>2, <2>3
<1>8. Keys'
  <2>1. IsFiniteSet(appended \cup {w})
    BY <1>2, FS_AddElement DEF Keys
  <2>. QED  BY <1>1, <1>2, <1>4, <1>6, <2>1 DEF Keys
\* The line that has ended was the last of its file, and of its event the only one.
<1>9. ASSUME NEW x \in DOMAIN file', NEW i \in DOMAIN file'[x], file'[x][i].state = "part"
      PROVE  x # b /\ file'[x] = file[x] /\ file'[x][i].event # w
  <2>1. Written(file'[x], x) /\ file'[b] \in Seq(StoreLine)
    BY <1>3 DEF FilesWritten, Written
  <2>2. x # b
    <3>1. x = b => i = Len(file[b])
      BY <1>3, <1>9, <2>1 DEF Written
    <3>. QED  BY <1>3, <1>9, <3>1
  <2>3. file'[x] = file[x]
    BY <1>3, <2>2
  <2>4. Store!BucketOf(file'[x][i].event) = x
    BY <2>1 DEF Written
  <2>. QED  BY <2>2, <2>3, <2>4
<1>10. LinesKnown'
  <2>. SUFFICES ASSUME NEW x \in DOMAIN file', NEW i \in DOMAIN file'[x]
                PROVE  /\ file'[x][i].event \in appended \cup {w} \cup refused \cup {Store!Nothing}
                       /\ file'[x][i].state = "whole" => file'[x][i].event \in appended \cup {w}
                       /\ file'[x][i].state = "part" => file'[x][i].event \notin appended \cup {w}
                       /\ storeStarts = 0 => file'[x][i].state # "spoilt"
    BY <1>1 DEF LinesKnown
  <2>1. CASE x = b /\ i = Len(file[b])
    BY <1>3, <1>4, <2>1
  <2>2. CASE ~(x = b /\ i = Len(file[b]))
    <3>1. x \in DOMAIN file /\ i \in DOMAIN file[x] /\ file'[x][i] = file[x][i]
      BY <1>3, <2>2
    <3>2. /\ file[x][i].event \in appended \cup refused \cup {w}
          /\ file[x][i].state = "whole" => file[x][i].event \in appended
          /\ file[x][i].state = "part" => file[x][i].event \notin appended
          /\ storeStarts = 0 => file[x][i].state # "spoilt"
      BY <1>2, <3>1 DEF LinesKnown
    <3>3. file'[x][i].state = "part" => file'[x][i].event # w
      BY <1>9
    <3>. QED  BY <3>1, <3>2, <3>3
  <2>. QED  BY <2>1, <2>2
<1>11. \A g \in appended : HasLine(g)' /\ (Store!Intact(g)' <=> Store!Intact(g))
  BY <1>2, <1>3, <1>7, IntactStays
<1>12. Store!BucketOf(w) = b /\ \A g : Store!BucketOf(g)' = Store!BucketOf(g)
  BY DEF Store!BucketOf
<1>13. HasLine(w)'
  BY <1>3, <1>12 DEF HasLine, Store!BucketOf
<1>14. LinesThere'
  BY <1>1, <1>11, <1>13 DEF LinesThere
<1>15. UnderWay'
  BY <1>1 DEF UnderWay
<1>16. ~Store!Unfinished(b)'
  <2>1. Store!Lines(b)' = file'[b]
    BY <1>3 DEF Store!Lines
  <2>. QED  BY <1>3, <2>1 DEF Store!Unfinished, Store!Last
<1>17. \A x \in DOMAIN file : x # b => (Store!Unfinished(x)' <=> Store!Unfinished(x)) /\ ~AtWork(x)
  BY <1>3, <1>12, UnfinishedStays DEF AtWork
<1>18. LeftUnfinished'
  BY <1>1, <1>2, <1>3, <1>16, <1>17 DEF LeftUnfinished
<1>19. Losses'
  <2>. SUFFICES ASSUME NEW x \in DOMAIN file
                PROVE  /\ Cardinality(Lost(x)') <= storeStarts
                       /\ AtRisk(x)' => Cardinality(Lost(x)') + 1 <= storeStarts
    BY <1>1, <1>3 DEF Losses
  <2>1. CASE x # b
    <3>1. Lost(x)' = Lost(x)
      BY <1>1, <1>11, <1>12, <2>1 DEF Lost
    <3>2. AtRisk(x)' => AtRisk(x)
      BY <1>1, <1>17, <2>1 DEF AtRisk
    <3>. QED  BY <1>2, <3>1, <3>2 DEF Losses
  <2>2. CASE x = b /\ ~joins
    <3>1. Store!Intact(w)'
      <4>1. Store!Lines(b)' = file'[b]
        BY <1>3 DEF Store!Lines
      <4>2. file'[b][Len(file[b])] = [event |-> w, state |-> "whole"] /\ Len(file[b]) \in DOMAIN file'[b]
        BY <1>3, <2>2
      <4>3. Store!BucketOf(w) = b
        BY <1>12
      <4>4. Store!Lines(Store!BucketOf(w))' = file'[b]
        BY <4>1, <4>3, <1>3, <1>12 DEF Store!Lines, Store!BucketOf
      <4>. QED  BY <4>2, <4>4 DEF Store!Intact
    <3>2. Lost(x)' = Lost(x)
      BY <1>1, <1>4, <1>11, <1>12, <3>1 DEF Lost
    <3>. QED  BY <1>2, <1>16, <2>2, <3>2 DEF Losses, AtRisk
  <2>3. CASE x = b /\ joins
    <3>1. AtRisk(b)
      <4>1. Store!Unfinished(b)
        BY <1>3, <1>4 DEF Store!Unfinished, Store!Lines, Store!Last
      <4>. QED  BY <1>4, <2>3, <4>1 DEF AtRisk
    <3>2. Cardinality(Lost(b)) + 1 <= storeStarts
      BY <1>2, <1>3, <3>1 DEF Losses
    <3>3. Lost(b)' \subseteq Lost(b) \cup {w}
      BY <1>1, <1>11, <1>12 DEF Lost
    <3>4. IsFiniteSet(Lost(b)) /\ Cardinality(Lost(b)) \in Nat
      BY <1>2, LostIsFinite
    <3>5. /\ IsFiniteSet(Lost(b) \cup {w})
          /\ Cardinality(Lost(b) \cup {w}) = IF w \in Lost(b) THEN Cardinality(Lost(b)) ELSE Cardinality(Lost(b)) + 1
      BY <3>4, FS_AddElement
    <3>6. Lost(b)' \in SUBSET (Lost(b) \cup {w})
      BY <3>3
    <3>7. IsFiniteSet(Lost(b)') /\ Cardinality(Lost(b)') <= Cardinality(Lost(b) \cup {w})
      BY <3>5, <3>6, FS_Subset
    <3>8. Cardinality(Lost(b)') \in Nat
      BY <3>7, FS_CardinalityType
    <3>9. Cardinality(Lost(b)') <= storeStarts
      BY <1>5, <3>2, <3>4, <3>5, <3>7, <3>8
    <3>. QED  BY <1>16, <2>3, <3>9 DEF AtRisk
  <2>. QED  BY <2>1, <2>2, <2>3
<1>. QED  BY <1>3, <1>7, <1>8, <1>10, <1>14, <1>15, <1>18, <1>19 DEF FilesInv

LEMMA AppendFailsKeepsFiles ==
  ASSUME FilesInv, Store!AppendFails
  PROVE  FilesInv' /\ Kept(file, file')
<1>1. /\ writing # Store!Nothing /\ diskErrors < MaxDiskErrors
      /\ stuck' = stuck \cup {Store!BucketOf(writing)} /\ refused' = refused \cup {writing}
      /\ writing' = Store!Nothing /\ joins' = FALSE /\ diskErrors' = diskErrors + 1
      /\ UNCHANGED <<file, storeClosed, appended, storeStarts>>
  BY DEF Store!AppendFails
<1>2. FilesWritten /\ Keys /\ LinesKnown /\ LinesThere /\ UnderWay /\ LeftUnfinished /\ Losses
  BY DEF FilesInv
<1>3. Kept(file, file')
  BY <1>1, NothingChangedKept
<1>4. FilesWritten'
  BY <1>1, <1>2 DEF FilesWritten
<1>5. Keys'
  <2>1. writing \in Events /\ Store!Nothing \notin Events
    BY <1>1, <1>2, StoreOk DEF Keys, Store!StoreAssumption
  <2>2. Store!BucketOf(writing) \in Store!Buckets
    BY <2>1, BucketIs
  <2>3. diskErrors' \in 0..MaxDiskErrors
    BY <1>1, <1>2, StoreOk DEF Keys, Store!StoreAssumption
  <2>. QED  BY <1>1, <1>2, <2>1, <2>2, <2>3 DEF Keys
<1>6. LinesKnown'
  BY <1>1, <1>2 DEF LinesKnown
<1>7. LinesThere'
  BY <1>1, <1>2 DEF LinesThere, HasLine, Store!BucketOf
<1>8. UnderWay'
  BY <1>1 DEF UnderWay
<1>9. \A x : Store!Unfinished(x)' <=> Store!Unfinished(x)
  BY <1>1 DEF Store!Unfinished, Store!Lines, Store!Last
<1>10. LeftUnfinished'
  BY <1>1, <1>2, <1>9 DEF LeftUnfinished, AtWork
<1>11. Losses'
  <2>1. \A x : Lost(x)' = Lost(x)
    BY <1>1 DEF Lost, Store!BucketOf, Store!Intact, Store!Lines
  <2>2. \A x : AtRisk(x)' => AtRisk(x)
    BY <1>1, <1>9 DEF AtRisk, AtWork
  <2>. QED  BY <1>1, <1>2, <2>1, <2>2 DEF Losses
<1>. QED  BY <1>3, <1>4, <1>5, <1>6, <1>7, <1>8, <1>10, <1>11 DEF FilesInv

LEMMA AppendRefusesKeepsFiles ==
  ASSUME FilesInv, NEW e \in Events, Store!AppendRefuses(e)
  PROVE  FilesInv' /\ Kept(file, file')
<1>. DEFINE b == Store!BucketOf(e)
<1>1. /\ writing = Store!Nothing /\ e \notin appended \cup refused /\ refused' = refused \cup {e}
      /\ file' = IF storeClosed THEN file ELSE Store!WithFile(b)
      /\ UNCHANGED <<writing, joins, stuck, storeClosed, appended, diskErrors, storeStarts>>
  BY DEF Store!AppendRefuses, Store!Fresh, Store!counts
<1>2. FilesWritten /\ Keys /\ LinesKnown /\ LinesThere /\ UnderWay /\ LeftUnfinished /\ Losses
  BY DEF FilesInv
<1>3. /\ FilesWritten' /\ DOMAIN file \subseteq DOMAIN file' /\ \A x \in DOMAIN file : file'[x] = file[x]
      /\ \A x \in DOMAIN file' : x \notin DOMAIN file => file'[x] = <<>>
  <2>1. CASE storeClosed
    <3>1. file' = file
      BY <1>1, <2>1
    <3>. QED  BY <1>2, <3>1 DEF FilesWritten
  <2>2. CASE ~storeClosed
    <3>1. file' = Store!WithFile(b)
      BY <1>1, <2>2
    <3>2. /\ FilesWritten' /\ DOMAIN file' = DOMAIN file \cup {b}
          /\ \A x \in DOMAIN file : file'[x] = file[x]
          /\ b \notin DOMAIN file => file'[b] = <<>>
      BY <1>2, <3>1, WithFileDoes
    <3>. HIDE DEF b
    <3>. QED  BY <3>2
  <2>. QED  BY <2>1, <2>2
<1>. HIDE DEF b
<1>4. Kept(file, file')
  BY <1>3 DEF Kept, Settled
<1>5. Keys'
  <2>1. e # Store!Nothing
    BY StoreOk DEF Store!StoreAssumption
  <2>. QED  BY <1>1, <1>2, <2>1 DEF Keys
<1>6. LinesKnown'
  <2>. SUFFICES ASSUME NEW x \in DOMAIN file', NEW i \in DOMAIN file'[x]
                PROVE  /\ file'[x][i].event \in appended \cup refused \cup {e} \cup {writing}
                       /\ file'[x][i].state = "whole" => file'[x][i].event \in appended
                       /\ file'[x][i].state = "part" => file'[x][i].event \notin appended
                       /\ storeStarts = 0 => file'[x][i].state # "spoilt"
    BY <1>1 DEF LinesKnown
  <2>1. x \in DOMAIN file /\ file'[x] = file[x]
    BY <1>3
  <2>. QED  BY <1>2, <2>1 DEF LinesKnown
<1>7. \A g \in appended : HasLine(g)' /\ (Store!Intact(g)' <=> Store!Intact(g))
  BY <1>2, <1>3, <1>4, IntactStays
<1>8. LinesThere'
  BY <1>1, <1>7 DEF LinesThere
<1>9. UnderWay'
  BY <1>1, <1>2 DEF UnderWay
<1>10. \A x \in DOMAIN file' : Store!Unfinished(x)' => x \in DOMAIN file /\ Store!Unfinished(x)
  <2>1. \A x \in DOMAIN file : Store!Unfinished(x)' <=> Store!Unfinished(x)
    BY <1>3, UnfinishedStays
  <2>2. \A x \in DOMAIN file' : x \notin DOMAIN file => ~Store!Unfinished(x)'
    BY <1>3 DEF Store!Unfinished, Store!Lines
  <2>. QED  BY <2>1, <2>2
<1>11. LeftUnfinished'
  BY <1>1, <1>2, <1>10 DEF LeftUnfinished, AtWork
<1>12. Losses'
  <2>. SUFFICES ASSUME NEW x \in DOMAIN file'
                PROVE  /\ Cardinality(Lost(x)') <= storeStarts
                       /\ AtRisk(x)' => Cardinality(Lost(x)') + 1 <= storeStarts
    BY <1>1 DEF Losses
  <2>1. Lost(x)' = Lost(x)
    BY <1>1, <1>7 DEF Lost, Store!BucketOf
  <2>2. AtRisk(x)' => x \in DOMAIN file /\ AtRisk(x)
    BY <1>1, <1>10 DEF AtRisk, AtWork
  <2>3. CASE x \in DOMAIN file
    BY <1>2, <2>1, <2>2, <2>3 DEF Losses
  <2>4. CASE x \notin DOMAIN file
    <3>1. Cardinality(Lost(x)) = 0
      BY <1>2, <2>4, NothingLostElsewhere, FS_EmptySet
    <3>2. storeStarts \in Nat
      BY <1>2 DEF Keys
    <3>. QED  BY <2>1, <2>2, <2>4, <3>1, <3>2
  <2>. QED  BY <2>3, <2>4
<1>. QED  BY <1>3, <1>4, <1>5, <1>6, <1>8, <1>9, <1>11, <1>12 DEF FilesInv

LEMMA CloseKeepsFiles ==
  ASSUME FilesInv, Store!Close
  PROVE  FilesInv' /\ Kept(file, file')
<1>1. /\ writing = Store!Nothing /\ storeClosed' = TRUE /\ stuck' = {}
      /\ UNCHANGED <<file, writing, joins, appended, refused, diskErrors, storeStarts>>
  BY DEF Store!Close, Store!counts
<1>2. FilesWritten /\ Keys /\ LinesKnown /\ LinesThere /\ UnderWay /\ LeftUnfinished /\ Losses
  BY DEF FilesInv
<1>3. Kept(file, file')
  BY <1>1, NothingChangedKept
<1>4. FilesWritten' /\ Keys' /\ LinesKnown'
  BY <1>1, <1>2 DEF FilesWritten, Keys, LinesKnown
<1>5. LinesThere'
  BY <1>1, <1>2 DEF LinesThere, HasLine, Store!BucketOf
<1>6. UnderWay' /\ LeftUnfinished'
  BY <1>1, <1>2 DEF UnderWay, LeftUnfinished
<1>7. Losses'
  <2>1. \A x : Lost(x)' = Lost(x)
    BY <1>1 DEF Lost, Store!BucketOf, Store!Intact, Store!Lines
  <2>. QED  BY <1>1, <1>2, <2>1 DEF Losses, AtRisk
<1>. QED  BY <1>3, <1>4, <1>5, <1>6, <1>7 DEF FilesInv

LEMMA RestartKeepsFiles ==
  ASSUME FilesInv, Store!Restart
  PROVE  FilesInv' /\ Kept(file, file')
<1>1. /\ storeStarts < MaxStoreStarts /\ storeStarts' = storeStarts + 1
      /\ refused' = refused \cup ({writing} \ {Store!Nothing})
      /\ writing' = Store!Nothing /\ joins' = FALSE /\ stuck' = {} /\ storeClosed' = FALSE
      /\ UNCHANGED <<file, appended, diskErrors>>
  BY DEF Store!Restart
<1>2. FilesWritten /\ Keys /\ LinesKnown /\ LinesThere /\ UnderWay /\ LeftUnfinished /\ Losses
  BY DEF FilesInv
<1>3. Kept(file, file')
  BY <1>1, NothingChangedKept
<1>4. FilesWritten'
  BY <1>1, <1>2 DEF FilesWritten
<1>5. storeStarts \in Nat /\ storeStarts' \in 0..MaxStoreStarts /\ storeStarts' > 0
  BY <1>1, <1>2, StoreOk DEF Keys, Store!StoreAssumption
<1>6. Keys'
  <2>1. Store!Nothing \notin Events
    BY StoreOk DEF Store!StoreAssumption
  <2>. QED  BY <1>1, <1>2, <1>5, <2>1 DEF Keys
<1>7. LinesKnown'
  <2>. SUFFICES ASSUME NEW x \in DOMAIN file, NEW i \in DOMAIN file[x]
                PROVE  /\ file[x][i].event \in appended \cup refused'
                       /\ file[x][i].state = "whole" => file[x][i].event \in appended
                       /\ file[x][i].state = "part" => file[x][i].event \notin appended
    BY <1>1, <1>5 DEF LinesKnown
  <2>1. file[x][i].event # Store!Nothing
    BY <1>2, EventOfLine
  <2>. QED  BY <1>1, <1>2, <2>1 DEF LinesKnown
<1>8. LinesThere'
  BY <1>1, <1>2 DEF LinesThere, HasLine, Store!BucketOf
<1>9. UnderWay' /\ LeftUnfinished'
  BY <1>1, <1>5 DEF UnderWay, LeftUnfinished
<1>10. Losses'
  <2>1. \A x : Lost(x)' = Lost(x)
    BY <1>1 DEF Lost, Store!BucketOf, Store!Intact, Store!Lines
  <2>2. \A x \in DOMAIN file : Cardinality(Lost(x)) \in Nat /\ Cardinality(Lost(x)) <= storeStarts
    BY <1>2, LostIsFinite DEF Losses
  <2>3. \A n \in Nat : n <= storeStarts => n <= storeStarts + 1 /\ n + 1 <= storeStarts + 1
    BY <1>5
  <2>. QED  BY <1>1, <2>1, <2>2, <2>3 DEF Losses
<1>. QED  BY <1>3, <1>4, <1>6, <1>7, <1>8, <1>9, <1>10 DEF FilesInv

\* The steps of the readers.
LEMMA FilesUntouched ==
  ASSUME FilesInv, diskErrors' \in 0..MaxDiskErrors,
         UNCHANGED <<file, writing, joins, stuck, storeClosed, appended, refused, storeStarts>>
  PROVE  FilesInv' /\ Kept(file, file')
<1>1. Kept(file, file')
  BY NothingChangedKept
<1>2. FilesWritten' /\ Keys' /\ LinesKnown' /\ UnderWay'
  BY DEF FilesInv, FilesWritten, Keys, LinesKnown, UnderWay, Store!BucketOf
<1>3. LinesThere'
  BY DEF FilesInv, LinesThere, HasLine, Store!BucketOf
<1>4. \A x : Store!Unfinished(x)' <=> Store!Unfinished(x)
  BY DEF Store!Unfinished, Store!Lines, Store!Last
<1>5. LeftUnfinished'
  BY <1>4 DEF FilesInv, LeftUnfinished, AtWork, Store!BucketOf
<1>6. Losses'
  <2>1. \A x : Lost(x)' = Lost(x)
    BY DEF Lost, Store!BucketOf, Store!Intact, Store!Lines
  <2>2. \A x : AtRisk(x)' <=> AtRisk(x)
    BY <1>4 DEF AtRisk, AtWork, Store!BucketOf
  <2>. QED  BY <2>1, <2>2 DEF FilesInv, Losses
<1>. QED  BY <1>1, <1>2, <1>3, <1>5, <1>6 DEF FilesInv

LEMMA FilesInitially == Store!Init => FilesInv
<1>. SUFFICES ASSUME Store!Init PROVE FilesInv
  OBVIOUS
<1>1. /\ file = [b \in {} |-> <<>>] /\ writing = Store!Nothing /\ joins = FALSE /\ stuck = {}
      /\ storeClosed = FALSE /\ appended = {} /\ refused = {} /\ diskErrors = 0 /\ storeStarts = 0
  BY DEF Store!Init
<1>2. DOMAIN file = {}
  BY <1>1
<1>3. IsFiniteSet({})
  BY FS_EmptySet
<1>4. FilesWritten
  BY <1>2, <1>3 DEF FilesWritten
<1>5. Keys
  <2>1. 0 \in 0..MaxDiskErrors /\ 0 \in 0..MaxStoreStarts
    BY StoreOk DEF Store!StoreAssumption
  <2>2. diskErrors \in 0..MaxDiskErrors /\ storeStarts \in 0..MaxStoreStarts
    BY <1>1, <2>1
  <2>. QED  BY <1>1, <1>3, <2>2 DEF Keys
<1>6. LinesKnown /\ LinesThere /\ UnderWay /\ LeftUnfinished /\ Losses
  BY <1>1, <1>2 DEF LinesKnown, LinesThere, UnderWay, LeftUnfinished, Losses
<1>. QED  BY <1>4, <1>5, <1>6 DEF FilesInv

\* The steps of those who read; the others are those of the appends, Close and
\* Restart.
ReadersMove ==
  \/ (\E r \in Store!Readers : Store!Walking(r)) \/ Store!QueryIsCancelled
  \/ Store!Send \/ Store!NextPoll \/ Store!Cancel \/ Store!Receive \/ Store!Answered

LEMMA ReadersLeaveFiles ==
  ASSUME FilesInv, ReadersMove
  PROVE  /\ UNCHANGED <<file, writing, joins, stuck, storeClosed, appended, refused, storeStarts>>
         /\ diskErrors' \in 0..MaxDiskErrors
<1>. USE DEF Store!storage, Store!counts
<1>1. ASSUME NEW r \in Store!Readers, Store!Walking(r), ~Store!WalkMeetsError(r)
      PROVE  UNCHANGED <<file, writing, joins, stuck, storeClosed, appended, refused, diskErrors, storeStarts>>
  BY <1>1 DEF Store!Walking, Store!StartWalk, Store!ListTenant, Store!ScanFile, Store!FinishWalk, Store!WalkFails
<1>2. ASSUME Store!Send \/ Store!NextPoll \/ Store!Cancel \/ Store!Receive \/ Store!Answered
      PROVE  UNCHANGED <<file, writing, joins, stuck, storeClosed, appended, refused, diskErrors, storeStarts>>
  BY <1>2 DEF Store!Send, Store!NextPoll, Store!Cancel, Store!Receive, Store!Answered
<1>3. ASSUME Store!QueryIsCancelled
      PROVE  UNCHANGED <<file, writing, joins, stuck, storeClosed, appended, refused, diskErrors, storeStarts>>
  BY <1>3 DEF Store!QueryIsCancelled
<1>4. diskErrors \in 0..MaxDiskErrors /\ MaxDiskErrors \in Nat
  BY StoreOk DEF FilesInv, Keys, Store!StoreAssumption
<1>5. ASSUME NEW r \in Store!Readers, Store!WalkMeetsError(r)
      PROVE  /\ UNCHANGED <<file, writing, joins, stuck, storeClosed, appended, refused, storeStarts>>
             /\ diskErrors' \in 0..MaxDiskErrors
  <2>1. /\ UNCHANGED <<file, writing, joins, stuck, storeClosed, appended, refused, storeStarts>>
        /\ diskErrors < MaxDiskErrors /\ diskErrors' = diskErrors + 1
    BY <1>5 DEF Store!WalkMeetsError
  <2>. QED  BY <1>4, <2>1
<1>. QED  BY <1>1, <1>2, <1>3, <1>4, <1>5 DEF ReadersMove

LEMMA FilesKept ==
  ASSUME FilesInv, [Store!Next]_(Store!vars)
  PROVE  FilesInv' /\ Kept(file, file')
<1>1. CASE Store!Next
  <2>1. ASSUME NEW e \in Events, Store!AppendStarts(e) PROVE FilesInv' /\ Kept(file, file')
    BY <2>1, AppendStartsKeepsFiles
  <2>2. ASSUME NEW e \in Events, Store!AppendRefuses(e) PROVE FilesInv' /\ Kept(file, file')
    BY <2>2, AppendRefusesKeepsFiles
  <2>3. CASE Store!AppendReturns
    BY <2>3, AppendReturnsKeepsFiles
  <2>4. CASE Store!AppendFails
    BY <2>4, AppendFailsKeepsFiles
  <2>5. CASE Store!Close
    BY <2>5, CloseKeepsFiles
  <2>6. CASE Store!Restart
    BY <2>6, RestartKeepsFiles
  <2>7. CASE ReadersMove
    BY <2>7, ReadersLeaveFiles, FilesUntouched
  <2>. QED  BY <1>1, <2>1, <2>2, <2>3, <2>4, <2>5, <2>6, <2>7
            DEF Store!Next, Store!Appending, ReadersMove
<1>2. CASE UNCHANGED Store!vars
  BY <1>2, FilesUntouched DEF Store!vars, Store!storage, Store!counts, FilesInv, Keys
<1>. QED  BY <1>1, <1>2

\* What the invariant says of the events whose key was returned.
LEMMA FilesAreIntact == FilesInv => StoredIsIntact
<1>. SUFFICES ASSUME FilesInv PROVE StoredIsIntact
  OBVIOUS
<1>1. ASSUME storeStarts = 0, NEW e \in appended PROVE Store!Intact(e)
  <2>. DEFINE b == Store!BucketOf(e)
  <2>1. b \in DOMAIN file
    BY DEF FilesInv, LinesThere, HasLine
  <2>2. PICK i \in DOMAIN file[b] : file[b][i].event = e
    BY DEF FilesInv, LinesThere, HasLine
  <2>3. file[b][i].state # "part" /\ file[b][i].state # "spoilt"
    BY <1>1, <2>1, <2>2 DEF FilesInv, LinesKnown
  <2>4. file[b][i] \in StoreLine
    BY <2>1, EventOfLine DEF FilesInv
  <2>5. file[b][i] = [event |-> e, state |-> "whole"]
    BY <2>2, <2>3, <2>4 DEF StoreLine
  <2>. QED  BY <2>1, <2>5 DEF Store!Intact, Store!Lines
<1>2. ASSUME NEW b \in DOMAIN file
      PROVE  Store!Cardinality({e \in appended : Store!BucketOf(e) = b /\ ~Store!Intact(e)}) <= storeStarts
  <2>1. Store!Cardinality(Lost(b)) = Cardinality(Lost(b))
    BY DEF Store!Cardinality, Cardinality
  <2>2. Cardinality(Lost(b)) <= storeStarts
    BY DEF FilesInv, Losses
  <2>. QED  BY <2>1, <2>2 DEF Lost
<1>. QED  BY <1>1, <1>2 DEF StoredIsIntact, Store!StoredIsIntact, Store!OneLossPerRestart

\* Until a restart every event whose key was returned keeps its line whole, also
\* after the disk failed in the middle of another; a restart spoils the line of
\* at most one event of a file (jsonl.go:46-75, 195-204).
THEOREM StoredEventsAreIntact == Store!Spec => []StoredIsIntact
<1>1. Store!Init => FilesInv
  BY FilesInitially
<1>2. FilesInv /\ [Store!Next]_(Store!vars) => FilesInv'
  BY FilesKept
<1>3. FilesInv => StoredIsIntact
  BY FilesAreIntact
<1>. QED  BY <1>1, <1>2, <1>3, PTL DEF Store!Spec

-----------------------------------------------------------------------------
(***************************************************************************)
(* The walk of a query: what remains to be visited, and what was found.    *)
(***************************************************************************)
Whole(f, e) ==
  /\ Store!BucketOf(e) \in DOMAIN f
  /\ \E i \in DOMAIN f[Store!BucketOf(e)] : f[Store!BucketOf(e)][i] = [event |-> e, state |-> "whole"]

Has(q, x) == \E k \in DOMAIN q : q[k] = x

Got(f, fd, q, after) ==
  /\ fd \in Seq(Events)
  /\ \A k, l \in DOMAIN fd : fd[k] = fd[l] => k = l
  /\ \A k \in DOMAIN fd : Whole(f, fd[k]) /\ Store!Matches(fd[k], q, after)

\* Directories in the order of their names, and of one before them the files.
Route(f, ts, ds) ==
  /\ ts \in Seq(Store!Tenants) /\ Rising(ts) /\ ds \in Seq(Store!Buckets)
  /\ \A i \in DOMAIN ds : ds[i] \in DOMAIN f
  /\ \A i, j \in DOMAIN ds : ds[i][1] = ds[j][1] /\ (i < j => ds[i][2] < ds[j][2])
  /\ \A i \in DOMAIN ds, k \in DOMAIN ts : ds[i][1] < ts[k]

Ahead(e, ts, ds) == Has(ts, EventTenant[e]) \/ Has(ds, Store!BucketOf(e))

\* What was found is behind; what was there when the walk began was found or is
\* ahead.
Walked(f, ts, ds, fd, bf, q, after) ==
  /\ Route(f, ts, ds) /\ Got(f, fd, q, after)
  /\ \A k \in DOMAIN fd : ~Ahead(fd[k], ts, ds)
  /\ \A e \in bf : Whole(f, e) /\ Store!Matches(e, q, after) => Has(fd, e) \/ Ahead(e, ts, ds)

LEMMA HasTail ==
  ASSUME NEW S, NEW q \in Seq(S), q # <<>>
  PROVE  /\ Head(q) \in S /\ Tail(q) \in Seq(S)
         /\ \A i \in DOMAIN Tail(q) : i + 1 \in DOMAIN q /\ i + 1 > 1 /\ Tail(q)[i] = q[i + 1]
         /\ 1 \in DOMAIN q /\ Head(q) = q[1]
         /\ \A x : Has(q, x) <=> x = Head(q) \/ Has(Tail(q), x)
<1>1. /\ Head(q) \in S /\ Tail(q) \in Seq(S) /\ Len(Tail(q)) = Len(q) - 1
      /\ \A i \in 1..Len(Tail(q)) : Tail(q)[i] = q[i + 1]
  BY HeadTailProperties
<1>2. Len(q) \in Nat /\ Len(q) > 0 /\ DOMAIN q = 1..Len(q) /\ DOMAIN Tail(q) = 1..Len(q) - 1
  BY <1>1, EmptySeq, LenProperties
<1>3. Head(q) = q[1]
  OBVIOUS
<1>4. \A i \in DOMAIN Tail(q) : i + 1 \in DOMAIN q /\ i + 1 > 1 /\ Tail(q)[i] = q[i + 1]
  BY <1>1, <1>2
<1>5. 1 \in DOMAIN q
  BY <1>2
<1>6. ASSUME NEW x, Has(q, x), x # Head(q) PROVE Has(Tail(q), x)
  <2>1. PICK k \in DOMAIN q : q[k] = x
    BY <1>6 DEF Has
  <2>2. k # 1
    BY <1>3, <1>6, <2>1
  <2>3. k - 1 \in DOMAIN Tail(q) /\ k - 1 + 1 = k
    BY <1>2, <2>2
  <2>4. Tail(q)[k - 1] = x
    BY <1>4, <2>1, <2>3
  <2>. QED  BY <2>3, <2>4 DEF Has
<1>7. ASSUME NEW x, Has(Tail(q), x) PROVE Has(q, x)
  BY <1>4, <1>7 DEF Has
<1>8. Has(q, Head(q))
  BY <1>3, <1>5 DEF Has
<1>. QED  BY <1>1, <1>3, <1>4, <1>5, <1>6, <1>7, <1>8

\* StartWalk
LEMMA RouteStarted ==
  ASSUME NEW f, DOMAIN f \subseteq Store!Buckets, IsFiniteSet(DOMAIN f)
  PROVE  LET ts == Store!Sorted({b[1] : b \in DOMAIN f})
         IN  Route(f, ts, <<>>) /\ \A b \in DOMAIN f : Has(ts, b[1])
<1>. DEFINE T == {b[1] : b \in DOMAIN f}
            ts == Store!Sorted(T)
            g == [b \in DOMAIN f |-> b[1]]
<1>1. T \subseteq Store!Tenants /\ T \in SUBSET Nat
  BY BucketsAre
<1>2. IsFiniteSet(T)
  <2>1. g \in Surjection(DOMAIN f, T)
    BY DEF Surjection
  <2>. HIDE DEF g, T
  <2>. QED  BY <2>1, FS_Surjection
<1>3. /\ ts \in Seq(T) /\ Rising(ts) /\ \A x \in T : \E i \in DOMAIN ts : ts[i] = x
  <2>. HIDE DEF T
  <2>. QED  BY <1>1, <1>2, SortedIs
<1>. HIDE DEF ts
<1>4. ts \in Seq(Store!Tenants)
  <2>1. Len(ts) \in Nat /\ ts \in [1..Len(ts) -> Store!Tenants]
    <3>. HIDE DEF T
    <3>. QED  BY <1>1, <1>3, LenProperties
  <2>. QED  BY <2>1, IsASeq
<1>5. Route(f, ts, <<>>)
  BY <1>3, <1>4 DEF Route
<1>6. \A b \in DOMAIN f : Has(ts, b[1])
  BY <1>3 DEF Has
<1>. QED  BY <1>5, <1>6 DEF ts

\* ListTenant
LEMMA RouteListed ==
  ASSUME NEW f, NEW ts, Route(f, ts, <<>>), ts # <<>>, NEW t, t = Head(ts),
         NEW ns, Rising(ns), NEW ds \in Seq(Store!Buckets), DOMAIN ds = DOMAIN ns,
         \A i \in DOMAIN ns : ds[i] = <<t, ns[i]>> /\ ds[i] \in DOMAIN f
  PROVE  Route(f, Tail(ts), ds)
<1>1. /\ Tail(ts) \in Seq(Store!Tenants) /\ t = ts[1] /\ 1 \in DOMAIN ts
      /\ \A k \in DOMAIN Tail(ts) : k + 1 \in DOMAIN ts /\ k + 1 > 1 /\ Tail(ts)[k] = ts[k + 1]
  BY HasTail DEF Route
<1>2. Rising(Tail(ts))
  <2>1. \A i, j \in DOMAIN Tail(ts) : i < j => i + 1 < j + 1
    <3>1. DOMAIN Tail(ts) = 1..Len(Tail(ts)) /\ Len(Tail(ts)) \in Nat
      BY <1>1, LenProperties
    <3>. QED  BY <3>1
  <2>. QED  BY <1>1, <2>1 DEF Route, Rising
<1>3. \A k \in DOMAIN Tail(ts) : t < Tail(ts)[k]
  BY <1>1 DEF Route, Rising
<1>4. \A i, j \in DOMAIN ds : ds[i][1] = ds[j][1] /\ (i < j => ds[i][2] < ds[j][2])
  BY DEF Rising
<1>5. \A i \in DOMAIN ds, k \in DOMAIN Tail(ts) : ds[i][1] < Tail(ts)[k]
  BY <1>3
<1>. QED  BY <1>1, <1>2, <1>4, <1>5 DEF Route

\* ScanFile
LEMMA RouteScanned ==
  ASSUME NEW f, NEW ts, NEW ds, Route(f, ts, ds), ds # <<>>
  PROVE  /\ Route(f, ts, Tail(ds)) /\ Head(ds) \in DOMAIN f
         /\ ~Has(Tail(ds), Head(ds)) /\ ~Has(ts, Head(ds)[1])
         /\ \A i \in DOMAIN Tail(ds) : Tail(ds)[i][1] = Head(ds)[1] /\ Head(ds)[2] < Tail(ds)[i][2]
<1>1. /\ Tail(ds) \in Seq(Store!Buckets) /\ Head(ds) = ds[1] /\ 1 \in DOMAIN ds
      /\ Head(ds) \in Store!Buckets
      /\ \A k \in DOMAIN Tail(ds) : k + 1 \in DOMAIN ds /\ k + 1 > 1 /\ Tail(ds)[k] = ds[k + 1]
  BY HasTail DEF Route
<1>2. \A i, j \in DOMAIN Tail(ds) : i < j => i + 1 < j + 1
  <2>1. DOMAIN Tail(ds) = 1..Len(Tail(ds)) /\ Len(Tail(ds)) \in Nat
    BY <1>1, LenProperties
  <2>. QED  BY <2>1
<1>3. Route(f, ts, Tail(ds))
  BY <1>1, <1>2 DEF Route
<1>4. \A i \in DOMAIN Tail(ds) : Tail(ds)[i][1] = Head(ds)[1] /\ Head(ds)[2] < Tail(ds)[i][2]
  BY <1>1 DEF Route
<1>5. Head(ds)[1] \in Nat /\ Head(ds)[2] \in Nat
  BY <1>1, BucketsAre
<1>6. ~Has(Tail(ds), Head(ds))
  BY <1>4, <1>5 DEF Has
<1>7. ~Has(ts, Head(ds)[1])
  BY <1>1, <1>5 DEF Has, Route
<1>. QED  BY <1>1, <1>3, <1>4, <1>6, <1>7 DEF Route

\* What a scan returns: the events of the lines that match, in their order.
ScanOf(ls, s, q, after) ==
  \E at \in [DOMAIN s -> DOMAIN ls] :
    /\ s \in Seq(Events) /\ Rising(at)
    /\ \A k \in DOMAIN s : /\ s[k] = ls[at[k]].event /\ ls[at[k]].state = "whole"
                           /\ Store!Matches(s[k], q, after)
    /\ \A i \in DOMAIN ls : ls[i].state = "whole" /\ Store!Matches(ls[i].event, q, after) =>
         \E k \in DOMAIN s : at[k] = i

LEMMA ScanIs ==
  ASSUME NEW b, NEW ls, Written(ls, b), NEW r \in Store!Readers, NEW s, s = Store!Scan(ls, r)
  PROVE  ScanOf(ls, s, filter[r], Store!AfterOf(r))
<1>. DEFINE S == {i \in DOMAIN ls : ls[i].state = "whole" /\ Store!Matches(ls[i].event, filter[r], Store!AfterOf(r))}
            at == Store!Sorted(S)
<1>1. ls \in Seq(StoreLine) /\ Len(ls) \in Nat /\ DOMAIN ls = 1..Len(ls)
  BY LenProperties DEF Written
<1>2. S \in SUBSET Nat /\ S \in SUBSET (1..Len(ls))
  BY <1>1
<1>3. IsFiniteSet(S)
  <2>1. IsFiniteSet(1..Len(ls))
    BY <1>1, FS_Interval
  <2>. HIDE DEF S
  <2>. QED  BY <1>2, <2>1, FS_Subset
<1>4. at \in Seq(S) /\ Rising(at) /\ \A x \in S : \E i \in DOMAIN at : at[i] = x
  <2>. HIDE DEF S
  <2>. QED  BY <1>2, <1>3, SortedIs
<1>5. s = [k \in DOMAIN at |-> ls[at[k]].event]
  BY DEF Store!Scan, Store!MatchingLines
<1>. HIDE DEF at
<1>6. Len(at) \in Nat /\ DOMAIN at = 1..Len(at) /\ at \in [1..Len(at) -> S]
  <2>. HIDE DEF S
  <2>. QED  BY <1>4, LenProperties
<1>7. DOMAIN s = 1..Len(at) /\ \A k \in 1..Len(at) : s[k] = ls[at[k]].event
  BY <1>5, <1>6
<1>8. \A k \in 1..Len(at) : /\ at[k] \in DOMAIN ls /\ ls[at[k]].state = "whole"
                            /\ Store!Matches(ls[at[k]].event, filter[r], Store!AfterOf(r))
  <2>. SUFFICES ASSUME NEW k \in 1..Len(at)
                PROVE  /\ at[k] \in DOMAIN ls /\ ls[at[k]].state = "whole"
                       /\ Store!Matches(ls[at[k]].event, filter[r], Store!AfterOf(r))
    OBVIOUS
  <2>1. at[k] \in S
    <3>. HIDE DEF S
    <3>. QED  BY <1>6
  <2>. QED  BY <2>1
<1>9. s \in Seq(Events)
  <2>1. s = [k \in 1..Len(at) |-> s[k]]
    BY <1>5, <1>6, <1>7
  <2>2. \A k \in 1..Len(at) : s[k] \in Events
    <3>. SUFFICES ASSUME NEW k \in 1..Len(at) PROVE s[k] \in Events
      OBVIOUS
    <3>1. ls[at[k]] \in StoreLine
      BY <1>1, <1>8
    <3>. QED  BY <1>7, <3>1 DEF StoreLine
  <2>. QED  BY <1>6, <2>1, <2>2, IsASeq
<1>10. at \in [DOMAIN s -> DOMAIN ls]
  <2>. HIDE DEF S
  <2>1. at \in [1..Len(at) -> DOMAIN ls]
    BY <1>6, <1>8
  <2>. QED  BY <1>7, <2>1
<1>11. \A i \in DOMAIN ls : ls[i].state = "whole" /\ Store!Matches(ls[i].event, filter[r], Store!AfterOf(r)) =>
         \E k \in DOMAIN s : at[k] = i
  BY <1>4, <1>6, <1>7
<1>12. \A k \in DOMAIN s : /\ s[k] = ls[at[k]].event /\ ls[at[k]].state = "whole"
                           /\ Store!Matches(s[k], filter[r], Store!AfterOf(r))
  BY <1>7, <1>8
<1>. HIDE DEF S
<1>. QED  BY <1>4, <1>9, <1>10, <1>11, <1>12 DEF ScanOf

LEMMA ConcatIs ==
  ASSUME NEW S, NEW p \in Seq(S), NEW q \in Seq(S)
  PROVE  /\ p \o q \in Seq(S) /\ Len(p) \in Nat
         /\ \A k \in DOMAIN p : k \in DOMAIN (p \o q) /\ (p \o q)[k] = p[k] /\ k <= Len(p)
         /\ \A k \in DOMAIN q : Len(p) + k \in DOMAIN (p \o q) /\ (p \o q)[Len(p) + k] = q[k]
         /\ \A k \in DOMAIN (p \o q) :
              k \in DOMAIN p \/ (k > Len(p) /\ k - Len(p) \in DOMAIN q /\ (p \o q)[k] = q[k - Len(p)])
<1>1. /\ p \o q \in Seq(S) /\ Len(p \o q) = Len(p) + Len(q)
      /\ \A i \in 1..Len(p) + Len(q) : (p \o q)[i] = IF i <= Len(p) THEN p[i] ELSE q[i - Len(p)]
  BY ConcatProperties
<1>2. /\ Len(p) \in Nat /\ Len(q) \in Nat /\ DOMAIN p = 1..Len(p) /\ DOMAIN q = 1..Len(q)
      /\ DOMAIN (p \o q) = 1..Len(p) + Len(q)
  BY <1>1, LenProperties
<1>3. \A k \in DOMAIN p : k \in DOMAIN (p \o q) /\ (p \o q)[k] = p[k] /\ k <= Len(p)
  BY <1>1, <1>2
<1>4. ASSUME NEW k \in DOMAIN q
      PROVE  Len(p) + k \in DOMAIN (p \o q) /\ (p \o q)[Len(p) + k] = q[k]
  <2>1. Len(p) + k \in 1..Len(p) + Len(q) /\ ~(Len(p) + k <= Len(p)) /\ Len(p) + k - Len(p) = k
    BY <1>2
  <2>. QED  BY <1>1, <1>2, <2>1
<1>5. ASSUME NEW k \in DOMAIN (p \o q), k \notin DOMAIN p
      PROVE  k > Len(p) /\ k - Len(p) \in DOMAIN q /\ (p \o q)[k] = q[k - Len(p)]
  <2>1. k > Len(p) /\ k - Len(p) \in 1..Len(q) /\ ~(k <= Len(p))
    BY <1>2, <1>5
  <2>. QED  BY <1>1, <1>2, <2>1
<1>. QED  BY <1>1, <1>2, <1>3, <1>4, <1>5

\* The steps of a walk.
LEMMA WalkStarted ==
  ASSUME NEW f, DOMAIN f \subseteq Store!Buckets, IsFiniteSet(DOMAIN f),
         NEW bf \in SUBSET Events, NEW q, NEW after
  PROVE  Walked(f, Store!Sorted({b[1] : b \in DOMAIN f}), <<>>, <<>>, bf, q, after)
<1>. DEFINE ts == Store!Sorted({b[1] : b \in DOMAIN f})
<1>1. Route(f, ts, <<>>) /\ \A b \in DOMAIN f : Has(ts, b[1])
  BY RouteStarted
<1>. HIDE DEF ts
<1>2. Got(f, <<>>, q, after)
  BY DEF Got
<1>3. \A e \in bf : Whole(f, e) => Has(ts, EventTenant[e])
  BY <1>1, BucketIs DEF Whole
<1>4. Walked(f, ts, <<>>, <<>>, bf, q, after)
  BY <1>1, <1>2, <1>3 DEF Walked, Ahead
<1>. QED  BY <1>4 DEF ts

LEMMA WalkListed ==
  ASSUME NEW f, DOMAIN f \subseteq Store!Buckets, IsFiniteSet(DOMAIN f),
         NEW bf \in SUBSET Events, NEW q, NEW after, NEW ts, NEW fd,
         Walked(f, ts, <<>>, fd, bf, q, after), ts # <<>>, NEW t, t = Head(ts),
         NEW M, \A n : n \in M <=> \E b \in DOMAIN f : b[1] = t /\ b[2] = n
  PROVE  LET ns == Store!Sorted(M)
         IN  Walked(f, Tail(ts), [i \in DOMAIN ns |-> <<t, ns[i]>>], fd, bf, q, after)
<1>. DEFINE B == {x \in DOMAIN f : x[1] = t}
            N == {b[2] : b \in B}
            ns == Store!Sorted(M)
            ds == [i \in DOMAIN ns |-> <<t, ns[i]>>]
            g == [b \in B |-> b[2]]
<1>0. M = N
  OBVIOUS
<1>1. N \in SUBSET Nat
  BY BucketsAre
<1>2. IsFiniteSet(N)
  <2>1. g \in Surjection(B, N)
    BY DEF Surjection
  <2>2. B \in SUBSET DOMAIN f
    OBVIOUS
  <2>3. IsFiniteSet(B)
    <3>. HIDE DEF B
    <3>. QED  BY <2>2, FS_Subset
  <2>. HIDE DEF g, N, B
  <2>. QED  BY <2>1, <2>3, FS_Surjection
<1>3. ns \in Seq(N) /\ Rising(ns) /\ \A x \in N : \E i \in DOMAIN ns : ns[i] = x
  <2>. HIDE DEF N
  <2>. QED  BY <1>0, <1>1, <1>2, SortedIs
<1>. HIDE DEF ns
<1>4. Len(ns) \in Nat /\ DOMAIN ns = 1..Len(ns) /\ \A i \in DOMAIN ns : ns[i] \in N
  <2>. HIDE DEF N
  <2>. QED  BY <1>3, LenProperties
<1>5. \A i \in DOMAIN ns : <<t, ns[i]>> \in DOMAIN f
  <2>. SUFFICES ASSUME NEW i \in DOMAIN ns PROVE <<t, ns[i]>> \in DOMAIN f
    OBVIOUS
  <2>1. PICK b \in B : ns[i] = b[2]
    BY <1>4
  <2>2. b = <<b[1], b[2]>> /\ b[1] = t /\ b \in DOMAIN f
    BY BucketsAre
  <2>. QED  BY <2>1, <2>2
<1>6. DOMAIN ds = DOMAIN ns /\ \A i \in DOMAIN ns : ds[i] = <<t, ns[i]>> /\ ds[i] \in DOMAIN f
  BY <1>5
<1>. HIDE DEF ds
<1>7. ds \in Seq(Store!Buckets)
  <2>1. ds = [i \in 1..Len(ns) |-> ds[i]]
    BY <1>4, <1>6 DEF ds
  <2>2. \A i \in 1..Len(ns) : ds[i] \in Store!Buckets
    BY <1>4, <1>6
  <2>. QED  BY <1>4, <2>1, <2>2, IsASeq
<1>8. ASSUME NEW b \in DOMAIN f, b[1] = t PROVE Has(ds, b)
  <2>1. b[2] \in N /\ b = <<t, b[2]>>
    BY <1>8, BucketsAre
  <2>2. PICK i \in DOMAIN ns : ns[i] = b[2]
    BY <1>3, <2>1
  <2>. QED  BY <1>6, <2>1, <2>2 DEF Has
<1>. HIDE DEF B, N, g
<1>9. Route(f, ts, <<>>)
  BY DEF Walked
<1>10. /\ Route(f, Tail(ts), ds) /\ \A i \in DOMAIN ds : ds[i][1] = t
      /\ \A b \in DOMAIN f : b[1] = t => Has(ds, b)
  <2>1. Route(f, Tail(ts), ds)
    <3>1. Rising(ns) /\ ts # <<>> /\ t = Head(ts)
      BY <1>3
    <3>2. DOMAIN ds = DOMAIN ns
      BY <1>6
    <3>3. \A i \in DOMAIN ns : ds[i] = <<t, ns[i]>> /\ ds[i] \in DOMAIN f
      BY <1>6
    <3>. QED  BY ONLY <1>9, <1>7, <3>1, <3>2, <3>3, RouteListed, SMTT(30)
  <2>. QED  BY <1>6, <1>8, <2>1
<1>11. \A x : Has(ts, x) <=> x = t \/ Has(Tail(ts), x)
  BY <1>9, HasTail DEF Route
<1>12. Got(f, fd, q, after) /\ \A k \in DOMAIN fd : fd[k] \in Events
  BY DEF Walked, Got
<1>13. ASSUME NEW k \in DOMAIN fd PROVE ~Ahead(fd[k], Tail(ts), ds)
  <2>1. ~Has(ts, EventTenant[fd[k]])
    BY DEF Walked, Ahead
  <2>2. EventTenant[fd[k]] # t /\ ~Has(Tail(ts), EventTenant[fd[k]])
    BY <1>11, <2>1
  <2>3. Store!BucketOf(fd[k])[1] # t
    BY <1>12, <2>2, BucketIs
  <2>4. ~Has(ds, Store!BucketOf(fd[k]))
    BY <1>10, <2>3 DEF Has
  <2>. QED  BY <2>2, <2>4 DEF Ahead
<1>14. ASSUME NEW e \in bf, Whole(f, e), Store!Matches(e, q, after), ~Has(fd, e)
      PROVE  Ahead(e, Tail(ts), ds)
  <2>1. Has(ts, EventTenant[e])
    BY <1>14 DEF Walked, Ahead, Has
  <2>2. CASE EventTenant[e] = t
    <3>1. Store!BucketOf(e) \in DOMAIN f /\ Store!BucketOf(e)[1] = t
      BY <1>14, <2>2, BucketIs DEF Whole
    <3>. QED  BY <1>10, <3>1 DEF Ahead
  <2>3. CASE Has(Tail(ts), EventTenant[e])
    BY <2>3 DEF Ahead
  <2>. QED  BY <1>11, <2>1, <2>2, <2>3
<1>15. Walked(f, Tail(ts), ds, fd, bf, q, after)
  BY <1>10, <1>12, <1>13, <1>14 DEF Walked
<1>. QED  BY <1>15 DEF ds, ns

LEMMA WalkScanned ==
  ASSUME NEW f, \A b \in DOMAIN f : Written(f[b], b),
         NEW bf \in SUBSET Events, NEW q, NEW after, NEW ts, NEW ds, NEW fd,
         Walked(f, ts, ds, fd, bf, q, after), ds # <<>>, NEW b, b = Head(ds),
         NEW s, ScanOf(f[b], s, q, after)
  PROVE  Walked(f, ts, Tail(ds), fd \o s, bf, q, after)
<1>. DEFINE ls == f[b]
<1>1. /\ Route(f, ts, Tail(ds)) /\ b \in DOMAIN f /\ ~Has(Tail(ds), b) /\ ~Has(ts, b[1])
      /\ \A x : Has(ds, x) <=> x = b \/ Has(Tail(ds), x)
  <2>1. Route(f, ts, ds) /\ ds \in Seq(Store!Buckets)
    BY DEF Walked, Route
  <2>2. \A x : Has(ds, x) <=> x = b \/ Has(Tail(ds), x)
    BY <2>1, HasTail
  <2>. QED  BY <2>1, <2>2, RouteScanned
<1>2. PICK at \in [DOMAIN s -> DOMAIN ls] :
        /\ s \in Seq(Events) /\ Rising(at)
        /\ \A k \in DOMAIN s : /\ s[k] = ls[at[k]].event /\ ls[at[k]].state = "whole"
                               /\ Store!Matches(s[k], q, after)
        /\ \A i \in DOMAIN ls : ls[i].state = "whole" /\ Store!Matches(ls[i].event, q, after) =>
             \E k \in DOMAIN s : at[k] = i
  BY DEF ScanOf
<1>3. Written(ls, b) /\ ls \in Seq(StoreLine)
  BY <1>1 DEF Written
<1>. HIDE DEF ls
<1>4. ASSUME NEW k \in DOMAIN s
      PROVE  Store!BucketOf(s[k]) = b /\ Whole(f, s[k]) /\ s[k] \in Events
  <2>1. at[k] \in DOMAIN ls /\ ls[at[k]] \in StoreLine
    BY <1>2, <1>3
  <2>2. ls[at[k]] = [event |-> s[k], state |-> "whole"]
    BY <1>2, <2>1 DEF StoreLine
  <2>3. Store!BucketOf(s[k]) = b
    BY <1>2, <1>3, <2>1 DEF Written
  <2>4. s[k] \in Events
    BY <1>2
  <2>. QED  BY <1>1, <2>1, <2>2, <2>3, <2>4 DEF Whole, ls
<1>5. ASSUME NEW k \in DOMAIN s, NEW l \in DOMAIN s, s[k] = s[l] PROVE k = l
  <2>1. at[k] \in DOMAIN ls /\ at[l] \in DOMAIN ls /\ at[k] = at[l]
    BY <1>2, <1>3, <1>5 DEF Written
  <2>2. k \in Nat /\ l \in Nat /\ at[k] \in Nat
    <3>1. DOMAIN s = 1..Len(s) /\ DOMAIN ls = 1..Len(ls)
      BY <1>2, <1>3, LenProperties
    <3>. QED  BY <2>1, <3>1
  <2>3. ~(k < l) /\ ~(l < k)
    <3>1. \A x \in Nat : ~(x < x)
      OBVIOUS
    <3>. QED  BY <1>2, <2>1, <2>2, <3>1 DEF Rising
  <2>. QED  BY <2>2, <2>3
<1>6. Got(f, fd, q, after) /\ fd \in Seq(Events) /\ \A k \in DOMAIN fd : ~Ahead(fd[k], ts, ds)
  BY DEF Walked, Got
<1>7. \A k \in DOMAIN fd : Store!BucketOf(fd[k]) # b
  BY <1>1, <1>6 DEF Ahead
<1>. DEFINE new == fd \o s
<1>8. /\ new \in Seq(Events)
      /\ \A k \in DOMAIN fd : k \in DOMAIN new /\ new[k] = fd[k]
      /\ \A k \in DOMAIN s : Len(fd) + k \in DOMAIN new /\ new[Len(fd) + k] = s[k]
      /\ \A k \in DOMAIN new :
           k \in DOMAIN fd \/ (k > Len(fd) /\ k - Len(fd) \in DOMAIN s /\ new[k] = s[k - Len(fd)])
  BY <1>2, <1>6, ConcatIs
<1>. HIDE DEF new
<1>9. Got(f, new, q, after)
  <2>1. ASSUME NEW k \in DOMAIN new, NEW l \in DOMAIN new, new[k] = new[l] PROVE k = l
    <3>1. k \in Nat /\ l \in Nat /\ Len(fd) \in Nat
      <4>1. DOMAIN new = 1..Len(new)
        BY <1>8, LenProperties
      <4>. QED  BY <4>1, <1>6, LenProperties
    <3>2. CASE k \in DOMAIN fd /\ l \in DOMAIN fd
      BY <1>6, <1>8, <2>1, <3>2 DEF Got
    <3>3. CASE k \notin DOMAIN fd /\ l \notin DOMAIN fd
      <4>1. k - Len(fd) = l - Len(fd)
        BY <1>5, <1>8, <2>1, <3>3
      <4>. QED  BY <3>1, <4>1
    <3>4. CASE k \in DOMAIN fd /\ l \notin DOMAIN fd
      BY <1>4, <1>7, <1>8, <2>1, <3>4
    <3>5. CASE k \notin DOMAIN fd /\ l \in DOMAIN fd
      BY <1>4, <1>7, <1>8, <2>1, <3>5
    <3>. QED  BY <3>2, <3>3, <3>4, <3>5
  <2>2. ASSUME NEW k \in DOMAIN new PROVE Whole(f, new[k]) /\ Store!Matches(new[k], q, after)
    BY <1>2, <1>4, <1>6, <1>8 DEF Got
  <2>. QED  BY <1>8, <2>1, <2>2 DEF Got
<1>10. ASSUME NEW k \in DOMAIN new PROVE ~Ahead(new[k], ts, Tail(ds))
  <2>1. CASE k \in DOMAIN fd
    BY <1>1, <1>6, <1>8, <2>1 DEF Ahead
  <2>2. CASE k \notin DOMAIN fd
    <3>1. k - Len(fd) \in DOMAIN s /\ new[k] = s[k - Len(fd)]
      BY <1>8, <2>2
    <3>2. Store!BucketOf(new[k]) = b /\ new[k] \in Events
      BY <1>4, <3>1
    <3>3. EventTenant[new[k]] = b[1]
      BY <3>2, BucketIs
    <3>. QED  BY <1>1, <3>2, <3>3 DEF Ahead
  <2>. QED  BY <2>1, <2>2
<1>11. ASSUME NEW e \in bf, Whole(f, e), Store!Matches(e, q, after), ~Has(new, e)
       PROVE  Ahead(e, ts, Tail(ds))
  <2>1. ~Has(fd, e)
    BY <1>8, <1>11 DEF Has
  <2>2. Has(ts, EventTenant[e]) \/ Has(ds, Store!BucketOf(e))
    BY <1>11, <2>1 DEF Walked, Ahead
  <2>3. Store!BucketOf(e) # b
    <3>. SUFFICES ASSUME Store!BucketOf(e) = b PROVE FALSE
      OBVIOUS
    <3>1. PICK i \in DOMAIN ls : ls[i] = [event |-> e, state |-> "whole"]
      BY <1>11 DEF Whole, ls
    <3>2. PICK k \in DOMAIN s : at[k] = i
      BY <1>2, <1>11, <3>1
    <3>3. s[k] = e
      BY <1>2, <3>1, <3>2
    <3>. QED  BY <1>8, <1>11, <3>3 DEF Has
  <2>. QED  BY <1>1, <2>2, <2>3 DEF Ahead
<1>12. Walked(f, ts, Tail(ds), new, bf, q, after)
  BY <1>1, <1>9, <1>10, <1>11 DEF Walked
<1>. QED  BY <1>12 DEF new

LEMMA GotFirst ==
  ASSUME NEW f, NEW fd, NEW q, NEW after, Got(f, fd, q, after), NEW n \in Nat, n <= Len(fd)
  PROVE  Got(f, SubSeq(fd, 1, n), q, after) /\ Len(SubSeq(fd, 1, n)) = n
<1>1. fd \in Seq(Events) /\ Len(fd) \in Nat /\ DOMAIN fd = 1..Len(fd)
  BY LenProperties DEF Got
<1>2. /\ SubSeq(fd, 1, n) \in Seq(Events) /\ Len(SubSeq(fd, 1, n)) = n
      /\ DOMAIN SubSeq(fd, 1, n) = 1..n
      /\ \A k \in 1..n : k \in DOMAIN fd /\ SubSeq(fd, 1, n)[k] = fd[k]
  BY <1>1
<1>. QED  BY <1>2 DEF Got

\* What is appended meanwhile, and what a crash leaves, does not disturb a walk.
LEMMA GotKept ==
  ASSUME NEW f, NEW g, \A e \in Events : Whole(f, e) => Whole(g, e),
         NEW q, NEW after, NEW fd, Got(f, fd, q, after)
  PROVE  Got(g, fd, q, after)
<1>1. \A k \in DOMAIN fd : fd[k] \in Events
  BY DEF Got
<1>. QED  BY <1>1 DEF Got

LEMMA WalkKept ==
  ASSUME NEW f, NEW g, DOMAIN f \subseteq DOMAIN g, \A e \in Events : Whole(f, e) => Whole(g, e),
         NEW bf, \A e \in bf : Whole(g, e) => Whole(f, e),
         NEW q, NEW after, NEW ts, NEW ds, NEW fd, Walked(f, ts, ds, fd, bf, q, after)
  PROVE  Walked(g, ts, ds, fd, bf, q, after)
<1>1. Route(g, ts, ds)
  BY DEF Walked, Route
<1>2. Got(g, fd, q, after)
  BY GotKept DEF Walked
<1>3. \A e \in bf : Whole(g, e) /\ Store!Matches(e, q, after) => Has(fd, e) \/ Ahead(e, ts, ds)
  BY DEF Walked
<1>. QED  BY <1>1, <1>2, <1>3 DEF Walked

-----------------------------------------------------------------------------
(***************************************************************************)
(* The readers.                                                            *)
(***************************************************************************)
ReaderTypes ==
  /\ filter \in [Store!Readers -> Store!Filter]
  /\ walk \in [Store!Readers -> {"off", "walk", "done", "failed", "ended"}]
  /\ tenants \in [Store!Readers -> Seq(Store!Tenants)] /\ days \in [Store!Readers -> Seq(Store!Buckets)]
  /\ found \in [Store!Readers -> Seq(Events)] /\ before \in [Store!Readers -> SUBSET Events]

StreamTypesOf ==
  /\ lastSeen \in Nat /\ channel \in Seq(Events) /\ Len(channel) <= ChannelSize
  /\ received \in Seq(Events)

WithinLimit(r) == filter[r].limit > 0 => Len(found[r]) <= filter[r].limit

\* What a walk that has come to its end is: an answer.
Answer(r) ==
  /\ Got(file, found[r], filter[r], filter[r].after) /\ WithinLimit(r)
  /\ filter[r].limit = 0 \/ Len(found[r]) < filter[r].limit =>
       \A e \in before[r] : Whole(file, e) /\ Store!Matches(e, filter[r], filter[r].after) => Has(found[r], e)

ReaderInv(r) ==
  /\ before[r] \subseteq appended
  /\ walk[r] = "walk" =>
       /\ Walked(file, tenants[r], days[r], found[r], before[r], filter[r], Store!AfterOf(r))
       /\ WithinLimit(r)
  /\ walk[r] = "done" /\ r = Store!Query => Answer(r)

ReadersInv == ReaderTypes /\ StreamTypesOf /\ \A r \in Store!Readers : ReaderInv(r)

LEMMA IntactIsWhole ==
  ASSUME NEW e
  PROVE  Store!Intact(e) <=> Whole(file, e)
BY DEF Store!Intact, Store!Lines, Whole

LEMMA WholeKept ==
  ASSUME FilesInv, FilesInv', Kept(file, file')
  PROVE  /\ DOMAIN file \subseteq DOMAIN file' /\ \A e : Whole(file, e) => Whole(file', e)
         /\ \A e \in appended : Whole(file', e) => Whole(file, e)
<1>1. DOMAIN file \subseteq DOMAIN file'
  BY DEF Kept
<1>2. ASSUME NEW e, Whole(file, e) PROVE Whole(file', e)
  <2>. DEFINE b == Store!BucketOf(e)
  <2>1. b \in DOMAIN file
    BY <1>2 DEF Whole
  <2>2. PICK i \in DOMAIN file[b] : file[b][i] = [event |-> e, state |-> "whole"]
    BY <1>2 DEF Whole
  <2>3. file[b][i].state # "part"
    BY <2>2
  <2>4. i \in DOMAIN file'[b] /\ file'[b][i] = file[b][i]
    BY <2>1, <2>2, <2>3 DEF Kept, Settled
  <2>. QED  BY <1>1, <2>1, <2>2, <2>4 DEF Whole
<1>3. ASSUME NEW e \in appended, Whole(file', e) PROVE Whole(file, e)
  <2>1. Store!Intact(e)' <=> Store!Intact(e)
    BY IntactStays DEF FilesInv
  <2>2. Store!Intact(e)' <=> Whole(file', e)
    BY DEF Store!Intact, Store!Lines, Whole, Store!BucketOf
  <2>. QED  BY <1>3, <2>1, <2>2, IntactIsWhole
<1>. QED  BY <1>1, <1>2, <1>3

\* A reader that does not move, while the files grow.
LEMMA ReaderSame ==
  ASSUME FilesInv, FilesInv', Kept(file, file'), appended \subseteq appended',
         NEW r \in Store!Readers, ReaderInv(r), ReaderTypes,
         filter'[r] = filter[r], walk'[r] = walk[r], tenants'[r] = tenants[r], days'[r] = days[r],
         found'[r] = found[r], before'[r] = before[r], r = Store!Stream => lastSeen' = lastSeen
  PROVE  ReaderInv(r)'
<1>1. /\ DOMAIN file \subseteq DOMAIN file' /\ \A e : Whole(file, e) => Whole(file', e)
      /\ \A e \in appended : Whole(file', e) => Whole(file, e)
  BY WholeKept
<1>2. before[r] \subseteq appended
  BY DEF ReaderInv
<1>3. Store!AfterOf(r)' = Store!AfterOf(r)
  BY DEF Store!AfterOf, Store!Stream
<1>4. WithinLimit(r)' <=> WithinLimit(r)
  BY DEF WithinLimit
<1>5. ASSUME walk[r] = "walk"
      PROVE  /\ Walked(file', tenants[r], days[r], found[r], before[r], filter[r], Store!AfterOf(r))
             /\ WithinLimit(r)
  <2>1. /\ Walked(file, tenants[r], days[r], found[r], before[r], filter[r], Store!AfterOf(r))
        /\ WithinLimit(r)
    BY <1>5 DEF ReaderInv
  <2>2. \A e \in before[r] : Whole(file', e) => Whole(file, e)
    BY <1>1, <1>2
  <2>. QED  BY <1>1, <2>1, <2>2, WalkKept
<1>6. ASSUME walk[r] = "done", r = Store!Query PROVE Answer(r)'
  <2>1. Answer(r)
    BY <1>6 DEF ReaderInv
  <2>2. Got(file', found[r], filter[r], filter[r].after)
    BY <1>1, <2>1, GotKept DEF Answer
  <2>3. \A e \in before[r] : Whole(file', e) => Whole(file, e)
    BY <1>1, <1>2
  <2>4. filter[r].limit = 0 \/ Len(found[r]) < filter[r].limit =>
          \A e \in before[r] : Whole(file', e) /\ Store!Matches(e, filter[r], filter[r].after) => Has(found[r], e)
    BY <2>1, <2>3 DEF Answer
  <2>5. WithinLimit(r)'
    BY <1>4, <2>1 DEF Answer
  <2>6. Got(file, found[r], filter[r], filter[r].after)' <=> Got(file', found[r], filter[r], filter[r].after)
    OBVIOUS
  <2>7. \A e : /\ Whole(file, e)' <=> Whole(file', e)
               /\ Store!Matches(e, filter[r], filter[r].after)' <=> Store!Matches(e, filter[r], filter[r].after)
    BY DEF Store!Matches, Whole, Store!BucketOf
  <2>8. (filter[r].limit = 0 \/ Len(found[r]) < filter[r].limit =>
          \A e \in before[r] : Whole(file, e) /\ Store!Matches(e, filter[r], filter[r].after) => Has(found[r], e))'
    BY <2>4, <2>7 DEF Has
  <2>. QED  BY <2>2, <2>5, <2>6, <2>8 DEF Answer
<1>7. before'[r] \subseteq appended'
  BY <1>2
<1>8. Walked(file, tenants[r], days[r], found[r], before[r], filter[r], Store!AfterOf(r))'
      <=> Walked(file', tenants[r], days[r], found[r], before[r], filter[r], Store!AfterOf(r))
  BY <1>3
<1>. QED  BY <1>4, <1>5, <1>6, <1>7, <1>8 DEF ReaderInv

\* The frame of a step of one reader: the files and the other reader stay.
LEMMA OtherReaders ==
  ASSUME FilesInv, ReadersInv, NEW r \in Store!Readers, diskErrors' \in 0..MaxDiskErrors,
         UNCHANGED <<file, writing, joins, stuck, storeClosed, appended, refused, storeStarts>>,
         \A x \in Store!Readers : x # r =>
           /\ filter'[x] = filter[x] /\ walk'[x] = walk[x] /\ tenants'[x] = tenants[x]
           /\ days'[x] = days[x] /\ found'[x] = found[x] /\ before'[x] = before[x],
         r # Store!Stream => lastSeen' = lastSeen
  PROVE  \A x \in Store!Readers : x # r => ReaderInv(x)'
<1>. SUFFICES ASSUME NEW x \in Store!Readers, x # r PROVE ReaderInv(x)'
  OBVIOUS
<1>1. FilesInv' /\ Kept(file, file')
  BY FilesUntouched
<1>2. ReaderInv(x) /\ ReaderTypes
  BY DEF ReadersInv
<1>3. x = Store!Stream => lastSeen' = lastSeen
  OBVIOUS
<1>. QED  BY <1>1, <1>2, <1>3, ReaderSame

LEMMA StartWalkKeeps ==
  ASSUME FilesInv, ReadersInv, NEW r \in Store!Readers, Store!StartWalk(r)
  PROVE  ReadersInv'
<1>1. PICK f \in Store!Asked(r) : filter' = [filter EXCEPT ![r] = f]
  BY DEF Store!StartWalk
<1>. DEFINE ts == Store!Sorted({b[1] : b \in DOMAIN file})
<1>2. /\ walk' = [walk EXCEPT ![r] = IF storeClosed THEN "failed" ELSE "walk"]
      /\ tenants' = [tenants EXCEPT ![r] = ts]
      /\ days' = [days EXCEPT ![r] = <<>>] /\ found' = [found EXCEPT ![r] = <<>>]
      /\ before' = [before EXCEPT ![r] = appended]
      /\ UNCHANGED <<file, writing, joins, stuck, storeClosed, appended, refused, diskErrors, storeStarts>>
      /\ UNCHANGED <<lastSeen, channel, received>>
  BY DEF Store!StartWalk, Store!storage, Store!streaming, Store!counts
<1>3. ReaderTypes /\ StreamTypesOf /\ appended \in SUBSET Events
  BY DEF ReadersInv, FilesInv, Keys
<1>4. f \in Store!Filter
  BY <1>3, StoreOk DEF Store!Asked, Store!StoreAssumption, ReaderTypes
<1>5. Walked(file, ts, <<>>, <<>>, appended, f, Store!AfterOf(r)')
  <2>1. DOMAIN file \subseteq Store!Buckets /\ IsFiniteSet(DOMAIN file)
    BY DEF FilesInv, FilesWritten
  <2>. QED  BY <1>3, <2>1, WalkStarted
<1>6. ts \in Seq(Store!Tenants)
  <2>. HIDE DEF ts
  <2>. QED  BY <1>5 DEF Walked, Route
<1>. HIDE DEF ts
<1>7. /\ filter'[r] = f /\ walk'[r] = (IF storeClosed THEN "failed" ELSE "walk")
      /\ tenants'[r] = ts /\ days'[r] = <<>> /\ found'[r] = <<>> /\ before'[r] = appended
  BY <1>1, <1>2, <1>3 DEF ReaderTypes
<1>8. ReaderTypes'
  <2>1. filter' \in [Store!Readers -> Store!Filter]
    BY <1>1, <1>3, <1>4 DEF ReaderTypes
  <2>2. walk' \in [Store!Readers -> {"off", "walk", "done", "failed", "ended"}]
    BY <1>2, <1>3 DEF ReaderTypes
  <2>3. tenants' \in [Store!Readers -> Seq(Store!Tenants)]
    BY <1>2, <1>3, <1>6 DEF ReaderTypes
  <2>4. days' \in [Store!Readers -> Seq(Store!Buckets)] /\ found' \in [Store!Readers -> Seq(Events)]
    BY <1>2, <1>3 DEF ReaderTypes
  <2>5. before' \in [Store!Readers -> SUBSET Events]
    BY <1>2, <1>3 DEF ReaderTypes
  <2>. QED  BY <2>1, <2>2, <2>3, <2>4, <2>5 DEF ReaderTypes
<1>9. StreamTypesOf'
  BY <1>2, <1>3 DEF StreamTypesOf
<1>10. ReaderInv(r)'
  <2>1. walk'[r] = "walk" =>
          /\ Walked(file, tenants[r], days[r], found[r], before[r], filter[r], Store!AfterOf(r))'
          /\ WithinLimit(r)'
    <3>1. Walked(file', tenants'[r], days'[r], found'[r], before'[r], filter'[r], Store!AfterOf(r)')
      BY <1>2, <1>5, <1>7
    <3>2. WithinLimit(r)'
      <4>1. Len(<<>>) = 0 /\ f.limit \in Nat
        BY <1>4 DEF Store!Filter
      <4>. QED  BY <1>7, <4>1 DEF WithinLimit
    <3>. QED  BY <3>1, <3>2
  <2>2. walk'[r] # "done"
    BY <1>7
  <2>3. before'[r] \subseteq appended'
    BY <1>2, <1>7
  <2>. QED  BY <2>1, <2>2, <2>3 DEF ReaderInv
<1>11. \A x \in Store!Readers : x # r => ReaderInv(x)'
  BY <1>1, <1>2, <1>3, OtherReaders DEF ReaderTypes, FilesInv, Keys
<1>. QED  BY <1>8, <1>9, <1>10, <1>11 DEF ReadersInv

LEMMA ListTenantKeeps ==
  ASSUME FilesInv, ReadersInv, NEW r \in Store!Readers, Store!ListTenant(r)
  PROVE  ReadersInv'
<1>. DEFINE t == Head(tenants[r])
            ns == Store!Sorted({b[2] : b \in {x \in DOMAIN file : x[1] = t}})
            ds == [i \in DOMAIN ns |-> <<t, ns[i]>>]
<1>1. /\ walk[r] = "walk" /\ days[r] = <<>> /\ tenants[r] # <<>>
      /\ days' = [days EXCEPT ![r] = ds] /\ tenants' = [tenants EXCEPT ![r] = Tail(tenants[r])]
      /\ UNCHANGED <<filter, walk, found, before, lastSeen, channel, received>>
      /\ UNCHANGED <<file, writing, joins, stuck, storeClosed, appended, refused, diskErrors, storeStarts>>
  BY DEF Store!ListTenant, Store!storage, Store!streaming, Store!counts
<1>2. ReaderTypes /\ StreamTypesOf /\ ReaderInv(r)
  BY DEF ReadersInv
<1>3. Walked(file, Tail(tenants[r]), ds, found[r], before[r], filter[r], Store!AfterOf(r))
  <2>1. DOMAIN file \subseteq Store!Buckets /\ IsFiniteSet(DOMAIN file)
    BY DEF FilesInv, FilesWritten
  <2>2. Walked(file, tenants[r], <<>>, found[r], before[r], filter[r], Store!AfterOf(r))
    BY <1>1, <1>2 DEF ReaderInv
  <2>3. before[r] \in SUBSET Events
    BY <1>2 DEF ReaderTypes
  <2>. DEFINE N == {b[2] : b \in {x \in DOMAIN file : x[1] = t}}
  <2>4. \A n : n \in N <=> \E b \in DOMAIN file : b[1] = t /\ b[2] = n
    OBVIOUS
  <2>5. ns = Store!Sorted(N)
    OBVIOUS
  <2>. HIDE DEF N, ns
  <2>. QED  BY <1>1, <2>1, <2>2, <2>3, <2>4, <2>5, WalkListed
<1>. HIDE DEF ds
<1>4. ds \in Seq(Store!Buckets) /\ Tail(tenants[r]) \in Seq(Store!Tenants)
  BY <1>3 DEF Walked, Route
<1>5. days'[r] = ds /\ tenants'[r] = Tail(tenants[r])
  BY <1>1, <1>2 DEF ReaderTypes
<1>6. ReaderTypes'
  <2>1. days' \in [Store!Readers -> Seq(Store!Buckets)]
    BY <1>1, <1>2, <1>4 DEF ReaderTypes
  <2>2. tenants' \in [Store!Readers -> Seq(Store!Tenants)]
    BY <1>1, <1>2, <1>4 DEF ReaderTypes
  <2>. QED  BY <1>1, <1>2, <2>1, <2>2 DEF ReaderTypes
<1>7. StreamTypesOf'
  BY <1>1, <1>2 DEF StreamTypesOf
<1>8. ReaderInv(r)'
  <2>1. Store!AfterOf(r)' = Store!AfterOf(r)
    BY <1>1 DEF Store!AfterOf
  <2>2. Walked(file', tenants'[r], days'[r], found'[r], before'[r], filter'[r], Store!AfterOf(r)')
    BY <1>1, <1>3, <1>5, <2>1
  <2>3. Walked(file, tenants[r], days[r], found[r], before[r], filter[r], Store!AfterOf(r))'
    BY <2>2
  <2>4. WithinLimit(r)' /\ before'[r] \subseteq appended'
    BY <1>1, <1>2 DEF ReaderInv, WithinLimit
  <2>5. walk'[r] = "walk"
    BY <1>1
  <2>. QED  BY <2>3, <2>4, <2>5 DEF ReaderInv
<1>9. \A x \in Store!Readers : x # r => ReaderInv(x)'
  BY <1>1, <1>2, OtherReaders DEF ReaderTypes, FilesInv, Keys
<1>. QED  BY <1>6, <1>7, <1>8, <1>9 DEF ReadersInv

LEMMA FinishWalkKeeps ==
  ASSUME FilesInv, ReadersInv, NEW r \in Store!Readers, Store!FinishWalk(r)
  PROVE  ReadersInv'
<1>1. /\ walk[r] = "walk" /\ days[r] = <<>> /\ tenants[r] = <<>>
      /\ walk' = [walk EXCEPT ![r] = "done"]
      /\ UNCHANGED <<filter, tenants, days, found, before, lastSeen, channel, received>>
      /\ UNCHANGED <<file, writing, joins, stuck, storeClosed, appended, refused, diskErrors, storeStarts>>
  BY DEF Store!FinishWalk, Store!storage, Store!streaming, Store!counts
<1>2. ReaderTypes /\ StreamTypesOf /\ ReaderInv(r)
  BY DEF ReadersInv
<1>3. ReaderTypes' /\ StreamTypesOf' /\ walk'[r] = "done"
  BY <1>1, <1>2 DEF ReaderTypes, StreamTypesOf
<1>4. ASSUME r = Store!Query PROVE Answer(r)'
  <2>1. Store!AfterOf(r) = filter[r].after
    BY <1>4 DEF Store!AfterOf, Store!Query, Store!Stream
  <2>2. /\ Walked(file, <<>>, <<>>, found[r], before[r], filter[r], filter[r].after)
        /\ WithinLimit(r)
    BY <1>1, <1>2, <2>1 DEF ReaderInv
  <2>3. \A e : ~Ahead(e, <<>>, <<>>)
    BY DEF Ahead, Has
  <2>4. Got(file, found[r], filter[r], filter[r].after)
    BY <2>2 DEF Walked
  <2>5. \A e \in before[r] : Whole(file, e) /\ Store!Matches(e, filter[r], filter[r].after) => Has(found[r], e)
    BY <2>2, <2>3 DEF Walked
  <2>6. Answer(r)
    BY <2>2, <2>4, <2>5 DEF Answer
  <2>. QED  BY <1>1, <2>6 DEF Answer, Got, Whole, WithinLimit, Store!Matches, Store!BucketOf, Has
<1>5. before'[r] \subseteq appended'
  BY <1>1, <1>2 DEF ReaderInv
<1>6. ReaderInv(r)'
  BY <1>3, <1>4, <1>5 DEF ReaderInv
<1>7. \A x \in Store!Readers : x # r => ReaderInv(x)'
  BY <1>1, <1>2, OtherReaders DEF ReaderTypes, FilesInv, Keys
<1>. QED  BY <1>3, <1>6, <1>7 DEF ReadersInv

\* A walk that fails: the store was closed, the disk failed or the caller has gone.
LEMMA WalkFailsKeeps ==
  ASSUME FilesInv, ReadersInv, NEW r \in Store!Readers,
         Store!WalkFails(r) \/ Store!WalkMeetsError(r) \/ (r = Store!Query /\ Store!QueryIsCancelled)
  PROVE  ReadersInv'
<1>1. /\ walk' = [walk EXCEPT ![r] = "failed"]
      /\ UNCHANGED <<filter, tenants, days, found, before, lastSeen, channel, received>>
      /\ UNCHANGED <<file, writing, joins, stuck, storeClosed, appended, refused, storeStarts>>
  BY DEF Store!WalkFails, Store!WalkMeetsError, Store!QueryIsCancelled, Store!storage,
         Store!streaming, Store!counts
<1>2. ReaderTypes /\ StreamTypesOf /\ ReaderInv(r)
  BY DEF ReadersInv
<1>3. ReaderTypes' /\ StreamTypesOf' /\ walk'[r] = "failed"
  BY <1>1, <1>2 DEF ReaderTypes, StreamTypesOf
<1>4. ReaderInv(r)'
  BY <1>1, <1>2, <1>3 DEF ReaderInv
<1>5. ReadersMove
  BY DEF ReadersMove, Store!Walking
<1>6. diskErrors' \in 0..MaxDiskErrors
  BY <1>5, ReadersLeaveFiles
<1>7. \A x \in Store!Readers : x # r => ReaderInv(x)'
  BY <1>1, <1>2, <1>6, OtherReaders DEF ReaderTypes
<1>. QED  BY <1>3, <1>4, <1>7 DEF ReadersInv

LEMMA ScanFileKeeps ==
  ASSUME FilesInv, ReadersInv, NEW r \in Store!Readers, Store!ScanFile(r)
  PROVE  ReadersInv'
<1>. DEFINE b == Head(days[r])
            ls == file[b]
            s == Store!Scan(ls, r)
            results == found[r] \o s
            limit == filter[r].limit
<1>1. /\ walk[r] = "walk" /\ days[r] # <<>> /\ days' = [days EXCEPT ![r] = Tail(days[r])]
      /\ found' = [found EXCEPT ![r] = IF Store!TooLong(ls) THEN found[r]
                                       ELSE IF Store!Full(r, results) THEN SubSeq(results, 1, limit) ELSE results]
      /\ walk' = [walk EXCEPT ![r] = IF Store!TooLong(ls) THEN "failed"
                                     ELSE IF Store!Full(r, results) THEN "done" ELSE walk[r]]
      /\ UNCHANGED <<filter, tenants, before, lastSeen, channel, received>>
      /\ UNCHANGED <<file, writing, joins, stuck, storeClosed, appended, refused, diskErrors, storeStarts>>
  BY DEF Store!ScanFile, Store!storage, Store!streaming, Store!counts
<1>2. ReaderTypes /\ StreamTypesOf /\ ReaderInv(r)
  BY DEF ReadersInv
<1>3. /\ Walked(file, tenants[r], days[r], found[r], before[r], filter[r], Store!AfterOf(r))
      /\ limit \in Nat /\ \A x \in DOMAIN file : Written(file[x], x)
  BY <1>1, <1>2 DEF ReaderInv, ReaderTypes, Store!Filter, FilesInv, FilesWritten
<1>4. b \in DOMAIN file
  BY <1>1, <1>3, RouteScanned DEF Walked
<1>5. Walked(file, tenants[r], Tail(days[r]), results, before[r], filter[r], Store!AfterOf(r))
  <2>1. ScanOf(ls, s, filter[r], Store!AfterOf(r))
    BY <1>3, <1>4, ScanIs
  <2>2. before[r] \in SUBSET Events
    BY <1>2 DEF ReaderTypes
  <2>. HIDE DEF b, s
  <2>3. b = Head(days[r])
    BY DEF b
  <2>. QED  BY <1>1, <1>3, <2>1, <2>2, <2>3, WalkScanned
<1>. HIDE DEF b, s, results
<1>6. /\ Got(file, results, filter[r], Store!AfterOf(r)) /\ results \in Seq(Events)
      /\ Len(results) \in Nat /\ Tail(days[r]) \in Seq(Store!Buckets)
  BY <1>5, LenProperties DEF Walked, Got, Route
<1>7. Store!Full(r, results) => /\ Got(file, SubSeq(results, 1, limit), filter[r], Store!AfterOf(r))
                                /\ Len(SubSeq(results, 1, limit)) = limit /\ limit > 0
  BY <1>3, <1>6, GotFirst DEF Store!Full
<1>8. ~Store!Full(r, results) => (limit > 0 => Len(results) <= limit)
  BY <1>3, <1>6 DEF Store!Full
<1>9. days'[r] = Tail(days[r])
  BY <1>1, <1>2 DEF ReaderTypes
<1>10. /\ walk'[r] = (IF Store!TooLong(ls) THEN "failed"
                      ELSE IF Store!Full(r, results) THEN "done" ELSE "walk")
       /\ found'[r] = (IF Store!TooLong(ls) THEN found[r]
                       ELSE IF Store!Full(r, results) THEN SubSeq(results, 1, limit) ELSE results)
  BY <1>1, <1>2 DEF ReaderTypes
<1>11. ReaderTypes'
  <2>1. found'[r] \in Seq(Events)
    <3>1. Store!Full(r, results) => SubSeq(results, 1, limit) \in Seq(Events)
      BY <1>7 DEF Got
    <3>. QED  BY <1>2, <1>6, <1>10, <3>1 DEF ReaderTypes
  <2>2. found' \in [Store!Readers -> Seq(Events)]
    <3>1. \A x \in Store!Readers : x # r => found'[x] = found[x]
      BY <1>1, <1>2 DEF ReaderTypes
    <3>2. DOMAIN found' = Store!Readers /\ found' = [x \in Store!Readers |-> found'[x]]
      BY <1>1, <1>2 DEF ReaderTypes
    <3>3. \A x \in Store!Readers : found'[x] \in Seq(Events)
      BY <1>2, <2>1, <3>1 DEF ReaderTypes
    <3>. QED  BY <3>2, <3>3
  <2>3. walk' \in [Store!Readers -> {"off", "walk", "done", "failed", "ended"}]
    BY <1>1, <1>2 DEF ReaderTypes
  <2>4. days' \in [Store!Readers -> Seq(Store!Buckets)]
    BY <1>1, <1>2, <1>6 DEF ReaderTypes
  <2>. QED  BY <1>1, <1>2, <2>2, <2>3, <2>4 DEF ReaderTypes
<1>12. StreamTypesOf'
  BY <1>1, <1>2 DEF StreamTypesOf
<1>13. Store!AfterOf(r)' = Store!AfterOf(r)
  BY <1>1 DEF Store!AfterOf
<1>14. ReaderInv(r)'
  <2>1. before'[r] \subseteq appended'
    BY <1>1, <1>2 DEF ReaderInv
  <2>2. CASE Store!TooLong(ls)
    <3>1. walk'[r] = "failed"
      BY <1>10, <2>2
    <3>. QED  BY <2>1, <3>1 DEF ReaderInv
  <2>3. CASE ~Store!TooLong(ls) /\ Store!Full(r, results)
    <3>1. walk'[r] = "done" /\ found'[r] = SubSeq(results, 1, limit) /\ filter'[r] = filter[r]
      BY <1>1, <1>10, <2>3
    <3>2. ASSUME r = Store!Query PROVE Answer(r)'
      <4>1. Store!AfterOf(r) = filter[r].after
        BY <3>2 DEF Store!AfterOf, Store!Query, Store!Stream
      <4>2. Got(file', found'[r], filter'[r], filter'[r].after)
        BY <1>1, <1>7, <2>3, <3>1, <4>1
      <4>3. Len(found'[r]) = filter'[r].limit /\ filter'[r].limit > 0
        BY <1>7, <2>3, <3>1
      <4>4. ~(filter'[r].limit = 0 \/ Len(found'[r]) < filter'[r].limit) /\ Len(found'[r]) <= filter'[r].limit
        BY <1>3, <3>1, <4>3
      <4>5. Got(file, found[r], filter[r], filter[r].after)' /\ WithinLimit(r)'
        BY <4>2, <4>4 DEF WithinLimit
      <4>. QED  BY <4>4, <4>5 DEF Answer
    <3>. QED  BY <2>1, <3>1, <3>2 DEF ReaderInv
  <2>4. CASE ~Store!TooLong(ls) /\ ~Store!Full(r, results)
    <3>1. walk'[r] = "walk" /\ found'[r] = results
      BY <1>10, <2>4
    <3>2. Walked(file', tenants'[r], days'[r], found'[r], before'[r], filter'[r], Store!AfterOf(r)')
      BY <1>1, <1>5, <1>9, <1>13, <3>1
    <3>3. Walked(file, tenants[r], days[r], found[r], before[r], filter[r], Store!AfterOf(r))'
      BY <3>2
    <3>4. WithinLimit(r)'
      BY <1>1, <1>8, <2>4, <3>1 DEF WithinLimit
    <3>. QED  BY <2>1, <3>1, <3>3, <3>4 DEF ReaderInv
  <2>. QED  BY <2>2, <2>3, <2>4
<1>15. \A x \in Store!Readers : x # r => ReaderInv(x)'
  BY <1>1, <1>2, OtherReaders DEF ReaderTypes, FilesInv, Keys
<1>. QED  BY <1>11, <1>12, <1>14, <1>15 DEF ReadersInv

LEMMA SendKeeps ==
  ASSUME FilesInv, ReadersInv, Store!Send
  PROVE  ReadersInv'
<1>. DEFINE r == Store!Stream
            e == Head(found[r])
<1>1. /\ walk[r] = "done" /\ found[r] # <<>> /\ Len(channel) < ChannelSize
      /\ channel' = Append(channel, e) /\ lastSeen' = EventTime[e]
      /\ found' = [found EXCEPT ![r] = Tail(found[r])]
      /\ UNCHANGED <<filter, walk, tenants, days, before, received>>
      /\ UNCHANGED <<file, writing, joins, stuck, storeClosed, appended, refused, diskErrors, storeStarts>>
  BY DEF Store!Send, Store!storage, Store!counts
<1>2. ReaderTypes /\ StreamTypesOf /\ r \in Store!Readers /\ ReaderInv(r) /\ r # Store!Query
  BY DEF ReadersInv, Store!Readers, Store!Stream, Store!Query
<1>3. found[r] \in Seq(Events) /\ e \in Events /\ Tail(found[r]) \in Seq(Events)
  BY <1>1, <1>2, HeadTailProperties DEF ReaderTypes
<1>4. EventTime[e] \in Nat /\ ChannelSize \in Nat
  BY <1>3, StoreOk DEF Store!StoreAssumption
<1>. HIDE DEF e
<1>5. StreamTypesOf'
  <2>1. channel \in Seq(Events) /\ Len(channel) \in Nat
    BY <1>2, LenProperties DEF StreamTypesOf
  <2>2. Append(channel, e) \in Seq(Events) /\ Len(Append(channel, e)) = Len(channel) + 1
    BY <1>3, <2>1, AppendProperties
  <2>. QED  BY <1>1, <1>2, <1>4, <2>1, <2>2 DEF StreamTypesOf
<1>6. ReaderTypes'
  BY <1>1, <1>2, <1>3 DEF ReaderTypes
<1>7. ReaderInv(r)'
  BY <1>1, <1>2 DEF ReaderInv, Store!Stream, Store!Query
<1>8. \A x \in Store!Readers : x # r => ReaderInv(x)'
  BY <1>1, <1>2, OtherReaders DEF ReaderTypes, FilesInv, Keys
<1>. QED  BY <1>5, <1>6, <1>7, <1>8 DEF ReadersInv

\* The steps by which a reader comes to rest: NextPoll, Cancel and Answered.
LEMMA RestKeeps ==
  ASSUME FilesInv, ReadersInv, NEW r \in Store!Readers,
         NEW to \in {"off", "ended"}, walk' = [walk EXCEPT ![r] = to],
         found' = [found EXCEPT ![r] = <<>>], NEW f \in Store!Filter, filter' = [filter EXCEPT ![r] = f],
         UNCHANGED <<tenants, days, before, lastSeen, channel, received>>,
         UNCHANGED <<file, writing, joins, stuck, storeClosed, appended, refused, diskErrors, storeStarts>>
  PROVE  ReadersInv'
<1>1. ReaderTypes /\ StreamTypesOf /\ ReaderInv(r)
  BY DEF ReadersInv
<1>2. ReaderTypes' /\ StreamTypesOf' /\ walk'[r] = to
  <2>1. <<>> \in Seq(Events)
    OBVIOUS
  <2>. QED  BY <1>1, <2>1 DEF ReaderTypes, StreamTypesOf
<1>3. ReaderInv(r)'
  BY <1>1, <1>2 DEF ReaderInv
<1>4. \A x \in Store!Readers : x # r => ReaderInv(x)'
  BY <1>1, OtherReaders DEF ReaderTypes, FilesInv, Keys
<1>. QED  BY <1>2, <1>3, <1>4 DEF ReadersInv

LEMMA FiltersAre == Store!NoFilter \in Store!Filter
BY DEF Store!NoFilter, Store!Filter

LEMMA RestingKeeps ==
  ASSUME FilesInv, ReadersInv, Store!NextPoll \/ Store!Cancel \/ Store!Answered
  PROVE  ReadersInv'
<1>. USE DEF Store!storage, Store!streaming, Store!counts
<1>1. ReaderTypes /\ Store!Stream \in Store!Readers /\ Store!Query \in Store!Readers
  BY DEF ReadersInv, Store!Readers
<1>2. filter = [filter EXCEPT ![Store!Stream] = filter[Store!Stream]] /\ filter[Store!Stream] \in Store!Filter
  BY <1>1 DEF ReaderTypes
<1>3. CASE Store!NextPoll
  <2>1. /\ walk' = [walk EXCEPT ![Store!Stream] = "off"] /\ found' = [found EXCEPT ![Store!Stream] = <<>>]
        /\ UNCHANGED <<tenants, days, before, lastSeen, channel, received>> /\ filter' = filter
        /\ UNCHANGED <<file, writing, joins, stuck, storeClosed, appended, refused, diskErrors, storeStarts>>
    BY <1>3 DEF Store!NextPoll
  <2>2. filter' = [filter EXCEPT ![Store!Stream] = filter[Store!Stream]]
    BY <1>2, <2>1
  <2>. QED  BY <1>1, <1>2, <2>1, <2>2, RestKeeps
<1>4. CASE Store!Cancel
  <2>1. /\ walk' = [walk EXCEPT ![Store!Stream] = "ended"] /\ found' = [found EXCEPT ![Store!Stream] = <<>>]
        /\ UNCHANGED <<tenants, days, before, lastSeen, channel, received>> /\ filter' = filter
        /\ UNCHANGED <<file, writing, joins, stuck, storeClosed, appended, refused, diskErrors, storeStarts>>
    BY <1>4 DEF Store!Cancel
  <2>2. filter' = [filter EXCEPT ![Store!Stream] = filter[Store!Stream]]
    BY <1>2, <2>1
  <2>. QED  BY <1>1, <1>2, <2>1, <2>2, RestKeeps
<1>5. CASE Store!Answered
  <2>1. /\ walk' = [walk EXCEPT ![Store!Query] = "off"] /\ found' = [found EXCEPT ![Store!Query] = <<>>]
        /\ filter' = [filter EXCEPT ![Store!Query] = Store!NoFilter]
        /\ UNCHANGED <<tenants, days, before, lastSeen, channel, received>>
        /\ UNCHANGED <<file, writing, joins, stuck, storeClosed, appended, refused, diskErrors, storeStarts>>
    BY <1>5 DEF Store!Answered
  <2>. QED  BY <1>1, <2>1, FiltersAre, RestKeeps
<1>. QED  BY <1>3, <1>4, <1>5

LEMMA ReceiveKeeps ==
  ASSUME FilesInv, ReadersInv, Store!Receive
  PROVE  ReadersInv'
<1>1. /\ channel # <<>> /\ received' = Append(received, Head(channel)) /\ channel' = Tail(channel)
      /\ UNCHANGED <<filter, walk, tenants, days, found, before, lastSeen>>
      /\ UNCHANGED <<file, writing, joins, stuck, storeClosed, appended, refused, diskErrors, storeStarts>>
  BY DEF Store!Receive, Store!storage, Store!walks, Store!counts
<1>2. ReaderTypes /\ StreamTypesOf
  BY DEF ReadersInv
<1>3. /\ channel \in Seq(Events) /\ Head(channel) \in Events /\ Tail(channel) \in Seq(Events)
      /\ Len(channel) \in Nat /\ Len(Tail(channel)) = Len(channel) - 1
  BY <1>1, <1>2, HeadTailProperties, LenProperties DEF StreamTypesOf
<1>4. Append(received, Head(channel)) \in Seq(Events)
  BY <1>2, <1>3, AppendProperties DEF StreamTypesOf
<1>5. StreamTypesOf'
  <2>1. ChannelSize \in Nat
    BY StoreOk DEF Store!StoreAssumption
  <2>2. Len(channel') <= ChannelSize
    BY <1>1, <1>2, <1>3, <2>1 DEF StreamTypesOf
  <2>. QED  BY <1>1, <1>2, <1>3, <1>4, <2>2 DEF StreamTypesOf
<1>6. ReaderTypes'
  BY <1>1, <1>2 DEF ReaderTypes
<1>7. \A x \in Store!Readers : ReaderInv(x)'
  <2>1. FilesInv' /\ Kept(file, file')
    BY <1>1, FilesUntouched DEF FilesInv, Keys
  <2>. QED  BY <1>1, <1>2, <2>1, ReaderSame DEF ReadersInv
<1>. QED  BY <1>5, <1>6, <1>7 DEF ReadersInv

\* The steps of those who append, and Close.
LEMMA WritersKeep ==
  ASSUME FilesInv, FilesInv', Kept(file, file'), ReadersInv, appended \subseteq appended',
         UNCHANGED <<filter, walk, tenants, days, found, before, lastSeen, channel, received>>
  PROVE  ReadersInv'
<1>1. ReaderTypes /\ StreamTypesOf
  BY DEF ReadersInv
<1>2. ReaderTypes' /\ StreamTypesOf'
  BY <1>1 DEF ReaderTypes, StreamTypesOf
<1>3. \A x \in Store!Readers : ReaderInv(x)'
  BY <1>1, ReaderSame DEF ReadersInv
<1>. QED  BY <1>2, <1>3 DEF ReadersInv

LEMMA RestartKeepsReaders ==
  ASSUME ReadersInv, Store!Restart
  PROVE  ReadersInv'
<1>1. /\ filter' = [filter EXCEPT ![Store!Query] = Store!NoFilter]
      /\ walk' = [r \in Store!Readers |-> "off"] /\ tenants' = [r \in Store!Readers |-> <<>>]
      /\ days' = [r \in Store!Readers |-> <<>>] /\ found' = [r \in Store!Readers |-> <<>>]
      /\ before' = [r \in Store!Readers |-> {}]
      /\ lastSeen' = 0 /\ channel' = <<>> /\ received' = <<>>
  BY DEF Store!Restart
<1>2. ReaderTypes'
  <2>1. filter' \in [Store!Readers -> Store!Filter]
    BY <1>1, FiltersAre DEF ReadersInv, ReaderTypes
  <2>2. <<>> \in Seq(Store!Tenants) /\ <<>> \in Seq(Store!Buckets) /\ <<>> \in Seq(Events)
    OBVIOUS
  <2>3. walk' \in [Store!Readers -> {"off", "walk", "done", "failed", "ended"}]
    BY <1>1
  <2>4. tenants' \in [Store!Readers -> Seq(Store!Tenants)] /\ days' \in [Store!Readers -> Seq(Store!Buckets)]
    BY <1>1, <2>2
  <2>5. found' \in [Store!Readers -> Seq(Events)] /\ before' \in [Store!Readers -> SUBSET Events]
    BY <1>1, <2>2
  <2>. QED  BY <2>1, <2>3, <2>4, <2>5 DEF ReaderTypes
<1>3. StreamTypesOf'
  <2>1. ChannelSize \in Nat /\ Len(<<>>) = 0 /\ <<>> \in Seq(Events)
    BY StoreOk DEF Store!StoreAssumption
  <2>. QED  BY <1>1, <2>1 DEF StreamTypesOf
<1>4. \A r \in Store!Readers : ReaderInv(r)'
  BY <1>1 DEF ReaderInv
<1>. QED  BY <1>2, <1>3, <1>4 DEF ReadersInv

\* What the writers leave alone, and what they only add to.
LEMMA WritersLeaveReaders ==
  ASSUME \/ \E e \in Events : Store!AppendStarts(e) \/ Store!AppendRefuses(e)
         \/ Store!AppendReturns \/ Store!AppendFails \/ Store!Close
  PROVE  /\ UNCHANGED <<filter, walk, tenants, days, found, before, lastSeen, channel, received>>
         /\ appended \subseteq appended'
<1>. USE DEF Store!walks, Store!streaming, Store!counts
<1>1. ASSUME NEW e \in Events, Store!AppendStarts(e) \/ Store!AppendRefuses(e)
      PROVE  /\ UNCHANGED <<filter, walk, tenants, days, found, before, lastSeen, channel, received>>
             /\ appended \subseteq appended'
  BY <1>1 DEF Store!AppendStarts, Store!AppendRefuses
<1>2. CASE Store!AppendReturns
  BY <1>2 DEF Store!AppendReturns
<1>3. CASE Store!AppendFails
  BY <1>3 DEF Store!AppendFails
<1>4. CASE Store!Close
  BY <1>4 DEF Store!Close
<1>. QED  BY <1>1, <1>2, <1>3, <1>4

LEMMA ReadersKept ==
  ASSUME FilesInv, ReadersInv, [Store!Next]_(Store!vars)
  PROVE  ReadersInv'
<1>1. FilesInv' /\ Kept(file, file')
  BY FilesKept
<1>2. CASE Store!Next
  <2>1. CASE \/ \E e \in Events : Store!AppendStarts(e) \/ Store!AppendRefuses(e)
             \/ Store!AppendReturns \/ Store!AppendFails \/ Store!Close
    BY <1>1, <2>1, WritersLeaveReaders, WritersKeep
  <2>2. ASSUME NEW r \in Store!Readers, Store!Walking(r) PROVE ReadersInv'
    BY <2>2, StartWalkKeeps, ListTenantKeeps, ScanFileKeeps, FinishWalkKeeps, WalkFailsKeeps DEF Store!Walking
  <2>3. CASE Store!Send
    BY <2>3, SendKeeps
  <2>4. CASE Store!NextPoll \/ Store!Cancel \/ Store!Answered
    BY <2>4, RestingKeeps
  <2>5. CASE Store!Receive
    BY <2>5, ReceiveKeeps
  <2>6. CASE Store!Restart
    BY <2>6, RestartKeepsReaders
  <2>7. CASE Store!QueryIsCancelled
    BY <2>7, WalkFailsKeeps DEF Store!Readers
  <2>. QED  BY <1>2, <2>1, <2>2, <2>3, <2>4, <2>5, <2>6, <2>7 DEF Store!Next, Store!Appending
<1>3. CASE UNCHANGED Store!vars
  <2>1. /\ UNCHANGED <<filter, walk, tenants, days, found, before, lastSeen, channel, received>>
        /\ appended' = appended
    BY <1>3 DEF Store!vars, Store!walks, Store!streaming
  <2>. QED  BY <1>1, <2>1, WritersKeep
<1>. QED  BY <1>2, <1>3

LEMMA ReadersInitially == Store!Init => ReadersInv
<1>. SUFFICES ASSUME Store!Init PROVE ReadersInv
  OBVIOUS
<1>1. /\ filter \in [Store!Readers -> Filters \cup {Store!NoFilter}]
      /\ walk = [r \in Store!Readers |-> "off"] /\ tenants = [r \in Store!Readers |-> <<>>]
      /\ days = [r \in Store!Readers |-> <<>>] /\ found = [r \in Store!Readers |-> <<>>]
      /\ before = [r \in Store!Readers |-> {}]
      /\ lastSeen = 0 /\ channel = <<>> /\ received = <<>>
  BY DEF Store!Init
<1>2. ReaderTypes
  <2>1. Filters \cup {Store!NoFilter} \subseteq Store!Filter
    BY FiltersAre, StoreOk DEF Store!StoreAssumption
  <2>2. filter \in [Store!Readers -> Store!Filter]
    BY <1>1, <2>1
  <2>3. <<>> \in Seq(Store!Tenants) /\ <<>> \in Seq(Store!Buckets) /\ <<>> \in Seq(Events)
    OBVIOUS
  <2>4. walk \in [Store!Readers -> {"off", "walk", "done", "failed", "ended"}]
    BY <1>1
  <2>5. tenants \in [Store!Readers -> Seq(Store!Tenants)] /\ days \in [Store!Readers -> Seq(Store!Buckets)]
    BY <1>1, <2>3
  <2>6. found \in [Store!Readers -> Seq(Events)] /\ before \in [Store!Readers -> SUBSET Events]
    BY <1>1, <2>3
  <2>. QED  BY <2>2, <2>4, <2>5, <2>6 DEF ReaderTypes
<1>3. StreamTypesOf
  <2>1. ChannelSize \in Nat /\ Len(<<>>) = 0 /\ <<>> \in Seq(Events)
    BY StoreOk DEF Store!StoreAssumption
  <2>. QED  BY <1>1, <2>1 DEF StreamTypesOf
<1>4. \A r \in Store!Readers : ReaderInv(r)
  BY <1>1 DEF ReaderInv
<1>. QED  BY <1>2, <1>3, <1>4 DEF ReadersInv

LEMMA StoreTypeCorrect ==
  ASSUME FilesInv, ReadersInv
  PROVE  Store!TypeOK
<1>1. /\ FilesWritten /\ Keys /\ ReaderTypes /\ StreamTypesOf
  BY DEF FilesInv, ReadersInv
<1>2. \A b \in DOMAIN file : file[b] \in Seq([event : Events, state : {"part", "whole", "spoilt"}])
  BY <1>1 DEF FilesWritten, Written, StoreLine
<1>3. /\ DOMAIN file \subseteq Store!Buckets
      /\ writing \in Events \cup {Store!Nothing} /\ joins \in BOOLEAN
      /\ stuck \subseteq Store!Buckets /\ storeClosed \in BOOLEAN
      /\ appended \cup refused \subseteq Events
      /\ diskErrors \in 0..MaxDiskErrors /\ storeStarts \in 0..MaxStoreStarts
  BY <1>1 DEF FilesWritten, Keys
<1>. QED  BY <1>1, <1>2, <1>3 DEF Store!TypeOK, ReaderTypes, StreamTypesOf

\* Files, readers and the stream have their types, and the channel its capacity.
THEOREM StoreTypes == Store!Spec => []Store!TypeOK
<1>1. Store!Init => FilesInv /\ ReadersInv
  BY FilesInitially, ReadersInitially
<1>2. FilesInv /\ ReadersInv /\ [Store!Next]_(Store!vars) => FilesInv' /\ ReadersInv'
  BY FilesKept, ReadersKept
<1>3. FilesInv /\ ReadersInv => Store!TypeOK
  BY StoreTypeCorrect
<1>. QED  BY <1>1, <1>2, <1>3, PTL DEF Store!Spec

\* What the invariant says of an answer.
LEMMA AnswersAreComplete ==
  ASSUME FilesInv, ReadersInv
  PROVE  QueryComplete
<1>. DEFINE r == Store!Query
<1>1. r \in Store!Readers /\ \A x \in Store!Readers : ReaderInv(x)
  BY DEF ReadersInv, Store!Readers
<1>2. ASSUME walk[r] = "done" PROVE Store!QueryComplete
  <2>. DEFINE got == found[r]
              f == filter[r]
  <2>1. Answer(r)
    BY <1>1, <1>2 DEF ReaderInv
  <2>2. /\ got \in Seq(Events) /\ \A k, l \in DOMAIN got : got[k] = got[l] => k = l
        /\ \A k \in DOMAIN got : Whole(file, got[k]) /\ Store!Matches(got[k], f, f.after)
        /\ f.limit > 0 => Len(got) <= f.limit
        /\ f.limit = 0 \/ Len(got) < f.limit =>
             \A e \in before[r] : Whole(file, e) /\ Store!Matches(e, f, f.after) => Has(got, e)
    BY <2>1 DEF Answer, Got, WithinLimit
  <2>. HIDE DEF got, f
  <2>3. Store!IsInjective(got)
    BY <2>2 DEF Store!IsInjective
  <2>4. \A e \in Store!Range(got) : Store!Matches(e, f, f.after) /\ Store!Intact(e)
    BY <2>2, IntactIsWhole DEF Store!Range
  <2>5. \A e : Has(got, e) => e \in Store!Range(got)
    BY DEF Has, Store!Range
  <2>6. f.limit = 0 \/ Len(got) < f.limit =>
          \A e \in before[r] : Store!Intact(e) /\ Store!Matches(e, f, f.after) => e \in Store!Range(got)
    BY <2>2, <2>5, IntactIsWhole
  <2>. QED  BY <2>2, <2>3, <2>4, <2>6 DEF Store!QueryComplete, got, f
<1>3. walk[r] # "done" => Store!QueryComplete
  BY DEF Store!QueryComplete
<1>. QED  BY <1>2, <1>3 DEF QueryComplete

\* While events are appended, the disk fails and the service restarts, a query
\* that succeeds finds every intact event that was appended before it began and
\* matches, once, and nothing else; with a limit no more than that
\* (jsonl.go:79-108, 206-266).
THEOREM QueriesAreComplete == Store!Spec => []QueryComplete
<1>1. Store!Init => FilesInv /\ ReadersInv
  BY FilesInitially, ReadersInitially
<1>2. FilesInv /\ ReadersInv /\ [Store!Next]_(Store!vars) => FilesInv' /\ ReadersInv'
  BY FilesKept, ReadersKept
<1>3. FilesInv /\ ReadersInv => QueryComplete
  BY AnswersAreComplete
<1>. QED  BY <1>1, <1>2, <1>3, PTL DEF Store!Spec

-----------------------------------------------------------------------------
(***************************************************************************)
(* The stream: what it has sent, and what it will send, in the order of    *)
(* the times.                                                              *)
(***************************************************************************)
LEMMA TimesKeepsOrder ==
  ASSUME NEW d \in Nat, NEW m \in Nat, NEW n \in Nat, m <= n
  PROVE  d * m \in Nat /\ d * n \in Nat /\ d * m <= d * n
<1>1. n - m \in Nat /\ n = m + (n - m)
  BY SMT
<1>2. d * (n - m) \in Nat /\ d * m \in Nat /\ d * n \in Nat
  BY <1>1, SMT
<1>3. d * n = d * m + d * (n - m)
  BY <1>1, SMT
<1>. QED  BY <1>2, <1>3, SMT

\* What is of an earlier day is earlier.
LEMMA EarlierDay ==
  ASSUME NEW d \in Nat \ {0}, NEW x \in Nat, NEW y \in Nat, x \div d < y \div d
  PROVE  x < y
<1>1. /\ x \div d \in Nat /\ x % d \in 0..d - 1 /\ x = d * (x \div d) + (x % d)
      /\ y \div d \in Nat /\ y % d \in 0..d - 1 /\ y = d * (y \div d) + (y % d)
  BY SMT
<1>2. x \div d + 1 <= y \div d
  BY <1>1
<1>3. d * (x \div d + 1) \in Nat /\ d * (x \div d + 1) <= d * (y \div d)
  BY <1>1, <1>2, TimesKeepsOrder
<1>4. d * (x \div d + 1) = d * (x \div d) + d
  BY <1>1, SMT
<1>. QED  BY <1>1, <1>3, <1>4

InTime(q) == \A i, j \in DOMAIN q : i < j => EventTime[q[i]] < EventTime[q[j]]
AllBefore(p, q) == \A i \in DOMAIN p, j \in DOMAIN q : EventTime[p[i]] < EventTime[q[j]]
UpTo(q, t) == \A i \in DOMAIN q : EventTime[q[i]] <= t
After(q, t) == \A i \in DOMAIN q : EventTime[q[i]] > t

LEMMA TimesAre == \A e \in Events : EventTime[e] \in Nat /\ EventTime[e] > 0
BY StoreOk DEF Store!StoreAssumption

LEMMA InTimeTail ==
  ASSUME NEW q \in Seq(Events), q # <<>>, InTime(q)
  PROVE  /\ Head(q) \in Events /\ Tail(q) \in Seq(Events) /\ InTime(Tail(q))
         /\ After(Tail(q), EventTime[Head(q)])
         /\ 1 \in DOMAIN q /\ q[1] = Head(q)
         /\ \A i \in DOMAIN Tail(q) : i + 1 \in DOMAIN q /\ Tail(q)[i] = q[i + 1]
<1>1. /\ Head(q) \in Events /\ Tail(q) \in Seq(Events) /\ 1 \in DOMAIN q /\ Head(q) = q[1]
      /\ \A i \in DOMAIN Tail(q) : i + 1 \in DOMAIN q /\ i + 1 > 1 /\ Tail(q)[i] = q[i + 1]
  BY HasTail
<1>2. DOMAIN Tail(q) = 1..Len(Tail(q)) /\ Len(Tail(q)) \in Nat
  BY <1>1, LenProperties
<1>3. \A i, j \in DOMAIN Tail(q) : i < j => i + 1 < j + 1
  BY <1>2
<1>4. InTime(Tail(q))
  BY <1>1, <1>3 DEF InTime
<1>5. \A i \in DOMAIN Tail(q) : EventTime[q[1]] < EventTime[Tail(q)[i]]
  BY <1>1 DEF InTime
<1>6. \A i \in DOMAIN Tail(q) : Tail(q)[i] \in Events
  BY <1>1, <1>2
<1>7. After(Tail(q), EventTime[Head(q)])
  BY <1>1, <1>5, <1>6, TimesAre DEF After
<1>. QED  BY <1>1, <1>4, <1>7

LEMMA InTimeConcat ==
  ASSUME NEW p \in Seq(Events), NEW q \in Seq(Events), InTime(p), InTime(q), AllBefore(p, q)
  PROVE  InTime(p \o q) /\ p \o q \in Seq(Events)
<1>1. /\ p \o q \in Seq(Events) /\ Len(p) \in Nat
      /\ \A k \in DOMAIN p : k \in DOMAIN (p \o q) /\ (p \o q)[k] = p[k] /\ k <= Len(p)
      /\ \A k \in DOMAIN (p \o q) :
           k \in DOMAIN p \/ (k > Len(p) /\ k - Len(p) \in DOMAIN q /\ (p \o q)[k] = q[k - Len(p)])
  BY ConcatIs
<1>2. DOMAIN (p \o q) = 1..Len(p \o q) /\ DOMAIN p = 1..Len(p) /\ Len(p \o q) \in Nat
  BY <1>1, LenProperties
<1>. DEFINE s == p \o q
<1>. HIDE DEF s
<1>3. ASSUME NEW i \in DOMAIN s, NEW j \in DOMAIN s, i < j PROVE EventTime[s[i]] < EventTime[s[j]]
  <2>1. i \in Nat /\ j \in Nat /\ Len(p) \in Nat
    BY <1>1, <1>2 DEF s
  <2>2. CASE i \in DOMAIN p /\ j \in DOMAIN p
    BY <1>1, <1>3, <2>2 DEF InTime, s
  <2>3. CASE i \in DOMAIN p /\ j \notin DOMAIN p
    BY <1>1, <2>3 DEF AllBefore, s
  <2>4. CASE i \notin DOMAIN p
    <3>1. j \notin DOMAIN p
      <4>1. i > Len(p)
        BY <1>1, <2>4 DEF s
      <4>. QED  BY <1>2, <1>3, <2>1, <4>1
    <3>2. i - Len(p) < j - Len(p)
      BY <1>3, <2>1
    <3>3. /\ i - Len(p) \in DOMAIN q /\ s[i] = q[i - Len(p)]
          /\ j - Len(p) \in DOMAIN q /\ s[j] = q[j - Len(p)]
      BY <1>1, <2>4, <3>1 DEF s
    <3>. QED  BY <3>2, <3>3 DEF InTime
  <2>. QED  BY <2>2, <2>3, <2>4
<1>4. InTime(s)
  BY <1>3 DEF InTime
<1>. QED  BY <1>1, <1>4 DEF s

LEMMA InTimeAppend ==
  ASSUME NEW q \in Seq(Events), InTime(q), NEW e \in Events, \A i \in DOMAIN q : EventTime[q[i]] < EventTime[e]
  PROVE  /\ Append(q, e) \in Seq(Events) /\ InTime(Append(q, e))
         /\ \A i \in DOMAIN Append(q, e) : (i \in DOMAIN q /\ Append(q, e)[i] = q[i]) \/ Append(q, e)[i] = e
<1>. DEFINE n == Len(q)
            s == Append(q, e)
<1>1. /\ s \in Seq(Events) /\ Len(s) = n + 1 /\ s[n + 1] = e /\ \A i \in 1..n : s[i] = q[i]
      /\ DOMAIN q = 1..n /\ n \in Nat
  BY AppendProperties, LenProperties
<1>2. DOMAIN s = 1..n + 1
  BY <1>1, LenProperties
<1>. HIDE DEF s, n
<1>3. \A i \in 1..n + 1 : i \in 1..n \/ i = n + 1
  BY <1>1
<1>4. ASSUME NEW i \in 1..n + 1, NEW j \in 1..n + 1, i < j PROVE EventTime[s[i]] < EventTime[s[j]]
  <2>1. i \in 1..n
    BY <1>1, <1>4
  <2>2. CASE j \in 1..n
    BY <1>1, <1>4, <2>1, <2>2 DEF InTime
  <2>3. CASE j = n + 1
    BY <1>1, <2>1, <2>3
  <2>. QED  BY <1>3, <2>2, <2>3
<1>5. InTime(s)
  BY <1>2, <1>4 DEF InTime
<1>6. \A i \in DOMAIN s : (i \in DOMAIN q /\ s[i] = q[i]) \/ s[i] = e
  BY <1>1, <1>2, <1>3
<1>. QED  BY <1>1, <1>5, <1>6 DEF s

-----------------------------------------------------------------------------
InOrderAsked == Store!OneTenant /\ Store!InTimeOrder

\* What was found lies before the files ahead.
Behind(fd, ds) ==
  \A k \in DOMAIN fd, i \in DOMAIN ds :
    Store!BucketOf(fd[k])[1] = ds[i][1] => Store!BucketOf(fd[k])[2] < ds[i][2]

OrderOf(rc, ch, seen, w, fd, ds) ==
  /\ InTime(rc) /\ InTime(ch) /\ AllBefore(rc, ch) /\ UpTo(rc, seen) /\ UpTo(ch, seen)
  /\ w \in {"walk", "done"} => InTime(fd) /\ After(fd, seen)
  /\ w = "walk" => Behind(fd, ds)

\* While what the stream asks for is of one tenant and lies in each file in the
\* order of the times: what was sent is in order and up to lastSeen, what was found
\* and is not yet sent in order and later, and the files ahead are of later days.
StreamOrder ==
  OrderOf(received, channel, lastSeen, walk[Store!Stream], found[Store!Stream], days[Store!Stream])

OrderInv == InOrderAsked => StreamOrder

\* What the stream asks for stays, and lines out of order stay out of order.
LEMMA AskedBack ==
  ASSUME FilesWritten, Kept(file, file'), filter'[Store!Stream] = filter[Store!Stream], InOrderAsked'
  PROVE  InOrderAsked
<1>1. Store!OneTenant
  BY DEF InOrderAsked, Store!OneTenant, Store!Stream
<1>2. ASSUME NEW b \in DOMAIN file, NEW i \in DOMAIN file[b], NEW j \in DOMAIN file[b], i < j,
             Store!Wanted(file[b][i]), Store!Wanted(file[b][j])
      PROVE  EventTime[file[b][i].event] < EventTime[file[b][j].event]
  <2>1. /\ b \in DOMAIN file' /\ i \in DOMAIN file'[b] /\ j \in DOMAIN file'[b]
        /\ file'[b][i] = file[b][i] /\ file'[b][j] = file[b][j]
    BY <1>2 DEF Kept, Settled, Store!Wanted
  <2>2. Store!Wanted(file[b][i])' /\ Store!Wanted(file[b][j])'
    BY <1>2, <2>1 DEF Store!Wanted, Store!Stream
  <2>3. Store!InTimeOrder'
    BY DEF InOrderAsked
  <2>. QED  BY <1>2, <2>1, <2>2, <2>3 DEF Store!InTimeOrder
<1>3. Store!InTimeOrder
  BY <1>2 DEF Store!InTimeOrder
<1>. QED  BY <1>1, <1>3 DEF InOrderAsked

LEMMA OrderSame ==
  ASSUME StreamOrder, UNCHANGED <<lastSeen, channel, received>>,
         walk'[Store!Stream] = walk[Store!Stream], found'[Store!Stream] = found[Store!Stream],
         days'[Store!Stream] = days[Store!Stream]
  PROVE  StreamOrder'
<1>1. OrderOf(received', channel', lastSeen', walk'[Store!Stream], found'[Store!Stream], days'[Store!Stream])
  BY DEF StreamOrder
<1>. QED  BY <1>1 DEF StreamOrder, Store!Stream


LEMMA OrderReceived ==
  ASSUME NEW rc \in Seq(Events), NEW ch \in Seq(Events), NEW seen, NEW w, NEW fd, NEW ds,
         OrderOf(rc, ch, seen, w, fd, ds), ch # <<>>
  PROVE  OrderOf(Append(rc, Head(ch)), Tail(ch), seen, w, fd, ds)
<1>. DEFINE e == Head(ch)
            p == Append(rc, e)
            q == Tail(ch)
<1>1. InTime(rc) /\ InTime(ch) /\ AllBefore(rc, ch) /\ UpTo(rc, seen) /\ UpTo(ch, seen)
  BY DEF OrderOf
<1>2. /\ e \in Events /\ q \in Seq(Events) /\ InTime(q) /\ After(q, EventTime[e])
      /\ 1 \in DOMAIN ch /\ ch[1] = e
      /\ \A i \in DOMAIN q : i + 1 \in DOMAIN ch /\ q[i] = ch[i + 1]
  BY <1>1, InTimeTail
<1>3. \A i \in DOMAIN rc : EventTime[rc[i]] < EventTime[e]
  BY <1>1, <1>2 DEF AllBefore
<1>. HIDE DEF e
<1>4. /\ p \in Seq(Events) /\ InTime(p)
      /\ \A i \in DOMAIN p : (i \in DOMAIN rc /\ p[i] = rc[i]) \/ p[i] = e
  BY <1>1, <1>2, <1>3, InTimeAppend
<1>. HIDE DEF p, q
<1>5. AllBefore(p, q)
  <2>. SUFFICES ASSUME NEW i \in DOMAIN p, NEW j \in DOMAIN q PROVE EventTime[p[i]] < EventTime[q[j]]
    BY DEF AllBefore
  <2>1. CASE i \in DOMAIN rc /\ p[i] = rc[i]
    BY <1>1, <1>2, <2>1 DEF AllBefore
  <2>2. CASE p[i] = e
    <3>1. q[j] \in Events
      BY <1>2, LenProperties
    <3>. QED  BY <1>2, <2>2, <3>1, TimesAre DEF After
  <2>. QED  BY <1>4, <2>1, <2>2
<1>6. UpTo(p, seen)
  BY <1>1, <1>2, <1>4 DEF UpTo
<1>7. UpTo(q, seen)
  BY <1>1, <1>2 DEF UpTo
<1>. QED  BY <1>2, <1>4, <1>5, <1>6, <1>7 DEF OrderOf, e, p, q

LEMMA OrderSent ==
  ASSUME NEW rc \in Seq(Events), NEW ch \in Seq(Events), NEW seen \in Nat, NEW fd \in Seq(Events), NEW ds,
         OrderOf(rc, ch, seen, "done", fd, ds), fd # <<>>
  PROVE  OrderOf(rc, Append(ch, Head(fd)), EventTime[Head(fd)], "done", Tail(fd), ds)
<1>. DEFINE e == Head(fd)
            p == Append(ch, e)
<1>1. /\ InTime(rc) /\ InTime(ch) /\ AllBefore(rc, ch) /\ UpTo(rc, seen) /\ UpTo(ch, seen)
      /\ InTime(fd) /\ After(fd, seen)
  BY DEF OrderOf
<1>2. /\ e \in Events /\ Tail(fd) \in Seq(Events) /\ InTime(Tail(fd)) /\ After(Tail(fd), EventTime[e])
      /\ 1 \in DOMAIN fd /\ fd[1] = e
  BY <1>1, InTimeTail
<1>3. seen < EventTime[e] /\ EventTime[e] \in Nat
  BY <1>1, <1>2, TimesAre DEF After
<1>4. /\ \A i \in DOMAIN rc : rc[i] \in Events /\ EventTime[rc[i]] < EventTime[e]
      /\ \A i \in DOMAIN ch : ch[i] \in Events /\ EventTime[ch[i]] < EventTime[e]
  <2>1. (\A i \in DOMAIN rc : rc[i] \in Events) /\ \A i \in DOMAIN ch : ch[i] \in Events
    BY LenProperties
  <2>. HIDE DEF e
  <2>. QED  BY <1>1, <1>3, <2>1, TimesAre DEF UpTo
<1>. HIDE DEF e
<1>5. /\ p \in Seq(Events) /\ InTime(p)
      /\ \A i \in DOMAIN p : (i \in DOMAIN ch /\ p[i] = ch[i]) \/ p[i] = e
  BY <1>1, <1>2, <1>4, InTimeAppend
<1>. HIDE DEF p
<1>6. AllBefore(rc, p)
  <2>. SUFFICES ASSUME NEW i \in DOMAIN rc, NEW j \in DOMAIN p PROVE EventTime[rc[i]] < EventTime[p[j]]
    BY DEF AllBefore
  <2>1. CASE j \in DOMAIN ch /\ p[j] = ch[j]
    BY <1>1, <2>1 DEF AllBefore
  <2>2. CASE p[j] = e
    BY <1>4, <2>2
  <2>. QED  BY <1>5, <2>1, <2>2
<1>7. UpTo(rc, EventTime[e])
  BY <1>3, <1>4, TimesAre DEF UpTo
<1>8. UpTo(p, EventTime[e])
  <2>. SUFFICES ASSUME NEW j \in DOMAIN p PROVE EventTime[p[j]] <= EventTime[e]
    BY DEF UpTo
  <2>1. CASE j \in DOMAIN ch /\ p[j] = ch[j]
    BY <1>3, <1>4, <2>1, TimesAre
  <2>2. CASE p[j] = e
    BY <1>3, <2>2
  <2>. QED  BY <1>5, <2>1, <2>2
<1>. QED  BY <1>1, <1>2, <1>5, <1>6, <1>7, <1>8 DEF OrderOf, e, p

\* A walk begins, or a reader rests: nothing is found.
LEMMA OrderEmptied ==
  ASSUME NEW rc, NEW ch, NEW seen, NEW w, NEW fd, NEW ds, OrderOf(rc, ch, seen, w, fd, ds), NEW v, NEW es
  PROVE  OrderOf(rc, ch, seen, v, <<>>, es)
BY DEF OrderOf, InTime, After, Behind

\* A scan finds what matches, in order and later than what was found before.
LEMMA OrderScanned ==
  ASSUME NEW rc, NEW ch, NEW seen \in Nat, NEW fd \in Seq(Events), NEW ds, NEW ts, NEW f,
         OrderOf(rc, ch, seen, "walk", fd, ds), Route(f, ts, ds), ds # <<>>,
         NEW b, b = Head(ds), NEW s \in Seq(Events), InTime(s), After(s, seen),
         \A k \in DOMAIN s : Store!BucketOf(s[k]) = b,
         \A k \in DOMAIN fd, l \in DOMAIN s : EventTenant[fd[k]] = EventTenant[s[l]]
  PROVE  OrderOf(rc, ch, seen, "walk", fd \o s, Tail(ds)) /\ fd \o s \in Seq(Events)
<1>1. /\ \A i \in DOMAIN Tail(ds) : Tail(ds)[i][1] = b[1] /\ b[2] < Tail(ds)[i][2]
      /\ 1 \in DOMAIN ds /\ b = ds[1]
      /\ \A i \in DOMAIN Tail(ds) : i + 1 \in DOMAIN ds /\ Tail(ds)[i] = ds[i + 1]
  BY RouteScanned, HasTail DEF Route
<1>2. /\ InTime(rc) /\ InTime(ch) /\ AllBefore(rc, ch) /\ UpTo(rc, seen) /\ UpTo(ch, seen)
      /\ InTime(fd) /\ After(fd, seen) /\ Behind(fd, ds)
  BY DEF OrderOf
<1>3. (\A k \in DOMAIN fd : fd[k] \in Events) /\ \A k \in DOMAIN s : s[k] \in Events
  BY LenProperties
<1>4. ASSUME NEW k \in DOMAIN fd, NEW l \in DOMAIN s PROVE EventTime[fd[k]] < EventTime[s[l]]
  <2>1. /\ Store!BucketOf(fd[k])[1] = EventTenant[fd[k]] /\ Store!BucketOf(s[l])[1] = EventTenant[s[l]]
        /\ Store!BucketOf(fd[k])[2] = EventTime[fd[k]] \div DayLength
        /\ Store!BucketOf(s[l])[2] = EventTime[s[l]] \div DayLength
    BY <1>3, BucketIs
  <2>2. Store!BucketOf(fd[k])[1] = ds[1][1]
    BY <1>1, <2>1
  <2>3. Store!BucketOf(fd[k])[2] < ds[1][2]
    BY <1>1, <1>2, <2>2 DEF Behind
  <2>4. EventTime[fd[k]] \div DayLength < EventTime[s[l]] \div DayLength
    BY <1>1, <2>1, <2>3
  <2>5. EventTime[fd[k]] \in Nat /\ EventTime[s[l]] \in Nat /\ DayLength \in Nat \ {0}
    BY <1>3, TimesAre, StoreOk DEF Store!StoreAssumption
  <2>. QED  BY <2>4, <2>5, EarlierDay
<1>5. AllBefore(fd, s)
  BY <1>4 DEF AllBefore
<1>. DEFINE new == fd \o s
<1>6. InTime(new) /\ new \in Seq(Events)
  BY <1>2, <1>5, InTimeConcat
<1>7. \A k \in DOMAIN new : (k \in DOMAIN fd /\ new[k] = fd[k])
                            \/ (k - Len(fd) \in DOMAIN s /\ new[k] = s[k - Len(fd)])
  BY ConcatIs
<1>. HIDE DEF new
<1>8. After(new, seen)
  BY <1>2, <1>7 DEF After
<1>9. Behind(new, Tail(ds))
  <2>. SUFFICES ASSUME NEW k \in DOMAIN new, NEW i \in DOMAIN Tail(ds),
                       Store!BucketOf(new[k])[1] = Tail(ds)[i][1]
                PROVE  Store!BucketOf(new[k])[2] < Tail(ds)[i][2]
    BY DEF Behind
  <2>1. CASE k \in DOMAIN fd /\ new[k] = fd[k]
    BY <1>1, <1>2, <2>1 DEF Behind
  <2>2. CASE k - Len(fd) \in DOMAIN s /\ new[k] = s[k - Len(fd)]
    BY <1>1, <2>2
  <2>. QED  BY <1>7, <2>1, <2>2
<1>10. OrderOf(rc, ch, seen, "walk", new, Tail(ds))
  BY <1>2, <1>6, <1>8, <1>9 DEF OrderOf
<1>. QED  BY <1>6, <1>10 DEF new

\* A limit cuts a result; a scan that failed leaves no claim.
LEMMA OrderCut ==
  ASSUME NEW rc, NEW ch, NEW seen, NEW fd \in Seq(Events), NEW ds,
         OrderOf(rc, ch, seen, "walk", fd, ds), NEW n \in Nat, n <= Len(fd), NEW es
  PROVE  OrderOf(rc, ch, seen, "done", SubSeq(fd, 1, n), es)
<1>. DEFINE p == SubSeq(fd, 1, n)
<1>1. fd \in Seq(Events) /\ Len(fd) \in Nat /\ DOMAIN fd = 1..Len(fd)
  BY LenProperties
<1>2. DOMAIN p = 1..n /\ \A k \in 1..n : k \in DOMAIN fd /\ p[k] = fd[k]
  BY <1>1
<1>3. InTime(fd) /\ After(fd, seen)
  BY DEF OrderOf
<1>. HIDE DEF p
<1>4. InTime(p)
  BY <1>2, <1>3 DEF InTime
<1>5. After(p, seen)
  BY <1>2, <1>3 DEF After
<1>6. OrderOf(rc, ch, seen, "done", p, es)
  BY <1>4, <1>5 DEF OrderOf
<1>. QED  BY <1>6 DEF p


-----------------------------------------------------------------------------
(***************************************************************************)
(* The steps of the stream.                                                *)
(***************************************************************************)
\* The events a scan for the stream returns, if they lie in the file in the order
\* of the times.
LEMMA ScanInOrder ==
  ASSUME FilesWritten, InOrderAsked, lastSeen \in Nat, NEW b \in DOMAIN file, NEW s, s = Store!Scan(file[b], Store!Stream)
  PROVE  /\ s \in Seq(Events) /\ InTime(s) /\ After(s, lastSeen)
         /\ \A k \in DOMAIN s : Store!BucketOf(s[k]) = b /\ s[k] \in filter[Store!Stream].selected
<1>. DEFINE r == Store!Stream
            ls == file[b]
<1>1. r \in Store!Readers /\ Written(ls, b)
  BY DEF FilesWritten, Store!Readers
<1>2. ScanOf(ls, s, filter[r], Store!AfterOf(r))
  BY <1>1, ScanIs
<1>3. PICK at \in [DOMAIN s -> DOMAIN ls] :
        /\ s \in Seq(Events) /\ Rising(at)
        /\ \A k \in DOMAIN s : /\ s[k] = ls[at[k]].event /\ ls[at[k]].state = "whole"
                               /\ Store!Matches(s[k], filter[r], Store!AfterOf(r))
  BY <1>2 DEF ScanOf
<1>4. \A k \in DOMAIN s : /\ at[k] \in DOMAIN ls /\ Store!Wanted(ls[at[k]])
                          /\ s[k] = ls[at[k]].event /\ s[k] \in filter[r].selected
  BY <1>3 DEF Store!Wanted, Store!Matches
<1>5. \A k \in DOMAIN s : Store!BucketOf(s[k]) = b
  BY <1>1, <1>4 DEF Written
<1>6. ASSUME NEW k \in DOMAIN s, NEW l \in DOMAIN s, k < l PROVE EventTime[s[k]] < EventTime[s[l]]
  <2>1. at[k] < at[l]
    BY <1>3, <1>6 DEF Rising
  <2>2. EventTime[ls[at[k]].event] < EventTime[ls[at[l]].event]
    BY <1>4, <2>1 DEF InOrderAsked, Store!InTimeOrder
  <2>. QED  BY <1>4, <2>2
<1>7. ASSUME NEW k \in DOMAIN s PROVE EventTime[s[k]] > lastSeen
  <2>1. s[k] \in Events
    BY <1>3, LenProperties
  <2>2. EventTime[s[k]] \in Nat /\ EventTime[s[k]] > 0
    BY <2>1, TimesAre
  <2>3. lastSeen > 0 => Store!AfterOf(r) = lastSeen
    BY DEF Store!AfterOf
  <2>4. Store!Matches(s[k], filter[r], Store!AfterOf(r))
    BY <1>3
  <2>5. lastSeen > 0 => EventTime[s[k]] > lastSeen
    BY <2>3, <2>4 DEF Store!Matches
  <2>. QED  BY <2>2, <2>5
<1>. QED  BY <1>3, <1>4, <1>5, <1>6, <1>7 DEF InTime, After

LEMMA ReceiveInOrder ==
  ASSUME ReadersInv, StreamOrder, Store!Receive
  PROVE  StreamOrder'
<1>1. /\ channel # <<>> /\ received' = Append(received, Head(channel)) /\ channel' = Tail(channel)
      /\ UNCHANGED <<lastSeen, walk, found, days>>
  BY DEF Store!Receive, Store!walks
<1>2. OrderOf(received', channel', lastSeen', walk'[Store!Stream], found'[Store!Stream], days'[Store!Stream])
  BY <1>1, OrderReceived DEF StreamOrder, ReadersInv, StreamTypesOf
<1>. QED  BY <1>2 DEF StreamOrder, Store!Stream

LEMMA SendInOrder ==
  ASSUME ReadersInv, StreamOrder, Store!Send
  PROVE  StreamOrder'
<1>. DEFINE r == Store!Stream
<1>1. /\ walk[r] = "done" /\ found[r] # <<>> /\ channel' = Append(channel, Head(found[r]))
      /\ lastSeen' = EventTime[Head(found[r])] /\ found' = [found EXCEPT ![r] = Tail(found[r])]
      /\ UNCHANGED <<walk, days, received>>
  BY DEF Store!Send
<1>2. /\ r \in Store!Readers /\ found[r] \in Seq(Events) /\ found'[r] = Tail(found[r])
      /\ received \in Seq(Events) /\ channel \in Seq(Events) /\ lastSeen \in Nat
  BY <1>1 DEF ReadersInv, ReaderTypes, StreamTypesOf, Store!Readers
<1>3. OrderOf(received', channel', lastSeen', walk'[r], found'[r], days'[r])
  BY <1>1, <1>2, OrderSent DEF StreamOrder
<1>. QED  BY <1>3 DEF StreamOrder, Store!Stream

LEMMA WalkInOrder ==
  ASSUME FilesInv, ReadersInv, InOrderAsked, StreamOrder, Store!Walking(Store!Stream)
  PROVE  StreamOrder'
<1>. DEFINE r == Store!Stream
<1>1. /\ r \in Store!Readers /\ ReaderTypes /\ ReaderInv(r) /\ FilesWritten
      /\ received \in Seq(Events) /\ channel \in Seq(Events) /\ lastSeen \in Nat
      /\ found[r] \in Seq(Events) /\ filter[r].limit \in Nat
  BY DEF FilesInv, ReadersInv, ReaderTypes, StreamTypesOf, Store!Readers, Store!Filter
<1>2. OrderOf(received, channel, lastSeen, walk[r], found[r], days[r])
  BY DEF StreamOrder
<1>. SUFFICES OrderOf(received', channel', lastSeen', walk'[r], found'[r], days'[r])
  BY DEF StreamOrder, Store!Stream
<1>3. CASE Store!StartWalk(r)
  <2>1. found'[r] = <<>> /\ UNCHANGED <<lastSeen, channel, received>>
    BY <1>1, <1>3 DEF Store!StartWalk, Store!streaming, ReaderTypes
  <2>. QED  BY <1>2, <2>1, OrderEmptied
<1>4. CASE Store!ListTenant(r)
  <2>. DEFINE t == Head(tenants[r])
  <2>1. /\ walk[r] = "walk" /\ days[r] = <<>> /\ tenants[r] # <<>>
        /\ UNCHANGED <<lastSeen, channel, received, walk, found>>
        /\ \A i \in DOMAIN days'[r] : days'[r][i][1] = t
    BY <1>1, <1>4 DEF Store!ListTenant, Store!streaming, ReaderTypes
  <2>2. \A k \in DOMAIN found[r] : ~Ahead(found[r][k], tenants[r], days[r])
    BY <1>1, <2>1 DEF ReaderInv, Walked
  <2>3. Has(tenants[r], t)
    BY <1>1, <2>1, HasTail DEF ReaderTypes
  <2>4. \A k \in DOMAIN found[r] : Store!BucketOf(found[r][k])[1] # t
    <3>1. \A k \in DOMAIN found[r] : found[r][k] \in Events
      BY <1>1, LenProperties
    <3>. HIDE DEF t
    <3>. QED  BY <2>2, <2>3, <3>1, BucketIs DEF Ahead
  <2>. HIDE DEF t
  <2>. QED  BY <1>2, <2>1, <2>4 DEF OrderOf, Behind
<1>5. CASE Store!ScanFile(r)
  <2>. DEFINE b == Head(days[r])
              ls == file[b]
              s == Store!Scan(ls, r)
              results == found[r] \o s
              limit == filter[r].limit
  <2>1. /\ walk[r] = "walk" /\ days[r] # <<>> /\ days'[r] = Tail(days[r])
        /\ found'[r] = (IF Store!TooLong(ls) THEN found[r]
                        ELSE IF Store!Full(r, results) THEN SubSeq(results, 1, limit) ELSE results)
        /\ walk'[r] = (IF Store!TooLong(ls) THEN "failed"
                       ELSE IF Store!Full(r, results) THEN "done" ELSE "walk")
        /\ UNCHANGED <<lastSeen, channel, received>>
    BY <1>1, <1>5 DEF Store!ScanFile, Store!streaming, ReaderTypes
  <2>2. /\ Route(file, tenants[r], days[r])
        /\ \A k \in DOMAIN found[r] : found[r][k] \in filter[r].selected
    BY <1>1, <2>1 DEF ReaderInv, Walked, Got, Store!Matches
  <2>3. b \in DOMAIN file
    BY <2>1, <2>2, RouteScanned
  <2>4. /\ s \in Seq(Events) /\ InTime(s) /\ After(s, lastSeen)
        /\ \A k \in DOMAIN s : Store!BucketOf(s[k]) = b /\ s[k] \in filter[r].selected
    BY <1>1, <2>3, ScanInOrder
  <2>5. \A k \in DOMAIN found[r], l \in DOMAIN s : EventTenant[found[r][k]] = EventTenant[s[l]]
    BY <2>2, <2>4 DEF InOrderAsked, Store!OneTenant
  <2>6. OrderOf(received, channel, lastSeen, "walk", results, Tail(days[r])) /\ results \in Seq(Events)
    <3>. DEFINE q == days[r]
    <3>1. b = Head(q) /\ q # <<>> /\ Route(file, tenants[r], q)
      BY <2>1, <2>2
    <3>2. OrderOf(received, channel, lastSeen, "walk", found[r], q)
      BY <1>2, <2>1
    <3>. HIDE DEF b, s, q
    <3>3. /\ OrderOf(received, channel, lastSeen, "walk", found[r] \o s, Tail(q))
          /\ found[r] \o s \in Seq(Events)
      BY <1>1, <2>4, <2>5, <3>1, <3>2, OrderScanned
    <3>. QED  BY <3>3 DEF q
  <2>. HIDE DEF results, b, s, limit
  <2>7. CASE Store!TooLong(ls)
    BY <1>2, <2>1, <2>7 DEF OrderOf
  <2>8. CASE ~Store!TooLong(ls) /\ Store!Full(r, results)
    <3>1. limit \in Nat /\ limit <= Len(results)
      BY <1>1, <2>6, <2>8, LenProperties DEF Store!Full, limit
    <3>2. OrderOf(received, channel, lastSeen, "done", SubSeq(results, 1, limit), days'[r])
      BY <2>6, <3>1, OrderCut
    <3>. QED  BY <2>1, <2>8, <3>2
  <2>9. CASE ~Store!TooLong(ls) /\ ~Store!Full(r, results)
    BY <2>1, <2>6, <2>9
  <2>. QED  BY <2>7, <2>8, <2>9
<1>6. CASE Store!FinishWalk(r)
  <2>1. /\ walk[r] = "walk" /\ walk'[r] = "done"
        /\ UNCHANGED <<lastSeen, channel, received, found, days>>
    BY <1>1, <1>6 DEF Store!FinishWalk, Store!streaming, ReaderTypes
  <2>. QED  BY <1>2, <2>1 DEF OrderOf
<1>7. CASE Store!WalkFails(r) \/ Store!WalkMeetsError(r)
  <2>1. walk'[r] = "failed" /\ UNCHANGED <<lastSeen, channel, received, found, days>>
    BY <1>1, <1>7 DEF Store!WalkFails, Store!WalkMeetsError, Store!streaming, ReaderTypes
  <2>. QED  BY <1>2, <2>1 DEF OrderOf
<1>. QED  BY <1>3, <1>4, <1>5, <1>6, <1>7 DEF Store!Walking

LEMMA RestInOrder ==
  ASSUME ReadersInv, StreamOrder, Store!NextPoll \/ Store!Cancel
  PROVE  StreamOrder'
<1>1. found'[Store!Stream] = <<>> /\ UNCHANGED <<lastSeen, channel, received>>
  BY DEF Store!NextPoll, Store!Cancel, Store!streaming, ReadersInv, ReaderTypes, Store!Readers
<1>2. OrderOf(received', channel', lastSeen', walk'[Store!Stream], found'[Store!Stream], days'[Store!Stream])
  BY <1>1, OrderEmptied DEF StreamOrder
<1>. QED  BY <1>2 DEF StreamOrder, Store!Stream

\* Before the first poll, after a start.
LEMMA NothingInOrder ==
  ASSUME NEW seen, NEW w, NEW ds
  PROVE  OrderOf(<<>>, <<>>, seen, w, <<>>, ds)
BY DEF OrderOf, InTime, AllBefore, UpTo, After, Behind

LEMMA RestartInOrder ==
  ASSUME Store!Restart
  PROVE  StreamOrder'
<1>1. found'[Store!Stream] = <<>> /\ channel' = <<>> /\ received' = <<>>
  BY DEF Store!Restart, Store!Readers
<1>2. OrderOf(received', channel', lastSeen', walk'[Store!Stream], found'[Store!Stream], days'[Store!Stream])
  BY <1>1, NothingInOrder
<1>. QED  BY <1>2 DEF StreamOrder, Store!Stream

\* What a step of the query leaves of the stream, and every step of its filter.
LEMMA QueryLeavesStream ==
  ASSUME ReadersInv, Store!Walking(Store!Query) \/ Store!QueryIsCancelled \/ Store!Answered
  PROVE  /\ filter'[Store!Stream] = filter[Store!Stream] /\ walk'[Store!Stream] = walk[Store!Stream]
         /\ found'[Store!Stream] = found[Store!Stream] /\ days'[Store!Stream] = days[Store!Stream]
         /\ UNCHANGED <<lastSeen, channel, received>>
<1>1. Store!Stream # Store!Query /\ Store!Stream \in Store!Readers /\ ReaderTypes
  BY DEF ReadersInv, Store!Readers, Store!Stream, Store!Query
<1>. USE DEF Store!streaming, ReaderTypes
<1>2. CASE Store!StartWalk(Store!Query)
  BY <1>1, <1>2 DEF Store!StartWalk
<1>3. CASE Store!ListTenant(Store!Query)
  BY <1>1, <1>3 DEF Store!ListTenant
<1>4. CASE Store!ScanFile(Store!Query)
  BY <1>1, <1>4 DEF Store!ScanFile
<1>5. CASE Store!FinishWalk(Store!Query) \/ Store!WalkFails(Store!Query)
  BY <1>1, <1>5 DEF Store!FinishWalk, Store!WalkFails
<1>6. CASE Store!WalkMeetsError(Store!Query) \/ Store!QueryIsCancelled
  BY <1>1, <1>6 DEF Store!WalkMeetsError, Store!QueryIsCancelled
<1>7. CASE Store!Answered
  BY <1>1, <1>7 DEF Store!Answered
<1>. QED  BY <1>2, <1>3, <1>4, <1>5, <1>6, <1>7 DEF Store!Walking

LEMMA StreamKeepsFilter ==
  ASSUME ReadersInv, \/ Store!Walking(Store!Stream) \/ Store!Send \/ Store!NextPoll \/ Store!Cancel
                     \/ Store!Receive \/ Store!Restart
  PROVE  filter'[Store!Stream] = filter[Store!Stream]
<1>1. Store!Stream # Store!Query /\ Store!Stream \in Store!Readers /\ ReaderTypes
  BY DEF ReadersInv, Store!Readers, Store!Stream, Store!Query
<1>2. CASE Store!StartWalk(Store!Stream)
  <2>1. PICK f \in Store!Asked(Store!Stream) : filter' = [filter EXCEPT ![Store!Stream] = f]
    BY <1>2 DEF Store!StartWalk
  <2>2. f = filter[Store!Stream]
    BY <1>1, <2>1 DEF Store!Asked
  <2>. QED  BY <1>1, <2>1, <2>2 DEF ReaderTypes
<1>3. CASE \/ Store!ListTenant(Store!Stream) \/ Store!FinishWalk(Store!Stream)
           \/ Store!WalkFails(Store!Stream) \/ Store!WalkMeetsError(Store!Stream)
  BY <1>3 DEF Store!ListTenant, Store!FinishWalk, Store!WalkFails, Store!WalkMeetsError
<1>4. CASE Store!ScanFile(Store!Stream)
  BY <1>4 DEF Store!ScanFile
<1>5. CASE Store!Send \/ Store!NextPoll \/ Store!Cancel \/ Store!Receive
  BY <1>5 DEF Store!Send, Store!NextPoll, Store!Cancel, Store!Receive, Store!walks
<1>6. CASE Store!Restart
  BY <1>1, <1>6 DEF Store!Restart, ReaderTypes
<1>. QED  BY <1>2, <1>3, <1>4, <1>5, <1>6 DEF Store!Walking

LEMMA OrderKept ==
  ASSUME FilesInv, ReadersInv, OrderInv, [Store!Next]_(Store!vars)
  PROVE  OrderInv'
<1>. SUFFICES ASSUME InOrderAsked' PROVE StreamOrder'
  BY DEF OrderInv
<1>1. FilesWritten /\ Kept(file, file')
  BY FilesKept DEF FilesInv
<1>2. ASSUME filter'[Store!Stream] = filter[Store!Stream] PROVE InOrderAsked /\ StreamOrder
  BY <1>1, <1>2, AskedBack DEF OrderInv
<1>3. CASE \/ Store!Walking(Store!Stream) \/ Store!Send \/ Store!NextPoll \/ Store!Cancel
           \/ Store!Receive \/ Store!Restart
  <2>1. InOrderAsked /\ StreamOrder
    BY <1>2, <1>3, StreamKeepsFilter
  <2>. QED  BY <1>3, <2>1, WalkInOrder, SendInOrder, RestInOrder, ReceiveInOrder, RestartInOrder
<1>4. CASE Store!Walking(Store!Query) \/ Store!QueryIsCancelled \/ Store!Answered
  BY <1>2, <1>4, QueryLeavesStream, OrderSame
<1>5. CASE \/ \E e \in Events : Store!AppendStarts(e) \/ Store!AppendRefuses(e)
           \/ Store!AppendReturns \/ Store!AppendFails \/ Store!Close
  BY <1>2, <1>5, WritersLeaveReaders, OrderSame
<1>6. CASE UNCHANGED Store!vars
  <2>1. UNCHANGED <<filter, walk, days, found, lastSeen, channel, received>>
    BY <1>6 DEF Store!vars, Store!walks, Store!streaming
  <2>. QED  BY <1>2, <2>1, OrderSame
<1>7. \A r \in Store!Readers : r = Store!Query \/ r = Store!Stream
  BY DEF Store!Readers
<1>. QED  BY <1>3, <1>4, <1>5, <1>6, <1>7 DEF Store!Next, Store!Appending

LEMMA OrderInitially == Store!Init => OrderInv
<1>. SUFFICES ASSUME Store!Init PROVE StreamOrder
  BY DEF OrderInv
<1>1. found[Store!Stream] = <<>> /\ channel = <<>> /\ received = <<>>
  BY DEF Store!Init, Store!Readers
<1>. QED  BY <1>1, NothingInOrder DEF StreamOrder

\* A stream of one tenant's events that lie in each file in the order of their
\* times sends each of them once, in that order, whatever is appended to the other
\* files and whatever fails (jsonl.go:140-146).
THEOREM StreamsOnceInOrder == Store!Spec => []StreamOnceInOrder
<1>1. Store!Init => FilesInv /\ ReadersInv /\ OrderInv
  BY FilesInitially, ReadersInitially, OrderInitially
<1>2. FilesInv /\ ReadersInv /\ OrderInv /\ [Store!Next]_(Store!vars) => FilesInv' /\ ReadersInv' /\ OrderInv'
  BY FilesKept, ReadersKept, OrderKept
<1>3. OrderInv => StreamOnceInOrder
  BY DEF OrderInv, InOrderAsked, StreamOrder, OrderOf, InTime, StreamOnceInOrder, Store!StreamOnceInOrder
<1>. QED  BY <1>1, <1>2, <1>3, PTL DEF Store!Spec
=============================================================================
