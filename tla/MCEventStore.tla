----------------------------- MODULE MCEventStore -----------------------------
(***************************************************************************)
(* StoreClients for TLC, in one of two uses:                               *)
(*   "query"     everything is asked for while the disk fails, the service *)
(*               restarts, an event cannot be encoded, a line is too long; *)
(*               or with bounds of time and a limit while nothing fails;   *)
(*   "stream"    a stream of one tenant's events, appended in the order of *)
(*               their times.                                              *)
(*                                                                         *)
(* Of the first tenant are e2, whose line is too long, and e6, which       *)
(* cannot be encoded; of the second the others, e5 on a day of its own:    *)
(* the three lines of the other day let a whole line follow a broken one.  *)
(***************************************************************************)
EXTENDS StoreClients, Naturals, TLC

CONSTANTS e1, e2, e3, e4, e5, e6

VARIABLE use
vars == <<use, storeVars>>

MCEvents == {e1, e2, e3, e4, e5, e6}
MCTenant == e1 :> 2 @@ e2 :> 1 @@ e3 :> 2 @@ e4 :> 2 @@ e5 :> 2 @@ e6 :> 1
MCTime == e1 :> 2 @@ e2 :> 3 @@ e3 :> 3 @@ e4 :> 4 @@ e5 :> 6 @@ e6 :> 6

Bounded == [selected |-> MCEvents, after |-> 2, until |-> 6, limit |-> 1]
OneTenants == [selected |-> {e1, e4, e5}, after |-> 0, until |-> 0, limit |-> 0]
Everything == [selected |-> MCEvents, after |-> 0, until |-> 0, limit |-> 0]
MCFilters == {Everything, Bounded, OneTenants}

Query == Store!Query
Stream == Store!Stream

Init ==
  /\ use \in {"query", "stream"} /\ Store!Init
  /\ filter[Stream] = IF use = "stream" THEN OneTenants ELSE Everything

\* Nobody streams.  Who asks with bounds and a limit, or meets the other day, does
\* so while nothing fails.
Plain == filter'[Query] = Bounded \/ e5 \in {writing'} \cup appended' \cup refused'
QueryMoves ==
  /\ use = "query" /\ Store!Next /\ walk'[Stream] = "off" /\ UNCHANGED use
  /\ filter'[Query] \in {Everything, Bounded}
  /\ Plain => diskErrors' = 0 /\ storeStarts' = 0 /\ ({writing'} \cup appended' \cup refused') \cap {e3, e6} = {}

\* Nobody queries, and events arrive in the order of their times.
InOrder ==
  /\ ({writing'} \cup refused') \cap {e2, e6} = {}
  /\ writing' \notin {Store!Nothing, writing} =>
       \A e \in appended \cup refused : EventTime[e] < EventTime[writing']
  /\ diskErrors' <= 1 /\ storeStarts' <= 1

OfStream(A) == use = "stream" /\ A /\ UNCHANGED use
StreamMoves == OfStream(Store!Next /\ walk'[Query] = "off" /\ InOrder)

\* The behaviour may stop when the stream was cancelled.
Finished == use = "stream" /\ walk[Stream] = "ended" /\ UNCHANGED vars

Next == QueryMoves \/ StreamMoves \/ Finished

\* The fairness of EventStore.
Spec ==
  /\ Init /\ [][Next]_vars
  /\ WF_vars(OfStream(Store!Walking(Stream) \/ Store!Send \/ Store!NextPoll))
  /\ WF_vars(OfStream(Store!AppendReturns)) /\ WF_vars(OfStream(Store!Receive))

-----------------------------------------------------------------------------
\* Every event of one tenant that is appended in the order of its time and
\* matches comes through a stream, unless it is cancelled or the store closed or
\* restarted (store.go:25-27, jsonl.go:110-150).
StreamDelivers == use = "stream" => \A e \in OneTenants.selected : Store!StreamDelivers(e)
=============================================================================
