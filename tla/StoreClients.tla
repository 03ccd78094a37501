----------------------------- MODULE StoreClients -----------------------------
(***************************************************************************)
(* The event store (EventStore) with those that append to it, query it and *)
(* follow it, and what they may rely on.                                   *)
(***************************************************************************)
CONSTANTS
  Events, EventTenant, EventTime, DayLength, Unencodable, Oversized, Filters,
  ChannelSize, MaxDiskErrors, MaxStoreStarts

VARIABLES
  file, writing, joins, stuck, storeClosed, filter, walk, tenants, days, found,
  lastSeen, channel, appended, refused, before, received, diskErrors, storeStarts

Store == INSTANCE EventStore WITH
  TenantOf <- EventTenant, TimeOf <- EventTime, MaxFaults <- MaxDiskErrors,
  MaxRestarts <- MaxStoreStarts, closed <- storeClosed, phase <- walk,
  faults <- diskErrors, restarts <- storeStarts

storeVars ==
  <<file, writing, joins, stuck, storeClosed, filter, walk, tenants, days, found,
    before, lastSeen, channel, received, appended, refused, diskErrors, storeStarts>>

ASSUME StoreOk == Store!StoreAssumption

-----------------------------------------------------------------------------
\* Until a restart every event whose key was returned keeps its line whole, also
\* after the disk failed in the middle of another; a restart spoils the line of
\* at most one event of a file (jsonl.go:46-75, 195-204).
StoredIsIntact == Store!StoredIsIntact /\ Store!OneLossPerRestart

\* While events are appended, the disk fails and the service restarts, a query
\* that succeeds finds every intact event that was appended before it began and
\* matches, once, and nothing else; with a limit no more than that
\* (jsonl.go:79-108, 206-266).
QueryComplete == Store!QueryComplete

\* A stream of one tenant's events that lie in each file in the order of their
\* times sends each of them once, in that order (jsonl.go:140-146).
StreamOnceInOrder == Store!StreamOnceInOrder
=============================================================================
