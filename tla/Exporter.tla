------------------------------- MODULE Exporter -------------------------------
(***************************************************************************)
(* The exporter (cmd/exporter/main.go): a goroutine counts the lines and   *)
(* the findings of the findings directory into metrics, round after round, *)
(* while the analyzer appends and Prometheus scrapes.                      *)
(*                                                                         *)
(* A round is two walks over the directory.  The first counts lines by     *)
(* tenant in local maps and publishes them at its end, after having reset  *)
(* the gauges at its beginning; the second counts findings by label right  *)
(* in the counters, which it has reset.  A line that is being written is   *)
(* a line to the first and no finding to the second.                       *)
(***************************************************************************)
EXTENDS Naturals, Sequences, FiniteSets

CONSTANTS Files, Tenants, Labels,    \* a label: type, severity and detector
          TenantOf,       \* of a file: its directory, "_default" for none
          NoType,         \* what stands in a finding without a type
          MaxLines, MaxFaults, MaxScrapes    \* bounds

\* What the constants are, assumed by the module that gives them values.
ExporterAssumption ==
  /\ TenantOf \in [Files -> Tenants] /\ NoType \notin Labels
  /\ MaxLines \in Nat /\ MaxFaults \in Nat /\ MaxScrapes \in Nat

VARIABLES
  lines,        \* file -> its lines; the files there are its domain
  process,      \* "up", "stopping" or "exited"
  pc,           \* "store", "count", "findings", "scan" or "idle"
  todo,         \* files the walk has still to visit
  counted,      \* lines counted by tenant, in this walk
  metrics,      \* findings, stored: what a scrape sees
  atStart,      \* history: the lines when this round began
  clean,        \* history: nothing failed in this round
  scraped,      \* history: the findings of the last scrape
  scrapes, faults

directory == lines
round == <<pc, todo, counted, atStart, clean>>
vars == <<directory, process, round, metrics, scraped, scrapes, faults>>

\* Counts by label or tenant; a metric that was not set is not there.
None == [x \in {} |-> 0]
At(f, x) == IF x \in DOMAIN f THEN f[x] ELSE 0
Plus(f, x, n) == [y \in DOMAIN f \cup {x} |-> At(f, y) + (IF y = x THEN n ELSE 0)]

Init ==
  /\ lines = None /\ process = "up"
  /\ pc = "store" /\ todo = {} /\ counted = None
  /\ metrics = [findings |-> None, stored |-> None]
  /\ atStart = None /\ clean = TRUE
  /\ scraped = None /\ scrapes = 0 /\ faults = 0

-----------------------------------------------------------------------------
(***************************************************************************)
(* The analyzer: a line appears in two parts.                              *)
(***************************************************************************)
\* The places of the lines: a file and a number.
Places(ls) == UNION {{f} \X DOMAIN ls[f] : f \in DOMAIN ls}
BeingWritten(f) == f \in DOMAIN lines /\ \E i \in DOMAIN lines[f] : ~lines[f][i].whole

AppendPart(f, l) ==
  /\ Cardinality(Places(lines)) < MaxLines /\ ~BeingWritten(f)
  /\ lines' = [g \in DOMAIN lines \cup {f} |->
                 (IF g \in DOMAIN lines THEN lines[g] ELSE <<>>) \o
                 (IF g = f THEN <<[label |-> l, whole |-> FALSE]>> ELSE <<>>)]
  /\ UNCHANGED <<process, round, metrics, scraped, scrapes, faults>>

AppendRest(f) ==
  /\ BeingWritten(f)
  /\ lines' = [lines EXCEPT ![f][Len(lines[f])].whole = TRUE]
  /\ UNCHANGED <<process, round, metrics, scraped, scrapes, faults>>

-----------------------------------------------------------------------------
(***************************************************************************)
(* collectStoreMetrics.                                                    *)
(***************************************************************************)
Collecting == process # "exited"
Fault == faults < MaxFaults /\ faults' = faults + 1

\* Faulty variant: the local maps outlive the round.
OpenStoreKeeps ==
  /\ Collecting /\ pc = "store"
  /\ pc' = "count" /\ todo' = DOMAIN lines
  /\ metrics' = [metrics EXCEPT !.stored = None]
  /\ atStart' = lines /\ clean' = TRUE
  /\ UNCHANGED <<directory, process, counted, scraped, scrapes, faults>>

OpenStore ==
  /\ Collecting /\ pc = "store"
  /\ pc' = "count" /\ todo' = DOMAIN lines /\ counted' = None
  /\ metrics' = [metrics EXCEPT !.stored = None]
  /\ atStart' = lines /\ clean' = TRUE
  /\ UNCHANGED <<directory, process, scraped, scrapes, faults>>

\* What was published before stays.
OpenStoreFails ==
  /\ Collecting /\ pc = "store" /\ Fault
  /\ pc' = "findings" /\ atStart' = lines /\ clean' = FALSE
  /\ UNCHANGED <<directory, process, todo, counted, metrics, scraped, scrapes>>

\* countLines
CountLines(f) ==
  /\ Collecting /\ pc = "count" /\ f \in todo
  /\ counted' = Plus(counted, TenantOf[f], Len(lines[f]))
  /\ todo' = todo \ {f}
  /\ UNCHANGED <<directory, process, pc, metrics, atStart, clean, scraped, scrapes, faults>>

\* The file cannot be read to its end: it is left out.
CountLinesFails(f) ==
  /\ Collecting /\ pc = "count" /\ f \in todo /\ Fault
  /\ todo' = todo \ {f} /\ clean' = FALSE
  /\ UNCHANGED <<directory, process, pc, counted, metrics, atStart, scraped, scrapes>>

Publish ==
  /\ Collecting /\ pc = "count" /\ todo = {}
  /\ metrics' = [metrics EXCEPT !.stored = counted]
  /\ pc' = "findings"
  /\ UNCHANGED <<directory, process, todo, counted, atStart, clean, scraped, scrapes, faults>>

-----------------------------------------------------------------------------
(***************************************************************************)
(* collectFindingsMetrics.                                                 *)
(***************************************************************************)
OpenFindings ==
  /\ Collecting /\ pc = "findings"
  /\ metrics' = [metrics EXCEPT !.findings = None]
  /\ pc' = "scan" /\ todo' = DOMAIN lines
  /\ UNCHANGED <<directory, process, counted, atStart, clean, scraped, scrapes, faults>>

\* Faulty variant: the goroutine returns.
OpenFindingsGivesUp ==
  /\ Collecting /\ pc = "findings" /\ Fault
  /\ metrics' = [metrics EXCEPT !.findings = None]
  /\ pc' = "ended" /\ clean' = FALSE
  /\ UNCHANGED <<directory, process, todo, counted, atStart, scraped, scrapes>>

\* The counters have been reset already.
OpenFindingsFails ==
  /\ Collecting /\ pc = "findings" /\ Fault
  /\ metrics' = [metrics EXCEPT !.findings = None]
  /\ pc' = "idle" /\ clean' = FALSE
  /\ UNCHANGED <<directory, process, todo, counted, atStart, scraped, scrapes>>

\* The findings among the first n lines of a file.
Labelled(ls, n) == {i \in 1..n : ls[i].whole /\ ls[i].label # NoType}
Found(ls, n) ==
  [l \in {ls[i].label : i \in Labelled(ls, n)} |-> Cardinality({i \in Labelled(ls, n) : ls[i].label = l})]

Sum(f, g) == [x \in DOMAIN f \cup DOMAIN g |-> At(f, x) + At(g, x)]

ScanFindings(f) ==
  /\ Collecting /\ pc = "scan" /\ f \in todo
  /\ metrics' = [metrics EXCEPT !.findings = Sum(@, Found(lines[f], Len(lines[f])))]
  /\ todo' = todo \ {f}
  /\ UNCHANGED <<directory, process, pc, counted, atStart, clean, scraped, scrapes, faults>>

\* A line that is too long, or an error of the disk: the lines before count.
ScanFindingsFails(f) ==
  /\ Collecting /\ pc = "scan" /\ f \in todo /\ Fault
  /\ \E n \in 0..Len(lines[f]) :
       metrics' = [metrics EXCEPT !.findings = Sum(@, Found(lines[f], n))]
  /\ todo' = todo \ {f} /\ clean' = FALSE
  /\ UNCHANGED <<directory, process, pc, counted, atStart, scraped, scrapes>>

EndRound ==
  /\ Collecting /\ pc = "scan" /\ todo = {}
  /\ pc' = "idle"
  /\ UNCHANGED <<directory, process, todo, counted, metrics, atStart, clean, scraped, scrapes, faults>>

\* A directory cannot be listed: the walk ends there, the round goes on.
WalkFails ==
  /\ Collecting /\ pc \in {"count", "scan"} /\ todo # {} /\ Fault
  /\ todo' = {} /\ clean' = FALSE
  /\ UNCHANGED <<directory, process, pc, counted, metrics, atStart, scraped, scrapes>>

\* The ticker of collectLoop.
NextRound ==
  /\ Collecting /\ pc = "idle"
  /\ pc' = "store"
  /\ UNCHANGED <<directory, process, todo, counted, metrics, atStart, clean, scraped, scrapes, faults>>

-----------------------------------------------------------------------------
\* The handler of /metrics; srv.Shutdown lets it finish, and no new one begin.
Scrape ==
  /\ process = "up" /\ scrapes < MaxScrapes
  /\ scraped' = metrics.findings /\ scrapes' = scrapes + 1
  /\ UNCHANGED <<directory, process, round, metrics, faults>>

Signal ==
  /\ process = "up" /\ process' = "stopping"
  /\ UNCHANGED <<directory, round, metrics, scraped, scrapes, faults>>

\* run returns: after Shutdown, which waits no longer than its timeout, or with
\* the error of the listener or of the TLS configuration.  The goroutine that
\* collects ends wherever it is.
Exit ==
  /\ process = "stopping" \/ (process = "up" /\ faults < MaxFaults)
  /\ process' = "exited"
  /\ faults' = IF process = "up" THEN faults + 1 ELSE faults
  /\ UNCHANGED <<directory, round, metrics, scraped, scrapes>>

Rest == process = "exited" /\ UNCHANGED vars

Collector ==
  \/ OpenStore \/ OpenStoreFails \/ Publish
  \/ OpenFindings \/ OpenFindingsFails \/ EndRound \/ WalkFails \/ NextRound
  \/ \E f \in Files : CountLines(f) \/ CountLinesFails(f) \/ ScanFindings(f) \/ ScanFindingsFails(f)

Next ==
  \/ \E f \in Files : AppendRest(f) \/ \E l \in Labels \cup {NoType} : AppendPart(f, l)
  \/ Collector \/ Scrape \/ Signal \/ Exit \/ Rest

Spec == Init /\ [][Next]_vars

\* The collecting goroutine runs.
FairSpec == Spec /\ WF_vars(Collector)

-----------------------------------------------------------------------------
Counts(S) == UNION {[D -> 0..MaxLines] : D \in SUBSET S}

TypeOK ==
  /\ DOMAIN lines \subseteq Files
  /\ \A f \in DOMAIN lines : lines[f] \in Seq([label : Labels \cup {NoType}, whole : BOOLEAN])
  /\ process \in {"up", "stopping", "exited"}
  /\ pc \in {"store", "count", "findings", "scan", "idle"} /\ todo \subseteq DOMAIN lines
  /\ counted \in Counts(Tenants)
  /\ metrics.findings \in Counts(Labels) /\ metrics.stored \in Counts(Tenants)
  /\ scraped \in Counts(Labels) /\ clean \in BOOLEAN
  /\ scrapes \in 0..MaxScrapes /\ faults \in 0..MaxFaults

\* The findings of a label in the directory, and the lines of a tenant.
FindingAt(ls, p, l) == ls[p[1]][p[2]].whole /\ ls[p[1]][p[2]].label = l
InAll(ls, l) == Cardinality({p \in Places(ls) : FindingAt(ls, p, l)})
LinesOf(ls, t) == Cardinality({p \in Places(ls) : TenantOf[p[1]] = t})

\* A scrape never shows more findings than there are, whatever round it falls
\* in (main.go:244-302).
NeverTooMany == \A l \in Labels : At(metrics.findings, l) <= InAll(lines, l)

\* At the end of a round in which nothing failed, the metrics are what the
\* directory held at some time of the round: not less than at its beginning,
\* not more than now (main.go:244-351).
RoundIsTrue ==
  (pc = "idle" /\ clean) =>
    /\ \A l \in Labels :
         /\ InAll(atStart, l) <= At(metrics.findings, l)
         /\ At(metrics.findings, l) <= InAll(lines, l)
    /\ \A t \in Tenants :
         /\ LinesOf(atStart, t) <= At(metrics.stored, t)
         /\ At(metrics.stored, t) <= LinesOf(lines, t)

\* Every finding is shown in the end, in a round without a failure, unless the
\* exporter ends (main.go:223-240).
ShownInTheEnd ==
  \A l \in Labels : \A n \in 1..MaxLines :
    InAll(lines, l) >= n ~> (At(metrics.findings, l) >= n \/ process = "exited")

\* A counter only grows, and no finding is ever removed: a scrape shows no less
\* than the one before (main.go:241-245, collector.go:58-62).
CounterOnlyGrows ==
  [][scrapes' # scrapes => \A l \in DOMAIN scraped : scraped[l] <= At(scraped', l)]_vars
=============================================================================
