# Agent Transponder in TLA+

A verification development of the parts of Agent Transponder that carry its own
logic: what is written, in which order, what survives a failure or a restart,
and what a reader concludes from it. The modules are translated from the Go and
Python sources; TLC checks them on small instances and TLAPS proves the
statements that matter most for every value of the constants.

## 1. The system

    agent + SDK --gRPC/mTLS--> ingester --+--> event files  (JSONL, per tenant and day) --poll--> analyzer --> findings files --> exporter
       queue,                 pipeline    +--> audit log    (hash chain)                          detectors                       /metrics
       sender thread                      +--> forwarder --gRPC--> analysis engine

| Component (source) | State | Operations | Talks to | What is hard | What makes it correct |
|---|---|---|---|---|---|
| Audit log (`internal/audit/hashchain.go`) | open file, buffered writer, `previousHash`, `seq` | `Log`, `Verify`, `LatestCheckpoint`, `Close`, resume at start | called by every handler; an auditor runs `Verify` | buffer, flush and fsync fail one by one; torn tail; restart resumes from the file; edits at rest; readers without the mutex | no entry is lost in silence; crashes never look like tampering; tampering never becomes invisible |
| Event store (`internal/eventstore/jsonl.go`) | one buffered writer per tenant and day | `Append`, `Query`, `Stream`, `Close` | handlers; the analyzer reads its files | sticky write errors, torn lines, walks without the mutex, a tail loop by timestamp | an acknowledged event keeps its line until a restart; a query that succeeds misses nothing; a stream neither repeats nor skips |
| Analyzer (`internal/analyzer`, `cmd/analyzer/main.go`) | cursor in memory and on disk, detector memory, findings file; loop goroutine and health server | `poll`, `Run`, start, shutdown | reads what the ingester is writing; service manager | torn lines, failed writes, restart between finding and cursor, a stop in the middle of a poll | no event skipped, no finding lost or invented, replays bounded, a stop ends it |
| Detectors (`internal/analyzer/detectors`) | per-session histories, what was already reported | `Analyze` | called by the analyzer | windows, suppression of repeats, restarts | a finding iff the reference detector has it, once |
| Key manager (`internal/keymanager`) | KEK, DEKs in memory, wrapped DEKs on disk | `GenerateDEK`, `GetDEK`, `ShredDEK`, `RotateKEK`, `Close` | store file, `AT_KEK` of the environment | failed saves, partial rotation, restart, callers that hold the manager's own object | a key is found until it is shredded and never afterwards |
| Forwarder (`cmd/ingestion/analysis.go`) | bounded channel, batch, circuit breaker | `Submit`, batcher, `flush`, `Stop` | handlers, analysis engine | concurrency, drain at stop, timeouts | no waiting handler, no vanished event, order per session, breaker respected |
| Policy engine (`internal/policy/config.go`) | rules, one token bucket per agent | `Evaluate`, `Reload` | every handler | a map written under a read lock, refill arithmetic, reload | no more calls allowed than rate and burst say, under the rules in force |
| Pipeline and lifecycle (`cmd/ingestion/pipeline.go`, `main.go`) | the order of the steps; what is open | `IngestEvent`, `IngestEventStream`, start, shutdown | all of the above | handlers against shutdown, one step of several failing, streams that nobody ends | an acknowledged event has its line in the store, and its audit entry unless the audit write failed; a restart costs a file at most one line |
| Python SDK (`sdk/agent_transponder`) | bounded queue, sender thread, closed flag | `_enqueue`, `flush`, `close`, retries | ingester | enqueue against close, a full queue at stop, retried calls | nothing blocks for ever, what was enqueued before close is tried |
| Signatures (`hmac.py`, `events.py`, `internal/types/event.go`) | none | canonical form and HMAC in two languages | SDK and ingester | numbers, escapes, optional fields | both sides build the same bytes |
| Identity and tenants (`internal/identity`, `types/tenant.go`) | keys of the agents | `Identify`, key lookup, `ValidateTenantID` | pipeline | which name of a certificate counts, and when it replaces the client's | an event is stored under its sender's identity |
| Redaction (`internal/redaction`) | patterns | `Redact` | pipeline | patterns over raw JSON | nothing a pattern matches is stored; an event is lost only to a match that breaks its JSON |
| Exporter (`cmd/exporter/main.go`) | counters and gauges | reset and recount | findings files, Prometheus | scrapes between reset and recount | metrics match the files |
| Metrics collector, generated code, `cmd/hmaccheck`, deployment | | | | | not modelled |

`PROJECT.json` lists the components with their status and, under `hazards`, each
thing that is hard to test here at the line where it bites, with the properties
that cover it.

## 2. The modules

| Module | Models | How state and actions correspond to the code |
|---|---|---|
| `HashChain` | the chain as data: entries, hashes, `Verify`, `resumeChain` | A hash is the term of number, link and the text that is hashed, so equal hashes mean equal texts. `rest` is what that text does not tell: source address, correlation id, labels, and where one field ends, for the fields are joined by a bar that they may hold. A line that cannot be parsed is `Corrupt`. No state, no recursion. |
| `AuditTrail` | what an audit log promises | `lines` and the number `stable` that a crash cannot take back. A step extends the file, spoils a line by writing behind a torn tail, cuts unstable lines, or makes lines stable. |
| `AuditSink` | `HashChainSink` | `pc` walks through `Log`: `LogBuffer` (encode into the 4 KB buffer; `seq` and `previousHash` have moved already), `Flush`/`FlushFails`, `Sync`/`SyncFails`. `LogRejected` is a call after a flush error, which the buffered writer never forgets. `ProcessDies`, `PowerLoss` and `Restart` (`resumeChain`) are the environment. |
| `AuditTamper` | somebody who edits the file at rest, and the sink that goes on | an edit of one line, of what is hashed or of the rest (`EditRest`), then any number of `Log` calls and restarts, then `Verify` |
| `AuditReaders` | `Verify` line by line while `Log` writes, and `resumeChain` | both scan with a buffer of 256 KB; an entry may be longer, and a line is written in two parts, between which a reader may come |
| `Analyzer` | `poll` against the ingester's `Append` | A file is a sequence of units, two per line, so that a poll can meet half a line and an offset can stand in the middle of one. One action per outcome of `poll`'s loop body: nothing new, read failed, read and detect, encode one finding, write failed, cursor set; then save or failed save. `ReadAndDetect` and `SetCursor` are two steps, so the ingester and a crash come between them. The detector is the retry storm of `ToolMisuseDetector`. |
| `AnalyzerMain` | `cmd/analyzer/main.go` and `Analyzer.Run` | the polling goroutine, the health server, the error channel, the signal, the wait for the goroutine, the exit status, the death of the process (`Die`) and the service manager (`Restart=on-failure`). A file of a poll may fail with some of its findings written (`PollFileFails`), and the save may fail (`PollSaveFails`), after which the loop goes on. A file is a number of events, since `Analyzer` has the inside of a poll. |
| `LoopDetector`, `DriftDetector`, `ToolMisuse` | the three detectors | one action per event. Each also has the reference detector as a definition, which sees the whole session at once: the Python original of the first two, the documented condition for the third. The search for loops is the code's two loops over lengths and positions, as functions defined by recursion; the sets hold what was found and reported. |
| `KeyManager` | `LocalManager` | every operation is one step, since each holds the lock and the file is replaced by a rename; a save that fails is a step of its own. A wrapped key is the pair of the key and the KEK that seals it. `RotateKEK` handles the DEKs in the order of a Go map, that is any order: `RewrappedSets` are the sets it can have handled when it stops. |
| `KeyHandles` | the DEK object that `GetDEK` returns | two `GetDEK` set the slice (address, length) under the read lock, `ShredDEK` and `Close` zero it half by half, a user encrypts with what it sees; `Close` leaves the DEK in the map, zeroed |
| `Forwarder` | `AnalysisForwarder` | `Submit` and `Stop` run at any time. `pc` walks the batcher through its select, a flush, the calls of that flush one by one, and the drain after `Stop`. The cooldown is a flag that time clears. |
| `Ingestion` | the life of the process, `IngestEvent`, the agents' calls | `phase` and `open` are `run`, `initSubsystems` and `close`; a handler's `step` is a stage of the pipeline; a client calls, is answered, times out, retries. A subsystem is what a handler sees of it: a call succeeds, fails, or comes after the close. Of each file of the store and of the audit log the model has the end: `torn` when it is a part of a line, `stuck` when its writer has failed, and `joined`, the events whose line was written behind a part and confirmed. |
| `Delivery` | what the service promises an agent | an event is acknowledged only when the store took it, the store keeps what it holds, what a client was told is final; a file that ends in a part of a line (`Tear`) swallows the next event, which is acknowledged and not held (`Swallow`) |
| `IngestStream` | `IngestEventStream` and `GracefulStop` | a client sends, closes or cancels at any time; the handler receives, ingests, counts and answers; a message may be unreceivable |
| `PolicyEngine` | `ConfigEngine` | `Evaluate` in steps: find the bucket, make one, take a token. `ConcurrentMapWrite` is the outcome the Go runtime may give to the race of `getBucket`. Tokens are counted in parts, so that a tick adds less than a token; a tick stands for the nanosecond of `time.Duration`, and `retryAfter` is cut down to whole ticks as `config.go:187` cuts it down. |
| `EventStore` | `JSONLStore` | `Append` in its steps with the errors of disk and encoding; a walk lists a tenant, scans a file at a time, and looks for what its caller's `filter` lets through: ids and types as the set of events they select, bounds of time, a limit; a walk may fail at any listing, open or read (`WalkMeetsError`), or be cancelled between two lines (`QueryIsCancelled`); `Stream` is a walk repeated with the time of the last event sent as its lower bound, behind a channel. A line is whole, a part, or spoilt by what was appended to it. |
| `StoreClients` | the store with those who append, query and follow | declares the constants and variables of one `EventStore` and states what its clients rely on; `MCEventStore` checks it and `Processes_proofs` proves it |
| `SdkSender` | queue, sender thread, `flush`, `close` | `_ensure_connected` may raise and end the thread; `close` puts the mark and joins with a timeout |
| `EventCodec` | one event across both languages | canonical JSON is the set of `<<name, value as written>>`; texts are the classes the two encoders write differently, an object has a number, a text, both or neither. A number is its digits, the power of ten of the first one and whether Python knows it as an int; it is a double from the message on, with the fewest digits that tell it from other doubles. A timestamp is in UTC or has an offset, which the message does not carry. `Change` is an application that goes on using an event it has recorded, `Damage` a field that arrives with another value. |
| `Redaction` | `Redact` and the store's encoding of its result | a text is a sequence of words and blanks, arguments are the tokens of their raw JSON, strings and bare numbers; a greedy pattern goes on to the next blank, and an escape before a word is a letter to a pattern, which misses the word or takes the letter; of a match the marker is left at its first word, and the other places hold nothing |
| `Exporter` | the collector loop against the analyzer and scrapes | one action per file opened, line counted, metric reset or published |
| `Detectors`, `Processes`, `EventPath` | `LoopDetector` (with and without a window), `DriftDetector` and `ToolMisuse`; `IngestStream`, `AnalyzerMain` and `Exporter`; `SdkSender`, `EventCodec` and `Redaction` | compositions of components that share no state: one behaviour is that of one of them, its `subject` (section 3) |
| `MC...` | instances for TLC | see section 3 |
| `AuditSink_proofs`, `KeyManager_proofs`, `PolicyEngine_proofs`, `Ingestion_proofs`, `Forwarder_proofs`, `Analyzer_proofs`, `Processes_proofs`, `EventPath_proofs` | theorems | each extends the module of its component; for the audit log and the key manager that is the `MC` module, which declares the instances of `AuditTamper`, `AuditReaders` and `KeyHandles`; `Analyzer_proofs` is about `Analyzer` and `Detectors`, `Processes_proofs` about `Processes` and `StoreClients` (see section 5) |

Definitions marked "Faulty variant" are what a plausible mistake in the code
would make of the definition after them. They are used by nothing in the
specification; substituting one must make the property that `PROJECT.json`
names under `mutants` fail.

## 3. What the runs check

Components that share no state are checked by one run each in which a variable
`subject`, chosen in the initial state, says whose behaviour this is; the others
stay as they start. The states of the components add up and do not multiply, and
nothing is lost, because no action of one reads a variable of another. What the
components do to each other is inside the modules: `Ingestion` has store, audit
log, policy and forwarder as its handlers meet them, `Analyzer` has the store's
writer, `IngestStream` and `AnalyzerMain` the process around the call or the poll.

| Run | Instance and bounds | What it shows |
|---|---|---|
| `audit` (`MCAudit`) | sink: 5 calls of `Log`, 3 restarts; edited file: 4 calls, 2 restarts, one edit; readers: 4 calls, 3 starts, entries of either length | Through failed flushes and syncs, process deaths, power losses and restarts, readable neighbours are linked, `Verify` raises no alarm over a file of whole lines, an intact chain holds everything acknowledged, at most one acknowledged entry per restart becomes unreadable, and the sink implements `AuditTrail`. `VerifyTellsTheTruth`: an edit of what is hashed stays visible whatever is logged later and no entry before it is blamed; an edit of the rest is never seen; `Verify` beside `Log` blames no whole entry and says "intact" only when it has read all. Five calls allow an entry before, in and after each of three torn tails. |
| `analyzer` (`MCAnalyzer`) | 4 events, 2 keys, 2 files, 1 restart, 1 fault | No saved cursor has an unread whole line behind it, findings are repeated by restarts only, every storm found is real and every real storm is found when nothing failed, and every event on a line of its own is read in the end. Three calls of one key over two files give storms within and across files; the fourth, of another key, would be a false storm if it were counted twice. |
| `detectors` (`MCDetectors`) | loop: 8 calls of 3 tools without a window, 6 calls of 2 tools with a window of 3; drift: 2 sessions, 5 prompts, 1 restart; misuse: 4 calls, 2 tools, 2 arguments in 2 spellings, 1 restart | Fed event by event, each detector reports what its reference finds, once. Eight calls hold a loop within a loop and one after another; five prompts in two sessions interleave and bring a session over its minimum of three after a restart. |
| `keymanager` (`MCKeys`) | 2 buckets, 3 keys, 2 rotations, 2 restarts, 1 failed save; one DEK with 3 users | Keys are found until shredded and not afterwards, apart from the causes named in the properties; what a caller holds is the whole key until it is shredded or the manager is closed, or no key at all when two `GetDEK` race. Two buckets let a rotation stop between two DEKs; three users are two that race and one that holds the key. |
| `forwarder` (`MCForwarder`) | 3 events in 2 sessions, channel 2, batch 2, threshold 2 | Nothing vanishes, sessions stay in order, the breaker holds, `Stop` drains and returns. Three events fill the channel and overflow it, make a full and a partial batch and a final batch above the batch size. |
| `ingestion` (`MCIngestion`) | clients with 2 and 1 events; four uses: two handlers with faults, two handlers with a retry, one handler with refusals, one handler with a restart; one file of the store | What is acknowledged has its line in the store, its audit entry unless the disk refused it, and was forwarded; refusals are audited; of these lines a restart makes one of a file unreadable at most, the first behind a torn one; a handler meets a closed subsystem only after an error exit; subsystems close in reverse order; only a lost call makes the store repeat or reorder; the service implements `Delivery`; every event is settled and a signal ends the process. Two handlers are a call and the retry, or the next event, that overtakes it. |
| `policy` (`MCPolicyEngine`) | 3 agents, 2 rule files, 2 concurrent calls, 4 calls, 4 ticks, quarters of a token, rates of 2 and 3 quarters a tick | A bucket stays within burst and rate, the wait it announces is enough when the time of a token is a whole number of ticks and one tick short otherwise, a call never takes a token under replaced rules. At rate 3 the announced wait is cut down, at rate 2 it is not; the bursts are used up and refilled within four ticks. |
| `store` (`MCEventStore`) | 6 events of 2 tenants over 2 days, one too long for a scan, one that cannot be encoded; a query for everything with 2 faults and 2 restarts, one with limit 1 and bounds of time while nothing fails; a stream of one tenant with 1 fault and 1 restart, a line it does not ask for in between, channel of 1 | What `Append` confirmed has a whole line of its own until a restart, with one loss per restart and file at most; a query that succeeds finds every such line there was before it began; disk errors hit appends and walks alike; a stream over one tenant, appended in the order of times, sends each event once and misses none. Three lines in a file put a readable line behind a broken one. |
| `events` (`MCEvents`) | SDK: 3 events, queue 2, 1 retry; codec: every shape of an event over 3 classes of texts, 10 tool calls, types, severities, UTC or an offset, 7 certificates, one fault; redaction: texts and string values of 2 words of 4 kinds apart by a blank or an escape, and numbers of 2 kinds | The sender keeps order and settles every event, and `close` returns if the thread lives; a signature is accepted iff both languages write the event alike and sender and key are right; what is stored and analysed is what was signed; redaction leaves nothing that a pattern matches and loses an event only to a match of a number, of the letter of an escape, or through the end of a value. The tool calls have numbers on both sides of each point where a notation changes, ints beyond a double, and texts inside objects; of the patterns one also matches a kind of numbers, one is greedy, one takes the letter of an escape and one does not compile. |
| `processes` (`MCProcesses`) | 2 streams of 3 and 2 messages, one unreceivable; analyzer process: 2 files, 2 events, 2 starts, 1 failed write of findings or cursor, deaths; exporter: 2 files of 2 tenants, 2 lines, 1 fault, 1 scrape | The streaming call's counts are true; wherever the analyzer process stops or dies, nothing is passed over and nothing is reported twice but what it could not save the position of; metrics are true of a time within their round; each comes to its end. |

Runs that find a disagreement between the code and what the repository says:

| Run | Disagreement |
|---|---|
| `audit_gaps` | `sink.go:55-56` promises no gaps; the first entry after a torn tail is appended to the torn bytes and is unreadable, although `Log` returned nil. |
| `analyzer_torn_line` | `analyzer.go:206-208` says the offset is that after the last complete line; it counts an unfinished last line, which is then never analysed. |

Deadlock is checked except in the audit and key manager runs, whose bounded
counters let the system run out of calls; where a system may rest for good, its
module says so by a stuttering action (`Rest`, `Finished`, `Done`).

The modules that model a running component have a type invariant `TypeOK`. Those
of `AuditSink`, `KeyManager`, `PolicyEngine`, `Ingestion`, `Forwarder`, `Analyzer`,
`SdkSender` and `EventStore` are theorems; the others hold on the instances above and say too
little to be checked on every run.

### Statements of the repository that the code does not keep

Each is written down as a definition in its module. The two that have a run are
above; the codec's four are shown by `AcceptedIffPortable`, which says exactly
which events are accepted, and that of the share of failures by `MisuseFaithful`. The others fail on the constants named here when the
definition is added to a configuration of the module; no run repeats that.

| Definition | The statement, and what the code does | Fails with |
|---|---|---|
| `AuditSink!CheckpointIsHead` | `hashchain.go:155` "returns the current chain head"; `seq` and `previousHash` move before the write (`:68`), so after a failed write it is the hash of an entry that is in no file. | 3 calls, 1 restart |
| `AuditTamper!EveryEditIsSeen` | `sink.go:63-65` "checks the integrity of the audit chain"; the hash covers what the comment of `computeHash` lists (`hashchain.go:170-171`) and not the source address, correlation id and labels of an entry (`sink.go:44-46`), and a bar in a field can be moved to the next (`:175`). | 4 calls, one edit |
| `AuditReaders!StartResumes` | `hashchain.go:33` "If the file exists, it resumes from the last entry"; one entry above 256 KB, which `Log` confirms, makes every later start fail (`:220`). | 4 calls, `MayBeLong` |
| `AuditReaders!NoAlarmWhileLogging` | `sink.go:55` "safe for concurrent use"; `Verify` has no mutex (`:104`) and reports the line `Log` is writing as a broken link. | 4 calls, no long entry |
| `Analyzer!FindingsAreReal` | `toolmisuse.go:48-49` promises "more than maxConsecutiveFailures"; when `writeFindings` fails (`analyzer.go:148`) the events are fed to the detectors again, and one failed call becomes a storm. | 1 fault, whole lines |
| `AnalyzerMain!StopRepeatsNothing` | `cursor.go:20` "persists the last-processed position across restarts"; a poll that finds the context cancelled returns past the save (`analyzer.go:130`), so a graceful stop repeats findings. | 2 files, 2 events |
| `AnalyzerMain!FailureIsRestarted` | `analyzer.service.j2:14` `Restart=on-failure`; after a failure of the health server or the loop `run` returns nil (`main.go:167`), exit status 0. | 1 file, `FairSpec` |
| `LoopDetector!LoopInstanceOnce` | `loop.go:24-25` "each loop instance exactly once"; trimming removes the event a loop is remembered by (`:155`), and it is reported again. Holds without a window (`window_seconds` 0 becomes 300 in the configuration, so only a negative value or the constructor gives none). | window 5, 8 calls |
| `DriftDetector!AsReference` | `drift.go:12-13` "identical to the Python reference"; Go's `\w` is ASCII only, so two prompts in another script are identical. Holds for words in ASCII. | one word without ASCII |
| `DriftDetector!DriftedFromFirst` | `drift.go:60` "Treat the first prompt as the reference"; after a restart the first prompt read is taken for it. | 4 prompts, 1 restart |
| `ToolMisuse!NotReportedTwice` | `toolmisuse.go:185` "Avoid double-reporting"; with the defaults the rate comes first (third call), and the storm is reported as well (sixth). | limits 5, 70 %, 3; 7 calls |
| `ToolMisuse!RateAboveThreshold` | `toolmisuse.go:51-52` "more than minFailureRate fraction"; the code compares with `>=` (`:184`), as `tool_misuse.py` does under the same words. | run `detectors` |
| `KeyManager!ShreddedForGood` | `manager.go:30-31` "permanently destroys"; after a failed save the retry of `ShredDEK` returns nil without saving (`local.go:113-127`), and the key is back after a restart. | 1 failed save, 1 restart |
| `KeyManager!LostOnlyByShredding` | `manager.go:26-27`; a rotation wraps the file with a KEK that is only in memory (`local.go:163`): no key can be read after a restart. | 1 rotation, 1 restart |
| `KeyManager!AllUnderActiveKek` | `manager.go:35-36`; `RotateKEK` sets the new KEK with the first DEK (`local.go:154`) and does not go back when a later DEK, loaded and not yet read, cannot be unwrapped. | 2 keys, 1 rotation |
| `KeyHandles!NothingUnderZeroes`, `UserHasKey` | `manager.go:26-31`; `ShredDEK` and `Close` zero the key a caller holds (`local.go:119`, `:197`), and a racing `GetDEK` may return a key of no bytes (`:101`). | 3 users |
| `IngestStream!SignalEnds` | `cmd/ingestion/main.go:273` "wait for in-flight calls to complete"; a client that keeps its stream open keeps the process from ending (`:274`). Holds for unary calls, and once every client has gone. | 2 streams, `FairSpec` |
| `SdkSender!CloseReturns` | `config.py:43-44` "How long close() waits"; the stop mark is put without a timeout (`client.py:271`), and an exception of `_ensure_connected` (`:120`) ends the thread that makes room. Holds while the thread lives. | `MayBreak`, queue 2, `FairSpec` |
| `SdkSender!RetriesTransientOnly` | `client.py:243` "exponential backoff on transient errors"; rejections are retried too (`:306`), `_RETRYABLE_CODES` is never read. | 1 retry |
| `PolicyEngine!AgentLimit` | `engine.go:30` "safe for concurrent use"; `getBucket` writes the map under the read lock (`config.go:145`): two buckets, two bursts, or the end of the process. | 2 calls at once, 6 calls |
| `PolicyEngine!RetryAfterIsEnough` | `engine.go:26` announces `RetryAfter`; it is cut down to whole nanoseconds (`config.go:187`), so a client that waits exactly as long may find less than a token. | rate 3, token of 4 |
| `Ingestion!AckedIsLegible` | `store.go:17` "Append writes an event to the store"; behind a part of a line that a process left, the first line of the next process is confirmed and cannot be read (`jsonl.go:195`, `:224`). | run `ingestion`, `restarts` |
| `EventStore!ConfirmedCanBeQueried` | `store.go:22` "retrieves events matching the given filter"; a confirmed line above 1 MB makes every query that comes to its file fail (`jsonl.go:216`, `:233`). | one long event |
| `EventStore!StreamDelivers` over two tenants | `jsonl.go:110` "tails the event store for new events"; the walk goes tenant by tenant and the bound is the last time sent (`:143`): an event stored behind the walk is never sent, although all arrive in the order of their times. Holds for one tenant. | 4 events, no fault |
| `EventStore!Chronological` | `store.go:22` "returned in chronological order"; the order is that of the walk (`jsonl.go:89`). | 2 tenants |
| `Exporter!CounterOnlyGrows` | `collector.go:59` declares a counter; each round resets it while `/metrics` is served (`main.go:245`). | 2 scrapes |
| `EventCodec!HonestVerifies` | `events.py:296-298` "signatures computed on both sides are identical"; they are not for a duration, for empty arguments or results, for ints with more digits than a double or of 22 digits and more, for floats without a fraction below 10^21, for most floats below 0.0001, for characters outside ASCII or `< > &` in any text, for a timestamp with an offset, for an unspecified type or severity. | run `events` |
| `Redaction!RedactedIsStored` | `redactor.go:15-16`, `types/event.go:106`; over raw JSON (`redactor.go:116`) a greedy pattern runs through the closing quote and brace, one that matches a number (`:47`) leaves a bare marker, one that takes the letter of an escape (`:48`) leaves a lone backslash; the event is no longer valid JSON and is refused. | 2 words, a number |
| `Redaction!AllTextScrubbed` | `redactor.go:82` "all text fields"; labels, tags, `memory.key`, `error.code` and tool names are stored as they came. | a label |

## 4. Fairness and liveness

Liveness is model-checked only; `Processes!FairSpec` and `EventPath!AllFairSpec` take
over the fairness of the modules they compose. What is fair is what the runtime schedules; a
failure, a crash, a signal, a restart or a client never has to come.

* `Analyzer!FairSpec`: weak fairness of `Poll` (the steps of a poll that
  succeed) and of `Start`. `Run` polls on every tick until it is cancelled, and
  the service manager restarts the process. Failures and crashes are bounded;
  without the bound a disk that always fails would rightly prevent progress.
* `Forwarder!FairSpec`: weak fairness of the batcher goroutine (a call ends by
  its 10 s timeout at the latest) and strong fairness of the `ctx.Done()` case:
  a Go `select` chooses at random among ready cases. Nothing is assumed of
  handlers, of `Stop` or of the end of the cooldown. The number of events is
  finite, so a drain that handlers feed for ever is outside the model.
* `Ingestion!FairSpec`: the goroutines of `main`, of the handlers and of the
  clients run, and a call ends by its 10 s deadline. gRPC's `GracefulStop`
  returns when no handler is at work, which is what its documentation says.
* `IngestStream!FairSpec`: the handlers and the return of `GracefulStop`; a client
  need not send, close or cancel, which is why the signal ends the process only
  once the streams are released.
* `SdkSender!FairSpec`: the sender thread, `close` and `flush` in their callers'
  threads. Attempts end by their deadline.
* `EventStore!Fairness`: the goroutine of the stream polls and sends, a call of
  `Append` returns, and whoever asked for the stream receives.
* `AnalyzerMain!FairSpec`: the goroutines of the process and the service manager (a
  write that fails, and death, never have to come);
  the end of the loop is strongly fair because it is enabled between two polls.
* `Exporter!FairSpec`: the collector goroutine.

## 5. What is proved

Each theorem holds for every value of the constants that the named assumptions of
its module allow, not only for those of a run. The invariants the runs check are
seldom inductive; what follows names the strengthening and why it is needed. All
are laid out alike: the initial states satisfy it, each action preserves each of
its parts, and it implies the property.

| Module | Theorems (and the property of a run they state) |
|---|---|
| `AuditSink_proofs` | `TypeCorrect`, `ChainNeverBreaksBetweenNeighbours` (`NeighboursLinked`), `VerifyRaisesNoFalseAlarm` (`NoFalseAlarm`), `IntactMeansComplete` (`NoSilentLoss`), `AtMostOneLossPerRestart` (`OneLossPerRestart`), `EntriesInSequenceOrder`, the refinement `ImplementsTheTrail` (`KeepsTrail`), `VerifyAlwaysTellsTheTruth` (`VerifyTellsTheTruth`) |
| `KeyManager_proofs` | `TypeCorrect`, `OnlyRotationsLockKeys` (`NoFailedSaveLocksKeys`), `KeysAlwaysSurvive` (`KeysSurvive`), `ShreddedStaysShredded` (`ShreddedUnlessSaveFailed`), `HandedOutKeysAreSound` (`HeldKeysAreSound`) |
| `PolicyEngine_proofs` | `TypeCorrect`, `NeverAboveTheLimit` (`WithinLimit`), `PausesEarnNoMore`, `OneSetOfRules` (`CurrentLimits`), `DeniedStayOut`, `WaitingHelps` (`RetryAfterHelps`) |
| `Ingestion_proofs` | `TypeCorrect`, `AnswersAreAlwaysTrue` (`AnswersAreTrue`), `OnlyLostCallsMakeTrouble` (`TroubleByLostCallsOnly`), the refinement `DeliversAtLeastOnce` (`AtLeastOnce`) |
| `Forwarder_proofs` | `TypeCorrect`, `NothingEverVanishes` (`NothingVanishes`), `CallsAlwaysInOrder` (`CallsInOrder`) |
| `Analyzer_proofs` | `TypeCorrect`, `NothingUnreadBehindTheCursor` (`SavedBehindRead`), `RepeatsComeFromRestarts` (`RepeatedByRestartsOnly`), `FindingsAreWhatWasRead` (`FindingsFaithful`), the action property `CursorsOnlyAdvance`; of the detectors `LoopsAreFound` (`LoopsFound`), `DriftIsTheReferences` (`DriftAsReference`), `MisuseIsFaithful` (`MisuseFaithful`) |
| `Processes_proofs` | `StreamAnswersAreAlwaysTrue` (`StreamAnswersAreTrue`), `RestartsNeverLose` (`RestartsLoseNothing`), `MetricsAreAlwaysTrue` (`MetricsAreTrue`); of the store `StoreTypes`, `StoredEventsAreIntact` (`StoredIsIntact`), `QueriesAreComplete` (`QueryComplete`), `StreamsOnceInOrder` (`StreamOnceInOrder`) |
| `EventPath_proofs` | `QueueTypeCorrect`, `SdkKeepsOrder` (`SdkOrder`), `PortableIsAccepted` (`AcceptedIffPortable`), `SignedIsWhatIsStored` (`SignedIsStoredAndAnalysed`), `RedactionListsWhatChanged`, `RedactionIsSound` (`RedactionSound`) |

**Audit log.** `SinkInv` has three parts: `FileInv` says of the file that it is
chained line by line, that an unfinished last line is not stable, and that the
line of each acknowledged entry holds it or is corrupt; `SinkType` types the sink;
`HeadInv` relates the sink's memory to the file: the head continues the last
readable line unless a write has failed, and between the steps of `Log` the entry
in flight is the one the head stands for. It is written over values and not over
the variables, so that its lemmas, one per step, serve the sink and the sink whose
file is edited. `ResumedContinues` is the restart case: `resumeChain` finds a head
that continues any chained file. `NoSilentLoss` then needs the argument that an
unreadable line makes `Verify` stop. On top of it:

* `LossBudget`: the lost entries, and one more while the file ends in a torn tail
  that the next call will be appended to, are no more than the restarts.
* `TrailStep`: each action leaves the lines, adds one that may stand there, spoils
  the last one while it is not stable, or cuts behind the stable ones; only an
  fsync makes lines stable. These are the steps of `AuditTrail`.
* `SeqInv`: the numbers rise along the file and the head is not behind any of them,
  although a restart hands out again the number of an entry that was lost.
* `TamperInv`: until the edit the file is a sink's; afterwards it has a scar, the
  first line that does not continue the chain, among the stable lines, where no
  write, crash or restart reaches it. An edited line is the scar itself, and the
  successor of a removed line is, for a line is removed only with a stable one
  behind it; so `Verify` never says "intact" and blames nothing before it. An edit
  of what is not hashed leaves the file `Alike` to what it was, for `Verify` and for
  `resumeChain`.
* `ReadInv`: while entries are only added, the file is the chain 1, 2, ... in full,
  the line being written continues it, and a scan that stands behind line `pos`
  expects exactly the hash of that line.

**Key manager.** `TypeInv` and `Access`: the DEKs in memory are open to the KEK in
memory while no rotation stopped midway and no KEK was forgotten, and between two
processes the file is open to the KEK of the environment. `KeysInv`: as long as no
save failed, file and memory hold the keys issued last and not shredded, and no
key was issued to two buckets. `HandlesInv` says for any set of users who wrote
which part of the slice: a user that sees an address without a length needs a
second one that is between its two writes, and one that sees a zero needs a
`ShredDEK` or a `Close` that has begun.

**Policy engine.** From `PolicyAssumption`. `BucketsSound`: what a bucket has let
through and what it holds come to no more than its burst and what its rate earned
up to its last fill, inductive where `WithinLimit` alone is not, since a refill
turns time into tokens. `MapOk`: the map leads to buckets of the rules in force.
`CallOk`: a call between its steps was evaluated under those rules, which rests on
`Reload` having to wait for the read lock. `AllSaving`: a bucket that has
throttled a call holds what its rate has earned since, unless it is full. What was
announced is cut down by less than a tick (`CutDownCovers`), so the time of a token is
over one tick later at the latest.

**Ingestion.** `IInv` says which subsystems are open and who may be at work in each
phase (`Phases`), what the stages behind a handler have done for its event
(`HandlerOk`), what a client waits for and knows (`ClientOk`), and, per event of a
script, that while no call for it was lost only the handler its client waits for
works on it (`EventOk`). The last is what makes a repeated or reordered event
impossible without a lost call. `LossOk` counts in advance, as for the audit log: the
joined lines of a file, and one more while it ends in a part that a living writer will
write behind, are fewer than the starts. `EverGrowing` (no step takes anything out of
the store, what joined a part, the log or the histories) carries the refinement of
`Delivery`.

**Forwarder.** `Window`: what was accepted is what was flushed, then the batch, then
the channel, in this order; `EnginePast` and `Ordered` place every event at the
engine in the part that the current flush has behind it, and `Settled` says so of
the sessions it is done with. `Control` and `Breaker` bound the batch and tie
failures, circuit and cooldown together.

**Analyzer.** `Offsets`: the lines wholly behind a cursor, in memory, saved, or about
to be set, were read or taken in two halves (`Covered`). `Budget`: a finding that a
process can still write is counted in advance against its life. `CountedOnce`,
`RealStorms`, `AllCounted`, `Remembered` and `Encoded` follow a call from the line
through the detector's count to the finding; they need that a file holds each
head once (`FilesOk`), since the detector counts what the cursor has passed.

**Detectors.** Each of the three is fed one event at a time and is compared with
what can be said of the whole session.

* Loops. `Found` says what a search returns, without following it: what it
  returns are repetitions with their full number of periods, none begins inside
  another that is no longer (`Apart`), and each position where calls repeat often
  enough lies in one that is no longer (`Covers`). `SearchFinds` shows it along the
  recursion, position by position and length by length. The hard part is one call
  more: `AllKept` says that a loop found before is found again. Take the lost loop
  that is least by length, then position; the loop it begins in now was there
  before and has grown by the one period that the new call completes, so the lost
  loop begins in that period and, being no shorter, ends behind the last call
  there was (`KeptInTurn`). Hence `LoopInv`: what was
  reported are the starts of the loops in the session. That no repetition is told twice
  (`LoopInstanceOnce`) uses the least multiple of the period that goes past the
  first of the two. `WindowInv` keeps instead that what is found within the window
  was reported and did repeat; there the shortest repetition that ends at the last
  call is the one reported (`NothingMissed`).
* Drift. `DriftInv`: what is held of a session is the end of what it said
  (`EndOf`), and a session was reported iff the reference finds one in what is
  held. A prompt that drifted from the first one held stays one (`StaysDrifted`),
  and what was found at some time is found in any continuation (`StaysFound`).
* Tool misuse. What is counted is a set of calls that only the last call can
  enter; `StormsKnown` and `RatesKnown` say that a count past its limit was seen
  when it came to it, and `Remembering` that a finding of this process is remembered.

**Processes.** `StreamInv`: what is on the wire is the part of the script between what
was handled and what was sent, and the store holds as many events of a stream as
were accepted. `MainInv`: the saved cursor is behind what was reported by no more than
the times findings were written and their position was not saved (`unsaved`), and
while a poll goes on the cursor in memory is. `MetricsInv`: during a walk the numbers lie
between those of the files when the round began and those of now, for the files
the walk has done with; a lemma shows that both ends only move up.

**Event store.** Three invariants, each resting on the one before.

* `FilesInv`: each event stands on at most one line, in the file of its tenant and
  day; only a last line is unfinished, and then its writer is at work, has failed, or
  died (`LeftUnfinished`). `StoredIsIntact` alone is not inductive: a restart
  confirms nothing and loses nothing, the loss comes with the next append. `Losses`
  therefore counts in advance: while a file ends in a line that the next one will
  join, its unreadable confirmed events *and one more* are no more than the restarts.
* `ReadersInv`: a walk is `Walked`: the directories and files still ahead are in the
  order of their names, what was found is whole, matches, is there once and lies
  behind, and what was there when the walk began was found or lies ahead. The steps
  of others do not disturb this, for a settled line stays as it is (`Kept`) and an
  event that was there is not made readable later (`WholeKept`). That a listing and a scan return their set in
  order (`SortedIs`) is shown by a least counterexample: a set of numbers of least
  size that cannot be sorted has a least member, and the rest can be sorted.
* `OrderInv`: as long as what the stream asks for is of one tenant and in order in
  each file, received, channel and found events follow each other in time, with
  `lastSeen` between what was sent and what was not, and the files ahead are of later
  days than what was found (`Behind`). A file that is out of order stays so
  (`AskedBack`), so the premise holds from the start whenever it holds now.

**One event.** `QueueInv` relates three orders, that of entering, that of the queue and
that of settling: each event that entered is in one place, everything before a
settled or current one is settled, the queue keeps the order, and there is one stop
mark (`OneMark`), which is why `close` can rely on it (`Awaited`). `CodecInv` follows
what was signed to what is stored; its key lemma `CanonicalAlike` says that the
canonical forms of the two languages are equal only if every field is written
alike, down to the numbers (`NumbersWrittenAlike`, by the cases of notation) and texts
of each object. `ListInv` is that a field is listed as redacted iff a pattern changed it.
`ScrubInv` adds that what the handler holds is what `scrub` made of what was sent.
`Scrubs` gives the texts between the first pattern and the last, from a lemma that a
function defined by its value before exists (`Iterates`); over them, by an induction
on the number of patterns (`Reached`), a pattern once applied matches nothing more,
for a marker is no word it looks for (`Cleaned`), and an object that no match breaks
out of keeps its numbers, its escapes and every token of its structure
(`StructureKept`): a match that reaches such a token reaches the end of a value, since
a comma follows one. The theorem
assumes of a pattern that it matches words and numbers of the text and not the marker, which a
custom pattern of the configuration could.

Only model-checked:

* Liveness (`AppendedIsRead`, `EverySettled`, `EveryEventFlushed`, `StreamDelivers`,
  `SdkSettles`, `WorkEnds`): fairness is defined by ENABLED, which the prover does
  not handle.
* The violations of section 4 are runs of TLC, as are the mutants.

The recursive definitions (the search for loops, the patterns of the redaction)
are functions on an initial segment of the numbers; what is proved of them uses
least counterexamples, since the induction theorems of the library take
an operator as a parameter and cannot be instantiated.

## 6. Abstractions

* Contents of events, entries and findings are model values; a hash is a term; a
  key is a number. Encryption is symbolic.
* What `Write` was given survives the death of a process in `EventStore`, `Ingestion`
  and `Analyzer`; only the audit log is synced, and only `AuditSink` has a loss of power.
* A file write is atomic except where a unit of it may be lost or seen alone: the
  last line of the audit log, the parts of an event line. A line that only lacks
  its newline still parses and is left out. The analyzer's cursor file is
  replaced by a rename, as in the code; its loss in a power failure is not modelled.
* A directory listing that fails ends a poll of `Analyzer` without a state change and
  is a stuttering step there; in `AnalyzerMain` it is `ListFails`.
* The policy file's overrides are not completed with defaults, as in the code. In
  the program `Reload` is called by `NewConfigEngine` only; the model lets it be
  called at any time, as the interface allows.
* The program itself opens and closes the key manager and never calls its other
  operations, nor `Verify` and `LatestCheckpoint`, and no client in the repository
  uses `IngestEventStream`: the modules let any caller the interfaces allow do so.
* The exporter's gauge of stored events counts the lines of the findings
  directory, and so does the model.
* A queued event may be changed by the application after it was signed, in its
  text or its tool call, once (`Change`); a field may arrive with another value
  (`Damage`). The schema check cannot fail for an event of the SDK.
* Of the numbers in arguments and results, NaN and the infinities are left out:
  `json.dumps` writes them and `protojson` refuses them, so the whole field is dropped.
  An event that the SDK records has the time in UTC; an offset comes with an `Event`
  the application builds itself.
* A pattern of the redaction is told by the kinds of words and numbers it matches,
  whether it is greedy, and what it makes of a word behind an escape, since it is
  matched against raw JSON, where `\n` is a backslash and a letter: one that begins at a
  word boundary misses the word, so it stays in what is stored, and
  `NothingLeft` says only that no pattern matches the raw text.
* `PolicyEngine` counts time in ticks and tokens in whole parts; `config.go` counts
  tokens in floating point, whose rounding is not modelled.

## 7. Not modelled, and plan

Not modelled: loading and validating the configurations (two comments there name
other defaults than the code), the metrics collector (declarations that nothing
reads back), generated protobuf and gRPC code (2343 of the 7848 lines counted),
`cmd/hmaccheck` (one shot), `Ping`, the health handlers, the connection gauge,
`safeInt32`, the TLS set-up and the reading of certificates, the retention
setting (never used), deployment, scripts and dashboards. They change no state
that the properties are about.

Every safety invariant of a passing run is proved for all values of the constants.
What a next step would add: liveness, once fairness can be reasoned about; and the
configuration loaders, if they come to hold state.
