# ULPF-X: TLA+ models, model checks and proofs

This directory holds a verification project for ULPF-X (the ULPX repository): a log pipeline that takes raw security events in, keeps their bytes as evidence, parses them with declarative specifications, and replaces those specifications when a source drifts.
Modules were translated from the source, not from the documents; `PROJECT.json` maps every definition to the lines it models.

## 1. The system

| Component | State it keeps | Operations | Interacts with | What is hard |
|---|---|---|---|---|
| Ingest gateway (`apps/ingest-gateway/main.go`, `ingest.go`, `envelope.go`) | per-request locals, the process | POST raw event, shutdown | calls firewall, store and bus from one goroutine per request | concurrency, client hang-up, death between two steps, restart on the same store |
| Raw store (`raw_store.go`) | files under `raw/<day>/<source>/<event>` and `.tmp` files | `Store`, `Load` | shared by all handlers, survives the process | stat / write / rename are separate system calls and each may fail |
| Event bus (`eventbus.go`) | channels per topic, an RWMutex | `Publish`, `Subscribe`, unsubscribe | handlers publish, consumers receive | close against send, full channels, writer preference of the lock |
| Telemetry firewall (`firewall.go`) | stack, depth and counters of one inspection | `Inspect`, `SafeRender` | called by the gateway; reads tokens from `encoding/json` | telling keys from values, off by one at a limit, truncated input, a cancelled context |
| Parser runtime (`packages/parser-runtime`) | none (results) | `LoadParserSpecJSON`, `CanHandle`, `Parse`, lineage | used by the normalize worker | Go map order, partial failure of a field |
| Normalize worker (`apps/normalize-worker`) | none | `Normalize`, `Validate` | consumes parser results | completeness of the canonical event |
| Detection contracts (`packages/detection-contracts`) | none | rules DET-001 to 010, `Calculate` | read canonical events | rounding before a threshold |
| Exporters (`packages/exporters`) | none | ECS and OCSF output | read canonical events | field tables |
| Shadow parsing (`ml/shadow`) | none | `execute_dual`, `compare` | called by self healing | rates, rounding, empty windows |
| Self healing (`ml/self_healing`) | incident in progress | `handle_repair`, `evaluate` | shadow parsing, deployer | what is active changes while an incident is open |
| Deployment engine (`ml/deployment`) | active registry, revision history | `deploy_spec`, `rollback`, `get_active_spec` | called by self healing and by operators | long sequences of deployments and rollbacks |
| Daemon controller (`scripts/cli.py`) | PID file, process table | start, stop, restart, `[O]` key | every command is its own process | check-then-act without a lock, stale files, port still taken |
| Ingestion API (`scripts/cli.py`) | ring buffer, class counters, snapshot files | POST event, POST snapshot, `/stats`, generator | one thread per request | unlocked counters, eviction during a snapshot, file names |
| Source profiler (`ml/source_profiler`) | aggregation of one batch | `profile`, `parse_record` | used by onboarding, drift and shadow parsing | the dominant format, dominant types, missing against null |
| Semantic mapper (`ml/semantic_mapper`) | catalog | `map_field`, `score_candidate` | called by the orchestrator | bonuses and penalties that add up around a threshold |
| Onboarding (`ml/orchestrator`, `ml/ai_assist`, `ml/spec_compiler`, `ml/test_bench`) | the package handed from stage to stage | `run_pipeline`, `compile_spec`, `run_benchmark` | profiler, mapper, language model, reviewer, deployer | who decides when three sources map one field; stages that disagree about their data |
| Drift detection (`ml/drift`) | none | `compare_profiles`, `detect_semantic_drift` | profiles, specifications, parsed events | rates at strict thresholds, growing windows |
| Validation and passport (`ml/validation`, `ml/passport`) | none | `validate_event`, `to_evidence`, `build` | golden events, drift state | what a certificate leaves open |
| Benchmark (`ml/benchmark`) | measurements | load generation | gateway code | none |
| Observer window, exports, demo, audit (`scripts/`) | display | output only | read the API | nothing shared |

`apps/control-api`, `apps/web` and `infra/` hold empty files.

What makes each part correct:

* **gateway, store, bus**: no consumer and no client ever holds a reference to evidence that is not there, complete, now and later; quarantined events stay apart; an error answer means nothing was recorded; the hot path never blocks on a consumer;
* **self healing and deployment**: a promotion never loses a critical field, and a rollback restores exactly what was replaced;
* **daemon**: the PID file names the daemon that serves, a stop works, a stale file blocks nothing;
* **API**: the statistics are believable despite lost updates, and a snapshot is the window of one moment;
* **firewall**: it takes exactly the keys for keys, accepts nothing beyond a limit and blames a limit only if it was exceeded;
* **onboarding**: a field whose type contradicts its target is not mapped, every deployed mapping is somebody's decision, and what is deployed can be loaded as far as the reviewer did not prevent it;
* **normalisation, contracts, drift, certification**: detections survive normalisation, a lost mandatory rule cannot be averaged away, STABLE means that shape and meaning are kept, and a certificate means that critical values are right;
* **parser runtime**: the result depends, up to the order of errors, on the event and the specification only, every value leads back to its raw field, and no raw field vanishes.

## 2. Modules

| Module | Models | State and actions against the code |
|---|---|---|
| `GatewayData` | data of the gateway | envelopes, raw references, topics |
| `RawStore` | `LocalFSStore.Store` | `files` and `tmps` are the file system; `Stat`, `OpenTmp`, `WriteTmp`, `Rename` are its system calls and `...Fails` their errors. `StoreSpec` is the store with arbitrary callers |
| `EventBus` | `InMemoryBus` | `readers` and `WriterWaits` are the RWMutex, `pending` what is left of Publish's range loop, `chan` the buffers |
| `EvidenceLedger` | abstract | record, then announce, then acknowledge; records never change |
| `IngestGateway` | the process | extends store and bus; one action per stretch of `IngestWithContext` and of the handler between two points at which others can see it; `Signal`, `Stop`, `Die`, `Start` |
| `ShadowComparison` | `ShadowRunner._parse`, `ShadowComparator`, gates, `PromotionPolicy.evaluate` | functions of a window (a bag of lines) and two specifications |
| `VersionStack` | abstract | a stack of versions per source |
| `SelfHealing` | `handle_repair` over `SpecDeploymentEngine` | `Detect` is the read of the active specification, `handle_repair` the repair with what was read, `rollback` the operator's |
| `DaemonControl` | daemon helpers, `handle_daemon`, `[O]`, `handle_api` | one step per access to the PID file or the process table; every daemon has the `port` of its command |
| `IngestAPI` | `EventRingBuffer`, `IngestHTTPHandler`, generator | one step per critical section; `+= 1` on a class attribute is a load and a store |
| `ParserDSL` | `ValidateParserSpec` | which specifications load |
| `ParserRuntime` | `Parse`, lineage | one step per entry of `spec.Fields`; two executions of the same input side by side |
| `Firewall` | `Inspect`, `inspectJSONStructure`, `inspectKVStructure` | one step per token or word; `depth`, `stack`, `expectKey`, `fieldCount` are the walk's locals, `frames` the external decoder's grammar, `seen` what the input held |
| `SemanticMapper` | catalog, type rules, `score_candidate`, `map_field` | functions; scores are integers in 1/100000, as the code rounds to four digits |
| `Onboarding` | profiler, orchestrator, assistant, compiler, bench, first deployment | one action per call with its exceptions; `columns` is the profiler's aggregation, `package` the dictionary handed on |
| `Normalization` | `Normalize`, `Validate` | functions of what the parser extracted |
| `DetectionContracts` | ten rules, `EvaluateRule`, `Calculate` | predicates on an event's string and integer fields |
| `DriftDetection` | both detectors | functions of windows, specifications and events; `Profile` is what the profiler makes of a window; rates are fractions |
| `Certification` | `validate_event`, `to_evidence`, `build` | functions of a parsed event, a specification and a golden event |
| `Assurance` | the four services above in use | one action per call; the window grows batch by batch, the tally event by event |
| `MC...` | instances for TLC | |
| `IngestGatewayProofs`, `SelfHealingProofs`, `FirewallProofs`, `OnboardingProofs`, `DaemonControlProofs`, `ParserRuntimeProofs`, `IngestAPIProofs`, `AssuranceProofs` | theorems | each extends the module it is named after |

`IngestGateway` composes `RawStore` and `EventBus` by EXTENDS and refines `EvidenceLedger`; `SelfHealing` uses `ShadowComparison` and refines `VersionStack`; `Onboarding` uses `SemanticMapper` and checks its output with `ParserDSL`, the validation the Go runtime applies; `Assurance` puts `Normalization`, `DriftDetection` and `Certification` together, which share the rules of `DetectionContracts`.
Definitions called `Mut...` are deliberately wrong variants of the definition that follows them; every property is checked to be violated when one of them takes its place.

### Abstractions

* SHA-256 is injective: the digest of a body is the body. ULIDs (48 bits of time, 80 random bits) do not repeat.
* The gateway does not run as root, so a left-over `.tmp` file of mode 0444 cannot be opened again. The process may die at any point; loss of power (data not yet synced) is not modelled, the code never syncs.
* In `IngestGateway` the firewall's verdict is a property of the body (`Malformed`), or of a cancelled context; `Firewall` is the inspection itself. A document is a sequence of tokens the decoder accepts, of any length; a token is a delimiter, a scalar, or a string of some length. `REJECTED` is declared in the code and never produced.
* An event of the API is its sender and its status; `bytes_count` behaves as `events_count`.
* A parser specification for the shadow run is its table of fields, and whether it has the required keys, a usable version and a format hint that fits. Latency is one bit. Values are compared as text; exact ties of rounding do not occur in the windows used.
* In `ParserRuntime` transformations and coercions are the function `Coerce`, format parsers are the fields they yield, and a lineage is its locator: the raw key, or for JSON the pointer `BuildFieldLineage` makes of it (`Pointer`). Byte spans are left out.
* The similarity of two names (alias tables, difflib) is the constant `Lexical`; `MCOnboarding` holds the ratios measured for its two names. A value is zero, another number, a word, an address or null, and only the first two are integers to `int()`; which type the inferencer gives a text is not modelled.
* The language model answers anything, a reviewer overrides anything; generated code is its mappings and its target, and which of it the bench can read depends on line breaks and quotes in names and paths (`CodeVerifies`). A path is known to the compiler by the words it looks for (`PathWords`). The Boolean `validation_passed` of a deployment is its caller's.
* A word of an event is known by the parts of it the code looks for (`Parts`), after lower-casing. The empty word has no parts. `MappedCanonical` and `CriticalMap` take one of several raw fields of one path where the code takes the last; `StableKeepsMeaning` speaks of specifications without such fields. `Cast` is transformation and cast of a value to a type.
* A line of a source is its kind: the format `detect_format` sees in it, and for every format whose parser reads it the fields and types that come out (`LineKinds`). Which format dominates is voted by the first `SampleLimit` lines, and `ReadAs` reads every line in it or falls back as `profile` does. CSV, which is recognised on a whole batch and may have a header, is not modelled.
* Thresholds are compared as exact fractions. A rate rounded to four digits is rounded from a float, which for a tie may lie on either side: `up` is the set of signals whose ties are rounded up, any set. A tie takes thousands of events, so only the theorem meets one.
* PIDs are not reused; POSIX behaviour only.

## 3. What the runs show

| Run | Result | Question |
|---|---|---|
| `ingest_gateway` | holds | evidence, quarantine, retries and the bus under two concurrent requests, storage errors, a full channel, hang-ups, shutdown, death, restart, a day change |
| `ingest_liveness` | holds | every request is answered; an unsubscribe completes beside a consumer that never reads |
| `self_healing` | holds | no promotion loses a critical field of what it was compared with; registry and history are a stack |
| `stale_baseline` | violated | what it was compared with need not be what it replaces |
| `daemon_control` | holds | PID tracking, stop and start for one user at a time |
| `ingest_api` | holds | statistics and snapshots under concurrent requests |
| `parser_runtime` | holds | lineage, accounting of fields and independence of the map order up to the order of errors, for every specification and event over five keys |
| `firewall` | holds | every document up to the nesting and field limits, cut off anywhere: the walk agrees with the decoder, acceptance and violation codes are right |
| `onboarding` | holds | from the first line to the deployment: type conflicts, justification of mappings, and which overrides alone make a deployed specification unloadable |
| `onboarding_approval` | violated | the orchestrator approves a source whose fields the mapper abstained from, because it reads attributes the report does not have |
| `assurance` | holds | detections, drift states and certificates keep their promises |
| `detection_lost` | violated | an extracted outcome is replaced by one guessed from the action, and DET-001 falls silent |

The violated runs state what a comment or a document of the repository says; `findings` in `PROJECT.json` quotes it.

**Bounds.** Two handlers, two ULIDs and one restart: every race of the gateway is between two requests or between a request and the process; a third adds no new pair. One subscriber with a channel of capacity one is full after one message. Two days let a call straddle midnight.
Three incidents, because the stale baseline needs one repair to be overtaken by another and a rollback in between; eight specifications cover each way a candidate can differ (a field fewer, another endpoint, two fields colliding, another spelling of the action, a missing key, a bad version, a wrong format).
Three commands and three PIDs reach every start, restart and toggle after every crash; the race needs two controllers and two commands. Two ports, so that two daemons may serve at once and one may lose the port to another.
Two posters suffice for a lost update; a capacity of two with three events evicts.
Limits of three fields, three levels and one rune, with strings of length 0, 1 and 2: each limit is met, kept and exceeded, and two containers of either kind can enclose a third; the theorems cover all other limits, and `EnforceUTF8` switched off; the run has it on, as `DefaultFirewallConfig` does.
Three lines and two fields, one with values zero, word, address and null, the other with words and addresses: every dominant type, every tie and every order of samples; reviewers' overrides replace an accepted mapping, add a name with a line break or a quote, leave a name empty and give a path of the wrong form; five answers of the model, one of them outside the registry.
One controller has at most one command under way; the theorem about any number of them asks only that commands do not overlap. One snapshot thread, because two beside two posters are beyond TLC; the theorem covers any number.
Batches of different sizes and kinds let a format win the vote, among them plain text, which turns every line into a message, and a line be read by no parser; several batches let a type win, tie and lose. Pairs of seven specifications, one with an emptied enumeration value, and histories of up to two events contain each kind of semantic drift; two events suffice for a mandatory rule to be kept once and lost once.
Five keys, two of them equal up to case and two with one JSON pointer, two types and two paths give every specification with a collision and every one without.

**Symmetry** is used only where the permuted model values are compared for equality and the run has no liveness property.

**Fairness.** `IngestGateway!Fairness`: a goroutine that can run does run, a waiting writer gets the RWMutex once the readers have left (Go's lock keeps new readers out), and `Shutdown` returns when no handler is active. Nothing is assumed of clients, consumers, storage errors or crashes.
`DaemonControl!Fairness`: a command that was started goes on, a daemon gets to its bind, and a SIGTERM is delivered. The user's commands and crashes are not fair.

## 4. What is proved

TLAPS checks every theorem for all values of the constants that satisfy the named assumptions.

**Gateway** (`IngestGatewayProofs`, from `GatewayAssumption`, `BusAssumption` and `RequestAssumption`).
`EvidenceBehindEveryEnvelope` is not inductive: it says nothing about handlers that are about to publish. `EvidenceInv` adds

* `UniqueIDs`: no two handlers hold the same event ID, also after a restart;
* `HandlerInv`: from the end of Store on, a handler's envelope is backed; before it, its request and its envelope agree;
* `CallInv`: a Store call works on the path of its own handler's envelope, nothing is at that path until its rename, and the temporary file it is about to rename holds its bytes.

From it follow `TypeCorrect`, `EvidenceRetained` and, with `FilesGrow` (a step adds at most one file and changes none), `StoreIsWriteOnce`: the unlocked store is safe exactly because of `UniqueIDs`; with arbitrary callers (`StoreSpec`) it is not.
`BusInv` ties `pending` to the subscribers of the topic while the read lock is held, and gives `NoSendOnClosed` and `QuarantineKept`.
`OwnerInv` gives every file a handler that is at work, was answered 201 or 202, or died: `RetrySafe`.
`GatewayImplementsLedger` maps the ledger to the files of an event ID, the announced pairs to `sent` and the acknowledged ones to the answers; each action is shown to be one ledger step or a stutter.

**Deployment** (`SelfHealingProofs`, from `SelfHealingAssumption`). `DeployerInv` is the type invariant with `HistoryHasActive`: a source with a history has an active specification, without which a rollback would not be a pop. It gives `DeployerTypeCorrect` and `DeployerIsStack`.
`PromotionsKeepCriticals` (also from `ShadowAssumption`: a window has finitely many lines, each at least once) carries `AllJudged`: whatever is in `promoted` had a window and no critical divergence above zero. `Lines` counts a window by the cardinality of its occurrences, so that no induction over sums is needed; `LinesCount` says that it is zero for no lines only, `RoundedSeesOne` that four digits show one line in 20000, and `NotDiverged` that the comparator's case-insensitive comparison implies the reference. The specification compared with may be stale: about the one replaced nothing is proved, and the run `stale_baseline` refutes it.

**Firewall** (`FirewallProofs`, from `FirewallAssumption`: limits are natural numbers). For documents of any length. `WalkTracksDecoder` alone is not inductive; `FirewallInv` adds that what was seen is within the limits while a walk goes on (so the first excess is the one that is reported), that the checks before it have passed, and that the walk over words has no containers. It yields `FirewallTypeCorrect`, `WalkCorrect`, `AcceptedIsWithin` and `ViolationsAreReal`. The lemmas `ValueEndsProps`, `FrontProps` and `TopMatches` say what the end of a value does to the decoder's frames and that stack and frames have their objects in the same places.

**Onboarding** (`OnboardingProofs`, from `LexicalAssumption`: a name equals a path, an alias, or is similar to a degree of at most 1; and `LinesAssumption`). `MapFieldIsCandidate` shows that the stable sort has a first element (a least natural number, twice), so the mapper's answer is one of the scored candidates; `FinalScoreProps` bounds its score: after a hard conflict at most 0.65, and all bonuses together add 0.11, which stays below 0.80. `OnboardingInv` carries this through the pipeline with `Decided` (what the package holds is backed by the report or the registry) and the stages at which specification and registry are still empty. It yields `OnboardingTypeCorrect`, `ConflictsAbstain` and `MappingsAreJustified`. `DeployedIsLoadable` adds `PathsKnown`, every path the mapper or the assistant contributes fits the runtime's pattern, from `RuntimeAssumption`: the runtime knows the types the compiler uses, and the paths of both catalogs have the form it asks for. Of the reviewer nothing is assumed: the theorem says that a deployed specification loads exactly if no override has an empty name or an ill-formed path.

**Daemon** (`DaemonControlProofs`, from the assumption on controllers and PIDs). For any number of controllers, commands and crashes. `SerialCommandsTrack` states `DaemonTracked` for every behaviour in which no two commands overlap (`Serial`, which the run's single controller satisfies); `TrackedInv` adds that a daemon that serves or will serve is named by the file or by the command that has just created it (`LiveKnown`), and that before a command creates one no other is left (`OthersGone`).

**API** (`IngestAPIProofs`, from `APIAssumption`: the three kinds of threads are disjoint, the capacity is positive). For any capacity and any number of threads. The buffer is shown to be the last `Capacity` events of the log after every append (`RingInv`). `StatsBracketed` needs `CounterInv`: a counter, and what a thread has loaded from it, never exceeds the number of events whose senders are past it, for updates get lost but none is invented; and `AnswerInv`: what a stats thread has put together so far is already between the bounds. `SnapshotsAreWindows` carries the moment of the copy: the items are the window after some number of appends since the request came in, and a file whose second no other request used is empty between open and write.

**Parser runtime** (`ParserRuntimeProofs`, from `ParserAssumption`). For every specification, event and coercion. `AccountInv` follows each of the two executions entry by entry: a path is taken only by a visited field, a mapped key is an error or the source of a value. `OrderForgotten` says that keys, values, lineage and, up to order and one each, errors are a function of the set of visited entries alone; at the end both executions have visited all of them. Two entries of one path, or an entry that may read either of two spellings, would break this. `OnePathEach` and `OneSourceEach` exclude this in the properties, not in the specifications.

**Assurance services** (`AssuranceProofs`, from `AssuranceAssumption` and `PartsAssumption`: histories and baseline are sequences, batches have natural sizes, every reading of a line has finitely many fields, the empty word has no parts). `AssuranceInv` says which service has touched which variables (`ServiceInv`), that an input on record comes with what was computed from it (`InputInv`), and what each report says of its input (`ReportInv`). With it each property becomes a fact about functions:

* `CriticalsAreNotAveraged`: a mandatory rule lost once leaves fewer mandatory rules preserved than evaluated for ever, and no rounding is applied to this comparison;
* `CertificatesHold`: the certification gate implies the three promises;
* `StableIsTheSame`: `RoundSeesOne` shows that four digits are enough to see one in fewer than 20000, however ties are rounded, which bounds the blocks of a history; the critical fields are at most seven;
* `StableHasTheShape`: with at most six fields in both profiles together one field more or less is a sixth or more, above the threshold of 15 percent, and one changed type is above 0.5 percent; `BatchRead` says that a profile has the batches of its window, each with finitely many fields;
* `DetectionsSurvive`: field by field (`FieldByField`) what Normalize copies and what it works out, then rule by rule.

**Only model-checked**: liveness (`EveryRequestAnswered`, `UnsubscribeCompletes`, `StopTakesEffect`, `StartNotBlocked`), which needs fairness and ENABLED. Every other property of the passing runs is stated by a theorem.

## 5. Not modelled, and what reading showed besides

* `PerEventTimeout` (50 ms) is configured and never used; ERR_TIMEOUT only arises from a cancelled request.
* `main` never subscribes to the bus, so outside the tests published envelopes have no consumer.
* `RawStore`'s interface comment promises an error for an event ID that exists; `LocalFSStore` only looks under today's date and the given source.
* The API server stores no raw bytes: its envelopes carry a `raw_ref` under a fixed date to which nothing is written.
* `handle_repair` never looks at the drift report's state and never calls `rollback`; no downstream bus is passed to the shadow run, so isolation is always reported as verified.
* `restart` does not wait for the old daemon; the new one may lose the port and exit.
* Log rotation happens only when the daemon is started.
* Text-level work (format parsers, type inference of a text, similarity of names, rendering) is abstracted; exporters, benchmarks, demo and audit are left out, for they keep no state and have no concurrency.

Limits of the checked properties, which other values of the constants show:

* `RawStore!StoreSpec` violates `WriteOnce`: two calls for one ID both pass the stat, and the second rename replaces the file ("Overwriting an existing file is forbidden", `raw_store.go:24`).
* `PromotionKeepsCritical` needs its bound: one diverging line in 20001 is rounded away before it is compared with zero (`comparator.py:220`).
* `MCDaemonControl.cfg` with two `Controllers` violates `DaemonTracked`: check, Popen and the write of the PID file are not one step; by `SerialCommandsTrack` overlapping commands are the only way to it.
* Without `OwnSecond` in `SnapshotIsWindow` two `Snappers` violate it: snapshots of one second share a file name.
* Without `OnePathEach` or `OneSourceEach` in `Deterministic` the run violates it: the order of Go's maps decides between two fields of one path, or two spellings of a key (`runtime.go:19` promises determinism).
* `StableKeepsMeaning` needs its bound: one lost block of 20000 is a regression of 0.0000, because the float `1.0 - 19999/20000` lies just under the tie (`semantic.py:361`), although ADR-0007 speaks of any regression. `StableKeepsShape` needs its six fields: one field lost of seven is 14.3 percent, below the threshold (`structural.py:223`).

What reading for the newer modules showed:

* `inspectJSONStructure` ends at `io.EOF`, which the decoder also returns inside an open container: truncated JSON is accepted (`EndOfJSON`), although "any malformed input produces a QUARANTINED or REJECTED decision" (`firewall.go:91-92`).
* `to_evidence` takes STABLE when no drift state is given, while by ADR-0005 a certified passport requires "a measured drift observation"; a DRIFTED source can be CERTIFIED.
* The errors of a parse are appended while Go ranges over a map, so two failing fields are reported in either order (`runtime.go:246`), against the determinism of `runtime.go:19`; `Deterministic` compares errors up to order.
* Two JSON keys, one with a dot where the other has a slash, have one pointer (`lineage.go:175`); `LineageLeadsBack` asks for a field of that locator that has the value.
* `merge_overrides` checks neither name nor path of an override (`compiler.py:36`): what the Go runtime will refuse is compiled, benchmarked and deployed.
* Where plain text wins the vote no line is corrupted: each becomes a message (`profiler.py:842`), so the rate of parse failures is zero whatever the lines hold.
* In the mapper the alias `response_code` belongs to two paths; the registry of the assistant knows `dest.ip` beside `dst.ip`, of which rules and validator read only the second; the compiler types `network.bytes_*` as strings.
* `all(int(v) ...)` in the mapper's type check stops at a zero, so words behind it pass for integers.
* The mapper's catalog calls a status code `http.status_code` (`mapper.py:409`), Normalize reads `http.response.status_code` only: the code of an onboarded source does not reach the event. `ActionDetectionsSurvive` names this condition.
* No place of the normalised event holds transferred bytes, so DET-009 never matches one; DET-010 wants outcome success or none, but a deletion is normalised to `unknown`.
* `parse_fn` of the test bench copies fields and cannot fail, so the success rate is 1 for all that passes the static check.

## 6. Plan

1. (done) gateway with store and bus, self healing with deployment, daemon, API, parser runtime; the gateway and the deployment engine proved.
2. (done) firewall and onboarding with their proofs, normalisation, detection contracts, drift detection, certification.
3. (done) proofs about the daemon, the API, the parser runtime, the assurance services, promotions and deployed specifications.
4. Composition of `Normalization` with `ParserRuntime` and the mapper's catalog, so that the effect of a promotion on detections can be stated; byte spans of lineage.
