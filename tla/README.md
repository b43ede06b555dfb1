# Verification of Syllog

TLA+ specifications of Syllog, a compiler and runtime for typed model
pipelines, written from the Rust sources under `src/crates`. TLC checks them on
small instances. TLAPS proves most of the safety properties for every value of
the constants: all those of the pipeline executor and its refinement of an abstract
scope, those of the package fetcher, the registry, lockfiles, provider streams and routing,
the development server, the query database, async tasks and the sandbox.

## The system

| part | state and operations | what is hard about it | modules |
|---|---|---|---|
| pipeline executor (`syllog-runtime/src/pipeline.rs`) | root tasks, groups of stages, semaphore, circuits, event logs; `execute`, `cancel`, `wait`, retries, deadlines | children, deadlines, panics, cancellation and the waiting caller interleave | `Pipeline`, `CircuitBreaker`, `LifecycleLog`, `StructuredScope` |
| development server (`syllog-dev-server`, `dev` command) | observed fingerprints, quiet periods, bounded event channel; poll, build, shutdown | edits during builds, a full channel, a dropped handle | `DevServer` |
| package cache, resumable download, `fetch`, `vendor` | `.part` and cache files, staging directory | kills between steps, range replies, processes that share files | `PackageFetch` |
| registry, `publish`, `add` (`syllog-registry-client`, `syllog-cli`) | releases, nonces, yanks; requests in the network; the manifest file | lost replies, repeated requests, edits that overlap | `PackageRegistry` |
| resolver, lockfile, loading of locked packages (`syllog-package`, `syllog-cli`) | search state, remembered failures; `Syllog.lock` | backtracking with early exits; a stale lockfile | `Resolver` |
| provider streams and transports (`syllog-proxy`, `syllog-provider-*`) | two bounded channels, cancellation handle, deadlines, bytes not yet decoded | lost wake-ups, backpressure against cancellation and deadlines, chunk borders | `TokenStream`, `SseDecoder` |
| provider registry and router (`syllog-proxy`) | adapters, snapshots, tripped routes | snapshots of different ages | `ProviderRouting` |
| query database (`syllog-compiler/src/database.rs`) | sources with revisions, two caches, a cancellation flag | stale entries, cancelled partial results | `QueryDatabase` |
| effect inference, wasm sandbox (`effects.rs`, `syllog-runtime/src/lib.rs`) | fixed point over the call graph; policy, fuel, memory | recursion; order of the checks, limits | `Sandbox` |
| async lowering and task runners (`async_lower.rs`, `task.rs`) | state machines, events | what is dropped on cancellation and panic | `AsyncTask` |
| module graph and package linking (`modules.rs`, `package.rs`) | ids of definitions, members and locals | import cycles, colliding ids, order of the sources | `PackageLink` |
| MIR lowering, verifier, interpreter (`mir_lower.rs`, `syllog-ir`, `syllog-interpreter`) | blocks under construction; dataflow facts; frames, budgets | loops and joins, moves, drops, limits | `MirLower`, `Mir`, `MirInterpreter` |

The executor is the core: it is the part with most concurrency, and everything
a compiled pipeline does at run time goes through it. The compiler parts are
sequential; what is worth checking there is an algorithm against what it should
compute. The package parts meet in files.

## Modules

**`Pipeline`** models `pipeline.rs`. A handle is one call of `execute`. For each
handle the module has the root task (`root`, `group`, `outputs`, `failure`,
`verdict`, `permits`), the stage executions of its current group (`pc`,
`attempt`, `result` and their private event buffers), the cancellation flag, the
scope's log, and the caller of `wait()`. Circuits are shared by all handles.
- `Execute`, `Cancel`, `Wait` are the public operations.
- `Start`, `ObserveCancellation`, `AdmitGroup`, `StartSerial`, `StartFanOut`, `Join*`, `FanOut*`,
  `Finish` and `Snapshot` are the steps of `run`, `run_groups` and `run_fan_out`. The check of the
  cancellation at the top of the loop (`AdmitGroup`) and the entry of the group after it are two steps: `cancel()`
  may be called from another thread in between, and the group then starts in a cancelled scope.
- `AcquirePermit`, `EnterStage`, `DenyStage`, `ContinueAttempts`, `Call`,
  `Return`, `Backoff*`, `DeadlineElapsed`, `ChildPanics` are the steps of
  `run_stage`. An action ends where the code awaits or releases a lock that
  another task can take.
- `WaitJoined`, `WaitCancelled`, `GraceElapsed` are the arms of `wait()`; `Detach` is what follows the last one, the root
  running on meanwhile; `Reap` is the supervisor of detached tasks.

`CircuitBreaker` holds the operations on one circuit, `LifecycleLog` the bounded log.
`Extend` is written in closed form; `MCPipeline` compares it with the loop over
`push` that the code is (`ExtendIsRepeatedPush`, evaluated when the capacity is at most 3), and the
theorem `ExtendIsPushLoop` shows for every capacity that one more event is one more push.

What is abstracted: time (timers are actions that may happen when armed; the runs
cover every order), payloads (an output is the position of the stage that made
it), durations, and the wording of errors. The result of an operation, the
record in its circuit, the event and the release of its permit are one step: all that lies between them is the lock of the
circuit table, which is held for one lookup and taken outside the deadline, so a wait for it looks like an operation that takes longer. Stages that share a name share `reset_after`. The `u32`
failure counter saturates in the code; no run comes near that. Errors an operation
returns that are neither retryable nor a cancellation take the path of `Fatal`.

**`StructuredScope`** is the abstract specification: what the owner of a scope may
rely on. A batch of children is admitted only in an open scope that is not being stopped, so at most one batch, admitted before, starts after a stop;
a scope closes over joined children only, its owner is told a result once it is closed, or gives up after a stop, and then the scope
is an orphan until it closes and is reaped. `Pipeline` implements it (`ImplementsScope`).

**`DevServer`** models `serve`, `run_loop`, `build_target` and the loop of
`syllog dev` with `--once`, interruption and dropped handles. Compilation is a
predicate on source contents. The read of the source is merged with the
`Building` event before it, as nothing else the task does lies between them. Edits bring
fresh contents (`Reverts = FALSE`): the server compares fingerprints, so a file
changed and changed back around a build goes unnoticed.

**`PackageFetch`** models `fetch`, `download_resumable`, the cache and `vendor`.
Files are inodes, so a process that opened `.part` writes on after another
process renamed it. Archives are sequences of chunks and a digest stands for
contents. A kill, a broken connection, an error status and a wrong
`Content-Range` are one action, `Fail`: the command ends and what was written
stays. The registry, external to this code, honours ranges or ignores them; when it
honours them it refuses a range that starts at or past the end. `exists` and
`load` of a cached file are one step, since cached files are never removed. The
loss of written but unsynced data in a power failure is not modelled.

**`PackageRegistry`** models `LocalRegistry`, signed requests and the commands `publish` and
`add` of one project. `Publish` is the registry's handler with its checks in the order
of the code. A package name is the sequence of its words between hyphens, so that a namespace owns its name and what follows it after a hyphen. `publish` may run locally or over HTTP; the network loses, delays and
repeats requests and loses replies, and the client gives up at its timeout, after which the
user may try again with the same or another nonce. `AddRead` and `AddPersist` are the read and
the atomic replacement of the manifest that `publish` packs. Digests and signatures are injective.

**`Resolver`** has `resolve` with its backtracking search and the memo of failed
states as a recursive function of the selected releases, the constraints and the releases the loop
has not come to, then the lockfile, then `load_locked_dependency_sources` in a later build. By then the manifest may have been edited, the lockfile may have another format
and the package files are whatever the build finds, which need not be what was locked: missing, other contents, or an archive that
says something else than the index did. A locked checksum stands for the archive it was computed from. That every entry of a lockfile is reachable is said without the work list
of the code: no smaller set of entries is closed. The reference is the set of all choices of one release
per name. A requirement is the set of versions it matches, or does not parse.

**`SseDecoder`** holds the decoders as functions of the bytes: `Push` and
`Finish` for SSE, the line reader for local models. A body is cut into chunks anywhere, also inside
a field name, a line end or a multi-byte character. **`TokenStream`** is one invocation over
them: the adapter task with the steps of `TokenSink::send` (check, register, check again, poll,
reserve), the transport task with its deadline, the thread in `cancel()` between
setting the flag and notifying, and a consumer who reads, stops or drops the stream.
The reference is the decoding of the whole body at once.

**`ProviderRouting`** models registration, snapshots, tripped routes and selection, which is
the first available route (`Select` relates each result to the routes before it);
an invocation takes a snapshot, selects and resolves in separate steps.

**`QueryDatabase`** models every operation of `IncrementalCompilerDatabase`. A source
text is what the front end makes of it. `MaxRevision` stands for `u64::MAX`, where the
counter saturates.

**`Sandbox`** follows effects from inference through the artifact's manifest and the admission checks
to the running guest, which is any run of the program with its calls, effects, host
calls, fuel and memory. Compilation, instantiation and the lookup of the export are steps that may fail; a start function runs inside
instantiation, under the same limits, and whatever stops it there is reported as a failed instantiation. wasmtime itself is external: installing the fuel and
linking the host function cannot fail under the configuration and the names the code gives it.

**`AsyncTask`** builds the state machine of an async function, verifies it and drives it
with a control that cancels or panics at one await.

**`PackageLink`** is `analyze_modules` and `compile_package`: module identities, definitions,
imports, cycles, ids, the last handed out by a counter. The reference says directly when a package is well formed.

**`Mir`** is the verifier as a conjunction of its checks, with both dataflow
fixed points; **`MirInterpreter`** executes one statement or terminator per step
under the three limits, integers having `Width` bits; **`MirLower`** is the lowering of
functions to blocks and the insertion of drops. Its reference, `Meaning`, evaluates the source directly.

**`MCPipeline`, `MCDevServer`, `MCPackageFetch`, `MCSandbox`, `MCComponents`, `MCLowering`** give the constants
their values. The parts in `MCComponents` share no state; one of them, chosen at
the start, runs while the others stay as they began, so its state space is the sum of theirs.
The proofs are in **`PipelineTypes`, `PipelineSafety`, `PipelineRecords`, `PipelineEvidence`** and **`PipelineProofs`**
(the executor), **`ServiceProofs`** (routing, the development server, the query database, streams), **`ToolchainProofs`**
(the registry, async tasks) and **`ArtifactProofs`** (lockfiles, the sandbox, fetching). Definitions that stand just before
another one and vary it (`LeaveWithPermit` before `Leave`) are deliberate bugs;
no specification uses them. With one in place of its neighbour, a property fails.

## Runs

| run | instance | shows |
|---|---|---|
| `pipeline` | one scope with any of seven plans of up to three stages, two permits; or two scopes side by side that share a circuit, with thresholds 1 and 2 | type correctness, joined children, permit balance, no swallowed failure, root cause, merged outputs, single cancellation record, bounded attempts, evidence of success, failures counted and circuit state agree, refinement of `StructuredScope` |
| `pipeline_liveness` | one scope, three plans, one permit, log of one event | `wait()` returns, detached roots are reaped |
| `dev_server` | two targets, channel of two | fresh edits get built, ids and counters agree, a dropped handle ends the service |
| `package_fetch` | two packages of three chunks, two faults | cache and `vendor/` hold only complete verified archives, chunks land where they belong, fetch completes against a registry that serves whole archives |
| `components` | nine parts, see below | what the next table lists |

The run `components`:

| property | says |
|---|---|
| `TokensInOrder`, `NoSilentTruncation` | the consumer gets the tokens of the whole reply in order, and a stream that ends without an error is complete; a body delimited by the close of the connection and cut by an orderly close looks complete to the code, and is outside the property |
| `OneTokenAfterCancel`, `SinkWakes` | after `cancel()` at most one token enters the channel, and a blocked sink wakes |
| `InvocationEnds` | when the consumer drops the stream, adapter and transport end; nothing is said of a stream that is kept and not read |
| `CallersAgree` | invocations over different snapshots agree on a provider's adapter and take the first available route |
| `ReleasesImmutable`, `ReceiptHonoured` | stored releases are final; reported success is true, whatever the network did |
| `AddsKept` | only overlapping edits of the manifest lose a dependency (one that was replaced by a document read before it is exempt: `add` takes no lock) |
| `AnswersFresh` | cached answers equal recomputed ones |
| `ResolutionSound`, `LoadedSatisfiesManifest` | resolutions are solutions, a conflict means there is none; a build loads what was locked, and refuses only if the manifest, the format or a file changed or the index described an archive wrongly; it never loads what the edited manifest excludes |
| `BoundsExact`, `RunContained` | declared effects are checked through recursion; a guest, its start function included, stays within its policy, and a refused growth of memory ends the run |
| `TaskRunsAsWritten` | events and drops of an async task are those its control calls for |
| `LinkedFaithfully` | a package links exactly when it is well formed, in any order of its sources, without colliding ids |
| `VerifiedProgramsRun` | a verified program never reads what was moved, dropped or never set |
| `RunsAsWritten`, `OwnedValuesDropped` | compiled functions compute what the source means and leave no owned value undropped |

Seven runs show a disagreement between a comment or a document and the code:

| run | the comment or document | what happens |
|---|---|---|
| `deadline_circuit` | "Consecutive terminal failures that open the circuit." | failures by deadline are not recorded |
| `masked_failure` | Cancelled is "Explicit cancellation." | `wait()` answers `Cancelled` for a failed child whose sibling outlives the grace period |
| `dev_shutdown` | "Stops polling and waits for the service task to exit." | `shutdown()` waits for a task that waits for room in the channel `shutdown()` does not drain |
| `stuck_part` | "Resumes an interrupted archive download ..." | a `.part` of full length is answered with 416 for ever |
| `shared_part` | "atomically publishes the completed, checksum-verified destination" | a second process rewrites `.part` between verification and rename |
| `nested_block` | the grammar admits a block wherever an operand stands (`grammar.pest:81`) | `let x: U64 = { 1 }; x + 1` returns 1: lowering the inner block returns from the function |
| `start_limits` | "`memory.grow` is intercepted by a store resource limiter. Both violations return `SandboxError::MemoryLimitExceeded`." | a start function's refused growth is reported as `Instantiation` |

Disagreements met while modelling that have no run of their own; the models follow the code:
- a `return` in the block of a match arm is overwritten by the arm's jump to the join
  (`mir_lower.rs:601`); a match on a `Bool` lowers to `Discriminant`, which the verifier accepts and the
  interpreter refuses (`mir_lower.rs:612`, `syllog-interpreter/src/lib.rs:295`);
- the verifier does not look at the base of an assigned field, and does not count a call's destination as
  an overwrite, nor the entry's parameters, nor `Add` on `Bool`;
- in an offline resolution a package with no cached candidate ends the whole search, though another
  choice for a package that requires it may avoid it (`resolver.rs:287`);
- `send_terminal` does not watch the cancellation, unlike `send` (`stream.rs:41`): a consumer
  who keeps the stream without reading holds the task.

**Bounds.** `pipeline` needs three branches and two permits so that one child waits
for a permit while two run, and two groups so that results flow on; its log has
nine entries so that complete and truncated logs both occur. Two scopes matter
only where state is shared, which is the circuit: two run together only with the two single-stage plans of `CircuitPlans`, and the caller of the second
does not cancel (`ScopesNext`, whose steps are steps of `Next`); the proofs cover any number of scopes and any calls. `dev_shutdown` has a channel of four events in place of 64: the code gets there with
more than sixteen targets due in one round, at four events per build.
`package_fetch` has three chunks so that a resumed request can start in the middle, and two faults so that
a resumed download can be interrupted again. Deadlock checking is off in
all runs because all these systems end: a scope is answered, a service stops, a command exits.

In `components`, channels hold one element, so that both are full as often as
possible, and five replies cover SSE and lines, a clean end, a cut end, `[DONE]`, chunks
over the limit of nine symbols, an event that is no JSON and a failing local model. Two publishers share a project and a version,
which is where they collide, with two nonces, so that one can be used again. One publisher retries, or two
publish at once, or one publishes while the manifest is edited, or three edit it; three adders are needed
for an overlap beside an edit that does not overlap. Of four adapters two share a name and fit the
runtime and two are too new for it. The database has two files and three texts, and `MaxRevision = 2`
lets the counter saturate within a few edits. Requests of the resolver range over three packages
of two versions, enough for a diamond, a step back and a conflict, and over builds that find the manifest edited, the format unknown, a file missing or
another archive in its place. Artifacts are malformed, invalid, mistyped or have a start function. Programs of three definitions have
cycles of calls, async functions up to three awaits, packages two or three files with cycles of imports and a
module in two files. MIR bodies have loops back to the entry and joins; the 206 source programs combine lets,
matches, calls, recursion and owned values; `Width = 3` makes overflow happen, and the limits (40 instructions, depth 3,
30 bytes) are reached.

**Fairness.** `Pipeline!Fairness` is weak fairness of the tasks tokio schedules and of
armed timers; operations, being user code, are assumed to return only when they are not in
`Hanging`; whether `execute`, `cancel` and `wait` are called is left open. `DevServer` has weak fairness of the
task and the command, and strong fairness of observing the shutdown signal,
because the unbiased `select!` does not pass over a ready branch for ever. `PackageFetch`
assumes that a running command goes on and that a failed one is run again; faults are
bounded, so from some point on the network works. `StreamFairness` is weak fairness of the
adapter and transport tasks, of the armed deadline and of `notify_waiters` once the flag is set, since
`cancel()` goes on without waiting. The network is not assumed to answer: opening and
reading are fair only after the deadline, which ends them. The consumer is
never assumed to read.

## Proofs

**The executor**, for any plans, handles, fan-out limit, circuits and log capacity (`PlansAssumption`,
`BoundsAssumption`, `NamesAssumption`, `EventCapacityAssumption`: plans are well formed, limits are
positive). `PipelineProofs` states

- `Invariance`: `Spec => []IInv`, and from it `TypeCorrect`, `ChildrenJoined`, `PermitsKept`,
  `FailuresReported`, `CauseReported`: `[]TypeOK`, `[]StructuredJoin`, `[]PermitsConserved`,
  `[]NoFailureSwallowed`, `[]RootCauseKept`;
- `RecordsKept`: `Spec => []RInv`, and from it `RetriesBounded`, `CancellationLoggedOnce`,
  `EvidenceComplete`: `[]AttemptsBounded`, `[]CancelledOnce`, `[]EvidenceOfSuccess`;
- `FanOutMerges` and `CircuitsConsistent`: `[]OutputsMerged`, `[]CircuitConsistent`;
- `ScopeImplemented`: `Spec => ImplementsScope`, the refinement of `StructuredScope`.

None of the properties is inductive alone. `IInv` adds, scope by scope: live stages belong to
the current group (`PlacedIn`), or a join could not be matched with its stage; a
serial group runs its stages in order over successes (`SerialOrder`) and a
fan-out without a recorded failure has joined successes only (`FanOutTally`), which
together give that a passed group has only successes; results and verdicts exist only where
the control point says so (`Settled`); and whoever stops because of the token
was asked to or follows a joined failure (`CauseKnown`), which keeps `Cancelled` from
replacing a cause. The proof first shows that a step of one scope leaves the
others alone (`OthersSame`, `SameScope`), then treats the actions of a scope
one by one: their types in `PipelineTypes`, the rest of `IInv` and the circuits in `PipelineSafety`.

`RInv` adds what is on record. `AttemptInv`: a stage that may still start an attempt has
one left. `CancelledInv`: only `cancelled()` writes the event, never a child.
`EvidenceInv`: a success is, at every moment, in the log, in the buffer of a child that is not joined
yet, or the log is full, and a log that is full stays full; the outcome is a copy of that log.
`CallerInv`: `wait()` gives up only in a cancelled scope. What `push` and `extend` add to a log of any capacity is a
group of lemmas in `PipelineRecords`, the steps are in `PipelineEvidence`.
`MergeInv` says that the results joined so far are those of distinct joined stages of the current group, so that at the
end all are there, and a sequence of the numbers 1 to n that ascends is the sequence of them in order.
`CircuitConsistent` is inductive beside `IInv`: whatever result arrives late, the two halves of an entry are written together.
For the refinement every action is shown to be one of `Admit`, `Spawn`, `Join`, `Stop`, `Close` and the others of `StructuredScope`, or a
stutter; it needs `CallerInv`, since an owner gives up only after a stop.

Two facts about finite sets of numbers, `Counting` (cardinalities of the permit holders) and
`Numbering`, are hypotheses of the step lemmas and proved from the library in `PipelineProofs`
(`CountsStages`, `NumbersEntries`), so that no theorem depends on them.

**Services** (`ServiceProofs`).
- `CallersAlwaysAgree`, for any adapters, callers and routes: snapshots are parts of what is registered, names are never registered twice, and
  a selected route is the first that was not tripped.
- `EditsNotLost`: `~Reverts => (Spec => []QuietIsCurrent)` for the development server. `UpToDate` says for each path that is not pending,
  not about to be read and not edited since the last poll that it was built from what it contains. The condition is needed: with contents that
  come back, the fingerprint of a poll can match a file that was something else when it was built. The runs have `Reverts = FALSE`.
- `AnswersAlwaysFresh`: whatever is cached is what the sources say now, since edits
  remove what they touch, so a revision that matches after saturation does no harm.
- `OneTokenAfterCancelAlways` rests on `LateInv`, which says in which steps of `send` a
  token may still pass once the flag is set. `WakeNeverLost` is the safety half of `SinkWakes`: a sink that waits
  was registered before it checked the flag a second time, or the notification is still to come (`WakeInv`).
- `ErrorsReportedLast` and `QuietEndIsClean` are the parts of `TokensInOrder` and `NoSilentTruncation` that are about control: an error is the last thing
  the consumer sees and a cancellation is not reported as one; a stream that ends without an error, not cancelled, has nothing failed behind it and
  no frame left (`NothingFailed`). `StreamInv` follows a failure from the transport through the frame channel, the adapter and the token channel: at each moment it is on its way,
  was delivered, or nobody listens.

**Tools** (`ToolchainProofs`).
- `ReceiptsAreHonoured` needs `PublicationInv`: a client that holds a receipt sent
  the request it answers, and the registry holds that request's archive under its name and version. `NoncesAcceptedOnce` ties accepted
  requests to used nonces. `AddsAreKept` needs `EditInv`: a staged document carries its own dependency and every finished one its command
  has seen, unless that was overtaken before. `ReleasesAreImmutable` is an action property of the handler.
- `TaskFollowsSource`: `[]TaskRunsAsWritten` for functions of any number of awaits. The states of a built machine are given in closed form
  (`MachineStates`), the events up to an await likewise (`Past`), and `TaskInv` says for each state of the runner which events have happened.

**Artifacts** (`ArtifactProofs`).
- `AcceptedLockIsMinimal` is about any lockfile, also one merged or edited by hand, and any package files found at build time: if `validate_lock_graph` and `verify_locked_archive` accept them, the archives solve the
  manifest and no proper part of them does. Solution, because entries agree with their archives and with each other; minimal, because a part that is a solution is closed under dependencies, and the
  smallest closed set of entries is all of them. `BuildsLoadWhatIsNeeded`, `[]LoadedSatisfiesManifest`, follows; nothing is needed about the search.
- `RunsAreContained` (each admission check passed is kept as a fact about the artifact, before its start function and its exported function run) and `BoundsAreExact`
  (during inference each set holds only reachable effects, and at the end the sets are closed under calls).
- `VendorIsComplete` holds for any number of processes. The others are for one process, the `shared_part` run being the counterexample for two: `CacheAlwaysIntact` and
  `PartAlwaysAligned` rest on `FetchInv`, which says for each control point of the download what the open file and
  the `.part` name refer to, and that every chunk written so far stands in its place. The
  proof fixes the process (`OneFetcher`) and treats the steps of a download one by one.
  `FetchTypeCorrect` is its type invariant.

Each theorem assumes only the named assumptions of the module it is about. The proofs use lemmas of their own about sequences
in place of the library's: with its theorems in scope every obligation is larger, and the provers slower.

**Only model-checked**, with the reason:
- all liveness: `WaitReturns`, `DetachedReaped`, `EditsBuilt`, `DroppedHandleEnds`, `FetchCompletes`, `SinkWakes`, `InvocationEnds` (fairness is out of the prover's reach);
- `BuildsCounted`: a sum over all targets, an induction over data;
- that the tokens are those of the reply (`TokensInOrder`, the rest of `NoSilentTruncation`): the decoder is a fold over the bytes, and comparing a body cut into chunks with the whole is an induction over them;
- `ResolutionSound`: what the recursive search returns;
- `LinkedFaithfully`, `VerifiedProgramsRun`, `RunsAsWritten`, `OwnedValuesDropped`: closures of graphs, dataflow fixed points and recursion over syntax trees.

## Not modelled

- The parser (derived from a pest grammar), the lowering of syntax trees to HIR, the type checker and
  the ownership analysis of expressions: passes over trees without state that outlives a
  call. A model would repeat them clause by clause, with nothing simpler to compare them to.
- Wasm code generation: instruction bytes. Its input is what `Mir` verifies.
- The JSON of provider requests and replies, credentials, construction of HTTP clients and
  start-up of local model processes, beyond the step that it fails.
- Project discovery, the manifest's syntax, the remaining commands: one file read, argument
  parsing and printing. The conformance suite is a test harness.
- Unpacking of archives, malformed cache keys, size limits of registry replies.
- The step between the temporary lockfile and its rename, and loss of unsynced data in a power failure.

Without a property: a file of the development server that is changed and changed back
around a build, and `syllog dev --once`, which counts finished builds and not targets, so that a target
built twice stands for one not built yet (`dev.rs:30`). Nothing in the repository says what should happen there.
