# jscout in TLA+

jscout indexes a repository (Rust and JavaScript/TypeScript) into one SQLite
file, derives a structural graph from it, enriches that graph with type-checker
facts, embeds it, lets a language model describe it, and serves it to agents
over MCP. `jscout watch` keeps all of that current while the tree is edited.

Extracting chunks and ranking results are data transformations that unit tests
reach. What tests hardly reach is the control: which work a change puts the
watcher under while other work runs, which checker publication belongs to which
index publication, who is told of a cancellation, which vectors answer for
which rows, what is left after a crash between two transactions. This directory
models that control, checks it with TLC and proves much of it with TLAPS.

## The system

| component | state | operations | hard part |
|---|---|---|---|
| Watch coordinator (`src/src/watch.rs`, `Coordinator`) | generation numbers; the `active`, `ready`, `retry` slots; refresh scope; checker backlog; parked flag; carry-free requirement | `mark_*`, `next_work`, `finish_*`, `observe_checker_snapshot` | every pair of operations in every order |
| Watch loop (`fn watch`) | three deadlines, the notification channel, the phase worker | drain, start, monitor, finish, wait | events during any phase; lost events; failures; liveness |
| Checker publication (`checker/enrich.rs`, `store.rs`, `indexer.rs`, `structural.rs`) | batches, project runs, staged facts, the projected graph | stage, carry, activate, project, rebind, discard | several transactions, several processes, crash between them |
| Checker job pool (`checker/jobs.rs`, `checker/process.rs`) | cancellation flags, registered controls, queue, results | run jobs, deliver a cancellation | a cancel between two jobs |
| Checker process client and TypeScript sidecar (`checker/process.rs`, `checker/src`) | active request, plan session, worker, registered compilers, poisoned flag | request, cancel, replace a worker, drop, exit | a cancel that arrives after its request has ended; messages of a replaced worker |
| LLM pool and gateway (`llm/process.rs`, `gateway/src`) | interrupt gate, in-flight requests, cancellation queues | wave, dispatch, cancel, abort, timeout, drop | Ctrl-C racing a dispatch, a cancel racing its request |
| Scouting (`scouting`, `semantic.rs`) | run ledger, artifacts | plan, claim, publish, refresh, sweep | processes side by side, crash with claims held |
| Code vectors (`embed.rs`, `store.rs`) | vector cache, occurrences, virtual table, completion markers | embed, synchronise, publish, search | row ids used again, readiness claimed too early |
| Semantic vectors (`embed.rs`, `semantic.rs`) | the same for artifacts | annotate, embed, synchronise, search | a list that grows old while the provider works |
| Documentation plane (`docs`, `indexer.rs`) | documents, provenance, vector generation | index attempt, blame, validate, embed | Git moving meanwhile |
| Search, structural analysis, extraction, MCP, CLI | little or none | reads over a snapshot, pure functions | not control |

They interact through the SQLite file (index, checker, embeddings, artifacts;
no lock held across transactions), through calls from the watch loop, over
stdin/stdout with child processes, and through the notification channel.

`PROJECT.json` has one entry per component, with what is and is not modelled,
the hazards of the code at their lines, and the lines each definition models.

## Modules

| module | models | extends / composes |
|---|---|---|
| `WatchCoordinator` | `struct Coordinator`: one action per state-changing method | |
| `WatchLoop` | `fn watch` around the coordinator, with tree, channel, index and checker publication | extends `WatchCoordinator`; implements `WatchObligations` |
| `WatchObligations` | what the watcher promises, with no generation, phase, retry or clock | abstract |
| `CheckerPool` | the workers of an enrichment, the flags and threads that cancel it, both backends | sees a checker as `CheckerCall` promises it |
| `CheckerPublication` | batches of checker answers: enrichers, index publications and the projected graph over one database | |
| `CheckerSidecar` | client, control threads, protocol host, workers and compilers of one sidecar, and the pipes between them | implements `CheckerCall` |
| `CheckerCall` | what a caller may rely on when it calls a checker | abstract |
| `SemanticStore` | the run ledger and the artifacts, with the operations of one transaction | |
| `Scouting` | the scouting commands of several processes over that store | extends `SemanticStore`; implements `ScoutRegister` |
| `ScoutRegister` | what readers of semantic memory may rely on | abstract |
| `GatewayPool` | a command's waves of completions, its gateways and Ctrl-C | implements `ConsoleInterrupt` |
| `ConsoleInterrupt` | what Ctrl-C promises the user | abstract |
| `VectorPlane`, `CodeVectors`, `SemanticVectors`, `DocsPlane` | the three vector planes and what publishes under them | |
| `*Proofs` | the theorems (below) | each extends the module it is about |
| `MC*` | values for TLC | each extends the module it instantiates |

### WatchCoordinator

The variables carry the names of the struct's fields. `active`, `ready` and
`retry` hold a `Work` record or `None`; `retry_attempts` is the array indexed by
phase. `deadline_passed` stands for both `retry_at` and the debounce timer: the
coordinator waits for only one of them at a time, arming either clears it,
`Elapse` sets it. `Reason` values only reach the log. `DirtySignal` is a
record; its constructors are operators of the same name, and `EventSignals` is
what the classifier and a backend error can produce, merged in pairs as
`DirtySignal::merge` does.

`MarkDirty`, `Advance`, `FinishError` and the others stand for whole methods,
the calls they make included. `CoordinatorNext` lets every legal call happen in
any order: legal means what the loop guarantees (a `finish_*` call only for the
phase that is active, `observe_checker_snapshot` only while a refresh is
finishing). That `fn watch` calls it no other way is a theorem
(`LoopIsLegalCaller`).

### WatchLoop

`pc` is the loop's position: `top` (timers), `drain` (`drain_events`), `next`
(`next_work`), `refresh` and `refreshed` (index publication and the drain that
follows it), `phase` (worker running while the loop polls), `wait` (the blocking
receive), `stopped`.

* `disk`, `index` give a version to each kind of input. The kinds are those the
  code distinguishes: a checker-eligible source, a source with no checker
  affinity, a document, a boundary (ignore file, manifest, Git control: indexed
  only by a full refresh), the repository configuration (a checker-input signal
  and the documentation policy compared in `refresh`).
* A refresh reads every input at some moment between its start (`seen`) and its
  end, so it may contain some of the edits made while it ran.
* `checker` is the active publication: its digest and the compiler inputs it was
  computed from. `CheckerAfter` is the indexer's retain / rebind decision as the
  watcher meets it.
* Every drain may stop early: an edit's notification may still be on its way.
* `answered` is what the last enrichment that succeeded answered for: the digest,
  the compiler inputs it validated, and whether it *kept* what was published.
  Activation keeps a publication of the same digest, whatever inputs it was
  computed from, when the run has staged no fact (`enrich.rs:3907`, `:4024`); it
  stamps the empty batch, which a later run that is not forced may reuse
  (`ReusesStamped`). Whether a run finds facts is left open, so
  `EnrichmentSucceeds` may take either branch. A terminal failure leaves no
  answer standing.
* `LoopAssumption` says, among types, that no boundary event is lost: a
  reconciliation marks sources, and nothing repairs a lost manifest or ignore
  file event but the next full refresh.

### WatchObligations

A change obliges the watcher to an index publication, perhaps a full one,
perhaps a checker publication; each obligation ends only with the publication
that discharges it; the watcher settles with nothing owed, or with only the
checker owed and the checker parked. `OwedNow` in `WatchLoop` is the refinement
mapping: an index publication is owed until a refresh of the desired generation
has been published, whatever slot the generation's work is in.

### CheckerPool

`enrich` queues one job per project; each worker of `jobs.rs` reads the flags,
claims the next job, launches a checker, sends requests, reports on a channel;
the enrichment's own thread records the results. `flags` is
`CANCELLATION_FLAGS` (interrupt, operation, and whether the operation cancel has
been delivered), `monitor` is the watch loop while it cancels a superseded pass,
`handler` the thread of Ctrl-C. A checker in flight ends as `CheckerCall`
promises; an embedded one is not told and looks at the flags itself.

Abstractions: claiming a job and registering its checker are one step; the
exact reuse, which ends a pass before its pool, is left out; two projects are
enough because one worker can claim both.

### CheckerPublication

`enrich` asks the type checker about the member calls of the index, stages the
answers in a *batch* of the database, and publishes the batch; the indexer
decides with every index publication what becomes of the published one; the
structural graph shows the facts of the active batch. They share nothing but
the tables, and a process may be killed anywhere.

* `disk`: versions of the sources, of the Rust code (a change of the code digest
  that the checker does not see), and of each project's config and external
  inputs. An edit toggles a version, so inputs also return to what they were.
* `index`: what the published index has of them. `rows` numbers the extraction
  that assigned the rowids: a reset, or a changed source, may assign new ones.
* `batches`: `checker_enrichment_batches` with the tables that hang on it. A
  project's run has its `status`, `kind` (`execution_kind`), planning fingerprint
  (`conf`), validated `inputs`, and `cover`: its rows of
  `checker_occurrence_projects`, each with the fact it gave.
* `graph`: the projection, with the digest and rows it was built from.
* `proc`: where each `enrich` stands and what it read earlier: its plan, the
  tree as its freshness cache may have seen it, its jobs, the inputs each
  project's checker has loaded, the files a project failed on.

One action is one transaction, with the reads that prepare it: `Plan`, `Reuse`
(the exact reuse), `CheckReuse` and `ProjectRetirement` (retire a stale
publication), `OpenStaging` (resume, clone, or open a batch), `CarryForward`,
`PrepareProjects` (skip, reset or queue each project; several transactions of
one thread, taken as one), then per project and in any order `StartProject`,
`StageBatch`, `StageFileFailed`, `CompleteProject` or `FailProject`, and at last
`Activate`, `StampEmpty` or `RefuseActivation`, and `ProjectPublication`, which is
a transaction of its own. `Die` is a crash, Ctrl-C, or a refusal of the package
gate. `IndexPreserving`, `IndexRebinding` and `IndexManually` are the retention
modes of an index publication, each one transaction with its projection.

Abstractions: a file stands for its one member call; a checker answers with the
declaration of `Target[f]` or, under a config in `Unanswered`, with nothing; the
freshness cache answers with the tree of its first read or the present one, not
a mixture; confidence, the selection of occurrences and dry runs are left out.
The mode "full" (`--full`) is modelled and used by no run.

A behaviour a reader may stumble on is the code's design: a carrying run that
finds no fact stamps its empty batch and keeps the standing publication, even
though a config has changed. What follows from it for a plain run, and what a
rebinding refresh does with a publication it could not rebind, is under Findings.

### CheckerSidecar and CheckerCall

One client, one Node process, any number of threads that may cancel, and five
kinds of asynchrony between them: frames on stdin, replies on stdout (and the
channel behind it), the message port of each worker, a worker that runs on after
`terminate()`, and a compiler that its worker has spawned and the host has not
heard of.

* `client` is the `ProcessChecker` (`poisoned` is a value of `pc`), `active` its
  active request under the mutex. `kind` tells a plan session from a request of
  one frame; `capabilities` is never active, so it cannot be canceled.
* `aim[c]` is the target a control thread has read and not yet written: the lock
  is released between the two.
* `host` holds the variables of `main.mjs`; `workers` is every worker thread it
  has created, the current one an index into it.
* `outcome` and `asked` record how each request ended and which were to be
  canceled; `CheckerCall` is stated over them.

Each function of `main.mjs` is an operator: Node runs a handler to its end, so a
frame, or a message of a worker, is one step. A result has 1 to `Pages` pages, a
page may hold an item too large to send.

Merged steps, and why nothing is lost: the client reads a message and writes the
next frame in one step, and writes a frame and sets `active` in one step (a
cancel in between finds no active request, as it does before the step); spawning
a compiler and posting its registration are one synchronous piece of code. Left
out: the hello handshake; malformed or oversized frames; the death of jscout
itself, which the host sees as the end of stdin and treats as a shutdown.

A client may be used again after an error or a cancellation, as the code's
comments intend, although today's callers drop it.

### SemanticStore, Scouting and ScoutRegister

`SemanticStore` has the two tables (`scout_runs`, `semantic_artifacts`) as
sequences, a row's id being its position, the code digest as a function from
files to versions (`code`) and the edge projection as a function from anchors to
contexts (`links`); its operators are claim, reuse, retire, sweep, publish and
the freshness of an artifact with its pinned children. A card or workflow is
good as far as the supports it cites are: each needs the source hash of its file
and the context hash of its anchor, the digest of the edges at it. Which anchors
a subject's artifact cites is a constant (`AnchorsOf`), and `Shows` is what the
evidence renders of a context, since the input fingerprint has the rendered
evidence in it and not the context hash. A re-index replaces source and edges
(`Reindex`); a checker enrichment rebuilds the edges and leaves the code digest
what it is (`RebuildProjection`).

`Scouting` runs `jscout scout workflows | cards | summaries | concepts
[--rebuild]` and `scout refresh` in several processes. A command plans a stage,
claims runs one transaction each until the wave is full, sends the wave, and
finishes every claimed run; `tracked` is the guard that fails what is left when
the command returns. The context hashes are taken when the answer is validated,
before the publication transaction, and not looked at again. `Surroundings` are
re-indexes, rebuilt projections and annotations through MCP; a process may
crash. A run's age is not counted: the sweep may take any running row, which
is how a live process loses its claim to another.

`ScoutRegister` is a register per anchor, scope or term: empty or one artifact,
moving only to a newer one.

### GatewayPool and ConsoleInterrupt

`gate` is the interrupt gate (registered, pending, generation), `command` the
caller with its wave and the admission captured for it, `worker` the scoped
threads, `active` the request each has published, `cancels` the queue of its
cancellation writer, `stdin` and `stdout` the FIFO pipes, `gateway` the Node
process: its active completion, the reason of its abort, its phase (resolving,
attempt, backoff) and timer. A critical section of the gate is one step; the
lock on a gateway's stdin is held from the publication of a request to the end
of its write (`pc = "writing"`). `FaultyWaves` limits the waves in which a
gateway may stall or die.

`ConsoleInterrupt` knows only who has a request in flight, whether a Ctrl-C is
being obeyed, and whether the process has been told to exit.

### CodeVectors, SemanticVectors and DocsPlane

`CodeVectors`: `cache` (profile and content hash), `entries` and `rows` (the
occurrences and the virtual table, by row id; the next id is the largest plus
one, so ids are used again after a prune), `synced` (the completion markers),
`table` (missing, of an older layout, or current). Publishing an index replaces
chunks and occurrences in one transaction; a pass fills the cache batch by batch
and synchronises last. `EmbedBatch` takes the three commits of a first batch (the
profile, its table, the vectors) in one step; a pass that ends between them
leaves a profile that no search finds ready and the next pass takes up. One
dimension, so both profiles share the virtual table; a search reads in one
snapshot; the partition and eligibility mismatches a profile may have are left
out.

`SemanticVectors`: the same for the documents of current artifacts: `vectors` is
the cache, `indexed` and `ranked` are the occurrences and the virtual table,
`complete` the marker (the names differ because `VectorProofs` extends both
modules; `VectorPlane` is what they share, the row ids). `Preflight`,
`PublishArtifact` and the refresh after it are an annotation; a pass lists first
(`listed`), and makes the occurrences those of its list last.

`DocsPlane`: `git` is HEAD, the index, the depth of the clone and the conversion
rules; an index attempt captures it, reads, blames (or hits the blame cache),
writes, validates, commits; `basis` remembers the state of the publication. An
embedding pass publishes a generation only for the digest it started from. The
depth and the conversion rules only move forward: the code compares two
readings, and a value that came back between them would look unchanged. Two
indexers side by side may publish an older inventory of documents until the next
refresh; the run has one. `PrepareDocument` takes the Git commands of
`try_prepare_document` in one step: the conversion is read last of them, and what
the others read is compared with the capture by `Stable` before the commit. Three
cases that leave provenance unknown and touch nothing else are not modelled:
no usable repository at the capture (`indexer.rs:1150-1152`), `docs_freshness`
switched off (`indexer.rs:539-571`), and a document `validate_blame_input`
refuses whatever Git answers.

## Runs

Every property of a passing run is broken by at least one mutant of the code
(`PROJECT.json`, "mutants"). The names in parentheses are the conjuncts of a
property that has several parts.

**watch_loop** (`WatchLoop.cfg`): two edits of any of the five kinds, at any
point of the loop, one of which may be lost (source, Rust or document), one
unforced failure, two timer-opened generations, no embedding; two paths of which
one is checker-eligible and `MaxSourcePaths = 1`, so that the promotion to a full
scope happens. Two edits are enough for an edit during work that an edit
started, in every phase; forced failures (stale inputs, cancellation) are not
counted, so retries are reached on top of them.

* `Converged`: a quiet watcher has indexed the tree (`IndexConverged`), and
  unless the checker is parked it has answered for the indexed sources and the
  compiler inputs on disk; that answer is what is published, bound to the indexed
  code, unless it was empty and a publication was kept (`CheckerConverged`). What
  the kept publication may be is under Findings.
* `TimersScheduled`: a clean waiting loop still has its reconciliation and its
  drift flush scheduled; a dirty one has no overdue deadline to spin on.
* `Outstanding`: the three slots never compete for the one deadline.
* `CheckerPaid`: a settled coordinator owes no checker work, no carry-free run,
  no partial result, unless the checker is parked, and a refresh may rebind the
  publication without the checker only when nothing is owed.
* `ForceFollowsWork`: the carry-free requirement of a drift flush is carried by
  the current work until an enrichment has honoured it.
* `CompletionSettles` (action): a generation is completed only by its own last
  phase, with nothing left in a slot.
* `KeepsObligations`: the loop implements `WatchObligations`.

**watch_liveness** (`WatchLoopLive.cfg`): under `FairSpec`, with both embedding
phases, one edit, three failures (so a checker can be parked) and three
timer-opened generations. `CheckerBounded`: a parked checker is not run, and it
is parked by the third failure, not earlier, not later. `Progresses`: the
watcher is clean infinitely often (`Settles`), a lost notification is repaired by
reconciliation (`MissedRepaired`), a fired drift flush is completed or waits on
a parked checker (`FlushCompletes`).

Bounds on timers: reconciliation and the drift flush recur for ever.
`TimerBudget` stops them opening generations that only repeat; while an edit is
unrepaired (`Unrepaired`) reconciliation may still fire up to twice the bound.

**checker_pool** (`CheckerPool.cfg`): two passes of two workers over up to two
projects with up to two requests each, either backend, a monitor that cancels at
any moment, two Ctrl-C, one failure.

* `OnlyAskedCanceled`: a pass nobody superseded or interrupted never ends as
  canceled, whatever flags the pass before it left, and a project whose checker
  was canceled is not recorded as failed.
* `StopsPromptly`: after a cancellation each worker takes at most the one job it
  was about to take, nothing is published that was canceled before all results
  were in, and a second Ctrl-C of a pass ends the process.

The publication runs have two files and up to two projects: A owns `f`, B owns
`f` and `g`, both files call a declaration of `g`. So a file has two owners, a
project can be partly answered, and an edit of `g` changes a target without
changing the call. `MaxFaults` bounds together what goes wrong by itself: a
project or file that fails, an enricher that is killed.

**publication_watch** (`PublicationWatch.cfg`): two enrichments of a watcher and
both kinds of its refreshes, two edits of sources or configs, one fault. A kill
may fall between any two transactions but an activation and its projection
(publication_torn is about that place). One refresh is enough for a publication
to meet another digest and other rows, and two edits for an input to change and
to return.

* `PublicationSound`: one batch at most is published; an answer published as
  freshly checked follows from the config recorded with it, whatever was staged
  before (`AnswersFollowInputs`); the graph is what a rebuild would give, so
  every skip of a rebuild is justified (`ProjectionCurrent`).
* `CarriesSoundly` (action): what is published, carried, cloned or resumed names
  the rows, sources and declarations of the index and external inputs that stand
  (`ActivationCurrent`); the publication is not written to (`ActiveImmutable`);
  an empty destination never displaces completed work (`CarrySourceKept`; a run
  that goes on with an incomplete publication deletes every other batch,
  `enrich.rs:2305`, and promises none).
* `ReuseServesFacts` (action): an exact reuse answers with a graph that has its
  facts.
* `UndisturbedPublishes` (action): no leftover makes a later, undisturbed run
  fail.

**publication_side** (`PublicationSide.cfg`): a watcher's enricher, a plain one
and a manual index side by side on project B, over external inputs and Rust
sources (rebinding).

* `GraphIndexed`: no edge ever names a row, source or declaration the index does
  not have.
* `PublicationKept` (action): neither enricher loses the publication of the
  other.
* `PlainRunRetiresStale` (action): a plain run that no edit disturbed never ends
  with edges of the publication whose inputs changed, unless it ended at once by
  reusing an empty batch stamped beside the publication. It speaks of the edges
  that are shown: a batch to which a second enricher still writes may be active
  with unfinished work in it (Findings).
* `IndexRebinds` (action): an index that rebinds keeps exactly the edges whose
  inputs stand, under new rowids; a watcher's rebinding refresh, if no publication
  is left behind at another digest. The watcher's preserving refresh keeps the
  publication of an unchanged digest without reading its inputs, and leaves a
  changed config to the enrichment it has scheduled, so it is not in this run.
  Nor is the rebinding refresh: `RebindIsSound` proves the property of it for a
  watcher alone. Beside a plain run that has withdrawn a stale publication and
  not yet rebuilt the projection, it finds nothing to rebuild either, and the
  edges go only with that run's own rebuild.

**publication_torn** (`PublicationTorn.cfg`, expects a violation): see Findings.

**sidecar** (`Sidecar.cfg`): two requests (so that a late cancel can meet the
next one), two control threads with a cancel each (so that both can aim at one
request), uploads of one chunk and results of up to two pages (so that a cancel
finds a plan in each of its phases, with a frame on its way), one failure of a
worker that has a job or of the host. Every interleaving of the pipes, the ports
and terminated workers, under `FairSpec`.

* `CancelSound`: only a request that was aimed at ends as canceled.
* `NothingLeftBehind`: when the client is free so is the host, and a running
  compiler is registered, or its registration is on its way to a host that will
  kill it. (It ends with the host: a compiler whose registration is still queued
  when the host handles `shutdown` is left to notice its closed pipes.)
* `ImplementsCall`: the client sees no more than `CheckerCall` allows; in
  particular it is never desynchronized.
* `RequestsEnd`: a cancel on its way to the request in hand frees the client
  although no compiler answers, and if workers answer or fail (`WorkersAnswer`,
  the premise of the property) every request ends.

**scouting** (`Scouting.cfg`): three commands of any kind in two processes, over
one file with its card, workflow, file summary, module summary and concept, two
versions of the file, one anchor with two contexts which the evidence shows
alike, one re-index, rebuilt projection, annotation or crash. With one anchor a
workflow is fresh or stale and never degraded by its own supports; the theorems
are about any anchors.

* `OneCurrentPerSubject`: one current card per anchor, summary per scope and
  concept per term, whatever processes and crashes do.
* `LedgerHonest`: a completed run has published exactly one artifact, no other
  run has any, one input has one run in progress or completed, and a claim is
  refused only for a run that really is in progress.
* `LeavesSound` (action): what is published is not out of date as it commits
  (`PublishedFresh`): its sources, and those of a concept's children, are the
  indexed ones, a summary or concept covers its current children, and it is
  wholly fresh if the edges are those it was written from, or those a concept was
  planned with; and only a crash abandons a claim.
* `ImplementsRegister`: it implements `ScoutRegister`.

**gateway_pool** (`GatewayPool.cfg`): two gateways, two waves (so that whatever a
wave leaves in the pipes meets the next), a Ctrl-C at any moment, one stall or
death during or after the first wave.

* `InterruptSound`: every request in flight that was admitted before the last
  Ctrl-C is being canceled by it, early or late (`InterruptReachesAll`), and
  requests, late acknowledgements and timeouts never put a connection out of
  step for a later wave (`ConnectionsInStep`).
* `ImplementsConsole`: it implements `ConsoleInterrupt`.
* `InterruptEnds`: a Ctrl-C ends its wave, or the process, although no provider
  answers.

**code_vectors** (`CodeVectors.cfg`): two files of two contents, the watcher's
and the command line's passes under two profiles that share a table, two
publications, one failed or canceled pass, a new database or one of an older
build.

* `SearchExact`: every occurrence has its row and the vector of its chunk's
  content, and a plane that reports itself ready serves every current chunk
  whose vector is cached, once, and nothing else.
* `PublicationKeepsSearch` (action): publishing an index never takes a ready
  plane away.
* `SearchRecovers`: whatever failed, the watcher's profile ends up ready with
  every selected chunk embedded.

**semantic_vectors** (`SemanticVectors.cfg`): an annotating agent, the watcher's
and the command line's passes, three artifacts over two documents, one fault.

* `PlaneSound`: occurrences match the documents, every pass finds the vectors it
  needs at its end, and a ready plane leaves out at most the newest artifacts.
* `ActiveIsServed` (action): an annotation answered "active" is served.
* `EventuallyServed`: when annotations stop, everything current is served.

**docs_plane** (`DocsPlane.cfg`): two documents, two heads, two changes of Git or
of the worktree at any moment of an index attempt, an embedding pass beside it,
one failure, two attempts (the source has three: two already have a first, a
repeated and a last one).

* `OneGitState`: every document of a publication is attributed in one and the
  same state of the repository.
* `GenerationExact`: a generation is that of the published documents, complete.
* `PublicationKeepsSearch` (action): publishing documents never takes search away
  while the vectors of what is published are cached.
* `CatchesUp`: when the repository rests and Git answers, the published documents
  become those of the worktree, each attributed in the state Git is in and none
  left with a failed attribution. Search comes back, and stays, if embedding
  passes are run to their end again and again; that is the property's premise and
  not a fairness, since nothing in the code starts one.

Deadlock is checked in the sidecar's, the gateway's and the pool's runs. It is
off where the system really may stop: Ctrl-C ends the watch loop, and the other
runs end when their bounds are used up.

### Fairness

* `WatchLoop`: `WF(LoopStep)`: the loop's thread and the worker it joins are
  scheduled by the operating system, every step of the loop is finite, and the
  monitor polls with a timeout. `WF` of the three clocks: `Instant` advances and
  `recv_timeout` returns. Nothing is assumed of edits, lost events, failures or
  Ctrl-C; failures are finitely many because each one uses up `MaxFailures`,
  which stands for "the environment eventually stops failing".
* `CheckerSidecar`: the client's blocking read returns when there is something
  to read; Node's event loop delivers frames and port messages; a terminated
  thread stops. No deadline is ever assumed to pass.
* `GatewayPool`: threads run and Node's event loop turns; an aborted call
  rejects. Nothing makes a provider answer, a timer exist, a command begin a
  wave or the user press Ctrl-C.
* `CodeVectors`, `SemanticVectors`: the watcher's passes run to their end and
  come again with the next snapshot; nothing is assumed of other processes.
* `DocsPlane`: the watcher indexes again and again, as its periodic
  reconciliation makes it (not with `--reconcile-seconds 0`); strong fairness,
  because an attempt is refused whenever something moves meanwhile and waits for
  the writer lock. A process that holds that lock does not hold it for ever.
  Nothing is assumed of embedding passes: the watcher's phases (`watch.rs:116-122`)
  have none for documents and the index calls no provider (`indexer.rs:1089`), so
  only the user's `jscout docs embed` makes one.
* `Scouting`, `CheckerPool`, `CheckerPublication`: none, their properties are
  safety properties.

## Findings

**publication_torn**: killed between the activation's commit and the rebuild of
the projection, the publication is active and not projected; the exact reuse and
the index's skip take it for current. `PROJECT.json` has the quotes.

The following disagreements were met while modelling; each can be seen by adding
the property named to the configuration named. They are outside the passing
properties because those exclude the cause, or do not state what the doc states.

| to see it | what TLC finds |
|---|---|
| `ActiveImmutable`, `PublicationWatch.cfg` with `Enrichers = {e1, e2}`, `Concurrent = TRUE` | two enrichers of one plan resume the same inactive batch; the second goes on writing after the first has activated it (`enrich.rs:3049`, against the comment at `:2299`) |
| `IndexRetainsFresh` without `NoneBehind`, `PublicationSide.cfg` with `IndexKinds = {"rebind"}`, `MaxEdits = 3`, `MaxIndexes = 2` | a rebinding refresh at a new digest that may not rebind leaves the old publication active (`indexer.rs:1041`); when the digest returns, the next one shows its edges again without reading their inputs, against `docs/advanced.md:896` ("invalid checker state is cleared") |
| `PlainRunRetiresStale` with `Reuse` in place of `ReusesPublication`, `PublicationSide.cfg` with `EditKinds = {"conf"}`, `MaxRuns = 3`, `Concurrent = FALSE` | the exact reuse finds the empty batch that a carrying run stamped beside the publication and returns (`enrich.rs:773`) before the stale publication would be retired (`:835`) |
| `CarriedFollowConfig`, `PublicationWatch.cfg` | a config edited after planning and restored later: answers computed under the edited config are carried (`enrich.rs:2516`, against `docs/advanced.md:368`) |
| `NeverDesynchronized`, `Sidecar.cfg` with `IdleFailure = TRUE` | a worker that fails while a plan is between two frames makes the host answer the plan twice; a client used again is poisoned (`main.mjs:207`, against its comment at `281-284`) |
| `RefreshReplaces`, `Scouting.cfg` | a refresh that ends without a failed run may leave a target without a successor: a completed run of the same inputs is reused (`scouting/mod.rs:391-397`, `ledger.rs:100-101`, against `docs/advanced.md:637-640`) |
| `PublishedFresh` without `EdgesKept(item[p])`, `Scouting.cfg` | a projection rebuilt by a checker enrichment leaves the code digest alone, and the publication transactions look at nothing else: a concept commits, already degraded, on a child that is context-stale (`scouting/mod.rs:2575-2617`), and a card commits stale, because its context hash was taken at `:2185`, before `BEGIN IMMEDIATE` at `:2204` |
| `DegradedExposed`, `SemanticVectors.cfg` | a pass that listed its documents before an annotation synchronises after it and sets the marker again, so the next retrieval does not expose the degraded plane (`embed.rs:1296`, `semantic.rs:546`, against `semantic.rs:515`) |
| `CheckerConverged` without `~answered.kept =>`, `WatchLoop.cfg` | after a compiler input changed, an enrichment that finds no fact keeps the publication of the same code (`enrich.rs:3907`), and a quiet, unparked watcher goes on serving facts computed from the older inputs; if only Rust sources change afterwards, the rebind is refused because these inputs are not fresh (`indexer.rs:1003`), nothing reads the refusal in `watch.rs`, and the publication stays bound to the older digest until the next enrichment |
| by reading `CheckerPool` | an operation cancel is delivered once for the whole pool (`process.rs:274`); the comment at `:253` says every live sidecar receives it. `StopsPromptly` holds all the same, because workers read the flag before they claim |
| by reading `CheckerPool` | a Ctrl-C that reaches a checker request already answered does not stop the watch loop when the enrichment then succeeds: the branch of a successful phase (`watch.rs:1447`) does not read the pending interrupt, the branch of a failed one (`:1493`) does |

`CarriedFollowConfig` is refuted by this cause only, and by nothing a passing run
could exclude.

## Proofs

TLC checks small instances; the following holds for every value of the
constants. Each module of proofs starts from the named assumption on the
constants of its model: types, finite sets where something is counted, and that
`None` is none of the values it is compared with. Where more is assumed it is
said.

**`WatchProofs`**, in three parts. *The coordinator alone*, for any paths,
digests, generations and attempts, with and without `--embed` and `--enrich`.
The inductive invariant is built in layers. `Outstanding` is types together with
one outstanding slot: that a slot holds work of a generation at most the desired
one needs the other slots empty. `RebindInv` adds that work waiting in `ready`
has left the refresh phase: that a rebinding refresh owes nothing is not
inductive alone, because `next_work` takes the ready work as it is. `Inv`
adds what holds on the way to a settled state: a generation in its last phase
owes no checker work unless parked, a partial generation is a parked one,
without `--enrich` nothing is ever owed. Theorems: `CoordinatorOutstanding`,
`CoordinatorPaid`, `CoordinatorForce`, `CoordinatorBounded`,
`CoordinatorCompletion`.

*The loop.* `LoopInv` says what is active at each position of the loop; from it,
`LoopIsLegalCaller`: every behaviour of the loop is a behaviour of
`CoordinatorSpec`. That carries the coordinator's theorems to the loop
(`LoopOutstanding`, `LoopPaysChecker`, `LoopKeepsForce`, `LoopBoundsChecker`,
`LoopCompletionSettles`). `TimerInv` gives `LoopSchedulesTimers`: a deadline
that is off is off because a generation that will re-arm it is under way.
`CallInv` gives `LoopKeepsObligations`, the refinement of `WatchObligations`:
the refresh scope belongs to the work in hand, and a published scope is the one
that was owed.

*Convergence*: `WatcherConverges`. The inductive invariant is bookkeeping: every
difference between the tree and what is indexed is a lost notification, an
unread one, or an index publication owed (`IndexTracked`); every difference
between what is indexed or on disk and the checker's last answer is one of these
or a checker debt (`CheckerTracked`); a refresh that may not rebind, and an
enrichment, superseded or not, run only while something is owed (`RefreshPays`,
`EnrichmentOwed`). A quiet watcher has none of the three. That a
boundary event is never lost (`LoopAssumption`) is used here and nowhere else.

**`CheckerPoolProofs`**, for any workers, projects, requests, passes and
interrupts. `PoolStopsPromptly`: the flags are only raised within a scope, so
each part of `PoolInv` says what a raised or a lowered flag implies: a worker
about to claim read them lowered and has taken nothing since (`TakesOne`); a
doomed pass finds one raised when it seals its pool (`NothingPublished`); a
Ctrl-C that was survived left its flag (`Remembers`). `PoolCancelsWhenAsked`:
a cancel can reach a pass through a flag, a told checker, a canceled result or
the outcome, and each of them says that the pass was asked (`Asking`), because a
pass begins with lowered flags and with every checker of the one before closed
(`Owners`, `Quiet`); the projects recorded as failed, or with a failure on its
way to the recorder, are never more than the failures (`Counted`).

**`CheckerPublicationProofs`**, for any files, projects, edits, failures and
crashes. Three theorems assume nothing more, and hold of any number of enrichers
and indexes side by side: `GraphAlwaysIndexed` (an enricher rebuilds from the
rows of the moment, and an index that skips the rebuild has published the same
rows: `SkipKeepsRows`), `AlwaysOnePublication` (the invariant adds the shape of
the rows, `OneLive`, which the writes to a batch's runs need) and
`PublicationNeverLost` (the ids are a finite set of numbers, so a new batch never
takes the place of the publication: `FreshId`).

The others are about an enricher that works alone, with an index only between its
runs, as a watcher starts them: they assume `Alone` (one enricher, `Concurrent =
FALSE`), as publication_watch does. With a second enricher the invariant does not
hold (the finding of `ActiveImmutable`: a batch is written to while it is the
publication); of its consequences publication_side checks `PlainRunRetiresStale`
and `IndexRebinds` for two. Where an
enricher killed between activation and projection would be one (publication_torn),
`TornActivation = FALSE` is assumed too. The inductive invariant is `PubInv`.
Of a batch (`BatchOK`, `RunOK`): a completed run has an answer for each file of
its project, given under the inputs recorded with the run, and every row names
the sources and declarations of the digest of its batch, and the present rowids
if the batch was planned under them (`RowOK`). Of an enricher
(`PlannedOK`, `StagingOK`): its plan is of the index; its batch is of that plan
and not the publication; a project still to be checked is pending and its rows
are of the inputs loaded now; without a failure the other projects are complete,
and fresh if nothing was edited since. That last part makes the leftovers of dead
runs harmless. From it follow `PublicationIsSound`, `UndisturbedIsPublished` (for
at least one project), `CarryIsSound` and `ReuseIsServed`; `ProjectionStep` adds
that the graph shows the publication whenever no enricher is about to show it
(`Shown`), and `RebindIsSound` needs both: what is rebound keeps its answers under
the rowids of the new index (`SuccessorOK`, `MovedPublishes`). `PlainRunsRetire`
adds `Retired`: an enricher has recorded the inputs of every project it is done
with, and what a plain one finds standing when it looks for a batch to reuse is
fresh, and stays so until an edit.

**`CheckerSidecarProofs`**. `TypeCorrect` (one lemma per handler; the part that
is not a mere type is that the current worker is one the host has created).
`CancelsAreSound`: `CancelTrail` follows the target of a cancel from the thread
that read it through stdin and stdout. That stdin holds only cancels of requests
asked for is said with a set of frames (`toHost \in Seq(AskedFrames)`), so that
the library's facts about `Append`, `Tail` and `\o` carry it.
`NothingIsLeftBehind`, `ClientNeverDesynchronized` and `SidecarImplementsCall`
rest on `Conversation`: at any moment it is the turn of one party only, a frame
on its way, the host or its worker at work, or a reply on its way; what else is
in the pipes belongs to requests that have ended, and is discarded. The last two
assume `IdleFailure = FALSE`, as the run does: the finding about a worker that
fails between two frames of a plan is a counterexample without it.

**`ScoutingProofs`**: `OneCurrentAlways`, `LedgerAlwaysHonest` and
`RegisterImplemented`, for any processes, commands, files and subjects. The
invariant says that whatever a process carries from one transaction to the next
(targets, items, claimed runs) names rows of the subject it works on; rows are
only appended and a row's subject never changes, so it stays true while other
processes publish. `ScoutingLeavesSound` adds `FreshInv`: what a concept rests on
quotes the code and the edges that the concept was planned with (`Rests`),
wherever it is carried, so that at the commit, where the code is compared and
the edges are not, its sources are the indexed ones and its labels are fresh if
the edges have not moved; children are older than their parents (`Aged`), so that freshness, a
label for each artifact, is determined; and a run in progress is one its process
still has in hand (`Tracks`).

**`GatewayPoolProofs`**: `InterruptImplemented`, the refinement of
`ConsoleInterrupt`, for any number of gateways, waves, stalls and deaths.
`ControlInv` says that requests are in flight only in a wave, under registered
controls; then every critical section of the gate is a step of the console.
`NothingOverlooked` proves `InterruptReachesAll`, the first half of
`InterruptSound`. Its strengthening, `ReachInv`, follows the number of a wave
through the pipe to a gateway: before a request is written nothing of its wave
is in the pipe (no cancel can overtake it), it is written once, and a gateway
that works on it has read it; a request is admitted only under the generation
of the last Ctrl-C. So a cancel queued when the request was published is
behind it, or has been obeyed, or the request is over. `NeverOutOfStep` proves
the second half, `ConnectionsInStep`, from `StepInv`: a connection that is used
again holds no request and no reply but refusals of late cancels (`Silent`); one
in use holds one request or the replies to it, in order, with nothing but
refusals after its end (`Talking`). Together: `InterruptIsSound`.

**`VectorProofs`**, both vector planes, for any files, contents, documents,
profiles, passes, publications and failures. *Code*: `CodeSearchIsExact` and
`CodePublicationKeepsSearch`. In `CodeInv` every occurrence has its row under the
same id, with the vector of its chunk, which is cached; a table that is not of
the current layout holds nothing; and a marker is set only with the table. Row
ids are used again after a prune, so the proof needs that a new id is not in use
(`FreshIsNew`) and that the members of a finite set are numbered without gaps or
repetition (`RankNumbers`). *Semantic*: `SemanticPlaneIsSound` and
`SemanticActiveIsServed`. A list of documents, in the hands of a pass or turned
into occurrences, is what it was at some moment: for some `n`, artifacts up to
`n`, with all of these that are still current (`ListedOnce`). Artifacts are only
added, and a superseded one stays superseded, so this stays true however old the
list grows; that a ready plane leaves out only the newest follows.

**`DocsPlaneProofs`**: `EveryPublicationIsOneGitState`, `GenerationIsExact` and
`DocsPublicationKeepsSearch`, for any documents, heads, indexers, embedders,
attempts, changes and failures. An attempt reads Git for one document after the
other while Git moves. `PlaneInv` says that what a document was attributed in
lies between what the attempt recorded first and what Git answers now
(`BlamedAt`): the clone only gets deeper and the conversion rules only move on.
The last checks of the attempt find both ends equal, hence everything between.

What the prover cannot do here: liveness under fairness (`Progresses`,
`RequestsEnd`, `InterruptEnds`, `SearchRecovers`, `EventuallyServed`,
`CatchesUp`) stays with TLC. The library's induction theorems cannot be used
either; where an induction over numbers was needed, an argument by least
counterexample (`WFMin`) or by cardinality takes its place.

Only model-checked beside these: `PlainRunRetiresStale` and `IndexRebinds` for two
enrichers side by side, outside of `Alone`.

## Not modelled

* Parsers, static analysis and the embedded type checker: pure functions of
  source text (`chunk.rs`, `structural.rs`, `checker/embedded`). A bounded model
  of them would restate them, on inputs too small to say anything. The same is
  true of the repository model (`workspace.rs`, `walk.rs`, `recon.rs`) and of
  the package gate, whose only interaction, its revalidation before activation,
  ends a run as a death does.
* Ranking, rendering and the MCP tools (`search.rs`, `query.rs`, `compact.rs`,
  `docs/retrieval.rs` as far as it searches, `mcp.rs`): reads over one snapshot,
  by a server that handles one request at a time. What they rely on is stated of
  the writers: `GraphIndexed`, `SearchExact`, `PlaneSound`, `GenerationExact`.
* Prompts, evidence rendering and validation of model output: data. In
  `Scouting` an answer is good or not.
* The watch registry and the event classifier: which directories are watched is
  the notify backend's and the file system's behaviour. The loop has its results
  as signals, and its losses as a fault.
* Configuration, argument parsing, schema migration, process launch and the npm
  launcher: no control that outlives a call.
