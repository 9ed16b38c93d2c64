# Pretzel-AI: TLA+ models, checks and proofs

Pretzel-AI is the Python daemon of an AI appliance. It answers chat turns through a guardrail
(Prisma AIRS) and a vendor transport, adopts the configuration the appliance pushes, keeps a corpus
of technical documentation fresh by crawling a publisher, and stores benchmark datasets. This
directory holds TLA+ modules of its behaviour, the TLC configurations that check them on small
instances, and proofs, checked by TLAPS, of the properties that matter most for every instance.

- `src/...` below is the Python package (`src/src/...` from the repository's root).
- `PROJECT.json` lists components, runs, mutants, the map from each definition to the lines it
  models, the findings, the hazards and the theorems.

Contents: [1 the system](#1-the-system) · [2 modules](#2-the-modules) ·
[3 runs](#3-the-runs) · [4 findings](#4-findings) · [5 fairness](#5-fairness) ·
[6 proofs](#6-proofs) · [7 not modelled](#7-what-is-not-modelled) · [8 plan](#8-plan)

## 1. The system

One process, `main.py` → `process/core.Core`: signals, configuration, services, a gRPC server on
`127.0.0.1:50051` with a pool of `MAX_WORKERS = 8` threads, and shutdown. Its one client is the
appliance's management daemon (mgmtd). Configuration has two independent axes, *transport*
(`direct` or `ai_gateway`) and *guardrail* (`none` or `api_application`). A second process, the
operator's `python -m src.crawler crawl`, runs the same crawler on the same database.

| component | state it keeps | operations | talks to |
|---|---|---|---|
| corpus refresh (`crawler/pipeline`, `crawler/store`, `grpc/handlers/corpus`) | PostgreSQL: `techdoc.document`, `crawl_run`, `crawl_observation`, an advisory lock; per crawl a session with an open transaction, a worklist, a cancel event | claim, discover, observe/put, heartbeat, retain_only, finish_run, release; cancel | sitemap, fetch, extract; streams to its caller |
| page fetching (`crawler/fetch`) | the next start time, shared by four threads, under a lock | throttle, download (3 attempts), fetch (2) | the publisher |
| sitemap and URL policy (`crawler/sitemap`) | none | bounded walk of the index, canonical, eligible | fetch |
| classification (`crawler/extract`) | none | analyze a page to one of COLLECTED, EXCLUDED, UNKNOWN | – |
| lifecycle and pushes (`process/core`, `grpc/handlers/config`) | `Core.services`, `Core.config`, the stop event | run, apply_config, signal, shutdown | builder, cache, gRPC pool |
| document and cache (`deployment/config`, `catalog`) | the file at `CACHE_PATH` | from_document, to_document, load_cached, save_cached | Core |
| builder (`deployment/service`, `engine`, `transport`, `guardrail`) | the scan SDK's process-wide client and the key on it | build, restamp | `guardrail/api_application` |
| turn (`engine`, `engine/chat`, `grpc/handlers/chat`) | per turn: the engine taken, the verdicts, the result, the stream | open, inspect prompt, complete, inspect response, answer | guardrail, transport, caller |
| guardrail (`guardrail/api_application`) | – | inspect, and the verdict its answer becomes | the scan service |
| transports (`transport/direct`, `ai_gateway`, `completion`) | – | complete | vendors, the gateway |
| projection (`engine/console`) | – | the turn document and its scan object | caller |
| benchmark store and runner (`benchmark/*`, `grpc/handlers/benchmark`, `benchtest`) | `benchmark` tables | upload, rename, delete, export, read cases | PostgreSQL |
| logging, stubs, migrations, scripts, tests | – | – | – |

**How they interact.** Turns, pushes and refreshes are calls on one worker pool, concurrent and
unserialised. A push replaces `Core.services` as a whole; a turn reads it once, when it starts, and
keeps that engine. All engines that inspect scan through the one client of the scan SDK. Refreshes
in the two processes meet only in PostgreSQL, through the advisory lock and committed rows.

**What is hard, and what makes it correct.**

- *Refresh.* Concurrency between processes; a transaction that is committed about once a second and
  may be rolled back, lost, or committed by the wrong statement; three ways of ending early. Correct
  means: one writer at a time, but for what an interrupted crawl leaves to commit; a run's fate is settled once; no page is in the corpus without the observation
  that explains it; pages are only removed by the step that completes a run, and then the corpus of
  the scope is exactly what was collected; a shrunken sitemap cannot empty the corpus; the lock is
  always given back.
- *Pushes.* `apply_config` writes services, configuration and cache one after the other with no lock
  on a pool where pushes overlap, after a build that has already changed a shared client. Correct
  means: refused or outlived documents never come back from the cache, nor into service, what serves is what was named, a rotated key
  takes effect, every push is answered.
- *Turns.* Two checkpoints, each skipped, clear, against or failed under either policy, around a call
  that can fail or raise, while the engine is replaced and the caller may hang up. Correct means: no
  prompt leaves and nothing is shown past a closed checkpoint; one engine judges the turn; the report
  accounts for each scan; the stream is the document; the turn ends.
- *Fetching.* One start time shared by all threads and pushed back by throttled answers, three attempts
  inside two rounds, a nested sitemap index that may point at itself, and a cancellation that must wake
  every pause. Correct means: inside a backoff a server asked for, no request starts but those whose turn
  had come before it was noted; the requests for a page are bounded, as are those after a cancellation; a listing is all of the index or a refusal; each
  listed page is fetched once; the refresh comes to its end.
- *Benchmark datasets.* Calls on connections of their own, each several statements under READ COMMITTED
  and no lock of the process: racing uploads of one content, deletes and renames waiting for each
  other, reads of several statements, connections that break. Correct means: the store is a catalogue
  (one set per content, never edited, a number never reused); sets appear and go whole; answers agree
  with each other; every call returns.
- *The pool.* Pushes, turns and streams share eight workers, and one kind of call may never come back:
  a stop must still end once the others have.

## 2. The modules

| module | what it is |
|---|---|
| `Corpus` | vocabulary of the corpus: pages, products, scopes, stamps, run states |
| `CorpusRebuild` | abstract: what a refresh promises, over the committed documents and runs only |
| `CorpusCrawl` | the crawler: every statement of `store`, every branch of `pipeline.crawl`, for any number of sessions; implements `CorpusRebuild` |
| `CorpusCrawlProofs`, `CorpusRebuildProofs` | theorems about it |
| `Deployment` | pushes on the pool, build, adoption, cache, restart, stop, crash |
| `DeploymentProofs`, `DeploymentServesProofs` | theorems about it |
| `TurnGate` | abstract: a guarded turn, as a gate with two checkpoints |
| `Turn` | the turn from the engine it takes to its last chunk; implements `TurnGate` |
| `TurnProofs`, `TurnReportProofs` | theorems about it |
| `Download` | `fetch.download` for any threads: throttle, attempts, backoff, cancellation, on clocks that count down |
| `Fetching` | composes it with `sitemap.fetch` and `fetch`: everything a refresh asks of the publisher |
| `FetchingProofs` | theorems about both |
| `Catalogue` | abstract: what `benchmark/store` promises of the uploaded sets |
| `BenchmarkStore` | the handlers of `benchmark` and `benchtest`, statement by statement; implements `Catalogue` |
| `BenchmarkStoreProofs` | theorems about it |
| `MCCorpusCrawl`, `MCDeployment`, `MCTurn`, `MCFetching`, `MCBenchmarkStore` | small instances for TLC |

### CorpusCrawl

A *session* is one driver with its own database connection: a `RefreshCorpus` worker of the server
or, if it is in `Console`, an operator's shell. `document`, `status`, `job`, `listed` and `rows` are
what is committed; `pending` (writes to `techdoc.document`) and `seen` (observations) are what a
session has written, so a reader never sees them before a commit. `lock` is the advisory lock, which
belongs to the session rather than to its transaction and is freed with it. `phase` is the place in
`pipeline.crawl`.

| action | code |
|---|---|
| `Claim` | `store.claim` to its commit: lock, close abandoned runs as failed, insert the run |
| `Discover` | `sitemap.fetch`, then the empty-listing and `MIN_COVERAGE` refusals |
| `Take` | one result: the destination judged, `observe`, and `put` if documentation and no preview |
| `Heartbeat` | `store.heartbeat`: commits everything held, also after the last result |
| `RetainOnly`, `FinishOk` | the prune in the open transaction; `finish_run('ok')`, which commits both |
| `Cancel`, `CancelRun` | the caller goes away; the crawl notices: rollback, `finish_run('cancelled')` |
| `FailRun` | any exception: rollback, `finish_run('failed')` |
| `Exhaust`, `Release` | the stream has been read to its end; the `finally` |
| `Interrupt`, `CommitLeftover` | Ctrl-C meets neither handler: `release` unlocks, and then commits |
| `Lose` | the process or its session dies at any point: rollback, lock freed, run left `running` |

A write to a row waits for another open transaction that has written it (`RowFree`). The listing is
any set of eligible pages of the scope; the answer and final address of a fetch are any the publisher
may give (`Answers`, `Lands`). `FETCH_WORKERS` is abstracted to results arriving in any order, the
one-second interval of the heartbeat to one that may come at any time.

### Deployment

A worker in `ApplyConfig` goes `building` → (`stamped`) → `built` → `serving` → `adopted` → `idle`,
one action per write of shared state: `Stamp` puts the key on the scan client (inside the build,
before it can still be refused), then `AdoptServices`, `AdoptConfig` and `Save` are the last lines of
`apply_config`. `Save` writes the file, or fails and the push is accepted all the same, or fails to remove
its temporary file too, and then the push is answered as refused although its document is in service.
`Refuse` is `ConfigRefused`. `FromDocument` and `ToDocument` translate
`deployment/config` (a later entry of a service replaces an earlier one, an unnamed entry is chat's,
other names are dropped); `Build` is the matrix of `deployment/*`: what refuses a build and what
comes out. `Boot` is `run()` on the cached document, `Stop`/`Exit` the signal and the
joined pool, `Crash` a kill at any point. `elsewhere` holds the workers that are in a call of another
kind - a turn, a benchmark, a refresh - which `Occupy` and `Vacate` begin and end: such a call changes
nothing a push is about, but it is one worker fewer, and the interpreter joins it before it exits. `Reply` may be lost: the appliance may have stopped
waiting. `sent`, `outcome`, `before` and `unsaved` are history: they record what the appliance saw
and change no step, except that a push is numbered as the next one.

### Turn

A call is asked, queued for a worker, takes the current engine (`Unconfigured`, `Refuse`, `Open`), meets
the prompt checkpoint (`Skip` or `Inspect`), is sent (`Complete`), meets the response checkpoint, and
streams its answer (`Deliver`, `Done`) or finds nobody there (`Abandon`). `Push` replaces the
engine at any time; `Hangup` is a caller gone at any time. `VerdictOf`, `Passes` and `StopCode`
translate `_to_verdict` and the rules above `Engine._inspect`; `Scan` and `Lead` translate
`engine/console`. `Complete` may come to exactly what each transport can return or raise.

### Download and Fetching

Time is what is left of it: `gate` is what remains until `_next_request`, a thread's `wait` what
remains of its pause, and `Tick` takes one from each, so that states stay few. A thread that is due may
still come late, which covers scheduling and the random addition to each pause.

| action | code |
|---|---|
| `Clear`, then `Grant` or `Hold` | `throttle`: `check(cancel)`, and in a step of its own the lock, the clock and the new start time |
| `Request` | `opener.open`, after the lock has been given back: others may have been throttled since |
| `Resume`, `GiveUp` | a pause that ends; `Cancelled`, from `check` or out of a pause |
| `Answer`, `Throttled`, `Unreachable` | the three ways a request ends: for good; 403, 408, 429, 5xx; no answer |
| `Visit`, `Pass`, `Refuse`, `Read`, `Miss`, `List` | `sitemap.fetch`, its recursion kept as a stack of entries still to descend into |
| `Take`, `Again`, `Settle` | `fetch` in a thread of the pool: first round, second round, result |
| `Abandon` | the loop of `crawl` that hands out pages is left, and the futures not begun are cancelled |
| `Cancel`, `Tick` | the caller goes away; time |

`asked`, `late`, `owed` and `ahead` are history: requests for the page at hand, requests after the
cancellation, what remains of the longest backoff a server has asked for, and the threads whose turn had
come, but not their request, when that backoff began. A backoff counts from where the throttled thread
has noted it. `owed` is kept apart from `gate`, so that `BackoffHonoured` compares what the code does with
what it was told: inside a backoff only a thread of `ahead` starts a request, and one only.

`ListingComplete` compares what the walk did with definitions over the whole site that know nothing of a
walk: `Reachable` is the least set of maps closed under what an index names, `Newest` the largest of the
moments its maps give a page, `TooDeep` a path without repetition, `TooMany` a set of maps. `WalkGetsOn`
says of each step of the walk that it ends it or lowers the pair of `Unread` (maps it may still read) and
`Left` (places on the stack), so that no index can keep it going.

### BenchmarkStore

A call goes through its handler one statement at a time; `dataset`, `row` and `ran` are what is
committed. An upload is `Reject`, `Recognise` or `LookUp`, then `Insert` or `Collide` (the unique
digest, back to the savepoint) and `LookAgain`, then `Fill` and `CommitUpload`: its transaction is opened by the
first look-up and commits only as the connection closes. `Delete`/`CommitDelete` and
`Rename`/`CommitRename`/`Reread` hold the row between statement and commit. What waits is a guard:
an insert for whoever inserted the same bytes or is writing the header that holds them, a delete or
rename for whoever is writing its row. A reading call takes the list of tables its handler reads
(`Statements`) and keeps what each statement found. `Fail` is a connection, a statement or a lock wait
that breaks at any point, `Load` a run put in from outside. A commit may get through and its
acknowledgement not: then the answer is an error, and the set is there or gone all the same.

## 3. The runs

All figures are distinct states. Each property of a passing run has a mutant in `PROJECT.json`: a
plausible bug in one mapped definition that makes TLC refute that property under the same bounds.

| run | states | what it shows |
|---|---|---|
| `crawl_safety` | 859,172 | two sessions, three pages of two products, two runs, three kinds of job: `TypeOK`, `Traceable`, `CoverageFloor`, `FinishedForGood`, `SwapIsWhole`, `DyingPublishesNothing`, `PruneCompletesARun`, and the refinement `KeepsRebuildPromise` |
| `crawl_console` | 124,765 | one session of the server, one an operator may interrupt; all jobs, more kinds of answer: `OneWriter`, and `LockIsFreed` under fairness. That `Traceable` survives Ctrl-C is proved (section 6) |
| `crawl_dies`, `crawl_unknown`, `crawl_interrupt` | refuted | findings 1 to 3 |
| `fetching` | 133,336 | a walk over each of eight sites (plain, nested, repeated, pointing at itself, too deep, too many, unusable) and two pool threads on two pages, every answer and a cancellation at any moment: `TypeOK`, `RequestsBounded`, `ListingComplete`, `PagesAccounted`, `BackoffHonoured`, `WalkGetsOn`, and `FetchesEnd` under fairness |
| `benchmark` | 396,744 | three calls of any kind, nine files, loaded runs, failures anywhere: `TypeOK`, `WholeSets`, `FilesBecomeSets`, `UploadsAgree`, `GoneForGood`, `ReadsWholeOrGone`, the refinement `IsCatalogue`, and `EveryCallAnswered` under fairness |
| `deployment` | 150,937 | two overlapping pushes out of ten documents that take the build each of its ways, on workers other calls may hold: `TypeOK`, `ServesWhatItNamed`, `RefusedNeverServed`, `NoResurrection`, `SequentialPushesAgree`, `RotationTakesEffect`, and `PushIsAnswered` and `StopEnds` under fairness |
| `deployment_cache`, `deployment_key` | refuted | findings 4 and 5 |
| `turn` | 31,131 | one turn over five engines, two models, every scan answer and every outcome, with one replacement of the engine: `TypeOK`, `ReportAccountsForTurn`, `StreamIsTheDocument`, `NoStaleEngine`, `NoSubstitution`, the refinement `KeepsGate`, and `TurnEnds` |
| `turn_gateway` | refuted | finding 6 |

**Why these bounds are enough for the cases that matter.**

- *Crawl.* `MaxRun = 2` gives a run and the one that follows it, whatever became of the first: the
  sweep of an abandoned run, the coverage comparison and stale stamps all concern two successive
  runs. Two sessions are what can contend for a lock. Three pages are one with a redirect into another
  product, one that was there before, and one in the other product; 2 of 3 and 1 of 3 listed lie below the
  70% floor, 2 of 2 above. `Inherited` rows carry the stamp 0 of the migration. `MCJobs` holds the
  three jobs that differ in what they may touch; `crawl_console` takes all of them. `crawl_console`
  has a page that may redirect to a destination the policy refuses (`x`).
- *Fetching.* `Second` and `Spacing` are one tick, so that a backoff spans several grants; `MaxAttempts = 2`
  has a first attempt and a last; `MaxRetryAfter = 3` lies below one of the `RetryAfter` values and above
  the doubled backoff, so that the cap, the header and the doubling each decide once. Four maps and the
  reduced `MaxDepth` and `MaxMaps` leave sites on both sides of both bounds; a page listed twice has every order
  of two lastmods or none. Two fetchers and the walker are a thread that is told to wait and others that
  were asleep, between look and lock or between turn and request.
- *Benchmark.* A race needs two uploads of one content, and its hardest case a third call that
  deletes the winner's set: `MaxCall = 3`, each with a number of its own to spend (`MaxId = 3`). `MaxRows = 2` has
  files below, at and past it; the nine files are two that are sets, one with blank lines between its rows,
  and one for each way to be refused. `Breakdowns = 2` of the five statements are a first and a last.
- *Deployment.* An overlap needs two workers and two pushes. That two are enough for the safety
  properties is not left to the bound: each is proved for any number of workers and pushes (section 6).
  The ten documents of `MCBody` make the build take each of its branches, among
  them a repeated and an unnamed entry, values on neither axis, a missing key and an unknown vendor.
- *Turn.* One call is enough for TLC because calls share only `pushed`, which each reads once; the theorems
  cover any set of calls. `MaxPieces = 2` tells a first chunk from a last one. `MaxPushed = 2` is one
  replacement, which may fall before the turn, in its queue or under it.
- `CHECK_DEADLOCK FALSE` is in each configuration because the bounded system does stop: the runs,
  pushes or calls allowed have been used up and nobody owes another.
- Symmetry is declared only over sessions and workers, and only in runs without a liveness property.

## 4. Findings

Six places where a comment, a document or the contract says one thing and the code does another; each is
shown by a run whose one property is the quoted statement.

1. `crawl_dies`: a refresh that ends short, or dies, does not leave the previous corpus as it found it
   (`store.py:135-136`). Heartbeats have committed the pages put so far.
2. `crawl_unknown`: a completed refresh drops the stored copy of a page it failed to read
   (`extract.py:13`, `docs/corpus-operations.md:32`).
3. `crawl_interrupt`: Ctrl-C between the prune and its commit: `release` commits the prune of a run
   that never completes, after giving up the lock (`docs/corpus-operations.md:16`).
4. `deployment_cache`: overlapping pushes may leave the cache holding another document than
   the one served (`core.py:92-93`).
5. `deployment_key`: a refused push leaves its key on the scan client of the document in service
   (`core.py:122`, `api_application.py:259-260`).
6. `turn_gateway`: any answer of the gateway raises `NameError` (`ai_gateway.py:143` names
   `GUARDRAIL_STATUS`, which is not defined), so the stream ends without its last chunk
   (`pretzel_ai.proto:165-166`).

Noted without a run, as what a passing property has to leave room for:

- A save that fails and then cannot remove its temporary file (`config.py:387-388`) raises out of
  `apply_config` after the swap, so that the push is answered with `ok=False` for the document now in
  service, which `config.py:373-375` means to rule out and `core.py:119-120` promises otherwise.
  `RefusedNeverServed` says what is left: such a document is not cached, and one that the *build* refused is
  never in service.
- A thread that has its turn starts its request without another look at the time (`fetch.py:79`,
  `fetch.py:101`), also after a second thread has noted a 429 (`fetch.py:131-132`), where
  `docs/corpus-operations.md:3` has the workers "back off together on server throttling".
  `BackoffHonoured` bounds it to one request of each thread whose turn had come.

Noted besides: a checkpoint that is switched off leaves no trace in the turn's report, while
`deployment/guardrail.py:112-113` speaks of `NOT_INSPECTED`; `docs/corpus-operations.md` describes an
archive and a retention scheme the code no longer has; and a page absent from the sitemap, or answering
404 once, is deleted by the next full run where `sitemap.py:1` and `fetch.py:15-19` ask for more
evidence.

## 5. Fairness

Safety properties need no fairness; the runs without a liveness property use `Safety`, except `turn_gateway`. The six liveness properties assume:

- *Crawl*: `WF_vars(Progress(s))` for each session. A crawl that has started keeps running: each
  request has a timeout and a bounded number of attempts, each statement a `statement_timeout` or
  `lock_timeout`, and the consumer reads the stream or its connection ends, which closes the
  generator. Nothing is assumed of claims, exceptions, losses or interrupts.
- *Fetching*: `WF_vars(Step(t))` for each thread: it runs, and each request ends by its socket timeout,
  the deadline of the body or an answer. Time passes (`Tick`) only as long as the refresh is not
  cancelled: after that nothing may depend on it, which is what makes `FetchesEnd` say that a
  cancellation wakes every pause.
- *Benchmark*: `WF_vars(Step(c))` for each call: a statement that does not wait runs. Nothing is assumed
  of `Fail`, so `EveryCallAnswered` does not lean on the timeouts of statements and locks: the waits
  alone come to an end. No assumption is made of `Receive` or `Load`.
- *Deployment*: `WF_vars(Step(w))` for each worker; nothing in a push waits for anything else.
  `PushIsAnswered` includes pushes that fail, overlap and are cut off by a stop or a crash.
  `WF_vars(Exit)`: an interpreter that has joined its threads exits. `Vacate` has **no** fairness, for the
  same reason as `Inspect` below; `StopEnds` is conditional on each worker being back from its other
  calls again and again.
- *Turn*: `WF_vars(Handle(c))` for each call. A vendor is waited for only so long and a caller
  reads on or goes away. `Inspect` has **no** fairness, because the scan call has no timeout:
  `TurnEnds` is conditional on the turn's scans coming back.

## 6. Proofs

All are checked by `tlapm` to the last leaf. The assumptions are those stated with the constants
(`CorpusAssumption`, `CrawlAssumption`, `DeploymentAssumption`, `TurnAssumption`,
`DownloadAssumption`, `PowersAssumption`, `FetchingAssumption`, `BenchmarkAssumption`,
`NoSetAssumption`), which TLC also evaluates; the sets of sessions, pages, runs, documents, workers, engines, models and calls are
otherwise arbitrary (pages are a finite set, because the coverage guard counts them).

| theorem | for |
|---|---|
| `CorpusCrawlProofs`: `TypeCorrect`, `OneWriterCorrect`, `FinishedForGoodCorrect`, `TraceableCorrect`, `CoverageFloorCorrect` | any sessions, with or without a console |
| `CorpusRebuildProofs`: `KeepsRebuildPromiseCorrect` (refinement), `PruneCompletesARunCorrect`, `SwapIsWholeCorrect` | `Console = {}` |
| `CorpusRebuildProofs`: `DyingPublishesNothingCorrect` | any sessions |
| `DeploymentProofs`: `TypeCorrect`, `RefusedNeverServedCorrect`, `NoResurrectionCorrect` | any workers, documents and number of pushes |
| `TurnProofs`: `TypeCorrect`, `KeepsGateCorrect` (refinement), `NoStaleEngineCorrect`, `NoSubstitutionCorrect`, `StreamIsTheDocumentCorrect` | any calls, engines, pieces and pushes |
| `TurnReportProofs`: `ReportAccountsForTurnCorrect` | the same |
| `DeploymentServesProofs`: `ServesWhatItNamedCorrect`, `SequentialPushesAgreeCorrect`, `RotationTakesEffectCorrect`, and `CacheKeepsMeaning` on the cache | any workers, documents, keys and number of pushes |
| `FetchingProofs`: `DownloadTypeCorrect`, `RequestsBoundedCorrect`, `BackoffHonouredCorrect`, `TypeCorrect`, `ListingCompleteCorrect`, `WalkGetsOnCorrect`, `PagesAccountedCorrect`, and `FoundIsNewest` on a urlset's entries | any threads, pages, sites, attempts, bounds, spacing and headers |
| `BenchmarkStoreProofs`: `StoreTypeCorrect`, `WholeSetsCorrect`, `GoneForGoodCorrect`, `ReadsWholeOrGoneCorrect`, `UploadsAgreeCorrect`, `FilesBecomeSetsCorrect`, `IsCatalogueCorrect` (refinement), and `ParserCorrect` on `parse` | any files, labels and number of calls |

`Console = {}` is a necessary condition: with a console, finding 3 is a counterexample to the refinement
and to `PruneCompletesARun`.

**The inductive invariants.** None of the properties is inductive by itself.

- `WriterInv = TypeOK /\ OwnRuns /\ Holder`, where `Holder` is the part of `OneWriter` about the lock and
  the runs. It does not survive by itself an interrupted session that still has a transaction open while
  another has claimed; `OwnRuns` says each busy session has a run of its own, so that its leftover commit
  touches nobody else's. That nobody else has anything to commit without the lock, the rest of
  `OneWriter`, takes `Owed` below and `AtConsole`: only a session at the console is ever interrupted.
- `TraceInv` adds `Stamped` (a stamp in the corpus is of a run that exists; a run that does not has no
  rows), `Carried` (a writer's observations extend what it has committed, so that the next commit
  loses no explanation) and `Owed` (what is pending belongs to the run, is allowed, and has its
  observation with it). Together they make each commit preserve `Traceable`.
- `CoverInv` adds that runs are opened in order, that the writer's is the newest, that a scope with a
  healthy run has a last one (`HasLargest`, carried as an invariant rather than derived, since that
  derivation is an induction), and that a fetching crawl was admitted against it and still would be.
- `SwapInv` adds, phase by phase, what the open transaction holds: nothing before the fetches and between
  the last heartbeat and the prune, no deletion during the fetches, exactly the superseded rows after
  the prune. From it a commit maps to `Publish` or `Complete` of `CorpusRebuild`.
- `WholeInv` adds what a run has recorded: only listed pages, all of them once it reconciles, and
  each collected page stamped, in the corpus or in the transaction.
- `DeploymentInv = TypeInv /\ CallInv /\ HeldInv /\ PastInv`: an open push is in one worker;
  whatever is held anywhere was accepted or lost after its adoption, is being adopted, or was refused with
  its save and cleanup failed, and the cached document was accepted or lost; what was over before a push was sent is
  not held by what that push has already replaced. The last conjunct is about half adopted pushes, which
  `NoResurrection` says nothing of.
- `TurnInv`: for each call, which engine it took and that it resolved the request (`EngineInv`), what
  has not happened yet (`AheadInv`), which checkpoints it must have passed to be where it is
  (`PastInv`), and the stream so far (`StreamInv`).
- `ReportsInv` adds that the verdict list is what the scan answers say, in order, and that a turn that
  was stopped has the answer that stopped it; the report is then a finite case analysis over lists
  of at most two verdicts.

- `FaithInv`: what a worker builds or holds, what serves and what is cached is what the body sent under its
  version asks for. `Boot` preserves it because of `CacheKeepsMeaning`: `FromDocument` after
  `ToDocument` after `FromDocument` is `FromDocument`. The hard part there is the *last* entry of a service, a
  `CHOOSE` over positions, which rests on the least-element principle (`WFMin` of `WellFoundedInduction`).
- `SeqInv`: as long as no pushes have overlapped, services, configuration and cache agree unless a push
  is halfway in, and then what that push has replaced is its own (`AgreeInv`); and the key on the scan
  client is that of the build under way or of the newest push (`KeyInv`).
- `FetchingInv = TypeInv /\ GateInv /\ AskedInv /\ LateInv /\ AheadInv`: `gate` never less than `owed`, so
  that `Grant` finds nothing owed, and so, inside a backoff, each thread that has its turn and not yet its
  request had it before the backoff (`AheadInv`); a thread's requests at most its attempts so far, round by round; and no
  request after the cancellation except from a thread that was cleared before it.
- `WalkInv = WalkType /\ WalkLed /\ WalkCloses /\ WalkFinds /\ WalkRefuses`: every map visited or on the
  stack is reachable, along a path whose maps differ (so that passing `MaxDepth` exhibits `TooDeep`);
  what a visited map leads to is visited or on the stack (so that with an empty stack the visited maps
  are closed, hence all of `Reachable`); and each page has the newest date of the maps read so far.
  `ListInv` adds that an entry that cannot be followed stays on the stack until the walk refuses, and
  that no more than `MaxMaps` maps are visited: a listing has skipped nothing. Sites need not be finite.
- `PoolInv`: a page is in the pool in one way only, none is there unless it is listed and, while nobody
  has cancelled, each listed one is.
- `JudgedInv`: a call past its look at the file, or with an answer about it, has judged the file as
  `Refused` does, and no refused file is ever stored. With `WholeSets` and `ParserCorrect` this is
  `FilesBecomeSets`.
- `StoreInv = TypeOK /\ SetOf /\ Apart /\ OwnOf /\ Pair`: what a number holds is what was stored under it,
  or a delete has taken it; one set per content; what each phase of a call has found, holds and may
  say; and that two calls never insert the same bytes, write the same set, or both claim to have deleted
  it. `UploadsAgree` and the refinement need `Pair`, since they relate one call's answer to another's.

Each was also checked by TLC, as an invariant of the runs above.

**Recursive definitions.** The library's induction theorems cannot be instantiated by the provers, so what
a loop over data computes is proved by the least counterexample instead: the loop is a recursive
function of the number of entries gone through (`ReadTo` of a file's lines, `Found` of a urlset's
entries), the numbers after which the claim fails are a set of naturals, and `LeastExists`, which follows
from the well-foundedness of `<`, gives its least member, which is neither 0 nor a successor. That there is
such a function at all is proved in the same way (`ReadsExists`, `KeepsExists`). `ParserCorrect` and
`FoundIsNewest` are the results: the two loops whose outcome depends on order agree with definitions that
have none.

**Only model-checked.** Liveness (`LockIsFreed`, `PushIsAnswered`, `StopEnds`, `TurnEnds`, `FetchesEnd`,
`EveryCallAnswered`): the prover does not handle fairness and ENABLED. `WalkGetsOnCorrect` is the part of
`FetchesEnd` that is an action property, and `RequestsBoundedCorrect` bounds what each fetch adds; that
threads which wait for the gate all come through it is left to TLC. All other properties of the passing
runs are proved, under the conditions the table names.

## 7. What is not modelled

- *Refresh*: the counters of the progress messages and `crawl_run.summary`; read-only browsing calls;
  a Ctrl-C inside a statement (as `Lose`); the SQL migrations beyond the stamp of an older row.
- *Deployment*: a push that waits for a worker, which eight scans that never come back would keep from it
  for ever (`PushIsAnswered` counts a push from where a worker has it); settings that only pass through (timeouts, prompts, token parameters, labels);
  provider API keys; two first constructions of the scan SDK's client at once; `to_document` raising.
- *Turn*: contents of messages (system prompt, history, masking, clipping), ids, detections and the
  other fields of the turn document. `BAD_ROUTE` and the "there was no prompt/response to scan" answers
  cannot be reached from a built engine and a resolved request. `ListModels` only reads.
- *Extract*: what the text of a page is made of; `CorpusCrawl` has its outcomes, where `http_404`
  stands for `http_410` too, and `content_root_missing` is one of the answers `unsupported_template`
  stands for. That a page without its content root is fetched once more is in `Fetching`.
- *Fetching*: a redirect is followed inside its request and is not throttled by the code; the bytes of a
  body; the text of a URL (`canonical`, `eligible`, `classify`); the cache of a listing, which a
  refresh does not use (`max_age=0`).
- *Fetching inside the refresh*: `CorpusCrawl` takes the result of a fetch whole, in any order and at any
  time, which allows everything `Fetching` does; the two are not composed in one run. `PagesAccounted` is
  about the handing out (`todo` to a thread to `fetched`); that the loop of `crawl` submits and waits, and
  collects each result once, is not: `Take` of `CorpusCrawl` is the collecting.
- *Benchmark store*: filters, notes, paging arithmetic and the normalisation of an export;
  `ListBenchmarkDatasets` and `ListBenchtestRuns`, one SELECT each. `ReadsWholeOrGone` is a claim
  on each statement, not on an answer: one of several statements may be full in its first parts and empty in
  its last, and an export whose set is deleted between its two answers with an empty file and no error. A crash of the
  daemon is `Fail` of each of its calls.
- *Benchmark runner*: `run` refuses at once, so `classify`, `_store_case`, `_finish` and
  `benchmark/caller` are reached by nothing and have no behaviour to model; were `run` restored, its
  single-active index and the `finally` of `RunBenchtest` would be the next thing to model.
- *Pool*: other calls are in `Deployment` as workers that are away. What a turn does there is `Turn`.
- *Logging, generated stubs, scripts, packaging*: no behaviour of the kind a model would say anything
  about.

## 8. Plan

Done, in this order: the corpus refresh, its promise and proofs; pushes and restarts; the turn; fetching
and the sitemap; the benchmark store; the pool; the meaning of what serves, through the cache; the loops
of the parser and of the sitemap, and the pages in the pool.
What could come next:

1. The console's corpus reads (`GetCorpusStatus`) beside a running refresh.
2. The bodies and headers of the transports, where a property is found that is about them.
   The waits of the store's transactions as an action property, the way `WalkGetsOn` is one for the walk.
3. `RunBenchtest`, if the runner is brought back.
