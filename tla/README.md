# TLA+ models of the NoteInsight platform

TLA+ modules, model-checking configurations and machine-checked proofs for the Go
backend of the NoteInsight agent platform (`src/backend-go`). The models follow
the code, statement by statement where concurrency matters; `PROJECT.json` maps
every definition to the lines it stands for.

## 1. The system

One API server, any number of worker processes, and operator commands
(`reconcile`, `maintenance`, `dlqctl`, `vectorindex`, ...) share PostgreSQL,
Redis, NATS JetStream and Qdrant. PostgreSQL transactions run at READ COMMITTED.

| Component | State it keeps | Operations | Talks to |
|---|---|---|---|
| Note domain (`internal/note`) | notes, likes, collects, shares, comments, projects; detail and comment caches, hot rankings in Redis | create, update, delete, interact, comment, view, list | writes an outbox row in the same transaction as the fact; Redis after the commit |
| Transactional outbox (`internal/outbox`) | `outbox_events` (status, retry count, next retry) | `EnqueueTx`, `LockPending`, `MarkSent`, `MarkRetry`, `MarkFailed`, `RecoverStaleProcessing` | the publisher |
| Outbox publisher (`internal/worker/outbox_publisher.go`) | a locked batch in memory | `processBatch`, `maintain` | JetStream publish with `Nats-Msg-Id` |
| Broker (`internal/platform/messaging`) | event stream (duplicate window, retention limits), dead-letter stream, durable consumer | publish, deliver, ack, nak, term | publisher, consumer |
| Event consumer (`internal/worker/event_consumer.go`) | the message in hand | `handleMessage`, `handleFailure` | processor, dead-letter stream |
| Event processor (`internal/worker/event_processor.go`, `repository.go`) | `processed_events`, `behavior_events`, derived counters | one transaction per event, then Redis refresh | PostgreSQL, Redis |
| Reconciler (`internal/reconcile`) | `reconcile_state` cursor | counter repair, replacement of rankings, stale outbox rows | PostgreSQL, Redis |
| Maintenance (`cmd/maintenance`), DLQ tool (`cmd/dlqctl`) | none | purge old rows; list and replay dead letters | PostgreSQL; JetStream |
| Authentication (`internal/auth`) | `users`, `user_sessions`, API tokens | register, login, refresh, logout, profile | API |
| Evidence ingestion (`internal/evidence`), datasets (`internal/dataset`) | evidence documents, versions, runs, lineage | ingest, complete, reconcile lifecycle, audit, freeze | note tables |
| Retrieval (`internal/retrieval`) | lexical index with scoped term statistics, `retrieval_vector_indexes`, Qdrant collection | build, resume, audit; search (access, statistics, candidates, fusion, citations) | evidence, Qdrant, embedding service |
| Agent runs (`internal/agent`, migrations 000024 to 000028) | runs, steps, tool calls, claims, citations, guarded by triggers | idempotent create, cancel, list, read | evidence, retrieval indexes, API; an executor outside this repository |
| Benchmark review (`internal/evalreview`, `cmd/benchmarkreview`) | a workspace of files: plan, drafts, assignments, progress, reviews, decisions, ledger, approved cases | init, draft, prepare, serve, audit, freeze | people who edit files; retrieval corpus |
| Benchmark freezing and evaluation (`internal/evalbench`, `internal/retrievaleval`, `cmd/evalfreeze`, `cmd/retrievaleval`) | staged, private and public directories; `retrieval_benchmarks`, saved evaluations | freeze, verify, evaluate, save | approved cases, retrieval |
| Behaviour simulator (`internal/simulator`) | output directory, `simulation_runs` and its events | run with file and database sinks, replace | PostgreSQL |
| Rate limiter, HTTP API, configuration, migrations, observability, generators, frontend | counters in Redis, or none | | |

What is hard here, and what correctness means:

- **Event pipeline.** At-least-once delivery everywhere, an outbox lease without an
  owner, lost acknowledgements and lost commit answers, redelivery during
  processing, replays. Correct: nothing accepted is lost, nothing takes effect
  twice, everything reaches an outcome.
- **Derived counters.** Absolute rebuilds, relative increments, bulk repairs and
  score writes on one row, each computed from a snapshot that may be old when it
  is written. Correct: views exact; counters exact once events are applied; the
  repair makes them right.
- **Caches and rankings.** Several processes run sequences of Redis calls against a
  row that changes meanwhile, and ignore failures. Correct: right once events are
  applied, or right in the end.
- **Refresh sessions.** Concurrent uses of one token, a family revocation racing
  rotations. Correct: one successor per token, one live session per login, reuse
  ends the chain.
- **Vector index build.** A lease in PostgreSQL over a collection in Qdrant that does
  not know it, checkpoints, resume, deletions during the build. Correct: what is
  completed is exact, checkpoints are durable, an interrupted build completes.
- **Evidence.** Versions superseded while a run is under way, two processes on one
  run, a lifecycle reconciled in four statements. Correct: a completed run covers
  exactly what it froze, for ever, and goes on serving it.
- **Agent runs.** A request is resolved by three reads and stored later; keys are
  retried; triggers read a parent row without locking it. Correct: a key names one
  run and a replay is the run of its request; an ended run is frozen, and a
  succeeded one supported; paging misses nothing.
- **Search.** Rights, visibility, life cycle and deletions move between the
  statements of one search, and the vector store filters by old copies of them.
  Correct: what is returned was readable during the search.
- **Benchmark review, freezing, evaluation.** Several people and commands share
  files; commands write several files and may be interrupted between them.
  Correct: what is approved was earned by independent reviews; acknowledged labels
  survive; a saved evaluation can be traced to its sealed cases.
- **Simulator.** Two sinks completed one after the other. Correct: output that
  looks final is whole.

`PROJECT.json` lists the hazards one by one at their lines, with the properties
that cover them.

## 2. Modules

| Module | Stands for | Used by |
|---|---|---|
| `EventStream` | the stream between them: copies stored per event | `Outbox`, `EventConsumer` |
| `Outbox` | `outbox_events` and the publishers | `MCOutbox`, `EventPipeline` |
| `EventConsumer` | consumer, `ApplyEvent` transaction, dead letters, replay | `MCEventConsumer`, `EventPipeline` |
| `EventDelivery` | abstract: an accepted event takes effect at most once | `EventPipeline` |
| `EventPipeline` | `Outbox` and `EventConsumer` over one stream | `MCEventPipeline`, `EventPipelineProofs` |
| `NoteCounters` | counters and hot score of one note | `MCNoteCounters`, `NoteCountersProofs` |
| `NoteCache` | detail cache and ranking member of one note | `MCNoteCache`, `NoteCacheProofs` |
| `CommentPages` | the comment pages of one note: cached and coalesced first page, cursors | `MCNoteCache`, `NoteCacheProofs` |
| `RefreshSessions` | sessions of one user | `MCRefreshSessions`, `RefreshSessionsProofs` |
| `VectorIndex` | the build of one vector index | `MCVectorIndex`, `VectorIndexProofs` |
| `EvidenceIngestion` | evidence store of one project: registry, frozen datasets, ingestion runs, documents | `MCEvidenceIngestion`, `EvidenceIngestionProofs` |
| `AgentRun` | agent runs with their triggers | `MCAgentRun`, `AgentRunProofs` |
| `RetrievalSearch` | searches of one run and the build of its lexical index | `MCRetrievalReview` |
| `HybridRanking` | pure: terms, fusion, reranking, thresholds, diversity | `MCRetrievalReview` |
| `BenchmarkReview` | the review workspace and its commands | `MCRetrievalReview` |
| `ReviewAgreement` | pure: the agreement coefficients of the audit | `BenchmarkReview` |
| `ReviewServer` | the labelling servers of one reviewer | `MCRetrievalReview` |
| `DraftCases` | pure: the loops that fill candidate pools | `MCRetrievalReview` |
| `BenchmarkFreeze` | freezes, hand recovery and evaluations of benchmarks | `MCRetrievalReview` |
| `SimulationRun` | the behaviour simulator | `MCRetrievalReview` |
| `MCRetrievalReview` | `RetrievalSearch` and the modules below it, side by side | `RetrievalReviewProofs` |

### Outbox

A row per event with its status and retry count; per publisher the control point
in `processBatch`, the batch left, the retry counts as `LockPending` returned
them, and the event in hand. `LockPending` is one statement (`FOR UPDATE SKIP
LOCKED` and the update to `processing`). `MarkSent`, `MarkRetry` and `MarkFailed`
update by id only, so any publisher whose lease was recovered still writes: the
model keeps that. Publishing and marking are separate steps, either can fail, a
publish that returned an error may still be stored later (`LateStore`), and a
process may die anywhere. The clock is abstracted: retries become due, the
duplicate window ends and a lease becomes stale at any time, so every timeout
setting is covered. `log`, declared in `EventStream`, is the number of copies in the stream.

### EventConsumer

A message is a copy of an event. The handler's early returns are control points:
rejected before the transaction, duplicate, applied, refresh, ack, failure path,
terminate. `ClaimEvent` is the `INSERT ... ON CONFLICT DO NOTHING` on
`processed_events`: it waits for an open transaction on the same event.
`CommitApply` may answer an error although it committed. The server redelivers
without limit and may drop copies (`DiscardOld`).

### EventPipeline and EventDelivery

`EventPipeline` extends both parts, which share the `log` of `EventStream`; every
step is a step of one part and leaves the rest of the other alone. `EventDelivery`
is what a reader of the pipeline may rely on; the refinement maps the outbox row
to "accepted" and the committed counter change to "applied".

### NoteCounters

Facts, counters, hot score, and the number of unprocessed events. A rebuild or a
repair takes two steps, the snapshot of its counting subquery and its write,
because that is what READ COMMITTED allows; an increment takes one. The history
variable `overtaken` says that counts were written from a snapshot older than the
row's last write.

### NoteCache

The row is a version number; a cached entry and a ranking score are the version
they were made from. Each actor (API request, worker, reconciler) has a script of
Redis calls to run after its commit or read; the scripts interleave call by call,
calls fail, actors die. Cached content is one version: the model says whether an
entry is old, not which field of it.

### CommentPages

Comments are numbered in the order of `(created_at, id)`, and appear in any order,
because `created_at` is the start of their transaction. The first page of a request
comes from the Redis entry, from a load another request of the process has under
way (singleflight), or from its own load, always at the full limit and cut to the
size asked for with a cursor of its own. Later pages come from PostgreSQL. Creating
and deleting comments invalidates the entry in a second step that may fail.

### RefreshSessions

Sessions are numbered by the sequence of their ids; a token is the session whose
hash it matches. `RotateSession` is a transaction of two or three steps: the lock,
then either insert-and-revoke with its commit, or the revoking UPDATE, whose
snapshot and whose completion are apart. `escaped` records the replacements that
commit while a revocation waits for their parent's row: they are not in its
snapshot and survive it. That is what the code does; `RevocationEndsChains`
states that nothing else survives.

### VectorIndex

The control row, the collection and per builder the control point in `Build`.
Statements on the row are fenced by the token and the expiry, calls to Qdrant are
not. The manifest is what is eligible when it is listed; `ListVectorChunks` looks
at what is eligible later. `audited` is the lease holder of the last audit as long
as nobody else touches the collection; `outside` says that something other than the
lease holder ever did.

### EvidenceIngestion

A document is the triple its key hashes: dataset version, source key, source
version; chunks and citations are written in the transaction that creates it and
never change. A process is one invocation of `cmd/evidence`: it creates or resumes
a run (`BeginRun`), reconciles in four statements that commit one by one, links
what is ready, saves the rest, completes, and may fail or die at every call. The
look-up, the superseding UPDATE's snapshot and the commit of `SaveDocument` are
apart; the eight writers of a process work on different keys, so one at a time in
any order stands for them. Reusable documents are looked up in one batch. The
links of a completed run are guarded by a trigger, which the actions have as a
guard; the refusal is a `Fail`. History variables say where the code leaves a
race open: `raced` (a note edited or saved between the two statements about
notes), `overlapped` (two transactions of one key), `touched` (a key changed since
a reconcile began). A comment cluster is one member of `Cluster`, changed or
deleted as its comments are.

### AgentRun

An attempt of `CreateRun` reads the scope, the caller's access and the prompt one
by one, hashes what it read, and inserts or replays in a transaction; ingestion
runs, indexes, memberships and prompts move in between. The executor is external:
it is whatever writer the triggers let through. A child write is its guarded
statement and, later, its commit, because the guard reads the run's status without
a lock; `raced` has the runs that ended in between. A client pages through its runs
while others are created with equal timestamps.

### RetrievalSearch and HybridRanking

`RetrievalSearch` has the statements of a search one by one, with the two
retrievers of hybrid mode running side by side, and the points of the vector store
with the visibility and life cycle they were indexed with. `during` records what
was readable at some time since the search began. Which candidates are selected is
a free choice there. `HybridRanking` is the arithmetic: which terms are searched
for, the lexical and the fused score, the thresholds that decide whether there is
an answer, and the selection by document and note, in millionths. A search is a
query, a set of chunks with what the index and the vector store report of each, and a
limit. The vector store reports a chunk (`hit`) with any similarity, also one below 0:
no threshold is sent with the query, so a chunk that passes the filter (`PassesFilter`:
the hinted notes and the position of the query) gets a reciprocal rank however unlike
it is. Of a chunk in both lists the similarity counts only if it is positive
(`Similarity`). `InOrder` stands for every sort, of a slice or of a result set: it lists a set
by an order given as a set of pairs; an answer is the set of the ranks it keeps. `BuildLexicalIndex`
and `ensureVisibilityStats` run under an advisory lock that the model has too; a
row of an older release may be completed without scoped statistics, until a builder
returns it (`built`).

### BenchmarkReview, ReviewAgreement, ReviewServer, DraftCases

In `BenchmarkReview` a file is a variable, a write is one step (temporary name and
rename), and a command is the sequence of its reads and writes, at any point of
which it can fail, die, or find that a file was edited (bounded by `MaxUpsets`). `hurt`
records the interruptions, `revised`, `raced` and `reaudited` the edits that
happened between two steps of a command. The kappas of `ReviewAgreement` are exact
fractions. `ReviewServer` has the memory of each server and the two files it
writes; `shared` and `doubled` record two servers up at once. `DraftCases` has the
ring walks with strides 193 and 7 that fill a candidate pool. `Pool` is what a case
has added of its own (target, peers, their media) and what its walk meets;
`PublicPool` is the smallest one, a target without media or peers.

### BenchmarkFreeze

A freeze loads authored cases, draws nonces, stages a private and a public
directory, stores the benchmark in one transaction whose answer may be lost,
and renames the two directories. Staged directories that are left over stay in
`aside`; an operator may move them to their targets or move published ones away,
and may edit the public cases (external, bounded by `MaxMoves`). Digests are the
values they digest, so every verification is the comparison the code makes. A file
of cases is a function from lines, which are those of the authored file in the files
made from it: what is counted and compared does not depend on how they are numbered. An
evaluation reads the public directory twice, first the manifest and then the cases;
`swapped` says that it changed in between. `SaveEvaluation` stores the manifest
without comparing it with the stored benchmark; so does the model.

### SimulationRun

Sessions are generated step by step into the sinks; buffers are flushed in batches;
completing writes the report, renames the files and then commits the database
transaction. A run fails or dies anywhere and may be repeated with `replace`. The
foreign key of `behavior_events.project_id` is part of the flush.

## 3. Runs

| Run | Question | Bounds |
|---|---|---|
| `outbox` | Unfenced marks by three publishers, crashes, lost acks: `SentWasStored`, `RowSettles` | one event, three publishers, two retries, two copies |
| `consumer` | Two handlers, three copies of an event, replays: `EffectExactlyOnce`, `SettledIsAccounted` | two deliveries, three copies |
| `pipeline` | `NoEventLost`, and the refinement `ImplementsDelivery` | two publishers, one handler, two copies |
| `pipeline_live` | `EventReachesOutcome`, and `CopiesSettle`: every copy in the stream is settled | one publisher, one handler |
| `counters` | `ViewExact`, `ExactUnlessOvertaken`, `CountersConverge` with the scheduled repair | one user (four kinds of facts), one worker, two changes, one view |
| `cache` | `RightUnlessRaced`, `RankingConverges`, `CacheConverges`; in its second part `PagesFit` | one request, one worker, one reconciler pass at a time, three writes; two clients of one process, page sizes 1 and 2, three comments and two new ones, two changes |
| `sessions` | `OneLivePerLogin`, `WinnerRevoked`, `RevocationEndsChains` | three requests, four sessions, symmetric |
| `vector` | `CompletedExact`, `CheckpointDurable`, `BuildCompletesUndisturbed` | two builders, three chunks in two batches, one deletion, two faults |
| `vector_delete` | violation of `BuildCompletes` | one builder, two chunks, one deletion, one fault |
| `evidence` | `CompletedExact`, `ReconciledUnlessTouched`, `HistoryServedUnlessRaced`, `OneReadyUnlessOverlapped`, `HistoryImmutable` | two processes, two runs, three invocations, two dataset versions, one note, one daily fact, one change |
| `agent` | `ReplayIsTheRun`, `SupportedUnlessRaced`, `PagesComplete`, `LineageFrozen` | two attempts of three request forms (one key used for a following and for a pinned request, and a keyless request of another user), two runs, one claim, page limit 1; either two moves of what requests resolve beside a paging client, or three child writes and three updates |
| `retrieval_review` | `ServedWasReadable`, `StatsComplete` (search); `AnswerSound` (ranking); `ApprovedEarned`, `WorkspaceConsistent` (workspace); `LabelsSurvive`, `SubmittedImmutable` (servers); `DraftPoolFills` (drafts); `BenchmarkTraceable` (freezes); `SimulationHonest` (simulator) | two documents, two builders or one search, two moves; 31104 searches over four chunks; two cases, four persons, two upsets; two servers, three puts, one failure; corpora of 32 to 970 notes; two freezes, two ids, four authored files, one evaluation, two hand moves; two sessions of at most five steps, two attempts |

`MCRetrievalReview` and `MCNoteCache` hold parts that share no state: an initial
choice decides which of them runs, so each behaviour is a behaviour of one part.
The people of the workspace are interchangeable; instead of a symmetry set,
`FirstNamed` lets the first author be `p1` and the first reviewers `p2` and `p3`,
which leaves one representative of every behaviour up to renaming.

What the newer properties say:

- `ReplayIsTheRun`: an answered attempt got a run of its requester with exactly the
  request it resolved, and all attempts under one key got the same run.
  `LineageFrozen`: a request never changes, an ended run not at all, and a run
  cancelled in the queue is never dispatched. `PagesComplete`: a paging client sees
  each run that was there at its first page once.
- `ServedWasReadable`: a search returns only what was readable at some time during
  it, and ranks with statistics of a scope held during it, whatever old copies the
  vector store has. `StatsComplete`: an index that a build has returned is completed
  and has its scoped statistics, and statistics are those of the whole run and belong
  to a completed index.
- `AnswerSound`: no hybrid answer rests on words alone: each result was found by the
  vector store under the filter of the query, and without a shared term or a hinted
  note it has a similarity of 0.94. Nothing above the bar is left out but for better
  results. It does not say that results are similar: a chunk that is first in both
  lists and matches the words well is answered at a similarity below 0. The searches
  have one (chunk 1, at -0.2, when the query names its note and position).
- `ApprovedEarned`: approved cases rest on two complete reviews and the decisions
  of a third person, none of them the author. `WorkspaceConsistent`: what is
  published agrees with what was approved, and half of a set of files is only left
  behind by an interruption.
- `LabelsSurvive`: with one server at a time, an acknowledged label is on disk.
  `SubmittedImmutable`: a submitted review never changes.
- `BenchmarkTraceable`: the nonces of a stored benchmark are in some private
  directory; published directories belong together and to a stored benchmark; a
  saved evaluation with the stored manifest ran on all cases of its split and no
  others.
- `PagesFit`: no comment twice, none missed, across cached and coalesced first pages
  of different sizes.

Why the bounds are enough. Events, notes, users and indexes do not interact in
these components (rows are locked, marked and counted one by one), so one of each
carries the interleavings; what matters is the number of actors on it, and three
publishers, two handlers and three requests give every pair a bystander. Retry
and delivery limits of two make the first failure different from the last. Three
copies are an original, a duplicate outside the window and a replay. Two faults let
a builder lose its lease and its successor crash, or a point be damaged before a
crash. For the evidence store, three invocations are a run, its resumption or a
second run, and a reconcile beside them; one change moves the note or the fact
under them; kinds of documents differ only in the statement that retires them, and
the run has no comment cluster (its statement finds nothing), while the theorems
cover all kinds. For agent runs, two attempts are the race of a retry; the two
bounds are apart because moves of the scope and writes of claims touch different
columns. Two upsets, failures or hand moves let an interruption be followed by an
edit or a second interruption of the recovery. The searches enumerated for the
ranking are below, between and above every threshold; the sizes of corpora are on
both sides of each multiple of the stride. All safety statements are proved without bounds (section 4).

`CHECK_DEADLOCK FALSE` is set where every event, change, session or build the
bounds allow may be used up; the system is then at rest, and the liveness
properties say that it rests in a good state.

Fairness, all of it in the modules next to the properties it is for:

- the poll loop, the AckWait timer, lease expiry, TTLs and the reconciler's ticker
  go on (weak fairness): they are loops and timers in the code or in the server;
- a publisher or handler that reaches a step again and again is not killed there
  every time, and acknowledgements, marks and dead-letter publishes do not fail
  for ever (strong fairness, per step);
- nothing is assumed of the broker accepting publishes (`RowSettles`), of the
  database accepting `ApplyEvent` (`CopiesSettle`), or of workers and events
  (`CountersConverge`, `RankingConverges`, `CacheConverges`);
- for the vector build, operators run `Build` again and the faults end
  (`MaxFaults`).

### Where code and documents disagree

One run ends in a violation; in the other cases the property that holds carries an
exception, named in it, that the documents do not make. For `ExactUnlessOvertaken`
and `RightUnlessRaced` the property without the exception is violated in the same
run.

- `vector_delete`: a source at or before the checkpoint is deleted and the attempt
  is interrupted; the saved checkpoint no longer fits the manifest,
  `validateVectorCheckpoint` rejects it, and every later attempt fails the same
  way. ADR 0004, decision 5, says a failed build resumes from the checkpoint.
- `ExactUnlessOvertaken`: two workers rebuild one note; the one with the older
  snapshot writes last. All events are applied and the counters are wrong until the
  scheduled repair. The comment in `internal/worker/repository.go:34` says the
  order is harmless.
- `RightUnlessRaced`: a read during event lag stores its entry after the worker's
  invalidation; it stays for the TTL. `docs/07_phase4d_async_counters.md:87` says
  the invalidation prevents this.
- `SupportedUnlessRaced`: a claim whose insert passed the guard commits after its
  run has succeeded. `docs/22_phase8a_agent_run_contracts.md:35` says the database
  enforces supported claims before success.
- `SimulationHonest`: events carry project 0, which no project has, so the database
  sink never commits a run that has an event; `docs/08_phase5a_behavior_simulator.md:80`
  describes `--write-db` as persisting it. And files are renamed before the database
  commit that may fail, where line 111 says only after a successful run.
- `DraftPoolFills`: with 579, 772 or 965 notes (3, 4 or 5 times the stride of 193) a
  walk meets only 3, 4 or 5 of them, so the loop that fills a pool of 6 does not end
  unless the case itself adds at least 3, 2 or 1 sources that the walk does not meet
  (`PoolStarves`); every corpus of 512 or more is accepted. A target with enough media
  or peers does fill its pool, and authorization cases, which add 5 project sources
  first, always do; a target alone never does with 579 or 772, and with 965 it does
  unless it is on its walk.

## 4. Proofs

TLAPS checks these for every value of the constants that satisfies the `ASSUME`s of
the modules. These ask that limits, bounds and counts are natural numbers, positive
where the configuration refuses zero (`Config.Validate` of the simulator, for one,
asks for a session and two steps); that a "none" value is not one of the values it
stands beside; that users, documents and comments are finitely many;
that an authored file is a sequence with no more development cases than cases; that the sets of
actors or of kinds of sources do not overlap; and that no project has id 0
(`projects.id` is a `BIGSERIAL`). TLC evaluates them in the runs.

| Module | Theorem | States |
|---|---|---|
| `EventPipelineProofs` | `OutboxInvariant`, `SentOnlyAfterStored`, `RetryBudgetKept` | `OutboxInv`, `SentWasStored`, `RetryBudget` of `Outbox` |
| | `ConsumerInvariant`, `AppliedExactlyOnce`, `SettledCopiesAccounted`, `DeadLettersEarned` | `ConsumerInv`, `EffectExactlyOnce`, `SettledIsAccounted`, `DeadLetterEarned` of `EventConsumer` |
| | `PipelineInvariant`, `PipelineLosesNothing` | `PipelineInv`, `NoEventLost` |
| | `PipelineImplementsDelivery` | the refinement `ImplementsDelivery` |
| `NoteCountersProofs` | `CountersInvariant`, `CountersExactUnlessOvertaken`, `ViewCountExact` | `CountersInv`, `ExactUnlessOvertaken`, `ViewExact` |
| `NoteCacheProofs` | `NoteCacheInvariant`, `CacheRightUnlessRaced` | `NoteCacheInv`, `RightUnlessRaced` |
| | `CommentInvariant`, `CommentPagesFit` | `CommentInv`, `PagesFit` |
| `RefreshSessionsProofs` | `SessionsInvariant`, `TokenRotatedOnce`, `LoginHasOneLiveSession`, `ReuseRevokesWinner`, `RevocationIsFinal` | `SessionsInv`, `RotatedOnce`, `OneLivePerLogin`, `WinnerRevoked`, `RevocationEndsChains` |
| `VectorIndexProofs` | `VectorInvariant`, `CompletedIndexExact`, `CheckpointIsDurable` | `VectorInv`, `CompletedExact`, `CheckpointDurable` |
| `EvidenceIngestionProofs` | `EvidenceInvariant`, `CompletedRunsExact`, `HistoryIsImmutable`, `SourceHasOneReady`, `CompletedRunsServeHistory`, `ReconcileLeavesNothingStale` | `EvidenceInv`, `CompletedExact`, `HistoryImmutable`, `OneReadyUnlessOverlapped`, `HistoryServedUnlessRaced`, `ReconciledUnlessTouched` |
| `AgentRunProofs` | `AgentInvariant`, `ReplaysExact`, `SuccessIsSupported`, `ListingComplete`, `RunLineageFrozen` | `AgentInv`, `ReplayIsTheRun`, `SupportedUnlessRaced`, `PagesComplete`, `LineageFrozen` |
| `RetrievalReviewProofs` | `SearchInvariant`, `SearchServesReadable`, `IndexStatsWhole` | `SearchInv`, `ServedWasReadable`, `StatsComplete` |
| | `ReviewServerInvariant`, `AcknowledgedLabelsSurvive`, `SubmittedReviewKept` | `ServerInv`, `LabelsSurvive`, `SubmittedImmutable` |
| | `WorkspaceInvariant`, `ApprovalIsEarned`, `WorkspaceFitsTogether` | `WorkspaceInv`, `ApprovedEarned`, `WorkspaceConsistent` |
| | `FreezeInvariant`, `BenchmarksTraceable` | `FreezeInv`, `BenchmarkTraceable` |
| | `SimulationInvariant`, `SimulationIsHonest` | `SimulationInv`, `SimulationHonest` |
| | `AnswersAreSound`, `InstanceAnswersSound` | `AnswerSoundFor` of every search (`IsSearch`); `AnswerSound` |
| | `PoolsFill`, `InstancePoolsFill`; `PoolStarves` | `PoolFillsFor` of every size and case; `DraftPoolFills`; which pools of the excepted sizes starve |

The formulas named `...Inv` are the inductive invariants; each has the type invariant
of its module as a conjunct. They, and `RetryBudget`, `DeadLetterEarned` and
`RotatedOnce`, are proved and not repeated in the runs; TLC was asked about each of
them on the bounds of its run before it was proved.

The arguments:

- **Outbox.** `SentWasStored` is not inductive: a stale publisher marks what it was
  told earlier. `InHandSound` adds what a publisher carries (an acknowledged event
  is stored; an event in hand was read with budget left) and `WindowSound` relates
  the duplicate window to the stream. The stream only grows, so an old
  acknowledgement stays true however late it is written.
- **Consumer.** `ClaimExclusive` says that an open transaction is the only claimant
  of an unprocessed event; `HandlerSound` says what each control point has
  established. Markers, refreshes and dead letters only grow.
- **Pipeline.** `PipelineInv` joins the two and adds what links them: nothing of an
  event exists anywhere before its row is committed (`RowFirst`), and a handler works
  on a stored copy (`HeldWasStored`). A publish is a step of the stream that the
  consumer did not expect, and a replay one that the outbox did not, so each
  invariant is shown to survive the other part. For the refinement, every step is a
  step of `EventDelivery` or a stutter under the mapping: only `EnqueueTx` accepts an
  event, only the commit of `ApplyEvent` applies it, and it finds it accepted.
- **Counters.** `DisagreementIsOwed`: whenever the row, or a write under way that
  nothing overtook, disagrees with the facts, a rebuild is owed. Every fact change
  enqueues an event, a rebuild that starts counts the present facts, and a write
  under another statement marks that statement overtaken.
- **Cache and ranking.** What is wrong must be about to be put right. `CachePending`:
  a stale entry has an event still to be applied or a worker about to delete it.
  `RankPending`: a wrong rank has an event of the right kind, or a worker that will
  read the row or has read its present version. `ScriptShapes` lists what can be left
  of each actor's script, `HandFits` what it has read, `RemovalFinal` that a deleted
  note stays deleted.
- **Comment pages.** Whatever way a first page took, it is the upper part of the
  comments that were there when it was read, and a client's cursor splits the
  comments into those it was shown and those still to come. Cutting the shared page
  to a smaller size moves the cursor to the cut, which keeps the split.
- **Sessions.** `TxSound`: a locked row belongs to one transaction; a session about
  to be replaced is live; when a revocation runs, every live child of the reused
  session is in its snapshot. `Sequence` keeps the histories pointing backwards, so
  a new session is in nobody's past.
- **Vector index.** From the lease holder's audit to its completion the collection
  is exact, apart from the orphans about to be pruned, unless it is touched; an
  audit counts only when made by the lease holder. The existence of a last chunk
  comes from the well-foundedness of the naturals. `CheckpointDurable` is not
  inductive; `DurableInv` says the same of the place where the lease holder stands,
  that it drops the collection only when the checkpoint covers nothing, and that it
  never deletes a good point of an eligible chunk.
- **Evidence.** `CompletedExact` needs `ProgressExact` (what a process has saved and
  has yet to save add up to its run) and `LinksExact` (links lead to published
  documents of the run). Inputs of a run are frozen, links are only added and
  published documents stay published, so what one process has established is not
  undone by another. `ReadyFound` carries the superseding UPDATE from its snapshot
  to the commit; `HistoryInv` says what the second statement about notes may find.
  `ReconcileInv`: each statement of the reconcile leaves no stale document of its
  kind, and afterwards only a touched key can get one.
- **Agent runs.** `AttemptsAnswered` ties an answer to a stored run of the same user,
  key and hash, `KeysUnique` is the unique index, and hashes never change. Child
  writes are alone on their claim, and a run that ended with none under way gets none
  (`WritesGuarded`), so support cannot be taken back. `CursorSplits`: what a listing
  has shown is not before its cursor in the order of `(created_at, id)`, and what it
  still owes is; a run created later, whatever its timestamp, moves neither.
- **Search.** `GatheredWasReadable`: what a search holds after each statement was
  readable at some time since it began, because every statement checks rights,
  visibility and deletion in PostgreSQL, and what was read once stays in `during`.
  `StatsComplete` needs nothing else: a build under the advisory lock commits
  statistics and completion together, one that finds a completed row adds what is
  missing before it returns, and no failure is recorded over a completed row.
- **Review servers.** `ServerKnows`: a server that was alone since it started has in
  memory what is on disk, at every point of a request and after every failure;
  `SavingAdds` says that a save only adds to what was acknowledged. A second
  finalization is an exclusive create that fails, and `OneFinalizes` covers the time
  between check and write.
- **Workspace.** The heart is `Judged`: reviews, handout and assignment are never
  written twice, so what an audit has accepted stays acceptable while files are
  edited around it. `AuditHolds` carries that through the reads of one command,
  `MakesWorkspace` and `FilesFollow` say in which order files come into being, and
  `HalvesAccounted` that half a set belongs to a command at work or to an interruption.
- **Freezing and evaluation.** `StagesKept`: a freeze that has still to rename a stage
  finds exactly that one, whatever is moved or recovered around it, and nothing at a
  target is still waiting. With `PrivateIntact` (private directories and stored
  benchmarks are as they were frozen) and `StoredFirst` (a freeze publishes what it
  has stored, the private directory first) this gives the first two parts of
  `BenchmarkTraceable`. For the third, `FitsManifest`: the verified cases match as many
  of the manifest's commitments as it counts for their split. The commitments are
  distinct and equally many as the lines, so a counting argument
  (`DevelopmentFits`, `HoldoutFits`) makes "each is committed to" into "all that are
  committed to"; a commitment determines its case, so two files that fit one manifest
  have the same cases (`FittingIsFrozen`).
- **Simulator.** `Follows` ties the events written to the process's place in its
  sessions and `Linked` makes them whole sessions in order; a report is written once
  everything is flushed. Nothing is ever stored because an event's project is 0.

- **Ranking.** Every score is bounded by its three parts: 0.45 from the ranks, 0.35 from
  the similarity, 0.20 from the words. The bar is at 0.60 or higher. A chunk that the
  vector store did not find, or that does not pass the query's filter, is in one list and gets at most 0.225 + 0.20. A chunk that
  shares no term with the query and is of no hinted note is not in the lexical list: its
  words give it at most 0.22 of their 0.20 (the type and position a query may prefer),
  so 0.33 of the 0.60 must come from the similarity, which is then 0.94. A chunk that is first in both lists has
  the 0.45, and a similarity of 0.43 makes 0.60. `InOrderSorts`: under a strict total order the number of
  predecessors is a bijection from a finite set to its ranks, so a sorted list has every
  member once and nothing before its predecessors; `FirstRank` and `RankInBound`
  turn that into contributions. `Selected` follows the greedy selection: what it passed
  over had a reason among the results kept before it, and that reason is about better
  ranks only, because a result kept later has a greater rank.
- **Draft pools.** Two steps of a walk meet the same note only if the size divides the
  stride times their distance (`StepsApart`). For the first six steps of 193 these are
  at most five strides, less than twice any accepted size, so only a size that is
  itself three to five strides repeats a note; one or two strides are below the 512
  that are required. A corpus of three, four or five strides has walks of exactly as
  many notes (`WalkMeets`, `WalkReturns`), so what a case adds outside its walk decides
  whether its pool fills.

Three forms in the pure modules are chosen for these proofs. What a loop accumulates
(`Weight`, `SelectDiverse`) is a function on the prefixes of its input: `PrefixRecursion` shows
that there is one for every length, so that its equation can be used at each index.
The library states induction for operators only; `PrefixInduction` is the same for a
set, from the well-foundedness of the naturals. Sorted lists are given by ranks, not by the
permutation that sorts them. And chunks, merged candidates and answers are sets.

Only model-checked: the liveness properties `RowSettles`, `CopiesSettle`,
`EventReachesOutcome`, `CountersConverge`, `RankingConverges`, `CacheConverges` and
`BuildCompletesUndisturbed`. Fairness and `ENABLED` are outside the prover. What the
prover has of them are the invariants: that nothing is lost, and that what is wrong has
somebody who owes its repair. The
kappas of `ReviewAgreement` are counted over enumerated labels by TLC; no theorem is
about their values.

## 5. Not modelled

- Wall-clock durations. A consequence: the purge of idempotency markers after 30
  days is not an action, because no copy in the event stream (7 days) is that old;
  a dead letter replayed at the very end of its 30 days is. That the replay of such
  a dead letter meets its marker is therefore assumed.
- Lock-order deadlocks: PostgreSQL aborts one transaction, which the models have as
  a failure step of every transaction.
- Agent runs: `guard_agent_run_child` looks up the run that a child row names after
  the statement. An UPDATE that moves a claim from one run to another is not modelled;
  the claims of the model stay with the run they were inserted for.
- The full repair differs from the scheduled one only in how it writes the hot
  score (`RepairScore`); no run uses both at once.
- The resumption of a failed evidence run one of whose documents was retired
  meanwhile (`internal/evidence/repository.go:330`) is a `Fail` like any other; that
  no later attempt can succeed is not stated as a property.
- Benchmarks: the metric formulas and the report file (two evaluations with one
  report path share its temporary name); the retired deterministic generator; a
  freeze that dies while it is staging, which leaves directories nobody reads. An
  approved `ocr_detail` case without `note_media` evidence passes the audit of the
  review and is refused by `validateAuthoredSemantics`; the two tools are separate
  models.
- Retrieval: tokenisation and the SQL full-text and trigram scores are inputs; the
  embedding service and Qdrant are what their calls do.
- Notes: comment counters and likes, the hot-comment ranking, the batch cursor of
  the reconciler. They follow the statements of the note's for another row.
- The rate limiter: one Lua script over wall-clock windows, atomic in Redis.
- `internal/facts`, `cmd/seedgen`, `internal/contentgen`, `internal/evalaudit`:
  sequential, one transaction or read-only.
- The content of notes, messages, prompts, embeddings; HTTP decoding, configuration,
  metrics, the migration runner, frontend and load tests.

## 6. Plan

The models of sections 2 and 3 are the extent planned, and every safety and action
property of the runs is proved. What is left:

1. Bounds of the agreement coefficients of `ReviewAgreement`: that a kappa is at most
   one, and one only when the reviewers agree on every label.
2. The exceptions of `ExactUnlessOvertaken`, `RightUnlessRaced` and
   `SupportedUnlessRaced` are histories of races the code leaves open. Should the code
   close one, its history variable goes, and the proof is to be repeated without it.
3. `PoolFillsFor` excepts three sizes. Should the draft refuse them, or walk with a
   stride coprime to the size, the exception goes and `PoolStarves` with it.
