# Tonalli Memo: TLA+ specifications

Tonalli Memo indexes memos published in eCash transactions.  An indexer daemon
learns of transactions from a Chronik node (a WebSocket for news, HTTP requests
for everything else), decides what each one says and who said it, stores the
result in SQLite and serves it to a web application.  These modules specify the
parts of it whose correctness depends on the order of things: what is queued,
retried, lost, repeated, reorganized or cut short by a crash, the rules that
decide what an author published, and what a reader is shown of it.

Paths are relative to the repository.  Line numbers are in `PROJECT.json`.

## The system

| Part | Source | State | Operations | What is hard about it | What makes it correct |
| --- | --- | --- | --- | --- | --- |
| Work queue | `apps/indexer/src/daemon/queue.ts` | waiting jobs, running jobs and their count, the promise of each transaction, drains, counters | `enqueue`, `pump`, `runItem`, `drain`, `stopAccepting` | callers join a job in any order, jobs fail, shutdown while jobs run | one job per transaction, every promise settled, no slot wasted, no drain forgotten or answered early |
| Confirmed reconciliation | `apps/indexer/src/daemon/daemon.ts` (`reconcileConfirmed`, `backfillProtocol`, `reconcileKnownConfirmed`) | two checkpoints, the rows, the locals of the pass | read tip, check anchors, revalidate rows, read pages, index, commit | the tip moves between any two awaits, the process dies between two writes, live jobs write the same rows | a checkpoint claims only what is stored, histories become complete, rows of a lost branch go |
| Live events and mempool | `daemon.ts` (`handleLiveEvent`, `reconcileUnconfirmed`, `reconcileKnownUnconfirmed`) | rows, jobs, events under way | one handler per event, refresh, reconciliation | events are lost or overtaken by jobs that fetched earlier | the store agrees with the network once it rests |
| Live connection | `packages/chronik/src/live/client.ts`, `heartbeat.ts` | current endpoint, retry timer, heartbeat, sockets | start, stop, connect, callbacks, ping, pong, deadline | callbacks of sockets that were given up, stop during a handshake, half-open sockets | one attempt at a time, a supervised connection, no leaked socket, recovery |
| Daemon lifecycle | `daemon.ts` (`start`, `stop`, callbacks, timer) | daemon state, reconciliation tail, timer, readiness, shutdown deadline | start, callbacks, timer, stop | late callbacks after stop, requests that never return | one periodic run, nothing runs over a closed database, shutdown ends, readiness comes |
| Process and database | `apps/indexer/src/cli/run.ts`, `cli.ts`, `db/database.ts`, `db/migrations.ts` | schema version and objects of the file, phase of the process | open, migrate, listen, start, shut down, exit | crashes and other processes between two migrations, rollbacks, a shutdown during the start | the version tells what the file holds, every restart becomes ready |
| Indexing engine and store | `apps/indexer/src/engine/indexer.ts`, `attachment/`, `db/store.ts` | transaction row, verification record, attempts | `indexTransaction`, `persistIndexingResult` | the earlier result is read before an await and merged after it | ownership evidence is real and never lost |
| Verification | `packages/verification`, `engine/mapper.ts` | stored verdict | candidates, TM0, TM1, authorization, mapping | verdicts depend on a tip read earlier, and on boundaries | a verdict depends on what is published, not on when it is read |
| TM1 scripts | `packages/protocol` | none | parser, encoder | limits in two places (75/76, 212, 223) | the parser accepts what the encoder writes, and only that |
| Registry | `packages/registry` | parsed registry | parse, resolve, authorize | inclusive windows, an evaluation height one above the tip | a memo is authorized exactly inside a window |
| Chronik adapter | `packages/chronik/src` | none | normalization of answers | | (assumed by the modules above) |
| HTTP API | `apps/indexer/src/api` | buckets of the rate limiter | two index routes, read routes, mappers, schemas, health | requests join jobs of the daemon; strict readers of stored records | answers tell what was done; no stored record breaks the feed |
| Web application | `apps/web/src` | address, view, requests under way | navigate, load, retry, abort | late answers and failures of a page that was left | a page shows its own answer |
| Command line tools, scripts | `apps/indexer/src/cli/config.ts`, `admin-cli.ts`, `scripts` | none | | | not modelled |

How they interact: everything that indexes a transaction (a live event, a page
of the backfill, the revalidation of a row, a route of the API) calls
`enqueue` of the one queue, with the height of the tip or without, and a call
for a transaction that is queued or running joins that job.  The job calls the
engine, which asks Chronik, verifies, and writes one SQLite transaction.  The
reconciliations wait for their jobs one after another; live events do not
wait.  Reconciliations are chained on one promise (`reconciliationTail`), so
that no two run at once.  The live connection calls the daemon back on
connect, disconnect, reconnect and on events.  The indexer is single threaded:
code between two awaits is atomic, and every await is a place where anything
else may run.  SQLite calls are synchronous, and a process can die between any
two of them.  The web application only reads.

## The modules

| Module | Models | One action is |
| --- | --- | --- |
| `CoalescedJobs` | what the daemon and the routes need from the queue: waiting and running transactions, free places, free slots | a submission or the end of a job |
| `WorkQueue` | `BoundedWorkQueue`; implements `CoalescedJobs` | a call, or the continuation of a job after its await |
| `RateLimiter` | `createRateLimitPreHandler` of the public route | a request let in or refused, a tick of the clock |
| `IndexRoutes` | both index routes over the queue, with the daemon's own jobs and the rows; extends `CoalescedJobs` and `RateLimiter` | a request, the end of a job with the answers it sends |
| `PagePlan` | the page arithmetic of `backfillProtocol` in closed form: the pages a pass fetches and the checkpoint it proposes | (operators) |
| `PagePasses` | passes of `backfillProtocol` over one history one after the other, the history growing or shrinking in between; extends `PagePlan` | a pass, a change of the history |
| `PagePlanLoops` | the same code as it runs, in its four loops, under a history that may change meanwhile; implements `PagePasses` | a page fetched, the entry or the end of a loop, a failure, a change of the history |
| `Backfill` | `reconcileConfirmed` and all it calls, over a tree of blocks, with crashes, live jobs and a store; uses `PagePlan` | the answer to one await and the code up to the next |
| `BackfillForks` | the tree of blocks `Backfill` is checked on | |
| `LiveSync` | single transactions from the mempool to a block and back, live events, refreshes, reconciliation | an event handler, a fetch, a write, a step of the reconciliation |
| `LiveConnection` | the client of the WebSocket with its heartbeat | a callback, a timer, a resumption |
| `DaemonLifecycle` | `start`, `stop`, the connection callbacks, the tail of reconciliations, the timer, readiness, the shutdown | a callback, a timer, a phase of the running reconciliation |
| `SchemaMigrations` | `openIndexerDatabase` and `runMigrations` in any number of processes of any release, and the documented rollback | the check of the version, one migration |
| `IndexerProcess` | the process over all its restarts; extends the two above | opening, a step of the daemon, an exit, a crash, another process |
| `IndexEngine` | `indexTransaction` and `persistIndexingResult` for a memo with an NFT | the code between two awaits of a call |
| `Tm1Script` | parser and encoder of TM1 scripts, as sequences of pushes | (operators) |
| `ProfileRegistry` | `parseRegistry`, `resolveProfile`, `authorizeAddress` | (operators) |
| `MemoVerification` | the verdict on one transaction and what is stored of it, from publication over the blocks that hold it; uses the two above | publication, a block, a read of the tip, an indexing call |
| `PublicRecord` | the mappers, response schemas, the decoder of authorship and the guard of the web application, over the verdicts and records of `MemoVerification` | (operators) |
| `WebRoutes` | the feed and the transaction page with their client | a commit, an effect, a stage of a request |
| `Checks` | the first check that fails, in the order of the code | (operator) |
| `WorkQueueProofs`, `IndexerProcessProofs`, `LiveConnectionProofs`, `IndexEngineProofs`, `LiveSyncProofs` | theorems about the module each is named after | |
| `BackfillProofs` | theorems about `Backfill`, `PagePasses` and `PagePlanLoops` | |
| `RoutesProofs` | theorems about `IndexRoutes` with its `RateLimiter`, and about `WebRoutes` | |
| `VerificationProofs` | theorems about `MemoVerification` with its `Tm1Script` and `ProfileRegistry`, and about `PublicRecord` | |

Each part is checked against what the next relies on.  `Backfill`, `LiveSync`
and `IndexEngine` take from the queue that a transaction has one job at a time,
and `IndexRoutes` is composed with `CoalescedJobs`, which `WorkQueue` is shown
to implement (`ImplementsJobs`, checked and proved).  `Backfill` and `LiveSync`
take from the verification that a confirmed transaction always gets a durable
record, and a mempool transaction does with a tip height (`AlwaysDurable`;
without it a TM0 memo does not, which is `TipFree`).  `DaemonLifecycle` takes
from `Backfill` and `LiveSync` only that a reconciliation ends in success or in
failure, and from `LiveConnection` that a connection that is down comes up
(`Recovers`).  `PublicRecord` is given the very records that the mapper of
`MemoVerification` makes.

What corresponds to what:

* A promise of the queue is named by the call that made it, so `inFlight[t]`
  is the call whose promise later callers of `t` receive.
* A bucket of `RateLimiter` holds its age in place of `startedAt`: the code
  only compares the difference with `windowMs`, so ages stop there and time
  needs no bound.  The clock is taken to move forward (`Date.now()` may be set
  back; the code does not protect itself against that).  `admissions` and
  `refused` are history variables, read by no action: `admissions[a][k]` counts
  the requests of `a` that were let in less than `k` ticks ago.
* A call of the administrative route joins a job whoever made it; its own
  `tipHeight` is ignored then, which is why a 422 may answer a call that brought
  one.  `WithTransaction` and `WithRecord` are the cases of the engine's mapper,
  `HttpStatus` the list of `errors.ts`: two files that must agree.  `Persist` is the
  upsert of the store.  `told` is a history variable: what a client was told 200
  for, until the daemon takes the row back.
* `pc` and `run` of `Backfill` are the suspended point and the local variables
  of the pass.  `TipMove`, `Heal`, `Crash` and `Fail` are the environment.
  `job[t]` remembers whether the job was made with a tip height and what it
  has fetched: jobs that were started before the chain changed write what they
  saw.  A crash during the commit keeps a prefix of the checkpoints.
* The blocks of `Backfill` carry the histories that Chronik lists, newest first.
  `History` holds transactions 1 to 3 in the first block, so that a history has
  more pages than a pass may fetch.  `ChainAssumption` says what a chain is:
  a block has one parent, so that the chain to a block below is the lower part of
  the chain, and it keeps the histories of those below it and adds at the front.
  `BackfillAssumption` tells the blocks apart from the states a row or a job can
  have beside them (a hash is none of the words).
* In `LiveSync` the confirmed pass is the set of transactions it has to index;
  how it finds them is `Backfill`'s subject.
* `tail` of `DaemonLifecycle` is the chain of promises; its head is the
  reconciliation that runs.  `late` records that the shutdown deadline cut a
  wait short.  `awaited` says that an administrative call waits for its job in the
  queue: the API does not close before it is answered (`app.close()` in
  `cli/run.ts`), and the database not before the API (`CloseDatabase`).
* `schema.objects` of `SchemaMigrations` are the migrations whose tables and
  columns exist.  A migration and its `user_version` are one SQLite
  transaction; the version is read before, outside of it, so that two processes
  may set out from the same one.  The statements of versions 1 to 4 fail if
  their objects exist, those of version 5 say `IF NOT EXISTS`.
* `call[c]` of `IndexEngine` holds the values a call has read before its await.
  `queued` says whether the calls go through the queue; without a daemon the
  administrative route calls the engine directly.
* A script of `Tm1Script` is a sequence of pushes with the form of the push
  (direct, or with its length in one, two or four bytes), its size and what it
  holds; a text is one of five classes, plain, with an attachment directive, either
  of the two behind a byte order mark, or not UTF-8, with its size.  A push is no longer than its
  opcode can tell (`Fits`).  `LimitsAssumption` relates the three limits of
  `tm1-constants.ts` (223, 215, 212 bytes) as far as the theorems need it: an
  envelope has three bytes before its text, a script at most eight around its
  envelope, and the length of an envelope is a byte.
* `Transactions` of `MemoVerification` are the normalized transactions as records
  of such scripts and of inputs; the assumption `VerificationAssumption` says that
  `Foreign` are some of them, and tells the markers apart from heights and
  rows.  `NoRecord` stands for both reasons that nothing durable is stored.
  `AnswersAssumption` of `PublicRecord` says that the constant for SQL's null is
  none of the values it is compared with; its second conjunct lists words that
  are strings, because the provers do not know that a word is one.
* `MaxSafe` of `MemoVerification` stands for the largest safe integer.
* In `WebRoutes` the commit of a page and its effect are two steps, since React
  runs effects after the commit.  The abort of a request and the rejection it
  causes are one step, like an answer and the view it sets: promise callbacks
  run before the browser handles anything else.  The double effect of
  `StrictMode` sends a request twice and aborts the first, which the model has as
  a retry at once.

Definitions marked "Mutant" are variants of the definition that follows, as a
plausible mistake would make it.  They are in no specification: `PROJECT.json`
says which property notices which of them.

## The checks

`tlc -config X.cfg M` for each row; from a few seconds to two minutes on two
workers.

| Run | Question | Bounds and why they are enough |
| --- | --- | --- |
| `MCWorkQueue` | Is every promise of a live job and settled, is a drain answered exactly when nothing is left, do jobs start in order, and does the queue implement the job discipline? | One slot and two places, four calls for four transactions, one drain: two jobs wait in an order, a fourth call is refused or joins a waiting or a running job, a job comes after the end of the first for the same transaction, calls after the stop.  No symmetry, since there is liveness. |
| `MCIndexRoutes` | Does the rate limit bound an address and lock nobody out, is every administrative call answered, and with a 200 only for what is stored? | Two addresses over one bucket, windows of two ticks with two requests: a table that is full, swept, and full again.  Three transactions, two of them only the daemon's, on one slot and one place: calls that join a job of the daemon, wait behind one, or find the queue full; every status of the engine and a job that throws, one job after the other. |
| `MCPagePlan` | Do the loops, page by page, implement the passes in closed form; do these claim only what was read, keep the budget and come closer to the oldest page? | Pages of three, two a run, one page of overlap, up to 13 transactions: more than twice a run, with every remainder of the last page, every cursor and every growth or loss of the history, between two passes and between two pages. |
| `MCBackfill` | Does a checkpoint claim only what is stored, whatever moves, fails or dies; does a complete history stay complete? | Two blocks above the first on each of two branches, one transaction on both, three passes before giving up, pages of two and one page a run, so that the history takes several runs; live jobs for the transaction that changes its block. |
| `MCBackfillOffline` | With no live job: are rows of a lost branch gone when a pass succeeds, do incomplete histories grow, is everything complete in the end? | Pages of one, so that transactions shift over pages with each block, and no overlap.  Events of disconnected blocks are delivered or lost. |
| `MCLiveSync` | Does the store agree with the network once it rests? | One TM0 transaction (which needs the tip height) with at most two events under way, any of them lost, any job failing.  Transactions meet only in the limited listing of unconfirmed rows, which with one transaction is never short. |
| `MCLiveConnection` | Is there one attempt with one socket, is the connection supervised, does it recover? | Three endpoints: a current one, one whose callbacks come late, and one more; an endpoint whose last callback came is used again.  The delay counts to two. |
| `MCIndexerProcess` | Does the version tell the schema, is there one periodic run, does nothing run over a closed database, does shutdown end unless an administrative call holds it, does every process become ready? | Any number of restarts; a second process of every release in the same file, which is enough for two that set out from the same version; rollbacks.  Three reconciliations on the tail: one running, one waiting, and one that a callback adds while the timer is due. |
| `MCIndexEngine` | Is evidence of ownership real, kept, and told the same way by columns and diagnostics; do queued calls write in order? | Three calls, two moves of the transaction, four seconds: two calls that overlap and one that finds the result of both. |
| `MCVerification` | Does a memo get its verdict from its block alone; do windows, boundaries, inputs and scripts decide as documented; is every record servable, and do both mappers say the same of it? | About 190 transactions, one for each way a script, an input or a memo can be wrong, the sizes on both sides of 75, 212 and 223; posts of sizes 0, 1, 72, 73, 212 and 213 with author bytes inside and outside; registries that parse and that do not; heights 0 to 2, where 2 stands for the largest safe integer so that tip + 1 overflows. |
| `MCWebRoutes` | Does a page show its own answer, and load only while a request is under way? | The feed, three transactions, an invalid id and an unknown address: a page that is left for one of its kind, of another kind, and for one left before it. |
| `MCVerificationBom` | Where the code does not do what its documentation says; see below. | As `MCVerification`. |

`CHECK_DEADLOCK FALSE` stands where the system may stop or wait for its
environment: the queue and the engine are given a finite number of calls, the
routes wait for the next request, and a process that has closed its database is
done.

Properties that are more than they seem:

* `PromisesAreLive` says that the promise of every caller, also of one who
  joined, belongs to a live job of the transaction it asked for.  `DrainMeansIdle`
  says both that a drain is answered only when nothing is left, which `stop`
  relies on before the database closes, and that it does not wait a step longer.
  That a transaction has one job is part of what `ImplementsJobs` says.
* `RateBounded` is what fixed windows amount to: fewer than twice the maximum in
  any stretch of the length of a window, not the maximum.
* `SuccessIsDurable` relates an answer that was sent to the store ever after: what
  was told 200 has its record and its active row, and no later job of whatever
  outcome takes them away.  It rests on two lists that are written separately, the
  statuses that `errors.ts` answers with 200 and those that the mapper of the engine
  makes a record for, and on an upsert that leaves the earlier record.
* `ShutdownEnds` holds however requests and jobs hang, with the one exception that
  it names (`HeldByCall`); see `MCShutdownHeld` below.
* `CheckpointSound` relates a checkpoint to the store and to the history of its
  anchor: a mixed pass over two branches, a cursor shifted past an unread page,
  or a candidate skipped by a failure would break it.
* `LoopsFollowPlan` says of the loops which pages they fetch, in which order, and
  which checkpoint they propose, also when the history changes between two pages:
  a pass that ends then is the pass over the history it began with, and one that
  meets the change on a page ends with nothing.
* `PlanSound` has three parts, each stated by name in `PagePlan`: `Covers`,
  `WithinBudget`, `Progresses`.
* `StoreConverges` allows a late job or a late event to write what is no longer
  true, as long as it is put right.
* `OneSocket` has two parts, one attempt and no socket that nobody closes.
* `BecomesReady` starts from any state a crash, a second process, a rollback, a
  failed start or an outage may have left, and says that readiness then stays.
* `OwnershipMonotonic` holds for overlapping calls too, because the merge is
  in the SQL of the upsert.  `NeverOlder` holds only for queued ones.
* `EvidenceIsReal` cannot say "in that very second": the clock is read before
  the outputs are.
* `WindowExact` includes that the verdict in the mempool is the one the next
  block gives (`ForecastHolds`).  `SettledInBlock`: once the block is stored,
  further calls change nothing, whatever tip they bring, but for evidence on an
  NFT that may still be gained.
* `FeedServable` takes every record through five readers that are each strict:
  the constraints of the table, the decoder of authorship, the mapper, the
  response schema, the guard of the browser.  The feed is accepted as a whole, so
  one record that any of them refuses takes it from everybody.

The type invariants are no properties of the runs: they are proved (see below).

### Fairness

Liveness is claimed only under fairness that the code or its platform gives:

* `WorkQueue`: every job settles (`WF` of its end).  `runIndex` has no loop, and
  the requests of `chronik-client` end in an answer or an error.  No caller, stop
  or timeout is obliged to come.
* `IndexRoutes`: jobs settle, the clock goes on, a client that is refused tries
  again.  `CoalescedJobs` leaves open which waiting job gets a free slot; that
  the queue is first in, first out (`FirstInFirstOut` of `WorkQueue`) is the
  strong fairness of a waiting job's turn.
* `Backfill`: failures stop at some time (`Heal`), a step of the running pass and
  of a job is taken, the timer begins another pass after each one.  A run for a
  disconnected block is strongly fair: it is on the tail, so it gets its turn
  between two passes, while it is not enabled during one.  The tip comes to rest
  because its moves have no cycle.
* `LiveSync`: the network rests at some time, events on the wire are handled,
  jobs end, reconciliation recurs.
* `LiveConnection`: the network is good at some time, timers fire, handshakes
  end (the code sets no limit to a handshake; the operating system does).
* `DaemonLifecycle`: the timer and what is on the tail go on once the network is
  calm.  Before that a request may hang for ever, and `ShutdownEnds` holds
  nevertheless, through the deadline: a shutdown waits for no reconciliation and no
  job beyond it, but for the administrative call of such a job.  A client is not
  obliged to hang up.
* `IndexerProcess`: the service manager starts a process that has ended, and it
  migrates and calls `start` without waiting for anything but the file.  Crashes
  and rollbacks end when `calm` begins; `calm` itself is not obliged to come.

`IndexEngine`, `MemoVerification` and `WebRoutes` have safety properties only.
The client of the web application sets no timeout, so that a page may load as
long as the browser lets it.

## Where code and documentation part

`MCVerificationBom` ends with a counterexample, and has an entry under `findings`
in `PROJECT.json`: a post that starts with a byte order mark is stored without
it; `docs/protocol/tm1-spec.md:171` says that bytes remain unchanged.

The following configurations are kept beside the runs, to show where a property
ends to hold.  TLC finds a counterexample in each:

* `MCLiveSyncDropped` (`MCLiveSync`): when the removal event of an evicted
  transaction is lost, or a job that fetched before it writes after it, the row
  stays active; nothing in the reconciliation marks unconfirmed rows
  (`daemon.ts:595`; `docs/indexer-daemon.md:53`: "WebSocket delivery is an
  optimization, not the durability boundary").
* `MCBackfillFlapping` (`MCBackfill`): a tip that leaves for a sibling and
  returns within one pass is taken for stable.  `CheckpointSound` holds when the
  tip never returns to a block it left, which is how `MCBackfill` moves it.
* `MCBackfillExcursion` (`MCBackfill`): a row written on a branch at or below the
  height of the anchor survives when the chain returns to the anchor's branch
  (`docs/indexer-daemon.md:67` says that such a reorganization is covered).
* `MCBackfillInFlight` (`MCBackfill`): a live job that fetched before a
  reorganization and writes behind the revalidation makes a lost row active for
  good.
* `MCDaemonReady` (`MCIndexerProcess`): the run after a failed one makes the
  daemon ready when it starts, not when it succeeds (`docs/indexer-daemon.md:116`:
  "the last backfill succeeded"), because only the state "failed" counts against
  it (`daemon.ts:110`).
* `MCShutdownHeld` (`MCIndexerProcess`): a job that never returns and that an
  administrative call waits for holds the shutdown (`docs/indexer-daemon.md:88`: "a
  stuck external request cannot extend SIGTERM shutdown indefinitely").  `stop`
  gives up at its deadline, but `closeIndexerResources` then awaits `app.close()`
  (`run.ts:142`), which waits for the calls under way, and the route awaits
  `indexAndWait` (`routes.ts:139`).  Nothing on that path has a limit of its own.
  The database stays open until the job returns, the client hangs up, or a second
  signal or the service manager kills the process.
* `MCWebRoutesAborted` (`MCWebRoutes`): a page that is left while the body of its
  answer is read shows malformed JSON on the next page until that page's own
  answer comes, because `parseJson` (`client.ts:88`) turns every rejection, the
  one of an abort too, into an error.

Smaller ones, seen while modelling: `docs/indexer-core.md` still names schema
version 1 where `CURRENT_SCHEMA_VERSION` is 5; a signal that comes while `listen`
is pending stops a daemon that has not started, and `start` may still be called
after it (`StopBeforeStart`), which is why `QuietWhenClosed` speaks of a daemon that
was stopped after its start.

A related limit that is by design of the budget: a pass that finds more new pages
than it may fetch leaves the older pages, and the cursor into them, to later
passes, so arrivals that fill every pass starve them (`docs/indexer-daemon.md:63`:
"continues older pages without starving progress").  `OlderPagesContinue` says what
holds for any slower rate.

## What is proved

TLAPS checks these for every value of the constants that satisfies the
assumptions of the modules.  Every safety property of the passing runs is among
them.

| Theorem | Statement |
| --- | --- |
| `WorkQueueProofs!TypeCorrect` | `Spec => []TypeOK` |
| `WorkQueueProofs!JobsExclusive` | `Spec => [](WorkConserving /\ OneJobPerTxid)` |
| `WorkQueueProofs!NothingForgotten` | `Spec => [](PromisesAreLive /\ Accounting /\ NoLostWakeup)` |
| `WorkQueueProofs!QueueImplementsJobs` | `Spec => ImplementsJobs`, the refinement of `CoalescedJobs` |
| `WorkQueueProofs!DrainSound` | `Spec => DrainMeansIdle` |
| `WorkQueueProofs!StartedInOrder` | `Spec => FirstInFirstOut` |
| `RoutesProofs!AddressesAreLimited` | `Spec => []RateBounded` |
| `RoutesProofs!OkMeansIndexed` | `Spec => []SuccessIsDurable` |
| `RoutesProofs!PagesShowTheirOwn` | `WebSpec => []ShowsItsPage` |
| `RoutesProofs!LoadingPagesAreServed` | `WebSpec => []LoadingIsUnderWay` |
| `RoutesProofs!PagesTypeCorrect` | `WebSpec => []WebTypeOK` |
| `BackfillProofs!PassesAreSound` | `PassSpec => []PlanSound` |
| `BackfillProofs!LoopsImplementPlan` | `LoopSpec => LoopsFollowPlan`, the refinement of `PagePasses` |
| `BackfillProofs!LoopsAreSound` | `LoopSpec => []PlanSound` |
| `BackfillProofs!NothingSkipped` | `Spec => []CheckpointSound`, for moves of the tip that go `Upwards` |
| `BackfillProofs!CompleteStaysComplete` | `Spec => CompletionKept`, likewise |
| `BackfillProofs!OldestComesCloser` | `Spec => OlderPagesContinue`, likewise |
| `BackfillProofs!CommitsLeaveNoStaleRow` | `Spec => NoStaleRowAtCommit`, for a tip that `NeverReturns` to a branch it left |
| `BackfillProofs!BackfillTypeCorrect` | `Spec => []TypeOK`, for moves of the tip that go `Upwards` |
| `LiveSyncProofs!CheckpointsCoverTheStore` | `Spec => []AnchoredRecorded` |
| `IndexerProcessProofs!ProcessVersionTells` | `ProcessSpec => []VersionTellsSchema` |
| `IndexerProcessProofs!ProcessOnePeriodic` | `ProcessSpec => []OnePeriodic` |
| `IndexerProcessProofs!ProcessQuietWhenClosed` | `ProcessSpec => []QuietWhenClosed` |
| `IndexerProcessProofs!ProcessTypeCorrect` | `ProcessSpec => [](TypeOK /\ SchemaTypeOK)` |
| `LiveConnectionProofs!OneConnection` | `Spec => [](TypeOK /\ OneSocket)` |
| `LiveConnectionProofs!Supervised` | `Spec => []ConnectedIsSupervised` |
| `IndexEngineProofs!EvidenceSound` | `Spec => []EvidenceIsReal` |
| `IndexEngineProofs!CopiesAgree` | `Spec => []DiagnosticsAgree` |
| `IndexEngineProofs!EvidenceKept` | `Spec => OwnershipMonotonic` |
| `IndexEngineProofs!RowsInOrder` | `Spec => NeverOlder` |
| `VerificationProofs!AuthorIsSigner` | `Spec => []AuthorSigned` |
| `VerificationProofs!OnlyEncodersScripts` | `Spec => []AcceptedIsCanonical` |
| `VerificationProofs!PostsComeBack` | `Spec => []PublishedVerifies` |
| `VerificationProofs!DurableWithATip` | `Spec => []AlwaysDurable` |
| `VerificationProofs!BlockSettles` | `Spec => SettledInBlock` |
| `VerificationProofs!VerifiedInWindow` | `Spec => []WindowExact` |
| `VerificationProofs!FeedIsServed` | `Spec => []FeedServable` |
| `VerificationProofs!BothMappersAgree` | `Spec => []AnswersAgree` |

**The queue**, for every set of transactions, of callers and of drains and every
size and concurrency that are positive, as its constructor demands.  The
inductive invariant is `QueueInv`, the conjunction of the six state
properties; none of them but the first is inductive alone.  A promise stays live
only because its transaction has a single job with the owner that `inFlight`
names (`OneJobPerTxid`), so that the job that ends is the one whose callers are
answered.  No drain waits on an idle queue only because the last job to end is
the last job there is, which needs that a slot is never free while a job waits
and that the counter is the number of running jobs (`WorkConserving`).  The
counters add up (`Accounting`) only because `pump` moves jobs without making or
losing one.  The lemmas `PumpStartsOne`, `StartOldest`, `PumpKeepsJobs` and
`AppendExclusive` state what `pump` and the entry of a job do to the jobs; one
lemma per action shows that it preserves the invariant.  `pump` is a loop in the
code; in the model it starts as many jobs as there are slots, and under the
invariant that is at most one per call.

The refinement maps a state of the queue to the transactions that wait and run
and to what is left of the two limits.  An accepted call is a `Submit`, the end of a
job is a `Settle` that hands over its slot if a job waits, everything else
stutters.  The invariant is needed in every step: that the transaction is new, that
the slot handed over is the last one, that the first job in line is not running.
Jobs start in order because `pump` takes a prefix of the line
(`PumpFromTheFront`) and everything else leaves the line as it is or adds to its
end (`InOrder`).

**The pages of a pass**, for every size of page, every budget, every overlap and
every length of a history.  The refinement of `PagePasses` maps the length of the
history to the one the pass has seen (`SeenLength`), so that a change of the
history under a pass is a stutter of the abstract passes, and the step that ends
the pass is one of theirs.  The invariant `LoopInv` says of each loop what it has
fetched so far: the first page, then a stretch of pages without a gap, and in the
resumption a second stretch, of which the pages that the scan had fetched already
are left out.  Where a loop ends, the stretch is as long as the closed form says.

**The confirmed reconciliation** is proved in two stages.  The first is
arithmetic, and holds for every size of page, every budget, every overlap and
every length of a history: the plan is the first page, then the pages of one or
two spans, and a case for each way `Plan` proceeds (from the top, a scan of the
overlap, an extension, a resumption) shows that what it claims is what it
fetches or what was claimed before (`PlanIsSound`).  The second stage carries that over the awaits.
`IInv` says of a pass which has read its first tip and whose tip is still the
same that all its candidates so far are stored (`Established`), of a pass whose
tip has moved nothing, and of the checkpoints that they are sound
(`Stored`).  At the commit the code compares the tip with the first one.  That the
two are equal must mean that the tip never moved, which is what the ranking is
for: `Upwards(Rank)` gives every block a number that grows with each move, and
`Begun` keeps the rank of the first tip at most that of the current one.  Some
such assumption is needed, as `MCBackfillFlapping` shows; a tip that gains blocks
or leaves a branch for good satisfies it.  The step from a checkpoint on an older
block to the present one is `PassClaims` with `ChainAssumption`: what a checkpoint
claims of its block's history is found again in the present one, moved back by
what has arrived in front.

`NoStaleRowAtCommit` has an invariant of its own beside `IInv`.  The revalidation
lists the rows above the lowest anchor only, so it must be shown that no row at or
below it can be stale while the anchors stand.  `Firm` says so of the rows, and of
what a job has fetched and may still write.  A move of the tip keeps it, because
in a tree what stands on the old chain no higher than an anchor is on the anchor's
own chain (`ChainsBelow`), provided that the anchor stood on the old chain too:
that is what `Aged` and the ranking of `NeverReturns` are for, and why
`MCBackfillExcursion` breaks it.  While the listing goes on (`Clean`), a stale row
is among the rows of its page or after it in the order of the pages; once the
listing is through there is none.  That the next page begins where the last one
ended, so that no row falls between two pages however many a page holds, is
`NextPages`, a statement about finite sets of records in the order of height and
id.  Without a live job the only job on a quiet transaction is the one the
reconciliation waits for (`Asked`), so that nothing is written behind the listing.
Rows of `LiveTxids` are excepted, as `MCBackfillInFlight` shows they must be.

The type invariant rests on `IInv` in one place: a commit writes one result per
protocol, and that they are all there and complete records is what `Established`
says of the last await (`Committed`).  That no cycle is tried more often than
`MAX_STABLE_TIP_ATTEMPTS` times needs each helper to go on with the attempt of the
run it was given (`OneAttempt`).

**Live events and mempool.**  `AnchoredRecorded` needs `PassCovers`: while the
reconciliation indexes and the chain is at rest, what is confirmed is recorded
or still to do.

**The routes**, for every window, limit, table and number of addresses.
`RateBounded` speaks of any stretch of the length of a window, which can overlap
two windows; `WindowCounts` says of each number of past ticks how many requests
it may hold beside the count of the open window, and that an address without a
window has fewer than the maximum, whether its window expired or was swept.  For
`SuccessIsDurable` the invariant says of everything told that it is stored:
`OkIsRecorded` goes through the statuses of `errors.ts` and finds each of those
answered with 200 among the cases of the mapper with a transaction and a record,
and `ToldIsStored` carries it over every later job, whose status may be any.

**The process**, for every number of other processes in the file and every bound
on the tail.  `VersionTellsSchema` needs that a process that migrates is never
ahead of the file (`NeverAhead`): a second process may have overtaken it, and then
the object of its next migration exists, so that the migration fails or is the
idempotent one.  `OnePeriodic` follows from `ScanIInv`: the timer is armed by the
start when its reconciliation succeeded, and by a routine scan that ends, and the
start's reconciliation is the one that has "start" among its awaiters, of which
there is one (`StartAwaited`).  `QuietWhenClosed` follows from `StopIInv`: behind
the reconciliation that `stop` waits for there is none that would do more than
return (`QuietBehindStop`), because a stopped link calls nobody back and no timer
is armed (`Unplugged`).  The type invariant of the daemon says too that it takes
itself for connected only while its connection is up, and needs `StopIInv`: before
a start there is no connection (`NotStarted`) that the start could find reported
and then replace.  A new process begins in states of `Init`, so these
hold over restarts.

**The connection**, for every set of endpoints and every bound on the delay.
The strengthening is `FirstSubscription`, that an attempt which is suspended and
still the current one has not subscribed, and `Overdue`, that a pong is overdue
only of a socket that is watched.  An attempt that was given up meanwhile is told
by not being the current one, which is what the checks after each await compare.

**The engine**, for every number of calls, every length of time and every history
of the transaction.  What a call has read before its await is in the invariant:
an earlier record it holds is itself real (`Evidence`), and with the queue it is
still the stored one (`OneAtATime`, `Current`).  `OwnershipMonotonic` needs
neither the queue nor what was read: the upsert keeps a positive observation.

**The verification**, for every set of transactions of other authors, of posts
and of inputs, every registry, every list of profiles, every limit that
`LimitsAssumption` allows, and every largest integer.  The invariant is short:
the registry has parsed, what is stored is what the mapper made of some verdict
on this transaction, of the verdict of its block if the row names a block, and a
published post is the only output of its transaction.  The work is in lemmas on
the operators, which are stated once and cited by all the theorems:

* a chain of checks answers "OK" exactly if each passes, and otherwise one of
  its codes (`AllPassed`, `FirstFaultIs`);
* what it means that a registry was accepted (`RegistryAccepted`) and that an
  address is authorized (`AuthorizedInWindow`);
* `ParserAccepts` and `EncoderAccepts` characterize the parser and the encoder,
  and `EncodedAccepted` and `AcceptedIsEncoded` are the two directions of their
  being inverse to each other.  The length of a script is a recursive function
  over its pushes; `BytesOfTwo` unfolds it for the two an accepted script has;
* `Kinds` lists what a verdict can be for a place that has a valid height, so that
  nothing is thrown (nothing said, a TM1 memo, a refused TM1
  script, a TM0 memo, several memos, ...), and `KindColumns` what each leaves in
  the columns of the table.

With these `AuthorSigned` and `AcceptedIsCanonical` are read off the kind of a
verified TM1 record.  `AlwaysDurable` holds since only a missing tip or an
overflowing one leaves nothing to store, neither of which a block needs.
`SettledInBlock` needs that a verdict in a block does not depend on the tip
(`BlockDecides`).  `ForecastHolds`, the second half of `WindowExact`, is that
both branches evaluate at the same height, tip + 1, unless that overflows
(`SameJudgement`).  `FeedServable` and `AnswersAgree` go kind by kind through the
readers of a record.

**The web pages**, for every set of addresses.  `OwnRequests` is the strengthening:
once an effect has run, every request the component listens to is its own,
because the cleanup of the previous effect has aborted the others.

Out of the prover's reach and checked by TLC only: liveness under fairness
(`PromisesSettle`, `AdminAnswered`, `NoLockout`, `CatchesUp`, `StoreConverges`,
`Recovers`, `ShutdownEnds`, `BecomesReady`) and anything about `ENABLED`.

## Not modelled

* Of the API: the paging of the feed, health and readiness beyond `Ready`, the
  bearer token, the set-up of the server.
* Pure conversions: formatting, field by field validation of Chronik's answers (a
  malformed one is a failed request), of JSON columns and of the configuration;
  the checks of the browser's guards that the response schemas make too.
* `encodeMemo` of TM0: one template string, handed to the decoder and the
  validator that `MemoVerification` models.
* Signatures and hashes: a key is taken for what it signs.
* Statistics that only displays read: `lastActivityAtMs`, timestamps of the
  backfill, the lag of the checkpoints in readiness.
* The scripts (generators, a historical audit, smoke tests) and the
  administrative client: each is a straight line over files or one request, run
  by hand, with no state that survives it.

## Plan

An abstract connection (up or down, one report per change) that `LiveConnection`
implements and `DaemonLifecycle` uses, in place of the assumption in words above.
