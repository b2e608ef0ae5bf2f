# Lunula in TLA+

Lunula (`lib/lunula`, about 12 800 lines of Ruby) is a web framework with a durable
background-job system, and ships two browser clients: Morpheus for navigation
(`packages/morpheus`) and Helium for reactive pages (`lib/lunula/assets`). Most of the
framework is code that runs once per request and keeps nothing. What this development
models is the state that outlives a request and that several threads, processes or
callbacks change: the durable job system and its outboxes, the transactions in front of
them, the smaller stores of a server process, and the two clients.

Every module is a translation of the source; `PROJECT.json` maps each definition to the
lines it stands for. `tlc -config X.cfg M` repeats a run, `tlapm M_proofs.tla` a proof.

## 1. The system

| Component | State it keeps | Operations | What makes it hard | What makes it correct |
|---|---|---|---|---|
| `durable_queue.rb` | rows: attempts, available_at, locked_at, locked_by, failed_at | `claim_many`, `renew`, `complete`, `fail_claim`, `terminate_claim`, `retry_failed` | no transaction around its statements; one clock reading per scan; holders die; results come late | one lease holder per row; one outcome; no lease ended early; a bounded number of starts; everything ends |
| `jobs/adapters/database.rb` | jobs table with worker, cancellation and blocked columns; worker registry; paused queues | enqueue, claim, perform, recovery, pause/resume, discard, reschedule, cancel, retry, prune | counts and checks made before the claim; a stale worker that is alive; operators racing workers; a monitor thread per job | columns agree on the outcome; only the holder, a lapse or recovery ends a lease; limits respected; no job is stuck |
| `jobs/worker.rb` | batch, heartbeat, stop flag | `run`, `work_once`, `stop` | threads share a batch; database errors between steps | claims are settled or lapse; shutdown finishes the batch |
| `jobs/outbox.rb`, `events.rb` | outbox rows; subscriptions | `write`, `dispatch_once`, `publish` | effect and `complete` are two steps; no renewal; several subscribers | at least once; nothing of a rolled back transaction |
| `transaction.rb` | emitted events, enqueued jobs, hooks | `emit`, `enqueue*` | savepoints, rollback, commit hooks that fail | delivered if and only if committed, once, in order |
| `jobs/recurring.rb` | run slots | `tick`, `trigger` | competing schedulers, failing entries | a slot's job is enqueued once; nobody goes past a slot that is not done |
| `jobs/adapters/async.rb` | item list, thread, stop flag | `enqueue`, `shutdown` | condition variable, restart while stopping | an accepted item is performed unless shutdown is called |
| `session_store.rb` | session rows | find, write, delete, `revoke` | overlapping requests, update-then-insert | a revoked session stays revoked |
| `store.rb`, `attributes.rb` | dirty attributes, lock version | `save`, `delete`, `refresh` | commit and rollback hooks | no committed edit is overwritten; a record that passes for clean is stored |
| `cache.rb` | entries with expiry and recency | `read`, `write`, `fetch`, `delete` | fetch computes outside the lock | bounded size; an old value is there for a known reason only |
| `middleware/rate_limiter.rb`, `request_limits.rb` | buckets | `call` | eviction at the key limit | at most `limit` per window |
| `middleware/pending_migrations.rb` | cached answer | `call` | stale answer | closed while migrations are pending |
| Morpheus | current sequence, controller, prefetch cache, session history | `navigate`, `prefetch`, popstate, `stop` | overlapping asynchronous navigations, answers in any order | only the last navigation is shown, under its own address; the loading mark goes away |
| Helium: `helium.js`, `helium-sse.js` | state proxy, binding registry, handlers and disposers of elements, event streams | mount, teardown, writes, the observer's callback, reconnects | bindings run inside bindings; awaits in the middle of processing; streams cut off anywhere | the page shows the state; an element is bound once and while it is there; no event is missed |
| routing, rendering, params, security headers, CSRF, storage, mailer, credentials, SQLite tools, dashboard, benchmark, CLI, generators | none that outlives a call, or files | | I/O, text, cryptography | left to unit tests |

How they interact. A request enqueues a job directly (adapter), or within a `Transaction`,
which writes the jobs row in the same database transaction, or an outbox row when the
adapter's database is another one, or defers to `after_commit`. Worker processes poll:
each loop beats, recovers what stale workers left, claims a batch, performs it in threads,
then relays one job-outbox row and one event. All of them meet in the tables only; the
guards of their `UPDATE`s are the synchronisation. An operator's commands are further
clients of the same tables. The recurring scheduler is one more client of the adapter. In
the browser Morpheus changes the document and Helium sees that through its
`MutationObserver`; they share nothing else. The session store, the cache and the limiter
are used by requests, each for itself.

## 2. Plan

1. `QueueRows`, `DurableQueue`, `LeasedWork`: the leased queue, what it promises, and the
   proofs. Done.
2. `JobsDatabase`: the adapter and the workers on top of it, and the proofs of its safety
   properties. Done, but for named queues and their cursor, uniqueness, and the claim whose
   row is gone.
3. `OutboxRelay`: the relays of both outboxes on top of `DurableQueue`, and its proofs. Done.
4. `Transaction` with the records of `Store`: what may reach an outbox at all, and optimistic
   locking under rollback. Modelled, checked and proved. Open: insert and delete.
5. `AsyncAdapter`, `SessionStore`, `RecurringScheduler`, `MemoryCache`, composed in `MCProcess`:
   modelled, checked, and their safety proved.
6. `Morpheus` against `PageVisit`: modelled, checked and proved.
7. `HeliumReactivity`, `HeliumElements`, `HeliumStream`, composed with Morpheus in `MCBrowser`:
   modelled, checked and proved. Open: nested objects and local scopes, lists and conditionals.

## 3. Modules

* **`QueueRows`** holds no state. It has one operator for every `WHERE` clause and every
  `UPDATE` of `Durable::Queue`, on one row. `Lifecycle` tells the jobs table (whose queue is
  built with complete and terminal attributes) from an outbox (which deletes what is
  complete). NULL is 0 and the clock starts at 1; outcome timestamps are Booleans because the
  queue only compares them with NULL.
* **`DurableQueue`** is the queue with its consumers. `rows` is the table; `con[c]` is what a
  consumer thread holds: the clock reading `at` and the candidates of its `claim_many`, and
  its claims, each with the token and, between the two statements of `fail_claim`, the
  attempts it read. One SQL statement is one action: `StartClaim` (clock reading and expiry
  pass), `SelectCandidates`, `ClaimCandidate` once per candidate, `ReturnClaims`; `Renew`,
  `Complete`, `Terminate`, `FailRead` then `FailWrite`; `RetryFailed` for the operator;
  `Crash` forgets a consumer and leaves its locks. The re-read of a candidate
  (`durable_queue.rb:62`) has no action of its own: what it skips the conditional `UPDATE`
  would not match.
* **`LeasedWork`** is the abstract specification: work is put, granted to a fresh holder,
  given back, finished, buried or revived. There are no clocks, no tokens that could be
  stale and no crashes in it. `DurableQueue!Promise` is its instance: a row's status comes
  from its stage and outcome columns, its holder is `locked_by`, its starts are `attempts`.
* **`JobsDatabase`** has the three tables (`jobs`, `registry`, `paused`), the worker processes
  (`proc`), and an operator command caught between its read and its write (`command`).
  A worker's program counter walks through `Worker#run`: register, beat, read the stale ids,
  take their jobs, start a scan, check a candidate (pause and count), mark it blocked or
  claim it, work the batch, beat. A claim's phase walks through `perform_claim`: waiting for
  a thread, running, past the last cancellation check, then completed, terminated or failed;
  database errors may strike the scan (`ScanFails`), `complete` (`CompleteErrs`) or the
  report of a failure (`GiveUp`). `Renew`/`LoseLease` are the monitor thread.
* **`OutboxRelay`** composes `DurableQueue`, built as an outbox (`Lifecycle` false, claims of
  one), with what `dispatch_once` does between claim and settlement: `Call` and `CallRaises`
  for each subscriber in turn, `Rejected` when the message cannot be rebuilt, `Finish`
  (`complete`), `FinishErrs` (a database error out of `complete`, caught like any other),
  `Fail` (both statements of `fail_claim`), `Abandon` (death, or an error that leaves the
  dispatch). `relay[c]` is `publish`'s loop; `called` and `handled` are what happened in the
  world. The job outbox is the instance with one subscriber, the target adapter.
* **`Transaction`** has sessions, each a thread with a connection and a copy of one record
  whose row they share. `db` is what is committed, `own` what a session has written and not
  committed, `blocks` its open transaction blocks with what to go back to and the
  `after_commit` callbacks registered in each. `Open`, `Release`, `Raise` and `Commit` are
  Sequel's transactions and savepoints as `Application#transaction` and `Store` use them
  (`after_commit(savepoint: true)` puts a callback in the innermost block); `Emit` is `emit`
  and `enqueue`, whose effect is a row of the same transaction or a callback, as `Delivery`
  says; `RunCallback`, `CallbackRaises` and `Dies` are what follows a commit. `Assign`, `Save`,
  `SaveStale` and `Refresh` are a record with a lock attribute. Its snapshot (`was`) is replaced
  by the `mark_persisted!` callback after a commit, and by `Refresh`, which reads the row as
  the session sees it, its own uncommitted one included, and does not wait for the commit. The
  contents of a record are the set of edits made to it, so that a lost one shows; `stored` is
  what the committed row ever held, `misled` the sessions whose snapshot came from a save that
  was rolled back.
* **`AsyncAdapter`** has the item list, the threads it ever started and the callers of
  `shutdown`. `next_item` is one action for each of its outcomes; a wait ends by a signal, a
  broadcast or its time; a thread between its last `next_item` and its end is alive.
* **`SessionStore`** has the table (by id, when it expires) and each request's place between
  finding its session and the end of its write: `UpdateRow` and `InsertRow` are the two
  statements of `write_session`.
* **`RecurringScheduler`** has the committed rows of `lunula_recurring_runs`, how often each slot's
  job went out, and each scheduler's place in its tick: `InsertRun`, `EnqueueJob`, `CommitRun`, or
  `InsertTaken`, `ClassMissing`, `Fails`. `transactional` says whether the job adapter shares the
  scheduler's database. A manual trigger takes the present second for its slot.
* **`MemoryCache`** has the set of entries, each with the time of its last access, and clients in
  `fetch` or between changing a source and deleting its key. `accesses` is the clock that
  `accessed_at` is read from; the entry with the least one is trimmed. A value is the version
  of its source; `raced` remembers the keys written after a delete that their computation
  preceded.
* **`PageVisit`** is what a navigation client promises: the visit asked for last is the only one that
  may be shown, and a document is shown under its own address. The client may leave a visit to
  the browser (`Leave`), and the browser may follow a link by itself (`Native`); either way only
  the address `given` last is loaded, if any is. `loads` counts such documents. There are no
  requests, caches or controllers.
* **`Morpheus`** is one browser tab. A stretch of `navigate` between two awaits is one action:
  `Click` and `PopState` begin a call and take a prefetch, `ResumeWithPrefetch` and
  `ResumeWithout` go on when it has settled, `Respond` or `AbortReaches` when the request has,
  `Frame` after the morph. The prefetch cache is a set of entries, in the order of their promises:
  the JavaScript `Map` is emptied from its oldest entry on. `Outcomes` has everything `fetchPage` can settle to. The session
  history and the document are those of the browser. Its own loads only begin in `Fallback`
  (`fullLoad`), `ClickNative` and `PopStateNative`: `load` is the one under way, the old document
  stays, with its client and its links, and what a user does there may be sooner. `LoadArrives`
  brings the document and with it a new client. `handed` says that the page was left to such a
  load without a mark that it is navigating. `Wanted` and `Given` map it to `PageVisit`.
* **`HeliumReactivity`** is one JavaScript call stack: a write to the state proxy runs every binding
  registered under its key before it returns, and a binding that writes starts another
  round inside its own. A step is what happens between two calls. Mounting is first
  executing every binding, then applying every result. An expression is `test ? yes : no`
  over state keys, enough for dependencies that change from one execution to the next.
* **`HeliumElements`** is the life of elements: `processElements` up to its await and after it, the
  observer's callback record by record, `cleanup`, `helium()` and `heliumTeardown()`. Jobs
  run one at a time in the order of the microtask queue (`jobs`).
* **`HeliumStream`** is a stream of server-sent events: a chunk with whole events and perhaps the
  beginning of another, an update that throws, a response that fails, ends, or never comes,
  and the retry from the last id seen.
* `MCDurableQueue`, `MCOutboxRelay`, `MCJobsDatabase` give the constants values for TLC. `MCProcess`
  and `MCBrowser` put the components of a server process, and of a browser tab, side by side.
  These share no variables: `focus`, chosen in the first state, says whose steps the
  behaviour takes, so that a run explores their sum and not their product.
* The theorems are in `DurableQueue_proofs`, `OutboxRelay_proofs`, `JobsDatabase_proofs`,
  `Transaction_proofs` and `TransactionEffects_proofs`; in `Process_proofs`, for the other
  components of a server process and for `MCProcess`; in `Morpheus_proofs`; and in
  `Helium_proofs`, for the three Helium modules and for `MCBrowser`.

An operator whose name has a suffix (`Complete_ById`, `Full_OffByOne`, ...) is a plausible bug,
kept beside the definition it would replace; each property is known to fail with one of them
(`mutants` in `PROJECT.json`).

## 4. Runs

| Run | Question | Result |
|---|---|---|
| `queue_jobs` | do leases exclude, outcomes exclude and tokens protect, with two consumers, slow scans, a crash and a revival; is it `LeasedWork`? | holds |
| `queue_liveness` | does every outbox row end, with a crash at any point? | holds |
| `relay_safety` | is an event delivered to each of two subscribers at least once, boundedly often and fairly among them, with two relays, a death and a revival; are the relays' steps the queue's? | holds |
| `relay_liveness` | is every job hand-off delivered or listed as failed? | holds |
| `jobs_safety` | do the columns agree, and do leases end rightly, with recovery of live workers and any operator command? | holds |
| `jobs_limits` | by how much can a concurrency limit be exceeded? | by the number of other workers |
| `jobs_liveness` | does a job end when its worker dies, the scan or `complete` meets a database error, or it is cancelled? | holds |
| `process` | do effects follow the data, are edits and slots neither lost nor doubled, are accepted items performed, do ended sessions stay ended, is a stale cache entry explained? | holds |
| `browser` | is only the last visit shown, under its address; does a page show its state; are elements bound once and while they are there; is no event missed? | holds |
| `jobs_cancel_race` | does a job end once when it is cancelled while being claimed? | **violated** |
| `jobs_limit_race` | is a concurrency limit enforced? | **violated** |
| `jobs_orphan` | does a dead worker's job free its key? | **violated** |

The three violations are disagreements of the code with what its documentation says; the
`findings` of `PROJECT.json` quote both sides. `OutcomesAgree` and `OvershootBounded` are what
remains true next to them.

Several properties that hold name an exception, and each exception is a thing the code does
and the model reaches: a navigation that resumes late puts its controller over the current
one's (`StrayRequestsAreExplained`, `morpheus.js:124`); a binding whose expression threw stays
under its old keys, and an effect that reads what an effect run at every write computes is not
registered under it, because it changes again inside the assignment (`Consistent`,
`helium.js:468`); an element that moved during an `@import`, or was removed in the
task that ends its generation, may be bound twice or never cleaned up (`BoundOnce`,
`BoundIffThere`, `helium.js:650`); a response that ends before any id, or in the middle of an
event, breaks the stream (`NothingMissed`); an item enqueued while `shutdown` joins may be
cleared, and its thread forgotten (`AcceptedIsPerformed`, `async.rb:48`); a running job that
was cancelled as pending loses its lease to `jobs:retry` or `jobs:prune`, which look at the
outcome and not at the lock (`LeaseEndsRightly`, `durable_queue.rb:164`); a request under way
revives the session that is revoked beneath it (`GoneForGood`); an edit after `save` becomes
part of the clean baseline, as the repository's `README.md:291` says (`CleanMeansStored`); a callback that
raises takes those after it with it (`EffectsFollowTheData`). A record that is refreshed in the
transaction that saved it takes the uncommitted row for its snapshot (`store.rb:71`). When that
is rolled back, the record passes for clean with edits the database never got, and carries a lock
value that another session's commit may come to have, so that its next save overwrites that
commit: `CleanMeansStored` and `NothingOverwritten` except the records in `misled`, and the
finding at `store.rb:71` quotes what the documentation says. A page whose call returned after
`fullLoad`, or whose history step went to `reload`, stands under the new address with no mark
until the load arrives, which may be never: `LocationAgrees` excepts `handed`
(`morpheus.js:87` and `160`). One more is visible as a refusal: the second save of a record in one
transaction is `SaveStale`, because `update` compares the lock value of the snapshot, which only
the commit or a refresh replaces.

**Bounds.** Two rows and two consumers are enough for every conflict there is between a row's
holder and another claimant, because no statement looks at more than one row except the
candidate page (order and cut-off; `queue_jobs` orders by a priority opposed to the ids, the
liveness run has a window of one) and the concurrency count (three jobs in `jobs_limits`, so
that two can run over a limit of one with a third waiting). Two attempts give a first
failure, a last one, and an expiry pass. Leases of one or two ticks with a clock up to 3 let a
lease be taken, lapse, and be taken again by a scan with an old reading. `LastRenewal` and
`MaxRenewals` stop renewals, which repeat what they did. `MaxCrashes`, `MaxRevivals`,
`MaxCommands`, `MaxExits` and `MaxBusy` count what happens without limit in reality; the
theorems for `DurableQueue`, `OutboxRelay` and `JobsDatabase` hold for any number. `jobs_safety`
spends its states on one job's history: three commands of any kind (a cancellation, a retry and a
prune can follow one another), a stop or death and a database error, with two workers; that jobs
do not interfere but through their keys is left to the theorems. `WorkerTimeout` is
shorter than the lease there, so that recovery meets live leases.
`TimeMatters` lets the clock move only while some comparison with it can still change;
with it the liveness runs end by themselves before `MaxClock` (40), and no behaviour is cut
off by the bound. `jobs_orphan` does reach its `MaxClock`: by then the lease has lapsed
and every registry row is what it will remain, so more time would change nothing.
`relay_safety` has one row, so that its two relays contend for it and every retry starts from
what the last dispatch left in memory; `relay_liveness` has two rows and one relay, which takes
them in turn. Nothing bounds how often a subscriber raises but the attempts.
Workers and consumers are interchangeable: symmetry is used in safety runs only.

`process` has two of each actor, as every conflict there is between two. Two levels of
nesting give a savepoint in a transaction; three edits let a record be loaded, overtaken,
saved, rolled back and saved again, and let an edit follow the refresh of a save that was rolled
back and another session's commit; with two effects the order of two shows. Edits and effects
together are four at most (`MaxChanges`), as neither needs the other's last. The event side is delivered through an outbox and
the job side by a callback, one of each. Three items can be due in another order than they came, with a wait between; of two callers of
`shutdown` one calls while the other's is under way. Three ids let one session end, be
renewed, and be submitted again. Of three tasks the last is broken; two
seconds give two slots of one task and one of another; one failure takes a scheduler away
between any two statements. A cache of size one with two keys trims at every second write;
six accesses (`MaxAccesses`) count what is found and what is written, three of each by the two
clients.

`browser` has two addresses, so that every navigation is to the page that is shown or to the other,
three events in any combination (two overlapping navigations and a prefetch, a history step or an invalidation
between them), and a document the user is active in with whatever the browser loads after it, at
any moment: events go on in the old document while a load is under way. A cache
of one entry is full at once. `SmallPages` are five pages of four
keys: calculations of calculations in both orders, an effect that feeds one, an effect that names a
key and reads what is computed, expressions that throw beside an effect that runs at every write,
and everything computed from everything else. `MaxDepth` (24) is above what the deepest of them
reaches; a circle that is not cut would reach any bound, and `WritesReturn` fail. Two elements, of
which one has an `@import`, three changes and two mounts or teardowns: a removal and a
reinsertion during an await, with a remount between. Four events over three connections: two breaks.
Deadlock is not checked: each system rests when there is no work and its bounds are used.

**Fairness.** Weak fairness of a worker's loop and of its job threads: `Worker#run` loops
until told to stop, threads are scheduled, and a job body or subscriber is assumed to end (the code offers a
cooperative timeout only, and subscribers none); which way it ends is not fair, it may raise
every time. A worker that dies is replaced. A command that was begun is finished. The clock moves on.
Nothing is fair that a person or a fault decides: enqueue, renewals, crashes, stops, database
errors, commands. In `process` only the async adapter needs fairness: its threads are scheduled,
its jobs end and time passes; nobody has to call `shutdown`, or to return from it. In `browser`,
requests and prefetches are assumed to settle one way or another, and frames to come; JavaScript runs to
completion. That a load of the browser arrives is not assumed: the user may stop it.

## 5. Proofs

For every set of rows and consumers, lease, window, batch size, retry schedule and bound,
with the assumptions `QueueAssumption` and `ConsumerAssumption` only:

* `TypeCorrect`, `LeaseExclusion`, `OneOutcome`, `FailClaimAtomic`: `TypeOK`, `OneLeaseHolder`,
  `OutcomesExclusive` and `FailReadStillTrue` are invariants.
* `LeaseSafety`: `NoStolenLease` holds of every step.
* `Implements`: every behaviour of `DurableQueue` is one of `LeasedWork`.

The argument. None of the properties is inductive. That a late result cannot touch a row rests
on its token being nowhere else, hence `TokensUnique`: tokens were issued, each is in one claim
of one consumer, and locks at most the row it was issued for. That a fresh token is fresh
rests on `issued` bounding both the rows and the claims. `RowsCoherent` ties `locked_at` to
`locked_by` and bounds `attempts`: `FailWrite` looks the delay up in a function on
`1..MaxAttempts`. `ReadingsPast` says that a scan's clock reading is not in the future, which is
why a lease that looks lapsed to a slow scan has lapsed (`OldReadingIsPatient`), and with it
`LeaseSafety`. `FailReadStillTrue` is part of the invariant because `FailWrite` may only then
send an exhausted row, and no other, to its end, which the refinement needs: an abstract
`GiveBack` is allowed only while starts are left. `DurableQueue_proofs` first states what
each `UPDATE` does to a row's fields, then has a lemma per action; for the refinement it states
for each abstract action how a change of one row yields it, then again has a lemma per action.

For `OutboxRelay`, with `RelayAssumption` in addition and for any number of subscribers:

* `RelaysConsume`: every behaviour of the relays is one of `DurableQueue`; all of the above is
  inherited, and with it `IndInv`.
* `AtLeastOnce`: `NothingLost` is an invariant. It rests on `OneDispatch`: a relay has one claim at
  a time, begins each dispatch afresh, and as long as nothing raised, whoever it has passed has
  dealt with the message it holds.
* `BoundedRedelivery`: `RedeliveryIsPaidFor` is an invariant. The strengthening, `Accounts`,
  counts with each subscriber's past calls the relays that have yet to call it (`Owing`): a
  claim adds one relay and one attempt, a call turns a relay into a delivery, a revival writes
  off `max_attempts` at most.

* `SubscribersKeepLevel`: `NobodyIsSkipped` is an invariant. For two subscribers `SkipInv` says how
  far apart their calls may be: by the relays that have passed the first and not the second
  (`Between`), and by those that died there.
* `RelayTypes`: `RelayTypeOK` is an invariant.

For `JobsDatabase`, with `JobsAssumption` in addition to `QueueAssumption`, for any number of jobs,
keys, queues, workers, commands, deaths and database errors:

* `JobsTypes`, `RecoveryFindsOwner`, `RunningNeverListedBlocked`, `OutcomesStayInAgreement`: `TypeOK`,
  `OwnerIsHolder`, `RunningIsNotBlocked` and `OutcomesAgree` are invariants.
* `LimitExceededByFew`: `OvershootBounded` is an invariant.
* `LeasesEndRightly`: `LeaseEndsRightly` holds of every step.

The invariant, `JobsInv`, says of a row that its columns agree (`Coherent`): a locked row is live,
has used an attempt, is not completed nor listed as blocked, and has failed only if it was
cancelled. That is what makes the guards on single columns enough: a mark, a
discard and a reschedule look at `locked_at`, a result at `locked_by`, recovery at `worker_id`, and
each may trust what the others imply. Of a claim it says that its token was issued and that
the row it locks names its worker (`ClaimSound`); a fresh token is in no claim, so the claims of
others stay sound. Of a scan it says that its reading is a past one. For the limit it counts, with
a key's running jobs, the workers that have decided and not yet claimed (`Deciding`): a
decision is taken below the limit, and turns into at most one more running job. All steps but
the claiming `UPDATE` leave a row its lease or take it away (`Kept`), which is shown
once for a worker's step (`ProcStep`) and once for an operator's (`OperatorStep`).

For `Transaction`, with `TransactionAssumption`, for any number of sessions, levels of nesting,
edits and effects and any delivery:

* `TransactionTypes`: its type invariant.
* `LockingIsSound` and `NoLostUpdate`: `NothingOverwritten` holds of every step. That a commit
  keeps every edit of the row it replaces is a fact about one session; it is inductive only
  together with what its record knows and what its callbacks are about to make of it. `LockInv`
  says that one session at a time has an uncommitted row (`OneWriter`); that the versions a
  session has written, its row and those its open blocks would restore, follow one another and
  the committed row (`FrameRule`, in `Frames`). Of a session that is not misled (`Informed`) it
  says that each of these has the edits of the one before; that a snapshot with the lock value of
  a version it could come to see has its edits (`Aware`, in `Watches`); the same of the
  committed row (`Knows`); and that a record waiting for its `mark_persisted!` will make a snapshot of
  that kind (`WillKnow`). An edit is lost exactly when a snapshot claims a lock value whose edits
  it lacks, which is why the value compared must be the snapshot's and not the record's own, and
  why a rollback that leaves the snapshot ahead of the row ends what can be said of its session
  until it reads the committed row again.
* `EverythingAccountedFor`: what is committed is stored, performed, due to be or lost with its
  callback, and nothing else is (`AllAccountedFor`, the first conjunct of
  `EffectsFollowTheData`). The strengthening, `EffectInv`, says of each session that what it has
  written is what it stored and what the callbacks of its open blocks will do, and that
  the same held when each block began, of the blocks around it. That makes a rollback harmless.
* `EffectsGoWithTheData`: all of `EffectsFollowTheData` is an invariant. Once and in order is
  `OrderInv`: effects are numbered as they are asked for; those of a session that are still to go,
  whether registered in a block or about to run, carry greater numbers than those that went, and
  ascend from block to block and callback to callback, which a savepoint's release keeps.
* `CleanRecordsAreStored`: `CleanMeansStored` is an invariant. `StoredInv` says that a record, of a session that is not
  misled, with a `mark_persisted!` registered in some block has its edits, but for those made after a save, in
  the row that would be committed, and in the row every block inside that one would go back
  to; so that a rollback takes the callback with the row, or leaves both.

For the components of a server process, each with its own assumption on the constants:

* `SessionTypes`, and `NoReturn`: `GoneForGood` holds of every step, for any number of requests, ids
  and hours. `SessionTypeOK` suffices as the invariant: ids are given out in order, so a fresh
  id is none of those that are gone, and a request that is on no gone session can only find
  a live one.
* `RecurringInductive` and `SlotsAreServedOnce`: `SlotsServedOnce` is an invariant, for any
  number of schedulers, tasks and seconds. A slot's row is inserted by one scheduler at a time
  (`Exclusive`); a job is out for the slots with a row and, on another database, for each
  transaction that failed after it (`JobsOfSlot`, `JobIsOut`); and a scheduler has passed
  a task only when its slot was done (`PassedIsDone`, over what is left of `Order`).
* `CacheInductive` and `StaleValuesAreExplained`: `StaleIsExplained` is an invariant. A value about to
  be written is old only if a delete has overtaken its computation or is about to (`OldIsKnown`).
  That the cache stays within its size needs an entry to trim: of entries with different access
  times one is the oldest (`LeastNumber`, from the well-founded order of the naturals).
* `AsyncTypes`; `ProcessRunsItsParts`: a behaviour of `MCProcess` is one of each component, which
  carries all of these over to the composition; `ProcessTypes` for its type invariant.

For `Morpheus`, for any histories, cache size, time to live and number of events: `MorpheusTypes`;
`AddressAndPageAgree`, `PagesAreTakenOnce`, `TakenPagesAreFresh` and `StraysAreExplained` for
`LocationAgrees`, `TakenOnce`, `FreshPages` and `StrayRequestsAreExplained`; and `ClientShowsLatest`,
that it implements `PageVisit`. `MorpheusInv` has a part for each: a promise is in the cache or taken,
and what is in the cache was asked for since the last invalidation (`PagesInv`); the controller
is the current call's, or that of a call that came too late, which is the exception
(`RequestsInv`); a current call that waits for its frame has already brought address and
document together, unless the page is handed to the browser (`PlaceInv`). The refinement goes step
by step: only a step of the current call or an arriving load changes the document, because every
other call ends at a test of the sequence, and what arrives is what was given last.

For Helium:

* `NothingIsMissed`: `NothingMissed` is an invariant. `StreamInv` says where reading, or the next
  request, goes on: after the last event handled, whatever was lost with the buffer.
* `RegistryIsRight`: `RegistryAgrees` is an invariant, for any page. A queue holds exactly the
  dependents of its key, once each and calculations first (`QueueFits`), because what
  `updateBindingDependencies` removes and adds is the difference to the dependencies of that moment,
  and not of the moment the execution began. `CallsFit` types the stack: an effect is executed
  by the mount or by an application.
* `EverythingIsConsistent`: `Consistent` is an invariant, for any page and any depth of calls. It
  is the longest argument here. `ConsistentInv` holds for every order (`rank`) of the keys that
  the page's definitions respect. The stack climbs (`Climbs`): what a call below a notification
  computes comes before everything the notification will run (`Over`), each call is one the
  call below it makes (`Seated`), and `applying` is those in progress. So a notification cannot
  change what an effect in progress has read (`ExecutionsHold`), no binding is passed over that
  still has to run, and what it will be registered under is all it has read. Of every binding
  it says (`Served`) that it shows what the state says, threw, is awaited by a notification in
  progress, or is being run (`Owed`); that a result the mount has kept is right or will be
  superseded (`KeptRight`), and is used by the mount alone (`UsedAtOnce`). When the stack is empty
  nothing is awaited or run, and `Owed` is the property. `WellFounded` says that
  the page has such an order.
* `ElementsAreBoundOnce` and `ElementsAreBoundIffThere`: `BoundOnce` and `BoundIffThere` are invariants,
  for any elements, mounts and changes. `ElementsInv` says that an element that neither raced
  nor was stranded is in the hands of one call of the present generation at most (`HeldByOne`);
  that its mark, its handlers and its disposers go together but for what that call has yet to
  do (`MarkedOnce`, `DisposersFit`, `HeldFits`); and that a difference between the document and the
  marks is in a record nobody has dealt with (`ChangesAreRecorded`).
* `BrowserRunsItsParts` and `BrowserTypes`, as for the process.

Every invariant and every action property that a passing run checks is a theorem. Only
model-checked, because the prover does not reason about fairness and ENABLED, are the liveness
properties: `EverythingSettles`, `DeliveredOrFailed`, `JobsSettle`,
`AcceptedIsPerformed`, `LoadingEnds` and `WritesReturn`. `MCProcess` and `MCBrowser` are proved about
where their definitions are general (the composition); the pages, schedules and histories they
define are only TLC's.

## 6. Not modelled

In `JobsDatabase`: the round-robin over named queues, uniqueness, bulk and scheduled enqueue
(`reschedule` produces jobs for later), the reporting queries, payloads, and the state of the
`ExecutionContext`, which only makes a body end. `prune` may delete any set of ended rows:
the ages it is given are the operator's. A claim is given with the `UPDATE`, so the read-back
that finds the row retaken (`durable_queue.rb:71`) is not there. The reading
of the clock and the expiry pass of a claim are one step, as are `queue_paused?` and the INSERT of
`enqueue`. One operator's command at a time is between its read and its write: two operators that
overlap, or a pause during a reschedule, are not there. A transaction is one
step; `SQLITE_BUSY` appears as the database errors above. When `terminate_claim` raises
`LeaseLost` inside the rescue of `perform_claim`, the worker reports a failure for a job it no
longer holds: the report is left out, the row is not touched.

In `OutboxRelay`: a change of the subscribers, and a subscriber that never returns.

In `Transaction`: insert, delete and rows without a lock attribute, coercion and validation, and
the block and arguments of `enqueue_all`. A session has one instance of the record: a second one
that `find` loads while the first's save is uncommitted is left out. The record has one
attribute, which a save writes whole. Rows that other connections write are seen when they are committed; SQLite's
own locks appear as the wait of `Save`. `CallbackRaises` allows more than `Events#publish` does,
which rescues what a subscriber raises (`events.rb:224`): a job adapter may still raise.

In `AsyncAdapter`: the end of the thread by an exception that is no `StandardError`
(`async.rb:65`); a job returns to the loop, whether it raised or not. In `SessionStore`: what a
session holds, so that two requests that overwrite each other's data are one write after
another, and rows without an expiry. In
`RecurringScheduler`: the sleep and the stop of `run`, changes of the schedule, the
interval syntax, and the fractions of a second in a manual trigger's time, which the model cuts
off, so that triggers meet slots more often than they do. That the tasks after a broken one starve is visible in the model
(`ClassMissing`) and contradicts nothing that is written. In `MemoryCache`: `NullStore`, entries
without an expiry and the HTTP headers.

In `Morpheus`: scroll, focus, active links, visits that change the hash only, and what
Idiomorph does to the nodes (third-party code, vendored as `idiomorph.esm.js`). What the browser
makes of a load under way when the history is stepped through is left open: it may drop it or
go on. In Helium:
nested reactive objects and local scopes, list and conditional rendering, the forms of its
requests, and the two expression interpreters. `public/assets` of the examples, and
`lib/lunula/assets/morpheus.js`, are copies of the modelled files; most lines of JavaScript in the
repository are such copies or Idiomorph.

The rate limiter and the pending-migration gate do all their work under one mutex, so that
they are sequential code for unit tests. The rest (routing, rendering, parameters, security headers,
CSRF, storage, mailer, credentials, SQLite tools, dashboard, benchmark, CLI, generators) is input
and output, text and cryptography.
