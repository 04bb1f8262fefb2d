# A TLA+ verification of delaykit

delaykit schedules durable jobs (`once`, `debounce`, `throttle`) in a store that
the application owns, and executes them through a pluggable scheduler: a polling
loop, a request-scoped `dk.poll()`, or webhooks delivered by Posthook.  Nothing
holds a lock while a handler runs.  All coordination between pollers, sweeps,
webhook deliveries and client calls is a compare-and-set on one row of the store,
by status and version.  The models here ask whether those compare-and-sets are
enough: whether every accepted request is served, no row is run or settled on the
strength of stale reads, and every row ends.

Source paths below are relative to `src/` of the repository.

## 1. The system

| Component | Source | State it keeps | Operations |
|---|---|---|---|
| Row operations | `types.ts`, `pattern.ts`, the stores | one `Job`: status, version, claimedVersion, attempt, due time, window, ref, miss streak | one guarded update per `Store` method |
| MemoryStore | `stores/memory.ts` | map id → row; `keyIndex` (handler, key) → id of the row that holds it | all `Store` methods, each atomic |
| SqliteStore, PostgresStore | `stores/sqlite.ts`, `stores/postgres.ts` | table `jobs` with a partial unique index on active (handler, key) | the same methods as SQL statements |
| DelayKit facade | `delaykit.ts` | registered handlers, life cycle, the emitter | schedule / debounce / throttle / cancel / retryJob / retryFailed / poll / createHandler / stop |
| Executor | `executor.ts` | none; a claim's snapshot for as long as the handler runs | executeJob (read, reclaim, settle check, claim, run), executeClaimed |
| Result handler | `result-handler.ts` | none | complete, retry, fail, requeue, reschedule, materialize the next wake, terminal stalls, deferral of unknown handlers |
| PollingScheduler | `schedulers/polling.ts` | timers, in-flight set, running flag | poll loop, stall sweep (reclaim, terminal failure, backoff, miss notes, retention), start / stop with drain |
| PosthookScheduler | `schedulers/posthook.ts` | none locally; hooks live at Posthook | schedule (create a hook), cancel (delete it) |
| Posthook (external) | – | hooks not yet answered 200 | delivers a hook at or after its time, again after a 500 or no answer |
| Event emitter | `emitter.ts` | listeners | synchronous emit of clones |

How they interact.  Every actor reads rows and writes them back through `Store`
methods that carry the id and (mostly) the version read earlier.  Between two store
calls of one actor any other actor may run: `await` is the only atomicity boundary
inside a process, the single SQL statement between processes.  On the polling path
the claim is atomic with the query (`claimDueJobs`), and a claim that is never
settled is found by the sweep after its lease (`handler timeout + STALLED_GRACE_MS`).
On the webhook path the only thing that wakes a row is the hook its
`schedulerRef` names; the answer 200 ends that hook.

Hard behaviours, and what correctness means in each component:

* **Rows and stores** – long sequences of legal calls with stale ids and versions.
  At most one active row per (handler, key); the index names every active row;
  versions grow with everything a stale reader must not overwrite; completed and
  cancelled rows are final; the fields of a row fit its status.
* **Polling path** – a handler that outlives its lease, two holders of one row,
  sweeps of several replicas, crashes between the store calls of a claim, of
  an outcome, of the sweep's reclaim-claim-fail sequence.  No request accepted while a
  run was in progress is closed by that run; a row fails only after its own
  attempts; runs do not overlap unless a handler outlives its lease; `onFailure`
  once per budget of attempts; every row settles.
* **Webhook path** – deliveries that race the insert of their row, each other,
  client events, replaces and cancels; Posthook calls that fail after the row moved;
  crashes with redelivery.  An active row always has someone working on it or a hook
  that will be let through to it.
* **PostgresStore** – methods that read first and write in a later statement, or in
  a later part of the same one, while other sessions commit.  A row that moved on in
  between is never overwritten with what was computed for its earlier state.
* **Client calls** – a call awaits the store several times: two calls race for the
  insert of a key, a replace races a claim, the sweep's backoff races a request.  What a
  caller was told is what the row says, and a race is lost only if there was one.
* **Polling loop** – chains of timers, a budget computed before the claim is awaited,
  stop with and without a drain, a scheduler started again.  Never more handlers than
  `maxConcurrent`; nothing left after a drain; the loops go on whatever the store throws.
* **Missing handlers** – sweeps that may note a limited number of rows, deliveries that
  defer, deploys.  No row fails for a missing handler while replicas claim it, and
  orphans beyond the budget do not wait for those before them.

`PROJECT.json` lists every hazard at its line, with the properties that cover it or
the reason why none does.

## 2. Modules

`JobRow` holds the row and what every `Store` method does to it as pure
operators: `CanX(job, ...)` is the guard of method X, `XRow(job, ...)` the new row.
The data that no property tells apart is left out: handler arguments, error texts,
retry configurations, wall-clock dates (a natural number instead).

`MemoryStore` (EXTENDS `JobRow`) is `stores/memory.ts`: `jobs` is the map,
`keyIndex` the index, `issued` the ids ever created, `now` the clock.  One action
per method, named after it.  Ids, versions, due times and clock readings are
arguments chosen freely, since callers hold values they read at any earlier time.
A method whose guard fails changes nothing and is a stuttering step.
`deleteJob` and `updateScheduledFor` keep the code's peculiarities: the first looks
the index up under the bare key and never clears an entry, the second has no guard.

`JobTable` (EXTENDS `JobRow`) is the store as an abstract table: rows, a unique index
on the (handler, key) of active ones, one action per method, no bounds.  It is what
the contract tests ask of every store, and it is `stores/sqlite.ts`: each method runs
its statements without an await between them in the one process that owns the file.
A compare-and-set that does not match changes no row, so its actions take no version.
Where SQL and the in-memory store differ, the table is the SQL: the next window is
computed from the window columns of any pattern row (`MemoryStore` wants a non-zero
wait), and a reset asks the index of rows, not an entry kept by hand.  `close` is there
for stores that live in memory.  `MemoryStore` instantiates it as `Table`, with its own
rows, ids and clock and its `keyIndex` hidden; `ImplementsTable` is `Table!TableSpec`.
The methods of one row are alike on both sides, so what the refinement really asks is
that the index kept by hand admits an insert or a reset only where the unique one would,
that a batch of claims is the oldest due rows and nothing else, and that pruning takes
the oldest terminal rows.

`PollWorkers` (EXTENDS `JobRow`) is the polling path on one row.  `exec[w]` is an
execution in flight (`PollingScheduler.poll` → `executeClaimed` → `handleResult`),
`sweep[s]` the place of a stall sweep in its list (`sweepStalled` →
`claimTerminalStall`); one action per store call.  The clients' calls `PatternEvent`,
`Replace`, `Cancel`, `ManualRetry` reach the same row.  `fresh`, `started`, `budget`,
`runs` and `alarms` are history variables for the properties; no guard reads them.

`WebhookRow` (EXTENDS `JobRow`) is what the two models of the webhook path share: the
row, and the counts of requests and faults.

`WakeDelivery` (EXTENDS `WebhookRow`) is the webhook path on one row: `hooks` are those
Posthook still delivers, `wake[r]` the delivery of hook r in progress
(`validateDelivery` → `executeJob` → `handleResult` → `materializeWake`), `client` the
create, replace or retry call in progress with its own round trips.  `leaks` records
each way in which a wake of the active row was given up; among them "outcome lost", a
delivery answered 200 because its row was no longer the one it ran.  `windowEnd` is what the
clock may still say of the end of a debounce window.  An event leaves it "open"; a hook
stored on the row after that was made for the new end ("hooked"), and once such a hook is delivered or a
delivery has found the window settled it is "over".  So a row whose requeue or reschedule
got no hook of its own may be found unsettled by a redelivery, and is rescheduled again.

`HookBudget` (EXTENDS `WebhookRow`) counts what `WakeDelivery` leaves open: `tries[r]` are
the deliveries Posthook has left for hook r, `run[r]` the handler's run in one of them,
`zombie` a run nobody waits for any more, `entry` the attempts of the handler as it is
deployed now, `snapshot` those stored on the row.  `asked` and `excuses` are histories: what
the current hook was made for, and what has used up deliveries besides attempts.

`PostgresStore` (EXTENDS `JobTable`) is `stores/postgres.ts` under READ COMMITTED.  A
statement whose conditions all stand in its own WHERE is one action of the table, taken
when it commits.  `session[s]` is a connection inside a method that reads before it
writes: the CTE of `deferJob` and `noteMissingHandler` (`BeginMiss`, `EndMiss`), the two
UPDATEs of a reclaim (`reclaimOne` or `reclaimAll`, then `chargeStatement`), and the
subquery of a limited `pruneTerminal` (`BeginPrune`, `EndPrune`).  What PostgreSQL tests
again on a row that changed meanwhile is the WHERE of the writing statement
and no more: `MissGuard` for the misses, `StalledAmong` for a reclaim, nothing but the
id for a prune.  Statements that are one step are actions of `JobTable` by construction.
For the methods of several, `Row(id)` is an instance of `JobTable` with one row, and
`MethodsStepAsInTable` asks of every later statement that it does to each row what the
table's method does to the row as it is then: the contract that the in-memory store and
SQLite keep, with three exceptions written into the property (`MissOf`, `ReclaimOf`,
`PruneOf`; findings 2 and 10).

`ClientCalls` (EXTENDS `JobTable`) is the facade on one (handler, key) of a polling
deployment.  `call[c]` is where a call stands between its store calls (`schedule` with
its insert race and its second, uncaught insert; `handleExistingOnce`; `debounce` and
`throttle` as update, insert, update; `cancel`; `retryFailed`).  Workers, the sweep with
its backoff write, and pruning go on beside it.  `promised` is when the last accepted
request of a row is due, `seen` what happened to the key's rows during each call; both
are histories.

`PollingLoop` is `PollingScheduler` as a process, with the life cycle of the `DelayKit`
that owns it.  `chain[loop][token]` is one chain of timers of `scheduleLoop` (armed,
or awaiting its work), `timer` the handle that `stop()` would clear, `inProgress` the two
flags, `attempts` the failures of each `LoopBackoff`, `inFlight` the handlers,
`stopping` the promise of `stop()`, `kit` the state of the facade.  `overlapped` is a
history: some `start()` found a chain of an earlier life still awaiting the store.
Its formulas are called `LoopInit`, `LoopNext`, `LoopSpec`, `LoopTypeOK`, so that it can be
reasoned about next to `PollWorkers`, the other half of `schedulers/polling.ts`.

`MissingHandlers` (EXTENDS `JobTable`) has replicas that register different handlers
(`known`), the orphans a sweep has listed at their versions and not noted yet
(`orphans`), and deliveries that are about to defer (`defers`).  The unit of its clock is
one round of sweeps.  `touched` and `steady` are histories: the last insert or claim
of a row, and when a replica last restarted or lacked a handler that another has.  A
replica that has every handler that is registered anywhere is *complete*.

`FailedPages` (EXTENDS `JobTable`) is a caller who walks `listFailed` page by page: `walk` has
the page size, the cursor and what was returned so far; `owed` is a history, the
failures that have stood since the walk began.

The modules `*_proofs` hold the theorems: of `JobRow`, `JobTable`, `MemoryStore`,
`PostgresStore` and `ClientCalls`; `PollingScheduler_proofs` of `PollingLoop` and
`PollWorkers`, `Webhooks_proofs` of `WakeDelivery` and `HookBudget`, `FailedRows_proofs` of
`FailedPages` and `MissingHandlers`.  `MC*` modules only add symmetry sets for TLC.

Mutants are operators placed before the definition they would replace and marked as
such in their comment; no action uses them.

## 3. Runs

`CHECK_DEADLOCK FALSE` stands where the system really stops: a settled row that no
client touches has no next step.

| Run | Instance | What it shows |
|---|---|---|
| `store` | 2 ids, 1 (handler, key), once and debounce rows, versions ≤ 2, 2 instants | index complete, one active row, every field fits its status, versions guard readers, terminal rows final, every step a step of `JobTable` |
| `workers_zombies` | 2 workers whose handlers may outlive their lease, 1 sweep, dk.poll, 2 requests | no request closed unserved; a row fails only when its attempts were begun |
| `workers_prompt` | 2 workers, 2 sweeps, dk.poll, 3 requests, 2 crashes, fair | runs never overlap, one `onFailure` per budget, requeue only after events, every row settles |
| `workers_dkpoll` | dk.poll alone, 3 crashes | *violation*: attempts pass `maxAttempts`, the row is run again |
| `wake` | 3 hooks, once and debounce, 2 requests, 1 crash or failed call, fair | a row is stranded only by one of the listed leaks; no request closed unserved; a row that leaks no wake settles |
| `postgres` | 1 id, throttle, 2 sessions, versions ≤ 3, 3 instants | whatever commits between two statements, the later one is the table's method on the row as it is then, but for three exceptions; fields fit the status |
| `postgres_prune` | 1 id, a session that prunes | *violation*: a limited prune deletes a row that was just revived |
| `client` | 1 id, once and throttle, 2 calls, versions ≤ 3, 3 instants | races are lost only to rows that moved during the call; a waiting row is due as last promised |
| `loop` | 2 chains per loop, cap 2, 2 lives, fair | cap, drain and backoff bounds; the loops go on; stop returns |
| `missing` | 2 rows, 2 keys, 2 replicas, a budget of 1, horizon 2, 7 instants | orphans of a complete replica do not queue for their horizons; only unclaimed rows expire |
| `pages` | 3 rows, pages of one or two, 2 clock units to a millisecond, a caller who pages while rows fail, are retried and are pruned, fair | the walk ends, misses no failure that stood throughout, gives no row twice |
| `hook_budget` | 1 row, 3 hooks, deploys with 0, 1, 3 and 4 attempts under a cap of 3, 2 faults, 4 requests, fair | an attempt left to the row has a delivery left to its hook, and the row settles, unless a listed excuse applies |

Why the bounds suffice.  Two ids are needed to compete for a slot, and a third
behaves as the second one does after it was pruned; debounce windows have every guard that
throttle windows have, and what the small bounds of `store` cut off is proved (section 4).  Two workers make a zombie and a
current holder; two sweeps make the race of two terminal steps; every further actor
acts on the same row by the same compare-and-set.  `MaxAttempts = 2` has one retryable
and one exhausted failure.  Three hooks are the delivered one, the new one, and the one
a concurrent call creates; ids are reused once nothing refers to them.  Two requests
allow an event during a run followed by a manual retry.  In the runs with fairness over rows
`MaxVersion` and `MaxAttempt` lie above what the counted requests, crashes and faults
can produce, so that no behaviour ends at a bound; in the others they cut long
behaviours short.  `postgres` has one id: nothing in it relates two rows, and
`store` and the proofs have the slot.  Two sessions are one inside a method and one
that gets there meanwhile; all the one-statement methods are always there.  `client` has
one id, which a pruned row gives free for a new one; that a `retryFailed` meets a newer
row of its key is left to `store`.  In `loop` two chains per loop are the remembered
one and the one that was not cleared; a cap of 2 has room for a budget that is partly
used.  `MaxFailures` stops counting failures in a row where the delay without jitter has reached its
cap: with an interval of 2 and a `BACKOFF_MAX_MS` of 4 that is after one failure.  In `missing` a budget of one makes two rows
queue, one key each, and `LastChange` ends inserts and deploys so that the horizon
can pass undisturbed; two replicas are one that is complete and one that need not be, and
what a third row adds is proved.  `hook_budget` has
the kinds whose deliveries find their row due, a cap of 3 to stand for 16, and configurations
on both sides of one attempt, where Posthook's own default applies; two faults waste both the
spare delivery and one that an attempt needed.  `pages` has three rows: a page, a cursor and
a remainder; two instants in one millisecond tell the cursors apart, and its failures come one after
the other because there is one key.  There `MaxVersion` lets each row fail, be
retried and fail again, and the walk needs no bound.  Every action and disjunct fires in a passing run, and each
property has a mutant of the code that TLC finds to break it.

Fairness.  `PollWorkers`: both loops re-arm their timers after each cycle
whether it failed or not (`schedulers/polling.ts:197-226`, and see `PollingLoop`), a handler settles by
returning, throwing or timing out, store calls return.  So claims, a worker's next
step and a sweep's next step are weakly fair; crashes, `dk.poll` and clients are not.
`WakeDelivery`: Posthook delivers until 200, so `Deliver` is weakly fair per hook, and
calls in progress go on.  Its attempts are unlimited there; in
`HookBudget`, where they are counted, Posthook delivers while a hook has some left, and a run
ends by its timeout.  `FailedPages`: a caller that has begun the loop goes on with it.  `PollingLoop`: a timer that was installed and not
cleared fires, store calls return or throw, and `runStop` compares a clock with its
deadline every 50 ms, so the steps of a chain, the end of the drain and the close
are weakly fair.  Handlers are not: `timeoutMode: "await"` waits for them for ever, and
`LoopsGoOn` asks no more of the poll while all slots are taken.

## 4. Proofs

Every theorem holds for all values of the constants under the assumption its module names:
any number of ids, slots, workers, sweeps, sessions, calls or hooks, any attempts, and any
bounds, so that the bounds of the runs are no hypothesis of a proof.  The assumptions say
that null is no number, no id, no row and no cursor, that durations and counters are
naturals, and that a handler has an attempt at least.  Each inductive invariant was an
invariant of a run before it was proved.

`JobRow_proofs` has what the other modules cite of the row operations: that each *keeps* a
row (`Keeps`: still a `Job`, same slot, fields still fit, not revived), and what it does to
status, version, claim and attempt (`Claimed`, `ClaimEffects`, `VersionEffects`,
`ReclaimEffects`).

**MemoryStore.**  `MemoryStore_proofs` proves `Spec => []IInv` with

    IInv == TypeOK /\ KeyIndexNamesActive /\ RowsFitStatus

`AtMostOneActive` is what users rely on, but it is not inductive: `createJob`
and the resets look at the index, not at the rows, so an active row the index does not
name would let a second one in.  `KeyIndexNamesActive` closes the gap, and to preserve
it a step that writes a terminal row must know that the slot it clears was
that row's.  `RowsFitStatus` is needed for `TypeOK` itself: the due time of a
pattern row is a sum of window fields, which are numbers only because the row's kind
says so.  Per action, a lemma of `JobRow_proofs` says what happens to the row, and one of
five (`RowsKeptInv`, `WriteInv`, `ReleaseInv`, `HoldInv`, `DeleteTerminalInv`) carries
`IInv` over the step by how it treats the index.
Results: `TypeCorrect`, `IndexComplete`, `OneActivePerSlot`, `RowsConsistent`, and
`Invariance` itself.

The action properties: each row operation *grows* the row (`Grows`: the version does not
fall, and rises when the row is revived or its window moves; a completed or cancelled status
stays), and a step leaves behind only rows that were there and grew, or the first
row of an id (`HistoryKept`).  A new row may not land on an old one: `createJob` looks at
the ids that were issued, so the proof also needs that an id without an issue has no row
(`OnlyIssued`, inductive next to `IInv`).
Results: `VersionsOnlyGrow`, `OutcomesAreFinal`, `RowsAreIssued`.

The refinement, `Spec => ImplementsTable`: from a state that satisfies `IInv`
every action of `MemoryStore` is an action of `JobTable` or changes none of its
variables.  `KeyIndexNamesActive` turns "the index names nobody else who is active" into
"no other active row has this slot" (`FreeSlot`), and `RowsFitStatus` says
that a row with a window is of a pattern kind, which the SQL form asks for.
Result: `StoreImplementsTable`.

**The table, and PostgresStore.**  `JobTable_proofs` proves `TableInv` (typed rows, fields
that fit, one active row per slot) of the table, and a lemma for each kind of statement that
the modules which extend the table use: one that keeps its rows, an insert or a reset
that asks the unique index, a deletion.  `PostgresStore_proofs` carries it
over the steps of `PostgresStore`.  The second statement of a method writes what the first
computed for a row that may have moved on; the invariant holds because each tests, on the
row as it finds it, the status its columns rely on: whatever `exceeded` was, the miss it
writes fits a pending row (`MissKeeps`).  The invariant is not stronger than that: of the ids
and versions a session carries it says only their types.
Results: `PostgresInvariant`, `TypeCorrect`, `RowsConsistent`, `OneActivePerSlot`.

`MethodsStepAsInTable` needs more.  The comparison with the horizon is made in the CTE, with
the clock and the streak of that moment; the table's method would make it where the UPDATE is.
That the outcome is the same rests on

    Dated == RowsDated /\ \A s \in Session : Missing(s) => MissDated(s)

which holds next to the invariant: no streak begins after now; versions only grow, so the row
is at the version that was read or past it for good; and as long as it is there, its streak is
the one that was compared or has been ended (`SameStreak`), because only a miss begins one and
a miss takes a new version (`NewStreak`).  So a horizon that was not over in the CTE is
not over at the UPDATE.  The other direction is false, which is the first exception.
Results: `DatesHold`, `MethodsAreTheTables`.

**PollWorkers** (second part of `PollingScheduler_proofs`).  What the properties say of the
row is carried by the processes, so the invariant says what each snapshot in flight knows
*as long as the row is still at its version*:

    IInv == /\ RowInv /\ RunsCounted /\ RunsFresh /\ SnapshotsOld
            /\ ~ HandlersOutliveLease => OneHolder

`SnapshotsOld` (no snapshot is newer than the row) makes a new version unknown to all of
them, which is why a write that takes one cannot disturb the rest.  `RunsFresh`: a claim of
the present version began after the latest accepted request; it gives `NoneClosedUnserved`.
`RunsCounted`: the runs begun for the current budget cover the attempts that the row, an
execution or a terminal claim counts; it gives `FailsExhausted`.  Both hold even if handlers outlive
their leases.  `OneHolder` does not, and is proved where they do not: whoever works on the row is
alone and holds its latest claim, and nobody has called `onFailure` for a budget that is not
spent.  Under that hypothesis, which is a constant of the model: `NoOverlap`,
`AlarmOnce`, `RequeuedOnlyOnNewEvents`; without it the first and the third are false
(finding 3).  Also: `PollWorkersInvariant`, `TypeCorrect`.

**PollingLoop** (first part of `PollingScheduler_proofs`).  `CapHolds` and
`QuietAfterDrain` are not inductive: the first needs to know that a claim which is
awaited has a budget that still fits, the second that whatever is alive can be found
through the flags and the remembered timers.

    LoopInv == /\ LoopTypeOK /\ DelayInBounds /\ StoppedOnce
               /\ ~ overlapped => OneChain /\ Remembered /\ BudgetFits
               /\ QuietAfterDrain

`BudgetFits` holds because `inFlight` falls but never rises while a claim is awaited,
which is to say because there is one chain (`OneChain`).  `ChainMoves` shows that every
step of a chain is a `Moved` of that chain, with what this may do to timer, flag and
`inFlight`; then one lemma per kind of step carries `LoopInv` over it.  `DelayBounds` is
the arithmetic of `computeBackoffDelay`.  Results: `CapNeverExceeded`,
`DrainLeavesNothing`, `DelaysBounded`, `LoopTypeCorrect`, `LoopInvariance`.

**WakeDelivery.**  The first part of `Webhooks_proofs` proves

    IInv == /\ ProcessesTyped /\ RowInv /\ SnapshotsOld /\ RunsFresh
            /\ NewsApart /\ NewsYounger /\ WakesHeld

`StrandedOnlyByLeak` follows from `WakesHeld`: while nothing has leaked, a client call is
about to make the row's wake, or a hook is there that the row will let through.  It is
not inductive alone.  A delivery that names a new hook on the row must know that this hook
has not been answered in the meantime, which would end it.  So a hook that is about to be named is named
by one process only (`NewsApart`), and if it is already being delivered, its
delivery has read the row later than the one that is about to name it (`NewsYounger`): were
it to end, the row would have moved on, and the naming lose its compare-and-set.
`SnapshotsOld` and `RunsFresh` do for `NoneClosedUnserved` what they do in `PollWorkers`.
The steps are grouped by what they do to hooks, not by handler: a delivery or a client call
that moves on (`WorkStep`, `CallStep`), one that takes a new hook, one that names it, and the
insert.  Results: `WakeInvariant`, `TypeCorrect`, `StrandsOnlyByLeak`, `NoneClosedUnserved`.
`ProcessesTyped` is `TypeOK` without `windowEnd`: no guard of an action but that of
`Dispatch` reads it, so its type is proved apart (`WindowEndKept`) and the two give `TypeCorrect`.
The invariant also corrected the model: `StrandedOnlyByLeak` had held at the run's bounds with a list of
leaks that lacked "outcome lost" (finding 4).

**HookBudget** (second part of `Webhooks_proofs`).

    BudgetInv == BudgetTypeOK /\ BudgetRowInv /\ OneHolder /\ Covered

`AttemptsCovered` speaks of pending rows, and a row is pending again after a run.  `Covered`
adds what a running row needs: somebody holds it, and the hook has a delivery for each attempt
*after* the one that runs.  It also carries where the numbers come from: while there is no
excuse, the present configuration asks for no more than the hook was made for
(`entry <= asked`), and that is no more than a hook can be made for.  `OneHolder` (the run in
progress is the only one, and its claim is the row's) makes an outcome the
outcome of the attempt the row counts; it holds because a lease outlives its handler.  The
assumption `SchedulerMax <= RetryCap + 1` is what `schedulers/posthook.ts:76-77` states of its two
limits, "1 initial + 15 retries".
Results: `BudgetInvariant`, `BudgetTyped`, `AttemptsAreCovered`.

**ClientCalls.**  `ClientCalls_proofs` proves

    IInv == TypeOK /\ TableInv /\ CallsFit /\ RacesSeen /\ PromisesKept

`FailsOnlyByRace` speaks of calls that have returned; `RacesSeen` says where a call stands
before: one that found the slot taken and then free has seen a row end, one that is about
to replace a row has it pending before it or saw it go.  `DueAsPromised` speaks of rows
that are pending, but a row is reclaimed and requeued in between: `PromisesKept` adds
that a claimed throttle whose version has moved on will be due when its window closes,
and that a row the sweep still holds a backoff for, and which waits for a first attempt
again, was asked for after the sweep took it, so the promise is marked as raced.
Results: `ClientCallsInvariant`, `TypeCorrect`, `RacesExplained`, `PromisesHold`.

**FailedPages.**  The first part of `FailedRows_proofs` is about pages of any finite strictly
ordered set (`PageOf`): a page comes before everything left out of it, has a last member
unless the set is empty, and is the whole set when the limit is not exceeded.  The second is the walk:

    IInv == TypeOK /\ TableInv /\ RowsDated /\ WalkOwes /\ GivenBefore /\ NothingTwice

The cursor parts the failed rows: what is owed and not given lies after it (`WalkOwes`), and
of what was given nothing that is failed does, nor would if it failed again, because a failure is
dated now and now is not earlier than the cursor (`GivenBefore`, which needs `RowsDated`).
Results: `WalkInvariant`, `TypeCorrect`, `WalksAreComplete`, `GivenOnce`.

**MissingHandlers** (last part of `FailedRows_proofs`).

    FleetInv == /\ FleetTypeOK /\ TableInv /\ FleetRows /\ MissesDated
                /\ SteadyReplicas /\ ListingsHold /\ TurnsTaken

`ExpiresOnlyUnclaimed` follows from `MissesDated`: a streak of misses never began before
the row's latest claim.  `HorizonsDoNotQueue` bounds a waiting time, so its invariant
counts the sweeps that have gone by.  Each was spent on a full budget of rows that are now
*behind* the row in the listing: they have ended, or run, or have a miss while it has none,
or one later than its own (`Behind`).  A row never comes back from behind, unless a replica
claims it; a complete replica that is steady can exclude this, since a row that it does not know
nobody claims (`SteadyReplicas`).  So the sweeps times the budget are at most the
rows behind (`Turn`), once until the row's own clock starts and once from its horizon until it is
ended (`ClockStarts`), which are the two turns of the bound.  `ListingsHold` says that a
listing of a steady replica is not lost: who is listed is noted, by it or by somebody else,
before the next tick.
Results: `FleetInvariant`, `FleetTyped`, `OrphansDoNotQueue`, `ExpiryIsOfOneStreak`.

Every invariant and every action property of a passing run is stated by a theorem.  Only
model-checked is what is temporal: that rows settle (`EventuallySettles`,
`SettlesUnlessLeaked`, `SettlesUnlessExcused`), that loops go on, stops return and walks
end.  Liveness under fairness and ENABLED are out of the prover's reach, as
are induction over data and RECURSIVE operators, of which the models have none.

## 5. Findings

Shown by a run:

1. `dk.poll` never fails an exhausted stalled row (`delaykit.ts:488`), although
   `docs/invariants.md:225` names it as one of the two paths that do
   (`workers_dkpoll`).
2. A limited `pruneTerminal` of PostgresStore tests only the id in its DELETE
   (`stores/postgres.ts:759`) and deletes a row that was revived after the subquery; the
   unlimited form and `types.ts:562` say terminal rows (`postgres_prune`).
Met while modelling, and part of the models as the code has them:

3. `requeueForNextWindow` checks the status only (`stores/memory.ts:210` and its SQL
   twins): when a handler outlives its lease, its lost outcome requeues the next
   holder's claim with no event behind it.  `RequeueOnlyOnNewEvents` is checked where
   handlers do not outlive their lease, and fails where they may.
4. An event between the two reads of a delivery uses up the only hook
   (`executor.ts:58`), although `docs/invariants.md:120` says that the existing hook
   serves it; an event during `materializeWake` ends the same way.  These are the leaks
   "version moved", "claim lost", "resettle lost" and "ref lost" of `WakeDelivery`.  The
   leak "outcome lost" takes more: a run whose row was failed by a client call, then revived,
   loses its own outcome and requeues the window that another run holds (finding 3), crashes
   before it makes the wake, and the other run finds the row pending and is answered 200.
5. A scheduler that is started again while a cycle of its earlier life awaits the store
   goes on with two chains, and then runs up to twice `maxConcurrent` handlers, although
   `README.md` says "at most": the exception of `CapHolds` and `QuietAfterDrain`.
6. `stop()` during `start()` finds the state idle and has no effect
   (`delaykit.ts:421`); the scheduler runs on.
7. `stop()` closes the store only if `closeStore` is true (`delaykit.ts:427`), as the
   option's own comment has it; the comment at `delaykit.ts:416` has the opposite
   default.
8. The sweep's backoff overwrites the due time of a request that arrives between its
   reclaim and its `updateScheduledFor` (`schedulers/polling.ts:315`): the exception of
   `DueAsPromised`.
9. `debounce()` reads the clock before it awaits the store; two calls may write `lastAt`
    in the opposite order, so a later call need not settle later, as the comment at
    `delaykit.ts:242` says.
10. A window that gets its first event between the two UPDATEs of a Postgres reclaim is
    charged an attempt; the comment at `stores/postgres.ts:586-588` says that the second
    UPDATE does not match such rows.  And the horizon of a miss is compared in the CTE
    only: a row that was claimed and retried between CTE and UPDATE has its version
    unchanged and may fail by the horizon of its former streak.  With finding 2 these are
    the three exceptions of `MethodsStepAsInTable`, which is false without any one of them.
11. `docs/invariants.md:20` says that every write but two clears the miss fields; events,
    `rescheduleDueAt`, `updateScheduledFor` and `updateSchedulerRef` leave them.  And the
    comment at `schedulers/polling.ts:326` makes the horizon one of replicas that lack the
    handler; a replica that has it but is busy for a whole horizon does not stop
    the clock.
12. `calculateRetryDelay` adds its jitter after the cap (`result-handler.ts:441-446`), so a
    delay may exceed `maxDelay` by a quarter; `computeBackoffDelay` caps it again.
13. Every 500 that is no attempt of the row uses up a delivery of the hook: a stopping
    instance (`delaykit.ts:854-860`), an early delivery, a database outage.  With the
    attempts a handler needs all of its deliveries, so a row may stay pending with no
    delivery left, although `docs/operations.md:111` counts an outage among what Posthook's
    retries make good: the excuse "wasted" of `SettlesUnlessExcused`.  A deploy that raises
    `retry.attempts` does the same to hooks made before it, and `retryJob` makes its hook
    from the snapshot on the row (`delaykit.ts:683`): the excuse "deployed".
14. `docs/operations.md:115` speaks of a "hard timeout configured on `createHandler`", which
    takes no options (`delaykit.ts:541`); the timeout is the handler's.
15. A redelivery within the dead holder's lease is answered 200 (`executor.ts:80`), which
    ends the hook; `docs/operations.md:113` says that the delivery is skipped and "Posthook
    will retry again later".  It is the leak "still running" of `WakeDelivery` and the excuse
    "skipped" of `HookBudget`: after one crash and one early redelivery nothing retries.
16. A handler registered with more attempts than the scheduler supports is put back to
    pending after Posthook's last delivery and stays there: `result-handler.ts:147` compares
    with the entry (`delaykit.ts:929`), which is not clamped as the row (`delaykit.ts:951`)
    and the hook (`schedulers/posthook.ts:109`) are.  `docs/operations.md:111` says that
    Posthook drives the retry.  It is the excuse "unsupported" of `HookBudget`; no other
    fault is needed.
17. In a mixed fleet a row whose handler nobody has may wait longer than its horizon and
    its turn: with a budget of one, two replicas of which each has a handler the other
    lacks, and retries, every sweep finds a row of the other replica that was just claimed or put
    back, has no miss, and so comes first (`deferred_since` ascending, nulls first,
    `stores/postgres.ts:636-660`).  `docs/invariants.md:177` and `docs/operations.md:107` promise
    the horizon to every orphan.  Hence `HorizonsDoNotQueue` speaks of complete replicas
    only; the budget of 50 (`types.ts:51`) makes the starved case a matter of more than 50 such rows.

What the proofs corrected in the models:

* `HorizonsDoNotQueue` once had the bound `now - since <= horizon + 1 + rows`, which is true
  of two rows and false of three with a short horizon: the right one is two turns of
  each other row, and it is the one that is inductive.
* A delivery of `HookBudget` reclaimed a row whose holder was still at work, which the
  leases of that model exclude; and the coverage is false of a scheduler that supports
  more attempts than its hooks can have, which no code path has.

## 6. What is abstracted or left out

* `PollWorkers` has one row and one instant: due times and leases end at any later
  step, so debounce settling and the order of due rows are left to `MemoryStore`.
* In `PollWorkers`, `HandlersOutliveLease = FALSE` takes a lease to end only when nobody works on the claim;
  `TRUE` lets it end at any time.
* Handlers are registered everywhere in `PollWorkers` and `WakeDelivery`, where a
  delivery that is answered 500 before it does anything is left out: it changes nothing as long
  as deliveries are not counted.  `HookBudget` has both.
* `scheduler.cancel` of a hook is taken to succeed; the code ignores its failure, and
  the hook that then stays is refused by the stale-ref check, which other steps
  exercise.  `Cancel` merges the read of the row with its compare-and-set.
* A client process that dies between its row write and its wake is left out.
* Events, logging, serialization, signatures and HTTP are I/O.  Migrations are DDL.
* Read-only store methods change nothing.
* `PostgresStore`: `now()` is the instant at which a transaction began, and is taken as
  the instant of the step; row locks are the atomicity of a step.  Connections that are
  lost in a statement either committed it or not, which is a caller that stops.
* `ClientCalls`: workers and sweep are as coarse as the calls can tell (`PollWorkers` has
  them whole), and the sweep's terminal step is left to it.  Debounce is not an instance
  of the run: `DueAsPromised` says nothing of debounce rows, whose promise may regress.
* `PollingLoop`: what a handler does is one unit of `inFlight`; delays are recorded but
  order no timers, so the two loops interleave freely.  Jitter takes its two extremes
  and its middle.  The sweep's own work is one step that may fail.
* `MissingHandlers`: a tick is one round of sweeps, which reach every listed row;
  requests are once rows; the wake of a deferred row is a later delivery.
* `HookBudget`: no clock, so Posthook's delays between retries and DelayKit's choice of due
  times are left out, and debounce rows with them, whose deliveries may come early
  (`WakeDelivery`).  A delivery up to its claim is one step; the races inside are those of
  `WakeDelivery`.  A client whose own hook cannot be made fails the row, also there.
* `FailedPages`: the filters of `listFailed` choose rows by fields that do not change while a
  row is failed, so the rows are those that match.  Every store compares ids in one order.

## 7. What is left

1. Composition: `PollingLoop`'s claims as the claims of `PollWorkers`, so that a drain is
   seen from the rows.
2. Stores that fail in the middle of an outcome: `markCompleted` throws inside the executor's
   try block and the finished handler counts as failed (`executor.ts:175`).
3. `start()` and `stop()` of the facade while the scheduler is still starting
   (`delaykit.ts:421`), with the scheduler's own start as a step that awaits.
