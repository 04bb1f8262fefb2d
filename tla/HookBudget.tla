------------------------------ MODULE HookBudget ------------------------------
(***************************************************************************)
(* Whose retries are they?  With a PosthookScheduler the row counts its    *)
(* attempts and Posthook counts the deliveries of its hook, and both must  *)
(* agree on how many there are: a failed attempt is put back to pending,   *)
(* answered 500, and left to the next delivery of the same hook.           *)
(*                                                                         *)
(* The hook is made with the retry configuration of that moment: of the    *)
(* process that creates it, of the handler's entry when it is made after a *)
(* delivery, of the snapshot on the row when the handler is missing or the *)
(* row is retried by hand.  The result handler counts against the entry it *)
(* has when an attempt fails, which may be another after a deploy.         *)
(*                                                                         *)
(* One row, of a kind whose deliveries find it due.  WakeDelivery has a    *)
(* delivery's store calls one by one and as many deliveries as it takes;   *)
(* here they are counted, and what a delivery does up to its claim, and    *)
(* its outcome with the wake it makes, are one step each.  A handler ends  *)
(* within its lease, and the clients' own calls of Posthook succeed.       *)
(***************************************************************************)
EXTENDS WebhookRow

CONSTANTS
    Configs,            \* retry.attempts in deploys, 1: no retry, 0: not registered
    SchedulerMax,       \* scheduler.maxAttempts
    RetryCap,           \* the most retries that a hook asks for
    ProjectRetries,     \* Posthook's own default, for hooks that ask for none
    horizonMs           \* the defer horizon, in misses

ASSUME BudgetAssumption ==
    /\ Kinds \subseteq Kind /\ Configs \subseteq Nat /\ None \notin Ref
    /\ Handler # {} /\ Key # {} /\ None \notin Job
    /\ SchedulerMax \in Nat \ {0} /\ RetryCap \in Nat /\ ProjectRetries \in Nat
    /\ horizonMs \in Nat /\ SchedulerMax <= RetryCap + 1
    /\ MaxRequests \in Nat /\ MaxFaults \in Nat /\ MaxVersion \in Nat

VARIABLES
    snapshot,   \* its retryConfig.attempts, 1 for null
    entry,      \* retry.attempts of the handler as deployed now, 0 without it
    tries,      \* hook -> deliveries Posthook has left for it, 0 when it is over
    run,        \* hook -> the handler's run in its delivery, if any
    zombie      \* a run whose delivery Posthook no longer waits for, if any

\* History, for the properties only.
VARIABLES
    asked,      \* attempts that the current hook was made for
    excuses     \* what has used up deliveries of the current hook besides attempts

budgetVars == <<job, snapshot, entry, tries, run, zombie, requests, faults, asked, excuses>>

NoRun == [version |-> 0, attempt |-> 0]
Run == [version : Nat, attempt : Nat]

BudgetTypeOK ==
    /\ job \in Job \cup {None}
    /\ snapshot \in Nat /\ entry \in Configs
    /\ tries \in [Ref -> Nat]
    /\ run \in [Ref -> Run] /\ zombie \in Run
    /\ requests \in 0 .. MaxRequests /\ faults \in 0 .. MaxFaults
    /\ asked \in Nat /\ excuses \in SUBSET {"wasted", "skipped", "deployed", "unsupported"}

BudgetInit ==
    /\ job = None
    /\ snapshot = 1 /\ entry \in Configs
    /\ tries = [r \in Ref |-> 0]
    /\ run = [r \in Ref |-> NoRun] /\ zombie = NoRun
    /\ requests = 0 /\ faults = 0
    /\ asked = 1 /\ excuses = {}

-----------------------------------------------------------------------------
getMaxAttempts(attempts) == IF attempts < SchedulerMax THEN attempts ELSE SchedulerMax

\* Mutant: the first delivery is counted twice.
TriesButOne(attempts) ==
    IF attempts > 1 THEN IF attempts - 1 < RetryCap THEN attempts - 1 ELSE RetryCap
    ELSE 1 + ProjectRetries
\* What a hook made for this many attempts is delivered at most: toPosthookRetry,
\* or no override at all for a single attempt.
Tries(attempts) ==
    IF attempts > 1 THEN 1 + (IF attempts - 1 < RetryCap THEN attempts - 1 ELSE RetryCap)
    ELSE 1 + ProjectRetries

\* Ids that nothing refers to any more serve as new ones.
FreeRefs ==
    {r \in Ref : tries[r] = 0 /\ run[r] = NoRun /\ (Exists => job.schedulerRef # r)}

\* How a configuration may ask for more attempts than a hook was made for, or than
\* a hook can be made for.
ByConfig(config, attempts) ==
    {excuse \in {"deployed", "unsupported"} :
        config > (IF excuse = "deployed" THEN attempts ELSE SchedulerMax)}

\* A new hook for the row, which names it then.  left is what the other hooks have.
Wake(row, attempts, left) ==
    \E new \in FreeRefs :
        /\ tries' = [left EXCEPT ![new] = Tries(attempts)]
        /\ job' = updateSchedulerRefRow(row, new)
        /\ asked' = attempts
        /\ excuses' = ByConfig(entry, attempts)

\* materializeWake inside a delivery.  If Posthook cannot be reached the delivery
\* is answered 500, which leaves the hooks failing, and the hook that is being
\* delivered serves the row as it is now.
WakeOrFail(row, attempts, left, failing) ==
    \/ Wake(row, attempts, left) /\ UNCHANGED faults
    \/ /\ Fault
       /\ job' = row /\ tries' = failing /\ excuses' = excuses \cup {"wasted"}
       /\ UNCHANGED asked

NoWake == UNCHANGED <<faults, asked, excuses>>

-----------------------------------------------------------------------------
(* A delivery: validateDelivery and executeJob, up to the claim. *)

Used(r) == [tries EXCEPT ![r] = @ - 1]      \* a 500 or no answer
Over(r) == [tries EXCEPT ![r] = 0]          \* a 200
Due(r) == tries[r] > 0 /\ run[r] = NoRun
LetThrough(r) == Active /\ job.schedulerRef \in {None, r}

\* Terminal rows and hooks the row does not name.
Ignored(r) ==
    /\ ~ LetThrough(r)
    /\ tries' = Over(r)
    /\ UNCHANGED <<job, run>> /\ NoWake

\* 500 before anything is done: the instance is stopping, the delivery is early,
\* the database cannot be reached.
Bounced(r) ==
    /\ Fault
    /\ tries' = Used(r) /\ excuses' = excuses \cup {"wasted"}
    /\ UNCHANGED <<job, run, asked>>

\* A row that is running still, within the lease of its holder, alive or not.
Skipped(r) ==
    /\ LetThrough(r) /\ job.status = "running"
    /\ tries' = Over(r) /\ excuses' = excuses \cup {"skipped"}
    /\ UNCHANGED <<job, run, asked, faults>>

\* The handler is missing: the row is deferred, and its wake asks for what the
\* snapshot on the row says; or its horizon is over.
Defer(r, row) ==
    LET deferred == deferJobRow(row, 0, row.deferAttempts, horizonMs)
    IN  /\ UNCHANGED run
        /\ IF deferred.status = "failed" THEN job' = deferred /\ tries' = Over(r) /\ NoWake
           ELSE WakeOrFail(deferred, snapshot, Over(r), Used(r))

Start(r, row) ==
    /\ job' = markRunningRow(row, 0)
    /\ run' = [run EXCEPT ![r] = [version |-> row.version, attempt |-> row.attempt]]
    /\ tries' = Used(r)
    /\ NoWake

DispatchRow(r, row) == IF entry = 0 THEN Defer(r, row) ELSE Start(r, row)

\* The lease is over; its holder is dead, since a handler ends within its lease.
Reclaimed(r) ==
    LET row == reclaimRow(job)
    IN  /\ LetThrough(r) /\ job.status = "running"
        /\ zombie = NoRun /\ \A q \in Ref : run[q] = NoRun
        /\ IF row.attempt >= row.maxAttempts
           THEN /\ job' = markFailedRow(markRunningRow(row, 0), "stalled", 0)
                /\ tries' = Over(r)
                /\ UNCHANGED run /\ NoWake
           ELSE DispatchRow(r, row)

DeliverHook(r) ==
    /\ Due(r)
    /\ \/ Ignored(r) \/ Bounced(r) \/ Skipped(r) \/ Reclaimed(r)
       \/ LetThrough(r) /\ job.status = "pending" /\ DispatchRow(r, job)
    /\ UNCHANGED <<snapshot, entry, zombie, requests>>

-----------------------------------------------------------------------------
(* The outcome of a run: handleResult.  over is what the hooks have left if the *)
(* answer is 200, same if it is 500.                                       *)

\* A pattern that got events during its run starts its next window.
LostToEvents(over, same) ==
    \/ CanRequeueForNextWindow(job) /\ WakeOrFail(requeueForNextWindowRow(job), entry, over, tries)
    \/ /\ ~ CanRequeueForNextWindow(job)
       /\ job' = job /\ tries' = (IF IsPattern(job) THEN over ELSE same) /\ NoWake

Succeeds(e, over) ==
    IF CanMarkCompleted(job, e.version)
    THEN job' = markCompletedRow(job, 0) /\ tries' = over /\ NoWake
    ELSE LostToEvents(over, over)

\* Mutant: a retry is answered 200.
FailsAnsweredOk(e, over) ==
    IF e.attempt + 1 < entry
    THEN IF CanRetryJob(job, e.version)
         THEN job' = retryJobRow(job, e.attempt + 1, 0) /\ tries' = over /\ NoWake
         ELSE LostToEvents(over, over)
    ELSE IF CanMarkFailed(job, e.version)
         THEN job' = markFailedRow(job, "handler_error", 0) /\ tries' = over /\ NoWake
         ELSE LostToEvents(over, over)
\* The attempts that are left are counted by the handler's entry, as it was
\* registered: neither the row's maxAttempts nor the scheduler's is asked.
Fails(e, over) ==
    IF e.attempt + 1 < entry
    THEN IF CanRetryJob(job, e.version)
         THEN job' = retryJobRow(job, e.attempt + 1, 0) /\ tries' = tries /\ NoWake
         ELSE LostToEvents(over, tries)
    ELSE IF CanMarkFailed(job, e.version)
         THEN job' = markFailedRow(job, "handler_error", 0) /\ tries' = over /\ NoWake
         ELSE LostToEvents(over, over)

Reschedules(e, over) ==
    /\ ~ IsPattern(job)
    /\ IF CanRescheduleJob(job, e.version)
       THEN WakeOrFail(rescheduleJobRow(job, 0), entry, over, tries)
       ELSE job' = job /\ tries' = over /\ NoWake

\* The process keeps the entries it started with until its runs have ended.
Outcome(e, over) ==
    \/ (Succeeds(e, over) \/ Fails(e, over)) /\ UNCHANGED requests
    \/ Request /\ Reschedules(e, over)

Finish(r) ==
    /\ run[r] # NoRun
    /\ Outcome(run[r], Over(r))
    /\ run' = [run EXCEPT ![r] = NoRun]
    /\ UNCHANGED <<snapshot, entry, zombie>>
\* Nobody listens to the answer of this run any more.
FinishZombie ==
    /\ zombie # NoRun
    /\ Outcome(zombie, tries)
    /\ zombie' = NoRun
    /\ UNCHANGED <<snapshot, entry, run>>

\* The process dies, or Posthook stops waiting for an answer that takes too long.
LoseAnswer(r) ==
    /\ run[r] # NoRun
    /\ Fault
    /\ \/ UNCHANGED zombie
       \/ zombie = NoRun /\ zombie' = run[r]
    /\ run' = [run EXCEPT ![r] = NoRun]
    /\ excuses' = excuses \cup {"wasted"}
    /\ UNCHANGED <<job, snapshot, entry, tries, requests, asked>>

-----------------------------------------------------------------------------
(* Client calls and deploys. *)

TheHandler == CHOOSE h \in Handler : TRUE
TheKey == CHOOSE k \in Key : TRUE

\* createNewJob: the hook, and the row with the snapshot of the configuration.
CreateJob(kind) ==
    /\ ~ Exists /\ entry # 0
    /\ Wake(IF kind = "once" THEN NewOnceJob(TheHandler, TheKey, 0, getMaxAttempts(entry), None)
            ELSE NewPatternJob(TheHandler, TheKey, getMaxAttempts(entry), None,
                               NewWindow(kind, 0, 1, None)),
            entry, tries)
    /\ snapshot' = entry
    /\ UNCHANGED requests

\* schedule with onDuplicate "replace": the snapshot stays as it was.
ReplaceJob ==
    /\ Exists /\ ~ IsPattern(job) /\ CanReplaceJob(job) /\ entry # 0
    /\ Request
    /\ Wake(replaceJobRow(job, 0, getMaxAttempts(entry)), entry,
            [r \in Ref |-> IF r = job.schedulerRef THEN 0 ELSE tries[r]])
    /\ UNCHANGED snapshot

\* retryJob and retryFailed: the snapshot, if there is one.
RetryByHand ==
    /\ Exists /\ CanResetJob(job)
    /\ Request
    /\ Wake(resetJobRow(job, 0), IF snapshot > 1 \/ entry = 0 THEN snapshot ELSE entry, tries)
    /\ UNCHANGED snapshot

\* An event of the window makes no wake.
WindowEvent ==
    /\ Exists /\ IsPattern(job) /\ entry # 0
    /\ CanUpdatePatternEvent(job, job.kind, job.waitMs, job.maxWaitMs)
    /\ Request
    /\ job' = updatePatternEventRow(job, 0)
    /\ UNCHANGED <<snapshot, tries, asked, excuses>>

ClientCall ==
    /\ (\E kind \in Kinds : CreateJob(kind)) \/ ReplaceJob \/ RetryByHand \/ WindowEvent
    /\ UNCHANGED <<entry, run, zombie, faults>>

\* New processes take over, with other handlers or another retry.attempts.
Deploy(config) ==
    /\ Request
    /\ \A r \in Ref : run[r] = NoRun
    /\ zombie = NoRun
    /\ entry' = config
    /\ excuses' = excuses \cup ByConfig(config, asked)
    /\ UNCHANGED <<job, snapshot, tries, run, zombie, faults, asked>>

-----------------------------------------------------------------------------
BudgetBounded == Exists => job.version <= MaxVersion

BudgetNext ==
    /\ \/ \E r \in Ref : DeliverHook(r) \/ Finish(r) \/ LoseAnswer(r)
       \/ FinishZombie
       \/ ClientCall
       \/ \E config \in Configs : Deploy(config)
    /\ BudgetBounded'

BudgetSpec == BudgetInit /\ [][BudgetNext]_budgetVars

\* Posthook delivers while a hook has tries left, and a run ends by its timeout.
FairBudgetSpec ==
    /\ BudgetSpec
    /\ \A r \in Ref : /\ WF_budgetVars(DeliverHook(r) /\ BudgetBounded')
                      /\ WF_budgetVars(Finish(r) /\ BudgetBounded')
    /\ WF_budgetVars(FinishZombie /\ BudgetBounded')

-----------------------------------------------------------------------------
(* Properties. *)

\* Wherever the hook came from, and however often the row was deferred, requeued or
\* retried by hand, it has a delivery for each attempt that the row has left.
AttemptsCovered ==
    /\ Exists /\ job.status = "pending" /\ excuses = {}
    => /\ job.schedulerRef # None
       /\ tries[job.schedulerRef] >= entry - job.attempt

\* "The handler returns 500 and Posthook retries delivery [...] No stalled sweep is
\* needed - Posthook drives the retry externally" (docs/operations.md): whatever its
\* attempts, deferrals, requeues, reschedules and manual retries, a row is settled
\* in the end, unless deliveries were wasted or skipped, or a deploy raised the
\* attempts after the hook was made, or above what the scheduler supports.
SettlesUnlessExcused == Active ~> (~ Active \/ excuses # {})
=============================================================================
