------------------------------- MODULE JobRow -------------------------------
(***************************************************************************)
(* One row of the delaykit store and what each Store method does to it.    *)
(*                                                                         *)
(* Every method of the Store interface that changes a row is a guarded     *)
(* update of that one row: it reads the row, returns early when the guard  *)
(* (usually status plus version) is false, and otherwise assigns a fixed   *)
(* group of fields.  Here the guard is an operator CanX and the new row an *)
(* operator XRow, both pure, so that the store module (all rows, key       *)
(* index) and the process modules (workers, deliveries) share them.        *)
(*                                                                         *)
(* Times are natural numbers of one clock; error texts, names of jobs and  *)
(* retry configurations are left out.                                      *)
(***************************************************************************)
EXTENDS Integers

CONSTANTS
    None,       \* null
    Handler,    \* registered handler names
    Key,        \* user keys
    Ref         \* scheduler artifact ids (Posthook hook ids)

Kind == {"once", "debounce", "throttle"}
JobStatus == {"pending", "running", "completed", "failed", "cancelled"}
ACTIVE_STATUSES == {"pending", "running"}
FailureReason ==
    {"handler_error", "timeout", "stalled", "defer_horizon", "materialization_error"}

ASSUME NoneAssumption == None \notin Int /\ None \notin FailureReason

Time == Nat
TimeOrNull == Time \cup {None}

\* The fields of a Job the properties can tell apart.
Job == [kind : Kind, handler : Handler, key : Key,
        version : Nat, claimedVersion : Nat \cup {None},
        status : JobStatus,
        scheduledFor : Time, startedAt : TimeOrNull, completedAt : TimeOrNull,
        attempt : Nat, maxAttempts : Nat,
        schedulerRef : Ref \cup {None},
        failureReason : FailureReason \cup {None},
        firstAt : TimeOrNull, lastAt : TimeOrNull,
        waitMs : TimeOrNull, maxWaitMs : TimeOrNull,
        deferAttempts : Nat, deferredSince : TimeOrNull]

IsActive(job) == job.status \in ACTIVE_STATUSES
IsPattern(job) == job.kind # "once"
Least(a, b) == IF a <= b THEN a ELSE b

-----------------------------------------------------------------------------
(* The debounce and throttle windows. *)

computeDebounceSettlesAt(job) ==
    LET trailing == job.lastAt + job.waitMs
    IN  IF job.maxWaitMs = None THEN trailing
        ELSE Least(trailing, job.firstAt + job.maxWaitMs)

computePatternDueAt(job) ==
    IF job.kind = "throttle" THEN job.firstAt + job.waitMs
    ELSE computeDebounceSettlesAt(job)

isDebounceSettled(job, now) ==
    job.kind = "debounce" =>
        \/ now - job.lastAt >= job.waitMs
        \/ job.maxWaitMs # None /\ now - job.firstAt >= job.maxWaitMs

-----------------------------------------------------------------------------
(* Creation and client events. *)

\* Mutants: a claim leaves the streak of misses on the row; the counter is set to
\* null together with the timestamp.
KeepDeferFields(job) == job
ResetDeferToNull(job) == [job EXCEPT !.deferAttempts = None, !.deferredSince = None]
resetDeferFields(job) == [job EXCEPT !.deferAttempts = 0, !.deferredSince = None]

\* The row createNewJob hands to the store; window holds the pattern fields.
NewJob(handler, key, scheduledFor, maxAttempts, ref, window) ==
    [kind |-> window.kind, handler |-> handler, key |-> key,
     version |-> 1, claimedVersion |-> None, status |-> "pending",
     scheduledFor |-> scheduledFor, startedAt |-> None, completedAt |-> None,
     attempt |-> 0, maxAttempts |-> maxAttempts,
     schedulerRef |-> ref, failureReason |-> None,
     firstAt |-> window.firstAt, lastAt |-> window.lastAt,
     waitMs |-> window.waitMs, maxWaitMs |-> window.maxWaitMs,
     deferAttempts |-> 0, deferredSince |-> None]

NoWindow == [kind |-> "once", firstAt |-> None, lastAt |-> None,
             waitMs |-> None, maxWaitMs |-> None]
\* A window opens at the caller's instant, and its row is due where it closes.
NewWindow(kind, at, wait, maxWait) ==
    [kind |-> kind, firstAt |-> at, lastAt |-> at, waitMs |-> wait, maxWaitMs |-> maxWait]

NewOnceJob(handler, key, scheduledFor, maxAttempts, ref) ==
    NewJob(handler, key, scheduledFor, maxAttempts, ref, NoWindow)
NewPatternJob(handler, key, maxAttempts, ref, window) ==
    NewJob(handler, key, computePatternDueAt(window), maxAttempts, ref, window)

\* A mismatch of the frozen kind or windows throws and leaves the row alone.
CanUpdatePatternEvent(job, kind, wait, maxWait) ==
    /\ IsActive(job)
    /\ job.kind = kind
    /\ job.waitMs = wait
    /\ job.maxWaitMs = maxWait

\* The first event after execution started opens the next window.
updatePatternEventRow(job, now) ==
    LET opensWindow == /\ job.status = "running"
                       /\ job.startedAt = None \/ job.firstAt <= job.startedAt
    IN  [job EXCEPT !.version = @ + 1,
                    !.lastAt = now,
                    !.firstAt = IF opensWindow THEN now ELSE @]

CanCancelJob(job) == job.status = "pending"
cancelJobRow(job, now) ==
    resetDeferFields([job EXCEPT !.status = "cancelled", !.completedAt = now])

CanReplaceJob(job) == job.status = "pending"
replaceJobRow(job, scheduledFor, maxAttempts) ==
    resetDeferFields([job EXCEPT
        !.version = @ + 1, !.scheduledFor = scheduledFor,
        !.attempt = 0, !.maxAttempts = maxAttempts,
        !.schedulerRef = None, !.failureReason = None])

\* updateScheduledFor has no guard at all: whatever the row is, it moves.
updateScheduledForRow(job, scheduledFor) == [job EXCEPT !.scheduledFor = scheduledFor]

CanUpdateSchedulerRef(job, version) == job.version = version
updateSchedulerRefRow(job, ref) == [job EXCEPT !.schedulerRef = ref]

-----------------------------------------------------------------------------
(* Claiming a row and settling the claim. *)

IsPendingAt(job, version) == job.status = "pending" /\ job.version = version
IsRunningAt(job, version) == job.status = "running" /\ job.version = version

CanMarkRunning(job, version) == IsPendingAt(job, version)
markRunningRow(job, now) ==
    resetDeferFields([job EXCEPT
        !.status = "running", !.claimedVersion = job.version, !.startedAt = now])

\* Mutant: a completion looks at the status only.
CompleteAnyClaim(job, version) == job.status = "running"
CanMarkCompleted(job, version) == IsRunningAt(job, version)
markCompletedRow(job, now) ==
    resetDeferFields([job EXCEPT !.status = "completed", !.completedAt = now])

\* Mutant: a failure looks at the status only.
FailAnyClaim(job, version) == job.status = "running"
CanMarkFailed(job, version) == IsRunningAt(job, version)
markFailedRow(job, reason, now) ==
    resetDeferFields([job EXCEPT
        !.status = "failed", !.failureReason = reason, !.completedAt = now])

\* Back to pending for the next attempt; the version stays.
\* Mutant: the status guard is dropped.
RetryAnyStatus(job, version) == job.version = version
CanRetryJob(job, version) == IsRunningAt(job, version)
retryJobRow(job, nextAttempt, scheduledFor) ==
    resetDeferFields([job EXCEPT
        !.status = "pending", !.attempt = nextAttempt, !.scheduledFor = scheduledFor,
        !.startedAt = None, !.completedAt = None, !.claimedVersion = None])

\* ctx.reschedule: a new version of the same row, with a fresh attempt budget.
CanRescheduleJob(job, version) == IsRunningAt(job, version)
rescheduleJobRow(job, scheduledFor) ==
    [retryJobRow(job, 0, scheduledFor) EXCEPT
        !.version = @ + 1, !.failureReason = None, !.schedulerRef = None]

\* The JavaScript test !job.waitMs: a zero wait counts as no window at all.
HasWindow(job) == job.lastAt # None /\ job.waitMs \notin {None, 0}

CanRescheduleDueAt(job, version) == IsPendingAt(job, version) /\ HasWindow(job)
rescheduleDueAtRow(job) ==
    [job EXCEPT !.scheduledFor = computePatternDueAt(job), !.version = @ + 1]

\* The requeue looks at the status only, not at the version.
CanRequeueForNextWindow(job) == job.status = "running" /\ HasWindow(job)
requeueForNextWindowRow(job) ==
    [retryJobRow(job, 0, computePatternDueAt(job)) EXCEPT !.version = @ + 1]

\* Mutant: a running row may be retried by hand too.
ResetRunningToo(job) == job.status \in {"running", "failed"}
CanResetJob(job) == job.status = "failed"
\* Mutant: the version stays.
ResetSameVersion(job, scheduledFor) ==
    [rescheduleJobRow(job, scheduledFor) EXCEPT !.version = job.version]
resetJobRow(job, scheduledFor) == rescheduleJobRow(job, scheduledFor)

-----------------------------------------------------------------------------
(* Recovery of stalled claims and the missing-handler horizon. *)

IsStalled(job, now, leaseMs) ==
    /\ job.status = "running"
    /\ job.startedAt # None
    /\ now - job.startedAt > leaseMs

\* A window that got new events while it was claimed starts afresh; any other
\* claim goes back to pending with one attempt used and its version unchanged.
VersionAdvanced(job) ==
    IsPattern(job) /\ job.claimedVersion # None /\ job.version > job.claimedVersion
\* Mutant: the claim's version is left on the row.
ReclaimKeepsClaim(job) ==
    IF VersionAdvanced(job) THEN requeueForNextWindowRow(job)
    ELSE resetDeferFields([job EXCEPT
            !.status = "pending", !.attempt = @ + 1, !.startedAt = None])
\* Mutant: every stalled pattern starts a fresh window.
ReclaimFreshWindow(job) ==
    IF IsPattern(job) THEN requeueForNextWindowRow(job)
    ELSE retryJobRow(job, job.attempt + 1, job.scheduledFor)
reclaimRow(job) ==
    IF VersionAdvanced(job) THEN requeueForNextWindowRow(job)
    ELSE resetDeferFields([job EXCEPT
            !.status = "pending", !.attempt = @ + 1,
            !.startedAt = None, !.claimedVersion = None])

\* claimDueJobs: a due row that has settled is claimed, an unsettled one moves.
IsDue(job, now) == job.status = "pending" /\ job.scheduledFor <= now
claimDueRow(job, now) ==
    IF isDebounceSettled(job, now) THEN markRunningRow(job, now)
    ELSE rescheduleDueAtRow(job)

CanDeferJob(job, version) == IsPendingAt(job, version)
FirstDefer(job, now) == IF job.deferredSince = None THEN now ELSE job.deferredSince
\* noteMissingHandler counts the miss and fails the row at the horizon; deferJob
\* does the same and also moves a surviving row to its next delivery.
noteMissingHandlerRow(job, now, horizonMs) ==
    LET noted == [job EXCEPT !.version = @ + 1, !.deferAttempts = @ + 1,
                             !.deferredSince = FirstDefer(job, now)]
    IN  IF now - FirstDefer(job, now) < horizonMs THEN noted
        ELSE [noted EXCEPT !.status = "failed", !.completedAt = now,
                           !.failureReason = "defer_horizon"]
deferJobRow(job, scheduledFor, now, horizonMs) ==
    LET noted == noteMissingHandlerRow(job, now, horizonMs)
    IN  IF noted.status = "pending" THEN [noted EXCEPT !.scheduledFor = scheduledFor]
        ELSE noted

-----------------------------------------------------------------------------
(* What every stored row satisfies: the fields that belong to a status. *)

\* A running row carries its claim: when it started and the version it was
\* claimed at, which events may have left behind; for a once job nothing can.
\* A row that waits carries none of it.
ClaimMatches(job) ==
    /\ job.status = "running" =>
          /\ job.startedAt # None /\ job.claimedVersion # None
          /\ job.claimedVersion <= job.version
          /\ ~ IsPattern(job) => job.claimedVersion = job.version
    /\ job.status \in {"pending", "cancelled"} =>
          job.startedAt = None /\ job.claimedVersion = None

\* completedAt marks exactly the terminal rows and failureReason the failed ones.
OutcomeMatches(job) ==
    /\ job.completedAt # None <=> ~ IsActive(job)
    /\ job.failureReason # None <=> job.status = "failed"

\* The miss counter and the start of the miss streak move together, and a row
\* that was claimed or cancelled is out of the defer loop.
DeferMatches(job) ==
    /\ job.deferAttempts > 0 <=> job.deferredSince # None
    /\ job.status \in {"running", "completed", "cancelled"} => job.deferAttempts = 0

\* Exactly the pattern rows have a window.
WindowMatches(job) ==
    /\ IsPattern(job) <=> job.waitMs # None
    /\ IsPattern(job) <=> job.firstAt # None
    /\ IsPattern(job) <=> job.lastAt # None

RowFits(job) ==
    /\ ClaimMatches(job)
    /\ OutcomeMatches(job)
    /\ DeferMatches(job)
    /\ WindowMatches(job)
=============================================================================
