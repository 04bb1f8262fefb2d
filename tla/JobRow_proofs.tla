---------------------------- MODULE JobRow_proofs ----------------------------
(***************************************************************************)
(* What the row operators of JobRow return, for every row: a row of the    *)
(* same kind in the same (handler, key), whose fields fit its status if    *)
(* the fields of the row it replaces did, and which is active only if that *)
(* row was - except for a manual retry, the one write that revives a row.  *)
(***************************************************************************)
EXTENDS JobRow, TLAPS

SameSlot(old, new) ==
    new.kind = old.kind /\ new.handler = old.handler /\ new.key = old.key

\* A write that keeps a row consistent, in its slot, and never revives it.
Keeps(old, new) ==
    /\ new \in Job
    /\ SameSlot(old, new)
    /\ RowFits(new)
    /\ IsActive(new) => IsActive(old)

\* Assigning a value of its type to one field of a row leaves a row.
LEMMA FieldTypes ==
    ASSUME NEW job \in Job
    PROVE  /\ \A v \in JobStatus : [job EXCEPT !.status = v] \in Job
           /\ \A v \in Nat : [job EXCEPT !.version = v] \in Job
           /\ \A v \in Nat \cup {None} : [job EXCEPT !.claimedVersion = v] \in Job
           /\ \A v \in Time : [job EXCEPT !.scheduledFor = v] \in Job
           /\ \A v \in TimeOrNull : [job EXCEPT !.startedAt = v] \in Job
           /\ \A v \in TimeOrNull : [job EXCEPT !.completedAt = v] \in Job
           /\ \A v \in Nat : [job EXCEPT !.attempt = v] \in Job
           /\ \A v \in Nat : [job EXCEPT !.maxAttempts = v] \in Job
           /\ \A v \in Ref \cup {None} : [job EXCEPT !.schedulerRef = v] \in Job
           /\ \A v \in FailureReason \cup {None} : [job EXCEPT !.failureReason = v] \in Job
           /\ \A v \in TimeOrNull : [job EXCEPT !.firstAt = v] \in Job
           /\ \A v \in TimeOrNull : [job EXCEPT !.lastAt = v] \in Job
           /\ \A v \in Nat : [job EXCEPT !.deferAttempts = v] \in Job
           /\ \A v \in TimeOrNull : [job EXCEPT !.deferredSince = v] \in Job
    BY DEF Job

\* The constants the operators assign have the types of their fields.
LEMMA AssignedValues ==
    /\ \A s \in {"pending", "running", "completed", "failed", "cancelled"} : s \in JobStatus
    /\ None \in TimeOrNull /\ None \in Nat \cup {None} /\ 0 \in Nat
    /\ None \in Ref \cup {None} /\ None \in FailureReason \cup {None}
    /\ "defer_horizon" \in FailureReason \cup {None}
    /\ \A t \in Time : t \in TimeOrNull
    BY DEF JobStatus, TimeOrNull, Time, FailureReason

\* The numeric fields the operators read.
LEMMA ReadFields ==
    ASSUME NEW job \in Job
    PROVE  /\ job.version \in Nat /\ job.version + 1 \in Nat
           /\ job.version \in Nat \cup {None}
           /\ job.attempt + 1 \in Nat /\ job.deferAttempts + 1 \in Nat
           /\ job.firstAt \in TimeOrNull /\ job.deferredSince \in TimeOrNull
    BY DEF Job

\* A due time computed from a complete window is a time.
LEMMA DueAtType ==
    ASSUME NEW job \in Job, IsPattern(job), WindowMatches(job)
    PROVE  computePatternDueAt(job) \in Time
    BY NoneAssumption DEF computePatternDueAt, computeDebounceSettlesAt, Least,
       WindowMatches, Job, TimeOrNull, Time

\* Clearing the defer fields of a row.
LEMMA ResetDeferType ==
    ASSUME NEW job \in Job
    PROVE  resetDeferFields(job) \in Job
    BY FieldTypes, AssignedValues, Zenon DEF resetDeferFields

USE NoneAssumption
USE DEF Keeps, SameSlot, RowFits, ClaimMatches, OutcomeMatches, DeferMatches,
        WindowMatches, IsActive, ACTIVE_STATUSES, IsPattern, IsPendingAt, IsRunningAt

\* Claiming a row keeps it.
LEMMA MarkRunningKeeps ==
    ASSUME NEW job \in Job, RowFits(job),
           NEW version, NEW now \in Time, CanMarkRunning(job, version)
    PROVE  Keeps(job, markRunningRow(job, now))
    <1>1. markRunningRow(job, now) \in Job
        BY FieldTypes, AssignedValues, ReadFields, ResetDeferType, Zenon
           DEF markRunningRow, CanMarkRunning
    <1>2. SameSlot(job, markRunningRow(job, now))
        BY DEF markRunningRow, CanMarkRunning, resetDeferFields, Job
    <1>3. /\ RowFits(markRunningRow(job, now))
          /\ IsActive(markRunningRow(job, now)) => IsActive(job)
        BY DEF markRunningRow, CanMarkRunning, resetDeferFields, Job, Time, TimeOrNull, JobStatus
    <1>4. QED
        BY <1>1, <1>2, <1>3

\* Completing a row keeps it.
LEMMA MarkCompletedKeeps ==
    ASSUME NEW job \in Job, RowFits(job),
           NEW version, NEW now \in Time, CanMarkCompleted(job, version)
    PROVE  Keeps(job, markCompletedRow(job, now))
    <1>1. markCompletedRow(job, now) \in Job
        BY FieldTypes, AssignedValues, ReadFields, ResetDeferType, Zenon
           DEF markCompletedRow, CanMarkCompleted
    <1>2. SameSlot(job, markCompletedRow(job, now))
        BY DEF markCompletedRow, CanMarkCompleted, resetDeferFields, Job
    <1>3. /\ RowFits(markCompletedRow(job, now))
          /\ IsActive(markCompletedRow(job, now)) => IsActive(job)
        BY DEF markCompletedRow, CanMarkCompleted, resetDeferFields, Job, Time, TimeOrNull,
           JobStatus
    <1>4. QED
        BY <1>1, <1>2, <1>3

\* Failing a row keeps it.
LEMMA MarkFailedKeeps ==
    ASSUME NEW job \in Job, RowFits(job),
           NEW version, NEW now \in Time, NEW reason \in FailureReason,
           CanMarkFailed(job, version)
    PROVE  Keeps(job, markFailedRow(job, reason, now))
    <1>1. markFailedRow(job, reason, now) \in Job
        BY FieldTypes, AssignedValues, ReadFields, ResetDeferType, Zenon
           DEF markFailedRow, CanMarkFailed, FailureReason
    <1>2. SameSlot(job, markFailedRow(job, reason, now))
        BY DEF markFailedRow, CanMarkFailed, FailureReason, resetDeferFields, Job
    <1>3. /\ RowFits(markFailedRow(job, reason, now))
          /\ IsActive(markFailedRow(job, reason, now)) => IsActive(job)
        BY DEF markFailedRow, CanMarkFailed, FailureReason, resetDeferFields, Job, Time,
           TimeOrNull, JobStatus
    <1>4. QED
        BY <1>1, <1>2, <1>3

\* Cancelling a row keeps it.
LEMMA CancelKeeps ==
    ASSUME NEW job \in Job, RowFits(job),
           NEW now \in Time, CanCancelJob(job)
    PROVE  Keeps(job, cancelJobRow(job, now))
    <1>1. cancelJobRow(job, now) \in Job
        BY FieldTypes, AssignedValues, ReadFields, ResetDeferType, Zenon
           DEF cancelJobRow, CanCancelJob
    <1>2. SameSlot(job, cancelJobRow(job, now))
        BY DEF cancelJobRow, CanCancelJob, resetDeferFields, Job
    <1>3. /\ RowFits(cancelJobRow(job, now))
          /\ IsActive(cancelJobRow(job, now)) => IsActive(job)
        BY DEF cancelJobRow, CanCancelJob, resetDeferFields, Job, Time, TimeOrNull, JobStatus
    <1>4. QED
        BY <1>1, <1>2, <1>3

\* Replacing a waiting row keeps it.
LEMMA ReplaceKeeps ==
    ASSUME NEW job \in Job, RowFits(job),
           NEW at \in Time, NEW n \in Nat, CanReplaceJob(job)
    PROVE  Keeps(job, replaceJobRow(job, at, n))
    <1>1. replaceJobRow(job, at, n) \in Job
        BY FieldTypes, AssignedValues, ReadFields, ResetDeferType, Zenon
           DEF replaceJobRow, CanReplaceJob
    <1>2. SameSlot(job, replaceJobRow(job, at, n))
        BY DEF replaceJobRow, CanReplaceJob, resetDeferFields, Job
    <1>3. /\ RowFits(replaceJobRow(job, at, n))
          /\ IsActive(replaceJobRow(job, at, n)) => IsActive(job)
        BY DEF replaceJobRow, CanReplaceJob, resetDeferFields, Job, Time, TimeOrNull, JobStatus
    <1>4. QED
        BY <1>1, <1>2, <1>3

\* Moving the due time keeps the row.
LEMMA UpdateScheduledForKeeps ==
    ASSUME NEW job \in Job, RowFits(job),
           NEW at \in Time
    PROVE  Keeps(job, updateScheduledForRow(job, at))
    <1>1. updateScheduledForRow(job, at) \in Job
        BY FieldTypes, AssignedValues, ReadFields, ResetDeferType, Zenon
           DEF updateScheduledForRow
    <1>2. SameSlot(job, updateScheduledForRow(job, at))
        BY DEF updateScheduledForRow, resetDeferFields, Job
    <1>3. /\ RowFits(updateScheduledForRow(job, at))
          /\ IsActive(updateScheduledForRow(job, at)) => IsActive(job)
        BY DEF updateScheduledForRow, resetDeferFields, Job, Time, TimeOrNull, JobStatus
    <1>4. QED
        BY <1>1, <1>2, <1>3

\* Storing a scheduler ref keeps the row.
LEMMA UpdateSchedulerRefKeeps ==
    ASSUME NEW job \in Job, RowFits(job),
           NEW ref \in Ref
    PROVE  Keeps(job, updateSchedulerRefRow(job, ref))
    <1>1. updateSchedulerRefRow(job, ref) \in Job
        BY FieldTypes, AssignedValues, ReadFields, ResetDeferType, Zenon
           DEF updateSchedulerRefRow
    <1>2. SameSlot(job, updateSchedulerRefRow(job, ref))
        BY DEF updateSchedulerRefRow, resetDeferFields, Job
    <1>3. /\ RowFits(updateSchedulerRefRow(job, ref))
          /\ IsActive(updateSchedulerRefRow(job, ref)) => IsActive(job)
        BY DEF updateSchedulerRefRow, resetDeferFields, Job, Time, TimeOrNull, JobStatus
    <1>4. QED
        BY <1>1, <1>2, <1>3

\* A row put back to pending is a row, whatever it was before.
LEMMA RetriedType ==
    ASSUME NEW job \in Job, NEW n \in Nat, NEW at \in Time
    PROVE  retryJobRow(job, n, at) \in Job
    BY FieldTypes, AssignedValues, ResetDeferType, Zenon DEF retryJobRow

\* Back to pending for the next attempt.
LEMMA RetryKeeps ==
    ASSUME NEW job \in Job, RowFits(job),
           NEW version, NEW n \in Nat, NEW at \in Time, CanRetryJob(job, version)
    PROVE  Keeps(job, retryJobRow(job, n, at))
    <1>1. retryJobRow(job, n, at) \in Job
        BY RetriedType
    <1>2. SameSlot(job, retryJobRow(job, n, at))
        BY DEF retryJobRow, CanRetryJob, resetDeferFields, Job
    <1>3. /\ RowFits(retryJobRow(job, n, at))
          /\ IsActive(retryJobRow(job, n, at)) => IsActive(job)
        BY DEF retryJobRow, CanRetryJob, resetDeferFields, Job, Time, TimeOrNull, JobStatus
    <1>4. QED
        BY <1>1, <1>2, <1>3

\* A rescheduled row waits afresh: it has a window if it had one, and nothing else.
LEMMA RescheduledFits ==
    ASSUME NEW job \in Job, RowFits(job), NEW at \in Time
    PROVE  rescheduleJobRow(job, at) \in Job /\ RowFits(rescheduleJobRow(job, at))
    <1> DEFINE new == rescheduleJobRow(job, at)
    <1>1. /\ new.status = "pending" /\ new.startedAt = None /\ new.completedAt = None
          /\ new.claimedVersion = None /\ new.failureReason = None
          /\ new.deferAttempts = 0 /\ new.deferredSince = None
        BY DEF rescheduleJobRow, retryJobRow, resetDeferFields, Job
    <1>2. /\ new.kind = job.kind /\ new.waitMs = job.waitMs
          /\ new.firstAt = job.firstAt /\ new.lastAt = job.lastAt
        BY DEF rescheduleJobRow, retryJobRow, resetDeferFields, Job
    <1>3. new \in Job
        <2>1. retryJobRow(job, 0, at) \in Job
            BY RetriedType
        <2>2. QED
            BY <2>1, FieldTypes, AssignedValues, ReadFields, Zenon DEF rescheduleJobRow
    <1> HIDE DEF new
    <1>4. RowFits(new)
        BY <1>1, <1>2
    <1>5. QED
        BY <1>3, <1>4 DEF new

\* Rescheduling a row from its handler.
LEMMA RescheduleKeeps ==
    ASSUME NEW job \in Job, RowFits(job),
           NEW version, NEW at \in Time, CanRescheduleJob(job, version)
    PROVE  Keeps(job, rescheduleJobRow(job, at))
    <1>1. rescheduleJobRow(job, at) \in Job
        BY RescheduledFits
    <1>2. SameSlot(job, rescheduleJobRow(job, at))
        BY DEF rescheduleJobRow, retryJobRow, CanRescheduleJob, resetDeferFields, Job
    <1>3. RowFits(rescheduleJobRow(job, at))
        BY RescheduledFits
    <1>4. IsActive(job)
        BY DEF CanRescheduleJob
    <1>5. QED
        BY <1>1, <1>2, <1>3, <1>4

\* Moving a waiting pattern row to the end of its window keeps it.
LEMMA MovedToDueKeeps ==
    ASSUME NEW job \in Job, RowFits(job), job.status = "pending", IsPattern(job)
    PROVE  Keeps(job, rescheduleDueAtRow(job))
    <1>1. computePatternDueAt(job) \in Time
        BY DueAtType
    <1>2. rescheduleDueAtRow(job) \in Job
        BY <1>1, FieldTypes, ReadFields, Zenon DEF rescheduleDueAtRow
    <1>3. SameSlot(job, rescheduleDueAtRow(job)) /\ RowFits(rescheduleDueAtRow(job))
        BY DEF rescheduleDueAtRow, Job, Time, TimeOrNull, JobStatus
    <1>4. QED
        BY <1>2, <1>3

\* The same under the store's guard, which leaves a zero wait out.
LEMMA RescheduleDueAtKeeps ==
    ASSUME NEW job \in Job, RowFits(job),
           NEW version, CanRescheduleDueAt(job, version)
    PROVE  Keeps(job, rescheduleDueAtRow(job))
    BY MovedToDueKeeps DEF CanRescheduleDueAt, HasWindow

\* Opening the next window of a claimed pattern row keeps it.
LEMMA NextWindowKeeps ==
    ASSUME NEW job \in Job, RowFits(job), job.status = "running", IsPattern(job)
    PROVE  Keeps(job, requeueForNextWindowRow(job))
    <1>1. computePatternDueAt(job) \in Time
        BY DueAtType
    <1>2. requeueForNextWindowRow(job) \in Job
        <2>1. retryJobRow(job, 0, computePatternDueAt(job)) \in Job
            BY <1>1, RetriedType
        <2>2. QED
            BY <2>1, FieldTypes, ReadFields, Zenon DEF requeueForNextWindowRow
    <1>3. SameSlot(job, requeueForNextWindowRow(job)) /\ RowFits(requeueForNextWindowRow(job))
        BY DEF requeueForNextWindowRow, retryJobRow, resetDeferFields, Job, Time,
           TimeOrNull, JobStatus
    <1>4. QED
        BY <1>2, <1>3

\* The same under the store's guard, which leaves a zero wait out.
LEMMA RequeueKeeps ==
    ASSUME NEW job \in Job, RowFits(job), CanRequeueForNextWindow(job)
    PROVE  Keeps(job, requeueForNextWindowRow(job))
    BY NextWindowKeeps DEF CanRequeueForNextWindow, HasWindow

\* A client event moves the window and keeps the row.
LEMMA PatternEventKeeps ==
    ASSUME NEW job \in Job, RowFits(job),
           NEW kind \in Kind \ {"once"}, NEW wait, NEW maxWait, NEW at \in Time,
           CanUpdatePatternEvent(job, kind, wait, maxWait)
    PROVE  Keeps(job, updatePatternEventRow(job, at))
    <1>1. updatePatternEventRow(job, at) \in Job
        BY FieldTypes, AssignedValues, ReadFields, ResetDeferType, Zenon
           DEF updatePatternEventRow, CanUpdatePatternEvent
    <1>2. SameSlot(job, updatePatternEventRow(job, at))
        BY DEF updatePatternEventRow, CanUpdatePatternEvent, resetDeferFields, Job
    <1>3. /\ RowFits(updatePatternEventRow(job, at))
          /\ IsActive(updatePatternEventRow(job, at)) => IsActive(job)
        BY DEF updatePatternEventRow, CanUpdatePatternEvent, resetDeferFields, Job, Time,
           TimeOrNull, JobStatus
    <1>4. QED
        BY <1>1, <1>2, <1>3

\* A stalled claim goes back to pending, with a fresh window or an attempt less.
LEMMA ReclaimKeeps ==
    ASSUME NEW job \in Job, RowFits(job), job.status = "running"
    PROVE  Keeps(job, reclaimRow(job))
    <1>1. CASE VersionAdvanced(job)
        BY <1>1, NextWindowKeeps DEF reclaimRow, VersionAdvanced
    <1>2. CASE ~ VersionAdvanced(job)
        <2> DEFINE back == [job EXCEPT !.status = "pending", !.attempt = @ + 1,
                                       !.startedAt = None, !.claimedVersion = None]
        <2>1. resetDeferFields(back) \in Job
            BY FieldTypes, AssignedValues, ReadFields, ResetDeferType, Zenon
        <2>2. SameSlot(job, resetDeferFields(back)) /\ RowFits(resetDeferFields(back))
            BY DEF resetDeferFields, Job, Time, TimeOrNull, JobStatus
        <2>3. QED
            BY <1>2, <2>1, <2>2 DEF reclaimRow
    <1>3. QED
        BY <1>1, <1>2

\* A due row is claimed, or moved to the end of its window.
LEMMA ClaimDueKeeps ==
    ASSUME NEW job \in Job, RowFits(job), NEW now \in Time, IsDue(job, now)
    PROVE  Keeps(job, claimDueRow(job, now))
    <1>1. CASE isDebounceSettled(job, now)
        BY <1>1, MarkRunningKeeps DEF claimDueRow, IsDue, CanMarkRunning
    <1>2. CASE ~ isDebounceSettled(job, now)
        <2>1. IsPattern(job) /\ job.status = "pending"
            BY <1>2 DEF isDebounceSettled, IsDue
        <2>2. QED
            BY <1>2, <2>1, MovedToDueKeeps DEF claimDueRow
    <1>3. QED
        BY <1>1, <1>2

\* A recorded miss keeps the row; the horizon fails it, a miss before it does not.
LEMMA NoteMissKeeps ==
    ASSUME NEW job \in Job, RowFits(job), NEW now \in Time, NEW horizonMs \in Nat,
           job.status = "pending"
    PROVE  /\ Keeps(job, noteMissingHandlerRow(job, now, horizonMs))
           /\ noteMissingHandlerRow(job, now, horizonMs).status \in {"pending", "failed"}
    <1> DEFINE noted == [job EXCEPT !.version = @ + 1, !.deferAttempts = @ + 1,
                                    !.deferredSince = FirstDefer(job, now)]
               gone == [noted EXCEPT !.status = "failed", !.completedAt = now,
                                     !.failureReason = "defer_horizon"]
    <1>1. FirstDefer(job, now) \in Time /\ FirstDefer(job, now) \in TimeOrNull
        BY DEF FirstDefer, Job, Time, TimeOrNull
    <1>2. noted \in Job
        BY <1>1, FieldTypes, AssignedValues, ReadFields, Zenon
    <1>3. gone \in Job
        BY <1>1, FieldTypes, AssignedValues, ReadFields, Zenon
    <1>4. SameSlot(job, noted) /\ RowFits(noted) /\ noted.status = "pending"
        BY <1>1 DEF Job, Time, TimeOrNull, JobStatus
    <1>5. SameSlot(job, gone) /\ RowFits(gone) /\ gone.status = "failed"
        BY <1>1 DEF Job, Time, TimeOrNull, JobStatus, FailureReason
    <1>6. noteMissingHandlerRow(job, now, horizonMs) \in {noted, gone}
        BY DEF noteMissingHandlerRow
    <1> HIDE DEF noted, gone
    <1>7. QED
        BY <1>2, <1>3, <1>4, <1>5, <1>6

\* The same for a miss that also moves the due time of a surviving row.
LEMMA DeferKeeps ==
    ASSUME NEW job \in Job, RowFits(job), NEW now \in Time, NEW horizonMs \in Nat,
           NEW at \in Time, job.status = "pending"
    PROVE  /\ Keeps(job, deferJobRow(job, at, now, horizonMs))
           /\ deferJobRow(job, at, now, horizonMs).status \in {"pending", "failed"}
    <1> DEFINE noted == noteMissingHandlerRow(job, now, horizonMs)
    <1>1. Keeps(job, noted) /\ noted.status \in {"pending", "failed"}
        BY NoteMissKeeps
    <1>2. deferJobRow(job, at, now, horizonMs)
             \in {noted, updateScheduledForRow(noted, at)}
        BY DEF deferJobRow, updateScheduledForRow
    <1> HIDE DEF noted
    <1>3. Keeps(noted, updateScheduledForRow(noted, at))
        BY <1>1, UpdateScheduledForKeeps
    <1>4. updateScheduledForRow(noted, at).status = noted.status
        BY <1>1 DEF updateScheduledForRow, Job
    <1>5. QED
        BY <1>1, <1>2, <1>3, <1>4

\* A manual retry makes a failed row pending again, in the same slot.
LEMMA ResetJobRevives ==
    ASSUME NEW job \in Job, RowFits(job), NEW at \in Time, CanResetJob(job)
    PROVE  /\ resetJobRow(job, at) \in Job
           /\ SameSlot(job, resetJobRow(job, at))
           /\ RowFits(resetJobRow(job, at))
    <1>1. resetJobRow(job, at) \in Job
        BY RescheduledFits DEF resetJobRow
    <1>2. SameSlot(job, resetJobRow(job, at))
        BY DEF resetJobRow, rescheduleJobRow, retryJobRow, resetDeferFields, Job
    <1>3. RowFits(resetJobRow(job, at))
        BY RescheduledFits DEF resetJobRow
    <1>4. QED
        BY <1>1, <1>2, <1>3

\* A new once job is a consistent row.
LEMMA NewOnceJobFits ==
    ASSUME NEW h \in Handler, NEW k \in Key, NEW at \in Time, NEW n \in Nat,
           NEW ref \in Ref \cup {None}
    PROVE  NewOnceJob(h, k, at, n, ref) \in Job /\ RowFits(NewOnceJob(h, k, at, n, ref))
    BY DEF NewOnceJob, NewJob, NoWindow, Job, Kind, JobStatus, Time, TimeOrNull, FailureReason

\* A new pattern row is a consistent row.
LEMMA NewPatternJobFits ==
    ASSUME NEW kind \in Kind \ {"once"}, NEW h \in Handler, NEW k \in Key,
           NEW at \in Time, NEW wait \in Nat, NEW maxWait \in Nat \cup {None},
           NEW n \in Nat, NEW ref \in Ref \cup {None}
    PROVE  LET new == NewPatternJob(h, k, n, ref, NewWindow(kind, at, wait, maxWait))
           IN  new \in Job /\ RowFits(new)
    <1> DEFINE window == NewWindow(kind, at, wait, maxWait)
    <1>1. computePatternDueAt(window) \in Time
        BY DEF NewWindow, computePatternDueAt, computeDebounceSettlesAt, Least, Time
    <1>2. NewJob(h, k, computePatternDueAt(window), n, ref, window) \in Job
        BY <1>1 DEF NewWindow, NewJob, Job, Kind, JobStatus, Time, TimeOrNull, FailureReason
    <1>3. RowFits(NewJob(h, k, computePatternDueAt(window), n, ref, window))
        BY DEF NewWindow, NewJob, Kind, Time
    <1>4. QED
        BY <1>2, <1>3 DEF NewPatternJob

-----------------------------------------------------------------------------
(* The fields a claim is identified by, in the row each operator returns. *)

Claimed(row, status, version, claimedVersion, attempt) ==
    /\ row.status = status /\ row.version = version
    /\ row.claimedVersion = claimedVersion /\ row.attempt = attempt

\* Claiming and settling leave the version; only a retry leaves the claim too.
LEMMA ClaimEffects ==
    ASSUME NEW job \in Job, NEW now, NEW n, NEW reason
    PROVE  /\ Claimed(markRunningRow(job, now), "running",
                      job.version, job.version, job.attempt)
           /\ Claimed(markCompletedRow(job, now), "completed",
                      job.version, job.claimedVersion, job.attempt)
           /\ Claimed(markFailedRow(job, reason, now), "failed",
                      job.version, job.claimedVersion, job.attempt)
           /\ Claimed(cancelJobRow(job, now), "cancelled",
                      job.version, job.claimedVersion, job.attempt)
           /\ Claimed(updateScheduledForRow(job, now), job.status,
                      job.version, job.claimedVersion, job.attempt)
           /\ Claimed(retryJobRow(job, n, now), "pending", job.version, None, n)
    BY DEF Claimed, markRunningRow, markCompletedRow, markFailedRow, cancelJobRow,
           updateScheduledForRow, retryJobRow, resetDeferFields, Job

\* Whatever opens a new window or a new budget of attempts counts the version up.
LEMMA VersionEffects ==
    ASSUME NEW job \in Job, NEW now, NEW n
    PROVE  /\ Claimed(rescheduleJobRow(job, now), "pending", job.version + 1, None, 0)
           /\ Claimed(resetJobRow(job, now), "pending", job.version + 1, None, 0)
           /\ Claimed(requeueForNextWindowRow(job), "pending", job.version + 1, None, 0)
           /\ Claimed(replaceJobRow(job, now, n), job.status,
                      job.version + 1, job.claimedVersion, 0)
           /\ Claimed(updatePatternEventRow(job, now), job.status,
                      job.version + 1, job.claimedVersion, job.attempt)
    BY DEF Claimed, rescheduleJobRow, resetJobRow, requeueForNextWindowRow, replaceJobRow,
           updatePatternEventRow, retryJobRow, resetDeferFields, Job

\* A reclaim opens a fresh window or takes one attempt.
LEMMA ReclaimEffects ==
    ASSUME NEW job \in Job
    PROVE  /\ VersionAdvanced(job) =>
                  Claimed(reclaimRow(job), "pending", job.version + 1, None, 0)
           /\ ~ VersionAdvanced(job) =>
                  Claimed(reclaimRow(job), "pending", job.version, None, job.attempt + 1)
    <1>1. CASE VersionAdvanced(job)
        BY <1>1, VersionEffects DEF reclaimRow
    <1>2. CASE ~ VersionAdvanced(job)
        BY <1>2 DEF Claimed, reclaimRow, resetDeferFields, Job
    <1>3. QED
        BY <1>1, <1>2
=============================================================================
