----------------------------- MODULE MemoryStore -----------------------------
(***************************************************************************)
(* The in-memory store: the map of rows, the index of active rows by       *)
(* (handler, key), and one action per method that changes either.          *)
(*                                                                         *)
(* A method body contains no await, so it is one atomic step.  Its callers *)
(* hold versions and ids they read earlier, hence every id and version     *)
(* argument is arbitrary; a method whose guard is false returns false or   *)
(* null (or throws) and changes nothing, which is a stuttering step.       *)
(***************************************************************************)
EXTENDS JobRow, FiniteSets

CONSTANTS
    JobId,          \* row ids (randomUUID)
    Kinds,          \* the kinds of jobs in use
    Waits, MaxWaits,    \* wait and maxWait options; None is "no maxWait"
    leaseMs,        \* handler timeout plus STALLED_GRACE_MS
    horizonMs,      \* deferHorizonMs
    EVICTION_AGE,
    Attempts,       \* maxAttempts of the registered handlers
    MaxVersion, MaxAttempt, MaxTime   \* bounds of the model

ASSUME StoreAssumption ==
    /\ None \notin JobId
    /\ Kinds \subseteq Kind
    /\ Waits \subseteq Nat /\ MaxWaits \subseteq Nat \cup {None}
    /\ leaseMs \in Nat /\ horizonMs \in Nat /\ EVICTION_AGE \in Nat
    /\ Attempts \subseteq Nat
    /\ MaxVersion \in Nat /\ MaxAttempt \in Nat /\ MaxTime \in Nat

VARIABLES
    jobs,       \* id -> row, None when the id is not in the map
    keyIndex,   \* (handler, key) -> id of the row that holds it
    issued,     \* ids ever inserted: an id is never reused
    now         \* the clock

vars == <<jobs, keyIndex, issued, now>>

Slot(job) == <<job.handler, job.key>>
Instants == 0 .. MaxTime

Exists(id) == jobs[id] # None

\* Mutant: only a pending holder counts.
HeldByPending(slot, id) ==
    LET holder == keyIndex[slot]
    IN  holder \notin {None, id} /\ Exists(holder) /\ jobs[holder].status = "pending"
\* The row another id holds the slot with, if that row is active.
HeldByOther(slot, id) ==
    LET holder == keyIndex[slot]
    IN  /\ holder \notin {None, id}
        /\ Exists(holder)
        /\ IsActive(jobs[holder])

\* A miss is counted together with a version, so this bounds the misses too.
WithinBounds(job) == job.version <= MaxVersion /\ job.attempt <= MaxAttempt

TypeOK ==
    /\ jobs \in [JobId -> Job \cup {None}]
    /\ keyIndex \in [Handler \X Key -> JobId \cup {None}]
    /\ issued \in SUBSET JobId
    /\ now \in Time

Init ==
    /\ jobs = [id \in JobId |-> None]
    /\ keyIndex = [slot \in Handler \X Key |-> None]
    /\ issued = {}
    /\ now = 0

-----------------------------------------------------------------------------
(* The three ways a method writes: the row alone, the row giving its slot  *)
(* back, the row taking its slot.                                          *)

SetRow(id, row) ==
    /\ WithinBounds(row)
    /\ jobs' = [jobs EXCEPT ![id] = row]
    /\ UNCHANGED <<issued, now>>

Write(id, row) == SetRow(id, row) /\ UNCHANGED keyIndex
WriteAndRelease(id, row) ==
    SetRow(id, row) /\ keyIndex' = [keyIndex EXCEPT ![Slot(row)] = None]
WriteAndHold(id, row) ==
    SetRow(id, row) /\ keyIndex' = [keyIndex EXCEPT ![Slot(row)] = id]

-----------------------------------------------------------------------------
(* Client operations. *)

\* The rows createNewJob builds: a once job due at any instant, a throttle or a
\* debounce window opened by a call that read the clock at or before now.
\* Their ref is what scheduler.schedule returned, null for the polling scheduler.
NewJobs ==
    {NewOnceJob(h, k, at, n, ref) : h \in Handler, k \in Key, at \in Instants,
                                    n \in Attempts, ref \in Ref \cup {None}}
    \cup
    {NewPatternJob(h, k, n, ref, window) :
        h \in Handler, k \in Key, n \in Attempts, ref \in Ref \cup {None},
        window \in
            {NewWindow("throttle", at, wait, None) : at \in 0 .. now, wait \in Waits}
            \cup
            {NewWindow("debounce", at, wait, maxWait) :
                at \in 0 .. now, wait \in Waits, maxWait \in MaxWaits \cup {None}}}

createJob(id, job) ==
    /\ id \notin issued
    /\ ~ HeldByOther(Slot(job), id)
    /\ jobs' = [jobs EXCEPT ![id] = job]
    /\ keyIndex' = [keyIndex EXCEPT ![Slot(job)] = id]
    /\ issued' = issued \cup {id}
    /\ UNCHANGED now

\* A lookup drops an index entry whose row is gone or terminal.
getActiveJobByKey(slot) ==
    LET holder == keyIndex[slot]
    IN  /\ holder # None
        /\ Exists(holder) => ~ IsActive(jobs[holder])
        /\ keyIndex' = [keyIndex EXCEPT ![slot] = None]
        /\ UNCHANGED <<jobs, issued, now>>

\* The event is found through the index; at is the caller's own earlier reading
\* of the clock.
updatePatternEvent(slot, kind, wait, maxWait, at) ==
    LET id == keyIndex[slot]
    IN  /\ id # None /\ Exists(id)
        /\ CanUpdatePatternEvent(jobs[id], kind, wait, maxWait)
        /\ Write(id, updatePatternEventRow(jobs[id], at))

cancelJob(id) ==
    /\ Exists(id) /\ CanCancelJob(jobs[id])
    /\ WriteAndRelease(id, cancelJobRow(jobs[id], now))

replaceJob(id, scheduledFor, maxAttempts) ==
    /\ Exists(id) /\ CanReplaceJob(jobs[id])
    /\ Write(id, replaceJobRow(jobs[id], scheduledFor, maxAttempts))

updateScheduledFor(id, scheduledFor) ==
    /\ Exists(id)
    /\ Write(id, updateScheduledForRow(jobs[id], scheduledFor))

updateSchedulerRef(id, version, ref) ==
    /\ Exists(id) /\ CanUpdateSchedulerRef(jobs[id], version)
    /\ Write(id, updateSchedulerRefRow(jobs[id], ref))

\* Mutant: the slot is taken from whoever has it.
ResetTakesSlot(id, scheduledFor) ==
    /\ Exists(id) /\ CanResetJob(jobs[id])
    /\ WriteAndHold(id, resetJobRow(jobs[id], scheduledFor))
\* resetJob (the current instant) and resetJobAt (any instant, version checked).
resetJob(id, scheduledFor) ==
    /\ Exists(id) /\ CanResetJob(jobs[id])
    /\ ~ HeldByOther(Slot(jobs[id]), id)
    /\ WriteAndHold(id, resetJobRow(jobs[id], scheduledFor))
resetJobAt(id, version, scheduledFor) ==
    /\ Exists(id) /\ jobs[id].version = version
    /\ resetJob(id, scheduledFor)

\* deleteJob looks the index up under the bare key, which is never there.
deleteJob(id) ==
    /\ Exists(id)
    /\ jobs' = [jobs EXCEPT ![id] = None]
    /\ UNCHANGED <<keyIndex, issued, now>>

-----------------------------------------------------------------------------
(* Claims and their outcomes. *)

markRunning(id, version) ==
    /\ Exists(id) /\ CanMarkRunning(jobs[id], version)
    /\ Write(id, markRunningRow(jobs[id], now))

markCompleted(id, version) ==
    /\ Exists(id) /\ CanMarkCompleted(jobs[id], version)
    /\ WriteAndRelease(id, markCompletedRow(jobs[id], now))

markFailed(id, version, reason) ==
    /\ Exists(id) /\ CanMarkFailed(jobs[id], version)
    /\ WriteAndRelease(id, markFailedRow(jobs[id], reason, now))

retryJob(id, version, nextAttempt, scheduledFor) ==
    /\ Exists(id) /\ CanRetryJob(jobs[id], version)
    /\ Write(id, retryJobRow(jobs[id], nextAttempt, scheduledFor))

rescheduleJob(id, version, scheduledFor) ==
    /\ Exists(id) /\ CanRescheduleJob(jobs[id], version)
    /\ Write(id, rescheduleJobRow(jobs[id], scheduledFor))

rescheduleDueAt(id, version) ==
    /\ Exists(id) /\ CanRescheduleDueAt(jobs[id], version)
    /\ Write(id, rescheduleDueAtRow(jobs[id]))

requeueForNextWindow(id) ==
    /\ Exists(id) /\ CanRequeueForNextWindow(jobs[id])
    /\ Write(id, requeueForNextWindowRow(jobs[id]))

\* The budget oldest due rows of the registered handlers; ties are broken by id,
\* an order that carries no meaning, so any choice among equals is allowed.
DueRows(names) ==
    {id \in JobId : Exists(id) /\ jobs[id].handler \in names /\ IsDue(jobs[id], now)}
OldestDue(names, budget) ==
    {S \in SUBSET DueRows(names) :
        /\ Cardinality(S) = Least(budget, Cardinality(DueRows(names)))
        /\ \A id \in S, other \in DueRows(names) \ S :
              jobs[id].scheduledFor <= jobs[other].scheduledFor}

UpdateRows(S, Row(_)) ==
    /\ \A id \in S : WithinBounds(Row(jobs[id]))
    /\ jobs' = [id \in JobId |-> IF id \in S THEN Row(jobs[id]) ELSE jobs[id]]
    /\ UNCHANGED <<keyIndex, issued, now>>

claimDueJobs(S) == LET Claim(job) == claimDueRow(job, now) IN UpdateRows(S, Claim)

-----------------------------------------------------------------------------
(* Recovery, missing handlers, retention. *)

StalledRows == {id \in JobId : Exists(id) /\ IsStalled(jobs[id], now, leaseMs)}

reclaimStalled(id) ==
    /\ id \in StalledRows
    /\ Write(id, reclaimRow(jobs[id]))

reclaimStalledJobs == StalledRows # {} /\ UpdateRows(StalledRows, reclaimRow)

\* A miss releases the slot exactly when the horizon fails the row.
NoteMiss(id, version, row) ==
    /\ Exists(id) /\ CanDeferJob(jobs[id], version)
    /\ IF row.status = "failed" THEN WriteAndRelease(id, row) ELSE Write(id, row)
deferJob(id, version, scheduledFor) ==
    NoteMiss(id, version, deferJobRow(jobs[id], scheduledFor, now, horizonMs))
noteMissingHandler(id, version) ==
    NoteMiss(id, version, noteMissingHandlerRow(jobs[id], now, horizonMs))

TerminalBefore(cutoff) ==
    {id \in JobId : /\ Exists(id) /\ ~ IsActive(jobs[id])
                    /\ jobs[id].completedAt # None
                    /\ jobs[id].completedAt < cutoff}

\* Mutant: a deleted row takes its slot's entry with it, whoever it names.
DeleteWithSlot(S) ==
    /\ jobs' = [id \in JobId |-> IF id \in S THEN None ELSE jobs[id]]
    /\ keyIndex' = [slot \in Handler \X Key |->
                       IF \E id \in S : Slot(jobs[id]) = slot THEN None ELSE keyIndex[slot]]
    /\ UNCHANGED <<issued, now>>
\* Each deleted row also leaves the index if the index still names it.
deleteTerminal(S) ==
    /\ jobs' = [id \in JobId |-> IF id \in S THEN None ELSE jobs[id]]
    /\ keyIndex' = [slot \in Handler \X Key |->
                       IF keyIndex[slot] \in S THEN None ELSE keyIndex[slot]]
    /\ UNCHANGED <<issued, now>>

\* The limit oldest terminal rows before the cutoff.
pruneTerminal(olderThan, S) ==
    /\ S \subseteq TerminalBefore(olderThan)
    /\ \A id \in S, other \in TerminalBefore(olderThan) \ S :
          jobs[id].completedAt <= jobs[other].completedAt
    /\ deleteTerminal(S)

evictTerminal == deleteTerminal(TerminalBefore(now - EVICTION_AGE))

close ==
    /\ jobs' = [id \in JobId |-> None]
    /\ keyIndex' = [slot \in Handler \X Key |-> None]
    /\ UNCHANGED <<issued, now>>

Tick == now < MaxTime /\ now' = now + 1 /\ UNCHANGED <<jobs, keyIndex, issued>>

-----------------------------------------------------------------------------
ClientStep ==
    \/ \E id \in JobId : \E job \in NewJobs : job.kind \in Kinds /\ createJob(id, job)
    \/ \E slot \in Handler \X Key : getActiveJobByKey(slot)
    \/ \E slot \in Handler \X Key, kind \in Kinds \ {"once"}, wait \in Waits,
          maxWait \in MaxWaits \cup {None}, at \in 0 .. now :
             updatePatternEvent(slot, kind, wait, maxWait, at)
    \/ \E id \in JobId : cancelJob(id)
    \/ \E id \in JobId, at \in Instants, n \in Attempts :
          Exists(id) /\ jobs[id].kind = "once" /\ replaceJob(id, at, n)
    \/ \E id \in JobId, v \in 1 .. MaxVersion, r \in Ref : updateSchedulerRef(id, v, r)
    \/ \E id \in JobId : resetJob(id, now)
    \/ \E id \in JobId, v \in 1 .. MaxVersion, at \in Instants : resetJobAt(id, v, at)
    \/ \E id \in JobId : deleteJob(id)

ClaimStep ==
    \/ \E names \in SUBSET Handler, budget \in 1 .. Cardinality(JobId) :
          \E S \in OldestDue(names, budget) : S # {} /\ claimDueJobs(S)
    \/ \E id \in JobId, v \in 1 .. MaxVersion :
          \/ markRunning(id, v)
          \/ markCompleted(id, v)
          \/ \E reason \in FailureReason : markFailed(id, v, reason)
          \/ \E n \in 1 .. MaxAttempt, at \in Instants : retryJob(id, v, n, at)
          \/ \E at \in Instants :
                Exists(id) /\ jobs[id].kind = "once" /\ rescheduleJob(id, v, at)
          \/ rescheduleDueAt(id, v)
    \/ \E id \in JobId : requeueForNextWindow(id)

MaintenanceStep ==
    \/ \E id \in JobId : reclaimStalled(id)
    \/ reclaimStalledJobs
    \/ \E id \in JobId, at \in Instants : updateScheduledFor(id, at)
    \/ \E id \in JobId, v \in 1 .. MaxVersion, at \in Instants : deferJob(id, v, at)
    \/ \E id \in JobId, v \in 1 .. MaxVersion : noteMissingHandler(id, v)
    \/ \E at \in Instants : \E S \in SUBSET TerminalBefore(at) : pruneTerminal(at, S)
    \/ evictTerminal
    \/ close
    \/ Tick

Next == ClientStep \/ ClaimStep \/ MaintenanceStep

Spec == Init /\ [][Next]_vars

-----------------------------------------------------------------------------
(* Properties. *)

\* The map and its key index behave as the table with the unique index that the
\* SQL stores keep: the contract tests run over both, and a program may move
\* from one to the other.
Table == INSTANCE JobTable WITH jobs <- jobs, issued <- issued, now <- now
ImplementsTable == Table!TableSpec

\* Every active row is the one the index names for its (handler, key): the
\* index entry survives claims, retries, requeues, prunes and lookups, and no
\* write of a terminal row takes away a newer row's entry.  This is what makes
\* the conflict check of createJob and resetJob see every active row.
KeyIndexNamesActive ==
    \A id \in JobId : Exists(id) /\ IsActive(jobs[id]) => keyIndex[Slot(jobs[id])] = id

\* Every (handler, key) pair has at most one active row.
AtMostOneActive ==
    \A id, other \in JobId :
        /\ Exists(id) /\ IsActive(jobs[id])
        /\ Exists(other) /\ IsActive(jobs[other])
        /\ Slot(jobs[id]) = Slot(jobs[other])
        => id = other

\* Each row's fields fit its status: the claim (startedAt, claimedVersion) of a
\* running row, the outcome of a terminal one (retention counts on completedAt),
\* the miss streak of a deferred one, the window of a pattern.
RowsFitStatus ==
    \A id \in JobId : Exists(id) => RowFits(jobs[id])

\* A row's version never goes back, and grows with every event of its window and
\* with every revival of the failed row, so that a reader from before either
\* loses its compare-and-set.
VersionsGuardReaders ==
    [][\A id \in JobId : Exists(id) /\ Exists(id)' =>
          /\ jobs'[id].version >= jobs[id].version
          /\ jobs[id].status = "failed" /\ jobs'[id].status = "pending" =>
                jobs'[id].version > jobs[id].version
          /\ jobs[id].lastAt # jobs'[id].lastAt => jobs'[id].version > jobs[id].version]_vars

\* A completed or cancelled row is never revived: no late outcome, event, sweep
\* or miss of a caller that still holds its id and version changes its status.
CompletedIsFinal ==
    [][\A id \in JobId : Exists(id) /\ jobs[id].status \in {"completed", "cancelled"}
          /\ Exists(id)' => jobs'[id].status = jobs[id].status]_vars
=============================================================================
