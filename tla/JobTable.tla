------------------------------ MODULE JobTable ------------------------------
(***************************************************************************)
(* The store as a table of rows with a unique index on the (handler, key)  *)
(* of the active ones.  It is what the contract test suite asks of every   *)
(* store, and what SqliteStore is.  Its methods are statements run without *)
(* an await between them, by the one process that owns the file, so each   *)
(* method that writes is one action here.                                  *)
(*                                                                         *)
(* There are no bounds: the table is the abstract store that others are    *)
(* shown to implement, and their modules bound it.  A compare-and-set on a *)
(* version is enabled for the row's own version only and changes nothing   *)
(* for any other, hence no action takes a version.                         *)
(***************************************************************************)
EXTENDS JobRow

CONSTANTS JobId, Kinds, Waits, MaxWaits, leaseMs, horizonMs, Attempts,
          MaxAttempt, MaxTime   \* arguments of the calls: attempts and instants

VARIABLES
    jobs,       \* id -> row, None when the table has no such row
    issued,     \* ids ever inserted
    now         \* the clock

tableVars == <<jobs, issued, now>>

Instants == 0 .. MaxTime
Present(id) == jobs[id] # None
SlotOf(job) == <<job.handler, job.key>>

\* The unique index: no other active row has the slot of this one.
SlotFree(job, id) ==
    \A other \in JobId \ {id} :
        Present(other) /\ IsActive(jobs[other]) => SlotOf(jobs[other]) # SlotOf(job)

TableInit == jobs = [id \in JobId |-> None] /\ issued = {} /\ now = 0

\* UPDATE of the one row with this id, or of all rows of a set.
Update(id, row) == jobs' = [jobs EXCEPT ![id] = row] /\ UNCHANGED <<issued, now>>
UpdateAll(ids, rows) ==
    /\ jobs' = [id \in JobId |-> IF id \in ids THEN rows[id] ELSE jobs[id]]
    /\ UNCHANGED <<issued, now>>
Delete(ids) ==
    /\ jobs' = [id \in JobId |-> IF id \in ids THEN None ELSE jobs[id]]
    /\ UNCHANGED <<issued, now>>

-----------------------------------------------------------------------------
(* INSERT: the rows that the facade builds. *)

NewWindows ==
    {NewWindow("throttle", at, wait, None) : at \in 0 .. now, wait \in Waits}
    \cup {NewWindow("debounce", at, wait, maxWait) :
             at \in 0 .. now, wait \in Waits, maxWait \in MaxWaits \cup {None}}
InsertedRows ==
    {job \in {NewOnceJob(h, k, at, n, ref) :
                 h \in Handler, k \in Key, at \in Instants, n \in Attempts,
                 ref \in Ref \cup {None}}
             \cup {NewPatternJob(h, k, n, ref, window) :
                 h \in Handler, k \in Key, n \in Attempts, ref \in Ref \cup {None},
                 window \in NewWindows} :
        job.kind \in Kinds}

createJob(id, job) ==
    /\ SlotFree(job, id)
    /\ jobs' = [jobs EXCEPT ![id] = job]
    /\ issued' = issued \cup {id}
    /\ UNCHANGED now

-----------------------------------------------------------------------------
(* UPDATEs of one row. *)

\* At most one active row has the key of the event.
updatePatternEvent(id, kind, wait, maxWait, at) ==
    /\ CanUpdatePatternEvent(jobs[id], kind, wait, maxWait)
    /\ Update(id, updatePatternEventRow(jobs[id], at))

cancelJob(id) == CanCancelJob(jobs[id]) /\ Update(id, cancelJobRow(jobs[id], now))
replaceJob(id, at, n) == CanReplaceJob(jobs[id]) /\ Update(id, replaceJobRow(jobs[id], at, n))
updateScheduledFor(id, at) == Update(id, updateScheduledForRow(jobs[id], at))
updateSchedulerRef(id, ref) == Update(id, updateSchedulerRefRow(jobs[id], ref))

resetJob(id, at) ==
    /\ CanResetJob(jobs[id])
    /\ SlotFree(jobs[id], id)
    /\ Update(id, resetJobRow(jobs[id], at))

markRunning(id) ==
    CanMarkRunning(jobs[id], jobs[id].version) /\ Update(id, markRunningRow(jobs[id], now))
markCompleted(id) ==
    CanMarkCompleted(jobs[id], jobs[id].version) /\ Update(id, markCompletedRow(jobs[id], now))
markFailed(id, reason) ==
    /\ CanMarkFailed(jobs[id], jobs[id].version)
    /\ Update(id, markFailedRow(jobs[id], reason, now))
retryJob(id, n, at) ==
    CanRetryJob(jobs[id], jobs[id].version) /\ Update(id, retryJobRow(jobs[id], n, at))
rescheduleJob(id, at) ==
    CanRescheduleJob(jobs[id], jobs[id].version) /\ Update(id, rescheduleJobRow(jobs[id], at))

\* The due time is computed from the window columns; without a window it would
\* be null, which the column does not allow.  A zero wait is a window here.
rescheduleDueAt(id) ==
    /\ IsPendingAt(jobs[id], jobs[id].version) /\ IsPattern(jobs[id])
    /\ Update(id, rescheduleDueAtRow(jobs[id]))
requeueForNextWindow(id) ==
    /\ jobs[id].status = "running" /\ IsPattern(jobs[id])
    /\ Update(id, requeueForNextWindowRow(jobs[id]))

reclaimStalled(id) ==
    IsStalled(jobs[id], now, leaseMs) /\ Update(id, reclaimRow(jobs[id]))

deferJob(id, at) ==
    /\ CanDeferJob(jobs[id], jobs[id].version)
    /\ Update(id, deferJobRow(jobs[id], at, now, horizonMs))
noteMissingHandler(id) ==
    /\ CanDeferJob(jobs[id], jobs[id].version)
    /\ Update(id, noteMissingHandlerRow(jobs[id], now, horizonMs))

ClientUpdate(id) ==
    \/ \E kind \in Kinds, wait \in Waits, maxWait \in MaxWaits \cup {None}, at \in 0 .. now :
          updatePatternEvent(id, kind, wait, maxWait, at)
    \/ cancelJob(id)
    \/ \E at \in Instants, n \in Attempts : replaceJob(id, at, n)
    \/ \E at \in Instants : updateScheduledFor(id, at)
    \/ \E ref \in Ref : updateSchedulerRef(id, ref)
    \/ \E at \in Instants \cup {now} : resetJob(id, at)

ExecutionUpdate(id) ==
    \/ markRunning(id) \/ markCompleted(id)
    \/ \E reason \in FailureReason : markFailed(id, reason)
    \/ \E n \in 1 .. MaxAttempt, at \in Instants : retryJob(id, n, at)
    \/ \E at \in Instants : rescheduleJob(id, at)
    \/ rescheduleDueAt(id) \/ requeueForNextWindow(id)

RecoveryUpdate(id) ==
    \/ reclaimStalled(id)
    \/ \E at \in Instants : deferJob(id, at)
    \/ noteMissingHandler(id)

RowUpdate(id) == ClientUpdate(id) \/ ExecutionUpdate(id) \/ RecoveryUpdate(id)

-----------------------------------------------------------------------------
(* Statements over several rows. *)

DueRows(names) ==
    {id \in JobId : Present(id) /\ jobs[id].handler \in names /\ IsDue(jobs[id], now)}
\* The oldest due rows of the handlers this process knows, as many as its budget.
claimDueJobs(ids, names) ==
    /\ ids \subseteq DueRows(names)
    /\ \A id \in ids, other \in DueRows(names) \ ids :
          jobs[id].scheduledFor <= jobs[other].scheduledFor
    /\ UpdateAll(ids, [id \in ids |-> claimDueRow(jobs[id], now)])

StalledRows == {id \in JobId : Present(id) /\ IsStalled(jobs[id], now, leaseMs)}
\* First the windows with new events, then the rest.
reclaimStalledJobs ==
    UpdateAll(StalledRows, [id \in StalledRows |-> reclaimRow(jobs[id])])

TerminalRows == {id \in JobId : Present(id) /\ ~ IsActive(jobs[id])}
\* Oldest first, up to a cutoff or a limit.
pruneTerminal(ids) ==
    /\ ids \subseteq TerminalRows
    /\ \A id \in ids, other \in TerminalRows \ ids :
          jobs[id].completedAt <= jobs[other].completedAt
    /\ Delete(ids)

\* Closing a file changes no row; a store in memory ends with its process.
close == Delete(JobId)

Tick == now' = now + 1 /\ UNCHANGED <<jobs, issued>>

TableNext ==
    \/ \E id \in JobId \ issued : \E job \in InsertedRows : createJob(id, job)
    \/ \E id \in JobId : Present(id) /\ (RowUpdate(id) \/ Delete({id}))
    \/ \E ids \in SUBSET JobId, names \in SUBSET Handler : claimDueJobs(ids, names)
    \/ reclaimStalledJobs
    \/ \E ids \in SUBSET JobId : pruneTerminal(ids)
    \/ close
    \/ Tick

TableSpec == TableInit /\ [][TableNext]_tableVars
=============================================================================
