---------------------------- MODULE JobTable_proofs ----------------------------
(***************************************************************************)
(* What every statement on the table preserves, for any ids, slots, waits  *)
(* and instants: typed rows whose fields fit their status, and at most one *)
(* active row in each slot.  The unique index is only asked when a row is  *)
(* inserted or reset; that no other statement needs to ask it is what the  *)
(* lemmas of JobRow_proofs give: no other write revives or moves a row.    *)
(***************************************************************************)
EXTENDS JobTable, JobRow_proofs

\* What the modules that use the table assume of its parameters.
TableConstants ==
    /\ Kinds \subseteq Kind
    /\ Waits \subseteq Nat /\ MaxWaits \subseteq Nat \cup {None}
    /\ horizonMs \in Nat /\ Attempts \subseteq Nat
    /\ MaxAttempt \in Nat /\ MaxTime \in Nat

RowsTyped ==
    /\ jobs \in [JobId -> Job \cup {None}]
    /\ issued \in SUBSET JobId
    /\ now \in Time
RowsFit == \A id \in JobId : Present(id) => RowFits(jobs[id])
AtMostOneActive ==
    \A id, other \in JobId :
        Present(id) /\ Present(other) /\ IsActive(jobs[id]) /\ IsActive(jobs[other])
        /\ SlotOf(jobs[id]) = SlotOf(jobs[other]) => id = other

TableInv == RowsTyped /\ RowsFit /\ AtMostOneActive

LEMMA PresentRow ==
    ASSUME TableInv, NEW id \in JobId, Present(id)
    PROVE  jobs[id] \in Job /\ RowFits(jobs[id])
    BY DEF TableInv, RowsTyped, RowsFit, Present

\* A statement over a set of rows that keeps each of them.
LEMMA UpdateAllInv ==
    ASSUME TableInv, NEW ids \in SUBSET JobId, NEW rows,
           \A id \in ids : Present(id) /\ Keeps(jobs[id], rows[id]),
           UpdateAll(ids, rows)
    PROVE  TableInv'
    <1>1. \A id \in JobId :
             /\ id \in ids => jobs'[id] = rows[id] /\ jobs'[id] \in Job /\ RowFits(jobs'[id])
             /\ id \notin ids => jobs'[id] = jobs[id]
        BY DEF UpdateAll, Keeps
    <1>2. RowsTyped'
        BY <1>1 DEF UpdateAll, TableInv, RowsTyped
    <1>3. RowsFit'
        BY <1>1 DEF TableInv, RowsFit, Present
    <1>4. \A id \in JobId : Present(id)' /\ IsActive(jobs'[id]) =>
             /\ Present(id) /\ IsActive(jobs[id])
             /\ SlotOf(jobs'[id]) = SlotOf(jobs[id])
        BY <1>1 DEF Present, Keeps, SameSlot, SlotOf
    <1>5. AtMostOneActive'
        BY <1>4 DEF TableInv, AtMostOneActive
    <1>6. QED
        BY <1>2, <1>3, <1>5 DEF TableInv

\* A statement on one row that keeps it.
LEMMA UpdateInv ==
    ASSUME TableInv, NEW id \in JobId, NEW row, Present(id), Keeps(jobs[id], row),
           Update(id, row)
    PROVE  TableInv'
    <1> DEFINE rows == [i \in {id} |-> row]
    <1>1. UpdateAll({id}, rows)
        BY DEF UpdateAll, Update, TableInv, RowsTyped
    <1>2. rows[id] = row
        OBVIOUS
    <1> HIDE DEF rows
    <1>3. QED
        BY <1>1, <1>2, UpdateAllInv

\* A row put where the unique index allows it.
LEMMA PutInv ==
    ASSUME TableInv, NEW id \in JobId, NEW row \in Job, RowFits(row), SlotFree(row, id),
           jobs' = [jobs EXCEPT ![id] = row], issued' \in SUBSET JobId, now' = now
    PROVE  TableInv'
    <1>1. jobs'[id] = row /\ \A other \in JobId \ {id} : jobs'[other] = jobs[other]
        BY DEF TableInv, RowsTyped
    <1>2. RowsTyped' /\ RowsFit'
        BY <1>1 DEF TableInv, RowsTyped, RowsFit, Present
    <1>3. AtMostOneActive'
        BY <1>1 DEF TableInv, AtMostOneActive, SlotFree, Present
    <1>4. QED
        BY <1>2, <1>3 DEF TableInv

LEMMA DeleteInv ==
    ASSUME TableInv, NEW ids, Delete(ids)
    PROVE  TableInv'
    BY DEF Delete, TableInv, RowsTyped, RowsFit, AtMostOneActive, Present

\* Time passing, or nothing happening to the table.
LEMMA RowsUntouchedInv ==
    ASSUME TableInv, UNCHANGED <<jobs, issued>>, now' \in Time
    PROVE  TableInv'
    BY DEF TableInv, RowsTyped, RowsFit, AtMostOneActive, Present

-----------------------------------------------------------------------------
(* The statements. *)

\* What the facade inserts is a consistent row.
LEMMA InsertedFits ==
    ASSUME TableConstants, now \in Time, NEW job \in InsertedRows
    PROVE  job \in Job /\ RowFits(job)
    <1>1. Instants \subseteq Time /\ 0 .. now \subseteq Time
        BY DEF TableConstants, Instants, Time
    <1>2. CASE \E h \in Handler, k \in Key, at \in Instants, n \in Attempts,
                  ref \in Ref \cup {None} : job = NewOnceJob(h, k, at, n, ref)
        BY <1>1, <1>2, NewOnceJobFits DEF TableConstants
    <1>3. CASE \E h \in Handler, k \in Key, n \in Attempts, ref \in Ref \cup {None},
                  window \in NewWindows : job = NewPatternJob(h, k, n, ref, window)
        <2>1. PICK h \in Handler, k \in Key, n \in Attempts, ref \in Ref \cup {None},
                   window \in NewWindows : job = NewPatternJob(h, k, n, ref, window)
            BY <1>3
        <2>2. PICK kind \in Kind \ {"once"}, at \in 0 .. now, wait \in Waits,
                   maxWait \in MaxWaits \cup {None} :
                      window = NewWindow(kind, at, wait, maxWait)
            BY DEF NewWindows, Kind
        <2>3. /\ n \in Nat /\ at \in Time /\ wait \in Nat
              /\ maxWait \in Nat \cup {None}
            BY <1>1 DEF TableConstants
        <2>4. QED
            BY <2>1, <2>2, <2>3, NewPatternJobFits
    <1>4. QED
        BY <1>2, <1>3 DEF InsertedRows

LEMMA InsertInv ==
    ASSUME TableConstants, TableInv, NEW id \in JobId, NEW job \in InsertedRows,
           createJob(id, job)
    PROVE  TableInv'
    <1>1. job \in Job /\ RowFits(job)
        BY InsertedFits DEF TableInv, RowsTyped
    <1>2. QED
        BY <1>1, PutInv DEF createJob, TableInv, RowsTyped

LEMMA ResetInv ==
    ASSUME TableInv, NEW id \in JobId, Present(id), NEW at \in Time, resetJob(id, at)
    PROVE  TableInv'
    <1> DEFINE row == resetJobRow(jobs[id], at)
    <1>1. row \in Job /\ SameSlot(jobs[id], row) /\ RowFits(row)
        BY PresentRow, ResetJobRevives DEF resetJob
    <1>2. SlotFree(row, id)
        BY <1>1 DEF resetJob, SlotFree, SlotOf, SameSlot
    <1>3. jobs' = [jobs EXCEPT ![id] = row] /\ UNCHANGED <<issued, now>>
        BY DEF resetJob, Update
    <1> HIDE DEF row
    <1>4. QED
        BY <1>1, <1>2, <1>3, PutInv DEF TableInv, RowsTyped

LEMMA ClientUpdateInv ==
    ASSUME TableConstants, TableInv, NEW id \in JobId, Present(id), ClientUpdate(id)
    PROVE  TableInv'
    <1>1. /\ jobs[id] \in Job /\ RowFits(jobs[id])
          /\ now \in Time /\ Instants \subseteq Time /\ 0 .. now \subseteq Time
          /\ Attempts \subseteq Nat /\ Kinds \subseteq Kind
        BY PresentRow DEF TableConstants, TableInv, RowsTyped, Instants, Time
    <1>2. ASSUME NEW kind \in Kinds, NEW wait \in Waits, NEW maxWait \in MaxWaits \cup {None},
                 NEW at \in 0 .. now, updatePatternEvent(id, kind, wait, maxWait, at)
          PROVE  TableInv'
        <2>1. CanUpdatePatternEvent(jobs[id], kind, wait, maxWait) /\ at \in Time
            BY <1>1, <1>2 DEF updatePatternEvent
        <2>2. kind \in Kind \ {"once"}
            <3>1. jobs[id].waitMs # None
                BY <2>1, <1>1, NoneAssumption DEF CanUpdatePatternEvent, TableConstants
            <3>2. QED
                BY <1>1, <2>1, <3>1 DEF CanUpdatePatternEvent, RowFits, WindowMatches, IsPattern
        <2>3. Keeps(jobs[id], updatePatternEventRow(jobs[id], at))
            BY <1>1, <2>1, <2>2, PatternEventKeeps
        <2>4. QED
            BY <1>2, <2>3, UpdateInv DEF updatePatternEvent
    <1>3. ASSUME cancelJob(id) PROVE TableInv'
        BY <1>1, <1>3, CancelKeeps, UpdateInv DEF cancelJob
    <1>4. ASSUME NEW at \in Instants, NEW n \in Attempts, replaceJob(id, at, n)
          PROVE  TableInv'
        BY <1>1, <1>4, ReplaceKeeps, UpdateInv DEF replaceJob
    <1>5. ASSUME NEW at \in Instants, updateScheduledFor(id, at) PROVE TableInv'
        BY <1>1, <1>5, UpdateScheduledForKeeps, UpdateInv DEF updateScheduledFor
    <1>6. ASSUME NEW ref \in Ref, updateSchedulerRef(id, ref) PROVE TableInv'
        BY <1>1, <1>6, UpdateSchedulerRefKeeps, UpdateInv DEF updateSchedulerRef
    <1>7. ASSUME NEW at \in Instants \cup {now}, resetJob(id, at) PROVE TableInv'
        BY <1>1, <1>7, ResetInv
    <1>8. QED
        BY <1>2, <1>3, <1>4, <1>5, <1>6, <1>7 DEF ClientUpdate

LEMMA ExecutionUpdateInv ==
    ASSUME TableConstants, TableInv, NEW id \in JobId, Present(id), ExecutionUpdate(id)
    PROVE  TableInv'
    <1>1. /\ jobs[id] \in Job /\ RowFits(jobs[id])
          /\ now \in Time /\ Instants \subseteq Time /\ 1 .. MaxAttempt \subseteq Nat
        BY PresentRow DEF TableConstants, TableInv, RowsTyped, Instants, Time
    <1>2. ASSUME markRunning(id) PROVE TableInv'
        BY <1>1, <1>2, MarkRunningKeeps, UpdateInv DEF markRunning
    <1>3. ASSUME markCompleted(id) PROVE TableInv'
        BY <1>1, <1>3, MarkCompletedKeeps, UpdateInv DEF markCompleted
    <1>4. ASSUME NEW reason \in FailureReason, markFailed(id, reason) PROVE TableInv'
        BY <1>1, <1>4, MarkFailedKeeps, UpdateInv DEF markFailed
    <1>5. ASSUME NEW n \in 1 .. MaxAttempt, NEW at \in Instants, retryJob(id, n, at)
          PROVE  TableInv'
        BY <1>1, <1>5, RetryKeeps, UpdateInv DEF retryJob
    <1>6. ASSUME NEW at \in Instants, rescheduleJob(id, at) PROVE TableInv'
        BY <1>1, <1>6, RescheduleKeeps, UpdateInv DEF rescheduleJob
    <1>7. ASSUME rescheduleDueAt(id) PROVE TableInv'
        BY <1>1, <1>7, MovedToDueKeeps, UpdateInv DEF rescheduleDueAt, IsPendingAt
    <1>8. ASSUME requeueForNextWindow(id) PROVE TableInv'
        BY <1>1, <1>8, NextWindowKeeps, UpdateInv DEF requeueForNextWindow
    <1>9. QED
        BY <1>2, <1>3, <1>4, <1>5, <1>6, <1>7, <1>8 DEF ExecutionUpdate

LEMMA RecoveryUpdateInv ==
    ASSUME TableConstants, TableInv, NEW id \in JobId, Present(id), RecoveryUpdate(id)
    PROVE  TableInv'
    <1>1. /\ jobs[id] \in Job /\ RowFits(jobs[id])
          /\ now \in Time /\ Instants \subseteq Time /\ horizonMs \in Nat
        BY PresentRow DEF TableConstants, TableInv, RowsTyped, Instants, Time
    <1>2. ASSUME reclaimStalled(id) PROVE TableInv'
        BY <1>1, <1>2, ReclaimKeeps, UpdateInv DEF reclaimStalled, IsStalled
    <1>3. ASSUME NEW at \in Instants, deferJob(id, at) PROVE TableInv'
        BY <1>1, <1>3, DeferKeeps, UpdateInv DEF deferJob, CanDeferJob, IsPendingAt
    <1>4. ASSUME noteMissingHandler(id) PROVE TableInv'
        BY <1>1, <1>4, NoteMissKeeps, UpdateInv DEF noteMissingHandler, CanDeferJob, IsPendingAt
    <1>5. QED
        BY <1>2, <1>3, <1>4 DEF RecoveryUpdate

\* A claim of any due rows, whichever are passed over.
LEMMA ClaimDueInv ==
    ASSUME TableInv, NEW names \in SUBSET Handler, NEW ids \in SUBSET DueRows(names),
           UpdateAll(ids, [id \in ids |-> claimDueRow(jobs[id], now)])
    PROVE  TableInv'
    <1> DEFINE rows == [id \in ids |-> claimDueRow(jobs[id], now)]
    <1>1. ids \in SUBSET JobId /\ now \in Time
        BY DEF DueRows, TableInv, RowsTyped
    <1>2. ASSUME NEW id \in ids PROVE Present(id) /\ Keeps(jobs[id], rows[id])
        BY <1>1, PresentRow, ClaimDueKeeps DEF DueRows
    <1> HIDE DEF rows
    <1>3. QED
        BY <1>1, <1>2, UpdateAllInv DEF rows

LEMMA ReclaimStalledJobsInv ==
    ASSUME TableInv, reclaimStalledJobs
    PROVE  TableInv'
    <1> DEFINE rows == [id \in StalledRows |-> reclaimRow(jobs[id])]
    <1>1. ASSUME NEW id \in StalledRows
          PROVE  id \in JobId /\ Present(id) /\ Keeps(jobs[id], rows[id])
        BY PresentRow, ReclaimKeeps DEF StalledRows, IsStalled
    <1>2. UpdateAll(StalledRows, rows)
        BY DEF reclaimStalledJobs
    <1> HIDE DEF rows
    <1>3. QED
        BY <1>1, <1>2, UpdateAllInv

-----------------------------------------------------------------------------
\* The table keeps at most one active row for each (handler, key), and the
\* fields of its rows fit their statuses: so does every store that implements it.
THEOREM TableInvariance == TableConstants => (TableSpec => []TableInv)
    <1>1. TableInit => TableInv
        BY DEF TableInit, TableInv, RowsTyped, RowsFit, AtMostOneActive, Present, Time
    <1>2. ASSUME TableConstants, TableInv, TableNext PROVE TableInv'
        <2>1. ASSUME NEW id \in JobId, Present(id), RowUpdate(id) PROVE TableInv'
            BY <1>2, <2>1, ClientUpdateInv, ExecutionUpdateInv, RecoveryUpdateInv DEF RowUpdate
        <2>2. ASSUME NEW ids, pruneTerminal(ids) PROVE TableInv'
            BY <1>2, <2>2, DeleteInv DEF pruneTerminal
        <2>3. ASSUME NEW ids, NEW names \in SUBSET Handler, claimDueJobs(ids, names)
              PROVE  TableInv'
            BY <1>2, <2>3, ClaimDueInv DEF claimDueJobs
        <2>4. ASSUME Tick PROVE TableInv'
            <3>1. now' \in Time
                BY <1>2, <2>4 DEF Tick, TableInv, RowsTyped, Time
            <3>2. QED
                BY <1>2, <2>4, <3>1, RowsUntouchedInv DEF Tick
        <2>5. QED
            BY <1>2, <2>1, <2>2, <2>3, <2>4, InsertInv, DeleteInv, ReclaimStalledJobsInv
               DEF TableNext, close
    <1>3. ASSUME TableInv, UNCHANGED tableVars PROVE TableInv'
        BY <1>3, RowsUntouchedInv DEF tableVars, TableInv, RowsTyped
    <1>4. CASE TableConstants
        <2>1. TableInv /\ [TableNext]_tableVars => TableInv'
            BY <1>2, <1>3, <1>4
        <2>2. QED
            BY <1>1, <2>1, PTL DEF TableSpec
    <1>5. QED
        BY <1>4
=============================================================================
