-------------------------- MODULE MemoryStore_proofs --------------------------
(***************************************************************************)
(* The in-memory store keeps its invariants for any set of ids, handlers,  *)
(* keys, waits and bounds.                                                 *)
(*                                                                         *)
(* AtMostOneActive is not inductive: it says nothing of the index the      *)
(* conflict checks read.  KeyIndexNamesActive is, together with the types  *)
(* and the consistency of each row, and it implies AtMostOneActive.  From  *)
(* it follow what the steps do to the history of a row, and that the store *)
(* implements the table.                                                   *)
(***************************************************************************)
EXTENDS MemoryStore, JobRow_proofs

IInv == TypeOK /\ KeyIndexNamesActive /\ RowsFitStatus

\* What a step may do to the rows while the index stays: leave them, or write
\* them without reviving or moving them.
RowsKept ==
    /\ jobs' \in [JobId -> Job \cup {None}]
    /\ \A id \in JobId : \/ jobs'[id] = jobs[id]
                         \/ Exists(id) /\ Keeps(jobs[id], jobs'[id])
    /\ keyIndex' = keyIndex

\* Everything else a step leaves in its type.
RestTyped == issued' \in SUBSET JobId /\ now' \in Time

\* A row that is present is a consistent Job in a slot of the index.
LEMMA PresentRow ==
    ASSUME IInv, NEW id \in JobId, Exists(id)
    PROVE  /\ jobs[id] \in Job /\ RowFits(jobs[id])
           /\ Slot(jobs[id]) \in Handler \X Key
    BY DEF IInv, TypeOK, RowsFitStatus, Exists, Slot, Job

\* Rows that are kept keep the invariant.
LEMMA RowsKeptInv ==
    ASSUME IInv, RowsKept, RestTyped
    PROVE  IInv'
    <1>1. TypeOK'
        BY DEF IInv, TypeOK, RowsKept, RestTyped
    <1>2. KeyIndexNamesActive'
        <2> SUFFICES ASSUME NEW id \in JobId, Exists(id)', IsActive(jobs'[id])
                     PROVE  keyIndex'[Slot(jobs'[id])] = id
            BY DEF KeyIndexNamesActive
        <2>1. CASE jobs'[id] = jobs[id]
            BY <2>1 DEF IInv, KeyIndexNamesActive, RowsKept, Exists, Slot
        <2>2. CASE Exists(id) /\ Keeps(jobs[id], jobs'[id])
            BY <2>2 DEF IInv, KeyIndexNamesActive, RowsKept, Slot, Keeps, SameSlot
        <2>3. QED
            BY <2>1, <2>2 DEF RowsKept
    <1>3. RowsFitStatus'
        BY DEF IInv, RowsFitStatus, RowsKept, Exists, Keeps
    <1>4. QED
        BY <1>1, <1>2, <1>3 DEF IInv

\* A write of one row that keeps it.
LEMMA WriteInv ==
    ASSUME IInv, NEW id \in JobId, NEW row, Exists(id), Keeps(jobs[id], row), Write(id, row)
    PROVE  IInv'
    <1>1. RowsKept
        BY DEF IInv, TypeOK, RowsKept, Write, SetRow, Keeps
    <1>2. RestTyped
        BY DEF IInv, TypeOK, RestTyped, Write, SetRow
    <1>3. QED
        BY <1>1, <1>2, RowsKeptInv

\* A write that ends a row and gives its slot back: the slot was that row's.
LEMMA ReleaseInv ==
    ASSUME IInv, NEW id \in JobId, NEW row, Exists(id), Keeps(jobs[id], row),
           IsActive(jobs[id]), ~ IsActive(row), WriteAndRelease(id, row)
    PROVE  IInv'
    <1>1. Slot(row) = Slot(jobs[id]) /\ Slot(row) \in Handler \X Key
        BY PresentRow DEF Slot, Keeps, SameSlot
    <1>2. TypeOK'
        <2>1. row \in Job
            BY DEF Keeps
        <2>2. QED
            BY <1>1, <2>1 DEF IInv, TypeOK, WriteAndRelease, SetRow
    <1>3. KeyIndexNamesActive'
        <2> SUFFICES ASSUME NEW other \in JobId, Exists(other)', IsActive(jobs'[other])
                     PROVE  keyIndex'[Slot(jobs'[other])] = other
            BY DEF KeyIndexNamesActive
        <2>1. other # id /\ jobs'[other] = jobs[other] /\ Exists(other)
            BY DEF IInv, TypeOK, WriteAndRelease, SetRow, Exists
        <2>2. keyIndex[Slot(jobs[other])] = other /\ keyIndex[Slot(jobs[id])] = id
            BY <2>1 DEF IInv, KeyIndexNamesActive
        <2>3. Slot(jobs[other]) # Slot(row) /\ Slot(jobs[other]) \in Handler \X Key
            BY <1>1, <2>1, <2>2, PresentRow
        <2>4. QED
            BY <2>1, <2>2, <2>3 DEF IInv, TypeOK, WriteAndRelease
    <1>4. RowsFitStatus'
        BY DEF IInv, TypeOK, RowsFitStatus, WriteAndRelease, SetRow, Exists, Keeps
    <1>5. QED
        BY <1>2, <1>3, <1>4 DEF IInv

\* A write that puts an active row into a slot no other active row holds.
LEMMA HoldInv ==
    ASSUME IInv, NEW id \in JobId, NEW row \in Job, RowFits(row),
           ~ HeldByOther(Slot(row), id),
           jobs' = [jobs EXCEPT ![id] = row],
           keyIndex' = [keyIndex EXCEPT ![Slot(row)] = id],
           RestTyped
    PROVE  IInv'
    <1>1. Slot(row) \in Handler \X Key
        BY DEF Slot, Job
    <1>2. TypeOK'
        BY <1>1 DEF IInv, TypeOK, RestTyped
    <1>3. KeyIndexNamesActive'
        <2> SUFFICES ASSUME NEW other \in JobId, Exists(other)', IsActive(jobs'[other])
                     PROVE  keyIndex'[Slot(jobs'[other])] = other
            BY DEF KeyIndexNamesActive
        <2>1. CASE other = id
            BY <2>1, <1>1 DEF IInv, TypeOK
        <2>2. CASE other # id
            <3>1. jobs'[other] = jobs[other] /\ Exists(other)
                BY <2>2 DEF IInv, TypeOK, Exists
            <3>2. keyIndex[Slot(jobs[other])] = other
                BY <3>1 DEF IInv, KeyIndexNamesActive
            <3>3. Slot(jobs[other]) # Slot(row)
                BY <2>2, <3>1, <3>2, StoreAssumption DEF HeldByOther
            <3>4. Slot(jobs[other]) \in Handler \X Key
                BY <3>1, PresentRow
            <3>5. QED
                BY <3>1, <3>2, <3>3, <3>4, <1>1 DEF IInv, TypeOK
        <2>3. QED
            BY <2>1, <2>2
    <1>4. RowsFitStatus'
        BY DEF IInv, TypeOK, RowsFitStatus, Exists
    <1>5. QED
        BY <1>2, <1>3, <1>4 DEF IInv

\* Dropping terminal rows, and the index entries that still name them.
LEMMA DeleteTerminalInv ==
    ASSUME IInv, NEW S \in SUBSET JobId, \A id \in S : ~ IsActive(jobs[id]), deleteTerminal(S)
    PROVE  IInv'
    <1>1. TypeOK' /\ RowsFitStatus'
        BY DEF IInv, TypeOK, RowsFitStatus, deleteTerminal, Exists
    <1>2. KeyIndexNamesActive'
        <2> SUFFICES ASSUME NEW id \in JobId, Exists(id)', IsActive(jobs'[id])
                     PROVE  keyIndex'[Slot(jobs'[id])] = id
            BY DEF KeyIndexNamesActive
        <2>1. id \notin S /\ jobs'[id] = jobs[id] /\ Exists(id)
            BY DEF deleteTerminal, Exists
        <2>2. Slot(jobs[id]) \in Handler \X Key
            BY <2>1, PresentRow
        <2>3. QED
            BY <2>1, <2>2 DEF IInv, KeyIndexNamesActive, deleteTerminal
    <1>3. QED
        BY <1>1, <1>2 DEF IInv

-----------------------------------------------------------------------------
(* The actions, one lemma per group of Next. *)

\* A miss of the handler keeps the row waiting or ends it.
LEMMA NoteMissInv ==
    ASSUME IInv, NEW id \in JobId, NEW version, NEW row,
           Exists(id) => Keeps(jobs[id], row) /\ row.status \in {"pending", "failed"},
           NoteMiss(id, version, row)
    PROVE  IInv'
    <1>1. Exists(id) /\ jobs[id].status = "pending"
        BY DEF NoteMiss, CanDeferJob, IsPendingAt
    <1>2. CASE row.status = "failed"
        <2>1. IsActive(jobs[id]) /\ ~ IsActive(row)
            BY <1>1, <1>2 DEF IsActive, ACTIVE_STATUSES
        <2>2. QED
            BY <1>1, <1>2, <2>1, ReleaseInv DEF NoteMiss
    <1>3. CASE row.status # "failed"
        BY <1>1, <1>3, WriteInv DEF NoteMiss
    <1>4. QED
        BY <1>2, <1>3

\* Client operations.
LEMMA ClientStepInv ==
    ASSUME IInv, ClientStep
    PROVE  IInv'
    <1>0. now \in Time /\ Instants \subseteq Time /\ 0 .. now \subseteq Time
        BY StoreAssumption DEF IInv, TypeOK, Instants, Time
    <1>1. ASSUME NEW id \in JobId, NEW job \in NewJobs, createJob(id, job)
          PROVE  IInv'
        <2>1. job \in Job /\ RowFits(job)
            <3>1. Attempts \subseteq Nat /\ Waits \subseteq Nat /\ MaxWaits \subseteq Nat \cup {None}
                BY StoreAssumption
            <3>2. CASE \E h \in Handler, k \in Key, at \in Instants, n \in Attempts,
                          ref \in Ref \cup {None} : job = NewOnceJob(h, k, at, n, ref)
                BY <1>0, <3>1, <3>2, NewOnceJobFits
            <3>3. CASE \E h \in Handler, k \in Key, n \in Attempts, ref \in Ref \cup {None},
                          kind \in Kind \ {"once"}, at \in 0 .. now, wait \in Waits,
                          maxWait \in MaxWaits \cup {None} :
                             job = NewPatternJob(h, k, n, ref, NewWindow(kind, at, wait, maxWait))
                <4>1. PICK h \in Handler, k \in Key, n \in Attempts, ref \in Ref \cup {None},
                           kind \in Kind \ {"once"}, at \in 0 .. now, wait \in Waits,
                           maxWait \in MaxWaits \cup {None} :
                              job = NewPatternJob(h, k, n, ref, NewWindow(kind, at, wait, maxWait))
                    BY <3>3
                <4>2. /\ at \in Time /\ n \in Nat /\ wait \in Nat /\ maxWait \in Nat \cup {None}
                    BY <1>0, <3>1
                <4>3. QED
                    BY <4>1, <4>2, NewPatternJobFits
            <3>4. /\ None \in MaxWaits \cup {None}
                  /\ "throttle" \in Kind \ {"once"} /\ "debounce" \in Kind \ {"once"}
                BY DEF Kind
            <3>5. QED
                BY <1>1, <3>2, <3>3, <3>4 DEF NewJobs
        <2>2. ~ HeldByOther(Slot(job), id) /\ RestTyped
            BY <1>1 DEF createJob, RestTyped, IInv, TypeOK
        <2>3. QED
            BY <1>1, <2>1, <2>2, HoldInv DEF createJob
    <1>2. ASSUME NEW slot \in Handler \X Key, getActiveJobByKey(slot)
          PROVE  IInv'
        <2>1. TypeOK' /\ RowsFitStatus'
            BY <1>2 DEF IInv, TypeOK, RowsFitStatus, getActiveJobByKey, Exists
        <2>2. KeyIndexNamesActive'
            <3> SUFFICES ASSUME NEW id \in JobId, Exists(id), IsActive(jobs[id])
                         PROVE  keyIndex'[Slot(jobs[id])] = id
                BY <1>2 DEF KeyIndexNamesActive, getActiveJobByKey, Exists
            <3>1. keyIndex[Slot(jobs[id])] = id /\ Slot(jobs[id]) \in Handler \X Key
                BY PresentRow DEF IInv, KeyIndexNamesActive
            <3>2. Slot(jobs[id]) # slot
                BY <1>2, <3>1 DEF getActiveJobByKey
            <3>3. QED
                BY <1>2, <3>1, <3>2 DEF IInv, TypeOK, getActiveJobByKey
        <2>3. QED
            BY <2>1, <2>2 DEF IInv
    <1>3. ASSUME NEW slot \in Handler \X Key, NEW kind \in Kinds \ {"once"},
                 NEW wait \in Waits, NEW maxWait \in MaxWaits \cup {None},
                 NEW at \in 0 .. now,
                 updatePatternEvent(slot, kind, wait, maxWait, at)
          PROVE  IInv'
        <2> DEFINE id == keyIndex[slot]
        <2>1. id \in JobId /\ Exists(id)
            BY <1>3 DEF updatePatternEvent, IInv, TypeOK
        <2>2. at \in Time /\ kind \in Kind \ {"once"}
            BY <1>0, StoreAssumption
        <2>3. Keeps(jobs[id], updatePatternEventRow(jobs[id], at))
            BY <1>3, <2>1, <2>2, PresentRow, PatternEventKeeps DEF updatePatternEvent
        <2>4. QED
            BY <1>3, <2>1, <2>3, WriteInv DEF updatePatternEvent
    <1>4. ASSUME NEW id \in JobId, cancelJob(id)
          PROVE  IInv'
        <2>1. Exists(id) /\ Keeps(jobs[id], cancelJobRow(jobs[id], now))
            BY <1>0, <1>4, PresentRow, CancelKeeps DEF cancelJob
        <2>2. IsActive(jobs[id]) /\ ~ IsActive(cancelJobRow(jobs[id], now))
            BY <1>4, PresentRow DEF cancelJob, CanCancelJob, IsActive, ACTIVE_STATUSES,
               cancelJobRow, resetDeferFields, Job
        <2>3. QED
            BY <1>4, <2>1, <2>2, ReleaseInv DEF cancelJob
    <1>5. ASSUME NEW id \in JobId, NEW at \in Instants, NEW n \in Attempts,
                 replaceJob(id, at, n)
          PROVE  IInv'
        <2>1. Exists(id) /\ Keeps(jobs[id], replaceJobRow(jobs[id], at, n))
            BY <1>0, <1>5, PresentRow, ReplaceKeeps, StoreAssumption DEF replaceJob
        <2>2. QED
            BY <1>5, <2>1, WriteInv DEF replaceJob
    <1>6. ASSUME NEW id \in JobId, NEW v, NEW r \in Ref, updateSchedulerRef(id, v, r)
          PROVE  IInv'
        <2>1. Exists(id) /\ Keeps(jobs[id], updateSchedulerRefRow(jobs[id], r))
            BY <1>6, PresentRow, UpdateSchedulerRefKeeps DEF updateSchedulerRef
        <2>2. QED
            BY <1>6, <2>1, WriteInv DEF updateSchedulerRef
    <1>7. ASSUME NEW id \in JobId, NEW at \in Time, resetJob(id, at)
          PROVE  IInv'
        <2> DEFINE row == resetJobRow(jobs[id], at)
        <2>1. row \in Job /\ RowFits(row) /\ SameSlot(jobs[id], row)
            BY <1>7, PresentRow, ResetJobRevives DEF resetJob
        <2>2. Slot(row) = Slot(jobs[id]) /\ ~ HeldByOther(Slot(row), id)
            BY <1>7, <2>1 DEF Slot, SameSlot, resetJob
        <2>3. RestTyped
            BY <1>7 DEF RestTyped, resetJob, WriteAndHold, SetRow, IInv, TypeOK
        <2> HIDE DEF row
        <2>4. QED
            BY <1>7, <2>1, <2>2, <2>3, HoldInv DEF resetJob, WriteAndHold, SetRow, row
    <1>8. ASSUME NEW id \in JobId, deleteJob(id)
          PROVE  IInv'
        BY <1>8 DEF deleteJob, IInv, TypeOK, KeyIndexNamesActive, RowsFitStatus, Exists
    <1>9. QED
        BY <1>0, <1>1, <1>2, <1>3, <1>4, <1>5, <1>6, <1>7, <1>8
           DEF ClientStep, resetJobAt

\* Claims and their outcomes.
LEMMA ClaimStepInv ==
    ASSUME IInv, ClaimStep
    PROVE  IInv'
    <1>0. now \in Time /\ Instants \subseteq Time /\ 1 .. MaxAttempt \subseteq Nat
        BY StoreAssumption DEF IInv, TypeOK, Instants, Time
    <1>1. ASSUME NEW S \in SUBSET JobId, claimDueJobs(S),
                 \A id \in S : Exists(id) /\ IsDue(jobs[id], now)
          PROVE  IInv'
        <2>1. \A id \in S : Keeps(jobs[id], claimDueRow(jobs[id], now))
            BY <1>0, <1>1, PresentRow, ClaimDueKeeps
        <2>2. RowsKept
            <3>1. \A id \in S : claimDueRow(jobs[id], now) \in Job
                BY <2>1 DEF Keeps
            <3>2. QED
                BY <1>1, <2>1, <3>1 DEF RowsKept, claimDueJobs, UpdateRows, IInv, TypeOK
        <2>3. RestTyped
            BY <1>1 DEF RestTyped, claimDueJobs, UpdateRows, IInv, TypeOK
        <2>4. QED
            BY <2>2, <2>3, RowsKeptInv
    <1>2. ASSUME NEW id \in JobId, NEW v, markRunning(id, v)
          PROVE  IInv'
        <2>1. Exists(id) /\ Keeps(jobs[id], markRunningRow(jobs[id], now))
            BY <1>0, <1>2, PresentRow, MarkRunningKeeps DEF markRunning
        <2>2. QED
            BY <1>2, <2>1, WriteInv DEF markRunning
    <1>3. ASSUME NEW id \in JobId, NEW v, markCompleted(id, v)
          PROVE  IInv'
        <2>1. Exists(id) /\ Keeps(jobs[id], markCompletedRow(jobs[id], now))
            BY <1>0, <1>3, PresentRow, MarkCompletedKeeps DEF markCompleted
        <2>2. IsActive(jobs[id]) /\ ~ IsActive(markCompletedRow(jobs[id], now))
            BY <1>3, PresentRow DEF markCompleted, CanMarkCompleted, IsRunningAt, IsActive,
               ACTIVE_STATUSES, markCompletedRow, resetDeferFields, Job
        <2>3. QED
            BY <1>3, <2>1, <2>2, ReleaseInv DEF markCompleted
    <1>4. ASSUME NEW id \in JobId, NEW v, NEW reason \in FailureReason, markFailed(id, v, reason)
          PROVE  IInv'
        <2>1. Exists(id) /\ Keeps(jobs[id], markFailedRow(jobs[id], reason, now))
            BY <1>0, <1>4, PresentRow, MarkFailedKeeps DEF markFailed
        <2>2. IsActive(jobs[id]) /\ ~ IsActive(markFailedRow(jobs[id], reason, now))
            BY <1>4, PresentRow DEF markFailed, CanMarkFailed, IsRunningAt, IsActive,
               ACTIVE_STATUSES, markFailedRow, resetDeferFields, Job
        <2>3. QED
            BY <1>4, <2>1, <2>2, ReleaseInv DEF markFailed
    <1>5. ASSUME NEW id \in JobId, NEW v, NEW n \in Nat, NEW at \in Time, retryJob(id, v, n, at)
          PROVE  IInv'
        <2>1. Exists(id) /\ Keeps(jobs[id], retryJobRow(jobs[id], n, at))
            BY <1>5, PresentRow, RetryKeeps DEF retryJob
        <2>2. QED
            BY <1>5, <2>1, WriteInv DEF retryJob
    <1>6. ASSUME NEW id \in JobId, NEW v, NEW at \in Time, rescheduleJob(id, v, at)
          PROVE  IInv'
        <2>1. Exists(id) /\ Keeps(jobs[id], rescheduleJobRow(jobs[id], at))
            BY <1>6, PresentRow, RescheduleKeeps DEF rescheduleJob
        <2>2. QED
            BY <1>6, <2>1, WriteInv DEF rescheduleJob
    <1>7. ASSUME NEW id \in JobId, NEW v, rescheduleDueAt(id, v)
          PROVE  IInv'
        <2>1. Exists(id) /\ Keeps(jobs[id], rescheduleDueAtRow(jobs[id]))
            BY <1>7, PresentRow, RescheduleDueAtKeeps DEF rescheduleDueAt
        <2>2. QED
            BY <1>7, <2>1, WriteInv DEF rescheduleDueAt
    <1>8. ASSUME NEW id \in JobId, requeueForNextWindow(id)
          PROVE  IInv'
        <2>1. Exists(id) /\ Keeps(jobs[id], requeueForNextWindowRow(jobs[id]))
            BY <1>8, PresentRow, RequeueKeeps DEF requeueForNextWindow
        <2>2. QED
            BY <1>8, <2>1, WriteInv DEF requeueForNextWindow
    <1>9. QED
        <2>1. ASSUME NEW names \in SUBSET Handler, NEW budget \in 1 .. Cardinality(JobId),
                     NEW S \in OldestDue(names, budget), claimDueJobs(S)
              PROVE  IInv'
            BY <1>1, <2>1 DEF OldestDue, DueRows
        <2>2. QED
            BY <1>0, <2>1, <1>2, <1>3, <1>4, <1>5, <1>6, <1>7, <1>8 DEF ClaimStep

\* Recovery, missing handlers, retention and the clock.
LEMMA MaintenanceStepInv ==
    ASSUME IInv, MaintenanceStep
    PROVE  IInv'
    <1>0. now \in Time /\ Instants \subseteq Time /\ horizonMs \in Nat
        BY StoreAssumption DEF IInv, TypeOK, Instants, Time
    <1>1. ASSUME NEW id \in JobId, reclaimStalled(id)
          PROVE  IInv'
        <2>1. Exists(id) /\ Keeps(jobs[id], reclaimRow(jobs[id]))
            BY <1>1, PresentRow, ReclaimKeeps DEF reclaimStalled, StalledRows, IsStalled
        <2>2. QED
            BY <1>1, <2>1, WriteInv DEF reclaimStalled
    <1>2. ASSUME reclaimStalledJobs
          PROVE  IInv'
        <2>1. \A id \in StalledRows : Exists(id) /\ Keeps(jobs[id], reclaimRow(jobs[id]))
            BY PresentRow, ReclaimKeeps DEF StalledRows, IsStalled
        <2>2. \A id \in StalledRows : reclaimRow(jobs[id]) \in Job
            BY <2>1 DEF Keeps
        <2>3. RowsKept
            BY <1>2, <2>1, <2>2 DEF RowsKept, reclaimStalledJobs, UpdateRows, IInv, TypeOK
        <2>4. RestTyped
            BY <1>2 DEF RestTyped, reclaimStalledJobs, UpdateRows, IInv, TypeOK
        <2>5. QED
            BY <2>3, <2>4, RowsKeptInv
    <1>3. ASSUME NEW id \in JobId, NEW at \in Time, updateScheduledFor(id, at)
          PROVE  IInv'
        <2>1. Exists(id) /\ Keeps(jobs[id], updateScheduledForRow(jobs[id], at))
            BY <1>3, PresentRow, UpdateScheduledForKeeps DEF updateScheduledFor
        <2>2. QED
            BY <1>3, <2>1, WriteInv DEF updateScheduledFor
    <1>4. ASSUME NEW id \in JobId, NEW v, NEW at \in Time, deferJob(id, v, at)
          PROVE  IInv'
        <2>1. Exists(id) /\ jobs[id].status = "pending"
            BY <1>4 DEF deferJob, NoteMiss, CanDeferJob, IsPendingAt
        <2>2. /\ Keeps(jobs[id], deferJobRow(jobs[id], at, now, horizonMs))
              /\ deferJobRow(jobs[id], at, now, horizonMs).status \in {"pending", "failed"}
            BY <1>0, <2>1, PresentRow, DeferKeeps
        <2>3. QED
            BY <1>4, <2>2, NoteMissInv DEF deferJob
    <1>5. ASSUME NEW id \in JobId, NEW v, noteMissingHandler(id, v)
          PROVE  IInv'
        <2>1. Exists(id) /\ jobs[id].status = "pending"
            BY <1>5 DEF noteMissingHandler, NoteMiss, CanDeferJob, IsPendingAt
        <2>2. /\ Keeps(jobs[id], noteMissingHandlerRow(jobs[id], now, horizonMs))
              /\ noteMissingHandlerRow(jobs[id], now, horizonMs).status \in {"pending", "failed"}
            BY <1>0, <2>1, PresentRow, NoteMissKeeps
        <2>3. QED
            BY <1>5, <2>2, NoteMissInv DEF noteMissingHandler
    <1>6. ASSUME NEW at, NEW S \in SUBSET TerminalBefore(at), deleteTerminal(S)
          PROVE  IInv'
        BY <1>6, DeleteTerminalInv DEF TerminalBefore
    <1>7. ASSUME close
          PROVE  IInv'
        BY <1>7, StoreAssumption
           DEF close, IInv, TypeOK, KeyIndexNamesActive, RowsFitStatus, Exists
    <1>8. ASSUME Tick
          PROVE  IInv'
        <2>1. RowsKept /\ RestTyped
            BY <1>8 DEF Tick, RowsKept, RestTyped, IInv, TypeOK, Time
        <2>2. QED
            BY <2>1, RowsKeptInv
    <1>9. QED
        <2>1. evictTerminal => IInv'
            BY <1>6 DEF evictTerminal
        <2>2. \A at \in Instants : \A S \in SUBSET TerminalBefore(at) :
                 pruneTerminal(at, S) => IInv'
            BY <1>6 DEF pruneTerminal
        <2>3. QED
            BY <1>0, <1>1, <1>2, <1>3, <1>4, <1>5, <1>7, <1>8, <2>1, <2>2
               DEF MaintenanceStep

-----------------------------------------------------------------------------
(* The theorems. *)

\* The inductive invariant holds in every reachable state of the store.
THEOREM Invariance == Spec => []IInv
    <1>1. Init => IInv
        BY StoreAssumption
           DEF Init, IInv, TypeOK, KeyIndexNamesActive, RowsFitStatus, Exists, Time
    <1>2. IInv /\ [Next]_vars => IInv'
        <2>1. IInv /\ UNCHANGED vars => IInv'
            BY DEF vars, IInv, TypeOK, KeyIndexNamesActive, RowsFitStatus, Exists
        <2>2. QED
            BY <2>1, ClientStepInv, ClaimStepInv, MaintenanceStepInv DEF Next
    <1>3. QED
        BY <1>1, <1>2, PTL DEF Spec

\* Variables keep their types.
THEOREM TypeCorrect == Spec => []TypeOK
    BY Invariance, PTL DEF IInv

\* The index always names every active row, so the conflict checks see them.
THEOREM IndexComplete == Spec => []KeyIndexNamesActive
    BY Invariance, PTL DEF IInv

\* Each stored row's fields fit its status.
THEOREM RowsConsistent == Spec => []RowsFitStatus
    BY Invariance, PTL DEF IInv

\* docs/invariants.md section 2: every (handler, key) pair has at most one
\* active row, whatever the callers do and hold.
THEOREM OneActivePerSlot == Spec => []AtMostOneActive
    <1>1. IInv => AtMostOneActive
        BY DEF IInv, KeyIndexNamesActive, AtMostOneActive
    <1>2. QED
        BY <1>1, Invariance, PTL

-----------------------------------------------------------------------------
(***************************************************************************)
(* What no step of the store does to a row that stays in it: take its      *)
(* version back, revive it or move its window without a new version, or    *)
(* change the status of a completed or cancelled one.                      *)
(*                                                                         *)
(* createJob writes a row under an id that was never issued; that such an  *)
(* id has no row (OnlyIssued) is not part of IInv and is proved here too.  *)
(***************************************************************************)
\* What a write of an existing row may do to its version, window and status.
Grows(old, new) ==
    /\ old.version \in Nat /\ new.version \in Nat
    /\ new.version >= old.version
    /\ old.status = "failed" /\ new.status = "pending" => new.version > old.version
    /\ old.lastAt # new.lastAt => new.version > old.version
    /\ old.status \in {"completed", "cancelled"} => new.status = old.status

\* Only ids that were issued have rows.
OnlyIssued == \A id \in JobId : Exists(id) => id \in issued

\* What a step does to the history: a row it leaves behind either was there and
\* grew, or is the first of its id.
HistoryKept ==
    /\ issued \subseteq issued'
    /\ \A id \in JobId :
          Exists(id)' => \/ Exists(id) /\ Grows(jobs[id], jobs'[id])
                         \/ id \notin issued /\ id \in issued'

\* A row that no write touches.
LEMMA Unchanged ==
    ASSUME NEW job \in Job
    PROVE  Grows(job, job)
    BY DEF Grows, Job

\* The updates of clients.
LEMMA ClientRowsGrow ==
    ASSUME NEW job \in Job
    PROVE  /\ \A at : CanCancelJob(job) => Grows(job, cancelJobRow(job, at))
           /\ \A at, n : CanReplaceJob(job) => Grows(job, replaceJobRow(job, at, n))
           /\ \A at : Grows(job, updateScheduledForRow(job, at))
           /\ \A ref : Grows(job, updateSchedulerRefRow(job, ref))
           /\ \A at : IsActive(job) => Grows(job, updatePatternEventRow(job, at))
           /\ \A at : CanResetJob(job) => Grows(job, resetJobRow(job, at))
    <1>1. \A at : CanCancelJob(job) => Grows(job, cancelJobRow(job, at))
        BY DEF Grows, Job, CanCancelJob, cancelJobRow, resetDeferFields
    <1>2. \A at, n : CanReplaceJob(job) => Grows(job, replaceJobRow(job, at, n))
        BY DEF Grows, Job, CanReplaceJob, replaceJobRow, resetDeferFields
    <1>3. /\ \A at : Grows(job, updateScheduledForRow(job, at))
          /\ \A ref : Grows(job, updateSchedulerRefRow(job, ref))
        BY DEF Grows, Job, updateScheduledForRow, updateSchedulerRefRow
    <1>4. \A at : IsActive(job) => Grows(job, updatePatternEventRow(job, at))
        BY DEF Grows, Job, IsActive, ACTIVE_STATUSES, updatePatternEventRow
    <1>5. \A at : CanResetJob(job) => Grows(job, resetJobRow(job, at))
        BY DEF Grows, Job, CanResetJob, resetJobRow, rescheduleJobRow, retryJobRow,
           resetDeferFields
    <1>6. QED
        BY <1>1, <1>2, <1>3, <1>4, <1>5

\* The updates of an execution and of the recovery.
LEMMA ClaimRowsGrow ==
    ASSUME NEW job \in Job
    PROVE  /\ \A at : job.status = "pending" => Grows(job, markRunningRow(job, at))
           /\ \A at : job.status = "running" => Grows(job, markCompletedRow(job, at))
           /\ \A at, reason : job.status = "running" => Grows(job, markFailedRow(job, reason, at))
           /\ \A at, n : job.status = "running" => Grows(job, retryJobRow(job, n, at))
           /\ \A at : job.status = "running" => Grows(job, rescheduleJobRow(job, at))
           /\ job.status = "pending" => Grows(job, rescheduleDueAtRow(job))
           /\ job.status = "running" => Grows(job, requeueForNextWindowRow(job))
           /\ job.status = "running" => Grows(job, reclaimRow(job))
           /\ \A at : job.status = "pending" => Grows(job, claimDueRow(job, at))
    <1>1. \A at : job.status = "pending" => Grows(job, markRunningRow(job, at))
        BY DEF Grows, Job, markRunningRow, resetDeferFields
    <1>2. \A at : job.status = "running" => Grows(job, markCompletedRow(job, at))
        BY DEF Grows, Job, markCompletedRow, resetDeferFields
    <1>3. \A at, reason : job.status = "running" => Grows(job, markFailedRow(job, reason, at))
        BY DEF Grows, Job, markFailedRow, resetDeferFields
    <1>4. \A at, n : job.status = "running" => Grows(job, retryJobRow(job, n, at))
        BY DEF Grows, Job, retryJobRow, resetDeferFields
    <1>5. \A at : job.status = "running" => Grows(job, rescheduleJobRow(job, at))
        BY DEF Grows, Job, rescheduleJobRow, retryJobRow, resetDeferFields
    <1>6. job.status = "pending" => Grows(job, rescheduleDueAtRow(job))
        BY DEF Grows, Job, rescheduleDueAtRow
    <1>7. job.status = "running" => Grows(job, requeueForNextWindowRow(job))
        BY DEF Grows, Job, requeueForNextWindowRow, retryJobRow, resetDeferFields
    <1>8. job.status = "running" => Grows(job, reclaimRow(job))
        <2>1. CASE VersionAdvanced(job)
            BY <1>7, <2>1 DEF reclaimRow
        <2>2. CASE ~ VersionAdvanced(job)
            BY <2>2 DEF Grows, Job, reclaimRow, resetDeferFields
        <2>3. QED
            BY <2>1, <2>2
    <1>9. \A at : job.status = "pending" => Grows(job, claimDueRow(job, at))
        BY <1>1, <1>6 DEF claimDueRow
    <1>10. QED
        BY <1>1, <1>2, <1>3, <1>4, <1>5, <1>6, <1>7, <1>8, <1>9

\* A miss, whether or not the horizon fails the row.
LEMMA MissGrows ==
    ASSUME NEW job \in Job, job.status = "pending", NEW at, NEW when, NEW horizon
    PROVE  /\ Grows(job, noteMissingHandlerRow(job, at, horizon))
           /\ Grows(job, deferJobRow(job, when, at, horizon))
    <1>1. Grows(job, noteMissingHandlerRow(job, at, horizon))
        BY DEF Grows, Job, noteMissingHandlerRow
    <1>2. Grows(job, deferJobRow(job, when, at, horizon))
        BY DEF Grows, Job, noteMissingHandlerRow, deferJobRow
    <1>3. QED
        BY <1>1, <1>2

-----------------------------------------------------------------------------
(* The ways a step writes rows. *)

\* One row is written and grows.
LEMMA RowGrown ==
    ASSUME IInv, NEW id \in JobId, NEW row, Exists(id), Grows(jobs[id], row), SetRow(id, row)
    PROVE  HistoryKept
    <1>1. \A other \in JobId : Exists(other) => Grows(jobs[other], jobs[other])
        BY PresentRow, Unchanged
    <1>2. QED
        BY <1>1 DEF IInv, TypeOK, HistoryKept, SetRow, Exists

\* The rows of a set are written and grow.
LEMMA RowsGrown ==
    ASSUME IInv, NEW S \in SUBSET JobId,
           \A id \in S : Exists(id) /\ Grows(jobs[id], jobs'[id]),
           \A id \in JobId \ S : jobs'[id] = jobs[id],
           issued' = issued
    PROVE  HistoryKept
    <1>1. \A other \in JobId : Exists(other) => Grows(jobs[other], jobs[other])
        BY PresentRow, Unchanged
    <1>2. QED
        BY <1>1 DEF HistoryKept, Exists

\* Rows are dropped, and no other row is touched.
LEMMA RowsDropped ==
    ASSUME IInv, \A id \in JobId : Exists(id)' => jobs'[id] = jobs[id], issued' = issued
    PROVE  HistoryKept
    <1>1. \A id \in JobId : Exists(id) => Grows(jobs[id], jobs[id])
        BY PresentRow, Unchanged
    <1>2. QED
        BY <1>1 DEF HistoryKept, Exists

-----------------------------------------------------------------------------
(* The actions, one lemma per group of Next. *)

\* Client operations.
LEMMA ClientStepHistory ==
    ASSUME IInv, OnlyIssued, ClientStep
    PROVE  HistoryKept
    <1>1. ASSUME NEW id \in JobId, NEW job, createJob(id, job)
          PROVE  HistoryKept
        <2>1. \A other \in JobId : Exists(other) => Grows(jobs[other], jobs[other])
            BY PresentRow, Unchanged
        <2>2. \A other \in JobId : other # id => jobs'[other] = jobs[other]
            BY <1>1 DEF createJob, IInv, TypeOK
        <2>3. id \notin issued /\ issued' = issued \cup {id}
            BY <1>1 DEF createJob
        <2>4. QED
            BY <2>1, <2>2, <2>3 DEF HistoryKept, Exists
    <1>2. ASSUME NEW slot \in Handler \X Key, getActiveJobByKey(slot)
          PROVE  HistoryKept
        BY <1>2, RowsDropped DEF getActiveJobByKey
    <1>3. ASSUME NEW slot \in Handler \X Key, NEW kind, NEW wait, NEW maxWait, NEW at,
                 updatePatternEvent(slot, kind, wait, maxWait, at)
          PROVE  HistoryKept
        <2> DEFINE id == keyIndex[slot]
        <2>1. id \in JobId /\ Exists(id) /\ IsActive(jobs[id])
            BY <1>3 DEF updatePatternEvent, CanUpdatePatternEvent, IInv, TypeOK
        <2>2. SetRow(id, updatePatternEventRow(jobs[id], at))
            BY <1>3 DEF updatePatternEvent, Write
        <2> HIDE DEF id
        <2>3. Grows(jobs[id], updatePatternEventRow(jobs[id], at))
            BY <2>1, PresentRow, ClientRowsGrow
        <2>4. QED
            BY <2>1, <2>2, <2>3, RowGrown
    <1>4. ASSUME NEW id \in JobId, cancelJob(id)
          PROVE  HistoryKept
        BY <1>4, PresentRow, ClientRowsGrow, RowGrown DEF cancelJob, WriteAndRelease
    <1>5. ASSUME NEW id \in JobId, NEW at, NEW n, replaceJob(id, at, n)
          PROVE  HistoryKept
        BY <1>5, PresentRow, ClientRowsGrow, RowGrown DEF replaceJob, Write
    <1>6. ASSUME NEW id \in JobId, NEW v, NEW r, updateSchedulerRef(id, v, r)
          PROVE  HistoryKept
        BY <1>6, PresentRow, ClientRowsGrow, RowGrown DEF updateSchedulerRef, Write
    <1>7. ASSUME NEW id \in JobId, NEW at, resetJob(id, at)
          PROVE  HistoryKept
        BY <1>7, PresentRow, ClientRowsGrow, RowGrown DEF resetJob, WriteAndHold
    <1>8. ASSUME NEW id \in JobId, deleteJob(id)
          PROVE  HistoryKept
        <2>1. \A other \in JobId : Exists(other)' => jobs'[other] = jobs[other]
            BY <1>8 DEF deleteJob, Exists, IInv, TypeOK
        <2>2. QED
            BY <1>8, <2>1, RowsDropped DEF deleteJob
    <1>9. QED
        BY <1>1, <1>2, <1>3, <1>4, <1>5, <1>6, <1>7, <1>8 DEF ClientStep, resetJobAt

\* Claims and their outcomes.
LEMMA ClaimStepHistory ==
    ASSUME IInv, ClaimStep
    PROVE  HistoryKept
    <1>1. ASSUME NEW names \in SUBSET Handler, NEW budget \in 1 .. Cardinality(JobId),
                 NEW S \in OldestDue(names, budget), claimDueJobs(S)
          PROVE  HistoryKept
        <2>1. S \in SUBSET JobId /\ \A id \in S : Exists(id) /\ jobs[id].status = "pending"
            BY <1>1 DEF OldestDue, DueRows, IsDue
        <2>2. \A id \in JobId :
                 jobs'[id] = IF id \in S THEN claimDueRow(jobs[id], now) ELSE jobs[id]
            BY <1>1 DEF claimDueJobs, UpdateRows
        <2>3. issued' = issued
            BY <1>1 DEF claimDueJobs, UpdateRows
        <2>4. \A id \in S : Grows(jobs[id], claimDueRow(jobs[id], now))
            BY <2>1, PresentRow, ClaimRowsGrow
        <2>5. QED
            BY <2>1, <2>2, <2>3, <2>4, RowsGrown
    <1>2. ASSUME NEW id \in JobId, NEW v, markRunning(id, v)
          PROVE  HistoryKept
        BY <1>2, PresentRow, ClaimRowsGrow, RowGrown
           DEF markRunning, CanMarkRunning, IsPendingAt, Write
    <1>3. ASSUME NEW id \in JobId, NEW v, markCompleted(id, v)
          PROVE  HistoryKept
        BY <1>3, PresentRow, ClaimRowsGrow, RowGrown
           DEF markCompleted, CanMarkCompleted, IsRunningAt, WriteAndRelease
    <1>4. ASSUME NEW id \in JobId, NEW v, NEW reason, markFailed(id, v, reason)
          PROVE  HistoryKept
        BY <1>4, PresentRow, ClaimRowsGrow, RowGrown
           DEF markFailed, CanMarkFailed, IsRunningAt, WriteAndRelease
    <1>5. ASSUME NEW id \in JobId, NEW v, NEW n, NEW at, retryJob(id, v, n, at)
          PROVE  HistoryKept
        BY <1>5, PresentRow, ClaimRowsGrow, RowGrown
           DEF retryJob, CanRetryJob, IsRunningAt, Write
    <1>6. ASSUME NEW id \in JobId, NEW v, NEW at, rescheduleJob(id, v, at)
          PROVE  HistoryKept
        BY <1>6, PresentRow, ClaimRowsGrow, RowGrown
           DEF rescheduleJob, CanRescheduleJob, IsRunningAt, Write
    <1>7. ASSUME NEW id \in JobId, NEW v, rescheduleDueAt(id, v)
          PROVE  HistoryKept
        BY <1>7, PresentRow, ClaimRowsGrow, RowGrown
           DEF rescheduleDueAt, CanRescheduleDueAt, IsPendingAt, Write
    <1>8. ASSUME NEW id \in JobId, requeueForNextWindow(id)
          PROVE  HistoryKept
        BY <1>8, PresentRow, ClaimRowsGrow, RowGrown
           DEF requeueForNextWindow, CanRequeueForNextWindow, Write
    <1>9. QED
        BY <1>1, <1>2, <1>3, <1>4, <1>5, <1>6, <1>7, <1>8 DEF ClaimStep

\* Recovery, missing handlers, retention and the clock.
LEMMA MaintenanceStepHistory ==
    ASSUME IInv, MaintenanceStep
    PROVE  HistoryKept
    <1>1. ASSUME NEW id \in JobId, reclaimStalled(id)
          PROVE  HistoryKept
        BY <1>1, PresentRow, ClaimRowsGrow, RowGrown
           DEF reclaimStalled, StalledRows, IsStalled, Write
    <1>2. ASSUME reclaimStalledJobs
          PROVE  HistoryKept
        <2>1. /\ StalledRows \in SUBSET JobId
              /\ \A id \in StalledRows : Exists(id) /\ jobs[id].status = "running"
            BY DEF StalledRows, IsStalled
        <2>2. \A id \in JobId :
                 jobs'[id] = IF id \in StalledRows THEN reclaimRow(jobs[id]) ELSE jobs[id]
            BY <1>2 DEF reclaimStalledJobs, UpdateRows
        <2>3. issued' = issued
            BY <1>2 DEF reclaimStalledJobs, UpdateRows
        <2>4. \A id \in StalledRows : Grows(jobs[id], reclaimRow(jobs[id]))
            BY <2>1, PresentRow, ClaimRowsGrow
        <2>5. QED
            BY <2>1, <2>2, <2>3, <2>4, RowsGrown
    <1>3. ASSUME NEW id \in JobId, NEW at, updateScheduledFor(id, at)
          PROVE  HistoryKept
        BY <1>3, PresentRow, ClientRowsGrow, RowGrown DEF updateScheduledFor, Write
    <1>4. ASSUME NEW id \in JobId, NEW v, NEW row, NoteMiss(id, v, row),
                 jobs[id] \in Job /\ jobs[id].status = "pending" => Grows(jobs[id], row)
          PROVE  HistoryKept
        <2>1. Exists(id) /\ jobs[id].status = "pending" /\ SetRow(id, row)
            BY <1>4 DEF NoteMiss, CanDeferJob, IsPendingAt, Write, WriteAndRelease
        <2>2. QED
            BY <1>4, <2>1, PresentRow, RowGrown
    <1>5. ASSUME NEW id \in JobId, NEW v, NEW at, deferJob(id, v, at)
          PROVE  HistoryKept
        BY <1>4, <1>5, MissGrows DEF deferJob
    <1>6. ASSUME NEW id \in JobId, NEW v, noteMissingHandler(id, v)
          PROVE  HistoryKept
        BY <1>4, <1>6, MissGrows DEF noteMissingHandler
    <1>7. ASSUME NEW S, deleteTerminal(S)
          PROVE  HistoryKept
        <2>1. \A id \in JobId : Exists(id)' => jobs'[id] = jobs[id]
            BY <1>7 DEF deleteTerminal, Exists
        <2>2. QED
            BY <1>7, <2>1, RowsDropped DEF deleteTerminal
    <1>8. ASSUME close
          PROVE  HistoryKept
        <2>1. \A id \in JobId : Exists(id)' => jobs'[id] = jobs[id]
            BY <1>8 DEF close, Exists
        <2>2. QED
            BY <1>8, <2>1, RowsDropped DEF close
    <1>9. ASSUME Tick
          PROVE  HistoryKept
        BY <1>9, RowsDropped DEF Tick
    <1>10. QED
        BY <1>1, <1>2, <1>3, <1>5, <1>6, <1>7, <1>8, <1>9
           DEF MaintenanceStep, evictTerminal, pruneTerminal

-----------------------------------------------------------------------------
(* The theorems. *)

\* Every step keeps the history of the rows, and no id has a row before it is
\* issued.
LEMMA StepKeepsHistory ==
    ASSUME IInv, OnlyIssued, [Next]_vars
    PROVE  HistoryKept /\ OnlyIssued'
    <1>1. CASE Next
        <2>1. HistoryKept
            BY <1>1, ClientStepHistory, ClaimStepHistory, MaintenanceStepHistory DEF Next
        <2>2. QED
            BY <2>1 DEF HistoryKept, OnlyIssued, Exists
    <1>2. CASE UNCHANGED vars
        <2>1. HistoryKept
            BY <1>2, RowsDropped DEF vars
        <2>2. QED
            BY <1>2, <2>1 DEF vars, OnlyIssued, Exists
    <1>3. QED
        BY <1>1, <1>2

\* No row of an id that was never issued: ids are not reused, so a handle kept
\* from a deleted row names nothing.
THEOREM RowsAreIssued == Spec => []OnlyIssued
    <1>1. Init => OnlyIssued
        BY DEF Init, OnlyIssued, Exists
    <1>2. QED
        BY <1>1, StepKeepsHistory, Invariance, PTL DEF Spec

\* A reader that saw a row before an event of its window or before its revival
\* loses its compare-and-set: both take a new version, and no step takes one back.
THEOREM VersionsOnlyGrow == Spec => VersionsGuardReaders
    <1> DEFINE Step ==
            \A id \in JobId : Exists(id) /\ Exists(id)' =>
                /\ jobs'[id].version >= jobs[id].version
                /\ jobs[id].status = "failed" /\ jobs'[id].status = "pending" =>
                      jobs'[id].version > jobs[id].version
                /\ jobs[id].lastAt # jobs'[id].lastAt => jobs'[id].version > jobs[id].version
    <1>1. IInv /\ OnlyIssued /\ [Next]_vars => Step
        BY StepKeepsHistory DEF HistoryKept, OnlyIssued, Grows
    <1>2. QED
        BY <1>1, RowsAreIssued, Invariance, PTL DEF Spec, VersionsGuardReaders

\* A completed or cancelled row keeps its status until it is deleted, whatever
\* its callers hold.
THEOREM OutcomesAreFinal == Spec => CompletedIsFinal
    <1> DEFINE Step ==
            \A id \in JobId : Exists(id) /\ jobs[id].status \in {"completed", "cancelled"}
                /\ Exists(id)' => jobs'[id].status = jobs[id].status
    <1>1. IInv /\ OnlyIssued /\ [Next]_vars => Step
        BY StepKeepsHistory DEF HistoryKept, OnlyIssued, Grows
    <1>2. QED
        BY <1>1, RowsAreIssued, Invariance, PTL DEF Spec, CompletedIsFinal

-----------------------------------------------------------------------------
(***************************************************************************)
(* The store implements the table: every step of MemoryStore is a step of  *)
(* JobTable on the same rows, or leaves the rows alone.                    *)
(*                                                                         *)
(* The table's unique index looks at the rows and the in-memory conflict   *)
(* check at its key index, so the step of an insert or a reset needs the   *)
(* index to name every active row (KeyIndexNamesActive); that a row with a *)
(* wait has a window is RowsFitStatus.                                     *)
(***************************************************************************)
\* The row operations that JobTable is built from are those of MemoryStore.
LEMMA SameRows ==
    /\ \A job : Table!IsActive(job) = IsActive(job) /\ Table!IsPattern(job) = IsPattern(job)
    /\ \A job, at : Table!cancelJobRow(job, at) = cancelJobRow(job, at)
    /\ \A job, at, n : Table!replaceJobRow(job, at, n) = replaceJobRow(job, at, n)
    /\ \A job, at : Table!updateScheduledForRow(job, at) = updateScheduledForRow(job, at)
    /\ \A job, ref : Table!updateSchedulerRefRow(job, ref) = updateSchedulerRefRow(job, ref)
    /\ \A job, at : Table!updatePatternEventRow(job, at) = updatePatternEventRow(job, at)
    /\ \A job, at : Table!markRunningRow(job, at) = markRunningRow(job, at)
    /\ \A job, at : Table!markCompletedRow(job, at) = markCompletedRow(job, at)
    /\ \A job, reason, at :
          Table!markFailedRow(job, reason, at) = markFailedRow(job, reason, at)
    /\ \A job, n, at : Table!retryJobRow(job, n, at) = retryJobRow(job, n, at)
    /\ \A job, at : Table!rescheduleJobRow(job, at) = rescheduleJobRow(job, at)
    /\ \A job, at : Table!resetJobRow(job, at) = resetJobRow(job, at)
    /\ \A job : Table!rescheduleDueAtRow(job) = rescheduleDueAtRow(job)
    /\ \A job : Table!requeueForNextWindowRow(job) = requeueForNextWindowRow(job)
    /\ \A job : Table!reclaimRow(job) = reclaimRow(job)
    /\ \A job, at : Table!claimDueRow(job, at) = claimDueRow(job, at)
    /\ \A job, at, n :
          Table!noteMissingHandlerRow(job, at, n) = noteMissingHandlerRow(job, at, n)
    /\ \A job, when, at, n :
          Table!deferJobRow(job, when, at, n) = deferJobRow(job, when, at, n)
    <1>1. \A job : Table!IsActive(job) = IsActive(job) /\ Table!IsPattern(job) = IsPattern(job)
        BY DEF Table!IsActive, IsActive, Table!ACTIVE_STATUSES, ACTIVE_STATUSES,
               Table!IsPattern, IsPattern
    <1>2. \A job : Table!resetDeferFields(job) = resetDeferFields(job)
        BY DEF Table!resetDeferFields, resetDeferFields
    <1>3. \A job : Table!computePatternDueAt(job) = computePatternDueAt(job)
        <2>1. \A a, b : Table!Least(a, b) = Least(a, b)
            BY DEF Table!Least, Least
        <2>2. \A job : Table!computeDebounceSettlesAt(job) = computeDebounceSettlesAt(job)
            BY <2>1 DEF Table!computeDebounceSettlesAt, computeDebounceSettlesAt
        <2>3. QED
            BY <2>2 DEF Table!computePatternDueAt, computePatternDueAt
    <1>4. \A job, at : Table!cancelJobRow(job, at) = cancelJobRow(job, at)
        BY <1>2 DEF Table!cancelJobRow, cancelJobRow
    <1>5. \A job, at, n : Table!replaceJobRow(job, at, n) = replaceJobRow(job, at, n)
        BY <1>2 DEF Table!replaceJobRow, replaceJobRow
    <1>6. /\ \A job, at : Table!updateScheduledForRow(job, at) = updateScheduledForRow(job, at)
          /\ \A job, ref : Table!updateSchedulerRefRow(job, ref) = updateSchedulerRefRow(job, ref)
          /\ \A job, at : Table!updatePatternEventRow(job, at) = updatePatternEventRow(job, at)
        BY DEF Table!updateScheduledForRow, updateScheduledForRow,
               Table!updateSchedulerRefRow, updateSchedulerRefRow,
               Table!updatePatternEventRow, updatePatternEventRow
    <1>7. \A job, at : Table!markRunningRow(job, at) = markRunningRow(job, at)
        BY <1>2 DEF Table!markRunningRow, markRunningRow
    <1>8. \A job, at : Table!markCompletedRow(job, at) = markCompletedRow(job, at)
        BY <1>2 DEF Table!markCompletedRow, markCompletedRow
    <1>9. \A job, reason, at :
             Table!markFailedRow(job, reason, at) = markFailedRow(job, reason, at)
        BY <1>2 DEF Table!markFailedRow, markFailedRow
    <1>10. \A job, n, at : Table!retryJobRow(job, n, at) = retryJobRow(job, n, at)
        BY <1>2 DEF Table!retryJobRow, retryJobRow
    <1>11. \A job, at : Table!rescheduleJobRow(job, at) = rescheduleJobRow(job, at)
        BY <1>10 DEF Table!rescheduleJobRow, rescheduleJobRow
    <1>12. \A job, at : Table!resetJobRow(job, at) = resetJobRow(job, at)
        BY <1>11 DEF Table!resetJobRow, resetJobRow
    <1>13. \A job : Table!rescheduleDueAtRow(job) = rescheduleDueAtRow(job)
        BY <1>3 DEF Table!rescheduleDueAtRow, rescheduleDueAtRow
    <1>14. \A job : Table!requeueForNextWindowRow(job) = requeueForNextWindowRow(job)
        BY <1>3, <1>10 DEF Table!requeueForNextWindowRow, requeueForNextWindowRow
    <1>15. \A job : Table!reclaimRow(job) = reclaimRow(job)
        <2>1. \A job : Table!VersionAdvanced(job) = VersionAdvanced(job)
            BY <1>1 DEF Table!VersionAdvanced, VersionAdvanced
        <2>2. QED
            BY <1>2, <1>14, <2>1 DEF Table!reclaimRow, reclaimRow
    <1>16. \A job, at : Table!claimDueRow(job, at) = claimDueRow(job, at)
        <2>1. \A job, at : Table!isDebounceSettled(job, at) = isDebounceSettled(job, at)
            BY DEF Table!isDebounceSettled, isDebounceSettled
        <2>2. QED
            BY <1>7, <1>13, <2>1 DEF Table!claimDueRow, claimDueRow
    <1>17. \A job, at, n :
              Table!noteMissingHandlerRow(job, at, n) = noteMissingHandlerRow(job, at, n)
        <2>1. \A job, at : Table!FirstDefer(job, at) = FirstDefer(job, at)
            BY DEF Table!FirstDefer, FirstDefer
        <2>2. QED
            BY <2>1 DEF Table!noteMissingHandlerRow, noteMissingHandlerRow
    <1>18. \A job, when, at, n :
              Table!deferJobRow(job, when, at, n) = deferJobRow(job, when, at, n)
        BY <1>17 DEF Table!deferJobRow, deferJobRow
    <1>19. QED
        BY <1>1, <1>4, <1>5, <1>6, <1>7, <1>8, <1>9, <1>10, <1>11, <1>12, <1>13,
           <1>14, <1>15, <1>16, <1>17, <1>18

\* The rows createNewJob builds are rows of an INSERT.
LEMMA SameInserts ==
    ASSUME NEW job \in NewJobs, job.kind \in Kinds
    PROVE  job \in Table!InsertedRows
    <1>1. \A kind, at, wait, maxWait :
             Table!NewWindow(kind, at, wait, maxWait) = NewWindow(kind, at, wait, maxWait)
        BY DEF Table!NewWindow, NewWindow
    <1>2. \A h, k, at, n, ref, window :
             Table!NewJob(h, k, at, n, ref, window) = NewJob(h, k, at, n, ref, window)
        BY DEF Table!NewJob, NewJob
    <1>3. \A h, k, at, n, ref :
             Table!NewOnceJob(h, k, at, n, ref) = NewOnceJob(h, k, at, n, ref)
        BY <1>2 DEF Table!NewOnceJob, NewOnceJob, Table!NoWindow, NoWindow
    <1>4. \A window : Table!computePatternDueAt(window) = computePatternDueAt(window)
        BY DEF Table!computePatternDueAt, computePatternDueAt, Table!Least, Least,
               Table!computeDebounceSettlesAt, computeDebounceSettlesAt
    <1>5. \A h, k, n, ref, window :
             Table!NewPatternJob(h, k, n, ref, window) = NewPatternJob(h, k, n, ref, window)
        BY <1>2, <1>4 DEF Table!NewPatternJob, NewPatternJob
    <1>6. Table!NewWindows =
             {NewWindow("throttle", at, wait, None) : at \in 0 .. now, wait \in Waits}
             \cup {NewWindow("debounce", at, wait, maxWait) :
                      at \in 0 .. now, wait \in Waits, maxWait \in MaxWaits \cup {None}}
        BY <1>1 DEF Table!NewWindows
    <1>7. CASE \E h \in Handler, k \in Key, at \in Instants, n \in Attempts,
                  ref \in Ref \cup {None} : job = NewOnceJob(h, k, at, n, ref)
        BY <1>3, <1>7 DEF Table!InsertedRows, Instants, Table!Instants
    <1>8. CASE \E h \in Handler, k \in Key, n \in Attempts, ref \in Ref \cup {None},
                  window \in Table!NewWindows : job = NewPatternJob(h, k, n, ref, window)
        BY <1>5, <1>8 DEF Table!InsertedRows
    <1>9. QED
        BY <1>6, <1>7, <1>8 DEF NewJobs

-----------------------------------------------------------------------------
(* What a step of the store is for the table. *)

TableStep == Table!TableNext \/ UNCHANGED Table!tableVars

\* However the index is treated, one row is written.
LEMMA RowWritten ==
    ASSUME NEW id, NEW row,
           Write(id, row) \/ WriteAndRelease(id, row) \/ WriteAndHold(id, row)
    PROVE  Table!Update(id, row)
    BY DEF Write, WriteAndRelease, WriteAndHold, SetRow, Table!Update

\* A method of one row is a step of the table.
LEMMA RowUpdated ==
    ASSUME NEW id \in JobId, Exists(id), Table!RowUpdate(id)
    PROVE  TableStep
    BY DEF TableStep, Table!TableNext, Table!Present, Exists

\* A complete index that names nobody active for a slot means a free slot.
LEMMA FreeSlot ==
    ASSUME IInv, NEW job, NEW id, ~ HeldByOther(Slot(job), id)
    PROVE  Table!SlotFree(job, id)
    <1> SUFFICES ASSUME NEW other \in JobId \ {id}, Exists(other), IsActive(jobs[other]),
                        Slot(jobs[other]) = Slot(job)
                 PROVE  FALSE
        BY SameRows DEF Table!SlotFree, Table!Present, Table!SlotOf, Exists, Slot
    <1>1. keyIndex[Slot(job)] = other
        BY DEF IInv, KeyIndexNamesActive
    <1>2. other # None
        BY StoreAssumption
    <1>3. QED
        BY <1>1, <1>2 DEF HeldByOther

\* Client operations.
LEMMA ClientStepRefines ==
    ASSUME IInv, ClientStep
    PROVE  TableStep
    <1>1. ASSUME NEW id \in JobId, NEW job \in NewJobs, job.kind \in Kinds, createJob(id, job)
          PROVE  TableStep
        <2>1. id \in JobId \ issued /\ job \in Table!InsertedRows
            BY <1>1, SameInserts DEF createJob
        <2>2. Table!createJob(id, job)
            BY <1>1, FreeSlot DEF createJob, Table!createJob
        <2>3. QED
            BY <2>1, <2>2 DEF TableStep, Table!TableNext
    <1>2. ASSUME NEW slot \in Handler \X Key, getActiveJobByKey(slot)
          PROVE  TableStep
        BY <1>2 DEF getActiveJobByKey, TableStep, Table!tableVars
    <1>3. ASSUME NEW slot \in Handler \X Key, NEW kind \in Kinds \ {"once"},
                 NEW wait \in Waits, NEW maxWait \in MaxWaits \cup {None},
                 NEW at \in 0 .. now,
                 updatePatternEvent(slot, kind, wait, maxWait, at)
          PROVE  TableStep
        <2> DEFINE id == keyIndex[slot]
        <2>1. id \in JobId /\ Exists(id)
            BY <1>3 DEF updatePatternEvent, IInv, TypeOK
        <2>2. Table!Update(id, updatePatternEventRow(jobs[id], at))
            BY <1>3, RowWritten DEF updatePatternEvent
        <2>3. Table!CanUpdatePatternEvent(jobs[id], kind, wait, maxWait)
            BY <1>3, SameRows
               DEF updatePatternEvent, CanUpdatePatternEvent, Table!CanUpdatePatternEvent
        <2>4. Table!updatePatternEvent(id, kind, wait, maxWait, at)
            BY <2>2, <2>3, SameRows DEF Table!updatePatternEvent
        <2> HIDE DEF id
        <2>5. QED
            BY <2>1, <2>4, RowUpdated DEF Table!RowUpdate, Table!ClientUpdate
    <1>4. ASSUME NEW id \in JobId, cancelJob(id)
          PROVE  TableStep
        <2>1. Table!Update(id, cancelJobRow(jobs[id], now))
            BY <1>4, RowWritten DEF cancelJob
        <2>2. Table!cancelJob(id)
            BY <1>4, <2>1, SameRows
               DEF cancelJob, CanCancelJob, Table!cancelJob, Table!CanCancelJob
        <2>3. QED
            BY <1>4, <2>2, RowUpdated DEF cancelJob, Table!RowUpdate, Table!ClientUpdate
    <1>5. ASSUME NEW id \in JobId, NEW at \in Instants, NEW n \in Attempts,
                 replaceJob(id, at, n)
          PROVE  TableStep
        <2>1. Table!Update(id, replaceJobRow(jobs[id], at, n))
            BY <1>5, RowWritten DEF replaceJob
        <2>2. Table!replaceJob(id, at, n)
            BY <1>5, <2>1, SameRows
               DEF replaceJob, CanReplaceJob, Table!replaceJob, Table!CanReplaceJob
        <2>3. QED
            BY <1>5, <2>2, RowUpdated DEF replaceJob, Table!RowUpdate, Table!ClientUpdate,
               Instants, Table!Instants
    <1>6. ASSUME NEW id \in JobId, NEW v, NEW r \in Ref, updateSchedulerRef(id, v, r)
          PROVE  TableStep
        <2>1. Table!Update(id, updateSchedulerRefRow(jobs[id], r))
            BY <1>6, RowWritten DEF updateSchedulerRef
        <2>2. Table!updateSchedulerRef(id, r)
            BY <2>1, SameRows DEF Table!updateSchedulerRef
        <2>3. QED
            BY <1>6, <2>2, RowUpdated DEF updateSchedulerRef, Table!RowUpdate, Table!ClientUpdate
    <1>7. ASSUME NEW id \in JobId, NEW at \in Instants \cup {now}, resetJob(id, at)
          PROVE  TableStep
        <2>1. Table!Update(id, resetJobRow(jobs[id], at))
            BY <1>7, RowWritten DEF resetJob
        <2>2. Table!SlotFree(jobs[id], id)
            BY <1>7, FreeSlot DEF resetJob
        <2>3. Table!resetJob(id, at)
            BY <1>7, <2>1, <2>2, SameRows
               DEF resetJob, CanResetJob, Table!resetJob, Table!CanResetJob
        <2>4. QED
            BY <1>7, <2>3, RowUpdated DEF resetJob, Table!RowUpdate, Table!ClientUpdate,
               Instants, Table!Instants
    <1>8. ASSUME NEW id \in JobId, deleteJob(id)
          PROVE  TableStep
        <2>1. Table!Delete({id})
            BY <1>8 DEF deleteJob, Table!Delete, IInv, TypeOK
        <2>2. QED
            BY <1>8, <2>1 DEF deleteJob, Exists, TableStep, Table!TableNext, Table!Present
    <1>9. QED
        BY <1>1, <1>2, <1>3, <1>4, <1>5, <1>6, <1>7, <1>8 DEF ClientStep, resetJobAt

\* Claims and their outcomes.
LEMMA ClaimStepRefines ==
    ASSUME IInv, ClaimStep
    PROVE  TableStep
    <1>1. ASSUME NEW names \in SUBSET Handler, NEW budget \in 1 .. Cardinality(JobId),
                 NEW S \in OldestDue(names, budget), S # {}, claimDueJobs(S)
          PROVE  TableStep
        <2>1. Table!DueRows(names) = DueRows(names)
            BY DEF Table!DueRows, DueRows, Table!Present, Exists, Table!IsDue, IsDue
        <2>2. S \in SUBSET JobId /\ S \subseteq DueRows(names)
            BY <1>1 DEF OldestDue, DueRows
        <2>3. Table!UpdateAll(S, [id \in S |-> Table!claimDueRow(jobs[id], now)])
            <3>1. jobs' = [id \in JobId |->
                             IF id \in S THEN claimDueRow(jobs[id], now) ELSE jobs[id]]
                BY <1>1 DEF claimDueJobs, UpdateRows
            <3>2. \A id \in JobId :
                     (IF id \in S THEN claimDueRow(jobs[id], now) ELSE jobs[id])
                     = (IF id \in S THEN [i \in S |-> Table!claimDueRow(jobs[i], now)][id]
                        ELSE jobs[id])
                BY SameRows
            <3>3. UNCHANGED <<issued, now>>
                BY <1>1 DEF claimDueJobs, UpdateRows
            <3>4. QED
                BY <3>1, <3>2, <3>3 DEF Table!UpdateAll
        <2>4. \A id \in S, other \in DueRows(names) \ S :
                 jobs[id].scheduledFor <= jobs[other].scheduledFor
            BY <1>1 DEF OldestDue
        <2>5. Table!claimDueJobs(S, names)
            BY <2>1, <2>2, <2>3, <2>4 DEF Table!claimDueJobs
        <2>6. QED
            BY <2>2, <2>5 DEF TableStep, Table!TableNext
    <1>2. ASSUME NEW id \in JobId, NEW version, markRunning(id, version)
          PROVE  TableStep
        <2>1. Table!Update(id, markRunningRow(jobs[id], now))
            BY <1>2, RowWritten DEF markRunning
        <2>2. Table!markRunning(id)
            BY <1>2, <2>1, SameRows
               DEF markRunning,
                   CanMarkRunning, Table!CanMarkRunning, IsPendingAt, Table!IsPendingAt,
                   Table!markRunning
        <2>3. QED
            BY <1>2, <2>2, RowUpdated DEF markRunning, Table!RowUpdate, Table!ExecutionUpdate
    <1>3. ASSUME NEW id \in JobId, NEW version, markCompleted(id, version)
          PROVE  TableStep
        <2>1. Table!Update(id, markCompletedRow(jobs[id], now))
            BY <1>3, RowWritten DEF markCompleted
        <2>2. Table!markCompleted(id)
            BY <1>3, <2>1, SameRows
               DEF markCompleted,
                   CanMarkCompleted, Table!CanMarkCompleted, IsRunningAt, Table!IsRunningAt,
                   Table!markCompleted
        <2>3. QED
            BY <1>3, <2>2, RowUpdated DEF markCompleted, Table!RowUpdate, Table!ExecutionUpdate
    <1>4. ASSUME NEW id \in JobId, NEW version, NEW reason \in FailureReason, markFailed(id,
    version, reason)
          PROVE  TableStep
        <2>1. Table!Update(id, markFailedRow(jobs[id], reason, now))
            BY <1>4, RowWritten DEF markFailed
        <2>2. Table!markFailed(id, reason)
            BY <1>4, <2>1, SameRows
               DEF markFailed,
                   CanMarkFailed, Table!CanMarkFailed, IsRunningAt, Table!IsRunningAt,
                   Table!markFailed
        <2>3. QED
            BY <1>4, <2>2, RowUpdated DEF markFailed, Table!RowUpdate, Table!ExecutionUpdate,
               FailureReason, Table!FailureReason
    <1>5. ASSUME NEW id \in JobId, NEW version,
                 NEW n \in 1 .. MaxAttempt, NEW at \in Instants, retryJob(id, version, n, at)
          PROVE  TableStep
        <2>1. Table!Update(id, retryJobRow(jobs[id], n, at))
            BY <1>5, RowWritten DEF retryJob
        <2>2. Table!retryJob(id, n, at)
            BY <1>5, <2>1, SameRows
               DEF retryJob,
                   CanRetryJob, Table!CanRetryJob, IsRunningAt, Table!IsRunningAt, Table!retryJob
        <2>3. QED
            BY <1>5, <2>2, RowUpdated DEF retryJob, Table!RowUpdate, Table!ExecutionUpdate,
               Instants, Table!Instants
    <1>6. ASSUME NEW id \in JobId, NEW version, NEW at \in Instants, rescheduleJob(id, version, at)
          PROVE  TableStep
        <2>1. Table!Update(id, rescheduleJobRow(jobs[id], at))
            BY <1>6, RowWritten DEF rescheduleJob
        <2>2. Table!rescheduleJob(id, at)
            BY <1>6, <2>1, SameRows
               DEF rescheduleJob,
                   CanRescheduleJob, Table!CanRescheduleJob, IsRunningAt, Table!IsRunningAt,
                   Table!rescheduleJob
        <2>3. QED
            BY <1>6, <2>2, RowUpdated DEF rescheduleJob, Table!RowUpdate,
               Table!ExecutionUpdate, Instants, Table!Instants
    <1>7. ASSUME NEW id \in JobId, Exists(id), HasWindow(jobs[id])
          PROVE  Table!IsPattern(jobs[id])
        BY <1>7, PresentRow, SameRows DEF HasWindow, RowFits, WindowMatches
    <1>8. ASSUME NEW id \in JobId, NEW version, rescheduleDueAt(id, version)
          PROVE  TableStep
        <2>1. Table!Update(id, rescheduleDueAtRow(jobs[id]))
            BY <1>8, RowWritten DEF rescheduleDueAt
        <2>2. Table!rescheduleDueAt(id)
            BY <1>8, <2>1, SameRows, <1>7
               DEF rescheduleDueAt, CanRescheduleDueAt,
                   IsPendingAt, Table!IsPendingAt, Table!rescheduleDueAt
        <2>3. QED
            BY <1>8, <2>2, RowUpdated DEF rescheduleDueAt, Table!RowUpdate, Table!ExecutionUpdate
    <1>9. ASSUME NEW id \in JobId, requeueForNextWindow(id)
          PROVE  TableStep
        <2>1. Table!Update(id, requeueForNextWindowRow(jobs[id]))
            BY <1>9, RowWritten DEF requeueForNextWindow
        <2>2. Table!requeueForNextWindow(id)
            BY <1>9, <2>1, SameRows, <1>7
               DEF requeueForNextWindow, CanRequeueForNextWindow, Table!requeueForNextWindow
        <2>3. QED
            BY <1>9, <2>2, RowUpdated DEF requeueForNextWindow, Table!RowUpdate,
               Table!ExecutionUpdate
    <1>10. QED
        BY <1>1, <1>2, <1>3, <1>4, <1>5, <1>6, <1>8, <1>9 DEF ClaimStep

\* Recovery, missing handlers, retention.
LEMMA MaintenanceStepRefines ==
    ASSUME IInv, MaintenanceStep
    PROVE  TableStep
    <1>1. StalledRows = Table!StalledRows
        BY DEF StalledRows, Table!StalledRows, Exists, Table!Present, IsStalled, Table!IsStalled
    <1>2. ASSUME NEW id \in JobId, reclaimStalled(id)
          PROVE  TableStep
        <2>1. Table!Update(id, reclaimRow(jobs[id]))
            BY <1>2, RowWritten DEF reclaimStalled
        <2>2. Exists(id) /\ Table!reclaimStalled(id)
            BY <1>2, <2>1, SameRows DEF reclaimStalled, StalledRows, Table!reclaimStalled,
               IsStalled, Table!IsStalled
        <2>3. QED
            BY <2>2, RowUpdated DEF Table!RowUpdate, Table!RecoveryUpdate
    <1>3. ASSUME reclaimStalledJobs
          PROVE  TableStep
        <2>1. jobs' = [id \in JobId |->
                          IF id \in StalledRows THEN reclaimRow(jobs[id]) ELSE jobs[id]]
            BY <1>3 DEF reclaimStalledJobs, UpdateRows
        <2>2. \A id \in JobId :
                 (IF id \in StalledRows THEN reclaimRow(jobs[id]) ELSE jobs[id])
                 = (IF id \in StalledRows
                    THEN [i \in StalledRows |-> Table!reclaimRow(jobs[i])][id] ELSE jobs[id])
            BY SameRows
        <2>3. UNCHANGED <<issued, now>>
            BY <1>3 DEF reclaimStalledJobs, UpdateRows
        <2>4. Table!reclaimStalledJobs
            BY <1>1, <2>1, <2>2, <2>3 DEF Table!reclaimStalledJobs, Table!UpdateAll
        <2>5. QED
            BY <2>4 DEF TableStep, Table!TableNext
    <1>4. ASSUME NEW id \in JobId, NEW at \in Instants, updateScheduledFor(id, at)
          PROVE  TableStep
        <2>1. Table!Update(id, updateScheduledForRow(jobs[id], at))
            BY <1>4, RowWritten DEF updateScheduledFor
        <2>2. Table!updateScheduledFor(id, at)
            BY <2>1, SameRows DEF Table!updateScheduledFor
        <2>3. QED
            BY <1>4, <2>2, RowUpdated
               DEF updateScheduledFor, Table!RowUpdate, Table!ClientUpdate, Instants, Table!Instants
    <1>5. ASSUME NEW id \in JobId, NEW version, NEW row, NoteMiss(id, version, row)
          PROVE  /\ Exists(id)
                 /\ Table!CanDeferJob(jobs[id], jobs[id].version)
                 /\ Table!Update(id, row)
        BY <1>5, RowWritten DEF NoteMiss, CanDeferJob, Table!CanDeferJob,
           IsPendingAt, Table!IsPendingAt
    <1>6. ASSUME NEW id \in JobId, NEW version, NEW at \in Instants, deferJob(id, version, at)
          PROVE  TableStep
        <2>1. Exists(id) /\ Table!deferJob(id, at)
            BY <1>5, <1>6, SameRows DEF deferJob, Table!deferJob
        <2>2. QED
            BY <2>1, RowUpdated DEF Table!RowUpdate, Table!RecoveryUpdate, Instants, Table!Instants
    <1>7. ASSUME NEW id \in JobId, NEW version, noteMissingHandler(id, version)
          PROVE  TableStep
        <2>1. Exists(id) /\ Table!noteMissingHandler(id)
            BY <1>5, <1>7, SameRows DEF noteMissingHandler, Table!noteMissingHandler
        <2>2. QED
            BY <2>1, RowUpdated DEF Table!RowUpdate, Table!RecoveryUpdate
    <1>8. ASSUME NEW cutoff \in Int, NEW S \in SUBSET TerminalBefore(cutoff), deleteTerminal(S),
                 \A id \in S, other \in TerminalBefore(cutoff) \ S :
                    jobs[id].completedAt <= jobs[other].completedAt
          PROVE  TableStep
        <2>1. S \subseteq Table!TerminalRows
            BY <1>8, SameRows DEF TerminalBefore, Table!TerminalRows, Exists, Table!Present
        <2>2. ASSUME NEW id \in S, NEW other \in Table!TerminalRows \ S
              PROVE  jobs[id].completedAt <= jobs[other].completedAt
            <3>1. /\ other \in JobId /\ Exists(other) /\ ~ IsActive(jobs[other])
                  /\ id \in JobId /\ jobs[id].completedAt < cutoff /\ Exists(id)
                  /\ jobs[id].completedAt # None
                BY <1>8, <2>2, SameRows DEF TerminalBefore, Table!TerminalRows, Exists,
                   Table!Present
            <3>2. jobs[other].completedAt \in Nat /\ jobs[id].completedAt \in Nat
                BY <3>1, PresentRow DEF RowFits, OutcomeMatches, Job, Time, TimeOrNull
            <3>3. CASE other \in TerminalBefore(cutoff)
                BY <1>8, <2>2, <3>3
            <3>4. CASE other \notin TerminalBefore(cutoff)
                BY <3>1, <3>2, <3>4, NoneAssumption DEF TerminalBefore
            <3>5. QED
                BY <3>3, <3>4
        <2>3. Table!Delete(S)
            BY <1>8 DEF deleteTerminal, Table!Delete
        <2>4. S \in SUBSET JobId /\ Table!pruneTerminal(S)
            BY <2>1, <2>2, <2>3 DEF Table!pruneTerminal, Table!TerminalRows
        <2>5. QED
            BY <2>4 DEF TableStep, Table!TableNext
    <1>9. ASSUME NEW at \in Instants, NEW S \in SUBSET TerminalBefore(at), pruneTerminal(at, S)
          PROVE  TableStep
        <2>1. at \in Int
            BY StoreAssumption DEF Instants
        <2>2. QED
            BY <1>8, <1>9, <2>1 DEF pruneTerminal
    <1>10. ASSUME evictTerminal
           PROVE  TableStep
        <2>1. now - EVICTION_AGE \in Int
            BY StoreAssumption DEF IInv, TypeOK, Time
        <2>2. QED
            BY <1>8, <1>10, <2>1 DEF evictTerminal
    <1>11. ASSUME close
           PROVE  TableStep
        <2>1. Table!Delete(JobId)
            BY <1>11 DEF close, Table!Delete
        <2>2. QED
            BY <2>1 DEF TableStep, Table!TableNext, Table!close
    <1>12. ASSUME Tick
           PROVE  TableStep
        BY <1>12 DEF Tick, TableStep, Table!TableNext, Table!Tick
    <1>13. QED
        BY <1>2, <1>3, <1>4, <1>6, <1>7, <1>9, <1>10, <1>11, <1>12 DEF MaintenanceStep

-----------------------------------------------------------------------------
\* The in-memory store behaves as the table with the unique index does: no
\* sequence of calls tells the rows of the two apart.
THEOREM StoreImplementsTable == Spec => ImplementsTable
    <1>1. Init => Table!TableInit
        BY DEF Init, Table!TableInit
    <1>2. IInv /\ [Next]_vars => [Table!TableNext]_(Table!tableVars)
        <2> SUFFICES ASSUME IInv, [Next]_vars
                     PROVE  TableStep
            BY DEF TableStep
        <2>1. CASE Next
            BY <2>1, ClientStepRefines, ClaimStepRefines, MaintenanceStepRefines DEF Next
        <2>2. CASE UNCHANGED vars
            BY <2>2 DEF vars, TableStep, Table!tableVars
        <2>3. QED
            BY <2>1, <2>2
    <1>3. Spec => []IInv
        BY Invariance
    <1>4. QED
        BY <1>1, <1>2, <1>3, PTL DEF Spec, ImplementsTable, Table!TableSpec
=============================================================================
