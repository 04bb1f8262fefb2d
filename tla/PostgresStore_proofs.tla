-------------------------- MODULE PostgresStore_proofs --------------------------
(***************************************************************************)
(* PostgresStore keeps what the table keeps, for any sessions, ids, slots  *)
(* and bounds: statements that are steps of JobTable by the lemmas of      *)
(* JobTable_proofs, the second halves of the methods that read first       *)
(* because each tests, when it writes, the status it relies on.            *)
(***************************************************************************)
EXTENDS PostgresStore, JobTable_proofs

SessionRecord ==
    [pc : {"idle", "defer", "note", "reclaim", "prune"}, ids : SUBSET JobId,
     version : Nat, at : Time, exceeded : BOOLEAN]
SessionsTyped == session \in [Session -> SessionRecord]

IInv == TableInv /\ SessionsTyped

LEMMA Constants == TableConstants
    BY PostgresAssumption DEF TableConstants

-----------------------------------------------------------------------------
(* The rows that the later statements write. *)

\* A miss that is noted on a row that still waits, whichever way the comparison
\* went that was made earlier.
LEMMA MissKeeps ==
    ASSUME NEW job \in Job, RowFits(job), job.status = "pending",
           NEW at \in Time, NEW exceeded \in BOOLEAN
    PROVE  /\ Keeps(job, missRow(job, at, exceeded))
           /\ missRow(job, at, exceeded) \in Job /\ RowFits(missRow(job, at, exceeded))
    <1> DEFINE noted == [job EXCEPT !.version = @ + 1, !.deferAttempts = @ + 1,
                                    !.deferredSince = FirstDefer(job, at)]
               gone == [noted EXCEPT !.status = "failed", !.completedAt = at,
                                     !.failureReason = "defer_horizon"]
    <1> USE NoneAssumption DEF Keeps, SameSlot, RowFits, ClaimMatches, OutcomeMatches,
            DeferMatches, WindowMatches, IsActive, ACTIVE_STATUSES, IsPattern
    <1>1. FirstDefer(job, at) \in Time /\ FirstDefer(job, at) \in TimeOrNull
        BY DEF FirstDefer, Job, Time, TimeOrNull
    <1>2. noted \in Job
        BY <1>1, FieldTypes, AssignedValues, ReadFields, Zenon
    <1>3. gone \in Job
        BY <1>1, FieldTypes, AssignedValues, ReadFields, Zenon
    <1>4. SameSlot(job, noted) /\ RowFits(noted)
        BY <1>1 DEF Job, Time, TimeOrNull, JobStatus
    <1>5. SameSlot(job, gone) /\ RowFits(gone)
        BY <1>1 DEF Job, Time, TimeOrNull, JobStatus, FailureReason
    <1>6. missRow(job, at, exceeded) \in {noted, gone}
        BY DEF missRow
    <1> HIDE DEF noted, gone
    <1>7. QED
        BY <1>2, <1>3, <1>4, <1>5, <1>6

\* A stalled claim that is charged an attempt.
LEMMA ChargeKeeps ==
    ASSUME NEW job \in Job, RowFits(job), job.status = "running"
    PROVE  Keeps(job, chargeRow(job))
    <1> USE NoneAssumption DEF Keeps, SameSlot, RowFits, ClaimMatches, OutcomeMatches,
            DeferMatches, WindowMatches, IsActive, ACTIVE_STATUSES, IsPattern
    <1>1. chargeRow(job) \in Job
        BY FieldTypes, AssignedValues, ReadFields, ResetDeferType, Zenon DEF chargeRow
    <1>2. SameSlot(job, chargeRow(job)) /\ RowFits(chargeRow(job))
        BY DEF chargeRow, resetDeferFields, Job, Time, TimeOrNull, JobStatus
    <1>3. QED
        BY <1>1, <1>2

-----------------------------------------------------------------------------
(* Sessions enter a method and leave it. *)

LEMMA EnterTyped ==
    ASSUME IInv, NEW s \in Session, NEW call \in SessionRecord, Enter(s, call)
    PROVE  SessionsTyped'
    BY DEF IInv, SessionsTyped, Enter

LEMMA LeaveTyped ==
    ASSUME IInv, NEW s \in Session, Leave(s)
    PROVE  SessionsTyped'
    BY DEF IInv, SessionsTyped, Leave, Idle, SessionRecord, Time

LEMMA TableUntouched ==
    ASSUME IInv, UNCHANGED tableVars
    PROVE  TableInv'
    BY RowsUntouchedInv DEF IInv, TableInv, RowsTyped, tableVars

-----------------------------------------------------------------------------
(* The steps. *)

LEMMA OneStatementInv ==
    ASSUME IInv, OneStatement
    PROVE  IInv'
    <1> USE Constants DEF IInv
    <1>1. SessionsTyped'
        BY DEF OneStatement, SessionsTyped
    <1>2. now \in Time /\ Instants \subseteq Time /\ Attempts \subseteq Nat
        BY DEF TableInv, RowsTyped, TableConstants, Instants, Time
    <1>3. ASSUME NEW id \in JobId, Present(id), EventStatement(id)
          PROVE  TableInv'
        BY <1>3, ClientUpdateInv, DeleteInv DEF EventStatement, ClientUpdate
    <1>4. ASSUME NEW id \in JobId, Present(id), ClaimStatement(id)
          PROVE  TableInv'
        BY <1>4, ClientUpdateInv, ExecutionUpdateInv DEF ClaimStatement, ClientUpdate
    <1>5. ASSUME NEW id \in JobId, Present(id), ResetStatement(id) \/ RefStatement(id)
          PROVE  TableInv'
        BY <1>5, ClientUpdateInv DEF ResetStatement, RefStatement, ClientUpdate
    <1>6. ASSUME NEW ids, NEW names \in SUBSET Handler, claimDueStatement(ids, names)
          PROVE  TableInv'
        BY <1>6, ClaimDueInv DEF claimDueStatement
    <1>7. ASSUME NEW olderThan, pruneStatement(olderThan) PROVE TableInv'
        BY <1>7, DeleteInv DEF pruneStatement
    <1>8. ASSUME Tick PROVE TableInv'
        <2>1. now' \in Time
            BY <1>2, <1>8 DEF Tick, Time
        <2>2. QED
            BY <1>8, <2>1, RowsUntouchedInv DEF Tick
    <1>9. InsertStatement => TableInv'
        BY InsertInv DEF InsertStatement
    <1>10. QED
        BY <1>1, <1>3, <1>4, <1>5, <1>6, <1>7, <1>8, <1>9 DEF OneStatement

LEMMA BeginMissInv ==
    ASSUME IInv, NEW s \in Session, NEW id \in JobId, NEW call \in {"defer", "note"},
           BeginMiss(s, id, call)
    PROVE  IInv'
    <1> DEFINE entered == [pc |-> call, ids |-> {id}, version |-> jobs[id].version,
                           at |-> now,
                           exceeded |-> now - FirstDefer(jobs[id], now) >= horizonMs]
    <1>1. jobs[id] \in Job /\ now \in Time
        BY PresentRow DEF BeginMiss, IInv, TableInv, RowsTyped
    <1>2. entered \in SessionRecord
        BY <1>1 DEF SessionRecord, Job
    <1>3. Enter(s, entered) /\ UNCHANGED tableVars
        BY DEF BeginMiss
    <1> HIDE DEF entered
    <1>4. QED
        BY <1>2, <1>3, EnterTyped, TableUntouched DEF IInv

LEMMA EndMissInv ==
    ASSUME IInv, NEW s \in Session, NEW id \in JobId, EndMiss(s, id)
    PROVE  IInv'
    <1>1. SessionsTyped'
        BY LeaveTyped DEF EndMiss
    <1>2. session[s].at \in Time /\ session[s].exceeded \in BOOLEAN
        BY DEF IInv, SessionsTyped, SessionRecord
    <1>3. CASE MissGuard(id, session[s].version)
        <2> DEFINE row == missRow(jobs[id], session[s].at, session[s].exceeded)
        <2>1. /\ Present(id) /\ jobs[id] \in Job /\ RowFits(jobs[id])
              /\ jobs[id].status = "pending"
            BY <1>3, PresentRow DEF MissGuard, IsPendingAt, IInv
        <2>2. Keeps(jobs[id], row) /\ row \in Job /\ RowFits(row)
            BY <1>2, <2>1, MissKeeps
        <2>3. Update(id, row) \/ \E at \in Instants : Update(id, [row EXCEPT !.scheduledFor = at])
            BY <1>3 DEF EndMiss
        <2> HIDE DEF row
        <2>4. ASSUME NEW at \in Instants PROVE Keeps(jobs[id], [row EXCEPT !.scheduledFor = at])
            <3>1. at \in Time
                BY Constants DEF TableConstants, Instants, Time
            <3>2. Keeps(row, updateScheduledForRow(row, at))
                BY <2>2, <3>1, UpdateScheduledForKeeps
            <3>3. QED
                BY <2>2, <3>2 DEF Keeps, SameSlot, updateScheduledForRow
        <2>5. QED
            BY <1>1, <2>1, <2>2, <2>3, <2>4, UpdateInv DEF IInv
    <1>4. CASE ~ MissGuard(id, session[s].version)
        BY <1>1, <1>4, TableUntouched DEF EndMiss, IInv
    <1>5. QED
        BY <1>3, <1>4

\* The first statement of a reclaim opens a window for rows that are running.
LEMMA RequeueAmongInv ==
    ASSUME IInv, NEW ids \in SUBSET JobId, RequeueAmong(ids)
    PROVE  TableInv'
    <1> DEFINE rows == [id \in AdvancedAmong(ids) |-> requeueForNextWindowRow(jobs[id])]
    <1>1. ASSUME NEW id \in AdvancedAmong(ids)
          PROVE  id \in JobId /\ Present(id) /\ Keeps(jobs[id], rows[id])
        <2>1. /\ id \in JobId /\ Present(id) /\ jobs[id].status = "running"
              /\ VersionAdvanced(jobs[id])
            BY <1>1 DEF AdvancedAmong, StalledAmong, StalledRows, IsStalled
        <2>2. QED
            BY <2>1, PresentRow, NextWindowKeeps DEF IInv, VersionAdvanced
    <1>2. UpdateAll(AdvancedAmong(ids), rows)
        BY DEF RequeueAmong
    <1> HIDE DEF rows
    <1>3. QED
        BY <1>1, <1>2, UpdateAllInv DEF IInv

LEMMA ReclaimOneInv ==
    ASSUME IInv, NEW s \in Session, NEW id \in JobId, reclaimOne(s, id)
    PROVE  IInv'
    <1>1. TableInv'
        BY RequeueAmongInv DEF reclaimOne
    <1>2. [Idle EXCEPT !.pc = "reclaim", !.ids = {id}] \in SessionRecord
        BY DEF Idle, SessionRecord, Time
    <1>3. SessionsTyped'
        BY <1>2, EnterTyped DEF reclaimOne, IInv, SessionsTyped
    <1>4. QED
        BY <1>1, <1>3 DEF IInv

LEMMA ReclaimAllInv ==
    ASSUME IInv, NEW s \in Session, reclaimAll(s)
    PROVE  IInv'
    <1>1. TableInv'
        BY RequeueAmongInv DEF reclaimAll
    <1>2. [Idle EXCEPT !.pc = "reclaim", !.ids = JobId] \in SessionRecord
        BY DEF Idle, SessionRecord, Time
    <1>3. QED
        BY <1>1, <1>2, EnterTyped DEF reclaimAll, IInv

LEMMA ChargeStatementInv ==
    ASSUME IInv, NEW s \in Session, chargeStatement(s)
    PROVE  IInv'
    <1> DEFINE ids == StalledAmong(session[s].ids)
               rows == [id \in ids |-> chargeRow(jobs[id])]
    <1>1. ASSUME NEW id \in ids PROVE id \in JobId /\ Present(id) /\ Keeps(jobs[id], rows[id])
        BY <1>1, PresentRow, ChargeKeeps DEF StalledAmong, StalledRows, IsStalled, IInv
    <1>2. UpdateAll(ids, rows)
        BY DEF chargeStatement
    <1> HIDE DEF ids, rows
    <1>3. TableInv'
        BY <1>1, <1>2, UpdateAllInv DEF IInv
    <1>4. QED
        BY <1>3, LeaveTyped DEF chargeStatement, IInv

LEMMA PruneInv ==
    ASSUME IInv, NEW s \in Session,
           EndPrune(s) \/ \E olderThan \in Instants, ids \in SUBSET JobId :
                             BeginPrune(s, olderThan, ids)
    PROVE  IInv'
    <1>1. CASE EndPrune(s)
        BY <1>1, DeleteInv, LeaveTyped DEF EndPrune, IInv
    <1>2. ASSUME NEW olderThan \in Instants, NEW ids \in SUBSET JobId,
                 BeginPrune(s, olderThan, ids)
          PROVE  IInv'
        <2>1. [Idle EXCEPT !.pc = "prune", !.ids = ids] \in SessionRecord
            BY DEF Idle, SessionRecord, Time
        <2>2. QED
            BY <1>2, <2>1, EnterTyped, TableUntouched DEF BeginPrune, IInv
    <1>3. QED
        BY <1>1, <1>2

LEMMA NextInv ==
    ASSUME IInv, [Next]_vars
    PROVE  IInv'
    <1>1. ASSUME NEW s \in Session, SessionStep(s) PROVE IInv'
        BY <1>1, BeginMissInv, EndMissInv, ReclaimOneInv, ReclaimAllInv, ChargeStatementInv,
           PruneInv DEF SessionStep
    <1>2. UNCHANGED vars => IInv'
        BY TableUntouched DEF vars, tableVars, IInv, SessionsTyped
    <1>3. QED
        BY <1>1, <1>2, OneStatementInv DEF Next

-----------------------------------------------------------------------------
(* What the comparison of a CTE still says when its UPDATE writes the row.  *)

\* No streak begins in the future.
RowsDated ==
    \A id \in JobId : Present(id) =>
        /\ id \in issued
        /\ jobs[id].deferredSince # None => jobs[id].deferredSince <= now

\* While the row is at the version a session read, its streak is the one that was
\* compared or has ended: a horizon that was open then is open now.
Missing(s) == session[s].pc \in {"defer", "note"}
MissDated(s) ==
    /\ session[s].at <= now /\ session[s].ids \subseteq issued
    /\ \A id \in session[s].ids : Present(id) => session[s].version <= jobs[id].version
    /\ ~ session[s].exceeded =>
          /\ horizonMs > 0
          /\ \A id \in session[s].ids :
                Present(id) /\ jobs[id].version = session[s].version
                /\ jobs[id].deferredSince # None
                => session[s].at - jobs[id].deferredSince < horizonMs
Dated == RowsDated /\ \A s \in Session : Missing(s) => MissDated(s)

\* No write but a miss begins a streak, and a miss takes a new version.
SameStreak(old, new) ==
    /\ new.version \in Nat /\ new.version >= old.version
    /\ new.deferredSince \in {old.deferredSince, None}
NewStreak(old, new) ==
    /\ new.version \in Nat /\ new.version > old.version
    /\ new.deferredSince # None => new.deferredSince \in Nat /\ new.deferredSince <= now
Ages(id) ==
    Present(id)' =>
        \/ id \in issued' \ issued /\ jobs'[id].deferredSince = None
        \/ Present(id) /\ SameStreak(jobs[id], jobs'[id])
        \/ Present(id) /\ NewStreak(jobs[id], jobs'[id])

LEMMA StreakEffects ==
    ASSUME NEW row \in Job
    PROVE  /\ \A at : /\ SameStreak(row, updatePatternEventRow(row, at))
                      /\ SameStreak(row, cancelJobRow(row, at))
                      /\ SameStreak(row, updateScheduledForRow(row, at))
                      /\ SameStreak(row, resetJobRow(row, at))
                      /\ SameStreak(row, markRunningRow(row, at))
                      /\ SameStreak(row, markCompletedRow(row, at))
                      /\ SameStreak(row, rescheduleJobRow(row, at))
           /\ \A at, n : /\ SameStreak(row, replaceJobRow(row, at, n))
                         /\ SameStreak(row, retryJobRow(row, n, at))
           /\ \A at, reason : SameStreak(row, markFailedRow(row, reason, at))
           /\ \A ref : SameStreak(row, updateSchedulerRefRow(row, ref))
           /\ SameStreak(row, rescheduleDueAtRow(row))
           /\ SameStreak(row, requeueForNextWindowRow(row))
           /\ SameStreak(row, chargeRow(row))
           /\ \A at : SameStreak(row, claimDueRow(row, at))
    <1> USE DEF SameStreak, Job, resetDeferFields
    <1>1. \A at : /\ SameStreak(row, updatePatternEventRow(row, at))
                  /\ SameStreak(row, cancelJobRow(row, at))
                  /\ SameStreak(row, updateScheduledForRow(row, at))
        BY DEF updatePatternEventRow, cancelJobRow, updateScheduledForRow
    <1>2. \A at : SameStreak(row, resetJobRow(row, at)) /\ SameStreak(row, rescheduleJobRow(row, at))
        BY DEF resetJobRow, rescheduleJobRow, retryJobRow
    <1>3. \A at : SameStreak(row, markRunningRow(row, at)) /\ SameStreak(row, markCompletedRow(row, at))
        BY DEF markRunningRow, markCompletedRow
    <1>4. \A at, n : /\ SameStreak(row, replaceJobRow(row, at, n))
                     /\ SameStreak(row, retryJobRow(row, n, at))
        BY DEF replaceJobRow, retryJobRow
    <1>5. /\ \A at, reason : SameStreak(row, markFailedRow(row, reason, at))
          /\ \A ref : SameStreak(row, updateSchedulerRefRow(row, ref))
        BY DEF markFailedRow, updateSchedulerRefRow
    <1>6. SameStreak(row, rescheduleDueAtRow(row)) /\ SameStreak(row, requeueForNextWindowRow(row))
        BY DEF rescheduleDueAtRow, requeueForNextWindowRow, retryJobRow
    <1>7. SameStreak(row, chargeRow(row))
        BY DEF chargeRow
    <1>8. \A at : SameStreak(row, claimDueRow(row, at))
        BY <1>3, <1>6 DEF claimDueRow
    <1>9. QED
        BY <1>1, <1>2, <1>3, <1>4, <1>5, <1>6, <1>7, <1>8

\* If the rows age, the sessions that have read one know as much as before.
LEMMA AgesDated ==
    ASSUME IInv, Dated, \A id \in JobId : Ages(id),
           issued \subseteq issued', now' \in Time, now' >= now,
           \A s \in Session : session'[s] = session[s] \/ ~ Missing(s)'
    PROVE  Dated'
    <1> USE DEF Time
    <1>1. /\ now \in Nat /\ now' \in Nat /\ jobs \in [JobId -> Job \cup {None}]
          /\ session \in [Session -> SessionRecord]
        BY DEF IInv, TableInv, RowsTyped, SessionsTyped
    <1>2. ASSUME NEW id \in JobId, Present(id)
          PROVE  /\ jobs[id].version \in Nat
                 /\ jobs[id].deferredSince \in Nat \cup {None}
        BY <1>2, PresentRow DEF IInv, Job, TimeOrNull
    <1>3. RowsDated'
        <2> SUFFICES ASSUME NEW id \in JobId, Present(id)'
                     PROVE  /\ id \in issued'
                            /\ jobs'[id].deferredSince # None
                               => jobs'[id].deferredSince <= now'
            BY DEF RowsDated, Present
        <2>1. CASE id \in issued' \ issued /\ jobs'[id].deferredSince = None
            BY <2>1
        <2>2. CASE Present(id) /\ SameStreak(jobs[id], jobs'[id])
            BY <1>1, <1>2, <2>2 DEF Dated, RowsDated, SameStreak
        <2>3. CASE Present(id) /\ NewStreak(jobs[id], jobs'[id])
            <3>1. \/ jobs'[id].deferredSince = None
                  \/ jobs'[id].deferredSince \in Nat /\ jobs'[id].deferredSince <= now
                BY <2>3 DEF NewStreak
            <3>2. now \in Nat /\ now' \in Nat /\ id \in issued
                BY <1>1, <2>3 DEF Dated, RowsDated, Time
            <3>3. QED
                BY <1>1, <3>1, <3>2
        <2>4. QED
            BY <2>1, <2>2, <2>3 DEF Ages
    <1>4. ASSUME NEW s \in Session, Missing(s)' PROVE MissDated(s)'
        <2>1. session'[s] = session[s] /\ MissDated(s)
            BY <1>4 DEF Dated, Missing
        <2>2. /\ session[s].version \in Nat /\ session[s].at \in Nat
              /\ session[s].ids \in SUBSET JobId
            BY <1>1 DEF SessionRecord
        <2>3. session[s].at <= now' /\ session[s].ids \subseteq issued'
            BY <1>1, <2>1, <2>2 DEF MissDated
        <2>4. ASSUME NEW id \in session[s].ids, Present(id)'
              PROVE  /\ session[s].version <= jobs'[id].version
                     /\ ~ session[s].exceeded /\ jobs'[id].version = session[s].version
                        /\ jobs'[id].deferredSince # None
                        => session[s].at - jobs'[id].deferredSince < horizonMs
            <3>1. id \in JobId /\ id \in issued /\ Ages(id)
                BY <2>1, <2>2 DEF MissDated
            <3>2. Present(id) /\ session[s].version <= jobs[id].version
                BY <2>1, <2>4, <3>1 DEF Ages, MissDated
            <3>3. CASE SameStreak(jobs[id], jobs'[id])
                <4>1. /\ jobs'[id].version \in Nat /\ jobs'[id].version >= jobs[id].version
                      /\ jobs'[id].deferredSince \in {jobs[id].deferredSince, None}
                    BY <3>3 DEF SameStreak
                <4>2. session[s].version <= jobs'[id].version
                    BY <1>2, <2>2, <3>1, <3>2, <4>1
                <4>3. jobs'[id].version = session[s].version => jobs[id].version = session[s].version
                    BY <1>2, <2>2, <3>1, <3>2, <4>1
                <4>4. QED
                    BY <2>1, <3>2, <4>1, <4>2, <4>3 DEF MissDated
            <3>4. CASE NewStreak(jobs[id], jobs'[id])
                <4>1. jobs'[id].version \in Nat /\ jobs'[id].version > jobs[id].version
                    BY <3>4 DEF NewStreak
                <4>2. QED
                    BY <1>2, <2>2, <3>1, <3>2, <4>1
            <3>5. QED
                BY <2>4, <3>1, <3>2, <3>3, <3>4 DEF Ages
        <2>5. ~ session[s].exceeded => horizonMs > 0
            BY <2>1 DEF MissDated
        <2>6. QED
            BY <2>1, <2>3, <2>4, <2>5 DEF MissDated, Present
    <1>5. QED
        BY <1>3, <1>4 DEF Dated

\* The shapes of statements.
LEMMA RowKept ==
    ASSUME IInv, NEW id \in JobId, jobs'[id] = jobs[id]
    PROVE  Ages(id)
    BY PresentRow DEF Ages, Present, SameStreak, IInv, Job

LEMMA UpdateAges ==
    ASSUME IInv, NEW id \in JobId, NEW row, Present(id), Update(id, row),
           SameStreak(jobs[id], row) \/ NewStreak(jobs[id], row)
    PROVE  \A other \in JobId : Ages(other)
    <1>1. jobs'[id] = row /\ \A other \in JobId \ {id} : jobs'[other] = jobs[other]
        BY DEF Update, IInv, TableInv, RowsTyped
    <1>2. Ages(id)
        BY <1>1 DEF Ages
    <1>3. QED
        BY <1>1, <1>2, RowKept

LEMMA UpdateAllAges ==
    ASSUME IInv, NEW ids \in SUBSET JobId, NEW rows, UpdateAll(ids, rows),
           \A id \in ids : Present(id) /\ SameStreak(jobs[id], rows[id])
    PROVE  \A id \in JobId : Ages(id)
    <1> SUFFICES ASSUME NEW id \in JobId PROVE Ages(id)
        OBVIOUS
    <1>1. jobs'[id] = IF id \in ids THEN rows[id] ELSE jobs[id]
        BY DEF UpdateAll
    <1>2. QED
        BY <1>1, RowKept DEF Ages

LEMMA DeleteAges ==
    ASSUME IInv, NEW ids, Delete(ids)
    PROVE  \A id \in JobId : Ages(id)
    <1> SUFFICES ASSUME NEW id \in JobId PROVE Ages(id)
        OBVIOUS
    <1>1. jobs'[id] = IF id \in ids THEN None ELSE jobs[id]
        BY DEF Delete
    <1>2. QED
        BY <1>1, RowKept DEF Ages, Present

LEMMA UpdateOfOneAges ==
    ASSUME IInv, NEW id \in JobId, Present(id), ClientUpdate(id) \/ ExecutionUpdate(id)
    PROVE  (\A other \in JobId : Ages(other)) /\ UNCHANGED <<issued, now>>
    <1>1. jobs[id] \in Job
        BY PresentRow DEF IInv
    <1>2. \E row : Update(id, row) /\ SameStreak(jobs[id], row)
        <2>1. CASE ClientUpdate(id)
            BY <1>1, <2>1, StreakEffects
               DEF ClientUpdate, updatePatternEvent, cancelJob, replaceJob, updateScheduledFor,
                   updateSchedulerRef, resetJob
        <2>2. CASE ExecutionUpdate(id)
            BY <1>1, <2>2, StreakEffects
               DEF ExecutionUpdate, markRunning, markCompleted, markFailed, retryJob,
                   rescheduleJob, rescheduleDueAt, requeueForNextWindow
        <2>3. QED
            BY <2>1, <2>2
    <1>3. QED
        BY <1>2, UpdateAges DEF Update

LEMMA InsertAges ==
    ASSUME IInv, InsertStatement
    PROVE  (\A id \in JobId : Ages(id)) /\ issued \subseteq issued' /\ UNCHANGED now
    <1>1. PICK id \in JobId \ issued, job \in InsertedRows : createJob(id, job)
        BY DEF InsertStatement
    <1>2. job.deferredSince = None
        BY DEF InsertedRows, NewOnceJob, NewPatternJob, NewJob
    <1>3. /\ jobs'[id] = job /\ id \in issued' \ issued
          /\ \A other \in JobId \ {id} : jobs'[other] = jobs[other]
        BY <1>1 DEF createJob, IInv, TableInv, RowsTyped
    <1>4. Ages(id)
        BY <1>2, <1>3 DEF Ages
    <1>5. QED
        BY <1>1, <1>3, <1>4, RowKept DEF createJob

LEMMA OneStatementDated ==
    ASSUME IInv, Dated, OneStatement
    PROVE  Dated'
    <1>1. /\ \A id \in JobId : Ages(id)
          /\ issued \subseteq issued' /\ (UNCHANGED now \/ now' = now + 1)
        <2>1. ASSUME NEW id \in JobId, Present(id),
                     EventStatement(id) \/ ClaimStatement(id) \/ ResetStatement(id)
                     \/ RefStatement(id)
              PROVE  (\A other \in JobId : Ages(other)) /\ UNCHANGED <<issued, now>>
            <3>1. CASE Delete({id})
                BY <3>1, DeleteAges DEF Delete
            <3>2. CASE ClientUpdate(id) \/ ExecutionUpdate(id)
                BY <2>1, <3>2, UpdateOfOneAges
            <3>3. QED
                BY <2>1, <3>1, <3>2
                   DEF EventStatement, ClaimStatement, ResetStatement, RefStatement, ClientUpdate
        <2>2. ASSUME NEW ids \in SUBSET JobId, NEW names \in SUBSET Handler,
                     claimDueStatement(ids, names)
              PROVE  (\A id \in JobId : Ages(id)) /\ UNCHANGED <<issued, now>>
            <3> DEFINE rows == [id \in ids |-> claimDueRow(jobs[id], now)]
            <3>1. ASSUME NEW id \in ids
                  PROVE  Present(id) /\ SameStreak(jobs[id], rows[id])
                BY <2>2, <3>1, StreakEffects, PresentRow
                   DEF claimDueStatement, DueRows, IInv
            <3>2. UpdateAll(ids, rows)
                BY <2>2 DEF claimDueStatement
            <3> HIDE DEF rows
            <3>3. QED
                BY <3>1, <3>2, UpdateAllAges DEF UpdateAll
        <2>3. ASSUME NEW olderThan, pruneStatement(olderThan)
              PROVE  (\A id \in JobId : Ages(id)) /\ UNCHANGED <<issued, now>>
            BY <2>3, DeleteAges DEF pruneStatement, Delete
        <2>4. Tick => (\A id \in JobId : Ages(id)) /\ UNCHANGED issued /\ now' = now + 1
            BY RowKept DEF Tick
        <2>5. QED
            BY <2>1, <2>2, <2>3, <2>4, InsertAges DEF OneStatement
    <1>2. now \in Nat /\ UNCHANGED session
        BY DEF OneStatement, IInv, TableInv, RowsTyped, Time
    <1>3. now' \in Time /\ now' >= now
        BY <1>1, <1>2 DEF Time
    <1>4. QED
        BY <1>1, <1>2, <1>3, AgesDated

\* A session that enters no miss.
LEMMA SessionDated ==
    ASSUME IInv, Dated, NEW s \in Session, \A id \in JobId : Ages(id), UNCHANGED <<issued, now>>,
           \/ Leave(s) \/ UNCHANGED session
           \/ \E call : Enter(s, call) /\ call.pc \notin {"defer", "note"}
    PROVE  Dated'
    <1>1. \A t \in Session : session'[t] = session[t] \/ ~ Missing(t)'
        BY DEF Leave, Enter, Idle, Missing, IInv, SessionsTyped
    <1>2. now' \in Time /\ now' >= now
        BY DEF IInv, TableInv, RowsTyped, Time
    <1>3. QED
        BY <1>1, <1>2, AgesDated

LEMMA BeginMissDated ==
    ASSUME IInv, Dated, NEW s \in Session, NEW id \in JobId, NEW call \in {"defer", "note"},
           BeginMiss(s, id, call)
    PROVE  Dated'
    <1> DEFINE over == now - FirstDefer(jobs[id], now) >= horizonMs
               entered == [pc |-> call, ids |-> {id}, version |-> jobs[id].version,
                           at |-> now, exceeded |-> over]
    <1>1. /\ Present(id) /\ jobs[id] \in Job /\ now \in Nat /\ horizonMs \in Nat
          /\ jobs[id].deferredSince \in Nat \cup {None}
        BY PresentRow, PostgresAssumption
           DEF BeginMiss, IInv, TableInv, RowsTyped, Job, Time, TimeOrNull
    <1>2. /\ UNCHANGED <<jobs, issued, now>> /\ session' = [session EXCEPT ![s] = entered]
          /\ session \in [Session -> SessionRecord]
        BY DEF BeginMiss, Enter, tableVars, IInv, SessionsTyped
    <1>3. RowsDated'
        BY <1>2 DEF Dated, RowsDated, Present
    <1>4. /\ now <= now /\ {id} \subseteq issued
          /\ jobs[id].version <= jobs[id].version
        BY <1>1 DEF Dated, RowsDated, Job
    <1>5. ~ over => /\ horizonMs > 0
                    /\ jobs[id].deferredSince # None => now - jobs[id].deferredSince < horizonMs
        BY <1>1 DEF FirstDefer, Dated, RowsDated
    <1>6. /\ entered.ids = {id} /\ entered.version = jobs[id].version /\ entered.at = now
          /\ entered.exceeded = over
        OBVIOUS
    <1> HIDE DEF entered, over
    <1>7. ASSUME NEW t \in Session, Missing(t)' PROVE MissDated(t)'
        <2>1. CASE t = s
            <3>1. session'[t] = entered
                BY <1>2, <2>1
            <3>2. QED
                BY <1>2, <1>4, <1>5, <1>6, <3>1 DEF MissDated, Present
        <2>2. CASE t # s
            <3>1. session'[t] = session[t]
                BY <1>2, <2>2
            <3>2. QED
                BY <1>2, <1>7, <3>1 DEF Dated, Missing, MissDated, Present
        <2>3. QED
            BY <2>1, <2>2
    <1>8. QED
        BY <1>3, <1>7 DEF Dated

LEMMA EndMissDated ==
    ASSUME IInv, Dated, NEW s \in Session, NEW id \in JobId, EndMiss(s, id)
    PROVE  Dated'
    <1>1. CASE MissGuard(id, session[s].version)
        <2> DEFINE row == missRow(jobs[id], session[s].at, session[s].exceeded)
        <2>1. Present(id) /\ jobs[id] \in Job
            BY <1>1, PresentRow DEF MissGuard, IInv
        <2>2. /\ now \in Nat /\ session[s].at \in Nat /\ session[s].at <= now
              /\ session[s].exceeded \in BOOLEAN
            BY DEF EndMiss, Dated, MissDated, Missing, IInv, TableInv, RowsTyped, SessionsTyped,
               SessionRecord, Time
        <2>3. NewStreak(jobs[id], row)
            <3>1. row.version \in Nat /\ row.version > jobs[id].version
                BY <2>1 DEF missRow, Job
            <3>2. row.deferredSince = FirstDefer(jobs[id], session[s].at)
                BY <2>1 DEF missRow, Job
            <3>3. jobs[id].deferredSince # None
                  => jobs[id].deferredSince \in Nat /\ jobs[id].deferredSince <= now
                BY <2>1, PresentRow DEF Dated, RowsDated, Job, TimeOrNull, Time
            <3>4. QED
                BY <2>2, <3>1, <3>2, <3>3 DEF NewStreak, FirstDefer
        <2>4. row \in Job
            BY <1>1, <2>1, <2>2, MissKeeps, PresentRow DEF MissGuard, IsPendingAt, IInv, Time
        <2>5. Update(id, row) \/ \E at \in Instants : Update(id, [row EXCEPT !.scheduledFor = at])
            BY <1>1 DEF EndMiss
        <2> HIDE DEF row
        <2>6. \A at : NewStreak(jobs[id], [row EXCEPT !.scheduledFor = at])
            BY <2>3, <2>4 DEF NewStreak, Job
        <2>7. \A other \in JobId : Ages(other)
            BY <2>1, <2>3, <2>5, <2>6, UpdateAges
        <2>8. UNCHANGED <<issued, now>> /\ Leave(s)
            BY <2>5 DEF EndMiss, Update
        <2>9. QED
            BY <2>7, <2>8, SessionDated
    <1>2. CASE ~ MissGuard(id, session[s].version)
        <2>1. UNCHANGED <<jobs, issued, now>> /\ Leave(s)
            BY <1>2 DEF EndMiss, tableVars
        <2>2. QED
            BY <2>1, RowKept, SessionDated
    <1>3. QED
        BY <1>1, <1>2

LEMMA RequeueAges ==
    ASSUME IInv, NEW ids \in SUBSET JobId, RequeueAmong(ids)
    PROVE  (\A id \in JobId : Ages(id)) /\ UNCHANGED <<issued, now>>
    <1> DEFINE rows == [id \in AdvancedAmong(ids) |-> requeueForNextWindowRow(jobs[id])]
    <1>1. ASSUME NEW id \in AdvancedAmong(ids)
          PROVE  id \in JobId /\ Present(id) /\ SameStreak(jobs[id], rows[id])
        BY <1>1, StreakEffects, PresentRow DEF AdvancedAmong, StalledAmong, StalledRows, IInv
    <1>2. UpdateAll(AdvancedAmong(ids), rows) /\ AdvancedAmong(ids) \in SUBSET JobId
        BY <1>1 DEF RequeueAmong
    <1> HIDE DEF rows
    <1>3. QED
        BY <1>1, <1>2, UpdateAllAges DEF UpdateAll

LEMMA SessionStepDated ==
    ASSUME IInv, Dated, NEW s \in Session, SessionStep(s)
    PROVE  Dated'
    <1>1. ASSUME NEW id \in JobId, reclaimOne(s, id) PROVE Dated'
        <2>1. [Idle EXCEPT !.pc = "reclaim", !.ids = {id}].pc = "reclaim"
            BY DEF Idle
        <2>2. (\A other \in JobId : Ages(other)) /\ UNCHANGED <<issued, now>>
            BY <1>1, RequeueAges DEF reclaimOne
        <2>3. UNCHANGED session \/ Enter(s, [Idle EXCEPT !.pc = "reclaim", !.ids = {id}])
            BY <1>1 DEF reclaimOne
        <2>4. QED
            BY <2>1, <2>2, <2>3, SessionDated
    <1>2. ASSUME reclaimAll(s) PROVE Dated'
        <2>1. [Idle EXCEPT !.pc = "reclaim", !.ids = JobId].pc = "reclaim"
            BY DEF Idle
        <2>2. (\A other \in JobId : Ages(other)) /\ UNCHANGED <<issued, now>>
            BY <1>2, RequeueAges DEF reclaimAll
        <2>3. QED
            BY <1>2, <2>1, <2>2, SessionDated DEF reclaimAll
    <1>3. ASSUME chargeStatement(s) PROVE Dated'
        <2> DEFINE ids == StalledAmong(session[s].ids)
                   rows == [id \in ids |-> chargeRow(jobs[id])]
        <2>1. ASSUME NEW id \in ids
              PROVE  id \in JobId /\ Present(id) /\ SameStreak(jobs[id], rows[id])
            BY <2>1, StreakEffects, PresentRow DEF StalledAmong, StalledRows, IInv
        <2>2. UpdateAll(ids, rows) /\ ids \in SUBSET JobId /\ Leave(s)
            BY <1>3, <2>1 DEF chargeStatement
        <2> HIDE DEF ids, rows
        <2>3. QED
            BY <2>1, <2>2, UpdateAllAges, SessionDated DEF UpdateAll
    <1>4. ASSUME NEW olderThan \in Instants, NEW ids \in SUBSET JobId,
                 BeginPrune(s, olderThan, ids)
          PROVE  Dated'
        <2>1. [Idle EXCEPT !.pc = "prune", !.ids = ids].pc = "prune"
            BY DEF Idle
        <2>2. UNCHANGED <<jobs, issued, now>> /\ Enter(s, [Idle EXCEPT !.pc = "prune", !.ids = ids])
            BY <1>4 DEF BeginPrune, tableVars
        <2>3. QED
            BY <2>1, <2>2, RowKept, SessionDated
    <1>5. ASSUME EndPrune(s) PROVE Dated'
        BY <1>5, DeleteAges, SessionDated DEF EndPrune, Delete
    <1>6. QED
        BY <1>1, <1>2, <1>3, <1>4, <1>5, BeginMissDated, EndMissDated DEF SessionStep

-----------------------------------------------------------------------------
(* The later statements against the table of one row. *)

\* The row operations of that table are those of this one.
LEMMA SameReclaim ==
    ASSUME NEW id
    PROVE  \A job : Row(id)!reclaimRow(job) = reclaimRow(job)
    <1>1. \A job : Row(id)!resetDeferFields(job) = resetDeferFields(job)
        BY DEF Row!resetDeferFields, resetDeferFields
    <1>2. \A job : Row(id)!computePatternDueAt(job) = computePatternDueAt(job)
        BY DEF Row!computePatternDueAt, computePatternDueAt, Row!Least, Least,
               Row!computeDebounceSettlesAt, computeDebounceSettlesAt
    <1>3. \A job, n, at : Row(id)!retryJobRow(job, n, at) = retryJobRow(job, n, at)
        BY <1>1 DEF Row!retryJobRow, retryJobRow
    <1>4. \A job : Row(id)!requeueForNextWindowRow(job) = requeueForNextWindowRow(job)
        BY <1>2, <1>3 DEF Row!requeueForNextWindowRow, requeueForNextWindowRow
    <1>5. \A job : Row(id)!VersionAdvanced(job) = VersionAdvanced(job)
        BY DEF Row!VersionAdvanced, VersionAdvanced, Row!IsPattern, IsPattern
    <1>6. QED
        BY <1>1, <1>4, <1>5 DEF Row!reclaimRow, reclaimRow

LEMMA ReclaimedRow ==
    ASSUME NEW id \in JobId, IsStalled(jobs[id], now, leaseMs),
           jobs'[id] = reclaimRow(jobs[id]), UNCHANGED <<issued, now>>
    PROVE  ReclaimOf(id)
    <1>1. Row(id)!IsStalled(jobs[id], now, leaseMs)
        BY DEF Row!IsStalled, IsStalled
    <1>2. Row(id)!reclaimRow(jobs[id]) = jobs'[id]
        BY SameReclaim
    <1>3. [i \in {id} |-> jobs[i]][id] = jobs[id]
        OBVIOUS
    <1>4. Row(id)!reclaimStalled(id)
        BY <1>1, <1>2, <1>3 DEF Row!reclaimStalled, Row!Update
    <1>5. QED
        BY <1>4 DEF ReclaimOf

LEMMA ChargedRow ==
    ASSUME NEW id \in JobId, IsStalled(jobs[id], now, leaseMs),
           jobs'[id] = chargeRow(jobs[id]), UNCHANGED <<issued, now>>
    PROVE  ReclaimOf(id)
    <1>1. CASE VersionAdvanced(jobs[id])
        BY <1>1 DEF ReclaimOf
    <1>2. CASE ~ VersionAdvanced(jobs[id])
        BY <1>2, ReclaimedRow DEF reclaimRow, chargeRow
    <1>3. QED
        BY <1>1, <1>2

LEMMA PrunedRow ==
    ASSUME NEW id \in JobId, Present(id), jobs'[id] = None, UNCHANGED <<issued, now>>
    PROVE  PruneOf(id)
    <1>1. CASE IsActive(jobs[id])
        BY <1>1 DEF PruneOf
    <1>2. CASE ~ IsActive(jobs[id])
        <2>1. Row(id)!TerminalRows = {id}
            BY <1>2 DEF Row!TerminalRows, Row!Present, Present, Row!IsActive, IsActive,
                        Row!ACTIVE_STATUSES, ACTIVE_STATUSES
        <2>2. Row(id)!Delete({id})
            BY DEF Row!Delete
        <2>3. QED
            BY <2>1, <2>2 DEF PruneOf, Row!pruneTerminal
    <1>3. QED
        BY <1>1, <1>2

\* What the comparison of the CTE still says of the row, and what it does not.
LEMMA MissedRow ==
    ASSUME IInv, Dated, NEW s \in Session, NEW id \in JobId, EndMiss(s, id),
           jobs'[id] # jobs[id]
    PROVE  MissOf(s, id)
    <1> DEFINE job == jobs[id]
               at == session[s].at
               row == missRow(job, at, session[s].exceeded)
    <1>1. /\ MissGuard(id, session[s].version) /\ jobs \in [JobId -> Job \cup {None}]
          /\ at \in Time /\ session[s].exceeded \in BOOLEAN
        BY DEF EndMiss, tableVars, IInv, TableInv, RowsTyped, SessionsTyped, SessionRecord
    <1>2. /\ Present(id) /\ job \in Job /\ job.status = "pending"
          /\ CanDeferJob(job, session[s].version)
        BY <1>1, PresentRow DEF MissGuard, IsPendingAt, CanDeferJob, IInv
    <1>3. \/ jobs'[id] = row
          \/ /\ session[s].exceeded = FALSE
             /\ \E due \in Instants : jobs'[id] = [row EXCEPT !.scheduledFor = due]
        BY <1>1 DEF EndMiss, Update
    <1>4. CASE /\ session[s].exceeded
               /\ at - FirstDefer(job, at) < horizonMs
        BY <1>2, <1>3, <1>4 DEF MissOf
    <1>5. CASE /\ session[s].exceeded
               /\ ~ at - FirstDefer(job, at) < horizonMs
        <2>1. row = noteMissingHandlerRow(job, at, horizonMs)
            BY <1>5 DEF missRow, noteMissingHandlerRow
        <2>2. QED
            BY <1>2, <1>3, <1>5, <2>1 DEF MissOf
    <1>6. CASE ~ session[s].exceeded
        <2>1. at - FirstDefer(job, at) < horizonMs
            <3>1. /\ horizonMs > 0 /\ horizonMs \in Nat /\ at \in Nat
                  /\ job.deferredSince # None => at - job.deferredSince < horizonMs
                BY <1>1, <1>2, <1>6, PostgresAssumption
                   DEF Dated, MissDated, Missing, EndMiss, CanDeferJob, IsPendingAt, Time
            <3>2. QED
                BY <3>1 DEF FirstDefer
        <2>2. row = noteMissingHandlerRow(job, at, horizonMs)
            BY <1>6, <2>1 DEF missRow, noteMissingHandlerRow
        <2>3. row.status = "pending"
            BY <1>2, <1>6 DEF missRow, Job
        <2>4. ASSUME NEW due \in Instants, jobs'[id] = [row EXCEPT !.scheduledFor = due]
              PROVE  jobs'[id] = deferJobRow(job, due, at, horizonMs)
            BY <2>2, <2>3, <2>4 DEF deferJobRow
        <2> HIDE DEF row, job, at
        <2>5. QED
            BY <1>2, <1>3, <2>2, <2>4 DEF MissOf, job, at
    <1>7. QED
        BY <1>4, <1>5, <1>6

\* Each later statement, and the first of a bulk reclaim.
LEMMA MethodStep ==
    ASSUME IInv, Dated, [Next]_vars, NEW id \in JobId, NEW s \in Session,
           jobs'[id] # jobs[id], session'[s] # session[s]
    PROVE  MethodOf(s, id)
    <1>1. PICK t \in Session : SessionStep(t)
        BY DEF Next, OneStatement, vars
    <1>2. t = s
        <2>1. (\E call : Enter(t, call)) \/ Leave(t) \/ session' = session
            BY <1>1 DEF SessionStep, BeginMiss, EndMiss, reclaimOne, reclaimAll,
               chargeStatement, BeginPrune, EndPrune
        <2>2. QED
            BY <2>1 DEF Enter, Leave, IInv, SessionsTyped
    <1>3. ASSUME NEW ids, RequeueAmong(ids), session[s] = Idle PROVE MethodOf(s, id)
        <2>1. /\ id \in AdvancedAmong(ids) /\ UNCHANGED <<issued, now>>
              /\ jobs'[id] = requeueForNextWindowRow(jobs[id])
            BY <1>3 DEF RequeueAmong, UpdateAll
        <2>2. IsStalled(jobs[id], now, leaseMs) /\ VersionAdvanced(jobs[id])
            BY <2>1 DEF AdvancedAmong, StalledAmong, StalledRows
        <2>3. jobs'[id] = reclaimRow(jobs[id])
            BY <2>1, <2>2 DEF reclaimRow
        <2>4. QED
            BY <1>3, <2>1, <2>2, <2>3, ReclaimedRow DEF MethodOf, Idle
    <1>4. ASSUME chargeStatement(s) PROVE MethodOf(s, id)
        <2>1. /\ id \in StalledAmong(session[s].ids) /\ UNCHANGED <<issued, now>>
              /\ jobs'[id] = chargeRow(jobs[id]) /\ session[s].pc = "reclaim"
            BY <1>4 DEF chargeStatement, UpdateAll
        <2>2. IsStalled(jobs[id], now, leaseMs)
            BY <2>1 DEF StalledAmong, StalledRows
        <2>3. QED
            BY <2>1, <2>2, ChargedRow DEF MethodOf
    <1>5. ASSUME EndPrune(s) PROVE MethodOf(s, id)
        <2>1. /\ Present(id) /\ UNCHANGED <<issued, now>> /\ jobs'[id] = None
              /\ session[s].pc = "prune"
            BY <1>5 DEF EndPrune, Delete
        <2>2. QED
            BY <2>1, PrunedRow DEF MethodOf
    <1>6. ASSUME NEW other \in JobId, EndMiss(s, other) PROVE MethodOf(s, id)
        <2>1. other = id
            BY <1>6 DEF EndMiss, tableVars, Update, IInv, TableInv, RowsTyped
        <2>2. QED
            BY <1>6, <2>1, MissedRow DEF MethodOf, EndMiss
    <1>7. ASSUME NEW other \in JobId, reclaimOne(s, other) PROVE MethodOf(s, id)
        <2>1. session[s] = Idle /\ RequeueAmong({other})
            BY <1>7 DEF reclaimOne, Enter
        <2>2. QED
            BY <1>3, <2>1
    <1>8. ASSUME reclaimAll(s) PROVE MethodOf(s, id)
        BY <1>3, <1>8 DEF reclaimAll, Enter
    <1>9. jobs' # jobs /\ SessionStep(s)
        BY <1>1, <1>2
    <1>10. QED
        BY <1>4, <1>5, <1>6, <1>7, <1>8, <1>9
           DEF SessionStep, BeginMiss, BeginPrune, tableVars

-----------------------------------------------------------------------------
(* The theorems. *)

THEOREM PostgresInvariant == Spec => []IInv
    <1>1. Init => IInv
        BY DEF Init, TableInit, IInv, TableInv, RowsTyped, RowsFit, AtMostOneActive, Present,
           SessionsTyped, SessionRecord, Idle, Time
    <1>2. IInv /\ [Next]_vars => IInv'
        BY NextInv
    <1>3. QED
        BY <1>1, <1>2, PTL DEF Spec

\* The types of the rows and of what each session has read.
THEOREM TypeCorrect == Spec => []TypeOK
    <1>1. IInv => TypeOK
        BY DEF IInv, TableInv, RowsTyped, SessionsTyped, SessionRecord, TypeOK
    <1>2. QED
        BY <1>1, PostgresInvariant, PTL

\* Whatever commits between the read and the write of a method, in any number of
\* sessions, the fields of each row fit its status.
THEOREM RowsConsistent == Spec => []RowsFitStatus
    <1>1. IInv => RowsFitStatus
        BY DEF IInv, TableInv, RowsFit, RowsFitStatus
    <1>2. QED
        BY <1>1, PostgresInvariant, PTL

\* docs/invariants.md section 2 for a database shared by any number of sessions:
\* each (handler, key) has at most one active row.
THEOREM OneActivePerSlot == Spec => []AtMostOneActive
    <1>1. IInv => AtMostOneActive
        BY DEF IInv, TableInv
    <1>2. QED
        BY <1>1, PostgresInvariant, PTL

\* What a session has read of a row stays a bound on it: its version, and, while the
\* version is the same, the horizon that was not over.
THEOREM DatesHold == Spec => []Dated
    <1>1. Init => Dated
        BY DEF Init, TableInit, Dated, RowsDated, Present, Missing, Idle
    <1>2. Dated /\ IInv /\ [Next]_vars => Dated'
        <2> SUFFICES ASSUME Dated, IInv, [Next]_vars PROVE Dated'
            OBVIOUS
        <2>1. UNCHANGED vars => Dated'
            BY DEF vars, Dated, RowsDated, Missing, MissDated, Present
        <2>2. QED
            BY <2>1, OneStatementDated, SessionStepDated DEF Next
    <1>3. QED
        BY <1>1, <1>2, PostgresInvariant, PTL DEF Spec

\* Row by row, the methods of several statements are those of the table at the moment
\* they write, with the three exceptions that the property names: however many
\* sessions, and whatever they commit in between.
THEOREM MethodsAreTheTables == Spec => MethodsStepAsInTable
    <1>1. IInv /\ Dated /\ [Next]_vars =>
             [\A id \in JobId, s \in Session :
                jobs'[id] # jobs[id] /\ session'[s] # session[s] => MethodOf(s, id)]_vars
        BY MethodStep
    <1>2. QED
        BY <1>1, PostgresInvariant, DatesHold, PTL DEF Spec, MethodsStepAsInTable
=============================================================================
