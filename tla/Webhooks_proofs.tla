---------------------------- MODULE Webhooks_proofs ----------------------------
(***************************************************************************)
(* What the webhook execution path guarantees for every number of hooks,   *)
(* requests and faults.                                                    *)
(*                                                                         *)
(* WakeDelivery: a row is stranded only after one of the listed leaks, and *)
(* it is never closed behind the back of a request that was accepted.  Both*)
(* follow from one inductive invariant, IInv.  It is proved by kinds of    *)
(* steps: a delivery that moves on, a client call that moves on, a write to*)
(* the row beside both, and the few steps that name a new hook.            *)
(*                                                                         *)
(* HookBudget: the hook on a waiting row has a delivery for each attempt   *)
(* that is left.  Its invariant, BudgetInv, is proved by kinds of steps    *)
(* too: those that leave nobody running (the row ended, waits for a new    *)
(* hook, or a delivery was wasted), and the start, the retry and the events*)
(* that keep the hook.                                                     *)
(***************************************************************************)
EXTENDS WakeDelivery, HookBudget, JobRow_proofs

WakeRecord == [pc : DeliveryPc, version : Nat, attempt : Nat, new : Ref \cup {None}]
ClientRecord == [pc : ClientPc, kind : Kind, version : Nat,
                 new : Ref \cup {None}, old : Ref \cup {None}]

-----------------------------------------------------------------------------
(* The inductive invariant. *)

\* The types of all but the end of the window, which only Dispatch looks at.
ProcessesTyped ==
    /\ job \in Job \cup {None}
    /\ hooks \in SUBSET Ref
    /\ wake \in [Ref -> WakeRecord] /\ client \in ClientRecord
    /\ requests \in 0 .. MaxRequests /\ faults \in 0 .. MaxFaults
    /\ fresh \in SUBSET Ref /\ started \in BOOLEAN /\ leaks \in SUBSET Leak

\* The model's own counters and history.
BookTypes ==
    /\ requests \in 0 .. MaxRequests /\ faults \in 0 .. MaxFaults
    /\ fresh \in SUBSET Ref /\ started \in BOOLEAN /\ leaks \in SUBSET Leak

RowInv == Exists => job \in Job /\ RowFits(job) /\ job.maxAttempts # 0

\* Before the insert nobody works on the row; after it, what deliveries and calls
\* have read of it is no younger than the row.
SnapshotsOld ==
    /\ \A r \in Ref : wake[r].pc # "idle" => Exists /\ wake[r].version <= job.version
    /\ client.pc = "insert" => ~ Exists
    /\ client.pc \notin {"idle", "insert"} => Exists /\ client.version <= job.version

\* A run that holds the claim of the present version began after the latest request.
RunsFresh ==
    /\ fresh # {} => started = TRUE
    /\ \A r \in Ref : Exists /\ wake[r].version = job.version =>
          /\ wake[r].pc = "handler" => r \in fresh
          /\ wake[r].pc \in {"claimTerminal", "failTerminal"} => started = TRUE
    /\ Exists /\ job.status = "running" /\ job.claimedVersion = job.version =>
          started = TRUE \/ (client.pc = "fail" /\ client.version = job.version)

\* Hooks that are about to be named on the row: each by one process only.
NewsApart ==
    /\ \A r \in Ref : wake[r].new # None <=> wake[r].pc = "store"
    /\ client.new # None <=> client.pc \in {"insert", "store"}
    /\ \A r, s \in Ref : wake[r].new # None /\ wake[r].new = wake[s].new => r = s
    /\ \A r \in Ref : wake[r].new # None =>
          /\ wake[r].new # client.new /\ wake[r].new # client.old
          /\ Exists => job.schedulerRef # wake[r].new
    /\ client.new # None =>
          /\ client.new # client.old
          /\ Exists => job.schedulerRef # client.new

\* If such a hook is being delivered, its delivery has read the row later, and it
\* makes a hook of its own only after it has moved the row on.
Younger(x, version) ==
    wake[x].pc # "idle" =>
        /\ wake[x].version >= version
        /\ wake[x].pc \in {"schedule", "store"} => wake[x].version > version
NewsYounger ==
    /\ \A r, x \in Ref : wake[r].new = x => Younger(x, wake[r].version)
    /\ \A x \in Ref : client.new = x => Younger(x, client.version)

\* A call that ends by naming a hook on the row, or failing the row, or leaking.
MaterializingPc == {"schedule", "store", "failClaim", "fail"}
Materializing == client.pc \in MaterializingPc

\* While no wake has leaked, a call makes one or a hook of the active row is there;
\* and a hook that is about to be named is still there, unless the row moved on.
WakesHeld ==
    leaks = {} =>
        /\ Active => Materializing \/ \E r \in hooks : job.schedulerRef \in {None, r}
        /\ client.pc = "insert" => client.new \in hooks
        /\ Active /\ client.pc = "store" /\ client.version = job.version => client.new \in hooks
        /\ \A r \in Ref : Active /\ wake[r].pc = "store" /\ wake[r].version = job.version
              => wake[r].new \in hooks

IInv == ProcessesTyped /\ RowInv /\ SnapshotsOld /\ RunsFresh /\ NewsApart /\ NewsYounger /\ WakesHeld

-----------------------------------------------------------------------------
(* What a write does to the fields the invariant looks at. *)

\* A write of a stored row that names no hook, and revives it only as a new version.
Moves(old, new) ==
    /\ new \in Job /\ RowFits(new) /\ new.maxAttempts # 0
    /\ new.schedulerRef \in {old.schedulerRef, None}
    /\ new.version >= old.version
    /\ IsActive(new) => IsActive(old) \/ new.version > old.version

Stored(row) == row \in Job /\ RowFits(row) /\ row.maxAttempts # 0

Named(row, ref, maxAttempts) == row.schedulerRef = ref /\ row.maxAttempts = maxAttempts

\* The hook and the budget on the row each operator returns.
LEMMA NameEffects ==
    ASSUME NEW row \in Job
    PROVE  /\ \A now : /\ Named(markRunningRow(row, now), row.schedulerRef, row.maxAttempts)
                       /\ Named(markCompletedRow(row, now), row.schedulerRef, row.maxAttempts)
                       /\ Named(cancelJobRow(row, now), row.schedulerRef, row.maxAttempts)
                       /\ Named(updatePatternEventRow(row, now),
                                row.schedulerRef, row.maxAttempts)
                       /\ Named(rescheduleJobRow(row, now), None, row.maxAttempts)
                       /\ Named(resetJobRow(row, now), None, row.maxAttempts)
           /\ \A now, reason :
                 Named(markFailedRow(row, reason, now), row.schedulerRef, row.maxAttempts)
           /\ \A now, n : /\ Named(retryJobRow(row, n, now), row.schedulerRef, row.maxAttempts)
                          /\ Named(replaceJobRow(row, now, n), None, n)
           /\ Named(requeueForNextWindowRow(row), row.schedulerRef, row.maxAttempts)
           /\ Named(rescheduleDueAtRow(row), row.schedulerRef, row.maxAttempts)
           /\ Named(reclaimRow(row), row.schedulerRef, row.maxAttempts)
           /\ \A ref : Named(updateSchedulerRefRow(row, ref), ref, row.maxAttempts)
    BY DEF Named, markRunningRow, markCompletedRow, cancelJobRow, updatePatternEventRow,
           rescheduleJobRow, resetJobRow, markFailedRow, retryJobRow, replaceJobRow,
           requeueForNextWindowRow, rescheduleDueAtRow, reclaimRow, updateSchedulerRefRow,
           resetDeferFields, Job

\* Moving the due time counts the version up; naming a hook does not.
LEMMA DueAndRefEffects ==
    ASSUME NEW row \in Job
    PROVE  /\ Claimed(rescheduleDueAtRow(row), row.status, row.version + 1,
                      row.claimedVersion, row.attempt)
           /\ \A ref : Claimed(updateSchedulerRefRow(row, ref), row.status, row.version,
                               row.claimedVersion, row.attempt)
    BY DEF Claimed, rescheduleDueAtRow, updateSchedulerRefRow, Job

\* A write that keeps the row, its budget and its hook, and not an older version.
LEMMA KeepsMoves ==
    ASSUME NEW old \in Job, NEW new, Keeps(old, new), new.version >= old.version,
           new.schedulerRef \in {old.schedulerRef, None}, new.maxAttempts # 0
    PROVE  Moves(old, new)
    BY DEF Moves, Keeps

\* Claiming a row and settling the claim.
LEMMA SettleMoves ==
    ASSUME NEW row, Stored(row)
    PROVE  /\ \A version : \A now \in Time :
                 CanMarkRunning(row, version) => Moves(row, markRunningRow(row, now))
           /\ \A version : \A now \in Time :
                 CanMarkCompleted(row, version) => Moves(row, markCompletedRow(row, now))
           /\ \A now \in Time : CanCancelJob(row) => Moves(row, cancelJobRow(row, now))
           /\ \A version : \A now \in Time :
                 CanRescheduleJob(row, version) => Moves(row, rescheduleJobRow(row, now))
           /\ \A version : \A reason \in FailureReason, now \in Time :
                 CanMarkFailed(row, version) => Moves(row, markFailedRow(row, reason, now))
           /\ \A version : \A n \in Nat, now \in Time :
                 CanRetryJob(row, version) => Moves(row, retryJobRow(row, n, now))
    <1> USE DEF Stored
    <1>n. row.version \in Nat
        BY DEF Job
    <1>1. ASSUME NEW version, NEW now \in Time, CanMarkRunning(row, version)
          PROVE  Moves(row, markRunningRow(row, now))
        <2>1. Claimed(markRunningRow(row, now), "running", row.version, row.version, row.attempt)
            BY ClaimEffects
        <2>2. markRunningRow(row, now).version >= row.version
            BY <2>1, <1>n DEF Claimed
        <2>3. Keeps(row, markRunningRow(row, now))
            BY <1>1, MarkRunningKeeps
        <2>4. QED
            BY <2>2, <2>3, NameEffects, KeepsMoves DEF Named
    <1>2. ASSUME NEW version, NEW now \in Time, CanMarkCompleted(row, version)
          PROVE  Moves(row, markCompletedRow(row, now))
        <2>1. Claimed(markCompletedRow(row, now), "completed", row.version, row.claimedVersion, row.attempt)
            BY ClaimEffects
        <2>2. markCompletedRow(row, now).version >= row.version
            BY <2>1, <1>n DEF Claimed
        <2>3. Keeps(row, markCompletedRow(row, now))
            BY <1>2, MarkCompletedKeeps
        <2>4. QED
            BY <2>2, <2>3, NameEffects, KeepsMoves DEF Named
    <1>3. ASSUME NEW now \in Time, CanCancelJob(row)
          PROVE  Moves(row, cancelJobRow(row, now))
        <2>1. Claimed(cancelJobRow(row, now), "cancelled", row.version, row.claimedVersion, row.attempt)
            BY ClaimEffects
        <2>2. cancelJobRow(row, now).version >= row.version
            BY <2>1, <1>n DEF Claimed
        <2>3. Keeps(row, cancelJobRow(row, now))
            BY <1>3, CancelKeeps
        <2>4. QED
            BY <2>2, <2>3, NameEffects, KeepsMoves DEF Named
    <1>4. ASSUME NEW version, NEW now \in Time, CanRescheduleJob(row, version)
          PROVE  Moves(row, rescheduleJobRow(row, now))
        <2>1. Claimed(rescheduleJobRow(row, now), "pending", row.version + 1, None, 0)
            BY VersionEffects
        <2>2. rescheduleJobRow(row, now).version >= row.version
            BY <2>1, <1>n DEF Claimed
        <2>3. Keeps(row, rescheduleJobRow(row, now))
            BY <1>4, RescheduleKeeps
        <2>4. QED
            BY <2>2, <2>3, NameEffects, KeepsMoves DEF Named
    <1>5. ASSUME NEW version, NEW reason \in FailureReason, NEW now \in Time,
                 CanMarkFailed(row, version)
          PROVE  Moves(row, markFailedRow(row, reason, now))
        <2>1. Claimed(markFailedRow(row, reason, now), "failed", row.version, row.claimedVersion, row.attempt)
            BY ClaimEffects
        <2>2. markFailedRow(row, reason, now).version >= row.version
            BY <2>1, <1>n DEF Claimed
        <2>3. Keeps(row, markFailedRow(row, reason, now))
            BY <1>5, MarkFailedKeeps
        <2>4. QED
            BY <2>2, <2>3, NameEffects, KeepsMoves DEF Named
    <1>6. ASSUME NEW version, NEW n \in Nat, NEW now \in Time, CanRetryJob(row, version)
          PROVE  Moves(row, retryJobRow(row, n, now))
        <2>1. Claimed(retryJobRow(row, n, now), "pending", row.version, None, n)
            BY ClaimEffects
        <2>2. retryJobRow(row, n, now).version >= row.version
            BY <2>1, <1>n DEF Claimed
        <2>3. Keeps(row, retryJobRow(row, n, now))
            BY <1>6, RetryKeeps
        <2>4. QED
            BY <2>2, <2>3, NameEffects, KeepsMoves DEF Named
    <1>7. QED
        BY <1>1, <1>2, <1>3, <1>4, <1>5, <1>6

\* Moving a row to another due time or to its next window.
LEMMA WindowMoves ==
    ASSUME NEW row, Stored(row)
    PROVE  /\ \A version : CanRescheduleDueAt(row, version) =>
                 Moves(row, rescheduleDueAtRow(row))
           /\ CanRequeueForNextWindow(row) => Moves(row, requeueForNextWindowRow(row))
           /\ row.status = "running" => Moves(row, reclaimRow(row))
           /\ \A wait, maxWait : \A kind \in Kind \ {"once"}, now \in Time :
                 CanUpdatePatternEvent(row, kind, wait, maxWait) =>
                    Moves(row, updatePatternEventRow(row, now))
    <1> USE DEF Stored
    <1>n. row.version \in Nat
        BY DEF Job
    <1>1. ASSUME NEW version, CanRescheduleDueAt(row, version)
          PROVE  Moves(row, rescheduleDueAtRow(row))
        BY <1>1, RescheduleDueAtKeeps, DueAndRefEffects, NameEffects, KeepsMoves, <1>n
           DEF Claimed, Named
    <1>2. ASSUME CanRequeueForNextWindow(row) PROVE Moves(row, requeueForNextWindowRow(row))
        <2>1. Claimed(requeueForNextWindowRow(row), "pending", row.version + 1, None, 0)
            BY VersionEffects
        <2>2. QED
            BY <1>2, <2>1, RequeueKeeps, NameEffects, KeepsMoves, <1>n DEF Claimed, Named
    <1>3. ASSUME row.status = "running" PROVE Moves(row, reclaimRow(row))
        <2>1. reclaimRow(row).version \in {row.version, row.version + 1}
            BY ReclaimEffects DEF Claimed
        <2>2. QED
            BY <1>3, <2>1, ReclaimKeeps, NameEffects, KeepsMoves, <1>n DEF Named
    <1>4. ASSUME NEW kind \in Kind \ {"once"}, NEW wait, NEW maxWait, NEW now \in Time,
                 CanUpdatePatternEvent(row, kind, wait, maxWait)
          PROVE  Moves(row, updatePatternEventRow(row, now))
        <2>1. Keeps(row, updatePatternEventRow(row, now))
            BY <1>4, PatternEventKeeps
        <2>2. updatePatternEventRow(row, now).version = row.version + 1
            BY VersionEffects DEF Claimed
        <2>3. QED
            BY <2>1, <2>2, NameEffects, KeepsMoves, <1>n DEF Named
    <1>5. QED
        BY <1>1, <1>2, <1>3, <1>4

\* A replace and a manual retry: a new version that names no hook.
LEMMA RequestMoves ==
    ASSUME NEW row, Stored(row), NEW now \in Time, NEW n \in Nat \ {0}
    PROVE  /\ CanReplaceJob(row) => Moves(row, replaceJobRow(row, now, n))
           /\ CanResetJob(row) => Moves(row, resetJobRow(row, now))
    <1> USE DEF Stored
    <1>n. row.version \in Nat
        BY DEF Job
    <1>1. CanReplaceJob(row) => Moves(row, replaceJobRow(row, now, n))
        <2>1. replaceJobRow(row, now, n).version = row.version + 1
            BY VersionEffects DEF Claimed
        <2>2. QED
            BY <2>1, ReplaceKeeps, NameEffects, KeepsMoves, <1>n DEF Named
    <1>2. CanResetJob(row) => Moves(row, resetJobRow(row, now))
        <2>1. resetJobRow(row, now).version = row.version + 1
            BY VersionEffects DEF Claimed
        <2>2. QED
            BY <2>1, ResetJobRevives, NameEffects, <1>n DEF Named, Moves
    <1>3. QED
        BY <1>1, <1>2

-----------------------------------------------------------------------------
(* The kinds of steps that name no hook. *)

RowKept == job' = job \/ (Exists /\ Moves(job, job'))

\* The history after a step: a run of the present version stays fresh unless it is
\* r's own, and what the step claims for a run, a run has begun.
HistoryKept(r) ==
    /\ fresh' # {} => started' = TRUE
    /\ \/ fresh \ {r} \subseteq fresh' /\ (started = TRUE => started' = TRUE)
       \/ Exists /\ job'.version > job.version
    /\ leaks \subseteq leaks'

\* What a step of delivery r leaves beside its record and the hooks.
Beside(r) ==
    /\ UNCHANGED client
    /\ BookTypes'
    /\ RowKept /\ (Active' => Active)
    /\ HistoryKept(r)
    /\ job' # job /\ job'.status = "running" => started' = TRUE

\* Hooks go only from a settled row, or with a leak, but for r itself when the row
\* waits for others and nobody is about to name it.
HooksKept(r) ==
    \/ hooks' = hooks
    \/ hooks' \subseteq hooks /\ (leaks' # {} \/ (Exists /\ ~ IsActive(job')))
    \/ /\ hooks' = hooks \ {r} /\ job' = job
       /\ ~ Unnamed(r) /\ (Active => job.schedulerRef \notin {None, r})

\* A delivery moves on, or ends, with or without a write to the row.
WorkStep(r, next) ==
    /\ Beside(r)
    /\ wake' = [wake EXCEPT ![r] = next]
    /\ next \in WakeRecord /\ next.new = None /\ next.pc # "store"
    /\ next.pc # "idle" =>
          /\ Exists /\ next.version <= job'.version
          /\ \/ next.version >= job.version
             \/ wake[r].pc # "idle" /\ next.version = wake[r].version
    /\ next.pc = "schedule" => next.version > job.version
    /\ HooksKept(r)
    /\ next.pc = "handler" => r \in fresh'
    /\ next.pc \in {"claimTerminal", "failTerminal"} => started' = TRUE

\* A row that may be written keeps its type, its consistency and its budget.
LEMMA RowStays ==
    ASSUME IInv, RowKept
    PROVE  /\ RowInv' /\ job' \in Job \cup {None}
           /\ Exists' <=> Exists
           /\ Exists => /\ job.version \in Nat /\ job'.version \in Nat
                        /\ job'.version >= job.version
                        /\ job'.schedulerRef \in {job.schedulerRef, None}
           /\ Active' => Active \/ (Exists /\ job'.version > job.version)
    <1>1. Exists => job \in Job /\ job.version \in Nat
        BY DEF IInv, RowInv, Job
    <1>2. CASE job' = job
        BY <1>1, <1>2 DEF IInv, ProcessesTyped, RowInv, Exists, Active
    <1>3. CASE Exists /\ Moves(job, job')
        <2>1. job' \in Job /\ RowFits(job') /\ job'.maxAttempts # 0
            BY <1>3 DEF Moves
        <2>2. Exists' /\ job'.version \in Nat
            BY <2>1, WakeAssumption DEF Exists, Job
        <2>3. QED
            BY <1>1, <1>3, <2>1, <2>2 DEF Moves, RowInv, Active
    <1>4. QED
        BY <1>2, <1>3 DEF RowKept

\* The typing of the processes.
LEMMA ProcessTypes ==
    ASSUME IInv
    PROVE  /\ wake \in [Ref -> WakeRecord] /\ client \in ClientRecord
           /\ \A r \in Ref : wake[r].version \in Nat
           /\ client.version \in Nat
    BY DEF IInv, ProcessesTyped, WakeRecord, ClientRecord

\* Whoever holds a new hook is at work on a row that is there, or about to insert it.
LEMMA HoldersAtWork ==
    ASSUME IInv
    PROVE  /\ \A s \in Ref : wake[s].new # None =>
                 wake[s].pc = "store" /\ Exists /\ wake[s].version <= job.version
           /\ client.new # None /\ Exists =>
                 client.pc = "store" /\ client.version <= job.version
    BY DEF IInv, NewsApart, SnapshotsOld

\* A delivery that moves on keeps the types and the row.
LEMMA WorkKeepsTypes ==
    ASSUME IInv, NEW r \in Ref, NEW next, WorkStep(r, next)
    PROVE  ProcessesTyped' /\ RowInv'
    <1>1. RowInv' /\ job' \in Job \cup {None}
        BY RowStays DEF WorkStep, Beside
    <1>2. wake' \in [Ref -> WakeRecord]
        BY ProcessTypes DEF WorkStep, Beside
    <1>3. hooks' \in SUBSET Ref
        BY DEF WorkStep, Beside, HooksKept, IInv, ProcessesTyped
    <1>4. client' \in ClientRecord /\ BookTypes'
        BY ProcessTypes DEF WorkStep, Beside
    <1>5. QED
        BY <1>1, <1>2, <1>3, <1>4 DEF ProcessesTyped, BookTypes, WakeRecord, ClientRecord

\* Only the record of that delivery changes.
LEMMA OneWake ==
    ASSUME IInv, NEW r \in Ref, NEW next, wake' = [wake EXCEPT ![r] = next]
    PROVE  wake'[r] = next /\ \A s \in Ref : s # r => wake'[s] = wake[s]
    BY ProcessTypes

LEMMA WorkKeepsSnapshots ==
    ASSUME IInv, NEW r \in Ref, NEW next, WorkStep(r, next)
    PROVE  SnapshotsOld'
    <1>1. /\ Exists' <=> Exists
          /\ Exists => /\ job.version \in Nat /\ job'.version \in Nat
                       /\ job'.version >= job.version
        BY RowStays DEF WorkStep, Beside
    <1>2. ASSUME NEW s \in Ref, wake'[s].pc # "idle"
          PROVE  Exists' /\ wake'[s].version <= job'.version
        <2>1. CASE s = r
            <3>1. wake'[s] = next
                BY <2>1, OneWake DEF WorkStep, Beside
            <3>2. Exists /\ next.version <= job'.version
                BY <1>2, <3>1 DEF WorkStep, Beside
            <3>3. QED
                BY <1>1, <3>1, <3>2
        <2>2. CASE s # r
            <3>1. wake'[s] = wake[s] /\ wake[s].version \in Nat
                BY <2>2, OneWake, ProcessTypes DEF WorkStep, Beside
            <3>2. Exists /\ wake[s].version <= job.version
                BY <1>2, <3>1 DEF IInv, SnapshotsOld
            <3>3. QED
                BY <1>1, <3>1, <3>2
        <2>3. QED
            BY <2>1, <2>2
    <1>3. client' = client /\ client.version \in Nat
        BY ProcessTypes DEF WorkStep, Beside
    <1>4. QED
        BY <1>1, <1>2, <1>3 DEF IInv, SnapshotsOld

LEMMA WorkKeepsFresh ==
    ASSUME IInv, NEW r \in Ref, NEW next, WorkStep(r, next)
    PROVE  RunsFresh'
    <1>1. /\ Exists' <=> Exists
          /\ Exists => /\ job.version \in Nat /\ job'.version \in Nat
                       /\ job'.version >= job.version
        BY RowStays DEF WorkStep, Beside
    <1>2. ASSUME NEW s \in Ref, Exists', wake'[s].version = job'.version
          PROVE  /\ wake'[s].pc = "handler" => s \in fresh'
                 /\ wake'[s].pc \in {"claimTerminal", "failTerminal"} => started' = TRUE
        <2>1. CASE s = r
            BY <2>1, OneWake DEF WorkStep, Beside
        <2>2. CASE s # r /\ wake[s].pc # "idle"
            <3>1. wake'[s] = wake[s] /\ wake[s].version \in Nat
                BY <2>2, OneWake, ProcessTypes DEF WorkStep, Beside
            <3>2. Exists /\ wake[s].version <= job.version
                BY <2>2 DEF IInv, SnapshotsOld
            <3>3. wake[s].version = job.version /\ job'.version = job.version
                BY <1>1, <1>2, <3>1, <3>2
            <3>4. fresh \ {r} \subseteq fresh' /\ (started = TRUE => started' = TRUE)
                BY <1>1, <3>3 DEF WorkStep, Beside, HistoryKept
            <3>5. QED
                BY <2>2, <3>1, <3>2, <3>3, <3>4 DEF IInv, RunsFresh
        <2>3. CASE s # r /\ wake[s].pc = "idle"
            BY <2>3, OneWake DEF WorkStep, Beside
        <2>4. QED
            BY <2>1, <2>2, <2>3
    <1>3. ASSUME Exists', job'.status = "running", job'.claimedVersion = job'.version
          PROVE  started' = TRUE \/ (client'.pc = "fail" /\ client'.version = job'.version)
        <2>1. CASE job' # job
            BY <1>3, <2>1 DEF WorkStep, Beside
        <2>2. CASE job' = job
            <3>1. started = TRUE => started' = TRUE
                BY <1>1, <1>3, <2>2 DEF WorkStep, Beside, HistoryKept
            <3>2. QED
                BY <1>1, <1>3, <2>2, <3>1 DEF IInv, RunsFresh, WorkStep, Beside
        <2>3. QED
            BY <2>1, <2>2
    <1>4. fresh' # {} => started' = TRUE
        BY DEF WorkStep, Beside, HistoryKept
    <1>5. QED
        BY <1>2, <1>3, <1>4 DEF RunsFresh

LEMMA WorkKeepsApart ==
    ASSUME IInv, NEW r \in Ref, NEW next, WorkStep(r, next)
    PROVE  NewsApart'
    <1>1. /\ client' = client
          /\ wake'[r].new = None /\ wake'[r].pc # "store"
          /\ \A s \in Ref : s # r => wake'[s] = wake[s]
        BY OneWake DEF WorkStep, Beside
    <1>2. /\ Exists' <=> Exists
          /\ Exists => job'.schedulerRef \in {job.schedulerRef, None}
        BY RowStays DEF WorkStep, Beside
    <1>3. NewsApart
        BY DEF IInv
    <1>4. \A s \in Ref : wake'[s].new # None <=> wake'[s].pc = "store"
        BY <1>1, <1>3 DEF NewsApart
    <1>5. \A s, t \in Ref : wake'[s].new # None /\ wake'[s].new = wake'[t].new => s = t
        BY <1>1, <1>3 DEF NewsApart
    <1>6. ASSUME NEW s \in Ref, wake'[s].new # None
          PROVE  /\ wake'[s].new # client'.new /\ wake'[s].new # client'.old
                 /\ Exists' => job'.schedulerRef # wake'[s].new
        <2>1. wake'[s] = wake[s] /\ wake[s].new # None
            BY <1>1, <1>6
        <2>2. QED
            BY <1>1, <1>2, <1>3, <1>6, <2>1 DEF NewsApart
    <1>7. /\ client'.new # None <=> client'.pc \in {"insert", "store"}
          /\ client'.new # None => /\ client'.new # client'.old
                                   /\ Exists' => job'.schedulerRef # client'.new
        BY <1>1, <1>2, <1>3 DEF NewsApart
    <1>8. QED
        BY <1>4, <1>5, <1>6, <1>7 DEF NewsApart

LEMMA WorkKeepsYounger ==
    ASSUME IInv, NEW r \in Ref, NEW next, WorkStep(r, next)
    PROVE  NewsYounger'
    <1> DEFINE Later(x, version) ==
                  wake'[x].pc # "idle" =>
                     /\ wake'[x].version >= version
                     /\ wake'[x].pc \in {"schedule", "store"} => wake'[x].version > version
    <1>n. None \notin Ref
        BY WakeAssumption
    <1>1. /\ client' = client
          /\ wake'[r] = next /\ next.new = None /\ next.pc # "store"
          /\ \A s \in Ref : s # r => wake'[s] = wake[s]
        BY OneWake DEF WorkStep, Beside
    <1>2. Exists => job.version \in Nat
        BY RowStays DEF WorkStep, Beside
    <1>3. next.version \in Nat /\ (\A s \in Ref : wake[s].version \in Nat)
                               /\ client.version \in Nat
        BY ProcessTypes DEF WorkStep, Beside, WakeRecord
    \* What was younger stays so, and r is if it is at work on the row.
    <1>4. ASSUME NEW x \in Ref, NEW version \in Nat, Younger(x, version),
                 Exists => version <= job.version
          PROVE  Later(x, version)
        <2>1. CASE x # r
            BY <1>1, <1>4, <2>1 DEF Younger
        <2>2. CASE x = r /\ next.pc # "idle"
            <3>1. /\ Exists
                  /\ \/ next.version >= job.version
                     \/ wake[r].pc # "idle" /\ next.version = wake[r].version
                  /\ next.pc = "schedule" => next.version > job.version
                BY <2>2 DEF WorkStep, Beside
            <3>2. next.version >= version
                BY <1>2, <1>3, <1>4, <2>2, <3>1 DEF Younger
            <3>3. next.pc = "schedule" => next.version > version
                BY <1>2, <1>3, <1>4, <3>1
            <3>4. QED
                BY <1>1, <2>2, <3>2, <3>3
        <2>3. CASE x = r /\ next.pc = "idle"
            BY <1>1, <2>3
        <2>4. QED
            BY <2>1, <2>2, <2>3
    <1>5. ASSUME NEW s \in Ref, NEW x \in Ref, wake'[s].new = x
          PROVE  Later(x, wake'[s].version)
        <2>1. wake'[s] = wake[s] /\ wake[s].new = x /\ wake[s].new # None
            BY <1>1, <1>5, <1>n
        <2>2. Younger(x, wake[s].version)
            BY <2>1 DEF IInv, NewsYounger
        <2>3. Exists => wake[s].version <= job.version
            BY <2>1, HoldersAtWork
        <2>4. QED
            BY <1>3, <1>4, <2>1, <2>2, <2>3
    <1>6. ASSUME NEW x \in Ref, client'.new = x
          PROVE  Later(x, client'.version)
        <2>1. client.new = x /\ client.new # None
            BY <1>1, <1>6, <1>n
        <2>2. Younger(x, client.version)
            BY <2>1 DEF IInv, NewsYounger
        <2>3. Exists => client.version <= job.version
            BY <2>1, HoldersAtWork
        <2>4. QED
            BY <1>1, <1>3, <1>4, <2>2, <2>3
    <1>7. QED
        BY <1>5, <1>6 DEF NewsYounger, Younger

\* Unless a wake leaks, a step takes no hook away that the row waits for.
LEMMA WorkKeepsWakes ==
    ASSUME IInv, NEW r \in Ref, NEW next, WorkStep(r, next)
    PROVE  WakesHeld'
    <1>1. /\ client' = client /\ wake'[r].pc # "store"
          /\ \A s \in Ref : s # r => wake'[s] = wake[s]
        BY OneWake DEF WorkStep, Beside
    <1>2. /\ Exists' <=> Exists
          /\ Exists => /\ job.version \in Nat /\ job'.version \in Nat
                       /\ job'.version >= job.version
                       /\ job'.schedulerRef \in {job.schedulerRef, None}
          /\ Active' => Active \/ (Exists /\ job'.version > job.version)
        BY RowStays DEF WorkStep, Beside
    <1> SUFFICES ASSUME leaks' = {} PROVE
             /\ Active' => Materializing' \/ \E x \in hooks' : job'.schedulerRef \in {None, x}
             /\ client'.pc = "insert" => client'.new \in hooks'
             /\ Active' /\ client'.pc = "store" /\ client'.version = job'.version
                   => client'.new \in hooks'
             /\ \A s \in Ref : Active' /\ wake'[s].pc = "store" /\ wake'[s].version = job'.version
                   => wake'[s].new \in hooks'
        BY DEF WakesHeld
    <1>3. WakesHeld /\ leaks = {}
        BY DEF WorkStep, Beside, HistoryKept, IInv
    <1>4. \/ hooks' = hooks
          \/ Exists /\ ~ Active'
          \/ /\ hooks' = hooks \ {r} /\ job' = job /\ ~ Unnamed(r)
             /\ Active => job.schedulerRef \notin {None, r}
        BY DEF WorkStep, Beside, HooksKept, Active
    <1>5. Active' => Active
        BY DEF WorkStep, Beside
    \* A hook that a process is about to name is still there.
    <1>6. ASSUME NEW x \in hooks, Unnamed(x), Active' \/ ~ Exists'
          PROVE  x \in hooks'
        BY <1>2, <1>4, <1>6 DEF Active
    <1>7. ASSUME Active', ~ Materializing'
          PROVE  \E x \in hooks' : job'.schedulerRef \in {None, x}
        <2>1. Exists /\ Active /\ ~ Materializing
            BY <1>1, <1>5, <1>7 DEF Active, Materializing
        <2>2. PICK x \in hooks : job.schedulerRef \in {None, x}
            BY <1>3, <2>1 DEF WakesHeld
        <2>3. x \in hooks'
            BY <1>4, <1>7, <2>1, <2>2
        <2>4. QED
            BY <1>2, <2>1, <2>2, <2>3
    <1>8. ASSUME client'.pc = "insert"
          PROVE  client'.new \in hooks'
        <2>1. client.new \in hooks /\ ~ Exists /\ client.new \in Ref
            BY <1>1, <1>3, <1>8 DEF WakesHeld, IInv, SnapshotsOld, ProcessesTyped
        <2>2. Unnamed(client.new)
            BY <1>1, <1>8 DEF Unnamed
        <2>3. QED
            BY <1>1, <1>2, <1>6, <2>1, <2>2
    <1>9. ASSUME Active', client'.pc = "store", client'.version = job'.version
          PROVE  client'.new \in hooks'
        <2>1. Exists /\ client.version <= job.version /\ client.version \in Nat
            BY <1>1, <1>9, ProcessTypes DEF IInv, SnapshotsOld
        <2>2. client.new \in hooks
            BY <1>1, <1>2, <1>3, <1>5, <1>9, <2>1 DEF WakesHeld
        <2>3. Unnamed(client.new)
            BY <1>1, <1>9 DEF Unnamed
        <2>4. QED
            BY <1>1, <1>6, <1>9, <2>2, <2>3
    <1>10. ASSUME NEW s \in Ref, Active', wake'[s].pc = "store", wake'[s].version = job'.version
           PROVE  wake'[s].new \in hooks'
        <2>1. wake'[s] = wake[s]
            BY <1>1, <1>10
        <2>2. Exists /\ wake[s].version <= job.version /\ wake[s].version \in Nat
            BY <1>10, <2>1, ProcessTypes DEF IInv, SnapshotsOld
        <2>3. wake[s].new \in hooks
            BY <1>2, <1>3, <1>5, <1>10, <2>1, <2>2 DEF WakesHeld
        <2>4. Unnamed(wake[s].new)
            BY DEF Unnamed
        <2>5. QED
            BY <1>6, <1>10, <2>1, <2>3, <2>4
    <1>11. QED
        BY <1>7, <1>8, <1>9, <1>10

\* A delivery that moves on keeps the invariant.
LEMMA WorkKeepsIInv ==
    ASSUME IInv, NEW r \in Ref, NEW next, WorkStep(r, next)
    PROVE  IInv'
    BY WorkKeepsTypes, WorkKeepsSnapshots, WorkKeepsFresh, WorkKeepsApart,
       WorkKeepsYounger, WorkKeepsWakes DEF IInv

-----------------------------------------------------------------------------
(* The ways a delivery's record moves. *)

\* It takes a new reading of the row with it.
LEMMA GotoAtKeepsIInv ==
    ASSUME IInv, NEW r \in Ref, NEW pc \in DeliveryPc \ {"idle", "store", "handler"},
           Exists, Beside(r), GotoAt(r, pc, job'), hooks' = hooks,
           pc = "schedule" => job'.version > job.version,
           pc \in {"claimTerminal", "failTerminal"} => started' = TRUE
    PROVE  IInv'
    <1> DEFINE next == [pc |-> pc, version |-> job'.version, attempt |-> job'.attempt,
                        new |-> None]
    <1>1. /\ job'.version \in Nat /\ job.version \in Nat
          /\ job'.version >= job.version /\ RowInv' /\ Exists'
        BY RowStays DEF Beside
    <1>2. job'.attempt \in Nat
        BY <1>1 DEF RowInv, Job
    <1>3. /\ next \in WakeRecord /\ next.pc = pc /\ next.version = job'.version
          /\ next.new = None
        BY <1>1, <1>2 DEF WakeRecord
    <1>4. wake' = [wake EXCEPT ![r] = next]
        BY DEF GotoAt
    <1> HIDE DEF next
    <1>5. WorkStep(r, next)
        BY <1>1, <1>3, <1>4 DEF WorkStep, HooksKept
    <1>6. QED
        BY <1>5, WorkKeepsIInv

\* It goes on with the reading it has.
LEMMA GotoKeepsIInv ==
    ASSUME IInv, NEW r \in Ref, NEW pc \in DeliveryPc \ {"idle", "store", "schedule"},
           wake[r].pc \notin {"idle", "store"}, Beside(r), Goto(r, pc), hooks' = hooks,
           pc = "handler" => r \in fresh',
           pc \in {"claimTerminal", "failTerminal"} => started' = TRUE
    PROVE  IInv'
    <1> DEFINE next == [wake[r] EXCEPT !.pc = pc]
    <1>1. wake[r] \in WakeRecord /\ wake \in [Ref -> WakeRecord]
        BY ProcessTypes
    <1>2. wake[r].new = None
        BY DEF IInv, NewsApart
    <1>3. /\ next \in WakeRecord /\ next.pc = pc /\ next.version = wake[r].version
          /\ next.new = None /\ next.version \in Nat
        BY <1>1, <1>2 DEF WakeRecord
    <1>4. wake' = [wake EXCEPT ![r] = next]
        BY DEF Goto
    <1> HIDE DEF next
    <1>5. Exists /\ wake[r].version <= job.version
        BY DEF IInv, SnapshotsOld
    <1>6. job'.version \in Nat /\ job.version \in Nat /\ job'.version >= job.version
        BY <1>5, RowStays DEF Beside
    <1>7. WorkStep(r, next)
        BY <1>3, <1>4, <1>5, <1>6 DEF WorkStep, HooksKept
    <1>8. QED
        BY <1>7, WorkKeepsIInv

\* It ends, and the hook stays or has done its work.
LEMMA EndKeepsIInv ==
    ASSUME IInv, NEW r \in Ref, Beside(r), wake' = [wake EXCEPT ![r] = IdleWake], HooksKept(r)
    PROVE  IInv'
    <1>1. IdleWake \in WakeRecord /\ IdleWake.new = None /\ IdleWake.pc = "idle"
        BY DEF IdleWake, WakeRecord, DeliveryPc
    <1>2. WorkStep(r, IdleWake)
        BY <1>1 DEF WorkStep
    <1>3. QED
        BY <1>2, WorkKeepsIInv

\* The bounded counters of the model.
Counted == requests \in 0 .. MaxRequests /\ faults \in 0 .. MaxFaults

\* A step that leaves the history of the row alone, but for a leak.
LEMMA BesideQuiet ==
    ASSUME IInv, NEW r \in Ref, UNCHANGED <<client, fresh, started>>, Counted',
           leaks' \in SUBSET Leak, leaks \subseteq leaks',
           RowKept, Active' => Active,
           job' # job /\ job'.status = "running" => started = TRUE
    PROVE  Beside(r)
    BY DEF Beside, BookTypes, HistoryKept, IInv, ProcessesTyped, RunsFresh, Counted

LEMMA CountersStay ==
    ASSUME IInv, UNCHANGED <<requests, faults>>
    PROVE  Counted'
    BY DEF IInv, ProcessesTyped, Counted

LEMMA CountersStep ==
    ASSUME IInv
    PROVE  /\ Request /\ faults' = faults => Counted'
           /\ Fault /\ requests' = requests => Counted'
    <1>1. requests \in 0 .. MaxRequests /\ faults \in 0 .. MaxFaults
        BY DEF IInv, ProcessesTyped
    <1>2. MaxRequests \in Nat /\ MaxFaults \in Nat
        BY WakeAssumption
    <1>3. QED
        BY <1>1, <1>2 DEF Request, Fault, Counted

\* An answer of 200 that does nothing for the row.
LEMMA SkipKeepsIInv ==
    ASSUME IInv, NEW r \in Ref, NEW how \in Leak, wake[r].pc # "idle",
           Skip(r, how), client' = client, Counted'
    PROVE  IInv'
    <1>1. Exists
        BY DEF IInv, SnapshotsOld
    <1>2. leaks' \in SUBSET Leak /\ leaks \subseteq leaks'
        BY DEF Skip, IInv, ProcessesTyped
    <1>3. job' = job /\ (Active' => Active) /\ RowKept
        BY DEF Skip, Active, Exists, RowKept
    <1>4. Beside(r)
        BY <1>2, <1>3, BesideQuiet DEF Skip
    <1>5. leaks' # {} \/ (Exists /\ ~ IsActive(job'))
        BY <1>1, <1>3 DEF Skip, Active
    <1>6. QED
        BY <1>4, <1>5, EndKeepsIInv DEF Skip, Ok, HooksKept

-----------------------------------------------------------------------------
(* The steps of a delivery. *)

\* The row that a delivery or a call works on is there.
LEMMA StoredRow ==
    ASSUME IInv, Exists
    PROVE  Stored(job) /\ job.version \in Nat /\ Now \in Time
    BY WakeAssumption DEF IInv, RowInv, Stored, Job, ProcessesTyped, Now, Time

LEMMA Working ==
    ASSUME IInv, NEW r \in Ref, wake[r].pc # "idle"
    PROVE  /\ Exists /\ Stored(job) /\ job.version \in Nat /\ Now \in Time
           /\ wake[r].version \in Nat /\ wake[r].version <= job.version
    BY StoredRow, ProcessTypes DEF IInv, SnapshotsOld

\* A quiet write of a row that was active.
LEMMA WriteBeside ==
    ASSUME IInv, NEW r \in Ref, Exists, Moves(job, job'), IsActive(job),
           UNCHANGED <<client, requests, faults, fresh, started, leaks>>,
           job'.status = "running" => started = TRUE
    PROVE  Beside(r)
    <1>1. RowKept /\ Active
        BY DEF RowKept, Active
    <1>2. leaks' \in SUBSET Leak /\ leaks \subseteq leaks'
        BY DEF IInv, ProcessesTyped
    <1>3. QED
        BY <1>1, <1>2, CountersStay, BesideQuiet

LEMMA DeliverKeepsIInv ==
    ASSUME IInv, NEW r \in Ref, Deliver(r)
    PROVE  IInv'
    <1>1. job' = job /\ RowKept /\ (Active' => Active)
        BY DEF Deliver, RowKept, Active, Exists
    <1>2. leaks' \in SUBSET Leak /\ leaks \subseteq leaks'
        BY DEF Deliver, IInv, ProcessesTyped, Leak
    <1>3. Beside(r)
        <2>1. UNCHANGED <<client, requests, faults, fresh, started>>
            BY DEF Deliver
        <2>2. QED
            BY <1>1, <1>2, <2>1, CountersStay, BesideQuiet
    <1>4. CASE Active /\ job.schedulerRef \in {None, r}
        <2>1. GotoAt(r, "execute", job') /\ hooks' = hooks /\ Exists
            BY <1>1, <1>4 DEF Deliver, GotoAt, Active
        <2>2. QED
            BY <1>3, <2>1, GotoAtKeepsIInv DEF DeliveryPc
    <1>5. CASE ~ (Active /\ job.schedulerRef \in {None, r})
        <2>1. Ok(r) /\ (Unnamed(r) => leaks' # {})
            BY <1>5 DEF Deliver
        <2>2. QED
            BY <1>1, <1>3, <1>5, <2>1, EndKeepsIInv DEF Ok, HooksKept
    <1>6. QED
        BY <1>4, <1>5

\* Dispatch goes to one of two places with the row it was given.
LEMMA DispatchKeepsIInv ==
    ASSUME IInv, NEW r \in Ref, Exists, Beside(r), Dispatch(r, job'), hooks' = hooks
    PROVE  IInv'
    <1>1. PICK pc \in {"claim", "resettle"} : GotoAt(r, pc, job')
        BY DEF Dispatch
    <1>2. pc \in DeliveryPc \ {"idle", "store", "handler"}
        BY DEF DeliveryPc
    <1>3. QED
        BY <1>1, <1>2, GotoAtKeepsIInv

LEMMA ExecuteKeepsIInv ==
    ASSUME IInv, NEW r \in Ref, Execute(r)
    PROVE  IInv'
    <1>1. wake[r].pc # "idle" /\ Exists
        BY Working DEF Execute, At
    <1>2. CASE Skip(r, "version moved")
        BY <1>1, <1>2, CountersStay, SkipKeepsIInv DEF Execute, Leak
    <1>3. CASE /\ GotoAt(r, "reclaim", job) \/ Dispatch(r, job)
               /\ UNCHANGED <<job, hooks, history>>
        <2>1. Beside(r)
            <3>1. RowKept /\ (Active' => Active) /\ leaks' \in SUBSET Leak
                BY <1>3 DEF RowKept, Active, Exists, history, IInv, ProcessesTyped
            <3>2. UNCHANGED <<client, requests, faults, fresh, started, leaks, job>>
                BY <1>3 DEF Execute, history
            <3>3. QED
                BY <3>1, <3>2, CountersStay, BesideQuiet
        <2>2. GotoAt(r, "reclaim", job') \/ Dispatch(r, job')
            BY <1>3 DEF GotoAt, Dispatch
        <2>3. "reclaim" \in DeliveryPc \ {"idle", "store", "handler"}
            BY DEF DeliveryPc
        <2>4. QED
            BY <1>1, <1>3, <2>1, <2>2, <2>3, GotoAtKeepsIInv, DispatchKeepsIInv
    <1>4. QED
        BY <1>2, <1>3 DEF Execute

\* A claim that nobody works on, not left behind by events, is of a run that began.
LEMMA StalledClaimStarted ==
    ASSUME IInv, Exists, job.status = "running", ~ Held, ~ VersionAdvanced(job)
    PROVE  started = TRUE
    <1>1. job \in Job /\ ClaimMatches(job)
        BY DEF IInv, RowInv, RowFits
    <1>2. job.claimedVersion = job.version
        BY <1>1 DEF ClaimMatches, VersionAdvanced, Job
    <1>3. client.pc # "fail"
        BY DEF Held
    <1>4. QED
        BY <1>2, <1>3 DEF IInv, RunsFresh

LEMMA ReclaimKeepsIInv ==
    ASSUME IInv, NEW r \in Ref, Reclaim(r)
    PROVE  IInv'
    <1>1. wake[r].pc # "idle" /\ Exists /\ Stored(job)
        BY Working DEF Reclaim, At
    <1>2. CASE Skip(r, "still running")
        BY <1>1, <1>2, CountersStay, SkipKeepsIInv DEF Reclaim, Leak
    <1>3. CASE /\ job.status = "running" /\ ~ Held
               /\ SetRow(reclaimRow(job))
               /\ IF job'.attempt >= job'.maxAttempts THEN GotoAt(r, "claimTerminal", job')
                  ELSE Dispatch(r, job')
               /\ UNCHANGED <<hooks, history>>
        <2>1. job' = reclaimRow(job) /\ Moves(job, job') /\ IsActive(job)
            BY <1>1, <1>3, WindowMoves DEF SetRow, IsActive, ACTIVE_STATUSES
        <2>2. job'.status = "pending"
            BY <1>1, <2>1, ReclaimEffects DEF Claimed, Stored
        <2>3. UNCHANGED <<client, requests, faults, fresh, started, leaks>>
            BY <1>3 DEF Reclaim, history
        <2>4. Beside(r)
            BY <1>1, <2>1, <2>2, <2>3, WriteBeside
        <2>5. CASE job'.attempt >= job'.maxAttempts
            <3>1. GotoAt(r, "claimTerminal", job')
                BY <1>3, <2>5
            <3>2. ~ VersionAdvanced(job)
                <4>1. job' \in Job /\ job'.maxAttempts # 0
                    BY <2>1 DEF Moves
                <4>2. job'.attempt # 0
                    BY <2>5, <4>1 DEF Job
                <4>3. QED
                    BY <1>1, <2>1, <4>2, ReclaimEffects DEF Claimed, Stored
            <3>3. started' = TRUE
                BY <1>1, <1>3, <2>3, <3>2, StalledClaimStarted
            <3>4. QED
                BY <1>1, <1>3, <2>4, <3>1, <3>3, GotoAtKeepsIInv DEF DeliveryPc
        <2>6. CASE ~ (job'.attempt >= job'.maxAttempts)
            BY <1>1, <1>3, <2>4, <2>6, DispatchKeepsIInv
        <2>7. QED
            BY <2>5, <2>6
    <1>4. QED
        BY <1>2, <1>3 DEF Reclaim

LEMMA ClaimTerminalKeepsIInv ==
    ASSUME IInv, NEW r \in Ref, ClaimTerminal(r)
    PROVE  IInv'
    <1>1. /\ wake[r].pc = "claimTerminal" /\ Exists /\ Stored(job) /\ Now \in Time
          /\ UNCHANGED <<client, requests, faults>>
        BY Working DEF ClaimTerminal, At
    <1>2. CASE CanMarkRunning(job, wake[r].version)
        <2>1. /\ job' = markRunningRow(job, Now) /\ Goto(r, "failTerminal")
              /\ UNCHANGED <<hooks, fresh, started, leaks>>
            BY <1>2 DEF ClaimTerminal, SetRow, history
        <2>2. Moves(job, job') /\ IsActive(job)
            <3>1. Moves(job, job')
                BY <1>1, <1>2, <2>1, SettleMoves
            <3>2. IsActive(job)
                BY <1>2 DEF CanMarkRunning, IsPendingAt, IsActive,
                   ACTIVE_STATUSES
            <3>3. QED
                BY <3>1, <3>2
        <2>3. started = TRUE
            BY <1>1, <1>2 DEF IInv, RunsFresh, CanMarkRunning, IsPendingAt
        <2>4. Beside(r)
            BY <1>1, <2>1, <2>2, <2>3, WriteBeside
        <2>5. QED
            BY <1>1, <2>1, <2>3, <2>4, GotoKeepsIInv DEF DeliveryPc
    <1>3. CASE ~ CanMarkRunning(job, wake[r].version)
        BY <1>1, <1>3, CountersStay, SkipKeepsIInv DEF ClaimTerminal, Leak
    <1>4. QED
        BY <1>2, <1>3

\* A settled row needs its hook no more.
LEMMA SettledKeepsIInv ==
    ASSUME IInv, NEW r \in Ref, Exists, Moves(job, job'), IsActive(job), ~ IsActive(job'),
           Ok(r), UNCHANGED <<client, requests, faults, fresh, started, leaks>>
    PROVE  IInv'
    <1>1. job'.status # "running"
        BY DEF IsActive, ACTIVE_STATUSES
    <1>2. Beside(r)
        BY <1>1, WriteBeside
    <1>3. QED
        BY <1>2, EndKeepsIInv DEF Ok, HooksKept

LEMMA FailTerminalKeepsIInv ==
    ASSUME IInv, NEW r \in Ref, FailTerminal(r)
    PROVE  IInv'
    <1>1. /\ wake[r].pc # "idle" /\ Exists /\ Stored(job) /\ Now \in Time
          /\ UNCHANGED <<client, requests, faults>>
        BY Working DEF FailTerminal, At
    <1>2. CASE CanMarkFailed(job, wake[r].version)
        <2>1. /\ job' = markFailedRow(job, "stalled", Now) /\ Ok(r)
              /\ UNCHANGED <<fresh, started, leaks>>
            BY <1>2 DEF FailTerminal, SetRow, history
        <2>2. "stalled" \in FailureReason
            BY DEF FailureReason
        <2>3. Moves(job, job') /\ IsActive(job)
            <3>1. Moves(job, job')
                BY <1>1, <1>2, <2>1, <2>2, SettleMoves
            <3>2. IsActive(job)
                BY <1>2 DEF CanMarkFailed, IsRunningAt, IsActive,
                   ACTIVE_STATUSES
            <3>3. QED
                BY <3>1, <3>2
        <2>4. Claimed(job', "failed", job.version, job.claimedVersion, job.attempt)
            BY <1>1, <2>1, ClaimEffects DEF Stored
        <2>5. ~ IsActive(job')
            BY <2>4 DEF Claimed, IsActive, ACTIVE_STATUSES
        <2>6. QED
            BY <1>1, <2>1, <2>3, <2>5, SettledKeepsIInv
    <1>3. CASE ~ CanMarkFailed(job, wake[r].version)
        BY <1>1, <1>3, CountersStay, SkipKeepsIInv DEF FailTerminal, Leak
    <1>4. QED
        BY <1>2, <1>3

\* A delivery that writes a new version goes on to make a wake for it.
LEMMA NextVersionKeepsIInv ==
    ASSUME IInv, NEW r \in Ref, Exists, Moves(job, job'), IsActive(job),
           job'.status = "pending", job'.version = job.version + 1,
           GotoAt(r, "schedule", job'),
           UNCHANGED <<hooks, client, requests, faults, fresh, started, leaks>>
    PROVE  IInv'
    <1>1. Beside(r)
        BY WriteBeside
    <1>2. job'.version > job.version
        BY StoredRow
    <1>3. QED
        BY <1>1, <1>2, GotoAtKeepsIInv DEF DeliveryPc

LEMMA ResettleKeepsIInv ==
    ASSUME IInv, NEW r \in Ref, Resettle(r)
    PROVE  IInv'
    <1>1. /\ wake[r].pc # "idle" /\ Exists /\ Stored(job)
          /\ UNCHANGED <<client, requests, faults>>
        BY Working DEF Resettle, At
    <1>2. CASE CanRescheduleDueAt(job, wake[r].version)
        <2>1. /\ job' = rescheduleDueAtRow(job) /\ GotoAt(r, "schedule", job')
              /\ UNCHANGED <<hooks, fresh, started, leaks>>
            BY <1>2 DEF Resettle, SetRow, history
        <2>2. Moves(job, job') /\ IsActive(job) /\ job.status = "pending"
            BY <1>1, <1>2, <2>1, WindowMoves DEF CanRescheduleDueAt, IsPendingAt, IsActive,
               ACTIVE_STATUSES
        <2>3. job'.status = "pending" /\ job'.version = job.version + 1
            BY <1>1, <2>1, <2>2, DueAndRefEffects DEF Claimed, Stored
        <2>4. QED
            BY <1>1, <2>1, <2>2, <2>3, NextVersionKeepsIInv
    <1>3. CASE ~ CanRescheduleDueAt(job, wake[r].version)
        BY <1>1, <1>3, CountersStay, SkipKeepsIInv DEF Resettle, Leak
    <1>4. QED
        BY <1>2, <1>3

LEMMA RequeueWindowKeepsIInv ==
    ASSUME IInv, NEW r \in Ref, RequeueWindow(r)
    PROVE  IInv'
    <1>1. /\ wake[r].pc # "idle" /\ Exists /\ Stored(job)
          /\ UNCHANGED <<client, requests, faults>>
        BY Working DEF RequeueWindow, At
    <1>2. CASE CanRequeueForNextWindow(job)
        <2>1. /\ job' = requeueForNextWindowRow(job) /\ GotoAt(r, "schedule", job')
              /\ UNCHANGED <<hooks, fresh, started, leaks>>
            BY <1>2 DEF RequeueWindow, SetRow, history
        <2>2. Moves(job, job') /\ IsActive(job)
            BY <1>1, <1>2, <2>1, WindowMoves DEF CanRequeueForNextWindow, IsActive,
               ACTIVE_STATUSES
        <2>3. Claimed(job', "pending", job.version + 1, None, 0)
            BY <1>1, <2>1, VersionEffects DEF Stored
        <2>4. QED
            BY <1>1, <2>1, <2>2, <2>3, NextVersionKeepsIInv DEF Claimed
    <1>3. CASE ~ CanRequeueForNextWindow(job)
        BY <1>1, <1>3, CountersStay, SkipKeepsIInv DEF RequeueWindow, Leak
    <1>4. QED
        BY <1>2, <1>3

LEMMA ClaimKeepsIInv ==
    ASSUME IInv, NEW r \in Ref, Claim(r)
    PROVE  IInv'
    <1>1. /\ wake[r].pc = "claim" /\ Exists /\ Stored(job) /\ Now \in Time
          /\ UNCHANGED <<client, requests, faults>>
        BY Working DEF Claim, At
    <1>2. CASE CanMarkRunning(job, wake[r].version)
        <2>1. /\ job' = markRunningRow(job, Now) /\ Goto(r, "handler")
              /\ fresh' = fresh \cup {r} /\ started' = TRUE
              /\ UNCHANGED <<hooks, leaks>>
            BY <1>2 DEF Claim, SetRow
        <2>2. Moves(job, job') /\ IsActive(job)
            <3>1. Moves(job, job')
                BY <1>1, <1>2, <2>1, SettleMoves
            <3>2. IsActive(job)
                BY <1>2 DEF CanMarkRunning, IsPendingAt, IsActive,
                   ACTIVE_STATUSES
            <3>3. QED
                BY <3>1, <3>2
        <2>3. Beside(r)
            <3>1. RowKept /\ Active
                BY <1>1, <2>2 DEF RowKept, Active
            <3>2. BookTypes'
                BY <1>1, <2>1 DEF BookTypes, IInv, ProcessesTyped
            <3>3. QED
                BY <1>1, <2>1, <3>1, <3>2 DEF Beside, HistoryKept
        <2>4. QED
            BY <1>1, <2>1, <2>3, GotoKeepsIInv DEF DeliveryPc
    <1>3. CASE ~ CanMarkRunning(job, wake[r].version)
        BY <1>1, <1>3, CountersStay, SkipKeepsIInv DEF Claim, Leak
    <1>4. QED
        BY <1>2, <1>3

\* An outcome that lost its row: on to the requeue, or the answer.
LEMMA RequeueInsteadKeepsIInv ==
    ASSUME IInv, NEW r \in Ref, wake[r].pc = "handler", Goto(r, "requeue"),
           UNCHANGED <<job, hooks, client, requests, faults, fresh, started, leaks>>
    PROVE  IInv'
    <1>1. RowKept /\ (Active' => Active)
        BY DEF RowKept, Active, Exists
    <1>2. leaks' \in SUBSET Leak
        BY DEF IInv, ProcessesTyped
    <1>3. Beside(r)
        BY <1>1, <1>2, CountersStay, BesideQuiet
    <1>4. QED
        BY <1>3, GotoKeepsIInv DEF DeliveryPc

LEMMA HandlerSucceedsKeepsIInv ==
    ASSUME IInv, NEW r \in Ref, HandlerSucceeds(r)
    PROVE  IInv'
    <1>1. /\ wake[r].pc = "handler" /\ Exists /\ Stored(job) /\ Now \in Time
          /\ UNCHANGED <<client, requests, faults>>
        BY Working DEF HandlerSucceeds, At
    <1>2. CASE CanMarkCompleted(job, wake[r].version)
        <2>1. /\ job' = markCompletedRow(job, Now) /\ Ok(r)
              /\ UNCHANGED <<fresh, started, leaks>>
            BY <1>2 DEF HandlerSucceeds, SetRow, history
        <2>2. Moves(job, job') /\ IsActive(job)
            <3>1. Moves(job, job')
                BY <1>1, <1>2, <2>1, SettleMoves
            <3>2. IsActive(job)
                BY <1>2 DEF CanMarkCompleted, IsRunningAt, IsActive,
                   ACTIVE_STATUSES
            <3>3. QED
                BY <3>1, <3>2
        <2>3. Claimed(job', "completed", job.version, job.claimedVersion, job.attempt)
            BY <1>1, <2>1, ClaimEffects DEF Stored
        <2>4. ~ IsActive(job')
            BY <2>3 DEF Claimed, IsActive, ACTIVE_STATUSES
        <2>5. QED
            BY <1>1, <2>1, <2>2, <2>4, SettledKeepsIInv
    <1>3. CASE ~ CanMarkCompleted(job, wake[r].version)
        <2>1. CASE Skip(r, "outcome lost")
            BY <1>1, <2>1, CountersStay, SkipKeepsIInv DEF Leak
        <2>2. CASE Goto(r, "requeue") /\ UNCHANGED <<job, hooks, history>>
            BY <1>1, <2>2, RequeueInsteadKeepsIInv DEF history
        <2>3. QED
            BY <1>3, <2>1, <2>2 DEF HandlerSucceeds, LostOutcome
    <1>4. QED
        BY <1>2, <1>3

LEMMA HandlerFailsExhaustedKeepsIInv ==
    ASSUME IInv, NEW r \in Ref, HandlerFailsExhausted(r)
    PROVE  IInv'
    <1>1. /\ wake[r].pc = "handler" /\ Exists /\ Stored(job) /\ Now \in Time
          /\ UNCHANGED <<client, requests, faults>>
        BY Working DEF HandlerFailsExhausted, At
    <1>2. CASE CanMarkFailed(job, wake[r].version)
        <2>1. /\ job' = markFailedRow(job, "handler_error", Now) /\ Ok(r)
              /\ UNCHANGED <<fresh, started, leaks>>
            BY <1>2 DEF HandlerFailsExhausted, SetRow, history
        <2>2. "handler_error" \in FailureReason
            BY DEF FailureReason
        <2>3. Moves(job, job') /\ IsActive(job)
            <3>1. Moves(job, job')
                BY <1>1, <1>2, <2>1, <2>2, SettleMoves
            <3>2. IsActive(job)
                BY <1>2 DEF CanMarkFailed, IsRunningAt, IsActive,
                   ACTIVE_STATUSES
            <3>3. QED
                BY <3>1, <3>2
        <2>4. Claimed(job', "failed", job.version, job.claimedVersion, job.attempt)
            BY <1>1, <2>1, ClaimEffects DEF Stored
        <2>5. ~ IsActive(job')
            BY <2>4 DEF Claimed, IsActive, ACTIVE_STATUSES
        <2>6. QED
            BY <1>1, <2>1, <2>3, <2>5, SettledKeepsIInv
    <1>3. CASE ~ CanMarkFailed(job, wake[r].version)
        <2>1. CASE Skip(r, "outcome lost")
            BY <1>1, <2>1, CountersStay, SkipKeepsIInv DEF Leak
        <2>2. CASE Goto(r, "requeue") /\ UNCHANGED <<job, hooks, history>>
            BY <1>1, <2>2, RequeueInsteadKeepsIInv DEF history
        <2>3. QED
            BY <1>3, <2>1, <2>2 DEF HandlerFailsExhausted, LostOutcome
    <1>4. QED
        BY <1>2, <1>3

LEMMA HandlerReschedulesKeepsIInv ==
    ASSUME IInv, NEW r \in Ref, HandlerReschedules(r)
    PROVE  IInv'
    <1>1. /\ wake[r].pc = "handler" /\ Exists /\ Stored(job) /\ Now \in Time
          /\ UNCHANGED <<client, faults>> /\ job.version \in Nat
        BY Working DEF HandlerReschedules, At
    <1>2. Counted'
        BY <1>1, CountersStep DEF HandlerReschedules
    <1>3. CASE CanRescheduleJob(job, wake[r].version)
        <2>1. /\ job' = rescheduleJobRow(job, Now) /\ fresh' = {} /\ started' = FALSE
              /\ GotoAt(r, "schedule", job') /\ UNCHANGED <<hooks, leaks>>
            BY <1>3 DEF HandlerReschedules, Accept, SetRow
        <2>2. Moves(job, job')
            BY <1>1, <1>3, <2>1, SettleMoves
        <2>3. Claimed(job', "pending", job.version + 1, None, 0)
            BY <1>1, <2>1, VersionEffects DEF Stored
        <2>4. RowKept /\ Active
            BY <1>1, <1>3, <2>2 DEF RowKept, Active, CanRescheduleJob, IsRunningAt, IsActive,
               ACTIVE_STATUSES
        <2>5. BookTypes'
            BY <1>2, <2>1 DEF BookTypes, Counted, IInv, ProcessesTyped
        <2>6. job'.version > job.version /\ job'.status = "pending"
            BY <1>1, <2>3 DEF Claimed
        <2>7. Beside(r)
            BY <1>1, <2>1, <2>4, <2>5, <2>6 DEF Beside, HistoryKept
        <2>8. QED
            BY <1>1, <2>1, <2>6, <2>7, GotoAtKeepsIInv DEF DeliveryPc
    <1>4. CASE ~ CanRescheduleJob(job, wake[r].version)
        BY <1>1, <1>2, <1>4, SkipKeepsIInv DEF HandlerReschedules, Leak
    <1>5. QED
        BY <1>3, <1>4

LEMMA HandlerFailsRetryableKeepsIInv ==
    ASSUME IInv, NEW r \in Ref, HandlerFailsRetryable(r)
    PROVE  IInv'
    <1>1. /\ wake[r].pc = "handler" /\ Exists /\ Stored(job) /\ Now \in Time
          /\ UNCHANGED <<client, requests, faults>>
        BY Working DEF HandlerFailsRetryable, At
    <1>2. leaks \in SUBSET Leak
        BY DEF IInv, ProcessesTyped
    <1>3. CASE CanRetryJob(job, wake[r].version)
        <2>1. /\ job' = retryJobRow(job, wake[r].attempt + 1, Now) /\ Retry(r)
              /\ UNCHANGED <<fresh, started, leaks>>
            BY <1>3 DEF HandlerFailsRetryable, SetRow, history
        <2>2. wake[r].attempt + 1 \in Nat
            BY ProcessTypes DEF WakeRecord
        <2>3. Moves(job, job')
            BY <1>1, <1>3, <2>1, <2>2, SettleMoves
        <2>4. IsActive(job)
            BY <1>3 DEF CanRetryJob, IsRunningAt, IsActive, ACTIVE_STATUSES
        <2>5. Claimed(job', "pending", job.version, None, wake[r].attempt + 1)
            BY <1>1, <2>1, ClaimEffects DEF Stored
        <2>6. Beside(r)
            BY <1>1, <2>1, <2>3, <2>4, <2>5, WriteBeside DEF Claimed
        <2>7. QED
            BY <2>1, <2>6, EndKeepsIInv DEF Retry, HooksKept
    <1>4. CASE ~ CanRetryJob(job, wake[r].version)
        <2>1. CASE Retry(r) /\ UNCHANGED <<job, history>>
            <3>1. RowKept /\ (Active' => Active)
                BY <2>1 DEF RowKept, Active, Exists
            <3>2. Beside(r)
                BY <1>1, <1>2, <2>1, <3>1, CountersStay, BesideQuiet DEF history
            <3>3. QED
                BY <2>1, <3>2, EndKeepsIInv DEF Retry, HooksKept
        <2>2. CASE Goto(r, "requeue") /\ UNCHANGED <<job, hooks, history>>
            BY <1>1, <2>2, RequeueInsteadKeepsIInv DEF history
        <2>3. QED
            BY <1>4, <2>1, <2>2 DEF HandlerFailsRetryable, LostOutcome
    <1>5. QED
        BY <1>3, <1>4

LEMMA CrashKeepsIInv ==
    ASSUME IInv, NEW r \in Ref, Crash(r)
    PROVE  IInv'
    <1>1. RowKept /\ (Active' => Active) /\ job' = job
        BY DEF Crash, RowKept, Active, Exists
    <1>2. BookTypes'
        <2>1. Counted'
            BY CountersStep DEF Crash
        <2>2. QED
            BY <2>1 DEF Crash, Counted, BookTypes, IInv, ProcessesTyped
    <1>3. HistoryKept(r) /\ client' = client
        BY DEF Crash, HistoryKept, IInv, RunsFresh
    <1>4. Beside(r)
        BY <1>1, <1>2, <1>3 DEF Beside
    <1>5. QED
        BY <1>4, EndKeepsIInv DEF Crash, Retry, HooksKept

-----------------------------------------------------------------------------
(* The steps of a delivery that make a new hook and name it. *)

\* The delivery takes a hook that nothing else refers to.
TakesHook(r, new) ==
    /\ wake[r].pc = "schedule" /\ new \in NewRefs
    /\ hooks' = hooks \cup {new}
    /\ wake' = [wake EXCEPT ![r].pc = "store", ![r].new = new]
    /\ UNCHANGED <<job, client, requests, faults, fresh, started, leaks>>

LEMMA TakenHook ==
    ASSUME IInv, NEW r \in Ref, NEW new, TakesHook(r, new)
    PROVE  /\ new \in Ref /\ new # None /\ new # r
           /\ wake'[r].pc = "store" /\ wake'[r].new = new
           /\ wake'[r].version = wake[r].version
           /\ \A s \in Ref : s # r => wake'[s] = wake[s]
           /\ wake' \in [Ref -> WakeRecord]
           /\ wake[new].pc = "idle" /\ wake[new].new = None
           /\ new # client.new /\ new # client.old
           /\ Exists => job.schedulerRef # new
           /\ \A s \in Ref : wake[s].new # new
    <1>1. new \in Ref /\ new # None
        BY WakeAssumption DEF TakesHook, NewRefs
    <1>2. /\ wake[new].pc = "idle" /\ new # client.new /\ new # client.old
          /\ Exists => job.schedulerRef # new
          /\ \A s \in Ref : wake[s].new # new
        BY DEF TakesHook, NewRefs
    <1>3. new # r
        BY <1>2 DEF TakesHook
    <1>4. wake[new].new = None
        BY <1>1, <1>2 DEF IInv, NewsApart
    <1>5. wake \in [Ref -> WakeRecord]
        BY ProcessTypes
    <1>6. /\ wake' \in [Ref -> WakeRecord]
          /\ wake'[r].pc = "store" /\ wake'[r].new = new
          /\ wake'[r].version = wake[r].version
          /\ \A s \in Ref : s # r => wake'[s] = wake[s]
        BY <1>1, <1>5 DEF TakesHook, WakeRecord, DeliveryPc
    <1>7. QED
        BY <1>1, <1>2, <1>3, <1>4, <1>6

LEMMA TakesHookKeepsIInv ==
    ASSUME IInv, NEW r \in Ref, NEW new, TakesHook(r, new)
    PROVE  IInv'
    <1>1. /\ wake[r].pc = "schedule" /\ hooks' = hooks \cup {new}
          /\ UNCHANGED <<job, client, requests, faults, fresh, started, leaks>>
        BY DEF TakesHook
    <1>2. Exists /\ wake[r].version <= job.version
        BY <1>1 DEF IInv, SnapshotsOld
    <1>3. ProcessesTyped'
        BY <1>1, TakenHook DEF IInv, ProcessesTyped, WakeRecord
    <1>4. RowInv'
        BY <1>1 DEF IInv, RowInv, Exists
    <1>5. SnapshotsOld'
        <2>1. ASSUME NEW s \in Ref, wake'[s].pc # "idle"
              PROVE  Exists' /\ wake'[s].version <= job'.version
            <3>1. wake[s].pc # "idle" /\ wake'[s].version = wake[s].version
                BY <1>1, <2>1, TakenHook
            <3>2. QED
                BY <1>1, <3>1 DEF IInv, SnapshotsOld, Exists
        <2>2. QED
            BY <1>1, <2>1 DEF IInv, SnapshotsOld, Exists
    <1>6. RunsFresh'
        <2>1. ASSUME NEW s \in Ref, Exists', wake'[s].version = job'.version
              PROVE  /\ wake'[s].pc = "handler" => s \in fresh'
                     /\ wake'[s].pc \in {"claimTerminal", "failTerminal"} => started' = TRUE
            <3>1. CASE s = r
                BY <3>1, TakenHook
            <3>2. CASE s # r
                <4>1. wake'[s] = wake[s]
                    BY <3>2, TakenHook
                <4>2. Exists /\ wake[s].version = job.version
                    BY <1>1, <1>2, <2>1, <4>1
                <4>3. QED
                    BY <1>1, <4>1, <4>2 DEF IInv, RunsFresh
            <3>3. QED
                BY <3>1, <3>2
        <2>2. QED
            BY <1>1, <2>1 DEF IInv, RunsFresh, Exists
    <1>7. NewsApart'
        <2>1. NewsApart
            BY DEF IInv
        <2>2. \A s \in Ref : wake'[s].new # None <=> wake'[s].pc = "store"
            BY <2>1, TakenHook DEF NewsApart
        <2>3. \A s, t \in Ref : wake'[s].new # None /\ wake'[s].new = wake'[t].new => s = t
            BY <2>1, TakenHook DEF NewsApart
        <2>4. ASSUME NEW s \in Ref, wake'[s].new # None
              PROVE  /\ wake'[s].new # client'.new /\ wake'[s].new # client'.old
                     /\ Exists' => job'.schedulerRef # wake'[s].new
            <3>1. CASE s = r
                BY <1>1, <1>2, <3>1, TakenHook
            <3>2. CASE s # r
                BY <1>1, <1>2, <2>1, <2>4, <3>2, TakenHook DEF NewsApart
            <3>3. QED
                BY <3>1, <3>2
        <2>5. QED
            BY <1>1, <2>1, <2>2, <2>3, <2>4 DEF NewsApart, Exists
    <1>8. NewsYounger'
        <2>1. \A x \in Ref : /\ wake'[x].version = wake[x].version
                             /\ wake'[x].pc \in {"schedule", "store"} <=>
                                   wake[x].pc \in {"schedule", "store"}
                             /\ wake'[x].pc = "idle" <=> wake[x].pc = "idle"
            BY <1>1, TakenHook
        <2>2. ASSUME NEW s \in Ref, NEW x \in Ref, wake'[s].new = x
              PROVE  wake'[x].pc # "idle" =>
                        /\ wake'[x].version >= wake'[s].version
                        /\ wake'[x].pc \in {"schedule", "store"} =>
                              wake'[x].version > wake'[s].version
            <3>1. CASE s = r
                BY <2>1, <2>2, <3>1, TakenHook
            <3>2. CASE s # r
                <4>1. wake[s].new = x
                    BY <2>2, <3>2, TakenHook
                <4>2. QED
                    BY <2>1, <4>1 DEF IInv, NewsYounger, Younger
            <3>3. QED
                BY <3>1, <3>2
        <2>3. ASSUME NEW x \in Ref, client'.new = x
              PROVE  wake'[x].pc # "idle" =>
                        /\ wake'[x].version >= client'.version
                        /\ wake'[x].pc \in {"schedule", "store"} =>
                              wake'[x].version > client'.version
            BY <1>1, <2>1, <2>3 DEF IInv, NewsYounger, Younger
        <2>4. QED
            BY <2>2, <2>3 DEF NewsYounger, Younger
    <1>9. WakesHeld'
        <2>1. \A s \in Ref : wake'[s].pc = "store" =>
                 \/ wake'[s].new \in hooks'
                 \/ wake[s].pc = "store" /\ wake'[s] = wake[s]
            BY <1>1, TakenHook
        <2>2. QED
            BY <1>1, <2>1 DEF IInv, WakesHeld, Active, Exists, Materializing
    <1>10. QED
        BY <1>3, <1>4, <1>5, <1>6, <1>7, <1>8, <1>9 DEF IInv

LEMMA ScheduleWakeKeepsIInv ==
    ASSUME IInv, NEW r \in Ref, ScheduleWake(r)
    PROVE  IInv'
    <1>1. CASE \E new \in NewRefs :
                  /\ hooks' = hooks \cup {new}
                  /\ wake' = [wake EXCEPT ![r].pc = "store", ![r].new = new]
                  /\ UNCHANGED faults
        <2>1. PICK new : TakesHook(r, new)
            BY <1>1 DEF ScheduleWake, At, TakesHook, history
        <2>2. QED
            BY <2>1, TakesHookKeepsIInv
    <1>2. CASE Fault /\ Retry(r)
        <2>1. RowKept /\ (Active' => Active) /\ leaks' \in SUBSET Leak
            BY DEF ScheduleWake, history, RowKept, Active, Exists, IInv, ProcessesTyped
        <2>2. Counted' /\ UNCHANGED <<job, client, fresh, started, leaks>>
            BY <1>2, CountersStep DEF ScheduleWake, history
        <2>3. Beside(r)
            BY <2>1, <2>2, BesideQuiet
        <2>4. QED
            BY <1>2, <2>3, EndKeepsIInv DEF Retry, HooksKept
    <1>3. QED
        BY <1>1, <1>2 DEF ScheduleWake

\* The row it read is the row that is there, and now names its new hook.
LEMMA NamesHookKeepsIInv ==
    ASSUME IInv, NEW r \in Ref, wake[r].pc = "store", job.version = wake[r].version,
           wake' = [wake EXCEPT ![r] = IdleWake],
           job' = updateSchedulerRefRow(job, wake[r].new), hooks' = hooks \ {r},
           UNCHANGED <<client, requests, faults, fresh, started, leaks>>
    PROVE  IInv'
    <1> DEFINE new == wake[r].new
    <1>1. /\ Exists /\ Stored(job) /\ job.version \in Nat
          /\ new # None /\ new \in Ref
        BY Working, ProcessTypes DEF IInv, NewsApart, WakeRecord
    <1>2. /\ job' \in Job /\ RowFits(job') /\ job'.maxAttempts # 0
          /\ job'.schedulerRef = new
        BY <1>1, UpdateSchedulerRefKeeps, NameEffects DEF Keeps, Stored, Named
    <1>3. /\ job'.status = job.status /\ job'.version = job.version
          /\ job'.claimedVersion = job.claimedVersion
        BY <1>1, DueAndRefEffects DEF Claimed, Stored
    <1>4. Exists' /\ (Active' <=> Active)
        BY <1>1, <1>2, <1>3, WakeAssumption DEF Exists, Active, IsActive
    <1>5. /\ wake'[r] = IdleWake /\ \A s \in Ref : s # r => wake'[s] = wake[s]
          /\ wake' \in [Ref -> WakeRecord]
          /\ IdleWake.pc = "idle" /\ IdleWake.new = None
        BY ProcessTypes DEF IdleWake, WakeRecord, DeliveryPc
    <1> HIDE DEF new
    <1>6. ProcessesTyped'
        BY <1>2, <1>5 DEF IInv, ProcessesTyped, WakeRecord
    <1>7. RowInv'
        BY <1>2 DEF RowInv
    <1>8. SnapshotsOld'
        BY <1>1, <1>3, <1>4, <1>5 DEF IInv, SnapshotsOld
    <1>9. RunsFresh'
        <2>1. ASSUME NEW s \in Ref, wake'[s].version = job'.version
              PROVE  /\ wake'[s].pc = "handler" => s \in fresh'
                     /\ wake'[s].pc \in {"claimTerminal", "failTerminal"} => started' = TRUE
            <3>1. CASE s = r
                BY <1>5, <3>1
            <3>2. CASE s # r
                BY <1>1, <1>3, <1>5, <2>1, <3>2 DEF IInv, RunsFresh
            <3>3. QED
                BY <3>1, <3>2
        <2>2. QED
            BY <1>1, <1>3, <2>1 DEF IInv, RunsFresh
    <1>10. NewsApart
        BY DEF IInv
    <1>11. ASSUME NEW s \in Ref, wake'[s].new # None
           PROVE  s # r /\ wake'[s] = wake[s] /\ wake[s].new # new
        BY <1>1, <1>5, <1>10, <1>11 DEF NewsApart, new
    <1>12. NewsApart'
        <2>1. \A s \in Ref : wake'[s].new # None <=> wake'[s].pc = "store"
            BY <1>5, <1>10 DEF NewsApart
        <2>2. \A s, t \in Ref : wake'[s].new # None /\ wake'[s].new = wake'[t].new => s = t
            BY <1>5, <1>10 DEF NewsApart
        <2>3. ASSUME NEW s \in Ref, wake'[s].new # None
              PROVE  /\ wake'[s].new # client'.new /\ wake'[s].new # client'.old
                     /\ job'.schedulerRef # wake'[s].new
            BY <1>2, <1>10, <1>11, <2>3 DEF NewsApart
        <2>4. client.new # None => client.new # client.old /\ new # client.new
            BY <1>1, <1>10 DEF NewsApart, new
        <2>5. QED
            BY <1>2, <1>10, <2>1, <2>2, <2>3, <2>4 DEF NewsApart
    <1>13. NewsYounger'
        <2>1. ASSUME NEW x \in Ref, NEW version, Younger(x, version)
              PROVE  wake'[x].pc # "idle" =>
                        /\ wake'[x].version >= version
                        /\ wake'[x].pc \in {"schedule", "store"} => wake'[x].version > version
            BY <1>5, <2>1 DEF Younger
        <2>2. ASSUME NEW s \in Ref, NEW x \in Ref, wake'[s].new = x
              PROVE  wake'[s] = wake[s] /\ Younger(x, wake[s].version)
            <3>1. wake'[s] = wake[s] /\ wake[s].new = x
                BY <1>11, <2>2, WakeAssumption
            <3>2. QED
                BY <3>1 DEF IInv, NewsYounger
        <2>3. \A x \in Ref : client'.new = x => Younger(x, client'.version)
            BY DEF IInv, NewsYounger
        <2>4. \A s, x \in Ref : wake'[s].new = x =>
                 (wake'[x].pc # "idle" =>
                     /\ wake'[x].version >= wake'[s].version
                     /\ wake'[x].pc \in {"schedule", "store"} =>
                           wake'[x].version > wake'[s].version)
            BY <2>1, <2>2
        <2>5. \A x \in Ref : client'.new = x =>
                 (wake'[x].pc # "idle" =>
                     /\ wake'[x].version >= client'.version
                     /\ wake'[x].pc \in {"schedule", "store"} =>
                           wake'[x].version > client'.version)
            BY <2>1, <2>3
        <2>6. QED
            BY <2>4, <2>5 DEF NewsYounger, Younger
    \* The hook being delivered is none that is about to be named at this version.
    <1>14. \A s \in Ref : wake[s].pc = "store" /\ wake[s].version = job.version => wake[s].new # r
        BY <1>1 DEF IInv, NewsYounger, Younger
    <1>15. client.pc = "store" /\ client.version = job.version => client.new # r
        BY <1>1 DEF IInv, NewsYounger, Younger
    <1>16. WakesHeld'
        <2>1. client.pc # "insert"
            BY <1>1 DEF IInv, SnapshotsOld
        <2>2. ASSUME leaks = {}, Active
              PROVE  new \in hooks'
            BY <1>14, <2>2 DEF IInv, WakesHeld, new
        <2>3. ASSUME leaks = {}, Active, client.pc = "store", client.version = job.version
              PROVE  client.new \in hooks'
            BY <1>15, <2>3 DEF IInv, WakesHeld
        <2>4. ASSUME NEW s \in Ref, leaks = {}, Active, wake'[s].pc = "store",
                     wake'[s].version = job.version
              PROVE  wake'[s].new \in hooks'
            <3>1. wake'[s] = wake[s]
                BY <1>5, <2>4
            <3>2. QED
                BY <1>14, <2>4, <3>1 DEF IInv, WakesHeld
        <2>5. QED
            BY <1>2, <1>3, <1>4, <2>1, <2>2, <2>3, <2>4 DEF WakesHeld
    <1>17. QED
        BY <1>6, <1>7, <1>8, <1>9, <1>12, <1>13, <1>16 DEF IInv

LEMMA StoreWakeKeepsIInv ==
    ASSUME IInv, NEW r \in Ref, StoreWake(r)
    PROVE  IInv'
    <1>1. /\ wake[r].pc = "store" /\ Exists
          /\ wake' = [wake EXCEPT ![r] = IdleWake]
          /\ UNCHANGED <<client, requests, faults, fresh, started>>
        BY Working DEF StoreWake, At
    <1>2. CASE CanUpdateSchedulerRef(job, wake[r].version)
        <2>1. /\ job' = updateSchedulerRefRow(job, wake[r].new) /\ hooks' = hooks \ {r}
              /\ leaks' = leaks /\ job.version = wake[r].version
            BY <1>2 DEF StoreWake, SetRow, CanUpdateSchedulerRef
        <2>2. QED
            BY <1>1, <2>1, NamesHookKeepsIInv
    <1>3. CASE ~ CanUpdateSchedulerRef(job, wake[r].version)
        <2>1. /\ hooks' = hooks \ {r, wake[r].new} /\ job' = job
              /\ leaks' = IF Active THEN leaks \cup {"ref lost"} ELSE leaks
            BY <1>3 DEF StoreWake
        <2>2. RowKept /\ (Active' => Active) /\ leaks' \in SUBSET Leak
            BY <2>1 DEF RowKept, Active, Exists, IInv, ProcessesTyped, Leak
        <2>3. Beside(r)
            BY <1>1, <2>1, <2>2, CountersStay, BesideQuiet
        <2>4. HooksKept(r)
            BY <1>1, <2>1 DEF HooksKept, Active
        <2>5. QED
            BY <1>1, <2>3, <2>4, EndKeepsIInv
    <1>4. QED
        BY <1>2, <1>3

-----------------------------------------------------------------------------
(* The steps of client calls that name no hook. *)

\* A call moves on, or ends, or writes the row in one go, with the row in place.
CallStep(next) ==
    /\ wake' = wake /\ client' = next /\ next \in ClientRecord
    /\ Exists /\ RowKept /\ BookTypes' /\ leaks \subseteq leaks'
    /\ \/ next = client
       \/ /\ next.new = None /\ next.pc \notin {"insert", "store"}
          /\ next.old \in {None, client.old, job.schedulerRef}
          /\ next.pc # "idle" => next.version <= job'.version
    /\ \/ hooks' = hooks
       \/ hooks' \subseteq hooks /\ (leaks' # {} \/ ~ IsActive(job'))
    /\ leaks' = {} /\ Active' /\ next.pc \notin MaterializingPc => Active /\ ~ Materializing
    /\ \/ fresh' = fresh /\ started' = started
       \/ fresh' = {} /\ job'.version > job.version
    \* A claim of the present version is an old one, or of the call itself.
    /\ \/ job'.status # "running" \/ job'.claimedVersion # job'.version
       \/ next.pc = "fail" /\ next.version = job'.version
       \/ /\ job' = job /\ started' = started
          /\ next = client \/ client.pc # "fail" \/ client.version # job.version

LEMMA CallKeepsIInv ==
    ASSUME IInv, NEW next, CallStep(next)
    PROVE  IInv'
    <1>1. /\ wake' = wake /\ client' = next /\ next \in ClientRecord /\ Exists
          /\ BookTypes' /\ leaks \subseteq leaks'
        BY DEF CallStep
    <1>2. /\ RowInv' /\ job' \in Job \cup {None} /\ Exists'
          /\ job.version \in Nat /\ job'.version \in Nat /\ job'.version >= job.version
          /\ job'.schedulerRef \in {job.schedulerRef, None}
          /\ Active' => Active \/ job'.version > job.version
        BY <1>1, RowStays DEF CallStep
    <1>3. /\ wake \in [Ref -> WakeRecord] /\ client \in ClientRecord
          /\ \A r \in Ref : wake[r].version \in Nat
          /\ client.version \in Nat
        BY ProcessTypes
    <1>4. \/ next = client
          \/ /\ next.new = None /\ next.pc \notin {"insert", "store"}
             /\ next.old \in {None, client.old, job.schedulerRef}
             /\ next.pc # "idle" => next.version <= job'.version
        BY DEF CallStep
    <1>5. hooks' = hooks \/ (hooks' \subseteq hooks /\ (leaks' # {} \/ ~ Active'))
        BY DEF CallStep, Active
    <1>6. ProcessesTyped'
        <2>1. hooks' \in SUBSET Ref
            BY <1>5 DEF IInv, ProcessesTyped
        <2>2. QED
            BY <1>1, <1>2, <1>3, <2>1 DEF ProcessesTyped, BookTypes, WakeRecord, ClientRecord
    <1>7. SnapshotsOld'
        <2>1. ASSUME NEW r \in Ref, wake'[r].pc # "idle"
              PROVE  wake'[r].version <= job'.version
            <3>1. wake[r].version <= job.version
                BY <1>1, <2>1 DEF IInv, SnapshotsOld
            <3>2. QED
                BY <1>1, <1>2, <1>3, <3>1
        <2>2. client'.pc # "insert"
            BY <1>1, <1>4 DEF IInv, SnapshotsOld
        <2>3. ASSUME client'.pc # "idle"
              PROVE  client'.version <= job'.version
            <3>1. CASE next = client
                <4>1. client.version <= job.version
                    BY <1>1, <2>2, <2>3, <3>1 DEF IInv, SnapshotsOld
                <4>2. QED
                    BY <1>1, <1>2, <1>3, <3>1, <4>1
            <3>2. CASE next # client
                BY <1>1, <1>4, <2>3, <3>2
            <3>3. QED
                BY <3>1, <3>2
        <2>4. QED
            BY <1>2, <2>1, <2>2, <2>3 DEF SnapshotsOld
    \* What is read at the row's present version was so before the step.
    <1>8. ASSUME NEW r \in Ref, wake[r].pc # "idle", wake[r].version = job'.version
          PROVE  /\ wake[r].version = job.version /\ job'.version = job.version
                 /\ fresh' = fresh /\ started' = started
        <2>1. wake[r].version <= job.version
            BY <1>8 DEF IInv, SnapshotsOld
        <2>2. wake[r].version = job.version /\ job'.version = job.version
            BY <1>2, <1>3, <1>8, <2>1
        <2>3. QED
            BY <1>2, <2>2 DEF CallStep
    <1>9. RunsFresh'
        <2>1. fresh' # {} => started' = TRUE
            BY DEF CallStep, IInv, RunsFresh
        <2>2. ASSUME NEW r \in Ref, wake'[r].version = job'.version
              PROVE  /\ wake'[r].pc = "handler" => r \in fresh'
                     /\ wake'[r].pc \in {"claimTerminal", "failTerminal"} => started' = TRUE
            <3>1. CASE wake[r].pc = "idle"
                BY <1>1, <3>1
            <3>2. CASE wake[r].pc # "idle"
                BY <1>1, <1>8, <2>2, <3>2 DEF IInv, RunsFresh
            <3>3. QED
                BY <3>1, <3>2
        <2>3. ASSUME job'.status = "running", job'.claimedVersion = job'.version
              PROVE  started' = TRUE \/ (client'.pc = "fail" /\ client'.version = job'.version)
            <3>1. CASE next.pc = "fail" /\ next.version = job'.version
                BY <1>1, <3>1
            <3>2. CASE /\ job' = job /\ started' = started
                       /\ next = client \/ client.pc # "fail" \/ client.version # job.version
                BY <1>1, <2>3, <3>2 DEF IInv, RunsFresh
            <3>3. QED
                BY <2>3, <3>1, <3>2 DEF CallStep
        <2>4. QED
            BY <2>1, <2>2, <2>3 DEF RunsFresh
    <1>10. NewsApart'
        <2>1. NewsApart
            BY DEF IInv
        <2>2. /\ client'.new # None <=> client'.pc \in {"insert", "store"}
              /\ client'.new # None => next = client
            BY <1>1, <1>4, <2>1 DEF NewsApart
        <2>3. ASSUME NEW r \in Ref, wake'[r].new # None
              PROVE  /\ wake'[r].new # client'.new /\ wake'[r].new # client'.old
                     /\ job'.schedulerRef # wake'[r].new
            BY <1>1, <1>2, <1>4, <2>1, <2>3 DEF NewsApart
        <2>4. ASSUME client'.new # None
              PROVE  client'.new # client'.old /\ job'.schedulerRef # client'.new
            BY <1>1, <1>2, <2>1, <2>2, <2>4 DEF NewsApart
        <2>5. QED
            BY <1>1, <2>1, <2>2, <2>3, <2>4 DEF NewsApart
    <1>11. NewsYounger'
        <2>1. \A r, x \in Ref : wake'[r].new = x => Younger(x, wake'[r].version)
            BY <1>1 DEF IInv, NewsYounger
        <2>2. \A x \in Ref : client'.new = x => Younger(x, client'.version)
            BY <1>1, <1>4, WakeAssumption DEF IInv, NewsYounger
        <2>3. QED
            BY <1>1, <2>1, <2>2 DEF NewsYounger, Younger
    <1>12. WakesHeld'
        <2> SUFFICES ASSUME leaks' = {} PROVE
               /\ Active' => Materializing' \/ \E r \in hooks' : job'.schedulerRef \in {None, r}
               /\ client'.pc = "insert" => client'.new \in hooks'
               /\ Active' /\ client'.pc = "store" /\ client'.version = job'.version
                     => client'.new \in hooks'
               /\ \A r \in Ref :
                     Active' /\ wake'[r].pc = "store" /\ wake'[r].version = job'.version
                        => wake'[r].new \in hooks'
            BY DEF WakesHeld
        <2>1. WakesHeld /\ leaks = {}
            BY <1>1 DEF IInv
        <2>2. Active' => hooks' = hooks
            BY <1>5
        <2>3. ASSUME Active', ~ Materializing'
              PROVE  \E r \in hooks' : job'.schedulerRef \in {None, r}
            <3>1. Active /\ ~ Materializing
                BY <1>1, <2>3 DEF CallStep, Materializing
            <3>2. QED
                BY <1>2, <2>1, <2>2, <2>3, <3>1 DEF WakesHeld
        <2>4. client'.pc # "insert"
            BY <1>7, <1>2 DEF SnapshotsOld
        <2>5. ASSUME Active', client'.pc = "store", client'.version = job'.version
              PROVE  client'.new \in hooks'
            <3>1. next = client /\ client.version <= job.version
                BY <1>1, <1>4, <2>5 DEF IInv, SnapshotsOld
            <3>2. client.version = job.version /\ Active
                BY <1>1, <1>2, <1>3, <2>5, <3>1
            <3>3. QED
                BY <1>1, <2>1, <2>2, <2>5, <3>1, <3>2 DEF WakesHeld
        <2>6. ASSUME NEW r \in Ref, Active', wake'[r].pc = "store", wake'[r].version = job'.version
              PROVE  wake'[r].new \in hooks'
            <3>1. wake[r].version = job.version /\ job'.version = job.version
                BY <1>1, <1>8, <2>6
            <3>2. Active
                BY <1>2, <2>6, <3>1
            <3>3. QED
                BY <1>1, <2>1, <2>2, <2>6, <3>1, <3>2 DEF WakesHeld
        <2>7. QED
            BY <2>3, <2>4, <2>5, <2>6
    <1>13. QED
        BY <1>2, <1>6, <1>7, <1>9, <1>10, <1>11, <1>12 DEF IInv

\* What every call step starts from.
LEMMA Calling ==
    ASSUME IInv, Exists
    PROVE  /\ Stored(job) /\ job.version \in Nat /\ Now \in Time
           /\ client \in ClientRecord /\ client.version \in Nat
           /\ BookTypes
           /\ client.pc # "insert"
           /\ client.pc # "idle" => client.version <= job.version
           /\ client.new # None => client.pc = "store"
    BY StoredRow, ProcessTypes
       DEF IInv, ProcessesTyped, BookTypes, SnapshotsOld, NewsApart

\* The records the calls move to.
LEMMA CallRecords ==
    ASSUME NEW record \in ClientRecord, record.new = None
    PROVE  /\ IdleClient \in ClientRecord /\ IdleClient.pc = "idle"
           /\ IdleClient.new = None /\ IdleClient.old = None
           /\ \A old \in Ref \cup {None} :
                 LET next == [IdleClient EXCEPT !.pc = "replace", !.old = old]
                 IN  /\ next \in ClientRecord /\ next.pc = "replace" /\ next.version = 0
                     /\ next.new = None /\ next.old = old
           /\ \A version \in Nat :
                 LET next == [IdleClient EXCEPT !.pc = "schedule", !.version = version]
                 IN  /\ next \in ClientRecord /\ next.pc = "schedule"
                     /\ next.version = version /\ next.new = None /\ next.old = None
           /\ \A pc \in ClientPc :
                 LET next == [record EXCEPT !.pc = pc]
                 IN  /\ next \in ClientRecord /\ next.pc = pc /\ next.version = record.version
                     /\ next.new = None /\ next.old = record.old
    BY DEF IdleClient, ClientRecord, ClientPc, Kind

LEMMA BeginReplaceKeepsIInv ==
    ASSUME IInv, BeginReplace
    PROVE  IInv'
    <1> DEFINE next == [IdleClient EXCEPT !.pc = "replace", !.old = job.schedulerRef]
    <1>1. /\ Exists /\ client.pc = "idle" /\ job.status = "pending"
          /\ UNCHANGED <<job, hooks, wake, faults, fresh, started, leaks>>
          /\ client' = next
        BY DEF BeginReplace, history
    <1>2. client.new = None /\ job.schedulerRef \in Ref \cup {None}
        BY <1>1, Calling DEF Stored, Job
    <1>3. /\ next \in ClientRecord /\ next.pc = "replace" /\ next.version = 0
          /\ next.new = None /\ next.old = job.schedulerRef
        BY <1>1, <1>2, Calling, CallRecords
    <1> HIDE DEF next
    <1>4. Counted'
        BY <1>1, CountersStep DEF BeginReplace
    <1>5. BookTypes' /\ RowKept
        BY <1>1, <1>4, Calling DEF BookTypes, Counted, RowKept
    <1>6. Active /\ ~ Materializing
        BY <1>1 DEF Active, IsActive, ACTIVE_STATUSES, Materializing, MaterializingPc
    <1>7. CallStep(next)
        BY <1>1, <1>3, <1>5, <1>6, Calling DEF CallStep
    <1>8. QED
        BY <1>7, CallKeepsIInv

LEMMA ReplaceKeepsIInv ==
    ASSUME IInv, Replace
    PROVE  IInv'
    <1>1. /\ Exists /\ client.pc = "replace"
          /\ UNCHANGED <<hooks, wake, requests, faults, leaks>>
        BY DEF Replace, IInv, SnapshotsOld
    <1>2. client.new = None
        BY <1>1, Calling
    <1>3. MaxAttempts \in Nat \ {0}
        BY WakeAssumption
    <1>4. CASE CanReplaceJob(job)
        <2> DEFINE next == [client EXCEPT !.pc = "schedule", !.version = job'.version]
        <2>1. /\ job' = replaceJobRow(job, Now, MaxAttempts)
              /\ fresh' = {} /\ started' = FALSE /\ client' = next
            BY <1>4 DEF Replace, Accept, SetRow
        <2>2. Moves(job, job')
            BY <1>1, <1>3, <1>4, <2>1, Calling, RequestMoves
        <2>3. Claimed(job', job.status, job.version + 1, job.claimedVersion, 0)
            BY <1>1, <2>1, Calling, VersionEffects DEF Stored
        <2>4. job'.status = "pending" /\ job'.version > job.version /\ job'.version \in Nat
            BY <1>1, <1>4, <2>3, Calling DEF Claimed, CanReplaceJob
        <2>5. /\ next \in ClientRecord /\ next.pc = "schedule" /\ next.version = job'.version
              /\ next.new = None /\ next.old = client.old
            <3>1. client \in ClientRecord /\ client.new = None /\ job'.version \in Nat
                BY <1>1, <1>2, <2>4, Calling
            <3>2. QED
                BY <3>1 DEF ClientRecord, ClientPc
        <2> HIDE DEF next
        <2>6. BookTypes' /\ RowKept
            BY <1>1, <2>1, <2>2, Calling DEF BookTypes, RowKept
        <2>7. CallStep(next)
            BY <1>1, <2>1, <2>4, <2>5, <2>6 DEF CallStep, MaterializingPc
        <2>8. QED
            BY <2>7, CallKeepsIInv
    <1>5. CASE ~ CanReplaceJob(job)
        <2>1. client' = IdleClient /\ UNCHANGED <<job, fresh, started>>
            BY <1>5 DEF Replace
        <2>2. /\ IdleClient \in ClientRecord /\ IdleClient.pc = "idle"
              /\ IdleClient.new = None /\ IdleClient.old = None
            BY <1>1, <1>2, Calling, CallRecords
        <2>3. BookTypes' /\ RowKept
            BY <1>1, <2>1, Calling DEF BookTypes, RowKept
        <2>4. (Active' => Active) /\ ~ Materializing
            BY <1>1, <2>1 DEF Active, Exists, Materializing, MaterializingPc
        <2>5. CallStep(IdleClient)
            BY <1>1, <2>1, <2>2, <2>3, <2>4 DEF CallStep
        <2>6. QED
            BY <2>5, CallKeepsIInv
    <1>6. QED
        BY <1>4, <1>5

LEMMA ManualRetryKeepsIInv ==
    ASSUME IInv, ManualRetry
    PROVE  IInv'
    <1> DEFINE next == [IdleClient EXCEPT !.pc = "schedule", !.version = job'.version]
    <1>1. /\ Exists /\ client.pc = "idle" /\ CanResetJob(job)
          /\ job' = resetJobRow(job, Now) /\ fresh' = {} /\ started' = FALSE
          /\ client' = next /\ UNCHANGED <<hooks, wake, faults, leaks>>
        BY DEF ManualRetry, Accept, SetRow
    <1>2. client.new = None
        BY <1>1, Calling
    <1>3. Moves(job, job')
        BY <1>1, Calling, RequestMoves, WakeAssumption
    <1>4. Claimed(job', "pending", job.version + 1, None, 0)
        BY <1>1, Calling, VersionEffects DEF Stored
    <1>5. job'.status = "pending" /\ job'.version > job.version /\ job'.version \in Nat
        BY <1>1, <1>4, Calling DEF Claimed
    <1>6. /\ next \in ClientRecord /\ next.pc = "schedule" /\ next.version = job'.version
          /\ next.new = None /\ next.old = None
        BY <1>1, <1>2, <1>5, Calling, CallRecords
    <1> HIDE DEF next
    <1>7. Counted'
        BY <1>1, CountersStep DEF ManualRetry
    <1>8. BookTypes' /\ RowKept
        BY <1>1, <1>3, <1>7, Calling DEF BookTypes, Counted, RowKept
    <1>9. CallStep(next)
        BY <1>1, <1>5, <1>6, <1>8 DEF CallStep, MaterializingPc
    <1>10. QED
        BY <1>9, CallKeepsIInv

LEMMA PatternEventKeepsIInv ==
    ASSUME IInv, PatternEvent
    PROVE  IInv'
    <1>1. /\ Exists /\ IsPattern(job) /\ CanUpdatePatternEvent(job, job.kind, 1, None)
          /\ job' = updatePatternEventRow(job, requests')
          /\ fresh' = {} /\ started' = FALSE
          /\ UNCHANGED <<hooks, wake, client, faults, leaks>>
        BY DEF PatternEvent, Accept, SetRow
    <1>2. Counted'
        BY <1>1, CountersStep DEF PatternEvent
    <1>3. requests' \in Time
        BY <1>2, WakeAssumption DEF Counted, Time
    <1>4. job.kind \in Kind \ {"once"}
        BY <1>1, Calling DEF Stored, Job, IsPattern
    <1>5. Moves(job, job')
        BY <1>1, <1>3, <1>4, Calling, WindowMoves
    <1>6. Claimed(job', job.status, job.version + 1, job.claimedVersion, job.attempt)
        BY <1>1, Calling, VersionEffects DEF Stored
    <1>7. job'.version > job.version /\ Active
        BY <1>1, <1>6, Calling DEF Claimed, CanUpdatePatternEvent, Active
    \* The claim, if there is one, is of an earlier version.
    <1>8. job'.status # "running" \/ job'.claimedVersion # job'.version
        <2>1. /\ job'.status = job.status /\ job'.version = job.version + 1
              /\ job'.claimedVersion = job.claimedVersion
            BY <1>6 DEF Claimed
        <2>2. ASSUME job.status = "running"
              PROVE  job.claimedVersion # job.version + 1
            <3>1. /\ job.claimedVersion # None /\ job.claimedVersion <= job.version
                  /\ job.claimedVersion \in Nat \cup {None} /\ job.version \in Nat
                BY <1>1, <2>2, Calling DEF Stored, RowFits, ClaimMatches, Job
            <3>2. QED
                BY <3>1
        <2>3. QED
            BY <2>1, <2>2
    <1>9. BookTypes' /\ RowKept
        BY <1>1, <1>2, <1>5, Calling DEF BookTypes, Counted, RowKept
    <1>10. CallStep(client)
        BY <1>1, <1>7, <1>8, <1>9, Calling DEF CallStep, Materializing
    <1>11. QED
        BY <1>10, CallKeepsIInv

LEMMA CancelKeepsIInv ==
    ASSUME IInv, Cancel
    PROVE  IInv'
    <1>1. /\ Exists /\ CanCancelJob(job) /\ job' = cancelJobRow(job, Now)
          /\ hooks' = hooks \ {job.schedulerRef}
          /\ UNCHANGED <<wake, client, faults, fresh, started, leaks>>
        BY DEF Cancel, SetRow, history
    <1>2. Counted'
        BY <1>1, CountersStep DEF Cancel
    <1>3. Moves(job, job')
        BY <1>1, Calling, SettleMoves
    <1>4. Claimed(job', "cancelled", job.version, job.claimedVersion, job.attempt)
        BY <1>1, Calling, ClaimEffects DEF Stored
    <1>5. job'.status # "running" /\ ~ IsActive(job') /\ ~ Active'
        BY <1>4 DEF Claimed, IsActive, ACTIVE_STATUSES, Active
    <1>6. BookTypes' /\ RowKept
        BY <1>1, <1>2, <1>3, Calling DEF BookTypes, Counted, RowKept
    <1>7. CallStep(client)
        BY <1>1, <1>5, <1>6, Calling DEF CallStep
    <1>8. QED
        BY <1>7, CallKeepsIInv

\* The call gives the row up, or finds that it lost it.
LEMMA FailClaimKeepsIInv ==
    ASSUME IInv, FailClaim
    PROVE  IInv'
    <1> DEFINE next == [client EXCEPT !.pc = "fail"]
    <1>1. /\ Exists /\ client.pc = "failClaim" /\ client' = next
          /\ UNCHANGED <<hooks, wake, requests, faults, fresh, started, leaks>>
        BY DEF FailClaim, IInv, SnapshotsOld, history
    <1>2. client \in ClientRecord /\ client.new = None /\ client.version <= job.version
        BY <1>1, Calling
    <1>3. /\ next \in ClientRecord /\ next.pc = "fail" /\ next.version = client.version
          /\ next.new = None /\ next.old = client.old
        BY <1>2 DEF ClientRecord, ClientPc
    <1> HIDE DEF next
    <1>4. CASE CanMarkRunning(job, client.version)
        <2>1. job' = markRunningRow(job, Now)
            BY <1>4 DEF FailClaim, SetRow
        <2>2. Moves(job, job')
            BY <1>1, <1>4, <2>1, Calling, SettleMoves
        <2>3. Claimed(job', "running", job.version, job.version, job.attempt)
            BY <1>1, <2>1, Calling, ClaimEffects DEF Stored
        <2>4. job'.version = client.version
            BY <1>4, <2>3 DEF Claimed, CanMarkRunning, IsPendingAt
        <2>5. BookTypes' /\ RowKept /\ client.version <= job'.version
            BY <1>1, <1>2, <2>2, <2>4, Calling DEF BookTypes, RowKept
        <2>6. CallStep(next)
            BY <1>1, <1>3, <2>4, <2>5 DEF CallStep, MaterializingPc
        <2>7. QED
            BY <2>6, CallKeepsIInv
    <1>5. CASE ~ CanMarkRunning(job, client.version)
        <2>1. job' = job
            BY <1>5 DEF FailClaim
        <2>2. BookTypes' /\ RowKept
            BY <1>1, <2>1, Calling DEF BookTypes, RowKept
        <2>3. CallStep(next)
            BY <1>1, <1>2, <1>3, <2>1, <2>2 DEF CallStep, MaterializingPc
        <2>4. QED
            BY <2>3, CallKeepsIInv
    <1>6. QED
        BY <1>4, <1>5

LEMMA FailMaterializationKeepsIInv ==
    ASSUME IInv, FailMaterialization
    PROVE  IInv'
    <1>1. /\ Exists /\ client.pc = "fail" /\ client' = IdleClient
          /\ UNCHANGED <<hooks, wake, requests, faults, fresh, started>>
        BY DEF FailMaterialization, IInv, SnapshotsOld
    <1>2. /\ IdleClient \in ClientRecord /\ IdleClient.pc = "idle"
          /\ IdleClient.new = None /\ IdleClient.old = None
        BY <1>1, Calling, CallRecords
    <1>3. CASE CanMarkFailed(job, client.version)
        <2>1. job' = markFailedRow(job, "materialization_error", Now) /\ leaks' = leaks
            BY <1>3 DEF FailMaterialization, SetRow
        <2>2. "materialization_error" \in FailureReason
            BY DEF FailureReason
        <2>3. Moves(job, job')
            BY <1>1, <1>3, <2>1, <2>2, Calling, SettleMoves
        <2>4. Claimed(job', "failed", job.version, job.claimedVersion, job.attempt)
            BY <1>1, <2>1, Calling, ClaimEffects DEF Stored
        <2>5. job'.status # "running" /\ ~ Active'
            BY <2>4 DEF Claimed, IsActive, ACTIVE_STATUSES, Active
        <2>6. BookTypes' /\ RowKept
            BY <1>1, <2>1, <2>3, Calling DEF BookTypes, RowKept
        <2>7. CallStep(IdleClient)
            BY <1>1, <1>2, <2>1, <2>5, <2>6 DEF CallStep
        <2>8. QED
            BY <2>7, CallKeepsIInv
    <1>4. CASE ~ CanMarkFailed(job, client.version)
        <2>1. job' = job /\ leaks' = IF Active THEN leaks \cup {"failure lost"} ELSE leaks
            BY <1>4 DEF FailMaterialization
        <2>2. leaks' \in SUBSET Leak /\ leaks \subseteq leaks'
            BY <1>1, <2>1, Calling DEF BookTypes, Leak
        <2>3. BookTypes' /\ RowKept
            BY <1>1, <2>1, <2>2, Calling DEF BookTypes, RowKept
        <2>4. job.status # "running" \/ client.version # job.version
            BY <1>4 DEF CanMarkFailed, IsRunningAt
        <2>5. ~ (leaks' = {} /\ Active')
            BY <2>1 DEF Active, Exists
        <2>6. CallStep(IdleClient)
            BY <1>1, <1>2, <2>1, <2>2, <2>3, <2>4, <2>5 DEF CallStep
        <2>7. QED
            BY <2>6, CallKeepsIInv
    <1>5. QED
        BY <1>3, <1>4

-----------------------------------------------------------------------------
(* The steps of client calls that make a new hook and name it. *)

\* What NewRefs promises of the id it gives.
LEMMA NewRefIsNew ==
    ASSUME IInv, NEW new \in NewRefs
    PROVE  /\ new \in Ref /\ new # None
           /\ wake[new].pc = "idle"
           /\ new # client.new /\ new # client.old
           /\ Exists => job.schedulerRef # new
           /\ \A r \in Ref : wake[r].new # new
    BY WakeAssumption DEF NewRefs

\* The call has created a hook and is about to name it, or to insert its row with it.
CallTakesHook(next) ==
    /\ hooks' = hooks \cup {next.new} /\ client' = next /\ next \in ClientRecord
    /\ next.new \in NewRefs /\ next.old \in {None, client.old}
    /\ \/ next.pc = "insert" /\ ~ Exists /\ client.pc = "idle"
       \/ /\ next.pc = "store" /\ client.pc = "schedule" /\ Exists
          /\ next.version = client.version
    /\ UNCHANGED <<job, wake, requests, faults, fresh, started, leaks>>

LEMMA CallTakesHookKeepsIInv ==
    ASSUME IInv, NEW next, CallTakesHook(next)
    PROVE  IInv'
    <1>1. /\ hooks' = hooks \cup {next.new} /\ client' = next /\ next \in ClientRecord
          /\ next.old \in {None, client.old}
          /\ next.pc \in {"insert", "store"}
          /\ UNCHANGED <<job, wake, requests, faults, fresh, started, leaks>>
        BY DEF CallTakesHook
    <1>2. /\ next.new \in Ref /\ next.new # None /\ next.new # client.old
          /\ wake[next.new].pc = "idle"
          /\ Exists => job.schedulerRef # next.new
          /\ \A r \in Ref : wake[r].new # next.new
        BY NewRefIsNew DEF CallTakesHook
    <1>3. ProcessesTyped'
        BY <1>1, <1>2 DEF IInv, ProcessesTyped, ClientRecord
    <1>4. RowInv'
        BY <1>1 DEF IInv, RowInv, Exists
    <1>5. SnapshotsOld'
        BY <1>1 DEF CallTakesHook, IInv, SnapshotsOld, Exists
    <1>6. RunsFresh'
        BY <1>1 DEF CallTakesHook, IInv, RunsFresh, Exists
    <1>7. NewsApart'
        <2>1. NewsApart
            BY DEF IInv
        <2>2. ASSUME NEW r \in Ref, wake[r].new # None
              PROVE  wake[r].new # next.new /\ wake[r].new # next.old
            BY <1>1, <1>2, <2>1, <2>2 DEF NewsApart
        <2>3. next.new # next.old
            BY <1>1, <1>2
        <2>4. QED
            BY <1>1, <1>2, <2>1, <2>2, <2>3 DEF NewsApart, Exists
    <1>8. NewsYounger'
        BY <1>1, <1>2 DEF IInv, NewsYounger, Younger
    <1>9. WakesHeld'
        <2>1. Active' => Materializing' \/ (Active /\ ~ Materializing)
            BY <1>1 DEF CallTakesHook, Active, Exists, Materializing, MaterializingPc
        <2>2. QED
            BY <1>1, <2>1 DEF IInv, WakesHeld, Active, Exists
    <1>10. QED
        BY <1>3, <1>4, <1>5, <1>6, <1>7, <1>8, <1>9 DEF IInv

LEMMA CreateKeepsIInv ==
    ASSUME IInv, NEW kind \in Kinds, Create(kind)
    PROVE  IInv'
    <1>1. PICK new \in NewRefs :
             /\ hooks' = hooks \cup {new}
             /\ client' = [IdleClient EXCEPT !.pc = "insert", !.kind = kind, !.new = new]
        BY DEF Create
    <1> DEFINE next == [IdleClient EXCEPT !.pc = "insert", !.kind = kind, !.new = new]
    <1>2. new \in Ref /\ kind \in Kind
        BY NewRefIsNew, WakeAssumption
    <1>3. next \in ClientRecord /\ next.pc = "insert" /\ next.new = new /\ next.old = None
        BY <1>2 DEF IdleClient, ClientRecord, ClientPc, Kind
    <1> HIDE DEF next
    <1>4. CallTakesHook(next)
        BY <1>1, <1>3 DEF Create, CallTakesHook, history, next
    <1>5. QED
        BY <1>4, CallTakesHookKeepsIInv

LEMMA ClientScheduleKeepsIInv ==
    ASSUME IInv, ClientSchedule
    PROVE  IInv'
    <1>1. /\ Exists /\ client.pc = "schedule"
          /\ UNCHANGED <<job, wake, requests, fresh, started, leaks>>
        BY DEF ClientSchedule, IInv, SnapshotsOld, history
    <1>2. client \in ClientRecord /\ client.new = None /\ client.version <= job.version
        BY <1>1, Calling
    <1>3. CASE \E new \in NewRefs :
                  /\ hooks' = hooks \cup {new}
                  /\ client' = [client EXCEPT !.pc = "store", !.new = new]
                  /\ UNCHANGED faults
        <2>1. PICK new \in NewRefs :
                 /\ hooks' = hooks \cup {new}
                 /\ client' = [client EXCEPT !.pc = "store", !.new = new]
                 /\ UNCHANGED faults
            BY <1>3
        <2> DEFINE next == [client EXCEPT !.pc = "store", !.new = new]
        <2>2. new \in Ref
            BY NewRefIsNew
        <2>3. /\ next \in ClientRecord /\ next.pc = "store" /\ next.new = new
              /\ next.old = client.old /\ next.version = client.version
            BY <1>2, <2>2 DEF ClientRecord, ClientPc
        <2>4. client' = next
            BY <2>1
        <2> HIDE DEF next
        <2>5. CallTakesHook(next)
            BY <1>1, <2>1, <2>3, <2>4 DEF CallTakesHook
        <2>6. QED
            BY <2>5, CallTakesHookKeepsIInv
    <1>4. CASE /\ Fault /\ client' = [client EXCEPT !.pc = "failClaim"]
               /\ UNCHANGED hooks
        <2> DEFINE next == [client EXCEPT !.pc = "failClaim"]
        <2>1. client' = next /\ hooks' = hooks /\ Counted'
            BY <1>1, <1>4, CountersStep
        <2>2. /\ next \in ClientRecord /\ next.pc = "failClaim" /\ next.new = None
              /\ next.old = client.old /\ next.version = client.version
            BY <1>2 DEF ClientRecord, ClientPc
        <2> HIDE DEF next
        <2>3. BookTypes' /\ RowKept
            BY <1>1, <2>1, Calling DEF BookTypes, Counted, RowKept
        <2>4. CallStep(next)
            BY <1>1, <1>2, <2>1, <2>2, <2>3 DEF CallStep, MaterializingPc
        <2>5. QED
            BY <2>4, CallKeepsIInv
    <1>5. QED
        BY <1>3, <1>4 DEF ClientSchedule

\* The row that the insert stores.
InsertedRow ==
    LET handler == CHOOSE h \in Handler : TRUE
        key == CHOOSE k \in Key : TRUE
    IN  IF client.kind = "once" THEN NewOnceJob(handler, key, Now, MaxAttempts, client.new)
        ELSE NewPatternJob(handler, key, MaxAttempts, client.new,
                           NewWindow(client.kind, requests, 1, None))

LEMMA InsertedRowStored ==
    ASSUME IInv
    PROVE  /\ Stored(InsertedRow) /\ InsertedRow.schedulerRef = client.new
           /\ InsertedRow.status = "pending"
    <1> DEFINE handler == CHOOSE h \in Handler : TRUE
               key == CHOOSE k \in Key : TRUE
    <1>1. handler \in Handler /\ key \in Key
        BY WakeAssumption
    <1>2. /\ MaxAttempts \in Nat \ {0} /\ Now \in Time /\ requests \in Time
          /\ client.kind \in Kind /\ client.new \in Ref \cup {None}
        BY WakeAssumption DEF IInv, ProcessesTyped, ClientRecord, Now, Time
    <1> HIDE DEF handler, key
    <1>3. CASE client.kind = "once"
        <2> DEFINE new == NewOnceJob(handler, key, Now, MaxAttempts, client.new)
        <2>1. InsertedRow = new
            BY <1>3 DEF InsertedRow, handler, key
        <2>2. new \in Job /\ RowFits(new)
            BY <1>1, <1>2, NewOnceJobFits
        <2>3. /\ new.maxAttempts = MaxAttempts /\ new.schedulerRef = client.new
              /\ new.status = "pending"
            BY DEF NewOnceJob, NewJob, NoWindow
        <2> HIDE DEF new
        <2>4. QED
            BY <1>2, <2>1, <2>2, <2>3 DEF Stored
    <1>4. CASE client.kind # "once"
        <2> DEFINE window == NewWindow(client.kind, requests, 1, None)
                   new == NewPatternJob(handler, key, MaxAttempts, client.new, window)
        <2>1. InsertedRow = new
            BY <1>4 DEF InsertedRow, handler, key
        <2>2. new \in Job /\ RowFits(new)
            <3>1. client.kind \in Kind \ {"once"} /\ 1 \in Nat /\ None \in Nat \cup {None}
                BY <1>2, <1>4
            <3>2. QED
                BY <1>1, <1>2, <3>1, NewPatternJobFits
        <2>3. /\ new.maxAttempts = MaxAttempts /\ new.schedulerRef = client.new
              /\ new.status = "pending"
            BY DEF NewPatternJob, NewJob
        <2> HIDE DEF new
        <2>4. QED
            BY <1>2, <2>1, <2>2, <2>3 DEF Stored
    <1>5. QED
        BY <1>3, <1>4

LEMMA InsertKeepsIInv ==
    ASSUME IInv, Insert
    PROVE  IInv'
    <1>1. /\ client.pc = "insert" /\ job' = InsertedRow /\ client' = IdleClient
          /\ UNCHANGED <<hooks, wake, requests, faults, fresh, started, leaks>>
        BY DEF Insert, InsertedRow, SetRow, history
    <1>2. /\ ~ Exists /\ \A r \in Ref : wake[r].pc = "idle" /\ wake[r].new = None
        BY <1>1 DEF IInv, SnapshotsOld, NewsApart
    <1>3. /\ job' \in Job /\ RowFits(job') /\ job'.maxAttempts # 0
          /\ job'.schedulerRef = client.new /\ job'.status = "pending" /\ Exists'
        BY <1>1, InsertedRowStored, WakeAssumption DEF Stored, Exists
    <1>4. /\ IdleClient \in ClientRecord /\ IdleClient.pc = "idle"
          /\ IdleClient.new = None /\ IdleClient.old = None
        BY DEF IdleClient, ClientRecord, ClientPc, Kind
    <1>5. ProcessesTyped' /\ RowInv'
        BY <1>1, <1>3, <1>4 DEF IInv, ProcessesTyped, RowInv, ClientRecord
    <1>6. SnapshotsOld'
        BY <1>1, <1>2, <1>4 DEF SnapshotsOld
    <1>7. RunsFresh'
        BY <1>1, <1>2, <1>3 DEF IInv, RunsFresh
    <1>8. NewsApart' /\ NewsYounger'
        BY <1>1, <1>2, <1>4, WakeAssumption DEF IInv, NewsApart, NewsYounger
    <1>9. WakesHeld'
        BY <1>1, <1>2, <1>3, <1>4 DEF IInv, WakesHeld
    <1>10. QED
        BY <1>5, <1>6, <1>7, <1>8, <1>9 DEF IInv

\* The row is as the call left it, and now names the call's hook.
LEMMA CallNamesHookKeepsIInv ==
    ASSUME IInv, client.pc = "store", job.version = client.version,
           job' = updateSchedulerRefRow(job, client.new), hooks' = hooks \ {client.old},
           client' = IdleClient,
           UNCHANGED <<wake, requests, faults, fresh, started, leaks>>
    PROVE  IInv'
    <1>1. Exists
        BY DEF IInv, SnapshotsOld
    <1>2. /\ Stored(job) /\ job.version \in Nat
          /\ client.new # None /\ client.new \in Ref /\ client.new # client.old
        BY <1>1, Calling DEF IInv, NewsApart, ClientRecord
    <1>3. /\ job' \in Job /\ RowFits(job') /\ job'.maxAttempts # 0
          /\ job'.schedulerRef = client.new
        BY <1>2, UpdateSchedulerRefKeeps, NameEffects DEF Keeps, Stored, Named
    <1>4. /\ job'.status = job.status /\ job'.version = job.version
          /\ job'.claimedVersion = job.claimedVersion
        BY <1>2, DueAndRefEffects DEF Claimed, Stored
    <1>5. Exists' /\ (Active' <=> Active)
        BY <1>1, <1>3, <1>4, WakeAssumption DEF Exists, Active, IsActive
    <1>6. /\ IdleClient \in ClientRecord /\ IdleClient.pc = "idle"
          /\ IdleClient.new = None /\ IdleClient.old = None
        BY DEF IdleClient, ClientRecord, ClientPc, Kind
    <1>7. ProcessesTyped' /\ RowInv'
        BY <1>3, <1>6 DEF IInv, ProcessesTyped, RowInv, ClientRecord
    <1>8. SnapshotsOld'
        BY <1>1, <1>4, <1>5, <1>6 DEF IInv, SnapshotsOld
    <1>9. RunsFresh'
        BY <1>1, <1>4, <1>5, <1>6 DEF IInv, RunsFresh
    <1>10. NewsApart' /\ NewsYounger'
        <2>1. ASSUME NEW r \in Ref, wake[r].new # None
              PROVE  wake[r].new # client.new /\ wake[r].new # client.old
            BY <2>1 DEF IInv, NewsApart
        <2>2. NewsApart'
            BY <1>3, <1>6, <2>1 DEF IInv, NewsApart
        <2>3. NewsYounger'
            BY <1>6, WakeAssumption DEF IInv, NewsYounger, Younger
        <2>4. QED
            BY <2>2, <2>3
    <1>11. WakesHeld'
        <2>1. ASSUME leaks = {}, Active
              PROVE  client.new \in hooks'
            BY <1>2, <2>1 DEF IInv, WakesHeld
        <2>2. ASSUME NEW r \in Ref, leaks = {}, Active, wake[r].pc = "store",
                     wake[r].version = job.version
              PROVE  wake[r].new \in hooks'
            BY <2>2 DEF IInv, WakesHeld, NewsApart
        <2>3. QED
            BY <1>3, <1>4, <1>5, <1>6, <2>1, <2>2 DEF WakesHeld
    <1>12. QED
        BY <1>7, <1>8, <1>9, <1>10, <1>11 DEF IInv

LEMMA ClientStoreKeepsIInv ==
    ASSUME IInv, ClientStore
    PROVE  IInv'
    <1>1. /\ Exists /\ client.pc = "store" /\ client' = IdleClient
          /\ UNCHANGED <<wake, requests, faults, fresh, started>>
        BY DEF ClientStore, IInv, SnapshotsOld
    <1>2. CASE CanUpdateSchedulerRef(job, client.version)
        <2>1. /\ job' = updateSchedulerRefRow(job, client.new)
              /\ hooks' = hooks \ {client.old} /\ leaks' = leaks
              /\ job.version = client.version
            BY <1>2 DEF ClientStore, SetRow, CanUpdateSchedulerRef
        <2>2. QED
            BY <1>1, <2>1, CallNamesHookKeepsIInv
    <1>3. CASE ~ CanUpdateSchedulerRef(job, client.version)
        <2>1. /\ job' = job /\ hooks' = hooks \ {client.old, client.new}
              /\ leaks' = IF Active THEN leaks \cup {"ref lost"} ELSE leaks
            BY <1>3 DEF ClientStore
        <2>2. leaks' \in SUBSET Leak /\ leaks \subseteq leaks'
            BY <1>1, <2>1, Calling DEF BookTypes, Leak
        <2>3. BookTypes' /\ RowKept
            BY <1>1, <2>1, <2>2, Calling DEF BookTypes, RowKept
        <2>4. /\ leaks' # {} \/ ~ IsActive(job')
              /\ ~ (leaks' = {} /\ Active')
            BY <1>1, <2>1 DEF Active, Exists
        <2>5. /\ IdleClient \in ClientRecord /\ IdleClient.pc = "idle"
              /\ IdleClient.new = None /\ IdleClient.old = None
            BY DEF IdleClient, ClientRecord, ClientPc, Kind
        <2>6. CallStep(IdleClient)
            BY <1>1, <2>1, <2>2, <2>3, <2>4, <2>5 DEF CallStep
        <2>7. QED
            BY <2>6, CallKeepsIInv
    <1>4. QED
        BY <1>2, <1>3

-----------------------------------------------------------------------------
(* The theorems. *)

LEMMA InitIInv ==
    Init => IInv
    <1> SUFFICES ASSUME Init PROVE IInv
        OBVIOUS
    <1>1. \A r \in Ref : wake[r] = IdleWake
        BY DEF Init
    <1>2. /\ IdleWake \in WakeRecord /\ IdleWake.pc = "idle" /\ IdleWake.new = None
          /\ IdleClient \in ClientRecord /\ IdleClient.pc = "idle"
          /\ IdleClient.new = None /\ IdleClient.old = None
        BY DEF IdleWake, WakeRecord, DeliveryPc, IdleClient, ClientRecord, ClientPc, Kind
    <1>3. ProcessesTyped
        <2>1. wake \in [Ref -> WakeRecord] /\ client \in ClientRecord
            BY <1>2 DEF Init
        <2>2. requests \in 0 .. MaxRequests /\ faults \in 0 .. MaxFaults
            BY WakeAssumption DEF Init
        <2>3. QED
            BY <2>1, <2>2 DEF Init, ProcessesTyped, WakeRecord, ClientRecord
    <1>4. ~ Exists /\ RowInv
        BY DEF Init, Exists, RowInv
    <1>5. SnapshotsOld /\ RunsFresh
        BY <1>1, <1>2, <1>4 DEF Init, SnapshotsOld, RunsFresh
    <1>6. NewsApart /\ NewsYounger
        BY <1>1, <1>2, <1>4, WakeAssumption DEF Init, NewsApart, NewsYounger
    <1>7. WakesHeld
        BY <1>1, <1>2, <1>4 DEF Init, WakesHeld, Active
    <1>8. QED
        BY <1>3, <1>4, <1>5, <1>6, <1>7 DEF IInv

LEMMA StutterKeepsIInv ==
    IInv /\ UNCHANGED vars => IInv'
    BY DEF vars, IInv, ProcessesTyped, RowInv, SnapshotsOld, RunsFresh, NewsApart, NewsYounger, Younger,
           WakesHeld, Exists, Active, Materializing

LEMMA NextIInv ==
    IInv /\ [Next]_vars => IInv'
    <1> SUFFICES ASSUME IInv, [Next]_vars PROVE IInv'
        OBVIOUS
    <1>1. ASSUME NEW r \in Ref, Deliver(r) PROVE IInv'
        BY <1>1, DeliverKeepsIInv
    <1>2. ASSUME NEW r \in Ref, Process(r) PROVE IInv'
        BY <1>2, ExecuteKeepsIInv, ReclaimKeepsIInv, ClaimTerminalKeepsIInv,
           FailTerminalKeepsIInv, ResettleKeepsIInv, ClaimKeepsIInv, HandlerSucceedsKeepsIInv,
           HandlerReschedulesKeepsIInv, HandlerFailsRetryableKeepsIInv,
           HandlerFailsExhaustedKeepsIInv, RequeueWindowKeepsIInv, ScheduleWakeKeepsIInv,
           StoreWakeKeepsIInv DEF Process
    <1>3. ASSUME NEW r \in Ref, Crash(r) PROVE IInv'
        BY <1>3, CrashKeepsIInv
    <1>4. ASSUME ClientStart PROVE IInv'
        BY <1>4, CreateKeepsIInv, BeginReplaceKeepsIInv, ManualRetryKeepsIInv,
           PatternEventKeepsIInv, CancelKeepsIInv DEF ClientStart
    <1>5. ASSUME ClientStep PROVE IInv'
        BY <1>5, InsertKeepsIInv, ReplaceKeepsIInv, ClientScheduleKeepsIInv,
           ClientStoreKeepsIInv, FailClaimKeepsIInv, FailMaterializationKeepsIInv
           DEF ClientStep
    <1>6. CASE UNCHANGED vars
        BY <1>6, StutterKeepsIInv
    <1>7. QED
        BY <1>1, <1>2, <1>3, <1>4, <1>5, <1>6 DEF Next

\* The inductive invariant holds throughout: what each delivery and call has read of
\* the row, which hooks each is about to name, and where the row's next wake is.
THEOREM WakeInvariant ==
    Spec => []IInv
    <1>1. Init => IInv
        BY InitIInv
    <1>2. IInv /\ [Next]_vars => IInv'
        BY NextIInv
    <1>3. QED
        BY <1>1, <1>2, PTL DEF Spec

\* What is known of the window's end is one of the three, whoever learns it.
LEMMA WindowEndKept ==
    windowEnd \in WindowEnd /\ [Next]_vars => (windowEnd \in WindowEnd)'
    <1> SUFFICES ASSUME windowEnd \in WindowEnd, [Next]_vars
                 PROVE  windowEnd' \in WindowEnd
        OBVIOUS
    <1>1. ASSUME NEW r \in Ref, Deliver(r) \/ Process(r) \/ Crash(r)
          PROVE  windowEnd' \in WindowEnd
        <2>1. windowEnd' = windowEnd \/ windowEnd' \in {"hooked", "over"}
            BY <1>1
               DEF Deliver, Process, Crash, Execute, Reclaim, Dispatch, ClaimTerminal,
                   FailTerminal, Resettle, Claim, HandlerSucceeds, HandlerReschedules,
                   HandlerFailsRetryable, HandlerFailsExhausted, RequeueWindow, ScheduleWake,
                   StoreWake
        <2>2. QED
            BY <2>1 DEF WindowEnd
    <1>2. ASSUME ClientStart \/ ClientStep PROVE windowEnd' \in WindowEnd
        <2>1. windowEnd' = windowEnd \/ windowEnd' \in {"open", "hooked", "over"}
            BY <1>2
               DEF ClientStart, Create, BeginReplace, ManualRetry, PatternEvent, Cancel,
                   ClientStep, Insert, Replace, ClientSchedule, ClientStore, FailClaim,
                   FailMaterialization
        <2>2. QED
            BY <2>1 DEF WindowEnd
    <1>3. QED
        BY <1>1, <1>2 DEF Next, vars

\* Every variable keeps its type.
THEOREM TypeCorrect ==
    Spec => []TypeOK
    <1>1. Init => windowEnd \in WindowEnd
        BY DEF Init, WindowEnd
    <1>2. Spec => [](windowEnd \in WindowEnd)
        BY <1>1, WindowEndKept, PTL DEF Spec
    <1>3. IInv /\ windowEnd \in WindowEnd => TypeOK
        BY DEF IInv, ProcessesTyped, TypeOK, WakeRecord, ClientRecord
    <1>4. QED
        BY <1>2, <1>3, WakeInvariant, PTL

\* An active row with nobody at work and no hook to wake it has lost its wake in one
\* of the listed ways.
THEOREM StrandsOnlyByLeak ==
    Spec => []StrandedOnlyByLeak
    <1>1. IInv => StrandedOnlyByLeak
        BY DEF IInv, WakesHeld, StrandedOnlyByLeak, Stranded, Materializing, MaterializingPc
    <1>2. QED
        BY <1>1, WakeInvariant, PTL

-----------------------------------------------------------------------------
(* Who closes the row. *)

ServedClosing ==
    Exists =>
        /\ job.status # "completed" /\ job'.status = "completed" =>
              \E r \in fresh : wake[r].pc = "handler" /\ wake'[r].pc = "idle"
        /\ job.status # "failed" /\ job'.status = "failed" =>
              started \/ job'.failureReason = "materialization_error"

\* Most writes do not close the row.
LEMMA OpenStatuses ==
    ASSUME NEW row \in Job
    PROVE  /\ \A now : /\ markRunningRow(row, now).status = "running"
                       /\ cancelJobRow(row, now).status = "cancelled"
                       /\ updatePatternEventRow(row, now).status = row.status
                       /\ rescheduleJobRow(row, now).status = "pending"
                       /\ resetJobRow(row, now).status = "pending"
           /\ \A now, n : /\ retryJobRow(row, n, now).status = "pending"
                          /\ replaceJobRow(row, now, n).status = row.status
           /\ requeueForNextWindowRow(row).status = "pending"
           /\ rescheduleDueAtRow(row).status = row.status
           /\ reclaimRow(row).status = "pending"
           /\ \A ref : updateSchedulerRefRow(row, ref).status = row.status
    BY DEF markRunningRow, cancelJobRow, updatePatternEventRow, rescheduleJobRow, resetJobRow,
           retryJobRow, replaceJobRow, requeueForNextWindowRow, rescheduleDueAtRow, reclaimRow,
           updateSchedulerRefRow, resetDeferFields, Job

LEMMA OpenWriteServed ==
    ASSUME job' = job \/ job'.status \in {"pending", "running", "cancelled", job.status}
    PROVE  ServedClosing
    BY DEF ServedClosing

\* A delivery closes the row only for a run of the row's present version.
LEMMA DeliveryClosesServed ==
    ASSUME IInv, Exists, NEW r \in Ref, Process(r)
    PROVE  ServedClosing
    <1>1. job \in Job
        BY StoredRow DEF Stored
    <1>2. ASSUME HandlerSucceeds(r) PROVE ServedClosing
        <2>1. CASE CanMarkCompleted(job, wake[r].version)
            <3>1. /\ wake[r].pc = "handler" /\ wake[r].version = job.version
                  /\ job' = markCompletedRow(job, Now)
                  /\ wake' = [wake EXCEPT ![r] = IdleWake]
                BY <1>2, <2>1 DEF HandlerSucceeds, CanMarkCompleted, IsRunningAt, At, SetRow, Ok
            <3>2. r \in fresh
                BY <3>1 DEF IInv, RunsFresh
            <3>3. wake'[r].pc = "idle"
                BY <3>1, ProcessTypes DEF IdleWake
            <3>4. Claimed(job', "completed", job.version, job.claimedVersion, job.attempt)
                BY <1>1, <3>1, ClaimEffects
            <3>5. QED
                BY <3>1, <3>2, <3>3, <3>4 DEF ServedClosing, Claimed
        <2>2. CASE ~ CanMarkCompleted(job, wake[r].version)
            BY <1>2, <2>2 DEF HandlerSucceeds, LostOutcome, Skip, ServedClosing
        <2>3. QED
            BY <2>1, <2>2
    <1>3. ASSUME HandlerFailsExhausted(r) PROVE ServedClosing
        <2>1. CASE CanMarkFailed(job, wake[r].version)
            <3>1. /\ wake[r].pc = "handler" /\ wake[r].version = job.version
                  /\ job' = markFailedRow(job, "handler_error", Now)
                BY <1>3, <2>1 DEF HandlerFailsExhausted, CanMarkFailed, IsRunningAt, At, SetRow
            <3>2. started = TRUE
                BY <3>1 DEF IInv, RunsFresh
            <3>3. Claimed(job', "failed", job.version, job.claimedVersion, job.attempt)
                BY <1>1, <3>1, ClaimEffects
            <3>4. QED
                BY <3>2, <3>3 DEF ServedClosing, Claimed
        <2>2. CASE ~ CanMarkFailed(job, wake[r].version)
            BY <1>3, <2>2 DEF HandlerFailsExhausted, LostOutcome, Skip, ServedClosing
        <2>3. QED
            BY <2>1, <2>2
    <1>4. ASSUME FailTerminal(r) PROVE ServedClosing
        <2>1. CASE CanMarkFailed(job, wake[r].version)
            <3>1. /\ wake[r].pc = "failTerminal" /\ wake[r].version = job.version
                  /\ job' = markFailedRow(job, "stalled", Now)
                BY <1>4, <2>1 DEF FailTerminal, CanMarkFailed, IsRunningAt, At, SetRow
            <3>2. started = TRUE
                BY <3>1 DEF IInv, RunsFresh
            <3>3. Claimed(job', "failed", job.version, job.claimedVersion, job.attempt)
                BY <1>1, <3>1, ClaimEffects
            <3>4. QED
                BY <3>2, <3>3 DEF ServedClosing, Claimed
        <2>2. CASE ~ CanMarkFailed(job, wake[r].version)
            BY <1>4, <2>2 DEF FailTerminal, Skip, ServedClosing
        <2>3. QED
            BY <2>1, <2>2
    <1>5. ASSUME Execute(r) PROVE ServedClosing
        <2>1. job' = job
            BY <1>5 DEF Execute, Skip, Dispatch
        <2>2. QED
            BY <1>1, <2>1, OpenStatuses, OpenWriteServed
    <1>6. ASSUME Reclaim(r) PROVE ServedClosing
        <2>1. job' = job \/ job' = reclaimRow(job)
            BY <1>6 DEF Reclaim, Skip, SetRow
        <2>2. QED
            BY <1>1, <2>1, OpenStatuses, OpenWriteServed
    <1>7. ASSUME ClaimTerminal(r) PROVE ServedClosing
        <2>1. job' = job \/ job' = markRunningRow(job, Now)
            BY <1>7 DEF ClaimTerminal, Skip, SetRow
        <2>2. QED
            BY <1>1, <2>1, OpenStatuses, OpenWriteServed
    <1>8. ASSUME Resettle(r) PROVE ServedClosing
        <2>1. job' = job \/ job' = rescheduleDueAtRow(job)
            BY <1>8 DEF Resettle, Skip, SetRow
        <2>2. QED
            BY <1>1, <2>1, OpenStatuses, OpenWriteServed
    <1>9. ASSUME Claim(r) PROVE ServedClosing
        <2>1. job' = job \/ job' = markRunningRow(job, Now)
            BY <1>9 DEF Claim, Skip, SetRow
        <2>2. QED
            BY <1>1, <2>1, OpenStatuses, OpenWriteServed
    <1>10. ASSUME HandlerReschedules(r) PROVE ServedClosing
        <2>1. job' = job \/ job' = rescheduleJobRow(job, Now)
            BY <1>10 DEF HandlerReschedules, Accept, Skip, SetRow
        <2>2. QED
            BY <1>1, <2>1, OpenStatuses, OpenWriteServed
    <1>11. ASSUME HandlerFailsRetryable(r) PROVE ServedClosing
        <2>1. job' = job \/ job' = retryJobRow(job, wake[r].attempt + 1, Now)
            BY <1>11 DEF HandlerFailsRetryable, LostOutcome, SetRow
        <2>2. QED
            BY <1>1, <2>1, OpenStatuses, OpenWriteServed
    <1>12. ASSUME RequeueWindow(r) PROVE ServedClosing
        <2>1. job' = job \/ job' = requeueForNextWindowRow(job)
            BY <1>12 DEF RequeueWindow, Skip, SetRow
        <2>2. QED
            BY <1>1, <2>1, OpenStatuses, OpenWriteServed
    <1>13. ASSUME ScheduleWake(r) PROVE ServedClosing
        <2>1. job' = job
            BY <1>13 DEF ScheduleWake
        <2>2. QED
            BY <1>1, <2>1, OpenStatuses, OpenWriteServed
    <1>14. ASSUME StoreWake(r) PROVE ServedClosing
        <2>1. job' = job \/ job' = updateSchedulerRefRow(job, wake[r].new)
            BY <1>14 DEF StoreWake, SetRow
        <2>2. QED
            BY <1>1, <2>1, OpenStatuses, OpenWriteServed
    <1>15. QED
        BY <1>2, <1>3, <1>4, <1>5, <1>6, <1>7, <1>8, <1>9, <1>10, <1>11, <1>12, <1>13, <1>14 DEF Process

\* A client call closes the row only where it gives up making its wake.
LEMMA CallClosesServed ==
    ASSUME IInv, Exists, ClientStart \/ ClientStep
    PROVE  ServedClosing
    <1>1. job \in Job
        BY StoredRow DEF Stored
    <1>2. ASSUME FailMaterialization PROVE ServedClosing
        <2>1. CASE job' = markFailedRow(job, "materialization_error", Now)
            <3>1. job'.failureReason = "materialization_error"
                BY <1>1, <2>1 DEF markFailedRow, resetDeferFields, Job
            <3>2. Claimed(job', "failed", job.version, job.claimedVersion, job.attempt)
                BY <1>1, <2>1, ClaimEffects
            <3>3. QED
                BY <3>1, <3>2 DEF ServedClosing, Claimed
        <2>2. CASE job' = job
            BY <2>2 DEF ServedClosing
        <2>3. QED
            BY <1>2, <2>1, <2>2 DEF FailMaterialization, SetRow
    <1>3. ASSUME ClientStart PROVE ServedClosing
        <2>1. \/ job' = job \/ job' = resetJobRow(job, Now)
              \/ job' = updatePatternEventRow(job, requests') \/ job' = cancelJobRow(job, Now)
            BY <1>3 DEF ClientStart, Create, BeginReplace, ManualRetry, PatternEvent, Cancel,
                          Accept, SetRow
        <2>2. QED
            BY <1>1, <2>1, OpenStatuses, OpenWriteServed
    <1>4. ASSUME Replace PROVE ServedClosing
        <2>1. job' = job \/ job' = replaceJobRow(job, Now, MaxAttempts)
            BY <1>4 DEF Replace, Accept, SetRow
        <2>2. QED
            BY <1>1, <2>1, OpenStatuses, OpenWriteServed
    <1>5. ASSUME ClientSchedule PROVE ServedClosing
        <2>1. job' = job
            BY <1>5 DEF ClientSchedule
        <2>2. QED
            BY <1>1, <2>1, OpenStatuses, OpenWriteServed
    <1>6. ASSUME ClientStore PROVE ServedClosing
        <2>1. job' = job \/ job' = updateSchedulerRefRow(job, client.new)
            BY <1>6 DEF ClientStore, SetRow
        <2>2. QED
            BY <1>1, <2>1, OpenStatuses, OpenWriteServed
    <1>7. ASSUME FailClaim PROVE ServedClosing
        <2>1. job' = job \/ job' = markRunningRow(job, Now)
            BY <1>7 DEF FailClaim, SetRow
        <2>2. QED
            BY <1>1, <2>1, OpenStatuses, OpenWriteServed
    <1>8. ~ Insert
        BY DEF Insert, IInv, SnapshotsOld
    <1>9. QED
        BY <1>2, <1>3, <1>4, <1>5, <1>6, <1>7, <1>8 DEF ClientStep

\* No request that was accepted is closed behind its back: a completion is of a run
\* that began after it, and a failure comes after one began or says that no wake could
\* be made.
THEOREM NoneClosedUnserved ==
    Spec => NoRequestClosedUnserved
    <1>1. IInv /\ [Next]_vars => [ServedClosing]_vars
        <2> SUFFICES ASSUME IInv, Exists, Next PROVE ServedClosing
            BY DEF ServedClosing
        <2>1. ASSUME NEW r \in Ref, Deliver(r) PROVE ServedClosing
            BY <2>1 DEF Deliver, ServedClosing
        <2>2. ASSUME NEW r \in Ref, Crash(r) PROVE ServedClosing
            BY <2>2 DEF Crash, ServedClosing
        <2>3. QED
            BY <2>1, <2>2, DeliveryClosesServed, CallClosesServed DEF Next
    <1>2. QED
        BY <1>1, WakeInvariant, PTL DEF Spec, NoRequestClosedUnserved, ServedClosing

-----------------------------------------------------------------------------
(* The deliveries a hook has left. *)

\* A pattern row has a window, so events during its run requeue it.
Windowed(row) == IsPattern(row) => row.waitMs # 0
BudgetRow(row) == row \in Job /\ RowFits(row) /\ row.version # 0 /\ Windowed(row)
BudgetRowInv == Exists => BudgetRow(job)

\* The run holds the claim of the row.
Holds(e) ==
    /\ Exists /\ job.status = "running"
    /\ job.claimedVersion = e.version /\ job.attempt = e.attempt
OneHolder ==
    /\ \A r \in Ref : run[r] # NoRun => Holds(run[r]) /\ zombie = NoRun
    /\ zombie # NoRun => Holds(zombie)
    /\ \A r, q \in Ref : run[r] # NoRun /\ run[q] # NoRun => r = q
NobodyRuns == zombie = NoRun /\ \A r \in Ref : run[r] = NoRun

\* Unless something used up deliveries, a claim has a holder, and the hook the row
\* names has a delivery for each attempt it was made for that the row has left.
Left(attempt) == Least(asked, SchedulerMax) - attempt
Covered ==
    excuses = {} /\ Active =>
        /\ entry <= asked /\ entry <= SchedulerMax
        /\ job.schedulerRef # None
        /\ job.status = "pending" => tries[job.schedulerRef] >= Left(job.attempt)
        /\ job.status = "running" =>
              /\ ~ NobodyRuns
              /\ tries[job.schedulerRef] >= Left(job.attempt + 1)

BudgetInv == BudgetTypeOK /\ BudgetRowInv /\ OneHolder /\ Covered

\* A write that keeps the row, its wait, and not an older version.
LEMMA BudgetKeeps ==
    ASSUME NEW row, BudgetRow(row), NEW new, Keeps(row, new), new.version >= row.version,
           new.waitMs = row.waitMs
    PROVE  BudgetRow(new) /\ new.kind = row.kind
    <1>1. row.version \in Nat /\ new.version \in Nat /\ row.version # 0 /\ new.kind = row.kind
        BY DEF BudgetRow, Keeps, SameSlot, Job
    <1>2. new.version # 0
        BY <1>1
    <1>3. QED
        BY <1>1, <1>2 DEF BudgetRow, Keeps, Windowed, IsPattern

\* No operator touches the wait.
LEMMA WaitEffects ==
    ASSUME NEW row \in Job
    PROVE  /\ \A now : /\ markRunningRow(row, now).waitMs = row.waitMs
                       /\ markCompletedRow(row, now).waitMs = row.waitMs
                       /\ updatePatternEventRow(row, now).waitMs = row.waitMs
                       /\ rescheduleJobRow(row, now).waitMs = row.waitMs
                       /\ resetJobRow(row, now).waitMs = row.waitMs
           /\ \A now, reason : markFailedRow(row, reason, now).waitMs = row.waitMs
           /\ \A now, n : /\ retryJobRow(row, n, now).waitMs = row.waitMs
                          /\ replaceJobRow(row, now, n).waitMs = row.waitMs
           /\ requeueForNextWindowRow(row).waitMs = row.waitMs
           /\ reclaimRow(row).waitMs = row.waitMs
           /\ \A ref : updateSchedulerRefRow(row, ref).waitMs = row.waitMs
    BY DEF markRunningRow, markCompletedRow, updatePatternEventRow,
           rescheduleJobRow, resetJobRow, markFailedRow, retryJobRow, replaceJobRow,
           requeueForNextWindowRow, reclaimRow, updateSchedulerRefRow, resetDeferFields, Job

Ended(row) == BudgetRow(row) /\ ~ IsActive(row)
Awaits(row) == BudgetRow(row) /\ row.status = "pending"

LEMMA EndedRows ==
    ASSUME NEW row, BudgetRow(row), row.status = "running"
    PROVE  /\ Ended(markCompletedRow(row, 0))
           /\ \A reason \in FailureReason : Ended(markFailedRow(row, reason, 0))
    <1>1. row \in Job /\ RowFits(row) /\ row.version \in Nat /\ 0 \in Time
        BY DEF BudgetRow, Job, Time
    <1>2. Ended(markCompletedRow(row, 0))
        <2>1. CanMarkCompleted(row, row.version)
            BY DEF CanMarkCompleted, IsRunningAt
        <2>2. Keeps(row, markCompletedRow(row, 0))
            BY <1>1, <2>1, MarkCompletedKeeps
        <2>3. Claimed(markCompletedRow(row, 0), "completed",
                      row.version, row.claimedVersion, row.attempt)
            BY <1>1, ClaimEffects
        <2>4. markCompletedRow(row, 0).waitMs = row.waitMs
            BY <1>1, WaitEffects
        <2>5. QED
            BY <1>1, <2>2, <2>3, <2>4, BudgetKeeps DEF Ended, Claimed, IsActive, ACTIVE_STATUSES
    <1>3. ASSUME NEW reason \in FailureReason PROVE Ended(markFailedRow(row, reason, 0))
        <2>1. CanMarkFailed(row, row.version)
            BY DEF CanMarkFailed, IsRunningAt
        <2>2. Keeps(row, markFailedRow(row, reason, 0))
            BY <1>1, <2>1, MarkFailedKeeps
        <2>3. Claimed(markFailedRow(row, reason, 0), "failed",
                      row.version, row.claimedVersion, row.attempt)
            BY <1>1, ClaimEffects
        <2>4. markFailedRow(row, reason, 0).waitMs = row.waitMs
            BY <1>1, WaitEffects
        <2>5. QED
            BY <1>1, <2>2, <2>3, <2>4, BudgetKeeps DEF Ended, Claimed, IsActive, ACTIVE_STATUSES
    <1>4. QED
        BY <1>2, <1>3

LEMMA StartedRow ==
    ASSUME NEW row, Awaits(row)
    PROVE  LET new == markRunningRow(row, 0)
           IN  /\ BudgetRow(new) /\ new.schedulerRef = row.schedulerRef
               /\ Claimed(new, "running", row.version, row.version, row.attempt)
    <1> DEFINE new == markRunningRow(row, 0)
    <1>1. row \in Job /\ RowFits(row) /\ BudgetRow(row) /\ row.version \in Nat /\ 0 \in Time
        BY DEF Awaits, BudgetRow, Job, Time
    <1>2. CanMarkRunning(row, row.version)
        BY DEF Awaits, CanMarkRunning, IsPendingAt
    <1>3. Keeps(row, new)
        BY <1>1, <1>2, MarkRunningKeeps
    <1>4. Claimed(new, "running", row.version, row.version, row.attempt)
        BY <1>1, ClaimEffects
    <1>5. Named(new, row.schedulerRef, row.maxAttempts) /\ new.waitMs = row.waitMs
        BY <1>1, NameEffects, WaitEffects
    <1> HIDE DEF new
    <1>6. BudgetRow(new) /\ new.schedulerRef = row.schedulerRef
        BY <1>1, <1>3, <1>4, <1>5, BudgetKeeps DEF Claimed, Named
    <1>7. QED
        BY <1>4, <1>6 DEF new

\* The rows that a claim that has ended leaves to wait.
LEMMA AwaitingRows ==
    ASSUME NEW row, BudgetRow(row), row.status = "running"
    PROVE  /\ Awaits(reclaimRow(row))
           /\ CanRequeueForNextWindow(row) => Awaits(requeueForNextWindowRow(row))
           /\ Awaits(rescheduleJobRow(row, 0))
           /\ \A n \in Nat :
                 /\ Awaits(retryJobRow(row, n, 0)) /\ retryJobRow(row, n, 0).attempt = n
                 /\ retryJobRow(row, n, 0).schedulerRef = row.schedulerRef
    <1>1. row \in Job /\ RowFits(row) /\ row.version \in Nat /\ 0 \in Time
        BY DEF BudgetRow, Job, Time
    <1>2. Awaits(reclaimRow(row))
        <2>1. Keeps(row, reclaimRow(row))
            BY <1>1, ReclaimKeeps
        <2>2. /\ reclaimRow(row).version \in {row.version, row.version + 1}
              /\ reclaimRow(row).status = "pending"
            BY <1>1, ReclaimEffects DEF Claimed
        <2>3. reclaimRow(row).waitMs = row.waitMs
            BY <1>1, WaitEffects
        <2>4. QED
            BY <1>1, <2>1, <2>2, <2>3, BudgetKeeps DEF Awaits
    <1>3. ASSUME CanRequeueForNextWindow(row) PROVE Awaits(requeueForNextWindowRow(row))
        <2>1. Keeps(row, requeueForNextWindowRow(row))
            BY <1>1, <1>3, RequeueKeeps
        <2>2. Claimed(requeueForNextWindowRow(row), "pending", row.version + 1, None, 0)
            BY <1>1, VersionEffects
        <2>3. requeueForNextWindowRow(row).waitMs = row.waitMs
            BY <1>1, WaitEffects
        <2>4. QED
            BY <1>1, <2>1, <2>2, <2>3, BudgetKeeps DEF Awaits, Claimed
    <1>4. Awaits(rescheduleJobRow(row, 0))
        <2>1. CanRescheduleJob(row, row.version)
            BY DEF CanRescheduleJob, IsRunningAt
        <2>2. Keeps(row, rescheduleJobRow(row, 0))
            BY <1>1, <2>1, RescheduleKeeps
        <2>3. Claimed(rescheduleJobRow(row, 0), "pending", row.version + 1, None, 0)
            BY <1>1, VersionEffects
        <2>4. rescheduleJobRow(row, 0).waitMs = row.waitMs
            BY <1>1, WaitEffects
        <2>5. QED
            BY <1>1, <2>2, <2>3, <2>4, BudgetKeeps DEF Awaits, Claimed
    <1>5. ASSUME NEW n \in Nat
          PROVE  /\ Awaits(retryJobRow(row, n, 0)) /\ retryJobRow(row, n, 0).attempt = n
                 /\ retryJobRow(row, n, 0).schedulerRef = row.schedulerRef
        <2>1. CanRetryJob(row, row.version)
            BY DEF CanRetryJob, IsRunningAt
        <2>2. Keeps(row, retryJobRow(row, n, 0))
            BY <1>1, <2>1, RetryKeeps
        <2>3. Claimed(retryJobRow(row, n, 0), "pending", row.version, None, n)
            BY <1>1, ClaimEffects
        <2>4. /\ retryJobRow(row, n, 0).waitMs = row.waitMs
              /\ Named(retryJobRow(row, n, 0), row.schedulerRef, row.maxAttempts)
            BY <1>1, WaitEffects, NameEffects
        <2>5. QED
            BY <1>1, <2>2, <2>3, <2>4, BudgetKeeps DEF Awaits, Claimed, Named
    <1>6. QED
        BY <1>2, <1>3, <1>4, <1>5

\* The rows that a request leaves to wait.
LEMMA RequestedRows ==
    ASSUME NEW row, BudgetRow(row), NEW n \in Nat
    PROVE  /\ CanReplaceJob(row) => Awaits(replaceJobRow(row, 0, n))
           /\ CanResetJob(row) => Awaits(resetJobRow(row, 0))
    <1>1. row \in Job /\ RowFits(row) /\ row.version \in Nat /\ 0 \in Time
        BY DEF BudgetRow, Job, Time
    <1>2. ASSUME CanReplaceJob(row) PROVE Awaits(replaceJobRow(row, 0, n))
        <2>1. Keeps(row, replaceJobRow(row, 0, n))
            BY <1>1, <1>2, ReplaceKeeps
        <2>2. Claimed(replaceJobRow(row, 0, n), row.status, row.version + 1,
                      row.claimedVersion, 0)
            BY <1>1, VersionEffects
        <2>3. replaceJobRow(row, 0, n).waitMs = row.waitMs
            BY <1>1, WaitEffects
        <2>4. QED
            BY <1>1, <1>2, <2>1, <2>2, <2>3, BudgetKeeps DEF Awaits, Claimed, CanReplaceJob
    <1>3. ASSUME CanResetJob(row) PROVE Awaits(resetJobRow(row, 0))
        <2>1. /\ resetJobRow(row, 0) \in Job /\ SameSlot(row, resetJobRow(row, 0))
              /\ RowFits(resetJobRow(row, 0))
            BY <1>1, <1>3, ResetJobRevives
        <2>2. Claimed(resetJobRow(row, 0), "pending", row.version + 1, None, 0)
            BY <1>1, VersionEffects
        <2>3. resetJobRow(row, 0).waitMs = row.waitMs
            BY <1>1, WaitEffects
        <2>4. resetJobRow(row, 0).version # 0
            BY <1>1, <2>2 DEF Claimed
        <2>5. QED
            BY <2>1, <2>2, <2>3, <2>4
               DEF Awaits, BudgetRow, Claimed, Windowed, IsPattern, SameSlot
    <1>4. QED
        BY <1>2, <1>3

LEMMA NewRows ==
    ASSUME NEW n \in Nat
    PROVE  /\ Awaits(NewOnceJob(TheHandler, TheKey, 0, n, None))
           /\ \A kind \in Kind \ {"once"} :
                 Awaits(NewPatternJob(TheHandler, TheKey, n, None, NewWindow(kind, 0, 1, None)))
    <1>1. TheHandler \in Handler /\ TheKey \in Key /\ 0 \in Time /\ None \in Ref \cup {None}
        BY BudgetAssumption DEF TheHandler, TheKey, Time
    <1>2. Awaits(NewOnceJob(TheHandler, TheKey, 0, n, None))
        <2>1. /\ NewOnceJob(TheHandler, TheKey, 0, n, None) \in Job
              /\ RowFits(NewOnceJob(TheHandler, TheKey, 0, n, None))
            BY <1>1, NewOnceJobFits
        <2>2. QED
            BY <2>1 DEF Awaits, BudgetRow, Windowed, IsPattern, NewOnceJob, NewJob, NoWindow
    <1>3. ASSUME NEW kind \in Kind \ {"once"}
          PROVE  Awaits(NewPatternJob(TheHandler, TheKey, n, None, NewWindow(kind, 0, 1, None)))
        <2> DEFINE row == NewPatternJob(TheHandler, TheKey, n, None, NewWindow(kind, 0, 1, None))
        <2>1. row \in Job /\ RowFits(row)
            BY <1>1, NewPatternJobFits
        <2>2. row.version = 1 /\ row.status = "pending" /\ row.waitMs = 1
            BY DEF NewPatternJob, NewJob, NewWindow
        <2> HIDE DEF row
        <2>3. Awaits(row)
            BY <2>1, <2>2 DEF Awaits, BudgetRow, Windowed
        <2>4. QED
            BY <2>3 DEF row
    <1>4. QED
        BY <1>2, <1>3

\* A deferral leaves the row to wait for its attempt, or ends it.
LEMMA DeferredRow ==
    ASSUME NEW row, Awaits(row)
    PROVE  LET new == deferJobRow(row, 0, row.deferAttempts, horizonMs)
           IN  BudgetRow(new) /\ new.status \in {"pending", "failed"}
    <1> DEFINE new == deferJobRow(row, 0, row.deferAttempts, horizonMs)
               noted == noteMissingHandlerRow(row, row.deferAttempts, horizonMs)
    <1>1. /\ row \in Job /\ RowFits(row) /\ BudgetRow(row) /\ row.status = "pending"
          /\ row.version \in Nat /\ row.deferAttempts \in Time /\ 0 \in Time
          /\ horizonMs \in Nat
        BY BudgetAssumption DEF Awaits, BudgetRow, Job, Time
    <1>2. Keeps(row, new)
        BY <1>1, DeferKeeps
    <1>3. noted \in Job
        BY <1>1, NoteMissKeeps DEF Keeps
    <1>4. /\ noted.version = row.version + 1 /\ noted.waitMs = row.waitMs
          /\ noted.status \in {"pending", "failed"}
        BY <1>1 DEF noteMissingHandlerRow, Job
    <1>5. new = IF noted.status = "pending" THEN [noted EXCEPT !.scheduledFor = 0] ELSE noted
        BY DEF deferJobRow
    <1> HIDE DEF noted, new
    <1>6. /\ new.version = row.version + 1 /\ new.waitMs = row.waitMs
          /\ new.status \in {"pending", "failed"}
        BY <1>3, <1>4, <1>5 DEF Job
    <1>7. BudgetRow(new)
        BY <1>1, <1>2, <1>6, BudgetKeeps
    <1>8. QED
        BY <1>6, <1>7 DEF new

\* Naming a hook moves nothing else, and an event only the version.
LEMMA NamingRow ==
    ASSUME NEW row, BudgetRow(row), NEW ref \in Ref
    PROVE  LET new == updateSchedulerRefRow(row, ref)
           IN  /\ BudgetRow(new) /\ new.schedulerRef = ref
               /\ Claimed(new, row.status, row.version, row.claimedVersion, row.attempt)
    <1> DEFINE new == updateSchedulerRefRow(row, ref)
    <1>1. row \in Job /\ RowFits(row) /\ row.version \in Nat
        BY DEF BudgetRow, Job
    <1>2. Keeps(row, new)
        BY <1>1, UpdateSchedulerRefKeeps
    <1>3. Claimed(new, row.status, row.version, row.claimedVersion, row.attempt)
        BY <1>1, DueAndRefEffects
    <1>4. Named(new, ref, row.maxAttempts) /\ new.waitMs = row.waitMs
        BY <1>1, NameEffects, WaitEffects
    <1> HIDE DEF new
    <1>5. BudgetRow(new) /\ new.schedulerRef = ref
        BY <1>1, <1>2, <1>3, <1>4, BudgetKeeps DEF Claimed, Named
    <1>6. QED
        BY <1>3, <1>5 DEF new

LEMMA EventRow ==
    ASSUME NEW row, BudgetRow(row), IsPattern(row),
           CanUpdatePatternEvent(row, row.kind, row.waitMs, row.maxWaitMs)
    PROVE  LET new == updatePatternEventRow(row, 0)
           IN  /\ BudgetRow(new) /\ new.schedulerRef = row.schedulerRef
               /\ Claimed(new, row.status, row.version + 1, row.claimedVersion, row.attempt)
    <1> DEFINE new == updatePatternEventRow(row, 0)
    <1>1. row \in Job /\ RowFits(row) /\ row.version \in Nat /\ 0 \in Time
        BY DEF BudgetRow, Job, Time
    <1>2. row.kind \in Kind \ {"once"}
        BY <1>1 DEF IsPattern, Job
    <1>3. Keeps(row, new)
        BY <1>1, <1>2, PatternEventKeeps
    <1>4. Claimed(new, row.status, row.version + 1, row.claimedVersion, row.attempt)
        BY <1>1, VersionEffects
    <1>5. Named(new, row.schedulerRef, row.maxAttempts) /\ new.waitMs = row.waitMs
        BY <1>1, NameEffects, WaitEffects
    <1> HIDE DEF new
    <1>6. BudgetRow(new) /\ new.schedulerRef = row.schedulerRef
        BY <1>1, <1>3, <1>4, <1>5, BudgetKeeps DEF Claimed, Named
    <1>7. QED
        BY <1>4, <1>6 DEF new

-----------------------------------------------------------------------------
(* Steps that leave nobody running. *)

LEMMA TriesSuffice ==
    ASSUME NEW attempts \in Nat
    PROVE  Tries(attempts) \in Nat /\ Tries(attempts) >= Least(attempts, SchedulerMax)
    BY BudgetAssumption DEF Tries, Least

LEMMA Unexcused ==
    ASSUME NEW config \in Nat, NEW attempts \in Nat, ByConfig(config, attempts) = {}
    PROVE  config <= attempts /\ config <= SchedulerMax
    <1>1. /\ ~ config > (IF "deployed" = "deployed" THEN attempts ELSE SchedulerMax)
          /\ ~ config > (IF "unsupported" = "deployed" THEN attempts ELSE SchedulerMax)
        BY DEF ByConfig
    <1>2. QED
        BY <1>1, BudgetAssumption

LEMMA BudgetCounters ==
    ASSUME BudgetTypeOK
    PROVE  /\ Request \/ UNCHANGED requests => requests' \in 0 .. MaxRequests
           /\ Fault \/ UNCHANGED faults => faults' \in 0 .. MaxFaults
    BY BudgetAssumption DEF BudgetTypeOK, Request, Fault

LEMMA LessTries ==
    ASSUME BudgetTypeOK, NEW r \in Ref, Due(r)
    PROVE  Used(r) \in [Ref -> Nat] /\ Over(r) \in [Ref -> Nat]
    <1>1. tries[r] \in Nat /\ tries[r] > 0 /\ tries \in [Ref -> Nat]
        BY DEF BudgetTypeOK, Due
    <1>2. tries[r] - 1 \in Nat /\ 0 \in Nat
        BY <1>1
    <1>3. QED
        BY <1>1, <1>2 DEF Used, Over

\* What such a step does besides the row and its hooks.
Settles ==
    /\ NobodyRuns' /\ entry' = entry /\ snapshot' \in Nat
    /\ run' \in [Ref -> Run] /\ zombie' \in Run
    /\ requests' \in 0 .. MaxRequests
Excuses == {"wasted", "skipped", "deployed", "unsupported"}

LEMMA SettlesInv ==
    ASSUME BudgetTypeOK, Settles, faults' \in 0 .. MaxFaults,
           tries' \in [Ref -> Nat], asked' \in Nat, excuses' \in SUBSET Excuses,
           BudgetRow(job'), Covered'
    PROVE  BudgetInv'
    <1>1. BudgetTypeOK'
        BY DEF BudgetTypeOK, Settles, Excuses, BudgetRow
    <1>2. BudgetRowInv'
        BY DEF BudgetRowInv, BudgetRow, Windowed, RowFits, ClaimMatches, OutcomeMatches,
               DeferMatches, WindowMatches, IsActive, IsPattern
    <1>3. OneHolder'
        BY DEF OneHolder, Settles, NobodyRuns
    <1>4. QED
        BY <1>1, <1>2, <1>3 DEF BudgetInv

LEMMA EndedInv ==
    ASSUME BudgetTypeOK, Settles, faults' \in 0 .. MaxFaults,
           tries' \in [Ref -> Nat], asked' \in Nat, excuses' \in SUBSET Excuses,
           Ended(job')
    PROVE  BudgetInv'
    <1>1. BudgetRow(job') /\ ~ IsActive(job')
        BY DEF Ended
    <1>2. Covered'
        BY <1>1 DEF Covered, Active, IsActive
    <1>3. QED
        BY <1>1, <1>2, SettlesInv

LEMMA ExcusedInv ==
    ASSUME BudgetTypeOK, Settles, faults' \in 0 .. MaxFaults,
           tries' \in [Ref -> Nat], asked' \in Nat, excuses' \in SUBSET Excuses, excuses' # {},
           BudgetRow(job')
    PROVE  BudgetInv'
    <1>1. Covered'
        BY DEF Covered
    <1>2. QED
        BY <1>1, SettlesInv

LEMMA WakeInv ==
    ASSUME BudgetTypeOK, Settles, faults' \in 0 .. MaxFaults,
           NEW row, Awaits(row), NEW attempts \in Nat, NEW left \in [Ref -> Nat],
           Wake(row, attempts, left)
    PROVE  BudgetInv'
    <1>1. PICK new \in Ref :
             /\ tries' = [left EXCEPT ![new] = Tries(attempts)]
             /\ job' = updateSchedulerRefRow(row, new)
             /\ asked' = attempts
             /\ excuses' = ByConfig(entry, attempts)
        BY DEF Wake, FreeRefs
    <1>2. /\ Tries(attempts) \in Nat /\ Tries(attempts) >= Least(attempts, SchedulerMax)
          /\ entry \in Nat /\ SchedulerMax \in Nat /\ None \notin Ref
        BY TriesSuffice, BudgetAssumption DEF BudgetTypeOK
    <1>3. tries' \in [Ref -> Nat] /\ tries'[new] = Tries(attempts)
        BY <1>1, <1>2
    <1>4. /\ BudgetRow(row) /\ row.status = "pending" /\ row.attempt \in Nat
        BY DEF Awaits, BudgetRow, Job
    <1>5. /\ BudgetRow(job') /\ job'.schedulerRef = new
          /\ Claimed(job', "pending", row.version, row.claimedVersion, row.attempt)
        BY <1>1, <1>4, NamingRow
    <1>6. excuses' \in SUBSET Excuses
        BY <1>1 DEF ByConfig, Excuses
    <1>7. Covered'
        <2>1. excuses' = {} => entry <= attempts /\ entry <= SchedulerMax
            BY <1>1, <1>2, Unexcused
        <2>2. entry' = entry /\ asked' = attempts
            BY <1>1 DEF Settles
        <2>3. /\ job'.status = "pending" /\ job'.attempt = row.attempt
              /\ job'.schedulerRef = new /\ new # None
            BY <1>2, <1>5 DEF Claimed
        <2>4. Least(attempts, SchedulerMax) \in Nat
            BY <1>2 DEF Least
        <2>5. tries'[job'.schedulerRef] >= Least(asked', SchedulerMax) - job'.attempt
            BY <1>2, <1>3, <1>4, <2>2, <2>3, <2>4
        <2>6. QED
            BY <2>1, <2>2, <2>3, <2>5 DEF Covered, Left
    <1>8. QED
        BY <1>1, <1>3, <1>5, <1>6, <1>7, SettlesInv

LEMMA WakeOrFailInv ==
    ASSUME BudgetTypeOK, Settles,
           NEW row, Awaits(row), NEW attempts \in Nat, NEW left \in [Ref -> Nat],
           NEW failing \in [Ref -> Nat], WakeOrFail(row, attempts, left, failing)
    PROVE  BudgetInv'
    <1>1. CASE Wake(row, attempts, left) /\ UNCHANGED faults
        BY <1>1, WakeInv, BudgetCounters
    <1>2. CASE /\ Fault
               /\ job' = row /\ tries' = failing /\ excuses' = excuses \cup {"wasted"}
               /\ UNCHANGED asked
        <2>1. /\ faults' \in 0 .. MaxFaults /\ BudgetRow(job')
              /\ tries' \in [Ref -> Nat] /\ asked' \in Nat
            BY <1>2, BudgetCounters DEF BudgetTypeOK, Awaits
        <2>2. excuses' \in SUBSET Excuses /\ excuses' # {}
            BY <1>2 DEF BudgetTypeOK, Excuses
        <2>3. QED
            BY <2>1, <2>2, ExcusedInv
    <1>3. QED
        BY <1>1, <1>2 DEF WakeOrFail

-----------------------------------------------------------------------------
(* Deliveries. *)

\* Only the deliveries that are left change, and what has used them up.
LEMMA KeptInv ==
    ASSUME BudgetInv, UNCHANGED <<job, run, zombie, entry, asked, snapshot, requests>>,
           faults' \in 0 .. MaxFaults, tries' \in [Ref -> Nat], excuses' \in SUBSET Excuses,
           \/ excuses' # {}
           \/ excuses' = excuses /\ (Active => tries'[job.schedulerRef] = tries[job.schedulerRef])
    PROVE  BudgetInv'
    <1>1. BudgetTypeOK'
        BY DEF BudgetInv, BudgetTypeOK, Excuses
    <1>2. BudgetRowInv' /\ OneHolder'
        BY DEF BudgetInv, BudgetRowInv, OneHolder, Holds, Exists, BudgetRow, Windowed, RowFits,
               ClaimMatches, OutcomeMatches, DeferMatches, WindowMatches, IsActive, IsPattern
    <1>3. Covered'
        BY DEF BudgetInv, Covered, Active, Exists, IsActive, NobodyRuns, Left
    <1>4. QED
        BY <1>1, <1>2, <1>3 DEF BudgetInv

\* While the row waits, and when its claim is lost, nobody runs.
LEMMA WaitingIdle ==
    ASSUME OneHolder, Exists => job.status # "running"
    PROVE  NobodyRuns
    BY DEF OneHolder, Holds, NobodyRuns

\* The row of a delivery that is let through.
LEMMA DeliveredRow ==
    ASSUME BudgetInv, Active
    PROVE  /\ BudgetRow(job)
           /\ job.status = "pending" => Awaits(job)
           /\ job.status \in {"pending", "running"}
    BY DEF BudgetInv, BudgetRowInv, Active, Awaits, IsActive, ACTIVE_STATUSES

LEMMA DeferInv ==
    ASSUME BudgetTypeOK, Settles, NEW r \in Ref, Due(r), NEW row, Awaits(row), Defer(r, row)
    PROVE  BudgetInv'
    <1> DEFINE deferred == deferJobRow(row, 0, row.deferAttempts, horizonMs)
    <1>1. Over(r) \in [Ref -> Nat] /\ Used(r) \in [Ref -> Nat] /\ snapshot \in Nat
        BY LessTries DEF BudgetTypeOK
    <1>2. BudgetRow(deferred) /\ deferred.status \in {"pending", "failed"}
        BY DeferredRow
    <1>3. IF deferred.status = "failed" THEN job' = deferred /\ tries' = Over(r) /\ NoWake
          ELSE WakeOrFail(deferred, snapshot, Over(r), Used(r))
        BY DEF Defer
    <1> HIDE DEF deferred
    <1>4. CASE deferred.status = "failed"
        <2>1. Ended(job')
            BY <1>2, <1>3, <1>4 DEF Ended, IsActive, ACTIVE_STATUSES
        <2>2. /\ faults' \in 0 .. MaxFaults /\ tries' \in [Ref -> Nat]
              /\ asked' \in Nat /\ excuses' \in SUBSET Excuses
            BY <1>1, <1>3, <1>4, BudgetCounters DEF NoWake, BudgetTypeOK, Excuses
        <2>3. QED
            BY <2>1, <2>2, EndedInv
    <1>5. CASE deferred.status = "pending"
        <2>1. Awaits(deferred) /\ WakeOrFail(deferred, snapshot, Over(r), Used(r))
            BY <1>2, <1>3, <1>5 DEF Awaits
        <2>2. QED
            BY <1>1, <2>1, WakeOrFailInv
    <1>6. QED
        BY <1>2, <1>4, <1>5

LEMMA StartInv ==
    ASSUME BudgetInv, NobodyRuns, NEW r \in Ref, Due(r), LetThrough(r),
           NEW row, Awaits(row), excuses = {} => row = job, Start(r, row),
           UNCHANGED <<snapshot, entry, zombie, requests>>
    PROVE  BudgetInv'
    <1> DEFINE claim == [version |-> row.version, attempt |-> row.attempt]
    <1>1. /\ BudgetRow(row) /\ row.version \in Nat /\ row.attempt \in Nat /\ row.version # 0
          /\ row.status = "pending"
        BY DEF Awaits, BudgetRow, Job
    <1>2. /\ BudgetRow(job') /\ job'.schedulerRef = row.schedulerRef
          /\ Claimed(job', "running", row.version, row.version, row.attempt)
        BY StartedRow DEF Start
    <1>3. /\ run' = [run EXCEPT ![r] = claim] /\ run \in [Ref -> Run]
          /\ claim \in Run /\ claim.version # 0
          /\ claim.version = row.version /\ claim.attempt = row.attempt
        BY <1>1 DEF Start, BudgetInv, BudgetTypeOK, Run
    <1>4. /\ tries' = Used(r) /\ Used(r) \in [Ref -> Nat]
          /\ tries[r] \in Nat /\ tries' [r] = tries[r] - 1
        BY LessTries DEF BudgetInv, BudgetTypeOK, Start, Used
    <1> HIDE DEF claim
    <1>5. BudgetTypeOK'
        <2>1. run' \in [Ref -> Run]
            BY <1>3
        <2>2. QED
            BY <1>2, <1>4, <2>1 DEF BudgetInv, BudgetTypeOK, BudgetRow, Start, NoWake
    <1>6. BudgetRowInv'
        BY <1>2 DEF BudgetRowInv, BudgetRow, Windowed, RowFits, ClaimMatches, OutcomeMatches,
               DeferMatches, WindowMatches, IsActive, IsPattern
    <1>7. /\ run'[r] = claim /\ zombie' = NoRun
          /\ \A q \in Ref : q # r => run'[q] = NoRun
        BY <1>3 DEF NobodyRuns
    <1>8. Exists'
        BY <1>2, BudgetAssumption DEF BudgetRow, Exists
    <1>9. OneHolder'
        <2>1. Holds(claim)'
            BY <1>2, <1>3, <1>8 DEF Holds, Claimed, claim
        <2>2. QED
            BY <1>7, <2>1 DEF OneHolder, Holds
    <1>10. Covered'
        <2>1. ~ NobodyRuns' /\ job'.status = "running"
            BY <1>2, <1>3, <1>7 DEF NobodyRuns, NoRun, Claimed
        <2>2. ASSUME excuses = {}
              PROVE  /\ entry <= asked /\ entry <= SchedulerMax
                     /\ job'.schedulerRef # None
                     /\ tries'[job'.schedulerRef] >= Left(job'.attempt + 1)
            <3>1. row = job /\ Active /\ job.status = "pending"
                BY <1>1, <2>2 DEF LetThrough
            <3>2. /\ entry <= asked /\ entry <= SchedulerMax /\ job.schedulerRef # None
                  /\ tries[job.schedulerRef] >= Left(job.attempt)
                BY <2>2, <3>1 DEF BudgetInv, Covered
            <3>3. job.schedulerRef = r /\ job'.schedulerRef = r /\ job'.attempt = job.attempt
                BY <1>2, <3>1, <3>2 DEF LetThrough, Claimed
            <3>4. asked \in Nat /\ SchedulerMax \in Nat /\ job.attempt \in Nat
                BY <1>1, <3>1, BudgetAssumption DEF BudgetInv, BudgetTypeOK
            <3>5. tries[r] - 1 >= Left(job.attempt + 1)
                BY <1>4, <3>2, <3>3, <3>4 DEF Left, Least
            <3>6. QED
                BY <1>4, <3>2, <3>3, <3>5
        <2>3. UNCHANGED <<excuses, asked, entry>>
            BY DEF Start, NoWake
        <2>4. QED
            BY <2>1, <2>2, <2>3 DEF Covered, Left
    <1>11. QED
        BY <1>5, <1>6, <1>9, <1>10 DEF BudgetInv

LEMMA DispatchInv ==
    ASSUME BudgetInv, NobodyRuns, NEW r \in Ref, Due(r), LetThrough(r),
           NEW row, Awaits(row), excuses = {} => row = job, DispatchRow(r, row),
           UNCHANGED <<snapshot, entry, zombie, requests>>
    PROVE  BudgetInv'
    <1>1. CASE Defer(r, row)
        <2>1. BudgetTypeOK /\ Settles
            BY <1>1, BudgetAssumption
               DEF BudgetInv, BudgetTypeOK, Defer, Settles, NobodyRuns
        <2>2. QED
            BY <1>1, <2>1, DeferInv
    <1>2. CASE Start(r, row)
        BY <1>2, StartInv
    <1>3. QED
        BY <1>1, <1>2 DEF DispatchRow

LEMMA ReclaimedInv ==
    ASSUME BudgetInv, NEW r \in Ref, Due(r), Reclaimed(r),
           UNCHANGED <<snapshot, entry, zombie, requests>>
    PROVE  BudgetInv'
    <1> DEFINE row == reclaimRow(job)
    <1>1. /\ LetThrough(r) /\ job.status = "running" /\ NobodyRuns /\ Active
          /\ IF row.attempt >= row.maxAttempts
             THEN /\ job' = markFailedRow(markRunningRow(row, 0), "stalled", 0)
                  /\ tries' = Over(r)
                  /\ UNCHANGED run /\ NoWake
             ELSE DispatchRow(r, row)
        BY DEF Reclaimed, NobodyRuns, LetThrough
    <1>2. BudgetRow(job)
        BY <1>1, DeliveredRow
    <1>3. Awaits(row)
        BY <1>1, <1>2, AwaitingRows
    <1>4. excuses # {}
        BY <1>1 DEF BudgetInv, Covered
    <1> HIDE DEF row
    <1>5. CASE row.attempt >= row.maxAttempts
        <2>1. /\ BudgetRow(markRunningRow(row, 0))
              /\ markRunningRow(row, 0).status = "running"
            BY <1>3, StartedRow DEF Claimed
        <2>2. Ended(job')
            BY <1>1, <1>5, <2>1, EndedRows DEF FailureReason
        <2>3. BudgetTypeOK /\ Settles
            BY <1>1, <1>5 DEF BudgetInv, BudgetTypeOK, Settles, NobodyRuns
        <2>4. /\ faults' \in 0 .. MaxFaults /\ tries' \in [Ref -> Nat]
              /\ asked' \in Nat /\ excuses' \in SUBSET Excuses
            BY <1>1, <1>5, <2>3, LessTries, BudgetCounters DEF NoWake, BudgetTypeOK, Excuses
        <2>5. QED
            BY <2>2, <2>3, <2>4, EndedInv
    <1>6. CASE ~ row.attempt >= row.maxAttempts
        BY <1>1, <1>3, <1>4, <1>6, DispatchInv
    <1>7. QED
        BY <1>5, <1>6

LEMMA DeliverHookInv ==
    ASSUME BudgetInv, NEW r \in Ref, DeliverHook(r)
    PROVE  BudgetInv'
    <1>1. Due(r) /\ UNCHANGED <<snapshot, entry, zombie, requests>> /\ BudgetTypeOK
        BY DEF DeliverHook, BudgetInv
    <1>2. Used(r) \in [Ref -> Nat] /\ Over(r) \in [Ref -> Nat]
        BY <1>1, LessTries
    <1>3. CASE Ignored(r)
        <2>1. /\ UNCHANGED <<job, run, faults, asked, excuses>> /\ tries' = Over(r)
            BY <1>3 DEF Ignored, NoWake
        <2>2. Active => excuses' # {} \/ tries'[job.schedulerRef] = tries[job.schedulerRef]
            <3>1. SUFFICES ASSUME Active, excuses = {}
                           PROVE  tries'[job.schedulerRef] = tries[job.schedulerRef]
                BY <2>1
            <3>2. /\ job.schedulerRef # None /\ job.schedulerRef # r
                  /\ job.schedulerRef \in Ref \cup {None}
                BY <1>3, <3>1 DEF BudgetInv, Covered, Ignored, LetThrough, BudgetRowInv,
                                  BudgetRow, Active, Job
            <3>3. QED
                BY <2>1, <3>2 DEF Over, BudgetInv, BudgetTypeOK
        <2>3. faults' \in 0 .. MaxFaults /\ excuses' \in SUBSET Excuses
            BY <1>1, <2>1, BudgetCounters DEF BudgetTypeOK, Excuses
        <2>4. QED
            BY <1>1, <1>2, <2>1, <2>2, <2>3, KeptInv
    <1>4. CASE Bounced(r)
        <2>1. /\ UNCHANGED <<job, run, asked>> /\ tries' = Used(r) /\ Fault
              /\ excuses' # {} /\ excuses' \in SUBSET Excuses
            BY <1>1, <1>4 DEF Bounced, BudgetTypeOK, Excuses
        <2>2. QED
            BY <1>1, <1>2, <2>1, BudgetCounters, KeptInv
    <1>5. CASE Skipped(r)
        <2>1. /\ UNCHANGED <<job, run, asked, faults>> /\ tries' = Over(r)
              /\ excuses' # {} /\ excuses' \in SUBSET Excuses
            BY <1>1, <1>5 DEF Skipped, BudgetTypeOK, Excuses
        <2>2. QED
            BY <1>1, <1>2, <2>1, BudgetCounters, KeptInv
    <1>6. CASE Reclaimed(r)
        BY <1>1, <1>6, ReclaimedInv
    <1>7. CASE LetThrough(r) /\ job.status = "pending" /\ DispatchRow(r, job)
        <2>1. Active /\ Awaits(job)
            BY <1>7, DeliveredRow DEF LetThrough
        <2>2. NobodyRuns
            BY <1>7, WaitingIdle DEF BudgetInv
        <2>3. QED
            BY <1>1, <1>7, <2>1, <2>2, DispatchInv
    <1>8. QED
        BY <1>3, <1>4, <1>5, <1>6, <1>7 DEF DeliverHook

-----------------------------------------------------------------------------
(* Outcomes. *)

\* A claim that lost its version to events is a pattern's, and can be requeued.
LEMMA LostInv ==
    ASSUME BudgetInv, Settles, NEW e \in Run, Holds(e), job.version # e.version,
           NEW over \in [Ref -> Nat], NEW same, LostToEvents(over, same)
    PROVE  BudgetInv'
    <1>1. BudgetRow(job) /\ job.status = "running" /\ job.claimedVersion # job.version
        BY DEF BudgetInv, BudgetRowInv, Holds
    <1>2. IsPattern(job)
        BY <1>1 DEF BudgetRow, RowFits, ClaimMatches
    <1>3. CanRequeueForNextWindow(job)
        BY <1>1, <1>2
           DEF CanRequeueForNextWindow, HasWindow, BudgetRow, Windowed, RowFits, WindowMatches
    <1>4. Awaits(requeueForNextWindowRow(job))
        BY <1>1, <1>3, AwaitingRows
    <1>5. WakeOrFail(requeueForNextWindowRow(job), entry, over, tries)
        BY <1>3 DEF LostToEvents
    <1>6. BudgetTypeOK /\ entry \in Nat /\ tries \in [Ref -> Nat]
        BY BudgetAssumption DEF BudgetInv, BudgetTypeOK
    <1>7. QED
        BY <1>4, <1>5, <1>6, WakeOrFailInv

\* A claim that ends its row.
LEMMA ClosedInv ==
    ASSUME BudgetInv, Settles, Ended(job'), tries' \in [Ref -> Nat], NoWake
    PROVE  BudgetInv'
    <1>1. /\ BudgetTypeOK /\ faults' \in 0 .. MaxFaults
          /\ asked' \in Nat /\ excuses' \in SUBSET Excuses
        BY BudgetCounters DEF BudgetInv, BudgetTypeOK, NoWake, Excuses
    <1>2. QED
        BY <1>1, EndedInv

LEMMA SucceedsInv ==
    ASSUME BudgetInv, Settles, NEW e \in Run, Holds(e), NEW over \in [Ref -> Nat],
           Succeeds(e, over)
    PROVE  BudgetInv'
    <1>1. BudgetRow(job) /\ job.status = "running"
        BY DEF BudgetInv, BudgetRowInv, Holds
    <1>2. CASE CanMarkCompleted(job, e.version)
        BY <1>1, <1>2, EndedRows, ClosedInv DEF Succeeds
    <1>3. CASE ~ CanMarkCompleted(job, e.version)
        BY <1>1, <1>3, LostInv DEF Succeeds, CanMarkCompleted, IsRunningAt
    <1>4. QED
        BY <1>2, <1>3

LEMMA RetriedInv ==
    ASSUME BudgetInv, Settles, NEW e \in Run, Holds(e),
           job' = retryJobRow(job, e.attempt + 1, 0), tries' = tries, NoWake
    PROVE  BudgetInv'
    <1>1. /\ BudgetRow(job) /\ job.status = "running" /\ Active
          /\ e.attempt = job.attempt /\ job.attempt \in Nat /\ e.attempt + 1 \in Nat
        BY DEF BudgetInv, BudgetRowInv, Holds, BudgetRow, Job, Active, IsActive, ACTIVE_STATUSES
    <1>2. /\ Awaits(job') /\ job'.attempt = job.attempt + 1
          /\ job'.schedulerRef = job.schedulerRef
        BY <1>1, AwaitingRows
    <1>3. /\ BudgetTypeOK /\ faults' \in 0 .. MaxFaults /\ tries' \in [Ref -> Nat]
          /\ asked' \in Nat /\ excuses' \in SUBSET Excuses
        BY BudgetCounters DEF BudgetInv, BudgetTypeOK, NoWake, Excuses
    <1>4. Covered'
        <2>1. UNCHANGED <<tries, asked, excuses, entry>> /\ job'.status = "pending"
            BY <1>2 DEF NoWake, Settles, Awaits
        <2>2. excuses = {} => /\ entry <= asked /\ entry <= SchedulerMax
                              /\ job.schedulerRef # None
                              /\ tries[job.schedulerRef] >= Left(job.attempt + 1)
            BY <1>1 DEF BudgetInv, Covered
        <2>3. QED
            BY <1>2, <2>1, <2>2 DEF Covered, Left
    <1>5. QED
        BY <1>2, <1>3, <1>4, SettlesInv DEF Awaits

LEMMA FailsInv ==
    ASSUME BudgetInv, Settles, NEW e \in Run, Holds(e), NEW over \in [Ref -> Nat],
           Fails(e, over)
    PROVE  BudgetInv'
    <1>1. BudgetRow(job) /\ job.status = "running"
        BY DEF BudgetInv, BudgetRowInv, Holds
    <1>2. CASE e.attempt + 1 < entry
        <2>1. CASE CanRetryJob(job, e.version)
            BY <1>2, <2>1, RetriedInv DEF Fails
        <2>2. CASE ~ CanRetryJob(job, e.version)
            <3>1. LostToEvents(over, tries)
                BY <1>2, <2>2 DEF Fails
            <3>2. job.version # e.version
                BY <1>1, <2>2 DEF CanRetryJob, IsRunningAt
            <3>3. QED
                BY <3>1, <3>2, LostInv
        <2>3. QED
            BY <2>1, <2>2
    <1>3. CASE ~ e.attempt + 1 < entry
        <2>1. CASE CanMarkFailed(job, e.version)
            BY <1>1, <1>3, <2>1, EndedRows, ClosedInv DEF Fails, FailureReason
        <2>2. CASE ~ CanMarkFailed(job, e.version)
            <3>1. LostToEvents(over, over)
                BY <1>3, <2>2 DEF Fails
            <3>2. job.version # e.version
                BY <1>1, <2>2 DEF CanMarkFailed, IsRunningAt
            <3>3. QED
                BY <3>1, <3>2, LostInv
        <2>3. QED
            BY <2>1, <2>2
    <1>4. QED
        BY <1>2, <1>3

LEMMA ReschedulesInv ==
    ASSUME BudgetInv, Settles, NEW e \in Run, Holds(e), NEW over \in [Ref -> Nat],
           Reschedules(e, over)
    PROVE  BudgetInv'
    <1>1. BudgetRow(job) /\ job.status = "running" /\ job.claimedVersion = e.version
        BY DEF BudgetInv, BudgetRowInv, Holds
    <1>2. CanRescheduleJob(job, e.version)
        BY <1>1 DEF Reschedules, CanRescheduleJob, IsRunningAt, BudgetRow, RowFits, ClaimMatches
    <1>3. WakeOrFail(rescheduleJobRow(job, 0), entry, over, tries) /\ Awaits(rescheduleJobRow(job, 0))
        BY <1>1, <1>2, AwaitingRows DEF Reschedules
    <1>4. BudgetTypeOK /\ entry \in Nat /\ tries \in [Ref -> Nat]
        BY BudgetAssumption DEF BudgetInv, BudgetTypeOK
    <1>5. QED
        BY <1>3, <1>4, WakeOrFailInv

LEMMA OutcomeInv ==
    ASSUME BudgetInv, NEW e \in Run, Holds(e), NEW over \in [Ref -> Nat], Outcome(e, over),
           NobodyRuns', run' \in [Ref -> Run], zombie' \in Run, UNCHANGED <<entry, snapshot>>
    PROVE  BudgetInv'
    <1>1. Settles
        <2>1. requests' \in 0 .. MaxRequests
            BY BudgetCounters DEF Outcome, BudgetInv
        <2>2. QED
            BY <2>1 DEF Settles, BudgetInv, BudgetTypeOK
    <1>2. QED
        BY <1>1, SucceedsInv, FailsInv, ReschedulesInv DEF Outcome

LEMMA NoRunIsRun == NoRun \in Run
    BY DEF NoRun, Run

LEMMA FinishInv ==
    ASSUME BudgetInv, NEW r \in Ref, Finish(r)
    PROVE  BudgetInv'
    <1>1. /\ run[r] # NoRun /\ Outcome(run[r], Over(r))
          /\ run' = [run EXCEPT ![r] = NoRun] /\ UNCHANGED <<snapshot, entry, zombie>>
          /\ run \in [Ref -> Run] /\ zombie \in Run /\ tries \in [Ref -> Nat]
        BY DEF Finish, BudgetInv, BudgetTypeOK
    <1>2. Holds(run[r]) /\ zombie = NoRun /\ \A q \in Ref : q # r => run[q] = NoRun
        BY <1>1 DEF BudgetInv, OneHolder
    <1>3. NobodyRuns' /\ run' \in [Ref -> Run] /\ run[r] \in Run
        BY <1>1, <1>2, NoRunIsRun DEF NobodyRuns
    <1>4. Over(r) \in [Ref -> Nat]
        BY <1>1 DEF Over
    <1>5. QED
        BY <1>1, <1>2, <1>3, <1>4, OutcomeInv

LEMMA FinishZombieInv ==
    ASSUME BudgetInv, FinishZombie
    PROVE  BudgetInv'
    <1>1. /\ zombie # NoRun /\ Outcome(zombie, tries) /\ zombie' = NoRun
          /\ UNCHANGED <<snapshot, entry, run>>
          /\ run \in [Ref -> Run] /\ zombie \in Run /\ tries \in [Ref -> Nat]
        BY DEF FinishZombie, BudgetInv, BudgetTypeOK
    <1>2. Holds(zombie) /\ \A q \in Ref : run[q] = NoRun
        BY <1>1 DEF BudgetInv, OneHolder
    <1>3. NobodyRuns' /\ zombie' \in Run
        BY <1>1, <1>2, NoRunIsRun DEF NobodyRuns
    <1>4. QED
        BY <1>1, <1>2, <1>3, OutcomeInv

LEMMA LoseAnswerInv ==
    ASSUME BudgetInv, NEW r \in Ref, LoseAnswer(r)
    PROVE  BudgetInv'
    <1>1. /\ run[r] # NoRun /\ run \in [Ref -> Run] /\ zombie \in Run
          /\ run' = [run EXCEPT ![r] = NoRun] /\ excuses' # {}
          /\ zombie' = zombie \/ zombie' = run[r]
          /\ UNCHANGED <<job, snapshot, entry, tries, requests, asked>>
        BY DEF LoseAnswer, BudgetInv, BudgetTypeOK
    <1>2. Holds(run[r]) /\ zombie = NoRun /\ \A q \in Ref : q # r => run[q] = NoRun
        BY <1>1 DEF BudgetInv, OneHolder
    <1>3. BudgetTypeOK'
        <2>1. faults' \in 0 .. MaxFaults
            BY BudgetCounters DEF LoseAnswer, BudgetInv
        <2>2. run' \in [Ref -> Run] /\ zombie' \in Run
            BY <1>1, NoRunIsRun
        <2>3. QED
            BY <1>1, <2>1, <2>2 DEF BudgetInv, BudgetTypeOK, LoseAnswer
    <1>4. BudgetRowInv'
        BY <1>1 DEF BudgetInv, BudgetRowInv, Exists, BudgetRow, Windowed, RowFits,
                    ClaimMatches, OutcomeMatches, DeferMatches, WindowMatches, IsActive, IsPattern
    <1>5. OneHolder'
        <2>1. \A q \in Ref : run'[q] = NoRun
            BY <1>1, <1>2
        <2>2. zombie' # NoRun => Holds(zombie)'
            BY <1>1, <1>2 DEF Holds, Exists
        <2>3. QED
            BY <2>1, <2>2 DEF OneHolder
    <1>6. Covered'
        BY <1>1 DEF Covered
    <1>7. QED
        BY <1>3, <1>4, <1>5, <1>6 DEF BudgetInv

-----------------------------------------------------------------------------
(* Client calls and deploys. *)

LEMMA ClientWakeInv ==
    ASSUME BudgetInv, NobodyRuns, UNCHANGED <<entry, run, zombie, faults>>,
           requests' \in 0 .. MaxRequests, snapshot' \in Nat,
           NEW row, Awaits(row), NEW attempts \in Nat, NEW left \in [Ref -> Nat],
           Wake(row, attempts, left)
    PROVE  BudgetInv'
    <1>1. BudgetTypeOK /\ Settles /\ faults' \in 0 .. MaxFaults
        BY DEF BudgetInv, BudgetTypeOK, Settles, NobodyRuns
    <1>2. QED
        BY <1>1, WakeInv

LEMMA CreateJobInv ==
    ASSUME BudgetInv, NEW kind \in Kinds, CreateJob(kind),
           UNCHANGED <<entry, run, zombie, faults>>
    PROVE  BudgetInv'
    <1> DEFINE row == IF kind = "once"
                      THEN NewOnceJob(TheHandler, TheKey, 0, getMaxAttempts(entry), None)
                      ELSE NewPatternJob(TheHandler, TheKey, getMaxAttempts(entry), None,
                                         NewWindow(kind, 0, 1, None))
    <1>1. Wake(row, entry, tries) /\ snapshot' = entry /\ UNCHANGED requests /\ ~ Exists
        BY DEF CreateJob
    <1>2. /\ entry \in Nat /\ getMaxAttempts(entry) \in Nat /\ kind \in Kind
          /\ tries \in [Ref -> Nat] /\ requests \in 0 .. MaxRequests
        BY BudgetAssumption DEF BudgetInv, BudgetTypeOK, getMaxAttempts
    <1>3. Awaits(row)
        BY <1>2, NewRows
    <1> HIDE DEF row
    <1>4. NobodyRuns
        BY <1>1, WaitingIdle DEF BudgetInv
    <1>5. QED
        BY <1>1, <1>2, <1>3, <1>4, ClientWakeInv

LEMMA ReplaceJobInv ==
    ASSUME BudgetInv, ReplaceJob, UNCHANGED <<entry, run, zombie, faults>>
    PROVE  BudgetInv'
    <1> DEFINE row == replaceJobRow(job, 0, getMaxAttempts(entry))
               left == [r \in Ref |-> IF r = job.schedulerRef THEN 0 ELSE tries[r]]
    <1>1. /\ Exists /\ CanReplaceJob(job) /\ Request /\ Wake(row, entry, left)
          /\ UNCHANGED snapshot /\ BudgetRow(job)
        BY DEF ReplaceJob, BudgetInv, BudgetRowInv
    <1>2. /\ entry \in Nat /\ getMaxAttempts(entry) \in Nat
          /\ tries \in [Ref -> Nat] /\ snapshot \in Nat
        BY BudgetAssumption DEF BudgetInv, BudgetTypeOK, getMaxAttempts
    <1>3. Awaits(row) /\ left \in [Ref -> Nat]
        BY <1>1, <1>2, RequestedRows
    <1> HIDE DEF row, left
    <1>4. NobodyRuns /\ requests' \in 0 .. MaxRequests
        BY <1>1, WaitingIdle, BudgetCounters DEF BudgetInv, CanReplaceJob
    <1>5. QED
        BY <1>1, <1>2, <1>3, <1>4, ClientWakeInv

LEMMA RetryByHandInv ==
    ASSUME BudgetInv, RetryByHand, UNCHANGED <<entry, run, zombie, faults>>
    PROVE  BudgetInv'
    <1> DEFINE row == resetJobRow(job, 0)
               attempts == IF snapshot > 1 \/ entry = 0 THEN snapshot ELSE entry
    <1>1. /\ Exists /\ CanResetJob(job) /\ Request /\ Wake(row, attempts, tries)
          /\ UNCHANGED snapshot /\ BudgetRow(job)
        BY DEF RetryByHand, BudgetInv, BudgetRowInv
    <1>2. attempts \in Nat /\ tries \in [Ref -> Nat] /\ snapshot \in Nat
        BY BudgetAssumption DEF BudgetInv, BudgetTypeOK
    <1>3. Awaits(row)
        BY <1>1, RequestedRows
    <1> HIDE DEF row, attempts
    <1>4. NobodyRuns /\ requests' \in 0 .. MaxRequests
        BY <1>1, WaitingIdle, BudgetCounters DEF BudgetInv, CanResetJob
    <1>5. QED
        BY <1>1, <1>2, <1>3, <1>4, ClientWakeInv

LEMMA WindowEventInv ==
    ASSUME BudgetInv, WindowEvent, UNCHANGED <<entry, run, zombie, faults>>
    PROVE  BudgetInv'
    <1>1. /\ Exists /\ BudgetRow(job) /\ Request /\ job' = updatePatternEventRow(job, 0)
          /\ UNCHANGED <<snapshot, tries, asked, excuses, entry, run, zombie, faults>>
        BY DEF WindowEvent, BudgetInv, BudgetRowInv
    <1>2. /\ BudgetRow(job') /\ job'.schedulerRef = job.schedulerRef
          /\ Claimed(job', job.status, job.version + 1, job.claimedVersion, job.attempt)
        BY <1>1, EventRow DEF WindowEvent
    <1>3. Exists' /\ requests' \in 0 .. MaxRequests
        BY <1>1, <1>2, BudgetAssumption, BudgetCounters DEF BudgetRow, Exists, BudgetInv
    <1>4. BudgetTypeOK'
        BY <1>1, <1>2, <1>3 DEF BudgetInv, BudgetTypeOK, BudgetRow
    <1>5. BudgetRowInv'
        BY <1>2 DEF BudgetRowInv, BudgetRow, Windowed, RowFits, ClaimMatches, OutcomeMatches,
               DeferMatches, WindowMatches, IsActive, IsPattern
    <1>6. /\ job'.status = job.status /\ job'.claimedVersion = job.claimedVersion
          /\ job'.attempt = job.attempt
        BY <1>2 DEF Claimed
    <1>7. OneHolder'
        BY <1>1, <1>3, <1>6 DEF BudgetInv, OneHolder, Holds
    <1>8. Covered'
        BY <1>1, <1>2, <1>6 DEF BudgetInv, Covered, Active, IsActive, NobodyRuns, Left
    <1>9. QED
        BY <1>4, <1>5, <1>7, <1>8 DEF BudgetInv

LEMMA ClientCallInv ==
    ASSUME BudgetInv, ClientCall
    PROVE  BudgetInv'
    BY CreateJobInv, ReplaceJobInv, RetryByHandInv, WindowEventInv DEF ClientCall

LEMMA DeployInv ==
    ASSUME BudgetInv, NEW config \in Configs, Deploy(config)
    PROVE  BudgetInv'
    <1>1. /\ NobodyRuns /\ entry' = config /\ excuses' = excuses \cup ByConfig(config, asked)
          /\ UNCHANGED <<job, snapshot, tries, run, zombie, faults, asked>> /\ Request
        BY DEF Deploy, NobodyRuns
    <1>2. config \in Nat /\ asked \in Nat
        BY BudgetAssumption DEF BudgetInv, BudgetTypeOK
    <1>3. BudgetTypeOK'
        <2>1. requests' \in 0 .. MaxRequests
            BY <1>1, BudgetCounters DEF BudgetInv
        <2>2. excuses' \in SUBSET Excuses
            BY <1>1 DEF BudgetInv, BudgetTypeOK, ByConfig, Excuses
        <2>3. QED
            BY <1>1, <2>1, <2>2 DEF BudgetInv, BudgetTypeOK, Excuses
    <1>4. BudgetRowInv' /\ OneHolder'
        BY <1>1 DEF BudgetInv, BudgetRowInv, OneHolder, Holds, Exists, BudgetRow, Windowed, RowFits,
                    ClaimMatches, OutcomeMatches, DeferMatches, WindowMatches, IsActive, IsPattern
    <1>5. Covered'
        <2>1. excuses' = {} => /\ excuses = {}
                               /\ config <= asked /\ config <= SchedulerMax
            BY <1>1, <1>2, Unexcused
        <2>2. QED
            BY <1>1, <2>1 DEF BudgetInv, Covered, Active, Exists, IsActive, NobodyRuns, Left
    <1>6. QED
        BY <1>3, <1>4, <1>5 DEF BudgetInv

-----------------------------------------------------------------------------
(* The theorems. *)

LEMMA BudgetInitInv == BudgetInit => BudgetInv
    <1> SUFFICES ASSUME BudgetInit PROVE BudgetInv
        OBVIOUS
    <1>1. BudgetTypeOK
        BY BudgetAssumption, NoRunIsRun DEF BudgetInit, BudgetTypeOK
    <1>2. BudgetRowInv /\ OneHolder /\ Covered
        BY DEF BudgetInit, BudgetRowInv, OneHolder, Covered, Active, Exists
    <1>3. QED
        BY <1>1, <1>2 DEF BudgetInv

LEMMA BudgetStutter ==
    ASSUME BudgetInv, UNCHANGED budgetVars
    PROVE  BudgetInv'
    <1>1. UNCHANGED <<job, snapshot, entry, tries, run, zombie, requests, faults, asked, excuses>>
        BY DEF budgetVars
    <1>2. faults' \in 0 .. MaxFaults /\ tries' \in [Ref -> Nat] /\ excuses' \in SUBSET Excuses
        BY <1>1 DEF BudgetInv, BudgetTypeOK, Excuses
    <1>3. QED
        BY <1>1, <1>2, KeptInv

\* What the deliveries, the runs, the clients and the deploys keep: the types and the
\* row's fields, one run at most and the claim it holds, and, unless something used up
\* deliveries, a delivery for each attempt that the hook was made for and has left.
THEOREM BudgetInvariant == BudgetSpec => []BudgetInv
    <1>1. BudgetInv /\ [BudgetNext]_budgetVars => BudgetInv'
        BY DeliverHookInv, FinishInv, LoseAnswerInv, FinishZombieInv, ClientCallInv, DeployInv,
           BudgetStutter DEF BudgetNext
    <1>2. QED
        BY <1>1, BudgetInitInv, PTL DEF BudgetSpec

\* The type invariant of the counted deliveries.
THEOREM BudgetTyped == BudgetSpec => []BudgetTypeOK
    <1>1. BudgetInv => BudgetTypeOK
        BY DEF BudgetInv
    <1>2. QED
        BY <1>1, BudgetInvariant, PTL

\* Wherever the hook came from, a row that waits has a delivery of the hook it names
\* for each attempt the handler's entry leaves it, whatever the number of hooks,
\* configurations, requests and faults (posthook.ts:76-77, result-handler.ts).
THEOREM AttemptsAreCovered == BudgetSpec => []AttemptsCovered
    <1>1. BudgetInv => AttemptsCovered
        <2>1. SUFFICES ASSUME BudgetInv, Exists, job.status = "pending", excuses = {}
                       PROVE  /\ job.schedulerRef # None
                              /\ tries[job.schedulerRef] >= entry - job.attempt
            BY DEF AttemptsCovered
        <2>2. Active /\ job.attempt \in Nat /\ job.schedulerRef \in Ref \cup {None}
            BY <2>1 DEF Active, IsActive, ACTIVE_STATUSES, BudgetInv, BudgetRowInv, BudgetRow, Job
        <2>3. /\ entry <= asked /\ entry <= SchedulerMax /\ job.schedulerRef # None
              /\ tries[job.schedulerRef] >= Left(job.attempt)
            BY <2>1, <2>2 DEF BudgetInv, Covered
        <2>4. /\ entry \in Nat /\ asked \in Nat /\ SchedulerMax \in Nat
              /\ tries[job.schedulerRef] \in Nat
            <3>1. /\ entry \in Configs /\ asked \in Nat /\ tries \in [Ref -> Nat]
                  /\ Configs \subseteq Nat /\ SchedulerMax \in Nat
                BY <2>1, BudgetAssumption DEF BudgetInv, BudgetTypeOK
            <3>2. job.schedulerRef \in Ref
                BY <2>2, <2>3
            <3>3. QED
                BY <3>1, <3>2
        <2>5. QED
            BY <2>2, <2>3, <2>4 DEF Left, Least
    <1>2. QED
        BY <1>1, BudgetInvariant, PTL
=============================================================================
