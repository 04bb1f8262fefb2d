----------------------------- MODULE PollWorkers -----------------------------
(***************************************************************************)
(* The polling execution path for one row: pollers that claim it, the      *)
(* executor and result handler behind each claim, the stalled-job sweep of *)
(* PollingScheduler and the reclaim pass of dk.poll, and the client calls  *)
(* that reach the row meanwhile.                                           *)
(*                                                                         *)
(* Every store call is one step on the shared row; between two calls of a  *)
(* process the others run, so a process acts on the version and attempt it *)
(* read earlier.  A claim holder may crash, and (HandlersOutliveLease) may *)
(* also keep running after its lease ended: in "await" mode the scheduler  *)
(* waits for a handler that ignores its abort signal however long it takes.*)
(*                                                                         *)
(* There is no clock: a due time is reached and a lease ends at any later  *)
(* step, so all instants are one instant, At.  Debounce settling is left   *)
(* to the modules with a clock; a throttle row is always ready when due.   *)
(***************************************************************************)
EXTENDS JobRow, FiniteSets

CONSTANTS
    Worker,     \* claim holders: in-flight executions, one process each
    Sweeper,    \* PollingScheduler replicas' sweeps
    DkPoll,     \* TRUE when request-scoped dk.poll() cycles run as well
    HandlersOutliveLease,   \* FALSE: only a crashed holder's lease ends
    Kinds,      \* kinds of the row
    MaxAttempts,        \* retry.maxAttempts of the registered handler
    MaxRequests, MaxCrashes, MaxVersion, MaxAttempt     \* bounds of the model

ASSUME WorkersAssumption ==
    /\ Kinds \subseteq {"once", "throttle"}
    /\ Handler # {} /\ Key # {}
    /\ DkPoll \in BOOLEAN /\ HandlersOutliveLease \in BOOLEAN
    /\ MaxAttempts \in Nat \ {0}
    /\ MaxRequests \in Nat /\ MaxCrashes \in Nat
    /\ MaxVersion \in Nat /\ MaxAttempt \in Nat

VARIABLES
    job,        \* the row
    exec,       \* worker -> its place and the snapshot it claimed
    sweep,      \* sweeper -> its place and the row it reclaimed
    requests,   \* client calls and handler reschedules so far
    crashes     \* crashes so far

\* History of the row, for the properties only.
VARIABLES
    fresh,      \* workers whose run began after the latest accepted request
    started,    \* has any run begun after the latest accepted request?
    budget,     \* the version at which the attempts last started over
    runs,       \* runs begun since then
    alarms      \* budget -> onFailure calls made for it; 2 stands for more

rowVars == <<job, fresh, started, budget, runs, alarms>>
vars == <<job, exec, sweep, requests, crashes, fresh, started, budget, runs, alarms>>

At == 0

IdleWorker == [pc |-> "idle", version |-> 0, attempt |-> 0, budget |-> 0,
               exhausted |-> FALSE]
IdleSweeper == [pc |-> "idle", version |-> 0]

TypeOK ==
    /\ job \in Job
    /\ exec \in [Worker -> [pc : {"idle", "handler", "requeue"}, version : Nat,
                            attempt : Nat, budget : Nat, exhausted : BOOLEAN]]
    /\ sweep \in [Sweeper -> [pc : {"idle", "claim", "fail", "backoff"}, version : Nat]]
    /\ requests \in 0 .. MaxRequests
    /\ crashes \in 0 .. MaxCrashes
    /\ fresh \in SUBSET Worker
    /\ started \in BOOLEAN
    /\ runs \in Nat
    /\ budget \in Nat
    /\ alarms \in [1 .. MaxVersion -> 0 .. 2]

NewRow(kind) ==
    LET handler == CHOOSE h \in Handler : TRUE
        key == CHOOSE k \in Key : TRUE
    IN  IF kind = "once" THEN NewOnceJob(handler, key, At, MaxAttempts, None)
        ELSE NewPatternJob(handler, key, MaxAttempts, None, NewWindow(kind, At, 1, None))

Init ==
    /\ \E kind \in Kinds : job = NewRow(kind)
    /\ exec = [w \in Worker |-> IdleWorker]
    /\ sweep = [s \in Sweeper |-> IdleSweeper]
    /\ requests = 0 /\ crashes = 0
    /\ fresh = {} /\ started = FALSE
    /\ budget = 1 /\ runs = 0 /\ alarms = [b \in 1 .. MaxVersion |-> 0]

-----------------------------------------------------------------------------
(* Writes of the row, with their history. *)

SetRow(row) ==
    /\ row.version <= MaxVersion /\ row.attempt <= MaxAttempt
    /\ job' = row

\* A write that leaves the history of the row's requests and runs alone.
Write(row) == SetRow(row) /\ UNCHANGED <<fresh, started, budget, runs, alarms>>

\* onFailure is called for the attempts of budget b.
Alarm(b) == alarms' = [alarms EXCEPT ![b] = Least(@ + 1, 2)]
WriteAndAlarm(row, b) ==
    SetRow(row) /\ Alarm(b) /\ UNCHANGED <<fresh, started, budget, runs>>

\* A write that starts the attempts over.
StartOver(row) == SetRow(row) /\ budget' = row.version /\ runs' = 0

\* A write that accepts a request: work that no earlier run can have done.
Accept == fresh' = {} /\ started' = FALSE
AcceptEvent(row) == SetRow(row) /\ Accept /\ UNCHANGED <<budget, runs, alarms>>
AcceptAnew(row) == StartOver(row) /\ Accept /\ UNCHANGED alarms

Request == requests < MaxRequests /\ requests' = requests + 1

Release(w) == exec' = [exec EXCEPT ![w] = IdleWorker]

-----------------------------------------------------------------------------
(* A worker: claimDueJobs / executeClaimed / handleResult. *)

\* The poll claims the due row and dispatches the handler on its snapshot.
PollClaim(w) ==
    /\ exec[w].pc = "idle"
    /\ IsDue(job, job.scheduledFor)
    /\ SetRow(claimDueRow(job, At))
    /\ exec' = [exec EXCEPT ![w] = [pc |-> "handler", version |-> job.version,
                                    attempt |-> job.attempt, budget |-> budget,
                                    exhausted |-> FALSE]]
    /\ fresh' = fresh \cup {w} /\ started' = TRUE /\ runs' = runs + 1
    /\ UNCHANGED <<budget, alarms, sweep, requests, crashes>>

\* A lost compare-and-set of a pattern row goes on to the requeue; a once row
\* is left to whoever changed it.
LostCAS(w, exhausted) ==
    /\ UNCHANGED rowVars
    /\ IF IsPattern(job)
       THEN exec' = [exec EXCEPT ![w].pc = "requeue", ![w].exhausted = exhausted]
       ELSE Release(w)

HandlerSucceeds(w) ==
    /\ exec[w].pc = "handler"
    /\ IF CanMarkCompleted(job, exec[w].version)
       THEN Write(markCompletedRow(job, At)) /\ Release(w)
       ELSE LostCAS(w, FALSE)
    /\ UNCHANGED <<sweep, requests, crashes>>

\* ctx.reschedule followed by a return: only a once handler may ask for it.
HandlerReschedules(w) ==
    /\ exec[w].pc = "handler" /\ ~ IsPattern(job)
    /\ Request
    /\ IF CanRescheduleJob(job, exec[w].version)
       THEN AcceptAnew(rescheduleJobRow(job, At))
       ELSE UNCHANGED rowVars
    /\ Release(w)
    /\ UNCHANGED <<sweep, crashes>>

RetriesLeft(w) == exec[w].attempt + 1 < MaxAttempts

\* The handler threw or timed out with attempts left.
HandlerFailsRetryable(w) ==
    /\ exec[w].pc = "handler" /\ RetriesLeft(w)
    /\ IF CanRetryJob(job, exec[w].version)
       THEN Write(retryJobRow(job, exec[w].attempt + 1, At)) /\ Release(w)
       ELSE LostCAS(w, FALSE)
    /\ UNCHANGED <<sweep, requests, crashes>>

\* Mutant: onFailure is called whether or not the row could be failed.
FailAndAlarmAlways(w) ==
    /\ exec[w].pc = "handler" /\ ~ RetriesLeft(w)
    /\ IF CanMarkFailed(job, exec[w].version)
       THEN SetRow(markFailedRow(job, "timeout", At)) /\ Release(w)
       ELSE /\ UNCHANGED job
            /\ exec' = [exec EXCEPT ![w].pc = "requeue", ![w].exhausted = TRUE]
    /\ Alarm(exec[w].budget)
    /\ UNCHANGED <<fresh, started, budget, runs, sweep, requests, crashes>>
\* The handler threw or timed out on its last attempt.
HandlerFailsExhausted(w) ==
    /\ exec[w].pc = "handler" /\ ~ RetriesLeft(w)
    /\ \E reason \in {"handler_error", "timeout"} :
          IF CanMarkFailed(job, exec[w].version)
          THEN WriteAndAlarm(markFailedRow(job, reason, At), exec[w].budget) /\ Release(w)
          ELSE LostCAS(w, TRUE)
    /\ UNCHANGED <<sweep, requests, crashes>>

\* The second store call of a pattern's lost outcome: the next window, if the
\* row is still running, whoever runs it.
RequeueWindow(w) ==
    /\ exec[w].pc = "requeue"
    /\ IF CanRequeueForNextWindow(job)
       THEN /\ StartOver(requeueForNextWindowRow(job))
            /\ IF exec[w].exhausted THEN Alarm(exec[w].budget) ELSE UNCHANGED alarms
            /\ UNCHANGED <<fresh, started>>
       ELSE UNCHANGED rowVars
    /\ Release(w)
    /\ UNCHANGED <<sweep, requests, crashes>>

Crash(w) ==
    /\ exec[w].pc # "idle"
    /\ crashes < MaxCrashes /\ crashes' = crashes + 1
    /\ Release(w)
    /\ fresh' = fresh \ {w}
    /\ UNCHANGED <<job, started, budget, runs, alarms, sweep, requests>>

-----------------------------------------------------------------------------
(* Recovery of stalled claims. *)

\* With prompt handlers a lease only ends once nobody works on the claim.
LeaseOver ==
    /\ job.status = "running"
    /\ HandlersOutliveLease \/
          /\ \A w \in Worker : exec[w].pc = "idle"
          /\ \A s \in Sweeper : sweep[s].pc # "fail"

\* Mutant: the sweep's query leaves exhausted rows out.
ReclaimUnexhausted ==
    /\ LeaseOver /\ job.attempt + 1 < MaxAttempts
    /\ IF VersionAdvanced(job)
       THEN StartOver(reclaimRow(job)) /\ UNCHANGED <<fresh, started, alarms>>
       ELSE Write(reclaimRow(job))
\* A stalled claim is undone, into a fresh window or with one attempt used.
Reclaim ==
    /\ LeaseOver
    /\ IF VersionAdvanced(job)
       THEN StartOver(reclaimRow(job)) /\ UNCHANGED <<fresh, started, alarms>>
       ELSE Write(reclaimRow(job))

\* reclaimStalledJobs of the sweep, which then works on the row it returned: an
\* exhausted one is to be failed, a retried one gets its backoff delay.
SweepReclaim(s) ==
    /\ sweep[s].pc = "idle"
    /\ Reclaim
    /\ sweep' = [sweep EXCEPT ![s] =
                    [pc |-> IF job'.attempt >= MaxAttempts THEN "claim"
                            ELSE IF job'.attempt > 0 THEN "backoff" ELSE "idle",
                     version |-> job'.version]]
    /\ UNCHANGED <<exec, requests, crashes>>

\* claimTerminalStall: pending -> running -> failed in two store calls.
SweepTerminalClaim(s) ==
    /\ sweep[s].pc = "claim"
    /\ IF CanMarkRunning(job, sweep[s].version)
       THEN /\ Write(markRunningRow(job, At))
            /\ sweep' = [sweep EXCEPT ![s].pc = "fail"]
       ELSE UNCHANGED rowVars /\ sweep' = [sweep EXCEPT ![s] = IdleSweeper]
    /\ UNCHANGED <<exec, requests, crashes>>

SweepTerminalFail(s) ==
    /\ sweep[s].pc = "fail"
    /\ IF CanMarkFailed(job, sweep[s].version)
       THEN WriteAndAlarm(markFailedRow(job, "stalled", At), budget)
       ELSE UNCHANGED rowVars
    /\ sweep' = [sweep EXCEPT ![s] = IdleSweeper]
    /\ UNCHANGED <<exec, requests, crashes>>

\* updateScheduledFor only moves the due time, of which there is one here.
SweepBackoff(s) ==
    /\ sweep[s].pc = "backoff"
    /\ Write(updateScheduledForRow(job, job.scheduledFor))
    /\ sweep' = [sweep EXCEPT ![s] = IdleSweeper]
    /\ UNCHANGED <<exec, requests, crashes>>

SweepCrash(s) ==
    /\ sweep[s].pc # "idle"
    /\ crashes < MaxCrashes /\ crashes' = crashes + 1
    /\ sweep' = [sweep EXCEPT ![s] = IdleSweeper]
    /\ UNCHANGED <<rowVars, exec, requests>>

\* dk.poll reclaims and reports; it fails nothing and delays nothing.
DkPollReclaim ==
    /\ DkPoll
    /\ Reclaim
    /\ UNCHANGED <<exec, sweep, requests, crashes>>

-----------------------------------------------------------------------------
(* Client calls. *)

\* throttle() on the active row.
PatternEvent ==
    /\ CanUpdatePatternEvent(job, "throttle", 1, None)
    /\ Request
    /\ AcceptEvent(updatePatternEventRow(job, At))
    /\ UNCHANGED <<exec, sweep, crashes>>

\* schedule(..., onDuplicate: "replace") on the pending once row.
Replace ==
    /\ ~ IsPattern(job) /\ CanReplaceJob(job)
    /\ Request
    /\ AcceptAnew(replaceJobRow(job, At, MaxAttempts))
    /\ UNCHANGED <<exec, sweep, crashes>>

Cancel ==
    /\ CanCancelJob(job)
    /\ Request
    /\ Write(cancelJobRow(job, At))
    /\ UNCHANGED <<exec, sweep, crashes>>

\* dk.retryJob on the failed row.
ManualRetry ==
    /\ CanResetJob(job)
    /\ Request
    /\ AcceptAnew(resetJobRow(job, At))
    /\ UNCHANGED <<exec, sweep, crashes>>

-----------------------------------------------------------------------------
WorkerStep(w) ==
    \/ HandlerSucceeds(w) \/ HandlerReschedules(w)
    \/ HandlerFailsRetryable(w) \/ HandlerFailsExhausted(w)
    \/ RequeueWindow(w)

SweepStep(s) ==
    \/ SweepReclaim(s)
    \/ SweepTerminalClaim(s) \/ SweepTerminalFail(s) \/ SweepBackoff(s)

ClientStep == PatternEvent \/ Replace \/ Cancel \/ ManualRetry

Next ==
    \/ \E w \in Worker : PollClaim(w) \/ WorkerStep(w) \/ Crash(w)
    \/ \E s \in Sweeper : SweepStep(s) \/ SweepCrash(s)
    \/ DkPollReclaim
    \/ ClientStep

Spec == Init /\ [][Next]_vars

\* Both loops re-arm their timers after every cycle, failed or not, every
\* handler settles (it returns, throws, or its timeout does) and store calls
\* return.  Clients and crashes are under no obligation.
Fairness ==
    /\ \A w \in Worker : WF_vars(PollClaim(w)) /\ WF_vars(WorkerStep(w))
    /\ \A s \in Sweeper : WF_vars(SweepStep(s))

FairSpec == Spec /\ Fairness

-----------------------------------------------------------------------------
(* Properties. *)

\* The row is completed only on the strength of a run that began after the
\* latest accepted request, and failed only once such a run was begun: no
\* create, event, replace, retry or reschedule is closed unserved, whatever
\* zombies and sweeps hold from before it.
NoRequestClosedUnserved ==
    [][/\ job.status # "completed" /\ job'.status = "completed" =>
             \E w \in fresh : exec[w].pc = "handler" /\ exec'[w].pc = "idle"
       /\ job.status # "failed" /\ job'.status = "failed" => started]_vars

\* A row fails only after its current window or retry was begun as often as its
\* handler may try: a holder from before a reset of the attempts never spends
\* the new ones.
FailsOnlyExhausted == job.status = "failed" => runs >= MaxAttempts

\* Two handler executions of the row never overlap.
RunsNeverOverlap ==
    Cardinality({w \in Worker : exec[w].pc = "handler"}) <= 1

\* onFailure is called at most once for the attempts of one window or request,
\* by the exhausted run or by one of the sweeps, but never by two of them.
OnFailureOnce == \A b \in 1 .. MaxVersion : alarms[b] <= 1

\* A claimed window goes back to pending as a fresh one only because new events
\* arrived during its execution (the state machine of docs/invariants.md), be it
\* by the holder's own requeue or by a reclaim.
RequeueOnlyOnNewEvents ==
    [][job.status = "running" /\ job'.status = "pending"
          /\ IsPattern(job) /\ job'.version > job.version
             => VersionAdvanced(job)]_vars

\* The attempt counter never passes the configured attempts: the assertion of
\* test/helpers/invariants.ts, "attempt must not exceed maxAttempts".
AttemptWithinBudget == job.attempt <= job.maxAttempts

\* Every row is eventually settled or cancelled, whatever crashes between the
\* store calls of its holders and of the sweeps.
EventuallySettles == IsActive(job) ~> ~ IsActive(job)
=============================================================================
