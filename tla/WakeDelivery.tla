----------------------------- MODULE WakeDelivery -----------------------------
(***************************************************************************)
(* The webhook execution path for one row: the hooks a PosthookScheduler   *)
(* creates, the deliveries that Posthook makes of them, the executor and   *)
(* result handler behind each delivery, and the client calls that create,  *)
(* replace, retry and cancel the row, each with its own round trips.       *)
(*                                                                         *)
(* Posthook is external.  What the code relies on: a hook is delivered, at *)
(* or after its time, until it is answered with 200 or deleted; a 500 or a *)
(* missing answer brings another delivery.  So an answer of 200 is the end *)
(* of that hook, and the row lives on only if something else wakes it.     *)
(*                                                                         *)
(* There is no clock but the count of requests, which stamps the events of *)
(* a window; hooks are delivered at any time from their creation.  A timer *)
(* that has not run out answers 500 and changes nothing, so the early      *)
(* delivery of a once job is left out.  All handlers are registered, and a *)
(* handler ends within its lease ("race" mode), so a lease only ends under *)
(* a crashed delivery.                                                     *)
(***************************************************************************)
EXTENDS WebhookRow

CONSTANTS
    MaxAttempts,    \* retry.attempts of the handler
    MaxAttempt      \* a bound of the model

ASSUME WakeAssumption ==
    /\ Kinds \subseteq Kind
    /\ Handler # {} /\ Key # {} /\ None \notin Ref /\ None \notin Job
    /\ MaxAttempts \in Nat \ {0}
    /\ MaxRequests \in Nat /\ MaxFaults \in Nat
    /\ MaxVersion \in Nat /\ MaxAttempt \in Nat

VARIABLES
    hooks,      \* hooks Posthook still delivers; other ids are free for reuse
    wake,       \* hook -> its delivery in progress
    client,     \* the create, replace or retry call in progress
    windowEnd   \* of a debounce row: "open" if it may lie ahead, "hooked" if the
                \* row's hook comes no earlier, "over" if it is known to be past

\* History of the row, for the properties only.
VARIABLES
    fresh,      \* hooks whose run began after the latest accepted request
    started,    \* has any run begun after the latest accepted request?
    leaks       \* the ways in which a wake of the active row was given up

history == <<fresh, started, leaks>>
vars == <<job, hooks, wake, client, windowEnd, requests, faults, fresh, started, leaks>>

DeliveryPc == {"idle", "execute", "reclaim", "claimTerminal", "failTerminal",
               "resettle", "claim", "handler", "requeue", "schedule", "store"}
ClientPc == {"idle", "insert", "replace", "schedule", "store", "failClaim", "fail"}
Leak == {"outran row", "version moved", "still running", "claim lost",
         "resettle lost", "outcome lost", "ref lost", "failure lost"}

WindowEnd == {"open", "hooked", "over"}

IdleWake == [pc |-> "idle", version |-> 0, attempt |-> 0, new |-> None]
IdleClient == [pc |-> "idle", kind |-> "once", version |-> 0, new |-> None, old |-> None]

TypeOK ==
    /\ job \in Job \cup {None}
    /\ hooks \in SUBSET Ref
    /\ wake \in [Ref -> [pc : DeliveryPc, version : Nat, attempt : Nat, new : Ref \cup {None}]]
    /\ client \in [pc : ClientPc, kind : Kind, version : Nat,
                   new : Ref \cup {None}, old : Ref \cup {None}]
    /\ windowEnd \in WindowEnd
    /\ requests \in 0 .. MaxRequests /\ faults \in 0 .. MaxFaults
    /\ fresh \in SUBSET Ref /\ started \in BOOLEAN /\ leaks \in SUBSET Leak

Init ==
    /\ job = None
    /\ hooks = {}
    /\ wake = [r \in Ref |-> IdleWake]
    /\ client = IdleClient
    /\ windowEnd = "over"
    /\ requests = 0 /\ faults = 0
    /\ fresh = {} /\ started = FALSE /\ leaks = {}

-----------------------------------------------------------------------------
SetRow(row) == row.version <= MaxVersion /\ row.attempt <= MaxAttempt /\ job' = row

\* A write that accepts a request: work that no earlier run can have done.
Accept(row) == SetRow(row) /\ fresh' = {} /\ started' = FALSE

\* Events are stamped with the count of requests, and a wait lasts one request,
\* so now is past every wait that a delivery has found to be over.
Now == requests + 1

\* Ids that nothing refers to any more serve as new ones.
NewRefs ==
    {r \in Ref \ hooks :
        /\ wake[r].pc = "idle"
        /\ r \notin {client.new, client.old}
        /\ Exists => job.schedulerRef # r
        /\ \A other \in Ref : wake[other].new # r}

-----------------------------------------------------------------------------
(* A delivery: validateDelivery, executeJob, handleResult, each a process  *)
(* that reads and writes the row in separate store calls.                  *)

At(r, pc) == wake[r].pc = pc
Goto(r, pc) == wake' = [wake EXCEPT ![r].pc = pc]
GotoAt(r, pc, row) ==
    wake' = [wake EXCEPT ![r] = [pc |-> pc, version |-> row.version,
                                 attempt |-> row.attempt, new |-> None]]

\* The answers.  A hook deleted meanwhile is not delivered again anyhow.
Ok(r) == hooks' = hooks \ {r} /\ wake' = [wake EXCEPT ![r] = IdleWake]
Retry(r) == wake' = [wake EXCEPT ![r] = IdleWake] /\ UNCHANGED hooks

\* A 200 that does nothing for the row, which may well be active.
Skip(r, how) ==
    /\ Ok(r)
    /\ leaks' = IF Active THEN leaks \cup {how} ELSE leaks
    /\ UNCHANGED <<job, fresh, started>>

\* The hook exists and its row does not name it yet, but is going to.
Unnamed(r) ==
    \/ client.pc \in {"insert", "store"} /\ client.new = r
    \/ \E other \in Ref : wake[other].new = r

\* Another delivery of a live hook begins with validateDelivery's checks.  A hook
\* that was made for the end of the window is not delivered before it.
Deliver(r) ==
    /\ r \in hooks /\ At(r, "idle")
    /\ IF Active /\ job.schedulerRef \in {None, r}
       THEN GotoAt(r, "execute", job) /\ UNCHANGED <<hooks, leaks>>
       ELSE Ok(r) /\ leaks' = IF Unnamed(r) THEN leaks \cup {"outran row"} ELSE leaks
    /\ windowEnd' = IF Exists /\ job.schedulerRef = r /\ windowEnd = "hooked"
                    THEN "over" ELSE windowEnd
    /\ UNCHANGED <<job, client, requests, faults, fresh, started>>

\* The clock may find a debounce row unsettled after events, whatever due time was
\* computed since, until a hook that was made for the new end is delivered.  Once
\* found to be over, the end stays so.
MayBeUnsettled(row) == row.kind = "debounce" /\ windowEnd # "over"
Dispatch(r, row) ==
    \/ GotoAt(r, "claim", row) /\ windowEnd' = "over"
    \/ MayBeUnsettled(row) /\ GotoAt(r, "resettle", row) /\ UNCHANGED windowEnd

\* executeJob reads the row again.
Execute(r) ==
    /\ At(r, "execute")
    /\ \/ /\ job.version # wake[r].version \/ ~ Active
          /\ Skip(r, "version moved") /\ UNCHANGED windowEnd
       \/ /\ job.version = wake[r].version
          /\ \/ job.status = "running" /\ GotoAt(r, "reclaim", job) /\ UNCHANGED windowEnd
             \/ job.status = "pending" /\ Dispatch(r, job)
          /\ UNCHANGED <<job, hooks, history>>
    /\ UNCHANGED <<client, requests, faults>>

\* Someone works on the claim: no lease ends before its handler does.
Held ==
    \/ \E r \in Ref : wake[r].pc \in {"handler", "failTerminal", "requeue"}
    \/ client.pc = "fail"

\* reclaimStalled, which finds the lease over or leaves the row alone.
Reclaim(r) ==
    /\ At(r, "reclaim")
    /\ \/ Skip(r, "still running") /\ UNCHANGED windowEnd
       \/ /\ job.status = "running" /\ ~ Held
          /\ SetRow(reclaimRow(job))
          /\ IF job'.attempt >= job'.maxAttempts
             THEN GotoAt(r, "claimTerminal", job') /\ UNCHANGED windowEnd
             ELSE Dispatch(r, job')
          /\ UNCHANGED <<hooks, history>>
    /\ UNCHANGED <<client, requests, faults>>

\* claimTerminalStall: pending -> running -> failed in two store calls.
ClaimTerminal(r) ==
    /\ At(r, "claimTerminal")
    /\ IF CanMarkRunning(job, wake[r].version)
       THEN /\ SetRow(markRunningRow(job, Now))
            /\ Goto(r, "failTerminal")
            /\ UNCHANGED <<hooks, history>>
       ELSE Skip(r, "claim lost")
    /\ UNCHANGED <<client, windowEnd, requests, faults>>
FailTerminal(r) ==
    /\ At(r, "failTerminal")
    /\ IF CanMarkFailed(job, wake[r].version)
       THEN /\ SetRow(markFailedRow(job, "stalled", Now))
            /\ Ok(r)
            /\ UNCHANGED history
       ELSE Skip(r, "claim lost")
    /\ UNCHANGED <<client, windowEnd, requests, faults>>

\* needs_reschedule: move the due time, then materialize a wake for it.
Resettle(r) ==
    /\ At(r, "resettle")
    /\ IF CanRescheduleDueAt(job, wake[r].version)
       THEN /\ SetRow(rescheduleDueAtRow(job))
            /\ GotoAt(r, "schedule", job')
            /\ UNCHANGED <<hooks, history>>
       ELSE Skip(r, "resettle lost")
    /\ UNCHANGED <<client, windowEnd, requests, faults>>

Claim(r) ==
    /\ At(r, "claim")
    /\ IF CanMarkRunning(job, wake[r].version)
       THEN /\ SetRow(markRunningRow(job, Now))
            /\ Goto(r, "handler")
            /\ fresh' = fresh \cup {r} /\ started' = TRUE
            /\ UNCHANGED <<hooks, leaks>>
       ELSE Skip(r, "claim lost")
    /\ UNCHANGED <<client, windowEnd, requests, faults>>

\* A pattern's outcome that lost its compare-and-set goes on to the requeue.
LostOutcome(r, Answer) ==
    \/ IsPattern(job) /\ Goto(r, "requeue") /\ UNCHANGED <<job, hooks, history>>
    \/ ~ IsPattern(job) /\ Answer

HandlerSucceeds(r) ==
    /\ At(r, "handler")
    /\ IF CanMarkCompleted(job, wake[r].version)
       THEN SetRow(markCompletedRow(job, Now)) /\ Ok(r) /\ UNCHANGED history
       ELSE LostOutcome(r, Skip(r, "outcome lost"))
    /\ UNCHANGED <<client, windowEnd, requests, faults>>

HandlerReschedules(r) ==
    /\ At(r, "handler") /\ ~ IsPattern(job)
    /\ Request
    /\ IF CanRescheduleJob(job, wake[r].version)
       THEN /\ Accept(rescheduleJobRow(job, Now))
            /\ GotoAt(r, "schedule", job')
            /\ UNCHANGED <<hooks, leaks>>
       ELSE Skip(r, "outcome lost")
    /\ UNCHANGED <<client, windowEnd, faults>>

RetriesLeft(r) == wake[r].attempt + 1 < MaxAttempts

\* Mutant: the retry is answered 200, as the other outcomes are.
RetryAnswersOk(r) ==
    /\ At(r, "handler") /\ RetriesLeft(r)
    /\ IF CanRetryJob(job, wake[r].version)
       THEN /\ SetRow(retryJobRow(job, wake[r].attempt + 1, Now))
            /\ Ok(r)
            /\ UNCHANGED history
       ELSE LostOutcome(r, Retry(r) /\ UNCHANGED <<job, history>>)
    /\ UNCHANGED <<client, windowEnd, requests, faults>>
\* The row waits for Posthook's next delivery of this very hook: a retry is
\* answered 500, even one that lost its compare-and-set.
HandlerFailsRetryable(r) ==
    /\ At(r, "handler") /\ RetriesLeft(r)
    /\ IF CanRetryJob(job, wake[r].version)
       THEN /\ SetRow(retryJobRow(job, wake[r].attempt + 1, Now))
            /\ Retry(r)
            /\ UNCHANGED history
       ELSE LostOutcome(r, Retry(r) /\ UNCHANGED <<job, history>>)
    /\ UNCHANGED <<client, windowEnd, requests, faults>>

HandlerFailsExhausted(r) ==
    /\ At(r, "handler") /\ ~ RetriesLeft(r)
    /\ IF CanMarkFailed(job, wake[r].version)
       THEN SetRow(markFailedRow(job, "handler_error", Now)) /\ Ok(r) /\ UNCHANGED history
       ELSE LostOutcome(r, Skip(r, "outcome lost"))
    /\ UNCHANGED <<client, windowEnd, requests, faults>>

RequeueWindow(r) ==
    /\ At(r, "requeue")
    /\ IF CanRequeueForNextWindow(job)
       THEN /\ SetRow(requeueForNextWindowRow(job))
            /\ GotoAt(r, "schedule", job')
            /\ UNCHANGED <<hooks, history>>
       ELSE Skip(r, "outcome lost")
    /\ UNCHANGED <<client, windowEnd, requests, faults>>

\* Mutant: a failed Posthook call is logged and the delivery answered 200.
SwallowScheduleError(r) ==
    /\ At(r, "schedule")
    /\ \/ \E new \in NewRefs :
             /\ hooks' = hooks \cup {new}
             /\ wake' = [wake EXCEPT ![r].pc = "store", ![r].new = new]
             /\ UNCHANGED faults
       \/ Fault /\ Ok(r)
    /\ UNCHANGED <<job, history, client, windowEnd, requests>>
\* materializeWake: create the hook, then store its id if the row has not moved
\* on meanwhile, and delete it if it has.  A failed Posthook call makes the
\* delivery fail, so the hook being delivered comes back.
ScheduleWake(r) ==
    /\ At(r, "schedule")
    /\ \/ \E new \in NewRefs :
             /\ hooks' = hooks \cup {new}
             /\ wake' = [wake EXCEPT ![r].pc = "store", ![r].new = new]
             /\ UNCHANGED faults
       \/ Fault /\ Retry(r)
    /\ UNCHANGED <<job, history, client, windowEnd, requests>>
StoreWake(r) ==
    /\ At(r, "store")
    /\ wake' = [wake EXCEPT ![r] = IdleWake]
    /\ IF CanUpdateSchedulerRef(job, wake[r].version)
       THEN /\ SetRow(updateSchedulerRefRow(job, wake[r].new))
            /\ hooks' = hooks \ {r}
            /\ windowEnd' = IF windowEnd = "open" THEN "hooked" ELSE windowEnd
            /\ UNCHANGED leaks
       ELSE /\ hooks' = hooks \ {r, wake[r].new}
            /\ leaks' = IF Active THEN leaks \cup {"ref lost"} ELSE leaks
            /\ UNCHANGED <<job, windowEnd>>
    /\ UNCHANGED <<fresh, started, client, requests, faults>>

\* The process dies and Posthook gets no answer.
Crash(r) ==
    /\ ~ At(r, "idle")
    /\ Fault /\ Retry(r)
    /\ fresh' = fresh \ {r}
    /\ UNCHANGED <<job, started, leaks, client, windowEnd, requests>>

-----------------------------------------------------------------------------
(* Client calls. *)

\* createNewJob: the hook first, then the row that names it.
Create(kind) ==
    /\ ~ Exists /\ client.pc = "idle"
    /\ \E new \in NewRefs :
          /\ hooks' = hooks \cup {new}
          /\ client' = [IdleClient EXCEPT !.pc = "insert", !.kind = kind, !.new = new]
    /\ UNCHANGED <<job, wake, windowEnd, requests, faults, history>>
Insert ==
    /\ client.pc = "insert"
    /\ LET handler == CHOOSE h \in Handler : TRUE
           key == CHOOSE k \in Key : TRUE
       IN  SetRow(IF client.kind = "once"
                  THEN NewOnceJob(handler, key, Now, MaxAttempts, client.new)
                  ELSE NewPatternJob(handler, key, MaxAttempts, client.new,
                                     NewWindow(client.kind, requests, 1, None)))
    /\ windowEnd' = IF client.kind = "debounce" THEN "hooked" ELSE "over"
    /\ client' = IdleClient
    /\ UNCHANGED <<hooks, wake, requests, faults, history>>

\* schedule(..., onDuplicate: "replace") reads the row and replaces it.
BeginReplace ==
    /\ Exists /\ client.pc = "idle"
    /\ ~ IsPattern(job) /\ job.status = "pending"
    /\ Request
    /\ client' = [IdleClient EXCEPT !.pc = "replace", !.old = job.schedulerRef]
    /\ UNCHANGED <<job, hooks, wake, windowEnd, faults, history>>
Replace ==
    /\ client.pc = "replace"
    /\ IF CanReplaceJob(job)
       THEN /\ Accept(replaceJobRow(job, Now, MaxAttempts))
            /\ client' = [client EXCEPT !.pc = "schedule", !.version = job'.version]
       ELSE client' = IdleClient /\ UNCHANGED <<job, fresh, started>>
    /\ UNCHANGED <<hooks, wake, windowEnd, requests, faults, leaks>>

\* dk.retryJob resets the failed row; its wake is for now, not for the window's end.
ManualRetry ==
    /\ Exists /\ client.pc = "idle"
    /\ CanResetJob(job)
    /\ Request
    /\ Accept(resetJobRow(job, Now))
    /\ client' = [IdleClient EXCEPT !.pc = "schedule", !.version = job'.version]
    /\ UNCHANGED <<hooks, wake, windowEnd, faults, leaks>>

\* materializeWakeup, after which a replace deletes the hook it found.
ClientSchedule ==
    /\ client.pc = "schedule"
    /\ \/ \E new \in NewRefs :
             /\ hooks' = hooks \cup {new}
             /\ client' = [client EXCEPT !.pc = "store", !.new = new]
             /\ UNCHANGED faults
       \/ Fault /\ client' = [client EXCEPT !.pc = "failClaim"] /\ UNCHANGED hooks
    /\ UNCHANGED <<job, wake, windowEnd, requests, history>>
ClientStore ==
    /\ client.pc = "store"
    /\ IF CanUpdateSchedulerRef(job, client.version)
       THEN /\ SetRow(updateSchedulerRefRow(job, client.new))
            /\ hooks' = hooks \ {client.old}
            /\ UNCHANGED leaks
       ELSE /\ hooks' = hooks \ {client.old, client.new}
            /\ leaks' = IF Active THEN leaks \cup {"ref lost"} ELSE leaks
            /\ UNCHANGED job
    /\ client' = IdleClient
    /\ UNCHANGED <<wake, windowEnd, requests, faults, fresh, started>>

\* failMaterialization claims the row and fails it, heedless of whether the
\* claim succeeded.
FailClaim ==
    /\ client.pc = "failClaim"
    /\ IF CanMarkRunning(job, client.version) THEN SetRow(markRunningRow(job, Now))
       ELSE UNCHANGED job
    /\ client' = [client EXCEPT !.pc = "fail"]
    /\ UNCHANGED <<hooks, wake, windowEnd, requests, faults, history>>
FailMaterialization ==
    /\ client.pc = "fail"
    /\ IF CanMarkFailed(job, client.version)
       THEN SetRow(markFailedRow(job, "materialization_error", Now)) /\ UNCHANGED leaks
       ELSE /\ UNCHANGED job
            /\ leaks' = IF Active THEN leaks \cup {"failure lost"} ELSE leaks
    /\ client' = IdleClient
    /\ UNCHANGED <<hooks, wake, windowEnd, requests, faults, fresh, started>>

\* debounce() or throttle() on the active row: no new wake.
PatternEvent ==
    /\ Exists /\ IsPattern(job)
    /\ CanUpdatePatternEvent(job, job.kind, 1, None)
    /\ Request
    /\ Accept(updatePatternEventRow(job, requests'))
    /\ windowEnd' = IF job.kind = "debounce" THEN "open" ELSE windowEnd
    /\ UNCHANGED <<hooks, wake, client, faults, leaks>>

Cancel ==
    /\ Exists /\ CanCancelJob(job)
    /\ Request
    /\ SetRow(cancelJobRow(job, Now))
    /\ hooks' = hooks \ {job.schedulerRef}
    /\ UNCHANGED <<wake, client, windowEnd, faults, history>>

-----------------------------------------------------------------------------
Process(r) ==
    \/ Execute(r) \/ Reclaim(r) \/ ClaimTerminal(r) \/ FailTerminal(r)
    \/ Resettle(r) \/ Claim(r)
    \/ HandlerSucceeds(r) \/ HandlerReschedules(r)
    \/ HandlerFailsRetryable(r) \/ HandlerFailsExhausted(r)
    \/ RequeueWindow(r) \/ ScheduleWake(r) \/ StoreWake(r)

ClientStart ==
    \/ \E kind \in Kinds : Create(kind)
    \/ BeginReplace \/ ManualRetry \/ PatternEvent \/ Cancel
ClientStep ==
    Insert \/ Replace \/ ClientSchedule \/ ClientStore \/ FailClaim \/ FailMaterialization

Next ==
    \/ \E r \in Ref : Deliver(r) \/ Process(r) \/ Crash(r)
    \/ ClientStart
    \/ ClientStep

Spec == Init /\ [][Next]_vars

\* Posthook delivers its hooks; deliveries and client calls in progress go on:
\* a handler ends by its timeout and store and Posthook calls return.
Fairness ==
    /\ \A r \in Ref : WF_vars(Deliver(r)) /\ WF_vars(Process(r))
    /\ WF_vars(ClientStep)

FairSpec == Spec /\ Fairness

-----------------------------------------------------------------------------
(* Properties. *)

\* Nobody works on the active row, and no hook will be let through to it.
Stranded ==
    /\ Active
    /\ client.pc = "idle"
    /\ \A r \in Ref : wake[r].pc = "idle"
    /\ \A r \in hooks : job.schedulerRef \notin {None, r}

\* A wake is lost in one of the listed ways only: a delivery answered 200 without
\* serving the row, or a hook deleted because the row moved on while it was being
\* created.  The stale-hook check, a replace's deletion of the old hook, retries
\* on the same hook, crashes and failed Posthook calls strand no row themselves.
StrandedOnlyByLeak == Stranded => leaks # {}

\* The row is completed only by a run that began after the latest accepted
\* request, and failed only once one was begun, unless its wake could not be made.
NoRequestClosedUnserved ==
    [][Exists =>
        /\ job.status # "completed" /\ job'.status = "completed" =>
              \E r \in fresh : wake[r].pc = "handler" /\ wake'[r].pc = "idle"
        /\ job.status # "failed" /\ job'.status = "failed" =>
              started \/ job'.failureReason = "materialization_error"]_vars

\* A row that leaks no wake is settled in the end, whatever else crashes.
SettlesUnlessLeaked == (Active ~> ~ Active) \/ <>(leaks # {})
=============================================================================
