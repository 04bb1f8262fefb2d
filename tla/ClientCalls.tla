----------------------------- MODULE ClientCalls -----------------------------
(***************************************************************************)
(* The facade's calls for one (handler, key): schedule, throttle and       *)
(* debounce, cancel and unschedule, retryJob and retryFailed.  A call      *)
(* awaits the store several times, and its store calls interleave with     *)
(* those of other calls, of the workers and of the sweep, so each store    *)
(* call is one step here.  Stores are JobTable: what races is the facade.  *)
(*                                                                         *)
(* The deployment polls: scheduler.schedule returns null, no wake has to   *)
(* be materialized (WakeDelivery has the calls of a webhook deployment).   *)
(* Workers and sweep are only as detailed as the calls can tell, and       *)
(* PollWorkers has them whole.  Ids are random, so an id whose row was pruned stands   *)
(* for a fresh one.                                                        *)
(***************************************************************************)
EXTENDS JobTable

CONSTANTS
    Client,         \* calls that may be in flight at once
    Delays,         \* arguments of schedule
    MaxVersion      \* a bound of the model

ASSUME ClientAssumption ==
    /\ None \notin JobId
    /\ Kinds \subseteq Kind /\ Delays \subseteq Nat /\ Attempts \subseteq Nat
    /\ Waits \subseteq Nat /\ MaxWaits \subseteq Nat \cup {None}
    /\ leaseMs \in Nat /\ MaxVersion \in Nat /\ MaxAttempt \in Nat /\ MaxTime \in Nat

VARIABLES
    call,       \* client -> the call it makes, or how the last one returned
    swept,      \* rows that the sweep reclaimed and has not yet given a backoff
    seen,       \* history: what happened to the key's rows during each call
    promised    \* history: id -> when the last accepted request is due

vars == <<jobs, issued, now, call, swept, seen, promised>>

\* Where a call stands.  Of the results only those of a lost race are kept apart:
\* race_lost is the skippedReason, conflict a ConcurrentInsertError that reaches
\* the caller, dropped a success that recorded nothing.
InFlightPcs == {"read", "insert", "reread", "reinsert", "replace",
                "update", "open", "join", "cancel", "redrive"}
Lost == {"race_lost", "conflict", "dropped"}

NoCall == [pc |-> "idle", replace |-> FALSE, kind |-> None, at |-> 0,
           wait |-> None, maxWait |-> None, id |-> None, listed |-> {}]
InFlight(c) == call[c].pc \in InFlightPcs
CallState ==
    [pc : InFlightPcs \cup Lost \cup {"idle"}, replace : BOOLEAN, kind : Kinds \cup {None},
     at : Time, wait : TimeOrNull, maxWait : TimeOrNull,
     id : JobId \cup {None}, listed : SUBSET (JobId \X Nat)]

TypeOK ==
    /\ jobs \in [JobId -> Job \cup {None}]
    /\ issued \in SUBSET JobId
    /\ now \in Time
    /\ call \in [Client -> CallState]
    /\ swept \in SUBSET JobId
    /\ seen \in [Client -> SUBSET {"claimed", "ended"}]
    /\ promised \in [JobId -> [due : Time, raced : BOOLEAN]]

Init ==
    /\ TableInit
    /\ call = [c \in Client |-> NoCall]
    /\ swept = {}
    /\ seen = [c \in Client |-> {}]
    /\ promised = [id \in JobId |-> [due |-> 0, raced |-> FALSE]]

-----------------------------------------------------------------------------
(* Steps of a call. *)

ActiveIds == {id \in JobId : Present(id) /\ IsActive(jobs[id])}

Begin(c, new) == ~ InFlight(c) /\ call' = [call EXCEPT ![c] = new]
Goto(c, pc) == call' = [call EXCEPT ![c].pc = pc]
Return(c, result) == call' = [call EXCEPT ![c] = [NoCall EXCEPT !.pc = result]]

NoRequest == UNCHANGED promised
\* A request for row id is accepted: when it is due, and whether a sweep still
\* holds a backoff for that row.
Accept(id, due) ==
    promised' = [promised EXCEPT ![id] = [due |-> due, raced |-> id \in swept]]

-----------------------------------------------------------------------------
(* schedule(handler, key, delay, onDuplicate) *)

BeginSchedule(c, delay, replace) ==
    /\ "once" \in Kinds
    /\ Begin(c, [NoCall EXCEPT !.pc = "read", !.replace = replace,
                               !.kind = "once", !.at = now + delay])
    /\ NoRequest /\ UNCHANGED tableVars

\* What the call does with the active row it has just read.
handleExistingOnce(c, id) ==
    \/ jobs[id].kind # "once" /\ Return(c, "idle")
    \/ /\ jobs[id].kind = "once"
       /\ ~ call[c].replace \/ jobs[id].status = "running"
       /\ Return(c, "idle")
    \/ /\ jobs[id].kind = "once" /\ call[c].replace /\ jobs[id].status = "pending"
       /\ call' = [call EXCEPT ![c].pc = "replace", ![c].id = id]

Read(c) ==
    /\ call[c].pc \in {"read", "reread"}
    /\ \/ \E id \in ActiveIds : handleExistingOnce(c, id)
       \/ ActiveIds = {} /\ Goto(c, IF call[c].pc = "read" THEN "insert" ELSE "reinsert")
    /\ NoRequest /\ UNCHANGED tableVars

\* The second insert has no catch around it.
Insert(c) ==
    /\ call[c].pc \in {"insert", "reinsert"}
    /\ \/ \E id \in JobId, h \in Handler, k \in Key, n \in Attempts :
             /\ ~ Present(id)
             /\ createJob(id, NewOnceJob(h, k, call[c].at, n, None))
             /\ Accept(id, call[c].at)
             /\ Return(c, "idle")
       \/ /\ ActiveIds # {}
          /\ IF call[c].pc = "insert" THEN Goto(c, "reread") ELSE Return(c, "conflict")
          /\ NoRequest /\ UNCHANGED tableVars

Replace(c) ==
    LET id == call[c].id
    IN  /\ call[c].pc = "replace"
        /\ IF Present(id) /\ CanReplaceJob(jobs[id])
           THEN /\ \E n \in Attempts : replaceJob(id, call[c].at, n)
                /\ Accept(id, call[c].at)
                /\ Return(c, "idle")
           ELSE Return(c, "race_lost") /\ NoRequest /\ UNCHANGED tableVars

-----------------------------------------------------------------------------
(* debounce and throttle: update the window, else open one, else join the   *)
(* winner's.  All three use the one clock reading of the call.             *)

BeginEvent(c, kind, wait, maxWait) ==
    /\ kind # "once" /\ (kind = "throttle" => maxWait = None)
    /\ Begin(c, [NoCall EXCEPT !.pc = "update", !.kind = kind, !.at = now,
                               !.wait = wait, !.maxWait = maxWait])
    /\ NoRequest /\ UNCHANGED tableVars

\* The event is in row id; while the row runs, it belongs to the next window.
RecordEvent(c, id) ==
    LET window == updatePatternEventRow(jobs[id], call[c].at)
    IN  /\ updatePatternEvent(id, call[c].kind, call[c].wait, call[c].maxWait, call[c].at)
        /\ IF jobs[id].status = "running"
           THEN Accept(id, computePatternDueAt(window)) ELSE NoRequest
        /\ Return(c, "idle")

\* updatePatternEvent with its three results: updated, a mismatch, no such row.
PatternEvent(c) ==
    \E id \in ActiveIds :
        \/ RecordEvent(c, id)
        \/ /\ ~ CanUpdatePatternEvent(jobs[id], call[c].kind, call[c].wait, call[c].maxWait)
           /\ Return(c, "idle") /\ NoRequest /\ UNCHANGED tableVars
NoWindowFound(c, Then) ==
    ActiveIds = {} /\ Then /\ NoRequest /\ UNCHANGED tableVars

UpdateWindow(c) ==
    call[c].pc = "update" /\ (PatternEvent(c) \/ NoWindowFound(c, Goto(c, "open")))

\* Mutant: the loser of the insert takes its event for recorded.
OpenOrForget(c) ==
    /\ call[c].pc = "open"
    /\ \/ ActiveIds # {} /\ Return(c, "dropped") /\ NoRequest /\ UNCHANGED tableVars
       \/ \E id \in JobId, h \in Handler, k \in Key, n \in Attempts :
             LET job == NewPatternJob(h, k, n, None,
                            NewWindow(call[c].kind, call[c].at, call[c].wait, call[c].maxWait))
             IN  ~ Present(id) /\ createJob(id, job)
                 /\ Accept(id, job.scheduledFor) /\ Return(c, "idle")
OpenWindow(c) ==
    /\ call[c].pc = "open"
    /\ \/ \E id \in JobId, h \in Handler, k \in Key, n \in Attempts :
             LET job == NewPatternJob(h, k, n, None,
                            NewWindow(call[c].kind, call[c].at, call[c].wait, call[c].maxWait))
             IN  ~ Present(id) /\ createJob(id, job)
                 /\ Accept(id, job.scheduledFor) /\ Return(c, "idle")
       \/ ActiveIds # {} /\ Goto(c, "join") /\ NoRequest /\ UNCHANGED tableVars

\* The winner may have ended by now: the event is dropped, and the call succeeds.
JoinWindow(c) ==
    call[c].pc = "join" /\ (PatternEvent(c) \/ NoWindowFound(c, Return(c, "dropped")))

-----------------------------------------------------------------------------
(* cancel(id) and unschedule(handler, key), retryJob(id), retryFailed.      *)

BeginCancel(c, id) ==
    /\ Present(id) /\ jobs[id].status = "pending"
    /\ Begin(c, [NoCall EXCEPT !.pc = "cancel", !.id = id])
    /\ NoRequest /\ UNCHANGED tableVars
\* By id and status, not by version: it cancels what the row is asked for now.
Cancel(c) ==
    LET id == call[c].id
    IN  /\ call[c].pc = "cancel"
        /\ IF Present(id) /\ CanCancelJob(jobs[id])
           THEN cancelJob(id) /\ Return(c, "idle")
           ELSE Return(c, "idle") /\ UNCHANGED tableVars
        /\ NoRequest

ManualRetry(id) == resetJob(id, now) /\ Accept(id, now) /\ UNCHANGED call

\* The failed rows are listed once, then reset one by one at their versions.
BeginRetryFailed(c) ==
    LET failed == {id \in JobId : Present(id) /\ jobs[id].status = "failed"}
    IN  /\ failed # {}
        /\ Begin(c, [NoCall EXCEPT !.pc = "redrive",
                                   !.listed = {<<id, jobs[id].version>> : id \in failed}])
        /\ NoRequest /\ UNCHANGED tableVars
RetryFailed(c, id, version, offset) ==
    /\ call[c].pc = "redrive" /\ <<id, version>> \in call[c].listed
    /\ IF call[c].listed = {<<id, version>>} THEN Return(c, "idle")
       ELSE call' = [call EXCEPT ![c].listed = @ \ {<<id, version>>}]
    /\ IF Present(id) /\ jobs[id].version = version /\ CanResetJob(jobs[id])
          /\ SlotFree(jobs[id], id)
       THEN resetJob(id, now + offset) /\ Accept(id, now + offset)
       ELSE NoRequest /\ UNCHANGED tableVars

-----------------------------------------------------------------------------
(* The rest of the process. *)

Claim(names) == \E ids \in SUBSET JobId : ids # {} /\ claimDueJobs(ids, names)

\* A worker settles its claim: complete, retry, fail, or requeue the next window
\* when events have moved the version.
Settle(id) ==
    /\ Present(id) /\ jobs[id].status = "running"
    /\ IF jobs[id].version # jobs[id].claimedVersion THEN requeueForNextWindow(id)
       ELSE \/ markCompleted(id)
            \/ /\ jobs[id].attempt + 1 < jobs[id].maxAttempts
               /\ retryJob(id, jobs[id].attempt + 1, now + 1)
            \/ /\ jobs[id].attempt + 1 >= jobs[id].maxAttempts
               /\ markFailed(id, "handler_error")

\* Mutant: the backoff is written for rows that start a fresh window as well.
BackoffForAll ==
    /\ swept = {} /\ StalledRows # {} /\ reclaimStalledJobs /\ swept' = StalledRows
SweepReclaim ==
    /\ swept = {} /\ StalledRows # {}
    /\ reclaimStalledJobs
    /\ swept' = {id \in StalledRows :
                    reclaimRow(jobs[id]).attempt \in 1 .. jobs[id].maxAttempts - 1}
\* updateScheduledFor tests neither the version nor the status of the row.
SweepBackoff(id) ==
    /\ id \in swept /\ swept' = swept \ {id}
    /\ IF Present(id) THEN updateScheduledFor(id, now + 1) ELSE UNCHANGED tableVars

Process ==
    /\ \/ /\ \/ Claim(Handler)
             \/ \E id \in JobId : Settle(id)
             \/ pruneTerminal(TerminalRows)
             \/ now < MaxTime /\ Tick
          /\ UNCHANGED swept
       \/ SweepReclaim
       \/ \E id \in JobId : SweepBackoff(id)
    /\ NoRequest /\ UNCHANGED call

-----------------------------------------------------------------------------
CallStep(c) ==
    \/ \E delay \in Delays, replace \in BOOLEAN : BeginSchedule(c, delay, replace)
    \/ Read(c) \/ Insert(c) \/ Replace(c)
    \/ \E kind \in Kinds, wait \in Waits, maxWait \in MaxWaits \cup {None} :
          BeginEvent(c, kind, wait, maxWait)
    \/ UpdateWindow(c) \/ OpenWindow(c) \/ JoinWindow(c)
    \/ \E id \in JobId : BeginCancel(c, id)
    \/ Cancel(c)
    \/ BeginRetryFailed(c)
    \/ \E id \in JobId, version \in 1 .. MaxVersion, offset \in Delays :
          RetryFailed(c, id, version, offset)

\* What happens to the key's rows while a call is in flight.
Observe ==
    seen' = [c \in Client |->
        IF ~ InFlight(c) THEN IF call'[c] = call[c] THEN seen[c] ELSE {}
        ELSE IF call'[c] = NoCall THEN {}
        ELSE seen[c]
             \cup {"claimed" : id \in {i \in ActiveIds : jobs[i].status = "pending"
                              /\ jobs'[i] # None /\ jobs'[i].status = "running"}}
             \cup {"ended" : id \in {i \in ActiveIds :
                              jobs'[i] = None \/ ~ IsActive(jobs'[i])}}]

Bounded ==
    \A id \in JobId : Present(id) => jobs[id].version <= MaxVersion
                                     /\ jobs[id].attempt <= MaxAttempt

Next ==
    /\ \/ (\E c \in Client : CallStep(c)) /\ UNCHANGED swept
       \/ (\E id \in JobId : Present(id) /\ ManualRetry(id)) /\ UNCHANGED swept
       \/ Process
    /\ Observe
    /\ Bounded'

Spec == Init /\ [][Next]_vars

-----------------------------------------------------------------------------
(* Properties. *)

\* The facade hides its races: an event is dropped by a call that succeeded, and
\* a ConcurrentInsertError reaches the caller of schedule, only if the row that
\* won the insert ended during the call; and replace reports a lost race only if
\* the row it meant to replace was claimed or ended during the call.
FailsOnlyByRace ==
    \A c \in Client :
        /\ call[c].pc \in {"dropped", "conflict"} => "ended" \in seen[c]
        /\ call[c].pc = "race_lost" => seen[c] # {}

\* A row that waits for its first attempt is due when the last accepted request
\* asked for it, through claims, requeues, reclaims and manual retries; unless
\* the request came while a sweep held a backoff for this row, which
\* it then writes over the request.
DueAsPromised ==
    \A id \in JobId :
        Present(id) /\ jobs[id].status = "pending" /\ jobs[id].attempt = 0
        => \/ jobs[id].scheduledFor = promised[id].due
           \/ promised[id].raced
           \/ jobs[id].kind = "debounce"
=============================================================================
