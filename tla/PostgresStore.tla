---------------------------- MODULE PostgresStore ----------------------------
(***************************************************************************)
(* PostgresStore: the methods of the store as SQL statements that several  *)
(* replicas send to one database at isolation level READ COMMITTED.        *)
(*                                                                         *)
(* PostgreSQL is external.  What the code relies on: a statement sees the  *)
(* rows committed before it began; an UPDATE or DELETE that then finds a   *)
(* row changed tests its own WHERE clause again on the newest version of   *)
(* that row, but nothing that a CTE or a subquery has already computed.    *)
(* So a statement whose conditions all stand in its own WHERE is one step  *)
(* of JobTable, taken when it commits, and it may miss a row that changed  *)
(* under it, which is a stuttering step.  What takes more steps here are   *)
(* the methods that read first: the CTE of deferJob and noteMissingHandler *)
(* the two statements of a reclaim, and the subquery of a limited prune.   *)
(*                                                                         *)
(* now() is the instant at which a statement began; for the statements of  *)
(* one step it is taken to be the instant of their commit.                 *)
(***************************************************************************)
EXTENDS JobTable

CONSTANTS
    Session,        \* the connections that are inside a method of several steps
    MaxVersion      \* a bound of the model

ASSUME PostgresAssumption ==
    /\ None \notin JobId
    /\ Kinds \subseteq Kind
    /\ Waits \subseteq Nat /\ MaxWaits \subseteq Nat \cup {None}
    /\ leaseMs \in Nat /\ horizonMs \in Nat
    /\ Attempts \subseteq Nat
    /\ MaxVersion \in Nat /\ MaxAttempt \in Nat /\ MaxTime \in Nat

VARIABLE session    \* session -> the method it is inside of, and what that has read

vars == <<jobs, issued, now, session>>

Idle == [pc |-> "idle", ids |-> {}, version |-> 0, at |-> 0, exceeded |-> FALSE]

TypeOK ==
    /\ jobs \in [JobId -> Job \cup {None}]
    /\ issued \in SUBSET JobId
    /\ now \in Time
    /\ session \in [Session ->
          [pc : {"idle", "defer", "note", "reclaim", "prune"}, ids : SUBSET JobId,
           version : Nat, at : Time, exceeded : BOOLEAN]]

Init == TableInit /\ session = [s \in Session |-> Idle]

Enter(s, call) == session[s] = Idle /\ session' = [session EXCEPT ![s] = call]
Leave(s) == session' = [session EXCEPT ![s] = Idle]

Bounded ==
    \A id \in JobId : Present(id) => jobs[id].version <= MaxVersion
                                     /\ jobs[id].attempt <= MaxAttempt

-----------------------------------------------------------------------------
(* Methods of one statement. *)

\* The partial unique index sees uncommitted rows too: the loser of two inserts
\* or resets waits, and then gets the unique violation.
InsertStatement == \E id \in JobId \ issued : \E job \in InsertedRows : createJob(id, job)
ResetStatement(id) == \E at \in Instants \cup {now} : resetJob(id, at)

EventStatement(id) ==
    \/ \E kind \in Kinds, wait \in Waits, maxWait \in MaxWaits \cup {None}, at \in 0 .. now :
          updatePatternEvent(id, kind, wait, maxWait, at)
    \/ cancelJob(id)
    \/ \E at \in Instants : updateScheduledFor(id, at)
    \/ Delete({id})
ClaimStatement(id) ==
    \/ ExecutionUpdate(id)
    \/ \E at \in Instants, n \in Attempts : replaceJob(id, at, n)
RefStatement(id) == \E ref \in Ref : updateSchedulerRef(id, ref)

\* FOR UPDATE SKIP LOCKED: rows that another claim has locked are passed over,
\* so these need not be the oldest due rows.
claimDueStatement(ids, names) ==
    /\ ids \subseteq DueRows(names)
    /\ UpdateAll(ids, [id \in ids |-> claimDueRow(jobs[id], now)])

\* Without a limit the DELETE tests each row itself.
pruneStatement(olderThan) ==
    Delete({id \in TerminalRows : jobs[id].completedAt < olderThan})

-----------------------------------------------------------------------------
(* deferJob and noteMissingHandler: the CTE reads the row and compares its *)
(* horizon, the UPDATE writes the row if it is still pending at the version *)
(* the caller passed.                                                      *)

BeginMiss(s, id, call) ==
    /\ Present(id) /\ jobs[id].status = "pending"
    /\ Enter(s, [pc |-> call, ids |-> {id}, version |-> jobs[id].version, at |-> now,
                 exceeded |-> now - FirstDefer(jobs[id], now) >= horizonMs])
    /\ UNCHANGED tableVars

\* The comparison is the CTE's; the streak it is written with is the row's.
missRow(job, at, exceeded) ==
    LET noted == [job EXCEPT !.version = @ + 1, !.deferAttempts = @ + 1,
                             !.deferredSince = FirstDefer(job, at)]
    IN  IF exceeded
        THEN [noted EXCEPT !.status = "failed", !.completedAt = at,
                           !.failureReason = "defer_horizon"]
        ELSE noted

\* Mutant: the predicates stand in the CTE only.
JoinedById(id, version) == Present(id)
MissGuard(id, version) == Present(id) /\ IsPendingAt(jobs[id], version)

EndMiss(s, id) ==
    /\ session[s].pc \in {"defer", "note"} /\ session[s].ids = {id}
    /\ Leave(s)
    /\ IF MissGuard(id, session[s].version)
       THEN LET row == missRow(jobs[id], session[s].at, session[s].exceeded)
            IN  \/ session[s].pc = "note" /\ Update(id, row)
                \/ /\ session[s].pc = "defer" /\ ~ session[s].exceeded
                   /\ \E at \in Instants : Update(id, [row EXCEPT !.scheduledFor = at])
                \/ session[s].pc = "defer" /\ session[s].exceeded /\ Update(id, row)
       ELSE UNCHANGED tableVars

-----------------------------------------------------------------------------
(* reclaimStalled and reclaimStalledJobs: one UPDATE for the windows with   *)
(* new events, a second one, later, for every claim that is still stalled.  *)

\* Mutant: the second statement is told which rows the first one passed over.
StillRunning(ids) == {id \in ids : Present(id) /\ jobs[id].status = "running"}
StalledAmong(ids) == StalledRows \cap ids

AdvancedAmong(ids) == {id \in StalledAmong(ids) : VersionAdvanced(jobs[id])}
RequeueAmong(ids) ==
    UpdateAll(AdvancedAmong(ids),
              [id \in AdvancedAmong(ids) |-> requeueForNextWindowRow(jobs[id])])

\* The method for one row returns the row that it requeued.
reclaimOne(s, id) ==
    /\ RequeueAmong({id})
    /\ IF AdvancedAmong({id}) # {}
       THEN session[s] = Idle /\ UNCHANGED session
       ELSE Enter(s, [Idle EXCEPT !.pc = "reclaim", !.ids = {id}])
reclaimAll(s) ==
    /\ RequeueAmong(JobId)
    /\ Enter(s, [Idle EXCEPT !.pc = "reclaim", !.ids = JobId])

\* The version no longer counts: a window that got an event after the first
\* statement is charged an attempt like the rest.
chargeRow(job) ==
    resetDeferFields([job EXCEPT !.status = "pending", !.attempt = @ + 1,
                                 !.startedAt = None, !.claimedVersion = None])
chargeStatement(s) ==
    /\ session[s].pc = "reclaim"
    /\ UpdateAll(StalledAmong(session[s].ids),
                 [id \in StalledAmong(session[s].ids) |-> chargeRow(jobs[id])])
    /\ Leave(s)

-----------------------------------------------------------------------------
(* pruneTerminal with a limit: the subquery finds the ids, and the DELETE   *)
(* tests nothing but the id again.                                         *)

BeginPrune(s, olderThan, ids) ==
    LET found == {id \in TerminalRows : jobs[id].completedAt < olderThan}
    IN  /\ ids # {} /\ ids \subseteq found
        /\ \A id \in ids, other \in found \ ids :
              jobs[id].completedAt <= jobs[other].completedAt
        /\ Enter(s, [Idle EXCEPT !.pc = "prune", !.ids = ids])
        /\ UNCHANGED tableVars
EndPrune(s) ==
    /\ session[s].pc = "prune"
    /\ Delete({id \in session[s].ids : Present(id)})
    /\ Leave(s)

-----------------------------------------------------------------------------
OneStatement ==
    /\ \/ InsertStatement
       \/ \E id \in JobId : Present(id) /\ (EventStatement(id) \/ ClaimStatement(id)
                                            \/ ResetStatement(id) \/ RefStatement(id))
       \/ \E ids \in SUBSET JobId, names \in SUBSET Handler : claimDueStatement(ids, names)
       \/ \E olderThan \in Instants : pruneStatement(olderThan)
       \/ now < MaxTime /\ Tick
    /\ UNCHANGED session

SessionStep(s) ==
    \/ \E id \in JobId, call \in {"defer", "note"} : BeginMiss(s, id, call)
    \/ \E id \in JobId : EndMiss(s, id)
    \/ \E id \in JobId : reclaimOne(s, id)
    \/ reclaimAll(s)
    \/ chargeStatement(s)
    \/ \E olderThan \in Instants, ids \in SUBSET JobId : BeginPrune(s, olderThan, ids)
    \/ EndPrune(s)

Next == (OneStatement \/ \E s \in Session : SessionStep(s)) /\ Bounded'

Spec == Init /\ [][Next]_vars

-----------------------------------------------------------------------------
(* Properties. *)

\* Whatever statements of other sessions commit in between, the fields of each
\* row fit its status: a miss noted on what the CTE read never writes the
\* pending fields or the horizon's failure over a row that was claimed or ended
\* meanwhile (the tests of concurrent misses assert it for one pair of calls).
RowsFitStatus == \A id \in JobId : Present(id) => RowFits(jobs[id])

\* The table of one row.
Row(id) == INSTANCE JobTable WITH
    JobId <- {id}, jobs <- [i \in {id} |-> jobs[i]], issued <- issued \cap {id}, now <- now

\* A miss of the instant at which its transaction began; or the horizon compared for a
\* streak that has ended since, with the version unchanged.
MissOf(s, id) ==
    /\ CanDeferJob(jobs[id], session[s].version)
    /\ LET at == session[s].at
       IN  \/ jobs'[id] = noteMissingHandlerRow(jobs[id], at, horizonMs)
           \/ \E due \in Instants : jobs'[id] = deferJobRow(jobs[id], due, at, horizonMs)
           \/ /\ session[s].exceeded /\ at - FirstDefer(jobs[id], at) < horizonMs
              /\ jobs'[id] = missRow(jobs[id], at, TRUE)

\* A reclaim of a claim whose lease is over at that moment; or the charge for a window
\* that got its first event between the two statements.
ReclaimOf(id) ==
    \/ Row(id)!reclaimStalled(id)
    \/ /\ IsStalled(jobs[id], now, leaseMs) /\ VersionAdvanced(jobs[id])
       /\ jobs'[id] = chargeRow(jobs[id])

\* A prune of a terminal row; or of one that was revived after the subquery.
PruneOf(id) ==
    Row(id)!pruneTerminal({id}) \/ (IsActive(jobs[id]) /\ jobs'[id] = None)

MethodOf(s, id) ==
    \/ session[s].pc \in {"idle", "reclaim"} /\ ReclaimOf(id)
    \/ session[s].pc \in {"defer", "note"} /\ MissOf(s, id)
    \/ session[s].pc = "prune" /\ PruneOf(id)

\* The contract that all stores are tested for, row by row: whatever commits between
\* the statements of a method, what the later one does to a row is what the method of
\* the table does to the row as it is then, in one step, but for the three exceptions
\* named above.  A claim is reclaimed only if its lease is over at that moment,
\* however many claims of the row ended and began since the session read the table.
MethodsStepAsInTable ==
    [][\A id \in JobId, s \in Session :
          jobs'[id] # jobs[id] /\ session'[s] # session[s] => MethodOf(s, id)]_vars

\* A prune deletes terminal rows only: whatever statements of other sessions
\* commit before its DELETE does, no active row goes by its hand.
PruneSparesActive ==
    [][\A s \in Session, id \in JobId :
          session[s].pc = "prune" /\ session'[s] = Idle /\ Present(id) /\ IsActive(jobs[id])
          => jobs'[id] # None]_vars
=============================================================================
