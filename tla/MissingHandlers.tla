--------------------------- MODULE MissingHandlers ---------------------------
(***************************************************************************)
(* Rows whose handler is not registered everywhere: rolling deploys and    *)
(* mixed replicas over one store.                                          *)
(*                                                                         *)
(* A replica claims only rows of its own handlers.  Its sweep lists the    *)
(* due rows of the others, a budget at a time, and notes a miss on each;   *)
(* a webhook delivery that reaches such a replica defers the row.  Both    *)
(* start the row's horizon clock, and past the horizon fail the row.       *)
(*                                                                         *)
(* The unit of time is the interval between two sweeps of one replica: a   *)
(* tick waits until every replica has swept.  Handlers and deliveries are  *)
(* short: a tick waits for those that run.                                 *)
(***************************************************************************)
EXTENDS JobTable, FiniteSets

CONSTANTS
    Replica,
    UNKNOWN_DUE_BUDGET,
    DEFER_INITIAL_MS,
    DEFER_MAX_MS,
    MaxRowVersion,      \* a bound of the model
    LastChange          \* bound: the last instant of a request or a deploy

ASSUME MissingAssumption ==
    /\ None \notin JobId /\ None \notin Job /\ IsFiniteSet(JobId)
    /\ Kinds \subseteq Kind /\ Attempts \subseteq Nat
    /\ horizonMs \in Nat /\ UNKNOWN_DUE_BUDGET \in Nat \ {0}
    /\ DEFER_INITIAL_MS \in Nat /\ DEFER_MAX_MS \in Nat
    /\ MaxRowVersion \in Nat /\ MaxTime \in Nat /\ LastChange \in Nat

VARIABLES
    known,      \* replica -> the handlers it has registered
    orphans,    \* replica -> rows its sweep has listed and not yet noted
    swept,      \* replicas that have swept since the last tick
    defers,     \* deliveries that found no handler and are about to defer
    touched,    \* history: id -> its last insert or claim
    steady      \* history: replica -> when it last restarted or was not complete

fleetVars == <<jobs, issued, now, known, orphans, swept, defers, touched, steady>>

Snapshot == JobId \X Nat

FleetTypeOK ==
    /\ jobs \in [JobId -> Job \cup {None}]
    /\ now \in Time
    /\ known \in [Replica -> SUBSET Handler]
    /\ orphans \in [Replica -> SUBSET Snapshot]
    /\ swept \in SUBSET Replica
    /\ defers \in SUBSET [id : JobId, version : Nat, misses : Nat]
    /\ touched \in [JobId -> Time] /\ steady \in [Replica -> Time]

FleetInit ==
    /\ TableInit
    /\ known \in [Replica -> SUBSET Handler]
    /\ orphans = [r \in Replica |-> {}]
    /\ swept = {} /\ defers = {}
    /\ touched = [id \in JobId |-> 0]
    /\ steady = [r \in Replica |-> 0]

Touch(ids) == touched' = [id \in JobId |-> IF id \in ids THEN now ELSE touched[id]]

\* A replica is complete while it has every handler that any replica has.
Complete(r) == \A other \in Replica : known[other] \subseteq known[r]

-----------------------------------------------------------------------------
(* Orphans of a replica, in the order of the listing. *)

OrphansOf(names) ==
    {id \in JobId : /\ Present(id) /\ IsDue(jobs[id], now)
                    /\ jobs[id].handler \notin names
                    /\ isDebounceSettled(jobs[id], now)}

\* Mutant: the rows that have been due for longest come first.
OldestDueFirst(a, b) == a.scheduledFor < b.scheduledFor
\* deferred_since ASC NULLS FIRST, scheduled_for ASC; ties go by id.
ListedBefore(a, b) ==
    \/ a.deferredSince = None /\ b.deferredSince # None
    \/ /\ a.deferredSince # None /\ b.deferredSince # None
       /\ a.deferredSince < b.deferredSince
    \/ a.deferredSince = b.deferredSince /\ a.scheduledFor < b.scheduledFor

unknownDueJobs(names, limit) ==
    {ids \in SUBSET OrphansOf(names) :
        /\ Cardinality(ids) = Least(limit, Cardinality(OrphansOf(names)))
        /\ \A id \in ids, other \in OrphansOf(names) \ ids :
              ~ ListedBefore(jobs[other], jobs[id])}

-----------------------------------------------------------------------------
(* The sweep of one replica: list, then note each row at the version listed. *)

sweepStalled(r) ==
    /\ r \notin swept /\ orphans[r] = {}
    /\ \E ids \in unknownDueJobs(known[r], UNKNOWN_DUE_BUDGET) :
          orphans' = [orphans EXCEPT ![r] = {<<id, jobs[id].version>> : id \in ids}]
    /\ swept' = swept \cup {r}
    /\ UNCHANGED <<tableVars, known, defers, touched, steady>>

\* Any write since the listing has moved the row on, or claimed or ended it.
applyMissingHandlerHorizon(r, id, version) ==
    /\ <<id, version>> \in orphans[r]
    /\ orphans' = [orphans EXCEPT ![r] = @ \ {<<id, version>>}]
    /\ IF Present(id) /\ CanDeferJob(jobs[id], version) THEN noteMissingHandler(id)
       ELSE UNCHANGED tableVars
    /\ UNCHANGED <<known, swept, defers, touched, steady>>

-----------------------------------------------------------------------------
(* A delivery at a replica that lacks the handler. *)

computeDeferBackoffMs(misses) ==
    IF misses = 0 THEN DEFER_INITIAL_MS
    ELSE Least(DEFER_MAX_MS, DEFER_INITIAL_MS * 2 ^ Least(misses - 1, 32))

\* executeJob reads the row and finds no handler for it.
DeliverUnregistered(r, id) ==
    /\ defers = {}
    /\ id \in OrphansOf(known[r])
    /\ defers' = {[id |-> id, version |-> jobs[id].version,
                   misses |-> jobs[id].deferAttempts + 1]}
    /\ UNCHANGED <<tableVars, known, orphans, swept, touched, steady>>

applyMissingHandlerDefer(d) ==
    /\ d \in defers /\ defers' = defers \ {d}
    /\ IF Present(d.id) /\ CanDeferJob(jobs[d.id], d.version)
       THEN deferJob(d.id, now + computeDeferBackoffMs(d.misses))
       ELSE UNCHANGED tableVars
    /\ UNCHANGED <<known, orphans, swept, touched, steady>>

-----------------------------------------------------------------------------
(* Requests, replicas that have the handler, deploys, time. *)

Request(id) ==
    /\ id \notin issued /\ now <= LastChange
    /\ \E h \in Handler, k \in Key, n \in Attempts :
          createJob(id, NewOnceJob(h, k, now, n, None))
    /\ Touch({id})
    /\ UNCHANGED <<known, orphans, swept, defers, steady>>

Poll(r) ==
    /\ \E ids \in SUBSET DueRows(known[r]) :
          ids # {} /\ claimDueJobs(ids, known[r]) /\ Touch(ids)
    /\ UNCHANGED <<known, orphans, swept, defers, steady>>

EndRun(id) ==
    /\ Present(id)
    /\ \/ markCompleted(id)
       \/ jobs[id].attempt + 1 < jobs[id].maxAttempts
          /\ retryJob(id, jobs[id].attempt + 1, now)
    /\ UNCHANGED <<known, orphans, swept, defers, touched, steady>>

\* A replica restarts, with other handlers; a sweep it was in is cut short.
Deploy(r, names) ==
    /\ names # known[r] /\ now <= LastChange
    /\ known' = [known EXCEPT ![r] = names]
    /\ orphans' = [orphans EXCEPT ![r] = {}]
    /\ swept' = swept \ {r}
    /\ steady' = [q \in Replica |-> IF q = r \/ ~ Complete(q)' THEN now ELSE steady[q]]
    /\ UNCHANGED <<tableVars, defers, touched>>

NextSweep ==
    /\ now < MaxTime /\ defers = {}
    /\ swept = Replica /\ \A r \in Replica : orphans[r] = {}
    /\ \A id \in JobId : Present(id) => jobs[id].status # "running"
    /\ Tick
    /\ swept' = {}
    /\ steady' = [r \in Replica |-> IF Complete(r) THEN steady[r] ELSE now']
    /\ UNCHANGED <<known, orphans, defers, touched>>

-----------------------------------------------------------------------------
FleetBounded == \A id \in JobId : Present(id) => jobs[id].version <= MaxRowVersion

ReplicaStep(r) ==
    \/ sweepStalled(r)
    \/ \E id \in JobId, version \in 1 .. MaxRowVersion :
          applyMissingHandlerHorizon(r, id, version)
    \/ \E id \in JobId : DeliverUnregistered(r, id)
    \/ Poll(r)
    \/ \E names \in SUBSET Handler : Deploy(r, names)

FleetNext ==
    /\ \/ \E r \in Replica : ReplicaStep(r)
       \/ \E d \in defers : applyMissingHandlerDefer(d)
       \/ \E id \in JobId : Request(id) \/ EndRun(id)
       \/ NextSweep
    /\ FleetBounded'

FleetSpec == FleetInit /\ [][FleetNext]_fleetVars

-----------------------------------------------------------------------------
(* Properties. *)

\* The horizon belongs to one streak of misses: a row fails for a missing handler
\* only if nobody has claimed it for the whole horizon, whatever sweeps, deferred
\* deliveries, claims and retries came in between.
ExpiresOnlyUnclaimed ==
    [][\A id \in JobId :
          Present(id) /\ jobs[id].status = "pending" /\ jobs'[id].status = "failed"
          => now - touched[id] >= horizonMs]_fleetVars

\* Orphans do not wait for each other's horizons, although a sweep notes only its
\* budget.  While one replica is complete and lacks the handler of a due row, the
\* row stays pending for its horizon and the sweep that has just gone by, and
\* beyond that for two turns at most of each other row: one that starts the
\* other's horizon clock, and one that ends it.  A replica that is not complete
\* promises nothing: rows that others claim and retry come first in its listing.
HorizonsDoNotQueue ==
    \A id \in JobId, r \in Replica :
        Present(id) /\ jobs[id].status = "pending" /\ jobs[id].handler \notin known[r]
        => LET since == IF steady[r] > jobs[id].scheduledFor
                        THEN steady[r] ELSE jobs[id].scheduledFor
           IN  UNKNOWN_DUE_BUDGET * (now - since - horizonMs - 1)
               <= 2 * (Cardinality(JobId) - 1)
=============================================================================
