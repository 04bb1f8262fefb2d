----------------------------- MODULE FailedPages -----------------------------
(***************************************************************************)
(* Triage of failed rows: a caller walks through listFailed page by page,  *)
(* handing each cursor back, while rows fail, are retried by hand and are  *)
(* pruned.  Pages are newest first by (completedAt, id), and a cursor is   *)
(* the place of the last row of its page.  The stores differ in what they  *)
(* print into it: milliseconds where their clock has milliseconds, the     *)
(* full text of a timestamptz in Postgres.  So time is in units of the     *)
(* store's clock here, and a millisecond is ClockUnits of them.            *)
(*                                                                         *)
(* A filter by handler, reason, since or until picks rows by fields that   *)
(* stay as they are while the row is failed: the rows here are those that  *)
(* match it.  Stores are JobTable.                                         *)
(***************************************************************************)
EXTENDS JobTable, FiniteSets

CONSTANTS
    Limits,         \* page sizes
    ClockUnits,     \* units of the store's clock in a millisecond
    MaxVersion      \* a bound of the model

\* Ids are compared by the cursor, so here they are numbers; null is no cursor.
ASSUME PagesAssumption ==
    /\ JobId \subseteq Nat /\ None \notin JobId
    /\ None \notin [at : Nat, id : JobId]
    /\ Limits \subseteq Nat \ {0} /\ ClockUnits \in Nat \ {0}
    /\ MaxVersion \in Nat /\ MaxTime \in Nat /\ Attempts \subseteq Nat

VARIABLES
    walk,       \* the caller's loop: its page size, cursor, and what it was given
    owed        \* history: failures that have stood since the walk began

vars == <<jobs, issued, now, walk, owed>>

FailedRows ==
    {id \in JobId : Present(id) /\ jobs[id].status = "failed" /\ jobs[id].completedAt # None}

Cursor == [at : Time, id : JobId] \cup {None}
NoWalk == [pc |-> "idle", limit |-> 0, cursor |-> None, page |-> {}, returned |-> {}]

TypeOK ==
    /\ jobs \in [JobId -> Job \cup {None}]
    /\ issued \in SUBSET JobId
    /\ now \in Time
    /\ walk \in [pc : {"idle", "walking", "done"}, limit : Nat, cursor : Cursor,
                 page : SUBSET JobId, returned : SUBSET JobId]
    /\ owed \in SUBSET JobId

Init == TableInit /\ walk = NoWalk /\ owed = {}

-----------------------------------------------------------------------------
(* listFailed *)

\* ORDER BY completed_at DESC, id DESC
Precedes(id, other) ==
    \/ jobs[id].completedAt > jobs[other].completedAt
    \/ jobs[id].completedAt = jobs[other].completedAt /\ id > other

\* Mutants: ties within an instant are all let through; the cursor's own row is.
AfterByTime(id, cursor) == jobs[id].completedAt <= cursor.at
AfterOrAt(id, cursor) ==
    \/ jobs[id].completedAt < cursor.at
    \/ jobs[id].completedAt = cursor.at /\ id <= cursor.id
\* (completed_at, id) < cursor
After(id, cursor) ==
    \/ jobs[id].completedAt < cursor.at
    \/ jobs[id].completedAt = cursor.at /\ id < cursor.id

\* Mutant: a JavaScript Date on the way drops what is finer than a millisecond.
CursorInMs(id) ==
    [at |-> (jobs[id].completedAt \div ClockUnits) * ClockUnits, id |-> id]
CursorOf(id) == [at |-> jobs[id].completedAt, id |-> id]

Matches(cursor) == {id \in FailedRows : cursor # None => After(id, cursor)}

\* LIMIT
FirstOf(ids, limit) ==
    {id \in ids : Cardinality({other \in ids : Precedes(other, id)}) < limit}
LastOf(ids) == CHOOSE id \in ids : \A other \in ids \ {id} : Precedes(other, id)

\* One row more than the limit is asked for, to know whether there is a next page.
listFailed(limit, cursor, returned) ==
    LET matches == Matches(cursor)
        page == FirstOf(matches, limit)
        more == Cardinality(matches) > limit
    IN  walk' = [pc |-> IF more THEN "walking" ELSE "done", limit |-> limit,
                 cursor |-> IF more THEN CursorOf(LastOf(page)) ELSE None,
                 page |-> page, returned |-> returned]

-----------------------------------------------------------------------------
(* The loop of docs/operations.md: ask, hand the cursor back, until it is null. *)

BeginWalk(limit) ==
    /\ walk.pc # "walking"
    /\ listFailed(limit, None, {})
    /\ owed' = FailedRows
    /\ UNCHANGED tableVars

NextPage ==
    /\ walk.pc = "walking"
    /\ listFailed(walk.limit, walk.cursor, walk.returned \cup walk.page)
    /\ UNCHANGED <<owed, jobs, issued, now>>

-----------------------------------------------------------------------------
(* Everybody else. *)

Schedule(id) ==
    \E h \in Handler, k \in Key, n \in Attempts :
        id \notin issued /\ createJob(id, NewOnceJob(h, k, now, n, None))

Claim(id) == IsDue(jobs[id], now) /\ markRunning(id)
Settle(id) == markCompleted(id) \/ markFailed(id, "handler_error")

\* retryJob, or retryFailed for one of its rows.
ManualRetry(id) == resetJob(id, now)

Others ==
    /\ \/ \E id \in JobId :
             \/ ~ Present(id) /\ Schedule(id)
             \/ Present(id) /\ (Claim(id) \/ Settle(id) \/ ManualRetry(id))
       \/ \E ids \in SUBSET TerminalRows : ids # {} /\ pruneTerminal(ids)
       \/ now < MaxTime /\ Tick
    /\ owed' = {id \in owed : /\ jobs'[id] # None /\ jobs'[id].status = "failed"
                              /\ jobs'[id].version = jobs[id].version}
    /\ UNCHANGED walk

Bounded == \A id \in JobId : Present(id) => jobs[id].version <= MaxVersion

Next ==
    /\ (\E limit \in Limits : BeginWalk(limit)) \/ NextPage \/ Others
    /\ Bounded'

Spec == Init /\ [][Next]_vars

\* A caller that has begun the loop goes on with it.
FairSpec == Spec /\ WF_vars(NextPage)

-----------------------------------------------------------------------------
(* Properties. *)

\* "Cursor pagination is stable under concurrent writes" (types.ts): a walk that
\* has ended was given every row that was failed when it began and has
\* not been retried or pruned since, however many share an instant and whatever
\* failed, was revived or was deleted between two pages, the cursor's own row too.
WalkComplete == walk.pc = "done" => owed \subseteq walk.returned \cup walk.page

\* No row is given twice, not even one that was retried and failed again meanwhile:
\* a caller that retries what it is shown does so once for each row.
NothingTwice == walk.page \cap walk.returned = {}

\* The loop ends, although rows go on failing: new failures are newer than any cursor.
WalkEnds == walk.pc = "walking" ~> walk.pc = "done"
=============================================================================
