-------------------------- MODULE ClientCalls_proofs --------------------------
(***************************************************************************)
(* The facade hides its races and keeps its promises, for any number of    *)
(* calls in flight, rows, slots and windows.                               *)
(*                                                                         *)
(* A lost race is explained by where the call stood before: one that found *)
(* the slot taken and then free has seen a row end (RacesSeen).  A due     *)
(* time is owed by a row that is not pending too: a claimed throttle whose *)
(* version has moved on will be due when its window closes, and a row that *)
(* a sweep still holds a backoff for and that waits for a first attempt    *)
(* again was asked for after the sweep took it (PromisesKept).             *)
(***************************************************************************)
EXTENDS ClientCalls, JobTable_proofs

CallFits(state) ==
    /\ state.pc \in {"update", "open", "join"} =>
          state.kind \in Kind \ {"once"} /\ state.wait \in Nat
    /\ state.pc \in {"replace", "cancel"} => state.id \in JobId
CallsFit == \A c \in Client : CallFits(call[c])

RaceSeen(c) ==
    /\ call[c].pc \in {"reread", "join"} => ActiveIds # {} \/ "ended" \in seen[c]
    /\ call[c].pc \in {"reinsert", "dropped", "conflict"} => "ended" \in seen[c]
    /\ call[c].pc = "replace" =>
          \/ Present(call[c].id) /\ jobs[call[c].id].status = "pending"
          \/ seen[c] # {}
    /\ call[c].pc = "race_lost" => seen[c] # {}
RacesSeen == \A c \in Client : RaceSeen(c)

\* The first attempt is due as promised, or will be when the window is requeued.
FirstDue(id) ==
    jobs[id].status = "pending" /\ jobs[id].attempt = 0 =>
        /\ \/ jobs[id].scheduledFor = promised[id].due
           \/ promised[id].raced
           \/ jobs[id].kind = "debounce"
        /\ id \in swept => promised[id].raced
WindowDue(id) ==
    jobs[id].status = "running" /\ jobs[id].version # jobs[id].claimedVersion =>
        /\ jobs[id].kind = "throttle" =>
              jobs[id].firstAt + jobs[id].waitMs = promised[id].due \/ promised[id].raced
        /\ id \in swept => promised[id].raced
PromiseKept(id) == Present(id) => FirstDue(id) /\ WindowDue(id)
PromisesKept == \A id \in JobId : PromiseKept(id)

IInv == TypeOK /\ TableInv /\ CallsFit /\ RacesSeen /\ PromisesKept

Promised == [JobId -> [due : Time, raced : BOOLEAN]]

-----------------------------------------------------------------------------
(* What a call sees of the rows. *)

\* A call in flight that goes on forgets nothing, and notes the end of the last
\* active row and the claim or end of a pending one.
LEMMA CallSees ==
    ASSUME IInv, TableInv', Observe, NEW c \in Client, InFlight(c), call'[c] # NoCall
    PROVE  /\ seen[c] \subseteq seen'[c]
           /\ ActiveIds # {} /\ ActiveIds' = {} => "ended" \in seen'[c]
           /\ \A id \in JobId : Present(id) /\ jobs[id].status = "pending" =>
                 (Present(id) /\ jobs[id].status = "pending")' \/ seen'[c] # {}
    <1>1. seen'[c] = seen[c]
             \cup {"claimed" : id \in {i \in ActiveIds : jobs[i].status = "pending"
                              /\ jobs'[i] # None /\ jobs'[i].status = "running"}}
             \cup {"ended" : id \in {i \in ActiveIds :
                              jobs'[i] = None \/ ~ IsActive(jobs'[i])}}
        BY DEF Observe
    <1>2. ASSUME NEW id \in ActiveIds, id \notin ActiveIds' PROVE "ended" \in seen'[c]
        <2>1. jobs'[id] = None \/ ~ IsActive(jobs'[id])
            BY <1>2 DEF ActiveIds, Present
        <2>2. QED
            BY <1>1, <1>2, <2>1
    <1>3. ASSUME NEW id \in JobId, Present(id), jobs[id].status = "pending"
          PROVE  (Present(id) /\ jobs[id].status = "pending")' \/ seen'[c] # {}
        <2>1. id \in ActiveIds
            BY <1>3 DEF ActiveIds, IsActive, ACTIVE_STATUSES
        <2>2. CASE id \in ActiveIds'
            <3>1. jobs'[id] # None /\ jobs'[id].status \in {"pending", "running"}
                BY <2>2 DEF ActiveIds, Present, IsActive, ACTIVE_STATUSES
            <3>2. jobs'[id].status = "running" => "claimed" \in seen'[c]
                BY <1>1, <1>3, <2>1, <3>1
            <3>3. QED
                BY <3>1, <3>2 DEF Present
        <2>3. QED
            BY <1>2, <2>1, <2>2
    <1>4. QED
        BY <1>1, <1>2, <1>3

\* A call that stands still stays explained.
LEMMA OtherCall ==
    ASSUME IInv, TableInv', Observe, NEW c \in Client, call'[c] = call[c]
    PROVE  RaceSeen(c)'
    <1>1. RaceSeen(c) /\ CallFits(call[c])
        BY DEF IInv, RacesSeen, CallsFit
    <1>2. CASE InFlight(c)
        <2>1. call'[c] # NoCall
            BY <1>2 DEF InFlight, InFlightPcs, NoCall
        <2>2. /\ seen[c] \subseteq seen'[c]
              /\ ActiveIds # {} /\ ActiveIds' = {} => "ended" \in seen'[c]
              /\ \A id \in JobId : Present(id) /\ jobs[id].status = "pending" =>
                    (Present(id) /\ jobs[id].status = "pending")' \/ seen'[c] # {}
            BY <1>2, <2>1, CallSees
        <2>3. QED
            BY <1>1, <2>2 DEF RaceSeen, CallFits
    <1>3. CASE ~ InFlight(c)
        <2>1. seen'[c] = seen[c]
            BY <1>3 DEF Observe
        <2>2. QED
            BY <1>1, <1>3, <2>1 DEF RaceSeen, InFlight, InFlightPcs
    <1>4. QED
        BY <1>2, <1>3

\* What a step has to show for the invariant.
LEMMA StepInv ==
    ASSUME IInv, TableInv', Observe,
           call' \in [Client -> CallState], CallsFit',
           \A c \in Client : call'[c] = call[c] \/ RaceSeen(c)',
           promised' \in Promised, swept' \in SUBSET JobId, PromisesKept'
    PROVE  IInv'
    <1>1. seen' \in [Client -> SUBSET {"claimed", "ended"}]
        <2>1. \A c \in Client : seen[c] \in SUBSET {"claimed", "ended"}
            BY DEF IInv, TypeOK
        <2>2. QED
            BY <2>1 DEF Observe
    <1>2. TypeOK'
        BY <1>1 DEF TypeOK, TableInv, RowsTyped, Promised
    <1>3. RacesSeen'
        BY OtherCall DEF RacesSeen
    <1>4. QED
        BY <1>2, <1>3 DEF IInv

\* A step of one call.
LEMMA CallInv ==
    ASSUME IInv, TableInv', Observe, NEW c \in Client,
           NEW state \in CallState, CallFits(state), call' = [call EXCEPT ![c] = state],
           RaceSeen(c)', promised' \in Promised, swept' = swept, PromisesKept'
    PROVE  IInv'
    <1>1. call'[c] = state /\ \A d \in Client \ {c} : call'[d] = call[d]
        BY DEF IInv, TypeOK
    <1>2. call' \in [Client -> CallState]
        BY DEF IInv, TypeOK
    <1>3. CallsFit'
        BY <1>1 DEF IInv, CallsFit
    <1>4. \A d \in Client : call'[d] = call[d] \/ RaceSeen(d)'
        BY <1>1
    <1>5. swept' \in SUBSET JobId
        BY DEF IInv, TypeOK
    <1>6. QED
        BY <1>2, <1>3, <1>4, <1>5, StepInv

\* One that reads the table, or finds nothing to write.
LEMMA QuietCallInv ==
    ASSUME IInv, Observe, UNCHANGED <<tableVars, promised, swept>>, NEW c \in Client,
           NEW state \in CallState, CallFits(state), call' = [call EXCEPT ![c] = state],
           RaceSeen(c)'
    PROVE  IInv'
    <1>1. jobs' = jobs /\ issued' = issued /\ now' = now
        BY DEF tableVars
    <1>2. TableInv'
        BY <1>1, RowsUntouchedInv DEF IInv, TypeOK
    <1>3. PromisesKept' /\ promised' \in Promised
        BY <1>1 DEF IInv, TypeOK, PromisesKept, PromiseKept, FirstDue, WindowDue, Present,
           Promised
    <1>4. QED
        BY <1>2, <1>3, CallInv

\* A call that moves to a place where no race has to be explained.
Plain(pc) == pc \notin {"reread", "join", "reinsert", "dropped", "conflict",
                        "replace", "race_lost"}

LEMMA PlainCall ==
    ASSUME IInv, NEW c \in Client, NEW state, call' = [call EXCEPT ![c] = state],
           Plain(state.pc)
    PROVE  RaceSeen(c)'
    <1>1. call'[c] = state
        BY DEF IInv, TypeOK
    <1>2. QED
        BY <1>1 DEF RaceSeen, Plain

LEMMA CallStates ==
    ASSUME IInv, NEW c \in Client
    PROVE  /\ call[c] \in CallState /\ NoCall \in CallState /\ CallFits(NoCall)
           /\ Plain("idle") /\ NoCall.pc = "idle" /\ NoCall = [NoCall EXCEPT !.pc = "idle"]
           /\ \A pc \in Lost : /\ [NoCall EXCEPT !.pc = pc] \in CallState
                               /\ CallFits([NoCall EXCEPT !.pc = pc])
                               /\ [NoCall EXCEPT !.pc = pc].pc = pc
           /\ \A pc \in InFlightPcs : /\ [call[c] EXCEPT !.pc = pc] \in CallState
                                      /\ [call[c] EXCEPT !.pc = pc].pc = pc
                                      /\ [call[c] EXCEPT !.pc = pc].kind = call[c].kind
                                      /\ [call[c] EXCEPT !.pc = pc].wait = call[c].wait
    <1>1. call[c] \in CallState
        BY DEF IInv, TypeOK
    <1>2. NoCall \in CallState /\ CallFits(NoCall) /\ NoCall.pc = "idle"
        <2>1. NoCall \in CallState
            BY DEF NoCall, CallState, Time, TimeOrNull
        <2>2. NoCall.pc = "idle"
            BY DEF NoCall
        <2>3. QED
            BY <2>1, <2>2 DEF CallFits
    <1>3. NoCall = [NoCall EXCEPT !.pc = "idle"]
        BY <1>2 DEF CallState
    <1>4. \A pc \in Lost : /\ [NoCall EXCEPT !.pc = pc] \in CallState
                           /\ CallFits([NoCall EXCEPT !.pc = pc])
                           /\ [NoCall EXCEPT !.pc = pc].pc = pc
        BY <1>2 DEF NoCall, CallState, CallFits, Lost
    <1>5. \A pc \in InFlightPcs : /\ [call[c] EXCEPT !.pc = pc] \in CallState
                                  /\ [call[c] EXCEPT !.pc = pc].pc = pc
                                  /\ [call[c] EXCEPT !.pc = pc].kind = call[c].kind
                                  /\ [call[c] EXCEPT !.pc = pc].wait = call[c].wait
        BY <1>1 DEF CallState
    <1>6. QED
        BY <1>1, <1>2, <1>3, <1>4, <1>5 DEF Plain

-----------------------------------------------------------------------------
(* Steps of a call that write nothing. *)

Quiet == UNCHANGED <<tableVars, promised, swept>>

LEMMA QuietFacts ==
    ASSUME Quiet
    PROVE  /\ jobs' = jobs /\ ActiveIds' = ActiveIds
           /\ \A id : Present(id)' = Present(id)
    BY DEF Quiet, tableVars, ActiveIds, Present

LEMMA QuietPlainInv ==
    ASSUME IInv, Observe, Quiet, NEW c \in Client,
           NEW state \in CallState, CallFits(state), Plain(state.pc),
           call' = [call EXCEPT ![c] = state]
    PROVE  IInv'
    BY PlainCall, QuietCallInv DEF Quiet

LEMMA QuietReturnInv ==
    ASSUME IInv, Observe, Quiet, NEW c \in Client, Return(c, "idle")
    PROVE  IInv'
    BY CallStates, QuietPlainInv DEF Return

\* A call in flight that goes on to pc, or returns with a lost race.
LEMMA QuietMoveInv ==
    ASSUME IInv, Observe, Quiet, NEW c \in Client, InFlight(c),
           NEW state \in CallState, CallFits(state), call' = [call EXCEPT ![c] = state],
           state.pc # "idle",
           state.pc \in {"reread", "join"} => ActiveIds # {} \/ "ended" \in seen[c],
           state.pc \in {"reinsert", "dropped", "conflict"} => "ended" \in seen[c],
           state.pc = "replace" =>
              \/ Present(state.id) /\ jobs[state.id].status = "pending"
              \/ seen[c] # {},
           state.pc = "race_lost" => seen[c] # {}
    PROVE  IInv'
    <1>1. call'[c] = state
        BY DEF IInv, TypeOK
    <1>2. call'[c] # NoCall
        BY <1>1 DEF NoCall
    <1>3. TableInv'
        BY RowsUntouchedInv DEF IInv, TypeOK, Quiet, tableVars
    <1>4. seen[c] \subseteq seen'[c]
        BY <1>2, <1>3, CallSees
    <1>5. RaceSeen(c)'
        BY <1>1, <1>4, QuietFacts DEF RaceSeen
    <1>6. QED
        BY <1>5, QuietCallInv DEF Quiet

LEMMA BeginScheduleInv ==
    ASSUME IInv, Observe, UNCHANGED swept, NEW c \in Client,
           NEW delay \in Delays, NEW replace \in BOOLEAN, BeginSchedule(c, delay, replace)
    PROVE  IInv'
    <1> DEFINE state == [NoCall EXCEPT !.pc = "read", !.replace = replace,
                                       !.kind = "once", !.at = now + delay]
    <1>1. Quiet /\ "once" \in Kinds /\ call' = [call EXCEPT ![c] = state]
        BY DEF BeginSchedule, Begin, NoRequest, Quiet
    <1>2. now + delay \in Time
        BY ClientAssumption DEF IInv, TypeOK, Time
    <1>3. state \in CallState /\ state.pc = "read"
        <2>1. NoCall \in CallState
            BY CallStates
        <2>2. QED
            BY <1>1, <1>2, <2>1 DEF CallState, InFlightPcs
    <1> HIDE DEF state
    <1>4. CallFits(state) /\ Plain(state.pc)
        BY <1>3 DEF CallFits, Plain
    <1>5. QED
        BY <1>1, <1>3, <1>4, QuietPlainInv

LEMMA BeginEventInv ==
    ASSUME IInv, Observe, UNCHANGED swept, NEW c \in Client, NEW kind \in Kinds,
           NEW wait \in Waits, NEW maxWait \in MaxWaits \cup {None},
           BeginEvent(c, kind, wait, maxWait)
    PROVE  IInv'
    <1> DEFINE state == [NoCall EXCEPT !.pc = "update", !.kind = kind, !.at = now,
                                       !.wait = wait, !.maxWait = maxWait]
    <1>1. Quiet /\ kind # "once" /\ call' = [call EXCEPT ![c] = state]
        BY DEF BeginEvent, Begin, NoRequest, Quiet
    <1>2. /\ now \in Time /\ wait \in Nat /\ wait \in TimeOrNull /\ maxWait \in TimeOrNull
          /\ kind \in Kind
        BY ClientAssumption DEF IInv, TypeOK, Time, TimeOrNull
    <1>3. /\ state \in CallState /\ state.pc = "update"
          /\ state.kind = kind /\ state.wait = wait
        <2>1. NoCall \in CallState
            BY CallStates
        <2>2. QED
            BY <1>2, <2>1 DEF CallState, InFlightPcs
    <1> HIDE DEF state
    <1>4. CallFits(state) /\ Plain(state.pc)
        BY <1>1, <1>2, <1>3 DEF CallFits, Plain
    <1>5. QED
        BY <1>1, <1>3, <1>4, QuietPlainInv

LEMMA BeginCancelInv ==
    ASSUME IInv, Observe, UNCHANGED swept, NEW c \in Client, NEW id \in JobId, BeginCancel(c, id)
    PROVE  IInv'
    <1> DEFINE state == [NoCall EXCEPT !.pc = "cancel", !.id = id]
    <1>1. Quiet /\ call' = [call EXCEPT ![c] = state]
        BY DEF BeginCancel, Begin, NoRequest, Quiet
    <1>2. state \in CallState /\ state.pc = "cancel" /\ state.id = id
        <2>1. NoCall \in CallState
            BY CallStates
        <2>2. QED
            BY <2>1 DEF CallState, InFlightPcs
    <1> HIDE DEF state
    <1>3. CallFits(state) /\ Plain(state.pc)
        BY <1>2 DEF CallFits, Plain
    <1>4. QED
        BY <1>1, <1>2, <1>3, QuietPlainInv

LEMMA BeginRetryFailedInv ==
    ASSUME IInv, Observe, UNCHANGED swept, NEW c \in Client, BeginRetryFailed(c)
    PROVE  IInv'
    <1> DEFINE failed == {id \in JobId : Present(id) /\ jobs[id].status = "failed"}
               listed == {<<id, jobs[id].version>> : id \in failed}
               state == [NoCall EXCEPT !.pc = "redrive", !.listed = listed]
    <1>1. Quiet /\ call' = [call EXCEPT ![c] = state]
        BY DEF BeginRetryFailed, Begin, NoRequest, Quiet
    <1>2. \A id \in failed : id \in JobId /\ jobs[id].version \in Nat
        BY PresentRow DEF IInv, Job
    <1>3. listed \in SUBSET (JobId \X Nat)
        BY <1>2
    <1> HIDE DEF listed
    <1>4. state \in CallState /\ state.pc = "redrive"
        <2>1. NoCall \in CallState
            BY CallStates
        <2>2. QED
            BY <1>3, <2>1 DEF CallState, InFlightPcs
    <1> HIDE DEF state
    <1>5. CallFits(state) /\ Plain(state.pc)
        BY <1>4 DEF CallFits, Plain
    <1>6. QED
        BY <1>1, <1>4, <1>5, QuietPlainInv

\* What the call does with a row it has read, and with none.
LEMMA ReadInv ==
    ASSUME IInv, Observe, UNCHANGED swept, NEW c \in Client, Read(c)
    PROVE  IInv'
    <1>1. Quiet /\ InFlight(c) /\ RaceSeen(c)
        BY DEF Read, NoRequest, Quiet, InFlight, InFlightPcs, IInv, RacesSeen
    <1>2. ASSUME NEW id \in ActiveIds, handleExistingOnce(c, id) PROVE IInv'
        <2>1. CASE Return(c, "idle")
            BY <1>1, <2>1, QuietReturnInv
        <2>2. CASE /\ jobs[id].status = "pending"
                   /\ call' = [call EXCEPT ![c].pc = "replace", ![c].id = id]
            <3> DEFINE state == [call[c] EXCEPT !.pc = "replace", !.id = id]
            <3>1. call[c] \in CallState /\ id \in JobId /\ Present(id)
                BY CallStates DEF ActiveIds
            <3>2. /\ call' = [call EXCEPT ![c] = state]
                  /\ state \in CallState /\ state.pc = "replace" /\ state.id = id
                BY <2>2, <3>1 DEF CallState, InFlightPcs, IInv, TypeOK
            <3> HIDE DEF state
            <3>3. CallFits(state)
                BY <3>1, <3>2 DEF CallFits
            <3>4. QED
                BY <1>1, <2>2, <3>1, <3>2, <3>3, QuietMoveInv
        <2>3. QED
            BY <1>2, <2>1, <2>2 DEF handleExistingOnce
    <1>3. ASSUME ActiveIds = {}, Goto(c, IF call[c].pc = "read" THEN "insert" ELSE "reinsert")
          PROVE  IInv'
        <2> DEFINE pc == IF call[c].pc = "read" THEN "insert" ELSE "reinsert"
                   state == [call[c] EXCEPT !.pc = pc]
        <2>1. pc \in InFlightPcs /\ pc \in {"insert", "reinsert"}
            BY DEF InFlightPcs
        <2>2. pc = "reinsert" => "ended" \in seen[c]
            BY <1>1, <1>3 DEF Read, RaceSeen
        <2> HIDE DEF pc
        <2>3. /\ call' = [call EXCEPT ![c] = state] /\ state \in CallState /\ state.pc = pc
            BY <1>3, <2>1, CallStates DEF Goto, IInv, TypeOK, pc
        <2> HIDE DEF state
        <2>4. CallFits(state)
            BY <2>1, <2>3 DEF CallFits
        <2>5. QED
            BY <1>1, <2>1, <2>2, <2>3, <2>4, QuietMoveInv
    <1>4. QED
        BY <1>2, <1>3 DEF Read

-----------------------------------------------------------------------------
(* Promises. *)

\* A statement on one row, and perhaps a request for it, leaves the promises of
\* the other rows alone.
LEMMA OnePromise ==
    ASSUME IInv, NEW id \in JobId, PromiseKept(id)',
           \A other \in JobId \ {id} :
              /\ jobs'[other] = jobs[other]
              /\ promised'[other] = promised[other]
              /\ other \in swept' <=> other \in swept
    PROVE  PromisesKept'
    <1>1. ASSUME NEW other \in JobId \ {id} PROVE PromiseKept(other)'
        BY <1>1 DEF IInv, PromisesKept, PromiseKept, FirstDue, WindowDue, Present
    <1>2. QED
        BY <1>1 DEF PromisesKept

\* What accepting a request writes.
LEMMA Accepted ==
    ASSUME IInv, NEW id \in JobId, NEW due \in Time, Accept(id, due)
    PROVE  /\ promised' \in Promised /\ promised'[id].due = due
           /\ promised'[id].raced <=> id \in swept
           /\ \A other \in JobId \ {id} : promised'[other] = promised[other]
    <1> DEFINE raced == id \in swept
               promise == [due |-> due, raced |-> raced]
    <1>1. promised' = [promised EXCEPT ![id] = promise] /\ promised \in Promised
        BY DEF Accept, IInv, TypeOK, Promised
    <1>2. raced \in BOOLEAN
        OBVIOUS
    <1> HIDE DEF raced
    <1>3. promise \in [due : Time, raced : BOOLEAN] /\ promise.due = due /\ promise.raced = raced
        BY <1>2
    <1> HIDE DEF promise
    <1>4. promised' \in Promised /\ promised'[id] = promise
        BY <1>1, <1>3 DEF Promised
    <1>5. promised'[id].raced = raced /\ promised'[id].due = due
        BY <1>3, <1>4
    <1>6. promised'[id].raced <=> id \in swept
        BY <1>5, Zenon DEF raced
    <1>7. \A other \in JobId \ {id} : promised'[other] = promised[other]
        BY <1>1 DEF Promised
    <1>8. QED
        BY <1>4, <1>5, <1>6, <1>7

\* A row that waits for its first attempt since a request that has been accepted.
LEMMA AcceptedPending ==
    ASSUME IInv, NEW id \in JobId, NEW due \in Time, Accept(id, due), UNCHANGED swept,
           NEW row, jobs' = [jobs EXCEPT ![id] = row],
           row.status = "pending", row.scheduledFor = due
    PROVE  PromisesKept' /\ promised' \in Promised
    <1>1. promised' \in Promised /\ promised'[id].due = due
          /\ (promised'[id].raced <=> id \in swept)
        BY Accepted
    <1>2. jobs'[id] = row
        BY DEF IInv, TypeOK
    <1>3. PromiseKept(id)'
        BY <1>1, <1>2 DEF PromiseKept, FirstDue, WindowDue
    <1>4. \A other \in JobId \ {id} :
             /\ jobs'[other] = jobs[other] /\ promised'[other] = promised[other]
             /\ other \in swept' <=> other \in swept
        BY DEF Accept, IInv, TypeOK
    <1>5. QED
        BY <1>1, <1>3, <1>4, OnePromise

\* A row that a statement leaves neither waiting nor running owes nothing.
LEMMA NothingOwed ==
    ASSUME IInv, NEW id \in JobId, NEW row, Update(id, row), UNCHANGED promised,
           \A other \in JobId \ {id} : other \in swept' <=> other \in swept,
           row.status # "pending" \/ (row.attempt # 0 /\ row.attempt \in Nat),
           row.status # "running"
    PROVE  PromisesKept' /\ promised' \in Promised
    <1>1. jobs'[id] = row /\ \A other \in JobId \ {id} : jobs'[other] = jobs[other]
        BY DEF IInv, TypeOK, Update
    <1>2. PromiseKept(id)'
        BY <1>1 DEF PromiseKept, FirstDue, WindowDue
    <1>3. QED
        BY <1>1, <1>2, OnePromise DEF IInv, TypeOK, Promised

\* An event of a window: while its row runs, the promise is the next window's.
LEMMA EventPromise ==
    ASSUME IInv, NEW id \in JobId, Present(id), IsPattern(jobs[id]), IsActive(jobs[id]),
           NEW at \in Time, Update(id, updatePatternEventRow(jobs[id], at)),
           IF jobs[id].status = "running"
           THEN Accept(id, computePatternDueAt(updatePatternEventRow(jobs[id], at)))
           ELSE UNCHANGED promised,
           computePatternDueAt(updatePatternEventRow(jobs[id], at)) \in Time,
           UNCHANGED swept
    PROVE  PromisesKept' /\ promised' \in Promised
    <1> DEFINE job == jobs[id]
               window == updatePatternEventRow(job, at)
    <1>1. job \in Job /\ PromiseKept(id)
        BY PresentRow DEF IInv, PromisesKept
    <1>2. jobs'[id] = window /\ \A other \in JobId \ {id} : jobs'[other] = jobs[other]
        BY DEF IInv, TypeOK, Update
    <1>3. /\ window.status = job.status /\ window.attempt = job.attempt
          /\ window.scheduledFor = job.scheduledFor /\ window.kind = job.kind
          /\ window.waitMs = job.waitMs
        BY <1>1 DEF updatePatternEventRow, Job
    <1>4. window.kind = "throttle" => computePatternDueAt(window) = window.firstAt + window.waitMs
        BY DEF computePatternDueAt
    <1>5. CASE job.status = "running"
        <2>1. /\ promised' \in Promised /\ promised'[id].due = computePatternDueAt(window)
              /\ (promised'[id].raced <=> id \in swept)
              /\ \A other \in JobId \ {id} : promised'[other] = promised[other]
            BY <1>5, Accepted
        <2> HIDE DEF window
        <2>2. PromiseKept(id)'
            BY <1>2, <1>3, <1>4, <1>5, <2>1 DEF PromiseKept, FirstDue, WindowDue
        <2>3. QED
            BY <1>2, <2>1, <2>2, OnePromise
    <1>6. CASE job.status = "pending"
        <2>1. promised' = promised
            BY <1>6
        <2> HIDE DEF window
        <2>2. PromiseKept(id)'
            BY <1>1, <1>2, <1>3, <1>6, <2>1 DEF PromiseKept, FirstDue, WindowDue, Present
        <2>3. QED
            BY <1>2, <2>1, <2>2, OnePromise DEF IInv, TypeOK, Promised
    <1>7. QED
        BY <1>5, <1>6 DEF IsActive, ACTIVE_STATUSES

\* The next window of a row whose version moved on during its claim.
LEMMA NextWindowPromise ==
    ASSUME IInv, NEW id \in JobId, Present(id), jobs[id].status = "running",
           IsPattern(jobs[id]), jobs[id].version # jobs[id].claimedVersion,
           jobs'[id] = requeueForNextWindowRow(jobs[id]), promised' = promised,
           id \in swept' => id \in swept
    PROVE  PromiseKept(id)'
    <1> DEFINE job == jobs[id]
               window == requeueForNextWindowRow(job)
    <1>1. job \in Job /\ WindowDue(id)
        BY PresentRow DEF IInv, PromisesKept, PromiseKept
    <1>2. /\ window.status = "pending" /\ window.kind = job.kind
          /\ window.scheduledFor = computePatternDueAt(job)
        BY <1>1 DEF requeueForNextWindowRow, retryJobRow, resetDeferFields, Job
    <1>3. \/ job.kind = "throttle" /\ computePatternDueAt(job) = job.firstAt + job.waitMs
          \/ job.kind = "debounce"
        BY <1>1 DEF computePatternDueAt, IsPattern, Job, Kind
    <1> HIDE DEF window
    <1>4. jobs'[id] = window
        BY DEF window
    <1>5. /\ window.scheduledFor = promised[id].due \/ promised[id].raced
             \/ window.kind = "debounce"
          /\ id \in swept => promised[id].raced
        BY <1>1, <1>2, <1>3 DEF WindowDue
    <1>6. QED
        BY <1>2, <1>4, <1>5 DEF PromiseKept, FirstDue, WindowDue

-----------------------------------------------------------------------------
(* Steps of a call that write. *)

LEMMA WroteInv ==
    ASSUME IInv, Observe, NEW c \in Client, Return(c, "idle"), UNCHANGED swept,
           TableInv', PromisesKept', promised' \in Promised
    PROVE  IInv'
    <1>1. /\ call' = [call EXCEPT ![c] = NoCall] /\ NoCall \in CallState
          /\ CallFits(NoCall) /\ Plain(NoCall.pc)
        BY CallStates DEF Return
    <1>2. RaceSeen(c)'
        BY <1>1, PlainCall
    <1>3. QED
        BY <1>1, <1>2, CallInv

\* An INSERT of a row that the call asks for.
LEMMA InsertedInv ==
    ASSUME IInv, Observe, NEW c \in Client, Return(c, "idle"), UNCHANGED swept,
           NEW id \in JobId, NEW row \in Job, RowFits(row), row.status = "pending",
           createJob(id, row), Accept(id, row.scheduledFor)
    PROVE  IInv'
    <1>1. /\ SlotFree(row, id) /\ jobs' = [jobs EXCEPT ![id] = row]
          /\ issued' = issued \cup {id} /\ now' = now
        BY DEF createJob
    <1>2. issued' \in SUBSET JobId
        BY <1>1 DEF IInv, TypeOK
    <1>3. TableInv'
        BY <1>1, <1>2, PutInv DEF IInv
    <1>4. row.scheduledFor \in Time
        BY DEF Job
    <1>5. PromisesKept' /\ promised' \in Promised
        BY <1>1, <1>4, AcceptedPending
    <1>6. QED
        BY <1>3, <1>5, WroteInv

LEMMA InsertCallInv ==
    ASSUME IInv, Observe, UNCHANGED swept, NEW c \in Client, Insert(c)
    PROVE  IInv'
    <1>1. call[c] \in CallState /\ InFlight(c) /\ RaceSeen(c) /\ call[c].at \in Time
        BY CallStates DEF Insert, InFlight, InFlightPcs, IInv, RacesSeen, CallState
    <1>2. CASE \E id \in JobId, h \in Handler, k \in Key, n \in Attempts :
                  /\ ~ Present(id)
                  /\ createJob(id, NewOnceJob(h, k, call[c].at, n, None))
                  /\ Accept(id, call[c].at)
                  /\ Return(c, "idle")
        <2>1. PICK id \in JobId, h \in Handler, k \in Key, n \in Attempts :
                  /\ createJob(id, NewOnceJob(h, k, call[c].at, n, None))
                  /\ Accept(id, call[c].at)
                  /\ Return(c, "idle")
            BY <1>2
        <2> DEFINE row == NewOnceJob(h, k, call[c].at, n, None)
        <2>2. row \in Job /\ RowFits(row)
            BY <1>1, ClientAssumption, NewOnceJobFits
        <2>3. row.status = "pending" /\ row.scheduledFor = call[c].at
            BY DEF NewOnceJob, NewJob
        <2>4. createJob(id, row)
            BY <2>1
        <2> HIDE DEF row
        <2>5. QED
            BY <2>1, <2>2, <2>3, <2>4, InsertedInv
    <1>3. CASE /\ ActiveIds # {}
               /\ IF call[c].pc = "insert" THEN Goto(c, "reread") ELSE Return(c, "conflict")
               /\ NoRequest /\ UNCHANGED tableVars
        <2>1. Quiet
            BY <1>3 DEF NoRequest, Quiet
        <2>2. CASE call[c].pc = "insert"
            <3> DEFINE state == [call[c] EXCEPT !.pc = "reread"]
            <3>1. /\ call' = [call EXCEPT ![c] = state] /\ state \in CallState
                  /\ state.pc = "reread"
                BY <1>3, <2>2, CallStates DEF Goto, IInv, TypeOK, InFlightPcs
            <3> HIDE DEF state
            <3>2. CallFits(state)
                BY <3>1 DEF CallFits
            <3>3. QED
                BY <1>1, <1>3, <2>1, <3>1, <3>2, QuietMoveInv
        <2>3. CASE call[c].pc # "insert"
            <3> DEFINE state == [NoCall EXCEPT !.pc = "conflict"]
            <3>1. /\ call' = [call EXCEPT ![c] = state] /\ state \in CallState
                  /\ state.pc = "conflict" /\ CallFits(state)
                BY <1>3, <2>3, CallStates DEF Return, Lost
            <3>2. "ended" \in seen[c]
                BY <1>1, <2>3 DEF Insert, RaceSeen
            <3> HIDE DEF state
            <3>3. QED
                BY <1>1, <2>1, <3>1, <3>2, QuietMoveInv
        <2>4. QED
            BY <2>2, <2>3
    <1>4. QED
        BY <1>2, <1>3 DEF Insert

LEMMA ReplaceCallInv ==
    ASSUME IInv, Observe, UNCHANGED swept, NEW c \in Client, Replace(c)
    PROVE  IInv'
    <1> DEFINE id == call[c].id
    <1>1. /\ call[c].pc = "replace" /\ id \in JobId /\ call[c].at \in Time
          /\ InFlight(c) /\ RaceSeen(c)
        BY CallStates
           DEF Replace, InFlight, InFlightPcs, IInv, RacesSeen, CallsFit, CallFits, CallState
    <1>2. CASE Present(id) /\ CanReplaceJob(jobs[id])
        <2>1. PICK n \in Attempts : replaceJob(id, call[c].at, n)
            BY <1>2 DEF Replace
        <2>2. Accept(id, call[c].at) /\ Return(c, "idle")
            BY <1>2 DEF Replace
        <2> DEFINE row == replaceJobRow(jobs[id], call[c].at, n)
        <2>3. jobs[id] \in Job /\ RowFits(jobs[id]) /\ n \in Nat
            BY <1>1, <1>2, PresentRow, ClientAssumption DEF IInv
        <2>4. Keeps(jobs[id], row)
            BY <1>1, <1>2, <2>3, ReplaceKeeps
        <2>5. row.status = "pending" /\ row.scheduledFor = call[c].at
            BY <1>2, <2>3 DEF replaceJobRow, resetDeferFields, CanReplaceJob, Job
        <2>6. Update(id, row)
            BY <2>1 DEF replaceJob
        <2> HIDE DEF row
        <2>7. TableInv'
            BY <1>1, <1>2, <2>4, <2>6, UpdateInv DEF IInv
        <2>8. PromisesKept' /\ promised' \in Promised
            BY <1>1, <2>2, <2>5, <2>6, AcceptedPending DEF Update
        <2>9. QED
            BY <2>2, <2>7, <2>8, WroteInv
    <1>3. CASE ~ (Present(id) /\ CanReplaceJob(jobs[id]))
        <2>1. Return(c, "race_lost") /\ Quiet
            BY <1>3 DEF Replace, NoRequest, Quiet
        <2> DEFINE state == [NoCall EXCEPT !.pc = "race_lost"]
        <2>2. /\ call' = [call EXCEPT ![c] = state] /\ state \in CallState
              /\ state.pc = "race_lost" /\ CallFits(state)
            BY <2>1, CallStates DEF Return, Lost
        <2>3. seen[c] # {}
            BY <1>1, <1>3 DEF RaceSeen, CanReplaceJob
        <2> HIDE DEF state
        <2>4. QED
            BY <1>1, <2>1, <2>2, <2>3, QuietMoveInv
    <1>4. QED
        BY <1>2, <1>3

LEMMA PatternEventInv ==
    ASSUME IInv, Observe, UNCHANGED swept, NEW c \in Client,
           call[c].pc \in {"update", "join"}, PatternEvent(c)
    PROVE  IInv'
    <1>1. call[c].kind \in Kind \ {"once"} /\ call[c].at \in Time
        BY CallStates DEF IInv, CallsFit, CallFits, CallState
    <1>2. PICK id \in ActiveIds :
             \/ RecordEvent(c, id)
             \/ Return(c, "idle") /\ NoRequest /\ UNCHANGED tableVars
        BY DEF PatternEvent
    <1>3. id \in JobId /\ Present(id) /\ IsActive(jobs[id])
        BY DEF ActiveIds
    <1>4. CASE RecordEvent(c, id)
        <2> DEFINE window == updatePatternEventRow(jobs[id], call[c].at)
        <2>1. /\ CanUpdatePatternEvent(jobs[id], call[c].kind, call[c].wait, call[c].maxWait)
              /\ Update(id, window)
              /\ IF jobs[id].status = "running"
                 THEN Accept(id, computePatternDueAt(window)) ELSE UNCHANGED promised
              /\ Return(c, "idle")
            BY <1>4 DEF RecordEvent, updatePatternEvent, NoRequest
        <2>2. jobs[id] \in Job /\ RowFits(jobs[id])
            BY <1>3, PresentRow DEF IInv
        <2>3. Keeps(jobs[id], window)
            BY <1>1, <2>1, <2>2, PatternEventKeeps
        <2>4. IsPattern(jobs[id])
            BY <1>1, <2>1 DEF CanUpdatePatternEvent, IsPattern
        <2>5. computePatternDueAt(window) \in Time
            BY <2>3, <2>4, DueAtType DEF Keeps, RowFits, SameSlot, IsPattern
        <2>6. PromisesKept' /\ promised' \in Promised
            BY <1>1, <1>3, <2>1, <2>4, <2>5, EventPromise
        <2> HIDE DEF window
        <2>7. TableInv'
            BY <1>3, <2>1, <2>3, UpdateInv DEF IInv
        <2>8. QED
            BY <2>1, <2>6, <2>7, WroteInv
    <1>5. CASE Return(c, "idle") /\ NoRequest /\ UNCHANGED tableVars
        BY <1>5, QuietReturnInv DEF Quiet, NoRequest
    <1>6. QED
        BY <1>2, <1>4, <1>5

LEMMA UpdateWindowInv ==
    ASSUME IInv, Observe, UNCHANGED swept, NEW c \in Client, UpdateWindow(c)
    PROVE  IInv'
    <1>1. CASE PatternEvent(c)
        BY <1>1, PatternEventInv DEF UpdateWindow
    <1>2. CASE NoWindowFound(c, Goto(c, "open"))
        <2> DEFINE state == [call[c] EXCEPT !.pc = "open"]
        <2>1. Quiet /\ call[c].pc = "update" /\ Goto(c, "open")
            BY <1>2 DEF NoWindowFound, NoRequest, Quiet, UpdateWindow
        <2>2. /\ call' = [call EXCEPT ![c] = state] /\ state \in CallState
              /\ state.pc = "open" /\ state.kind = call[c].kind /\ state.wait = call[c].wait
            BY <2>1, CallStates DEF Goto, IInv, TypeOK, InFlightPcs
        <2> HIDE DEF state
        <2>3. CallFits(state) /\ Plain(state.pc)
            BY <2>1, <2>2 DEF CallFits, IInv, CallsFit, Plain
        <2>4. QED
            BY <2>1, <2>2, <2>3, QuietPlainInv
    <1>3. QED
        BY <1>1, <1>2 DEF UpdateWindow

LEMMA OpenWindowInv ==
    ASSUME IInv, Observe, UNCHANGED swept, NEW c \in Client, OpenWindow(c)
    PROVE  IInv'
    <1> DEFINE kind == call[c].kind
               wait == call[c].wait
               Row(h, k, n) == NewPatternJob(h, k, n, None,
                                   NewWindow(kind, call[c].at, wait, call[c].maxWait))
    <1>1. /\ call[c].pc = "open" /\ InFlight(c) /\ RaceSeen(c)
          /\ kind \in Kind \ {"once"} /\ wait \in Nat
          /\ call[c].maxWait \in Nat \cup {None} /\ call[c].at \in Time
        <2>1. call[c].pc = "open" /\ call[c] \in CallState /\ CallFits(call[c]) /\ RaceSeen(c)
            BY CallStates DEF OpenWindow, IInv, RacesSeen, CallsFit
        <2>2. call[c].maxWait \in Nat \cup {None} /\ call[c].at \in Time
            BY <2>1 DEF CallState, TimeOrNull, Time
        <2>3. QED
            BY <2>1, <2>2 DEF CallFits, InFlight, InFlightPcs
    <1>2. CASE \E id \in JobId, h \in Handler, k \in Key, n \in Attempts :
                  /\ createJob(id, Row(h, k, n))
                  /\ Accept(id, Row(h, k, n).scheduledFor) /\ Return(c, "idle")
        <2>1. PICK id \in JobId, h \in Handler, k \in Key, n \in Attempts :
                  /\ createJob(id, Row(h, k, n))
                  /\ Accept(id, Row(h, k, n).scheduledFor) /\ Return(c, "idle")
            BY <1>2
        <2> DEFINE row == Row(h, k, n)
        <2>2. row \in Job /\ RowFits(row)
            <3>1. n \in Nat
                BY ClientAssumption
            <3>2. QED
                BY <1>1, <3>1, NewPatternJobFits
        <2>3. row.status = "pending"
            BY DEF NewPatternJob, NewJob
        <2>4. createJob(id, row) /\ Accept(id, row.scheduledFor)
            BY <2>1
        <2> HIDE DEF row
        <2>5. QED
            BY <2>1, <2>2, <2>3, <2>4, InsertedInv
    <1>3. CASE ActiveIds # {} /\ Goto(c, "join") /\ NoRequest /\ UNCHANGED tableVars
        <2> DEFINE state == [call[c] EXCEPT !.pc = "join"]
        <2>1. Quiet
            BY <1>3 DEF NoRequest, Quiet
        <2>2. /\ call' = [call EXCEPT ![c] = state] /\ state \in CallState
              /\ state.pc = "join" /\ state.kind = kind /\ state.wait = wait
            BY <1>3, CallStates DEF Goto, IInv, TypeOK, InFlightPcs
        <2> HIDE DEF state
        <2>3. CallFits(state)
            BY <1>1, <2>2 DEF CallFits
        <2>4. QED
            BY <1>1, <1>3, <2>1, <2>2, <2>3, QuietMoveInv
    <1>4. QED
        BY <1>2, <1>3 DEF OpenWindow

LEMMA JoinWindowInv ==
    ASSUME IInv, Observe, UNCHANGED swept, NEW c \in Client, JoinWindow(c)
    PROVE  IInv'
    <1>1. CASE PatternEvent(c)
        BY <1>1, PatternEventInv DEF JoinWindow
    <1>2. CASE NoWindowFound(c, Return(c, "dropped"))
        <2> DEFINE state == [NoCall EXCEPT !.pc = "dropped"]
        <2>1. /\ Quiet /\ ActiveIds = {} /\ Return(c, "dropped")
              /\ call[c].pc = "join" /\ InFlight(c) /\ RaceSeen(c)
            BY <1>2 DEF NoWindowFound, NoRequest, Quiet, JoinWindow, InFlight, InFlightPcs,
               IInv, RacesSeen
        <2>2. /\ call' = [call EXCEPT ![c] = state] /\ state \in CallState
              /\ state.pc = "dropped" /\ CallFits(state)
            BY <2>1, CallStates DEF Return, Lost
        <2>3. "ended" \in seen[c]
            BY <2>1 DEF RaceSeen
        <2> HIDE DEF state
        <2>4. QED
            BY <2>1, <2>2, <2>3, QuietMoveInv
    <1>3. QED
        BY <1>1, <1>2 DEF JoinWindow

LEMMA CancelCallInv ==
    ASSUME IInv, Observe, UNCHANGED swept, NEW c \in Client, Cancel(c)
    PROVE  IInv'
    <1> DEFINE id == call[c].id
    <1>1. Return(c, "idle") /\ UNCHANGED promised /\ id \in JobId
        BY DEF Cancel, NoRequest, IInv, CallsFit, CallFits
    <1>2. CASE Present(id) /\ cancelJob(id)
        <2> DEFINE row == cancelJobRow(jobs[id], now)
        <2>1. CanCancelJob(jobs[id]) /\ Update(id, row)
            BY <1>2 DEF cancelJob
        <2>2. jobs[id] \in Job /\ RowFits(jobs[id]) /\ now \in Time
            BY <1>1, <1>2, PresentRow DEF IInv, TypeOK
        <2>3. Keeps(jobs[id], row)
            BY <2>1, <2>2, CancelKeeps
        <2>4. row.status = "cancelled"
            BY <2>2 DEF cancelJobRow, resetDeferFields, Job
        <2> HIDE DEF row
        <2>5. TableInv'
            BY <1>1, <1>2, <2>1, <2>3, UpdateInv DEF IInv
        <2>6. PromisesKept' /\ promised' \in Promised
            BY <1>1, <2>1, <2>4, NothingOwed
        <2>7. QED
            BY <1>1, <2>5, <2>6, WroteInv
    <1>3. CASE UNCHANGED tableVars
        BY <1>1, <1>3, QuietReturnInv DEF Quiet
    <1>4. QED
        BY <1>2, <1>3 DEF Cancel

\* A manual retry asks for its row again.
LEMMA ResetPromise ==
    ASSUME IInv, NEW id \in JobId, Present(id), NEW at \in Time,
           resetJob(id, at), Accept(id, at), UNCHANGED swept
    PROVE  TableInv' /\ PromisesKept' /\ promised' \in Promised
    <1> DEFINE row == resetJobRow(jobs[id], at)
    <1>1. TableInv'
        BY ResetInv DEF IInv
    <1>2. jobs[id] \in Job
        BY PresentRow DEF IInv
    <1>3. row.status = "pending" /\ row.scheduledFor = at
        BY <1>2 DEF resetJobRow, rescheduleJobRow, retryJobRow, resetDeferFields, Job
    <1>4. jobs' = [jobs EXCEPT ![id] = row]
        BY DEF resetJob, Update
    <1> HIDE DEF row
    <1>5. QED
        BY <1>1, <1>3, <1>4, AcceptedPending

\* What the process does without a call.
LEMMA CalmInv ==
    ASSUME IInv, Observe, UNCHANGED call, TableInv', PromisesKept',
           promised' \in Promised, swept' \in SUBSET JobId
    PROVE  IInv'
    <1>1. call' \in [Client -> CallState] /\ CallsFit'
        BY DEF IInv, TypeOK, CallsFit
    <1>2. \A c \in Client : call'[c] = call[c]
        OBVIOUS
    <1>3. QED
        BY <1>1, <1>2, StepInv

LEMMA ManualRetryInv ==
    ASSUME IInv, Observe, UNCHANGED swept, NEW id \in JobId, Present(id), ManualRetry(id)
    PROVE  IInv'
    <1>1. now \in Time /\ resetJob(id, now) /\ Accept(id, now) /\ UNCHANGED call
        BY DEF ManualRetry, IInv, TypeOK
    <1>2. TableInv' /\ PromisesKept' /\ promised' \in Promised
        BY <1>1, ResetPromise
    <1>3. swept' \in SUBSET JobId
        BY DEF IInv, TypeOK
    <1>4. QED
        BY <1>1, <1>2, <1>3, CalmInv

LEMMA RetryFailedInv ==
    ASSUME IInv, Observe, UNCHANGED swept, NEW c \in Client, NEW id \in JobId,
           NEW version \in 1 .. MaxVersion, NEW offset \in Delays,
           RetryFailed(c, id, version, offset)
    PROVE  IInv'
    <1> DEFINE rest == [call[c] EXCEPT !.listed = @ \ {<<id, version>>}]
    <1>1. rest \in CallState /\ rest.pc = "redrive"
        BY CallStates DEF RetryFailed, CallState
    <1>2. CallFits(rest) /\ Plain(rest.pc)
        BY <1>1 DEF CallFits, Plain
    <1>3. call' = [call EXCEPT ![c] = NoCall] \/ call' = [call EXCEPT ![c] = rest]
        BY CallStates DEF RetryFailed, Return, IInv, TypeOK
    <1> HIDE DEF rest
    <1>4. PICK state \in CallState :
             CallFits(state) /\ Plain(state.pc) /\ call' = [call EXCEPT ![c] = state]
        BY <1>1, <1>2, <1>3, CallStates
    <1>5. CASE Present(id) /\ resetJob(id, now + offset) /\ Accept(id, now + offset)
        <2>1. now + offset \in Time
            BY ClientAssumption DEF IInv, TypeOK, Time
        <2>2. TableInv' /\ PromisesKept' /\ promised' \in Promised
            BY <1>5, <2>1, ResetPromise
        <2>3. RaceSeen(c)'
            BY <1>4, PlainCall
        <2>4. QED
            BY <1>4, <2>2, <2>3, CallInv
    <1>6. CASE NoRequest /\ UNCHANGED tableVars
        <2>1. Quiet
            BY <1>6 DEF NoRequest, Quiet
        <2>2. QED
            BY <1>4, <2>1, QuietPlainInv
    <1>7. QED
        BY <1>5, <1>6 DEF RetryFailed

-----------------------------------------------------------------------------
(* Steps of the process. *)

\* A claim of a settled row owes nothing, and an unsettled one is a debounce.
LEMMA ClaimCallInv ==
    ASSUME IInv, Observe, UNCHANGED <<call, promised, swept>>, Claim(Handler)
    PROVE  IInv'
    <1>1. PICK ids \in SUBSET JobId : claimDueJobs(ids, Handler)
        BY DEF Claim
    <1>2. ids \in SUBSET DueRows(Handler)
        BY <1>1 DEF claimDueJobs
    <1>3. UpdateAll(ids, [id \in ids |-> claimDueRow(jobs[id], now)])
        BY <1>1 DEF claimDueJobs
    <1>4. TableInv'
        BY <1>2, <1>3, ClaimDueInv DEF IInv
    <1>5. ASSUME NEW id \in ids PROVE PromiseKept(id)'
        <2> DEFINE job == jobs[id]
                   row == claimDueRow(job, now)
        <2>1. id \in JobId /\ Present(id) /\ job.status = "pending"
            BY <1>2 DEF DueRows, IsDue
        <2>2. job \in Job /\ FirstDue(id) /\ jobs'[id] = row
            BY <1>3, <2>1, PresentRow DEF IInv, PromisesKept, PromiseKept, UpdateAll
        <2>3. CASE isDebounceSettled(job, now)
            <3>1. Claimed(markRunningRow(job, now), "running",
                          job.version, job.version, job.attempt)
                BY <2>2, ClaimEffects
            <3>2. row = markRunningRow(job, now)
                BY <2>3 DEF claimDueRow
            <3> HIDE DEF row
            <3>3. row.status = "running" /\ row.version = row.claimedVersion
                BY <3>1, <3>2 DEF Claimed
            <3>4. QED
                BY <2>2, <3>3 DEF PromiseKept, FirstDue, WindowDue
        <2>4. CASE ~ isDebounceSettled(job, now)
            <3>1. row = rescheduleDueAtRow(job) /\ job.kind = "debounce"
                BY <2>4 DEF claimDueRow, isDebounceSettled
            <3>2. row.status = "pending" /\ row.kind = "debounce" /\ row.attempt = job.attempt
                BY <2>1, <2>2, <3>1 DEF rescheduleDueAtRow, Job
            <3> HIDE DEF row
            <3>3. QED
                BY <2>1, <2>2, <3>2 DEF PromiseKept, FirstDue, WindowDue
        <2>5. QED
            BY <2>3, <2>4
    <1>6. ASSUME NEW id \in JobId \ ids PROVE PromiseKept(id)'
        <2>1. jobs'[id] = jobs[id]
            BY <1>3 DEF UpdateAll
        <2>2. QED
            BY <2>1 DEF IInv, PromisesKept, PromiseKept, FirstDue, WindowDue, Present
    <1>7. PromisesKept'
        BY <1>5, <1>6 DEF PromisesKept
    <1>8. promised' \in Promised /\ swept' \in SUBSET JobId
        BY DEF IInv, TypeOK, Promised
    <1>9. QED
        BY <1>4, <1>7, <1>8, CalmInv

\* A settled claim is over, has an attempt behind it, or opens the window its
\* events have asked for.
LEMMA SettleInv ==
    ASSUME IInv, Observe, UNCHANGED <<call, promised, swept>>, NEW id \in JobId, Settle(id)
    PROVE  IInv'
    <1> DEFINE job == jobs[id]
               n == job.attempt + 1
    <1>1. /\ Present(id) /\ job.status = "running" /\ job \in Job /\ RowFits(job)
          /\ now \in Time /\ now + 1 \in Time /\ n \in Nat /\ n # 0
        BY PresentRow DEF Settle, IInv, TypeOK, Time, Job
    <1>2. promised' \in Promised /\ swept' \in SUBSET JobId
        BY DEF IInv, TypeOK, Promised
    <1>3. CASE job.version # job.claimedVersion /\ requeueForNextWindow(id)
        <2> DEFINE row == requeueForNextWindowRow(job)
        <2>1. IsPattern(job) /\ Update(id, row)
            BY <1>3 DEF requeueForNextWindow
        <2>2. Keeps(job, row)
            BY <1>1, <2>1, NextWindowKeeps
        <2>3. /\ jobs'[id] = row
              /\ \A other \in JobId \ {id} : jobs'[other] = jobs[other]
            BY <2>1 DEF IInv, TypeOK, Update
        <2> HIDE DEF row
        <2>4. TableInv'
            BY <1>1, <2>1, <2>2, UpdateInv DEF IInv
        <2> USE DEF row
        <2>5. PromiseKept(id)'
            BY <1>1, <1>3, <2>1, <2>3, NextWindowPromise
        <2>6. PromisesKept'
            BY <2>3, <2>5, OnePromise
        <2>7. QED
            BY <1>2, <2>4, <2>6, CalmInv
    <1>4. ASSUME NEW row, Keeps(job, row), Update(id, row), row.status # "running",
                 row.status # "pending" \/ row.attempt = n
          PROVE  IInv'
        <2>1. TableInv'
            BY <1>1, <1>4, UpdateInv DEF IInv
        <2>2. PromisesKept'
            BY <1>1, <1>4, NothingOwed
        <2>3. QED
            BY <1>2, <2>1, <2>2, CalmInv
    <1>5. CASE markCompleted(id)
        <2> DEFINE row == markCompletedRow(job, now)
        <2>1. CanMarkCompleted(job, job.version) /\ Update(id, row)
            BY <1>5 DEF markCompleted
        <2>2. Keeps(job, row)
            BY <1>1, <2>1, MarkCompletedKeeps
        <2>3. row.status = "completed"
            BY <1>1 DEF markCompletedRow, resetDeferFields, Job
        <2> HIDE DEF row
        <2>4. QED
            BY <1>4, <2>1, <2>2, <2>3
    <1>6. CASE retryJob(id, n, now + 1)
        <2> DEFINE row == retryJobRow(job, n, now + 1)
        <2>1. CanRetryJob(job, job.version) /\ Update(id, row)
            BY <1>6 DEF retryJob
        <2>2. Keeps(job, row)
            BY <1>1, <2>1, RetryKeeps
        <2>3. row.status = "pending" /\ row.attempt = n
            BY <1>1 DEF retryJobRow, resetDeferFields, Job
        <2> HIDE DEF row
        <2>4. QED
            BY <1>4, <2>1, <2>2, <2>3
    <1>7. CASE markFailed(id, "handler_error")
        <2> DEFINE row == markFailedRow(job, "handler_error", now)
        <2>1. CanMarkFailed(job, job.version) /\ Update(id, row)
            BY <1>7 DEF markFailed
        <2>2. Keeps(job, row)
            BY <1>1, <2>1, MarkFailedKeeps DEF FailureReason
        <2>3. row.status = "failed"
            BY <1>1 DEF markFailedRow, resetDeferFields, Job
        <2> HIDE DEF row
        <2>4. QED
            BY <1>4, <2>1, <2>2, <2>3
    <1>8. QED
        BY <1>3, <1>5, <1>6, <1>7 DEF Settle

LEMMA PruneCallInv ==
    ASSUME IInv, Observe, UNCHANGED <<call, promised, swept>>, pruneTerminal(TerminalRows)
    PROVE  IInv'
    <1>1. Delete(TerminalRows)
        BY DEF pruneTerminal
    <1>2. TableInv'
        BY <1>1, DeleteInv DEF IInv
    <1>3. \A id \in JobId : jobs'[id] = None \/ jobs'[id] = jobs[id]
        BY <1>1 DEF Delete
    <1>4. PromisesKept'
        BY <1>3 DEF IInv, PromisesKept, PromiseKept, FirstDue, WindowDue, Present
    <1>5. promised' \in Promised /\ swept' \in SUBSET JobId
        BY DEF IInv, TypeOK, Promised
    <1>6. QED
        BY <1>2, <1>4, <1>5, CalmInv

LEMMA TickInv ==
    ASSUME IInv, Observe, UNCHANGED <<call, promised, swept>>,
           UNCHANGED <<jobs, issued>>, now' \in Time
    PROVE  IInv'
    <1>1. TableInv'
        BY RowsUntouchedInv DEF IInv
    <1>2. PromisesKept'
        BY DEF IInv, PromisesKept, PromiseKept, FirstDue, WindowDue, Present
    <1>3. promised' \in Promised /\ swept' \in SUBSET JobId
        BY DEF IInv, TypeOK, Promised
    <1>4. QED
        BY <1>1, <1>2, <1>3, CalmInv

\* A reclaim takes an attempt or opens the window its events have asked for; the
\* sweep holds a backoff only for the rows of the first sort.
LEMMA SweepReclaimInv ==
    ASSUME IInv, Observe, UNCHANGED <<call, promised>>, SweepReclaim
    PROVE  IInv'
    <1>1. /\ swept = {} /\ reclaimStalledJobs
          /\ swept' = {id \in StalledRows :
                          reclaimRow(jobs[id]).attempt \in 1 .. jobs[id].maxAttempts - 1}
        BY DEF SweepReclaim
    <1>2. TableInv'
        BY <1>1, ReclaimStalledJobsInv DEF IInv
    <1>3. \A id \in JobId :
             jobs'[id] = IF id \in StalledRows THEN reclaimRow(jobs[id]) ELSE jobs[id]
        BY <1>1 DEF reclaimStalledJobs, UpdateAll
    <1>4. ASSUME NEW id \in StalledRows PROVE PromiseKept(id)'
        <2> DEFINE job == jobs[id]
                   row == reclaimRow(job)
        <2>1. /\ id \in JobId /\ Present(id) /\ job.status = "running" /\ job \in Job
              /\ jobs'[id] = row
            BY <1>3, PresentRow DEF IInv, StalledRows, IsStalled
        <2>2. CASE VersionAdvanced(job)
            <3>1. IsPattern(job) /\ job.version # job.claimedVersion
                BY <2>1, <2>2 DEF VersionAdvanced, Job
            <3>2. row = requeueForNextWindowRow(job)
                BY <2>2 DEF reclaimRow
            <3>3. Claimed(row, "pending", job.version + 1, None, 0)
                BY <2>1, <2>2, ReclaimEffects
            <3> HIDE DEF row
            <3>4. row.attempt = 0
                BY <3>3 DEF Claimed
            <3> USE DEF row
            <3>5. id \notin swept'
                BY <1>1, <3>4
            <3>6. QED
                BY <2>1, <3>1, <3>2, <3>5, NextWindowPromise
        <2>3. CASE ~ VersionAdvanced(job)
            <3>1. Claimed(row, "pending", job.version, None, job.attempt + 1)
                BY <2>1, <2>3, ReclaimEffects
            <3> HIDE DEF row
            <3>2. row.status = "pending" /\ row.attempt # 0
                BY <2>1, <3>1 DEF Claimed, Job
            <3>3. QED
                BY <2>1, <3>2 DEF PromiseKept, FirstDue, WindowDue
        <2>4. QED
            BY <2>2, <2>3
    <1>5. ASSUME NEW id \in JobId \ StalledRows PROVE PromiseKept(id)'
        <2>1. jobs'[id] = jobs[id] /\ id \notin swept'
            BY <1>1, <1>3
        <2>2. QED
            BY <2>1 DEF IInv, PromisesKept, PromiseKept, FirstDue, WindowDue, Present
    <1>6. PromisesKept'
        BY <1>4, <1>5 DEF PromisesKept
    <1>7. promised' \in Promised /\ swept' \in SUBSET JobId
        BY <1>1 DEF IInv, TypeOK, Promised, StalledRows
    <1>8. QED
        BY <1>2, <1>6, <1>7, CalmInv

\* The late backoff moves a row that waits for a first attempt only if the request
\* for that attempt has raced with this sweep.
LEMMA SweepBackoffInv ==
    ASSUME IInv, Observe, UNCHANGED <<call, promised>>, NEW id \in JobId, SweepBackoff(id)
    PROVE  IInv'
    <1>1. id \in swept /\ swept' = swept \ {id}
        BY DEF SweepBackoff
    <1>2. promised' \in Promised /\ swept' \in SUBSET JobId /\ now \in Time /\ now + 1 \in Time
        BY <1>1 DEF IInv, TypeOK, Promised, Time
    <1>3. CASE Present(id) /\ updateScheduledFor(id, now + 1)
        <2> DEFINE job == jobs[id]
                   row == updateScheduledForRow(job, now + 1)
        <2>1. job \in Job /\ RowFits(job) /\ Update(id, row) /\ FirstDue(id) /\ WindowDue(id)
            BY <1>3, PresentRow DEF updateScheduledFor, IInv, PromisesKept, PromiseKept
        <2>2. Keeps(job, row)
            BY <1>2, <2>1, UpdateScheduledForKeeps
        <2>3. /\ row.status = job.status /\ row.attempt = job.attempt /\ row.kind = job.kind
              /\ row.version = job.version /\ row.claimedVersion = job.claimedVersion
              /\ row.firstAt = job.firstAt /\ row.waitMs = job.waitMs
            BY <2>1 DEF updateScheduledForRow, Job
        <2> HIDE DEF row
        <2>4. TableInv'
            BY <1>3, <2>1, <2>2, UpdateInv DEF IInv
        <2>5. /\ jobs'[id] = row
              /\ \A other \in JobId \ {id} : jobs'[other] = jobs[other]
            BY <2>1 DEF IInv, TypeOK, Update
        <2>6. PromiseKept(id)'
            BY <1>1, <2>1, <2>3, <2>5 DEF PromiseKept, FirstDue, WindowDue
        <2>7. PromisesKept'
            BY <1>1, <2>5, <2>6, OnePromise
        <2>8. QED
            BY <1>2, <2>4, <2>7, CalmInv
    <1>4. CASE UNCHANGED tableVars
        <2>1. jobs' = jobs /\ issued' = issued /\ now' = now
            BY <1>4 DEF tableVars
        <2>2. TableInv'
            BY <1>2, <2>1, RowsUntouchedInv DEF IInv
        <2>3. PromisesKept'
            BY <1>1, <2>1 DEF IInv, PromisesKept, PromiseKept, FirstDue, WindowDue, Present
        <2>4. QED
            BY <1>2, <2>2, <2>3, CalmInv
    <1>5. QED
        BY <1>3, <1>4 DEF SweepBackoff

-----------------------------------------------------------------------------
(* The invariant of the facade's calls. *)

LEMMA CallStepInv ==
    ASSUME IInv, Observe, UNCHANGED swept, NEW c \in Client, CallStep(c)
    PROVE  IInv'
    <1>1. CASE \E delay \in Delays, replace \in BOOLEAN : BeginSchedule(c, delay, replace)
        BY <1>1, BeginScheduleInv
    <1>2. CASE \E kind \in Kinds, wait \in Waits, maxWait \in MaxWaits \cup {None} :
                  BeginEvent(c, kind, wait, maxWait)
        BY <1>2, BeginEventInv
    <1>3. CASE \E id \in JobId : BeginCancel(c, id)
        BY <1>3, BeginCancelInv
    <1>4. CASE \E id \in JobId, version \in 1 .. MaxVersion, offset \in Delays :
                  RetryFailed(c, id, version, offset)
        BY <1>4, RetryFailedInv
    <1>5. CASE Read(c) \/ Insert(c) \/ Replace(c)
        BY <1>5, ReadInv, InsertCallInv, ReplaceCallInv
    <1>6. CASE UpdateWindow(c) \/ OpenWindow(c) \/ JoinWindow(c)
        BY <1>6, UpdateWindowInv, OpenWindowInv, JoinWindowInv
    <1>7. CASE Cancel(c) \/ BeginRetryFailed(c)
        BY <1>7, CancelCallInv, BeginRetryFailedInv
    <1>8. QED
        BY <1>1, <1>2, <1>3, <1>4, <1>5, <1>6, <1>7 DEF CallStep

LEMMA ProcessInv ==
    ASSUME IInv, Observe, Process
    PROVE  IInv'
    <1>1. UNCHANGED <<call, promised>>
        BY DEF Process, NoRequest
    <1>2. CASE Claim(Handler) /\ UNCHANGED swept
        BY <1>1, <1>2, ClaimCallInv
    <1>3. ASSUME NEW id \in JobId, Settle(id), UNCHANGED swept PROVE IInv'
        BY <1>1, <1>3, SettleInv
    <1>4. CASE pruneTerminal(TerminalRows) /\ UNCHANGED swept
        BY <1>1, <1>4, PruneCallInv
    <1>5. CASE now < MaxTime /\ Tick /\ UNCHANGED swept
        <2>1. now' \in Time /\ UNCHANGED <<jobs, issued>>
            BY <1>5 DEF Tick, IInv, TypeOK, Time
        <2>2. QED
            BY <1>1, <1>5, <2>1, TickInv
    <1>6. CASE SweepReclaim
        BY <1>1, <1>6, SweepReclaimInv
    <1>7. ASSUME NEW id \in JobId, SweepBackoff(id) PROVE IInv'
        BY <1>1, <1>7, SweepBackoffInv
    <1>8. QED
        BY <1>2, <1>3, <1>4, <1>5, <1>6, <1>7 DEF Process

LEMMA InitInv == Init => IInv
    <1> SUFFICES ASSUME Init PROVE IInv
        OBVIOUS
    <1>1. \A id \in JobId : ~ Present(id)
        BY DEF Init, TableInit, Present
    <1>2. TableInv
        BY <1>1 DEF Init, TableInit, TableInv, RowsTyped, RowsFit, AtMostOneActive, Present, Time
    <1>3. \A c \in Client : call[c] = NoCall
        BY DEF Init
    <1>4. NoCall \in CallState /\ NoCall.pc = "idle"
        BY DEF NoCall, CallState, Time, TimeOrNull
    <1>5. TypeOK
        <2>1. call \in [Client -> CallState]
            BY <1>4 DEF Init
        <2>2. promised \in Promised
            BY DEF Init, Promised, Time
        <2>3. swept \in SUBSET JobId /\ seen \in [Client -> SUBSET {"claimed", "ended"}]
            BY DEF Init
        <2>4. QED
            BY <1>2, <2>1, <2>2, <2>3 DEF TypeOK, TableInv, RowsTyped, Promised
    <1>6. CallsFit /\ RacesSeen
        BY <1>3, <1>4 DEF CallsFit, CallFits, RacesSeen, RaceSeen
    <1>7. PromisesKept
        BY <1>1 DEF PromisesKept, PromiseKept
    <1>8. QED
        BY <1>2, <1>5, <1>6, <1>7 DEF IInv

\* Every reachable state is typed, keeps a consistent table, explains its lost
\* races and keeps its promises.
THEOREM ClientCallsInvariant == Spec => []IInv
    <1>1. ASSUME IInv, [Next]_vars PROVE IInv'
        <2>1. CASE Next
            <3>1. Observe
                BY <2>1 DEF Next
            <3>2. CASE (\E c \in Client : CallStep(c)) /\ UNCHANGED swept
                BY <1>1, <3>1, <3>2, CallStepInv
            <3>3. CASE (\E id \in JobId : Present(id) /\ ManualRetry(id)) /\ UNCHANGED swept
                BY <1>1, <3>1, <3>3, ManualRetryInv
            <3>4. CASE Process
                BY <1>1, <3>1, <3>4, ProcessInv
            <3>5. QED
                BY <2>1, <3>2, <3>3, <3>4 DEF Next
        <2>2. CASE UNCHANGED vars
            BY <1>1, <2>2
               DEF vars, IInv, TypeOK, TableInv, RowsTyped, RowsFit, AtMostOneActive, Present,
                   CallsFit, CallFits, RacesSeen, RaceSeen, ActiveIds, PromisesKept,
                   PromiseKept, FirstDue, WindowDue
        <2>3. QED
            BY <1>1, <2>1, <2>2
    <1>2. QED
        BY <1>1, InitInv, PTL DEF Spec

\* The calls, their histories and the rows stay in their types: no write of the
\* facade or of the process leaves the columns of src/src/types.ts.
THEOREM TypeCorrect == Spec => []TypeOK
    <1>1. IInv => TypeOK
        BY DEF IInv
    <1>2. QED
        BY <1>1, ClientCallsInvariant, PTL

\* A ConcurrentInsertError, a dropped event or a lost replace reaches a caller
\* only if a row of the key was claimed or ended during the call.
THEOREM RacesExplained == Spec => []FailsOnlyByRace
    <1>1. IInv => FailsOnlyByRace
        BY DEF IInv, RacesSeen, RaceSeen, FailsOnlyByRace
    <1>2. QED
        BY <1>1, ClientCallsInvariant, PTL

\* A row that waits for its first attempt is due when the last accepted request
\* asked for it, unless that request came while a sweep held the row's backoff.
THEOREM PromisesHold == Spec => []DueAsPromised
    <1>1. IInv => DueAsPromised
        BY DEF IInv, PromisesKept, PromiseKept, FirstDue, DueAsPromised
    <1>2. QED
        BY <1>1, ClientCallsInvariant, PTL
=============================================================================
