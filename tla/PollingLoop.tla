----------------------------- MODULE PollingLoop -----------------------------
(***************************************************************************)
(* The two timer loops of a PollingScheduler, its count of handlers in     *)
(* flight, and the life cycle of the DelayKit that starts and stops it.    *)
(*                                                                         *)
(* A loop is a chain of timers: each one fires, awaits the work, and       *)
(* installs the next.  The scheduler remembers one timer for each loop and *)
(* two flags, but a chain that is awaiting its work when stop() runs goes  *)
(* on, and start() begins a new chain beside it.  So a chain is a token    *)
(* here, and there may be more of them than the scheduler knows of.        *)
(*                                                                         *)
(* A claimed row is a unit of inFlight (PollWorkers has what becomes of    *)
(* it), and a timer fires at any time: the delay it was given is kept only *)
(* to say what the backoff computes.                                       *)
(***************************************************************************)
EXTENDS Integers, FiniteSets

CONSTANTS
    Chain,          \* tokens for the chains of timers of one loop
    maxConcurrent,  \* the cap on handlers in flight
    interval,       \* the base delay of both loops
    BACKOFF_MAX_MS, \* where their backoff ends
    MaxLives,       \* DelayKits that use this scheduler one after another
    MaxFailures     \* bound: failures of one loop in a row

ASSUME LoopAssumption ==
    /\ maxConcurrent \in Nat \ {0} /\ interval \in Nat \ {0}
    /\ BACKOFF_MAX_MS \in Nat /\ MaxLives \in Nat \ {0} /\ MaxFailures \in Nat
    /\ IsFiniteSet(Chain) /\ Cardinality(Chain) >= MaxLives

NoTimer == "none"
Loop == {"poll", "sweep"}

VARIABLES
    running,        \* the scheduler's flag
    chain,          \* loop -> token -> where this chain of timers stands
    timer,          \* loop -> the timer that stop() would clear
    inProgress,     \* loop -> pollInProgress, sweepInProgress
    attempts,       \* loop -> failures in a row
    inFlight,       \* handlers in flight
    stopping,       \* the promise of the scheduler's stop()
    kit,            \* state of the DelayKit, and the closeStore of its stop()
    lives,          \* DelayKits so far
    drained,        \* history: the last stop waited until nothing was busy
    overlapped      \* history: a start() found a chain of an earlier life

chainVars == <<chain, timer, attempts>>
loopVars == <<running, chain, timer, inProgress, attempts, inFlight, stopping,
          kit, lives, drained, overlapped>>

NoChain == [pc |-> "free", budget |-> 0, delay |-> 0]

LoopTypeOK ==
    /\ running \in BOOLEAN
    /\ chain \in [Loop -> [Chain ->
          [pc : {"free", "armed", "claim", "materialize", "sweep"},
           budget : 0 .. maxConcurrent, delay : Nat]]]
    /\ timer \in [Loop -> Chain \cup {NoTimer}]
    /\ inProgress \in [Loop -> BOOLEAN]
    /\ attempts \in [Loop -> 0 .. MaxFailures]
    /\ inFlight \in Nat
    /\ stopping \in {"none", "draining", "done"}
    /\ kit \in [state : {"idle", "starting", "started", "stopping", "closed"},
                closeStore : BOOLEAN]
    /\ lives \in 1 .. MaxLives
    /\ drained \in BOOLEAN /\ overlapped \in BOOLEAN

LoopInit ==
    /\ running = FALSE
    /\ chain = [l \in Loop |-> [c \in Chain |-> NoChain]]
    /\ timer = [l \in Loop |-> NoTimer]
    /\ inProgress = [l \in Loop |-> FALSE]
    /\ attempts = [l \in Loop |-> 0]
    /\ inFlight = 0
    /\ stopping = "none"
    /\ kit = [state |-> "idle", closeStore |-> FALSE]
    /\ lives = 1
    /\ drained = FALSE /\ overlapped = FALSE

Alive(l, c) == chain[l][c].pc # "free"
Working(l, c) == chain[l][c].pc \notin {"free", "armed"}
StoreOpen == ~ (kit.state = "closed" /\ kit.closeStore)

-----------------------------------------------------------------------------
(* Backoff.  Jitter is a whole number of quarters here: -1, 0 or 1. *)

AtMost(a, b) == IF a <= b THEN a ELSE b
AtLeast(a, b) == IF a >= b THEN a ELSE b

\* Mutant: the jitter is added to the capped delay, and no cap follows.
JitterAfterCap(base, n, jitter) ==
    LET delay == AtLeast(base, AtMost(BACKOFF_MAX_MS, base * 2 ^ AtMost(n, 32)))
    IN  IF n = 0 THEN base ELSE AtLeast(base, delay + (delay * jitter) \div 4)
computeBackoffDelay(base, n, jitter) ==
    LET delay == AtLeast(base, AtMost(BACKOFF_MAX_MS, base * 2 ^ AtMost(n, 32)))
    IN  IF n = 0 THEN base
        ELSE AtLeast(base, AtMost(BACKOFF_MAX_MS, delay + (delay * jitter) \div 4))

-----------------------------------------------------------------------------
(* scheduleLoop: the work of a chain has settled, and the next timer is     *)
(* installed if the scheduler runs, whichever life that is.                *)

Failures(l, ok) == IF ok THEN 0 ELSE AtMost(attempts[l] + 1, MaxFailures)

\* Mutant: a failure ends the chain.
RearmIfOk(l, c, ok) ==
    /\ attempts' = [attempts EXCEPT ![l] = Failures(l, ok)]
    /\ IF running /\ ok
       THEN /\ chain' = [chain EXCEPT ![l][c] = [NoChain EXCEPT !.pc = "armed",
                                                                !.delay = interval]]
            /\ timer' = [timer EXCEPT ![l] = c]
       ELSE chain' = [chain EXCEPT ![l][c] = NoChain] /\ UNCHANGED timer
Rearm(l, c, ok) ==
    /\ attempts' = [attempts EXCEPT ![l] = Failures(l, ok)]
    /\ IF running
       THEN /\ \E jitter \in -1 .. 1 :
                  chain' = [chain EXCEPT ![l][c] = [NoChain EXCEPT
                      !.pc = "armed",
                      !.delay = computeBackoffDelay(interval, Failures(l, ok), jitter)]]
            /\ timer' = [timer EXCEPT ![l] = c]
       ELSE chain' = [chain EXCEPT ![l][c] = NoChain] /\ UNCHANGED timer

\* The work is over: its flag is cleared, whoever else may still be at work.
Finish(l, c, ok) == inProgress' = [inProgress EXCEPT ![l] = FALSE] /\ Rearm(l, c, ok)

-----------------------------------------------------------------------------
(* poll and sweepStalled *)

\* The timer fires: the callback does not test running.
FirePoll(c) ==
    LET budget == maxConcurrent - inFlight
    IN  /\ chain["poll"][c].pc = "armed"
        /\ \/ /\ budget > 0
              /\ chain' = [chain EXCEPT !["poll"][c] =
                              [NoChain EXCEPT !.pc = "claim", !.budget = budget]]
              /\ inProgress' = [inProgress EXCEPT !["poll"] = TRUE]
              /\ UNCHANGED <<timer, attempts>>
           \/ /\ budget <= 0
              /\ Rearm("poll", c, TRUE)
              /\ UNCHANGED inProgress
        /\ UNCHANGED inFlight

\* claimDueJobs returns at most as many rows as the budget it was given.
\* Mutant: the poll asks for a full batch whatever is in flight.
ClaimFullBatch(c, n, rescheduled) ==
    /\ chain["poll"][c].pc = "claim"
    /\ n <= maxConcurrent /\ (n > 0 \/ rescheduled => StoreOpen)
    /\ inFlight' = inFlight + n
    /\ IF rescheduled
       THEN /\ chain' = [chain EXCEPT !["poll"][c] = [NoChain EXCEPT !.pc = "materialize"]]
            /\ UNCHANGED <<timer, attempts, inProgress>>
       ELSE Finish("poll", c, TRUE)
ClaimReturns(c, n, rescheduled) ==
    /\ chain["poll"][c].pc = "claim"
    /\ n <= chain["poll"][c].budget /\ (n > 0 \/ rescheduled => StoreOpen)
    /\ inFlight' = inFlight + n
    /\ IF rescheduled
       THEN /\ chain' = [chain EXCEPT !["poll"][c] = [NoChain EXCEPT !.pc = "materialize"]]
            /\ UNCHANGED <<timer, attempts, inProgress>>
       ELSE Finish("poll", c, TRUE)
ClaimFails(c) ==
    /\ chain["poll"][c].pc = "claim"
    /\ Finish("poll", c, FALSE) /\ UNCHANGED inFlight
\* An error of materializeRescheduledWakes is logged and the poll succeeds.
MaterializeEnds(c) ==
    /\ chain["poll"][c].pc = "materialize"
    /\ Finish("poll", c, TRUE) /\ UNCHANGED inFlight

FireSweep(c) ==
    /\ chain["sweep"][c].pc = "armed"
    /\ chain' = [chain EXCEPT !["sweep"][c] = [NoChain EXCEPT !.pc = "sweep"]]
    /\ inProgress' = [inProgress EXCEPT !["sweep"] = TRUE]
    /\ UNCHANGED <<timer, attempts, inFlight>>
SweepEnds(c, ok) ==
    /\ chain["sweep"][c].pc = "sweep"
    /\ Finish("sweep", c, ok) /\ UNCHANGED inFlight

\* onJobSettled or onJobError.  Mutant: an error runs both.
BothCallbacks == inFlight > 0 /\ inFlight' = inFlight - 2 /\ UNCHANGED <<chainVars, inProgress>>
HandlerSettles == inFlight > 0 /\ inFlight' = inFlight - 1 /\ UNCHANGED <<chainVars, inProgress>>

-----------------------------------------------------------------------------
(* start and stop *)

\* A second start() while the first is awaited finds the scheduler running.
Start ==
    /\ kit.state = "idle"
    /\ kit' = [kit EXCEPT !.state = "starting"]
    /\ IF running THEN UNCHANGED <<running, stopping, overlapped, chainVars>>
       ELSE /\ running' = TRUE /\ stopping' = "none"
            /\ overlapped' = (overlapped \/ \E l \in Loop, c \in Chain : Alive(l, c))
            /\ \E p, s \in Chain :
                  /\ ~ Alive("poll", p) /\ ~ Alive("sweep", s)
                  /\ timer' = [l \in Loop |-> IF l = "poll" THEN p ELSE s]
                  /\ chain' = [l \in Loop |-> [chain[l] EXCEPT ![timer'[l]] =
                                 [NoChain EXCEPT !.pc = "armed", !.delay = interval]]]
            /\ attempts' = [l \in Loop |-> 0]
    /\ UNCHANGED <<inProgress, inFlight, lives, drained>>
Started ==
    /\ kit.state = "starting" /\ kit' = [kit EXCEPT !.state = "started"]
    /\ UNCHANGED <<running, chainVars, inProgress, inFlight, stopping, lives, drained, overlapped>>

\* Mutant: the drain waits for handlers only.
BusyHandlers == inFlight > 0
Busy == inFlight > 0 \/ inProgress["poll"] \/ inProgress["sweep"]

\* Only the timers the scheduler remembers are cleared.  A stop() while start()
\* is awaited finds the state idle, and returns without an effect.
Stop(drain, closeStore) ==
    /\ kit.state = "started"
    /\ kit' = [state |-> "stopping", closeStore |-> closeStore]
    /\ running' = FALSE
    /\ chain' = [l \in Loop |-> [c \in Chain |->
                    IF c = timer[l] /\ chain[l][c].pc = "armed" THEN NoChain ELSE chain[l][c]]]
    /\ timer' = [l \in Loop |-> NoTimer]
    /\ stopping' = IF drain /\ Busy THEN "draining" ELSE "done"
    /\ drained' = (drain /\ ~ Busy)
    /\ UNCHANGED <<attempts, inProgress, inFlight, lives, overlapped>>

\* Mutant: the drain has no deadline.
DrainWhileBusy == ~ Busy
DrainOver == TRUE
\* The 50 ms loop ends when nothing is busy, or at its deadline.
Drain ==
    /\ stopping = "draining" /\ DrainOver
    /\ stopping' = "done" /\ drained' = ~ Busy
    /\ UNCHANGED <<running, chainVars, inProgress, inFlight, kit, lives, overlapped>>

\* scheduler.stop has returned; the store is closed if the caller asked for it.
Close ==
    /\ kit.state = "stopping" /\ stopping = "done"
    /\ kit' = [kit EXCEPT !.state = "closed"]
    /\ UNCHANGED <<running, chainVars, inProgress, inFlight, stopping, lives, drained, overlapped>>

\* The instance cannot be reused, its scheduler and its store can.
NewKit ==
    /\ kit.state = "closed" /\ ~ kit.closeStore /\ lives < MaxLives
    /\ kit' = [state |-> "idle", closeStore |-> FALSE]
    /\ lives' = lives + 1
    /\ UNCHANGED <<running, chainVars, inProgress, inFlight, stopping, drained, overlapped>>

-----------------------------------------------------------------------------
PollSettles(c) ==
    \/ \E n \in 0 .. maxConcurrent, rescheduled \in BOOLEAN : ClaimReturns(c, n, rescheduled)
    \/ ClaimFails(c) \/ MaterializeEnds(c)
SweepSettles(c) == \E ok \in BOOLEAN : SweepEnds(c, ok)
ChainStep(c) == FirePoll(c) \/ PollSettles(c) \/ FireSweep(c) \/ SweepSettles(c)
Untouched == UNCHANGED <<running, stopping, kit, lives, drained, overlapped>>

LoopNext ==
    \/ ((\E c \in Chain : ChainStep(c)) \/ HandlerSettles) /\ Untouched
    \/ Start \/ Started \/ Drain \/ Close \/ NewKit
    \/ \E drain, closeStore \in BOOLEAN : Stop(drain, closeStore)

\* Timers fire, store calls settle, and the drain has a deadline.  Nothing is
\* asked of handlers, which may never return.
LoopFairness ==
    /\ \A c \in Chain :
          /\ WF_loopVars((FirePoll(c) \/ PollSettles(c)) /\ Untouched)
          /\ WF_loopVars((FireSweep(c) \/ SweepSettles(c)) /\ Untouched)
    /\ WF_loopVars(Drain) /\ WF_loopVars(Close)

LoopSpec == LoopInit /\ [][LoopNext]_loopVars
FairLoopSpec == LoopSpec /\ LoopFairness

-----------------------------------------------------------------------------
(* Properties. *)

\* No more handlers run than maxConcurrent, although the budget is computed
\* before the claim is awaited: unless the scheduler was started again while a
\* cycle of its earlier life was still awaiting the store.
CapHolds == inFlight > maxConcurrent => overlapped

\* A stop that drained to the end leaves nothing behind: no timer that fires, no
\* cycle at work, no handler in flight, so the store may be closed; with the
\* same exception, for chains that the scheduler no longer remembers.
QuietAfterDrain ==
    stopping = "done" /\ drained /\ ~ overlapped =>
        inFlight = 0 /\ \A l \in Loop, c \in Chain : ~ Alive(l, c)

\* A failed cycle backs off from the base interval, and never beyond the cap.
DelayInBounds ==
    \A l \in Loop, c \in Chain :
        chain[l][c].pc = "armed" =>
            /\ chain[l][c].delay >= interval
            /\ chain[l][c].delay <= AtLeast(interval, BACKOFF_MAX_MS)

\* While the scheduler runs, both loops go on whatever the store throws: again
\* and again the sweep begins and the poll claims, or has no slot to claim for.
LoopsGoOn ==
    /\ []<>(~ running \/ \E c \in Chain : Working("sweep", c))
    /\ []<>(~ running \/ inFlight >= maxConcurrent \/ \E c \in Chain : Working("poll", c))

\* stop() returns, also when a handler never does.
StopReturns == kit.state = "stopping" ~> kit.state = "closed"
=============================================================================
