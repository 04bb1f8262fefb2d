------------------------ MODULE PollingScheduler_proofs ------------------------
(***************************************************************************)
(* The polling scheduler: its loops, and what its workers and sweeps do to *)
(* one row.  The two share no state, and their theorems no hypothesis but  *)
(* the assumptions on their own constants.                                 *)
(*                                                                         *)
(* The loops, for any cap, intervals, bounds and number of lives.  The     *)
(* inductive invariant says what the scheduler forgets only when it is     *)
(* restarted too early: while no start() has met a live chain, each loop   *)
(* has one chain at most, the armed one is the remembered timer, the       *)
(* working one has set its flag, and the budget of a claim that is awaited *)
(* still fits under the cap, because inFlight only falls meanwhile.        *)
(*                                                                         *)
(* The row, for any workers, sweepers, attempts and bounds.  What the      *)
(* properties say of it is carried by the processes: the invariant adds    *)
(* what each in-flight snapshot knows as long as the row is still at its   *)
(* version.  That part holds whatever outlives its lease.  OneHolder is    *)
(* what a lease gives when no handler outlives it: whoever works on the    *)
(* row is alone and holds its latest claim.                                *)
(***************************************************************************)
EXTENDS PollingLoop, PollWorkers, JobRow_proofs, FiniteSetTheorems

-----------------------------------------------------------------------------
(* The loops. *)

ChainRecord == [pc : {"free", "armed", "claim", "materialize", "sweep"},
                budget : 0 .. maxConcurrent, delay : Nat]

OneChain ==
    \A l \in Loop : \A c, d \in Chain : Alive(l, c) /\ Alive(l, d) => c = d
Remembered ==
    \A l \in Loop : \A c \in Chain :
        /\ chain[l][c].pc = "armed" => running /\ timer[l] = c
        /\ Working(l, c) => inProgress[l]
BudgetFits ==
    /\ inFlight <= maxConcurrent
    /\ \A c \in Chain : chain["poll"][c].pc = "claim" =>
          chain["poll"][c].budget + inFlight <= maxConcurrent
StoppedOnce == running => stopping = "none"

LoopInv ==
    /\ LoopTypeOK
    /\ DelayInBounds
    /\ StoppedOnce
    /\ ~ overlapped => OneChain /\ Remembered /\ BudgetFits
    /\ QuietAfterDrain

\* What a step of chain c of loop l amounts to: it becomes the record new.
Moved(l, c, new) ==
    /\ Alive(l, c)
    /\ new \in ChainRecord
    /\ chain' = [chain EXCEPT ![l][c] = new]
    /\ new.pc = "armed" =>
          /\ running /\ timer' = [timer EXCEPT ![l] = c]
          /\ new.delay >= interval /\ new.delay <= AtLeast(interval, BACKOFF_MAX_MS)
    /\ new.pc # "armed" => timer' = timer
    /\ new.pc \in {"free", "armed"} =>
          inProgress' = inProgress \/ inProgress' = [inProgress EXCEPT ![l] = FALSE]
    /\ new.pc \notin {"free", "armed"} =>
          \/ inProgress' = [inProgress EXCEPT ![l] = TRUE]
          \/ Working(l, c) /\ inProgress' = inProgress
    /\ new.pc = "claim" => new.budget = maxConcurrent - inFlight /\ inFlight' = inFlight
    /\ \/ inFlight' = inFlight
       \/ /\ l = "poll" /\ chain[l][c].pc = "claim"
          /\ inFlight' \in Nat /\ inFlight' <= inFlight + chain[l][c].budget
    /\ attempts' \in [Loop -> 0 .. MaxFailures]

-----------------------------------------------------------------------------
LEMMA DelayBounds ==
    ASSUME NEW n \in Nat, NEW jitter \in -1 .. 1
    PROVE  /\ computeBackoffDelay(interval, n, jitter) \in Nat
           /\ computeBackoffDelay(interval, n, jitter) >= interval
           /\ computeBackoffDelay(interval, n, jitter) <= AtLeast(interval, BACKOFF_MAX_MS)
  <1> DEFINE delay == AtLeast(interval, AtMost(BACKOFF_MAX_MS, interval * 2 ^ AtMost(n, 32)))
  <1>1. interval \in Nat /\ BACKOFF_MAX_MS \in Nat
    BY LoopAssumption
  <1>2. AtMost(n, 32) \in Nat
    BY DEF AtMost
  <1>3. 2 ^ AtMost(n, 32) \in Int
    BY <1>2, SMT
  <1>4. interval * 2 ^ AtMost(n, 32) \in Int
    BY <1>1, <1>3
  <1>5. delay \in Nat
    BY <1>1, <1>4 DEF AtLeast, AtMost
  <1> HIDE DEF delay
  <1>6. delay + (delay * jitter) \div 4 \in Int
    BY <1>5, SMT
  <1>7. LET d == AtLeast(interval, AtMost(BACKOFF_MAX_MS, delay + (delay * jitter) \div 4))
        IN  d \in Nat /\ d >= interval /\ d <= AtLeast(interval, BACKOFF_MAX_MS)
    BY <1>1, <1>6 DEF AtLeast, AtMost
  <1>8. computeBackoffDelay(interval, n, jitter) =
          IF n = 0 THEN interval
          ELSE AtLeast(interval, AtMost(BACKOFF_MAX_MS, delay + (delay * jitter) \div 4))
    BY DEF computeBackoffDelay, delay
  <1>9. interval <= AtLeast(interval, BACKOFF_MAX_MS)
    BY <1>1 DEF AtLeast
  <1> QED
    BY <1>1, <1>7, <1>8, <1>9

LEMMA RearmEffect ==
    ASSUME LoopTypeOK, NEW l \in Loop, NEW c \in Chain, NEW ok \in BOOLEAN, Rearm(l, c, ok)
    PROVE  /\ attempts' \in [Loop -> 0 .. MaxFailures]
           /\ \E new \in ChainRecord :
                /\ chain' = [chain EXCEPT ![l][c] = new]
                /\ new.pc \in {"armed", "free"}
                /\ new.pc = "armed" =>
                      /\ running /\ timer' = [timer EXCEPT ![l] = c]
                      /\ new.delay >= interval /\ new.delay <= AtLeast(interval, BACKOFF_MAX_MS)
                /\ new.pc # "armed" => timer' = timer
  <1>1. Failures(l, ok) \in 0 .. MaxFailures
    BY LoopAssumption DEF LoopTypeOK, Failures, AtMost
  <1>2. attempts' \in [Loop -> 0 .. MaxFailures]
    BY <1>1 DEF LoopTypeOK, Rearm
  <1>3. CASE running
    <2>1. PICK jitter \in -1 .. 1 :
            /\ chain' = [chain EXCEPT ![l][c] = [NoChain EXCEPT
                            !.pc = "armed",
                            !.delay = computeBackoffDelay(interval, Failures(l, ok), jitter)]]
            /\ timer' = [timer EXCEPT ![l] = c]
      BY <1>3 DEF Rearm
    <2> DEFINE d == computeBackoffDelay(interval, Failures(l, ok), jitter)
               new == [NoChain EXCEPT !.pc = "armed", !.delay = d]
    <2>2. d \in Nat /\ d >= interval /\ d <= AtLeast(interval, BACKOFF_MAX_MS)
      BY <1>1, LoopAssumption, DelayBounds
    <2> HIDE DEF d
    <2>3. 0 \in 0 .. maxConcurrent
      BY LoopAssumption
    <2>4. new.pc = "armed" /\ new.delay = d
      BY DEF NoChain
    <2>5. new \in ChainRecord
      BY <2>2, <2>3 DEF ChainRecord, NoChain
    <2>6. chain' = [chain EXCEPT ![l][c] = new]
      BY <2>1 DEF d
    <2> HIDE DEF new
    <2>7. running /\ timer' = [timer EXCEPT ![l] = c]
      BY <1>3, <2>1
    <2> QED
      BY <1>2, <2>2, <2>4, <2>5, <2>6, <2>7
  <1>4. CASE ~ running
    <2>1. NoChain \in ChainRecord /\ NoChain.pc = "free"
      BY LoopAssumption DEF NoChain, ChainRecord
    <2> QED
      BY <1>2, <1>4, <2>1 DEF Rearm
  <1> QED
    BY <1>3, <1>4

\* A chain that ends its cycle becomes armed or free, and its flag is cleared.
LEMMA FinishMoves ==
  ASSUME LoopTypeOK, NEW l \in Loop, NEW c \in Chain, NEW ok \in BOOLEAN,
         Alive(l, c), Finish(l, c, ok),
         \/ inFlight' = inFlight
         \/ /\ l = "poll" /\ chain[l][c].pc = "claim"
            /\ inFlight' \in Nat /\ inFlight' <= inFlight + chain[l][c].budget
  PROVE  \E new : Moved(l, c, new)
  <1>1. Rearm(l, c, ok) /\ inProgress' = [inProgress EXCEPT ![l] = FALSE]
    BY DEF Finish
  <1>2. PICK new \in ChainRecord :
          /\ chain' = [chain EXCEPT ![l][c] = new]
          /\ new.pc \in {"armed", "free"}
          /\ new.pc = "armed" =>
                /\ running /\ timer' = [timer EXCEPT ![l] = c]
                /\ new.delay >= interval /\ new.delay <= AtLeast(interval, BACKOFF_MAX_MS)
          /\ new.pc # "armed" => timer' = timer
    BY <1>1, RearmEffect
  <1>3. attempts' \in [Loop -> 0 .. MaxFailures]
    BY <1>1, RearmEffect
  <1>4. Moved(l, c, new)
    BY <1>1, <1>2, <1>3 DEF Moved
  <1> QED
    BY <1>4

\* Every step of a chain is a move of that chain.
LEMMA ChainMoves ==
  ASSUME LoopTypeOK, NEW c \in Chain, ChainStep(c)
  PROVE  \E l \in Loop : \E new : Moved(l, c, new)
  <1>0. "poll" \in Loop /\ "sweep" \in Loop
    BY DEF Loop
  <1>a. 0 \in 0 .. maxConcurrent /\ maxConcurrent \in Nat
    BY LoopAssumption
  <1>1. CASE FirePoll(c)
    <2>1. Alive("poll", c)
      BY <1>1 DEF FirePoll, Alive
    <2>2. CASE /\ maxConcurrent - inFlight > 0
               /\ chain' = [chain EXCEPT !["poll"][c] =
                       [NoChain EXCEPT !.pc = "claim", !.budget = maxConcurrent - inFlight]]
               /\ inProgress' = [inProgress EXCEPT !["poll"] = TRUE]
               /\ UNCHANGED <<timer, attempts>>
      <3> DEFINE n == maxConcurrent - inFlight
                 new == [NoChain EXCEPT !.pc = "claim", !.budget = n]
      <3>1. n \in 0 .. maxConcurrent
        BY <2>2, <1>a DEF LoopTypeOK
      <3> HIDE DEF n
      <3>2. new \in ChainRecord
        BY <3>1 DEF ChainRecord, NoChain
      <3>3. new.pc = "claim" /\ new.budget = n
        BY DEF NoChain
      <3>4. chain' = [chain EXCEPT !["poll"][c] = new]
        BY <2>2 DEF n
      <3> HIDE DEF new
      <3>5. inFlight' = inFlight
        BY <1>1 DEF FirePoll
      <3>6. Moved("poll", c, new)
        BY <2>1, <2>2, <3>2, <3>3, <3>4, <3>5 DEF Moved, LoopTypeOK, n
      <3> QED
        BY <1>0, <3>6
    <2>3. CASE Rearm("poll", c, TRUE) /\ inProgress' = inProgress
      <3>1. PICK new \in ChainRecord :
              /\ chain' = [chain EXCEPT !["poll"][c] = new]
              /\ new.pc \in {"armed", "free"}
              /\ new.pc = "armed" =>
                    /\ running /\ timer' = [timer EXCEPT !["poll"] = c]
                    /\ new.delay >= interval /\ new.delay <= AtLeast(interval, BACKOFF_MAX_MS)
              /\ new.pc # "armed" => timer' = timer
        BY <1>0, <2>3, RearmEffect
      <3>2. attempts' \in [Loop -> 0 .. MaxFailures]
        BY <1>0, <2>3, RearmEffect
      <3>3. inFlight' = inFlight
        BY <1>1 DEF FirePoll
      <3>4. Moved("poll", c, new)
        BY <2>1, <2>3, <3>1, <3>2, <3>3 DEF Moved
      <3> QED
        BY <1>0, <3>4
    <2> QED
      BY <1>1, <2>2, <2>3 DEF FirePoll
  <1>2. ASSUME NEW n \in 0 .. maxConcurrent, NEW rescheduled \in BOOLEAN,
               ClaimReturns(c, n, rescheduled)
        PROVE  \E l \in Loop : \E new : Moved(l, c, new)
    <2>1. /\ Alive("poll", c) /\ Working("poll", c)
          /\ chain["poll"][c].pc = "claim" /\ chain["poll"][c].budget \in 0 .. maxConcurrent
      BY <1>0, <1>2 DEF ClaimReturns, Alive, Working, LoopTypeOK
    <2>2. inFlight' \in Nat /\ inFlight' <= inFlight + chain["poll"][c].budget
      BY <1>a, <1>2, <2>1 DEF ClaimReturns, LoopTypeOK
    <2>3. CASE rescheduled
      <3> DEFINE new == [NoChain EXCEPT !.pc = "materialize"]
      <3>1. new \in ChainRecord /\ new.pc = "materialize"
        BY <1>a DEF ChainRecord, NoChain
      <3>2. /\ chain' = [chain EXCEPT !["poll"][c] = new]
            /\ timer' = timer /\ attempts' = attempts /\ inProgress' = inProgress
        BY <1>2, <2>3 DEF ClaimReturns
      <3> HIDE DEF new
      <3>3. Moved("poll", c, new)
        BY <2>1, <2>2, <3>1, <3>2 DEF Moved, LoopTypeOK
      <3> QED
        BY <1>0, <3>3
    <2>4. CASE ~ rescheduled
      <3>1. Finish("poll", c, TRUE)
        BY <1>2, <2>4 DEF ClaimReturns
      <3> QED
        BY <1>0, <2>1, <2>2, <3>1, FinishMoves
    <2> QED
      BY <2>3, <2>4
  <1>3. CASE ClaimFails(c) \/ MaterializeEnds(c)
    <2>1. \E ok \in BOOLEAN : Finish("poll", c, ok) /\ inFlight' = inFlight
      BY <1>3 DEF ClaimFails, MaterializeEnds
    <2>2. Alive("poll", c)
      BY <1>3 DEF ClaimFails, MaterializeEnds, Alive
    <2> QED
      BY <1>0, <2>1, <2>2, FinishMoves
  <1>4. CASE FireSweep(c)
    <2> DEFINE new == [NoChain EXCEPT !.pc = "sweep"]
    <2>1. new \in ChainRecord /\ new.pc = "sweep"
      BY <1>a DEF ChainRecord, NoChain
    <2>2. /\ chain' = [chain EXCEPT !["sweep"][c] = new] /\ Alive("sweep", c)
          /\ inProgress' = [inProgress EXCEPT !["sweep"] = TRUE]
          /\ UNCHANGED <<timer, attempts, inFlight>>
      BY <1>4 DEF FireSweep, Alive
    <2> HIDE DEF new
    <2>3. Moved("sweep", c, new)
      BY <2>1, <2>2 DEF Moved, LoopTypeOK
    <2> QED
      BY <1>0, <2>3
  <1>5. ASSUME NEW ok \in BOOLEAN, SweepEnds(c, ok)
        PROVE  \E l \in Loop : \E new : Moved(l, c, new)
    <2>1. Alive("sweep", c) /\ Finish("sweep", c, ok) /\ inFlight' = inFlight
      BY <1>5 DEF SweepEnds, Alive
    <2> QED
      BY <1>0, <2>1, FinishMoves
  <1> QED
    BY <1>1, <1>2, <1>3, <1>4, <1>5 DEF ChainStep, PollSettles, SweepSettles

-----------------------------------------------------------------------------
(* Each kind of step keeps the inductive invariant. *)

LEMMA LoopInitInv ==
  ASSUME LoopInit
  PROVE  LoopInv
  <1>1. 0 \in 0 .. maxConcurrent /\ 0 \in 0 .. MaxFailures /\ 1 \in 1 .. MaxLives
    BY LoopAssumption
  <1>2. NoChain \in ChainRecord /\ NoChain.pc = "free"
    BY <1>1 DEF NoChain, ChainRecord
  <1>3. LoopTypeOK
    BY <1>1, <1>2 DEF LoopInit, LoopTypeOK, ChainRecord
  <1>4. \A l \in Loop : \A c \in Chain : chain[l][c].pc = "free"
    BY <1>2 DEF LoopInit
  <1>5. DelayInBounds /\ StoppedOnce /\ OneChain /\ Remembered
    BY <1>4 DEF LoopInit, DelayInBounds, StoppedOnce, OneChain, Remembered, Alive, Working
  <1>6. BudgetFits /\ QuietAfterDrain
    BY <1>4, LoopAssumption DEF LoopInit, BudgetFits, QuietAfterDrain, Loop
  <1> QED
    BY <1>3, <1>5, <1>6 DEF LoopInv

\* A step of one chain.  The other chains, if they are alive at all, were alive
\* before, so there are none unless the loop was restarted too early.
LEMMA MovedInv ==
  ASSUME LoopInv, NEW l \in Loop, NEW c \in Chain, NEW new, Moved(l, c, new), Untouched
  PROVE  LoopInv'
  <1>1. LoopTypeOK'
    <2>1. chain' \in [Loop -> [Chain -> ChainRecord]]
      BY DEF LoopInv, LoopTypeOK, Moved, ChainRecord
    <2>2. timer' \in [Loop -> Chain \cup {NoTimer}] /\ inProgress' \in [Loop -> BOOLEAN]
      <3>1. timer \in [Loop -> Chain \cup {NoTimer}] /\ inProgress \in [Loop -> BOOLEAN]
        BY DEF LoopInv, LoopTypeOK
      <3>2. timer' = timer \/ timer' = [timer EXCEPT ![l] = c]
        BY DEF Moved
      <3>3. \/ inProgress' = inProgress
            \/ \E flag \in BOOLEAN : inProgress' = [inProgress EXCEPT ![l] = flag]
        BY DEF Moved
      <3>4. timer' \in [Loop -> Chain \cup {NoTimer}]
        BY <3>1, <3>2
      <3>5. inProgress' \in [Loop -> BOOLEAN]
        BY <3>1, <3>3
      <3> QED
        BY <3>4, <3>5
    <2>3. inFlight' \in Nat
      BY DEF LoopInv, LoopTypeOK, Moved
    <2> QED
      BY <2>1, <2>2, <2>3 DEF LoopInv, LoopTypeOK, Moved, Untouched, ChainRecord
  <1>a. \A k \in Loop : \A d \in Chain :
          chain'[k][d] = IF k = l /\ d = c THEN new ELSE chain[k][d]
    BY DEF LoopInv, LoopTypeOK, Moved
  <1>2. DelayInBounds'
    BY <1>a DEF LoopInv, DelayInBounds, Moved
  <1>3. StoppedOnce'
    BY DEF LoopInv, StoppedOnce, Untouched
  <1>4. ASSUME ~ overlapped'
        PROVE  OneChain' /\ Remembered' /\ BudgetFits'
    <2>1. OneChain /\ Remembered /\ BudgetFits
      BY <1>4 DEF LoopInv, Untouched
    <2>2. \A d \in Chain : Alive(l, d) => d = c
      BY <2>1 DEF OneChain, Moved
    <2>3. OneChain'
      BY <1>a, <2>1, <2>2 DEF OneChain, Alive
    <2>4. Remembered'
      <3> SUFFICES ASSUME NEW k \in Loop, NEW d \in Chain
                   PROVE  /\ chain'[k][d].pc = "armed" => running' /\ timer'[k] = d
                          /\ Working(k, d)' => inProgress'[k]
        BY DEF Remembered
      <3>1. CASE k = l /\ d = c
        BY <1>a, <2>1, <3>1 DEF Remembered, Working, Moved, Untouched, LoopInv, LoopTypeOK
      <3>2. CASE k = l /\ d # c
        BY <1>a, <2>2, <3>2 DEF Alive, Working
      <3>3. CASE k # l
        <4>1. timer'[k] = timer[k] /\ inProgress'[k] = inProgress[k]
          BY <3>3 DEF Moved, LoopInv, LoopTypeOK
        <4> QED
          BY <1>a, <2>1, <3>3, <4>1 DEF Remembered, Working, Untouched
      <3> QED
        BY <3>1, <3>2, <3>3
    <2>5. BudgetFits'
      <3>1. CASE inFlight' = inFlight
        <4>1. \A d \in Chain : chain'["poll"][d].pc = "claim" =>
                chain'["poll"][d].budget + inFlight <= maxConcurrent
          BY <1>a, <2>1, LoopAssumption DEF BudgetFits, Moved, LoopInv, LoopTypeOK, Loop
        <4> QED
          BY <2>1, <3>1, <4>1 DEF BudgetFits
      <3>2. CASE inFlight' # inFlight
        <4>1. /\ l = "poll" /\ chain["poll"][c].pc = "claim" /\ new.pc # "claim"
              /\ inFlight' \in Nat /\ inFlight' <= inFlight + chain["poll"][c].budget
          BY <3>2 DEF Moved
        <4>2. chain["poll"][c].budget + inFlight <= maxConcurrent
          BY <2>1, <4>1 DEF BudgetFits
        <4>3. chain["poll"][c].budget \in Nat /\ inFlight \in Nat
          BY <4>1, LoopAssumption DEF LoopInv, LoopTypeOK
        <4>4. inFlight' <= maxConcurrent
          BY <4>1, <4>2, <4>3, LoopAssumption
        <4>5. \A d \in Chain : chain'["poll"][d].pc # "claim"
          BY <1>a, <2>2, <4>1 DEF Alive
        <4> QED
          BY <4>4, <4>5 DEF BudgetFits
      <3> QED
        BY <3>1, <3>2
    <2> QED
      BY <2>3, <2>4, <2>5
  <1>5. QuietAfterDrain'
    BY DEF LoopInv, QuietAfterDrain, Moved, Untouched
  <1> QED
    BY <1>1, <1>2, <1>3, <1>4, <1>5 DEF LoopInv

LEMMA HandlerSettlesInv ==
  ASSUME LoopInv, HandlerSettles, Untouched
  PROVE  LoopInv'
  <1>1. LoopTypeOK'
    BY DEF LoopInv, LoopTypeOK, HandlerSettles, Untouched, chainVars
  <1>2. DelayInBounds' /\ StoppedOnce'
    BY DEF LoopInv, DelayInBounds, StoppedOnce, HandlerSettles, Untouched, chainVars
  <1>3. ASSUME ~ overlapped'
        PROVE  OneChain' /\ Remembered' /\ BudgetFits'
    <2>1. OneChain /\ Remembered /\ BudgetFits
      BY <1>3 DEF LoopInv, Untouched
    <2>2. OneChain' /\ Remembered'
      BY <2>1 DEF OneChain, Remembered, Alive, Working, HandlerSettles, Untouched, chainVars
    <2>3. inFlight \in Nat /\ inFlight' = inFlight - 1 /\ chain' = chain
      BY DEF LoopInv, LoopTypeOK, HandlerSettles, chainVars
    <2>4. \A c \in Chain : chain["poll"][c].budget \in Nat
      BY LoopAssumption DEF LoopInv, LoopTypeOK, Loop
    <2>5. BudgetFits'
      BY <2>1, <2>3, <2>4, LoopAssumption DEF BudgetFits
    <2> QED
      BY <2>2, <2>5
  <1>4. QuietAfterDrain'
    BY DEF LoopInv, QuietAfterDrain, HandlerSettles, Untouched, chainVars
  <1> QED
    BY <1>1, <1>2, <1>3, <1>4 DEF LoopInv

\* start() installs two chains; if it finds another, overlapped says so.
LEMMA StartInv ==
  ASSUME LoopInv, Start
  PROVE  LoopInv'
  <1>1. CASE running
    <2>1. UNCHANGED <<running, stopping, overlapped, chainVars, inProgress, inFlight, lives, drained>>
      BY <1>1 DEF Start
    <2>2. LoopTypeOK'
      BY <2>1 DEF LoopInv, LoopTypeOK, Start, chainVars
    <2> QED
      BY <2>1, <2>2 DEF LoopInv, chainVars, DelayInBounds, StoppedOnce, OneChain, Remembered,
                        BudgetFits, QuietAfterDrain, Alive, Working
  <1>2. CASE ~ running
    <2> DEFINE new == [NoChain EXCEPT !.pc = "armed", !.delay = interval]
    <2>1. /\ running' = TRUE /\ stopping' = "none"
          /\ overlapped' = (overlapped \/ \E l \in Loop, c \in Chain : Alive(l, c))
          /\ attempts' = [l \in Loop |-> 0]
          /\ UNCHANGED <<inProgress, inFlight, lives, drained>>
          /\ kit' = [kit EXCEPT !.state = "starting"]
      BY <1>2 DEF Start
    <2>2. PICK p \in Chain, s \in Chain :
            /\ timer' = [l \in Loop |-> IF l = "poll" THEN p ELSE s]
            /\ chain' = [l \in Loop |-> [chain[l] EXCEPT ![timer'[l]] = new]]
      BY <1>2 DEF Start
    <2>3. new \in ChainRecord /\ new.pc = "armed" /\ new.delay = interval
      <3>1. 0 \in 0 .. maxConcurrent /\ interval \in Nat
        BY LoopAssumption
      <3> QED
        BY <3>1 DEF ChainRecord, NoChain
    <2> HIDE DEF new
    <2>4. \A l \in Loop : timer'[l] \in Chain
      BY <2>2
    <2>5. \A l \in Loop : \A c \in Chain :
            chain'[l][c] = IF c = timer'[l] THEN new ELSE chain[l][c]
      BY <2>2, <2>4 DEF LoopInv, LoopTypeOK
    <2>6. LoopTypeOK'
      <3>1. chain' \in [Loop -> [Chain -> ChainRecord]]
        BY <2>2, <2>3, <2>4 DEF LoopInv, LoopTypeOK, ChainRecord
      <3>2. timer' \in [Loop -> Chain \cup {NoTimer}] /\ attempts' \in [Loop -> 0 .. MaxFailures]
        BY <2>1, <2>2, LoopAssumption
      <3>3. kit' \in [state : {"idle", "starting", "started", "stopping", "closed"},
                      closeStore : BOOLEAN]
        BY <2>1 DEF LoopInv, LoopTypeOK
      <3>4. overlapped' \in BOOLEAN
        BY <2>1 DEF LoopInv, LoopTypeOK
      <3> QED
        BY <2>1, <3>1, <3>2, <3>3, <3>4 DEF LoopInv, LoopTypeOK, ChainRecord
    <2>7. DelayInBounds'
      <3>1. interval >= interval /\ interval <= AtLeast(interval, BACKOFF_MAX_MS)
        BY LoopAssumption DEF AtLeast
      <3> QED
        BY <2>3, <2>5, <3>1 DEF LoopInv, DelayInBounds
    <2>8. StoppedOnce' /\ QuietAfterDrain'
      BY <2>1 DEF StoppedOnce, QuietAfterDrain
    <2>9. ASSUME ~ overlapped'
          PROVE  OneChain' /\ Remembered' /\ BudgetFits'
      <3>1. ~ overlapped /\ \A l \in Loop : \A c \in Chain : ~ Alive(l, c)
        BY <2>1, <2>9
      <3>2. \A l \in Loop : \A c \in Chain :
              chain'[l][c].pc = IF c = timer'[l] THEN "armed" ELSE "free"
        BY <2>3, <2>5, <3>1 DEF Alive
      <3>3. OneChain' /\ Remembered'
        BY <2>1, <3>2 DEF OneChain, Remembered, Alive, Working
      <3>4. BudgetFits'
        BY <2>1, <3>1, <3>2 DEF LoopInv, BudgetFits, Loop
      <3> QED
        BY <3>3, <3>4
    <2> QED
      BY <2>6, <2>7, <2>8, <2>9 DEF LoopInv
  <1> QED
    BY <1>1, <1>2

\* stop() clears the remembered timers; unless there are others, what is left are
\* cycles at work, and a drain that ends finds none of these either.
LEMMA StopInv ==
  ASSUME LoopInv, NEW drain \in BOOLEAN, NEW closeStore \in BOOLEAN, Stop(drain, closeStore)
  PROVE  LoopInv'
  <1>1. /\ running' = FALSE /\ timer' = [l \in Loop |-> NoTimer]
        /\ stopping' = (IF drain /\ Busy THEN "draining" ELSE "done")
        /\ drained' = (drain /\ ~ Busy)
        /\ kit' = [state |-> "stopping", closeStore |-> closeStore]
        /\ UNCHANGED <<attempts, inProgress, inFlight, lives, overlapped>>
    BY DEF Stop
  <1>2. NoChain \in ChainRecord /\ NoChain.pc = "free"
    <2>1. 0 \in 0 .. maxConcurrent
      BY LoopAssumption
    <2> QED
      BY <2>1 DEF NoChain, ChainRecord
  <1>3. \A l \in Loop : \A c \in Chain :
          chain'[l][c] = IF c = timer[l] /\ chain[l][c].pc = "armed" THEN NoChain ELSE chain[l][c]
    BY DEF Stop
  <1>4. LoopTypeOK'
    <2>1. chain' \in [Loop -> [Chain -> ChainRecord]]
      BY <1>2 DEF LoopInv, LoopTypeOK, Stop, ChainRecord
    <2>2. stopping' \in {"none", "draining", "done"} /\ drained' \in BOOLEAN
      BY <1>1 DEF Busy
    <2> QED
      BY <1>1, <2>1, <2>2 DEF LoopInv, LoopTypeOK, ChainRecord
  <1>5. DelayInBounds' /\ StoppedOnce'
    BY <1>1, <1>2, <1>3 DEF LoopInv, DelayInBounds, StoppedOnce
  <1>6. ASSUME ~ overlapped
        PROVE  \A l \in Loop : \A c \in Chain : Alive(l, c)' => Working(l, c) /\ inProgress[l]
    BY <1>2, <1>3, <1>6 DEF LoopInv, Remembered, Alive, Working
  <1>7. ASSUME ~ overlapped'
        PROVE  OneChain' /\ Remembered' /\ BudgetFits'
    <2>1. ~ overlapped /\ OneChain /\ Remembered /\ BudgetFits
      BY <1>1, <1>7 DEF LoopInv
    <2>2. OneChain'
      BY <1>2, <1>3, <2>1 DEF OneChain, Alive
    <2>3. Remembered'
      <3> SUFFICES ASSUME NEW l \in Loop, NEW c \in Chain, Alive(l, c)'
                   PROVE  chain'[l][c].pc # "armed" /\ inProgress'[l]
        BY DEF Remembered, Alive, Working
      <3>1. Working(l, c) /\ inProgress[l]
        BY <1>6, <2>1
      <3> QED
        BY <1>1, <1>3, <3>1 DEF Working
    <2>4. BudgetFits'
      BY <1>1, <1>2, <1>3, <2>1 DEF BudgetFits, Loop
    <2> QED
      BY <2>2, <2>3, <2>4
  <1>8. QuietAfterDrain'
    <2> SUFFICES ASSUME stopping' = "done", drained', ~ overlapped'
                 PROVE  inFlight' = 0 /\ \A l \in Loop : \A c \in Chain : ~ Alive(l, c)'
      BY DEF QuietAfterDrain
    <2>1. ~ Busy
      BY <1>1
    <2>2. inFlight = 0 /\ \A l \in Loop : ~ inProgress[l]
      BY <2>1 DEF Busy, LoopInv, LoopTypeOK, Loop
    <2> QED
      BY <1>1, <1>6, <2>2
  <1> QED
    BY <1>4, <1>5, <1>7, <1>8 DEF LoopInv

LEMMA DrainInv ==
  ASSUME LoopInv, Drain
  PROVE  LoopInv'
  <1>1. /\ stopping = "draining" /\ stopping' = "done" /\ drained' = ~ Busy
        /\ UNCHANGED <<running, chain, timer, attempts, inProgress, inFlight, kit, lives, overlapped>>
    BY DEF Drain, chainVars
  <1>2. LoopTypeOK'
    BY <1>1 DEF LoopInv, LoopTypeOK, Busy
  <1>3. ~ running /\ DelayInBounds' /\ StoppedOnce'
    BY <1>1 DEF LoopInv, DelayInBounds, StoppedOnce
  <1>4. ~ overlapped' => OneChain' /\ Remembered' /\ BudgetFits'
    BY <1>1 DEF LoopInv, OneChain, Remembered, BudgetFits, Alive, Working
  <1>5. QuietAfterDrain'
    <2> SUFFICES ASSUME drained', ~ overlapped'
                 PROVE  inFlight' = 0 /\ \A l \in Loop : \A c \in Chain : ~ Alive(l, c)'
      BY DEF QuietAfterDrain
    <2>1. inFlight = 0 /\ \A l \in Loop : ~ inProgress[l]
      BY <1>1 DEF Busy, LoopInv, LoopTypeOK, Loop
    <2>2. \A l \in Loop : \A c \in Chain : ~ Alive(l, c)
      BY <1>1, <1>3, <2>1 DEF LoopInv, Remembered, Alive, Working
    <2> QED
      BY <1>1, <2>1, <2>2 DEF Alive
  <1> QED
    BY <1>2, <1>3, <1>4, <1>5 DEF LoopInv

\* The other steps of the life cycle touch neither chains nor handlers.
LEMMA LifeCycleInv ==
  ASSUME LoopInv, Started \/ Close \/ NewKit \/ UNCHANGED loopVars
  PROVE  LoopInv'
  <1>1. UNCHANGED <<running, chain, timer, attempts, inProgress, inFlight, stopping, drained, overlapped>>
    BY DEF Started, Close, NewKit, loopVars, chainVars
  <1>2. lives' \in 1 .. MaxLives
    BY LoopAssumption DEF LoopInv, LoopTypeOK, Started, Close, NewKit, loopVars
  <1>3. kit' \in [state : {"idle", "starting", "started", "stopping", "closed"},
                  closeStore : BOOLEAN]
    <2>1. CASE Started
      BY <2>1 DEF LoopInv, LoopTypeOK, Started
    <2>2. CASE Close
      BY <2>2 DEF LoopInv, LoopTypeOK, Close
    <2>3. CASE NewKit
      BY <2>3 DEF NewKit
    <2>4. CASE UNCHANGED loopVars
      BY <2>4 DEF LoopInv, LoopTypeOK, loopVars
    <2> QED
      BY <2>1, <2>2, <2>3, <2>4
  <1>4. LoopTypeOK'
    BY <1>1, <1>2, <1>3 DEF LoopInv, LoopTypeOK
  <1> QED
    BY <1>1, <1>4 DEF LoopInv, DelayInBounds, StoppedOnce, OneChain, Remembered, BudgetFits,
                      QuietAfterDrain, Alive, Working

-----------------------------------------------------------------------------
\* The inductive invariant holds in every state that is reached.
THEOREM LoopInvariance == LoopSpec => []LoopInv
  <1>1. LoopInit => LoopInv
    BY LoopInitInv
  <1>2. LoopInv /\ [LoopNext]_loopVars => LoopInv'
    <2> SUFFICES ASSUME LoopInv, [LoopNext]_loopVars
                 PROVE  LoopInv'
      OBVIOUS
    <2>1. ASSUME NEW c \in Chain, ChainStep(c), Untouched
          PROVE  LoopInv'
      <3>1. PICK l \in Loop : \E new : Moved(l, c, new)
        BY <2>1, ChainMoves DEF LoopInv
      <3> QED
        BY <2>1, <3>1, MovedInv
    <2>2. CASE HandlerSettles /\ Untouched
      BY <2>2, HandlerSettlesInv
    <2>3. CASE Start
      BY <2>3, StartInv
    <2>4. ASSUME NEW drain \in BOOLEAN, NEW closeStore \in BOOLEAN, Stop(drain, closeStore)
          PROVE  LoopInv'
      BY <2>4, StopInv
    <2>5. CASE Drain
      BY <2>5, DrainInv
    <2>6. CASE Started \/ Close \/ NewKit \/ UNCHANGED loopVars
      BY <2>6, LifeCycleInv
    <2> QED
      BY <2>1, <2>2, <2>3, <2>4, <2>5, <2>6 DEF LoopNext
  <1> QED
    BY <1>1, <1>2, PTL DEF LoopSpec

\* The scheduler's variables keep their types, for any cap, interval and number of
\* lives (LoopTypeOK of the run loop).
THEOREM LoopTypeCorrect == LoopSpec => []LoopTypeOK
  <1>1. LoopInv => LoopTypeOK
    BY DEF LoopInv
  <1> QED
    BY <1>1, LoopInvariance, PTL

\* poll() never starts more handlers than maxConcurrent, for any cap, although it
\* awaits the claim between computing its budget and using it, unless start() met
\* a live chain.
THEOREM CapNeverExceeded == LoopSpec => []CapHolds
  <1>1. LoopInv => CapHolds
    BY LoopAssumption DEF LoopInv, LoopTypeOK, BudgetFits, CapHolds
  <1> QED
    BY <1>1, LoopInvariance, PTL

\* When a drain of stop() has ended with nothing busy, no timer, cycle or handler
\* of the scheduler is left, with the same exception.
THEOREM DrainLeavesNothing == LoopSpec => []QuietAfterDrain
  <1>1. LoopInv => QuietAfterDrain
    BY DEF LoopInv
  <1> QED
    BY <1>1, LoopInvariance, PTL

\* Every delay that scheduleLoop installs lies between the base interval and the cap
\* of the backoff, for any interval, failures in a row and jitter.
THEOREM DelaysBounded == LoopSpec => []DelayInBounds
  <1>1. LoopInv => DelayInBounds
    BY DEF LoopInv
  <1> QED
    BY <1>1, LoopInvariance, PTL

-----------------------------------------------------------------------------
(* The workers and the sweeps. *)

ExecRecord == [pc : {"idle", "handler", "requeue"}, version : Nat,
               attempt : Nat, budget : Nat, exhausted : BOOLEAN]
SweepRecord == [pc : {"idle", "claim", "fail", "backoff"}, version : Nat]

Holds(w) == exec[w].pc # "idle"
HoldsClaim(s) == sweep[s].pc = "fail"
\* A snapshot of the row as it still is.
Handling(w) == exec[w].pc = "handler" /\ exec[w].version = job.version
Failing(s) == sweep[s].pc \in {"claim", "fail"} /\ sweep[s].version = job.version

RowInv ==
    /\ TypeOK
    /\ RowFits(job)
    /\ job.kind \in {"once", "throttle"}
    /\ budget <= job.version

\* The runs of the current budget cover its first n attempts, or all it has.
Ran(n) == runs >= n \/ runs >= MaxAttempts
RunsCounted ==
    /\ job.status = "pending" => Ran(job.attempt)
    /\ job.status = "running" => Ran(job.attempt + 1)
    /\ job.status = "failed" => Ran(MaxAttempts)
    /\ \A w \in Worker : Handling(w) => Ran(exec[w].attempt + 1)
    /\ \A s \in Sweeper : Failing(s) => Ran(MaxAttempts)

\* A claim of the current version began after the latest accepted request.
RunsFresh ==
    /\ job.status = "running" /\ job.claimedVersion = job.version => started = TRUE
    /\ \A w \in Worker : Handling(w) => started = TRUE /\ w \in fresh
    /\ \A s \in Sweeper : Failing(s) => started = TRUE

SnapshotsOld ==
    /\ \A w \in Worker : Holds(w) => exec[w].version <= job.version
    /\ \A s \in Sweeper : sweep[s].version <= job.version

WorkerAlone(w) ==
    /\ job.status = "running" /\ job.claimedVersion = exec[w].version
    /\ exec[w].budget = budget
    /\ exec[w].pc = "requeue" => VersionAdvanced(job)
    /\ \A v \in Worker : Holds(v) => v = w
    /\ \A s \in Sweeper : ~ HoldsClaim(s)
SweeperAlone(s) ==
    /\ job.status = "running" /\ job.claimedVersion = sweep[s].version
    /\ \A t \in Sweeper : HoldsClaim(t) => t = s
\* Nobody has called onFailure for the current budget unless it is spent.
AlarmsSpent ==
    \A b \in 1 .. MaxVersion :
        /\ alarms[b] <= 1
        /\ b > budget \/ (b = budget /\ job.status # "failed") => alarms[b] = 0
OneHolder ==
    /\ \A w \in Worker : Holds(w) => WorkerAlone(w)
    /\ \A s \in Sweeper : HoldsClaim(s) => SweeperAlone(s)
    /\ AlarmsSpent

IInv ==
    /\ RowInv /\ RunsCounted /\ RunsFresh /\ SnapshotsOld
    /\ ~ HandlersOutliveLease => OneHolder

USE WorkersAssumption

-----------------------------------------------------------------------------
(* Types, and the parts of a step. *)

LEMMA Types ==
    ASSUME IInv
    PROVE  /\ job \in Job /\ RowFits(job) /\ At \in Time
           /\ job.version \in Nat /\ job.attempt \in Nat
           /\ runs \in Nat /\ budget \in Nat /\ budget <= job.version
           /\ exec \in [Worker -> ExecRecord] /\ sweep \in [Sweeper -> SweepRecord]
           /\ \A w \in Worker : /\ exec[w].version \in Nat /\ exec[w].attempt \in Nat
                                /\ exec[w].budget \in Nat
           /\ \A s \in Sweeper : sweep[s].version \in Nat
           /\ alarms \in [1 .. MaxVersion -> 0 .. 2]
    BY DEF IInv, RowInv, TypeOK, Job, ExecRecord, SweepRecord, At, Time

\* Worker w moves to the place new.
Placed(w, new) ==
    /\ exec' \in [Worker -> ExecRecord]
    /\ exec'[w] = new
    /\ \A v \in Worker \ {w} : exec'[v] = exec[v]

LEMMA ExecSet ==
    ASSUME IInv, NEW w \in Worker, NEW new \in ExecRecord,
           exec' = [exec EXCEPT ![w] = new]
    PROVE  Placed(w, new)
    BY Types DEF Placed

LEMMA Released ==
    ASSUME IInv, NEW w \in Worker, Release(w)
    PROVE  Placed(w, IdleWorker) /\ IdleWorker.pc = "idle"
    BY Types, ExecSet DEF Release, IdleWorker, ExecRecord

\* Sweeper s moves to the place new.
SweepPlaced(s, new) ==
    /\ sweep' \in [Sweeper -> SweepRecord]
    /\ sweep'[s] = new
    /\ \A t \in Sweeper \ {s} : sweep'[t] = sweep[t]

LEMMA SweepSet ==
    ASSUME IInv, NEW s \in Sweeper, NEW new \in SweepRecord,
           sweep' = [sweep EXCEPT ![s] = new]
    PROVE  SweepPlaced(s, new)
    BY Types DEF SweepPlaced

\* The counters of the model stay in their bounds.
Counted ==
    /\ requests' \in 0 .. MaxRequests
    /\ crashes' \in 0 .. MaxCrashes

LEMMA CountedSteps ==
    ASSUME IInv
    PROVE  /\ UNCHANGED <<requests, crashes>> => Counted
           /\ Request /\ UNCHANGED crashes => Counted
           /\ crashes < MaxCrashes /\ crashes' = crashes + 1 /\ UNCHANGED requests => Counted
    BY DEF IInv, RowInv, TypeOK, Counted, Request

\* onFailure calls are counted up to two.
LEMMA AlarmType ==
    ASSUME IInv, NEW b, Alarm(b)
    PROVE  /\ alarms' \in [1 .. MaxVersion -> 0 .. 2]
           /\ \A c \in 1 .. MaxVersion : c # b => alarms'[c] = alarms[c]
           /\ b \in 1 .. MaxVersion /\ alarms[b] = 0 => alarms'[b] = 1
    <1> DEFINE up == Least(alarms[b] + 1, 2)
    <1>1. b \in 1 .. MaxVersion =>
             up \in 0 .. 2 /\ (alarms[b] = 0 => up = 1)
        BY Types DEF Least
    <1>2. alarms' = [alarms EXCEPT ![b] = up]
        BY DEF Alarm
    <1> HIDE DEF up
    <1>3. QED
        BY <1>1, <1>2, Types

\* A row that is kept, typed or revived, with typed processes and history.
LEMMA RowInvKept ==
    ASSUME IInv, Counted,
           job' \in Job, RowFits(job'), job'.kind = job.kind,
           exec' \in [Worker -> ExecRecord], sweep' \in [Sweeper -> SweepRecord],
           fresh' \in SUBSET Worker, started' \in BOOLEAN,
           runs' \in Nat, budget' \in Nat, budget' <= job'.version,
           alarms' \in [1 .. MaxVersion -> 0 .. 2]
    PROVE  RowInv'
    BY DEF IInv, RowInv, TypeOK, Counted, ExecRecord, SweepRecord

-----------------------------------------------------------------------------
(* A worker. *)

LEMMA PollClaimInv ==
    ASSUME IInv, NEW w \in Worker, PollClaim(w)
    PROVE  IInv'
    <1> USE Types
    <1>1. job.status = "pending" /\ Keeps(job, job')
          /\ Claimed(job', "running", job.version, job.version, job.attempt)
        <2>1. isDebounceSettled(job, At) /\ IsDue(job, job.scheduledFor)
            BY DEF IInv, RowInv, isDebounceSettled, PollClaim
        <2>2. job' = markRunningRow(job, At) /\ CanMarkRunning(job, job.version)
            BY <2>1 DEF claimDueRow, PollClaim, SetRow, IsDue, CanMarkRunning, IsPendingAt
        <2>3. QED
            BY <2>1, <2>2, MarkRunningKeeps, ClaimEffects DEF IsDue
    <1> DEFINE new == [pc |-> "handler", version |-> job.version, attempt |-> job.attempt,
                       budget |-> budget, exhausted |-> FALSE]
    <1>2. Placed(w, new)
        BY ExecSet DEF ExecRecord, PollClaim
    <1>3. RowInv'
        <2>1. Counted /\ alarms' = alarms /\ sweep' = sweep /\ budget' = budget
            BY CountedSteps DEF PollClaim
        <2>2. fresh' \in SUBSET Worker /\ started' \in BOOLEAN /\ runs' \in Nat
            BY DEF PollClaim, IInv, RowInv, TypeOK
        <2>3. QED
            BY <1>1, <1>2, <2>1, <2>2, RowInvKept DEF Keeps, SameSlot, Claimed, Placed
    <1>4. RunsCounted'
        BY <1>1, <1>2 DEF PollClaim, IInv, RunsCounted, Ran, Handling, Failing, Claimed, Placed
    <1>5. RunsFresh'
        BY <1>1, <1>2 DEF PollClaim, IInv, RunsFresh, Handling, Failing, Claimed, Placed
    <1>6. SnapshotsOld'
        BY <1>1, <1>2 DEF PollClaim, IInv, SnapshotsOld, Holds, Claimed, Placed
    <1>7. ASSUME ~ HandlersOutliveLease PROVE OneHolder'
        BY <1>1, <1>2, <1>7 DEF PollClaim, IInv, OneHolder, WorkerAlone, SweeperAlone,
           AlarmsSpent, Holds, HoldsClaim, Claimed, Placed
    <1>8. QED
        BY <1>3, <1>4, <1>5, <1>6, <1>7 DEF IInv

\* A worker that leaves the row to others is no longer any of their concern.
LEMMA ReleaseInv ==
    ASSUME IInv, NEW w \in Worker, Release(w), Counted, sweep' = sweep,
           UNCHANGED <<job, started, budget, runs, alarms>>, fresh' \in {fresh, fresh \ {w}}
    PROVE  IInv'
    <1> USE Types
    <1>1. Placed(w, IdleWorker) /\ IdleWorker.pc = "idle"
        BY Released
    <1>2. RowInv'
        <2>1. fresh' \in SUBSET Worker /\ started \in BOOLEAN
            BY DEF IInv, RowInv, TypeOK
        <2>2. QED
            BY <1>1, <2>1, RowInvKept DEF Placed
    <1>3. RunsCounted'
        BY <1>1 DEF IInv, RunsCounted, Ran, Handling, Failing, Placed
    <1>4. RunsFresh'
        BY <1>1 DEF IInv, RunsFresh, Handling, Failing, Placed
    <1>5. SnapshotsOld'
        BY <1>1 DEF IInv, SnapshotsOld, Holds, Placed
    <1>6. ASSUME ~ HandlersOutliveLease PROVE OneHolder'
        <2>1. OneHolder
            BY <1>6 DEF IInv
        <2>2. \A v \in Worker : Holds(v)' => Holds(v) /\ exec'[v] = exec[v]
            BY <1>1 DEF Holds, Placed
        <2>3. \A v \in Worker : Holds(v)' => WorkerAlone(v)'
            BY <2>1, <2>2 DEF OneHolder, WorkerAlone, HoldsClaim, VersionAdvanced
        <2>4. (\A s \in Sweeper : HoldsClaim(s) => SweeperAlone(s))' /\ AlarmsSpent'
            BY <2>1 DEF OneHolder, SweeperAlone, HoldsClaim, AlarmsSpent
        <2>5. QED
            BY <2>3, <2>4 DEF OneHolder
    <1>7. QED
        BY <1>2, <1>3, <1>4, <1>5, <1>6 DEF IInv

\* A lost compare-and-set changes the worker's place only.  With no holder left
\* behind, the row it lost to is its own claim with new events on it.
LEMMA LostCASInv ==
    ASSUME IInv, NEW w \in Worker, NEW exhausted \in BOOLEAN,
           exec[w].pc = "handler", ~ IsRunningAt(job, exec[w].version),
           LostCAS(w, exhausted), UNCHANGED <<sweep, requests, crashes>>
    PROVE  IInv'
    <1> USE Types
    <1>1. CASE IsPattern(job)
        <2> DEFINE new == [exec[w] EXCEPT !.pc = "requeue", !.exhausted = exhausted]
        <2>1. /\ new \in ExecRecord /\ new.pc = "requeue"
              /\ new.version = exec[w].version /\ new.budget = exec[w].budget
            BY DEF ExecRecord
        <2>2. exec' = [exec EXCEPT ![w] = new] /\ UNCHANGED rowVars
            BY <1>1 DEF LostCAS, ExecRecord
        <2> HIDE DEF new
        <2>3. Placed(w, new)
            BY <2>1, <2>2, ExecSet
        <2>4. RowInv'
            <3>1. fresh \in SUBSET Worker /\ started \in BOOLEAN
                BY DEF IInv, RowInv, TypeOK
            <3>2. QED
                BY <2>2, <2>3, <3>1, CountedSteps, RowInvKept DEF Placed, rowVars
        <2>5. RunsCounted'
            BY <2>1, <2>2, <2>3 DEF IInv, RunsCounted, Ran, Handling, Failing, Placed, rowVars
        <2>6. RunsFresh'
            BY <2>1, <2>2, <2>3 DEF IInv, RunsFresh, Handling, Failing, Placed, rowVars
        <2>7. SnapshotsOld'
            BY <2>1, <2>2, <2>3 DEF IInv, SnapshotsOld, Holds, Placed, rowVars
        <2>8. ASSUME ~ HandlersOutliveLease PROVE OneHolder'
            <3>1. WorkerAlone(w) /\ OneHolder
                BY <2>8 DEF IInv, OneHolder, Holds
            <3>2. VersionAdvanced(job)
                BY <1>1, <3>1, NoneAssumption DEF WorkerAlone, VersionAdvanced, IsRunningAt,
                   IInv, SnapshotsOld, Holds
            <3>3. QED
                BY <2>1, <2>2, <2>3, <3>1, <3>2 DEF OneHolder, WorkerAlone, SweeperAlone,
                   AlarmsSpent, Holds, HoldsClaim, VersionAdvanced, Placed, rowVars
        <2>9. QED
            BY <2>4, <2>5, <2>6, <2>7, <2>8 DEF IInv
    <1>2. CASE ~ IsPattern(job)
        BY <1>2, CountedSteps, ReleaseInv DEF LostCAS, rowVars
    <1>3. QED
        BY <1>1, <1>2

\* A worker that settles its claim leaves a row nobody holds, at its version and
\* with what its own run has earned.
LEMMA SettledInv ==
    ASSUME IInv, NEW w \in Worker, NEW status \in {"pending", "completed", "failed"},
           NEW attempt \in Nat, Release(w), Counted, sweep' = sweep,
           UNCHANGED <<fresh, started, budget, runs>>,
           Keeps(job, job'), job'.status = status, job'.version = job.version,
           job'.attempt = attempt,
           status = "pending" => Ran(attempt), status = "failed" => Ran(MaxAttempts),
           Handling(w), job.status = "running",
           \/ alarms' = alarms
           \/ Alarm(exec[w].budget) /\ status = "failed"
    PROVE  IInv'
    <1> USE Types
    <1>1. Placed(w, IdleWorker) /\ IdleWorker.pc = "idle"
        BY Released
    <1>2. RowInv'
        <2>1. fresh \in SUBSET Worker /\ started \in BOOLEAN
            BY DEF IInv, RowInv, TypeOK
        <2>2. alarms' \in [1 .. MaxVersion -> 0 .. 2]
            BY AlarmType
        <2>3. QED
            BY <1>1, <2>1, <2>2, RowInvKept DEF Placed, Keeps, SameSlot
    <1>3. RunsCounted'
        BY <1>1 DEF IInv, RunsCounted, Ran, Handling, Failing, Placed
    <1>4. RunsFresh'
        BY <1>1 DEF IInv, RunsFresh, Handling, Failing, Placed
    <1>5. SnapshotsOld'
        BY <1>1 DEF IInv, SnapshotsOld, Holds, Placed
    <1>6. ASSUME ~ HandlersOutliveLease PROVE OneHolder'
        <2>1. WorkerAlone(w) /\ OneHolder
            BY <1>6 DEF IInv, OneHolder, Holds, Handling
        <2>2. (\A v \in Worker : ~ Holds(v)') /\ (\A s \in Sweeper : ~ HoldsClaim(s)')
            BY <1>1, <2>1 DEF WorkerAlone, Holds, HoldsClaim, Placed
        <2>3. AlarmsSpent'
            <3>1. CASE alarms' = alarms
                BY <2>1, <3>1 DEF WorkerAlone, OneHolder, AlarmsSpent
            <3>2. CASE Alarm(budget) /\ status = "failed"
                <4>1. \A b \in 1 .. MaxVersion :
                         /\ b # budget => alarms'[b] = alarms[b]
                         /\ b = budget /\ alarms[b] = 0 => alarms'[b] = 1
                    BY <3>2, AlarmType
                <4>2. QED
                    BY <2>1, <3>2, <4>1 DEF OneHolder, AlarmsSpent
            <3>3. QED
                BY <2>1, <3>1, <3>2 DEF WorkerAlone
        <2>4. QED
            BY <2>2, <2>3 DEF OneHolder
    <1>7. QED
        BY <1>2, <1>3, <1>4, <1>5, <1>6 DEF IInv

LEMMA HandlerSucceedsInv ==
    ASSUME IInv, NEW w \in Worker, HandlerSucceeds(w)
    PROVE  IInv'
    <1> USE Types
    <1>1. CASE CanMarkCompleted(job, exec[w].version)
        <2>1. job' = markCompletedRow(job, At) /\ Release(w)
              /\ UNCHANGED <<fresh, started, budget, runs, alarms, sweep, requests, crashes>>
            BY <1>1 DEF HandlerSucceeds, Write, SetRow
        <2>2. Handling(w) /\ job.status = "running"
            BY <1>1 DEF HandlerSucceeds, Handling, CanMarkCompleted, IsRunningAt
        <2>3. Keeps(job, job')
              /\ Claimed(job', "completed", job.version, job.claimedVersion, job.attempt)
            BY <1>1, <2>1, MarkCompletedKeeps, ClaimEffects
        <2>4. QED
            BY <2>1, <2>2, <2>3, CountedSteps, SettledInv DEF Claimed
    <1>2. CASE ~ CanMarkCompleted(job, exec[w].version)
        BY <1>2, LostCASInv DEF HandlerSucceeds, CanMarkCompleted
    <1>3. QED
        BY <1>1, <1>2

LEMMA HandlerFailsRetryableInv ==
    ASSUME IInv, NEW w \in Worker, HandlerFailsRetryable(w)
    PROVE  IInv'
    <1> USE Types
    <1>1. CASE CanRetryJob(job, exec[w].version)
        <2> DEFINE next == exec[w].attempt + 1
        <2>1. job' = retryJobRow(job, next, At) /\ Release(w)
              /\ UNCHANGED <<fresh, started, budget, runs, alarms, sweep, requests, crashes>>
            BY <1>1 DEF HandlerFailsRetryable, Write, SetRow
        <2>2. Handling(w) /\ job.status = "running"
            BY <1>1 DEF HandlerFailsRetryable, Handling, CanRetryJob, IsRunningAt
        <2>3. next \in Nat /\ Ran(next)
            BY <2>2 DEF IInv, RunsCounted
        <2>4. Keeps(job, job') /\ Claimed(job', "pending", job.version, None, next)
            BY <1>1, <2>1, <2>3, RetryKeeps, ClaimEffects
        <2> HIDE DEF next
        <2>5. QED
            BY <2>1, <2>2, <2>3, <2>4, CountedSteps, SettledInv DEF Claimed
    <1>2. CASE ~ CanRetryJob(job, exec[w].version)
        BY <1>2, LostCASInv DEF HandlerFailsRetryable, CanRetryJob
    <1>3. QED
        BY <1>1, <1>2

LEMMA HandlerFailsExhaustedInv ==
    ASSUME IInv, NEW w \in Worker, HandlerFailsExhausted(w)
    PROVE  IInv'
    <1> USE Types
    <1>1. CASE CanMarkFailed(job, exec[w].version)
        <2>1. PICK reason \in {"handler_error", "timeout"} :
                 WriteAndAlarm(markFailedRow(job, reason, At), exec[w].budget)
            BY <1>1 DEF HandlerFailsExhausted
        <2>2. /\ job' = markFailedRow(job, reason, At) /\ Alarm(exec[w].budget)
              /\ Release(w)
              /\ UNCHANGED <<fresh, started, budget, runs, sweep, requests, crashes>>
            BY <1>1, <2>1 DEF HandlerFailsExhausted, WriteAndAlarm, SetRow
        <2>3. Handling(w) /\ job.status = "running"
            BY <1>1 DEF HandlerFailsExhausted, Handling, CanMarkFailed, IsRunningAt
        <2>4. Ran(MaxAttempts)
            BY <2>3 DEF HandlerFailsExhausted, RetriesLeft, IInv, RunsCounted, Ran
        <2>5. Keeps(job, job')
              /\ Claimed(job', "failed", job.version, job.claimedVersion, job.attempt)
            BY <1>1, <2>2, MarkFailedKeeps, ClaimEffects DEF FailureReason
        <2>6. QED
            BY <2>2, <2>3, <2>4, <2>5, CountedSteps, SettledInv DEF Claimed
    <1>2. CASE ~ CanMarkFailed(job, exec[w].version)
        BY <1>2, LostCASInv DEF HandlerFailsExhausted, CanMarkFailed
    <1>3. QED
        BY <1>1, <1>2

-----------------------------------------------------------------------------
(* Steps that start the attempts over. *)

\* Every snapshot is of an older version from here on.
LEMMA StartedOverInv ==
    ASSUME IInv, Counted,
           job' \in Job, RowFits(job'), job'.kind = job.kind,
           Claimed(job', "pending", job.version + 1, job'.claimedVersion, 0),
           budget' = job'.version, runs' = 0,
           fresh' \in SUBSET Worker, started' \in BOOLEAN,
           exec' \in [Worker -> ExecRecord],
           \A v \in Worker : exec'[v] = exec[v] \/ exec'[v].pc = "idle",
           sweep' \in [Sweeper -> SweepRecord],
           \A t \in Sweeper : \/ sweep'[t] = sweep[t]
                              \/ sweep'[t].pc \notin {"claim", "fail"}
                                 /\ sweep'[t].version <= job'.version,
           alarms' \in [1 .. MaxVersion -> 0 .. 2],
           ~ HandlersOutliveLease =>
              /\ \A v \in Worker : ~ Holds(v)'
              /\ \A t \in Sweeper : ~ HoldsClaim(t)'
              /\ alarms' = alarms \/ (Alarm(budget) /\ job.status # "failed")
    PROVE  IInv'
    <1> USE Types DEF Claimed
    <1>1. RowInv'
        BY RowInvKept
    <1>2. SnapshotsOld'
        BY DEF IInv, SnapshotsOld, Holds
    <1>3. /\ \A v \in Worker : ~ Handling(v)'
          /\ \A t \in Sweeper : ~ Failing(t)'
        <2>1. job'.version > job.version
            OBVIOUS
        <2>2. ASSUME NEW v \in Worker PROVE ~ Handling(v)'
            BY <2>1 DEF IInv, SnapshotsOld, Holds, Handling
        <2>3. ASSUME NEW t \in Sweeper PROVE ~ Failing(t)'
            BY <2>1 DEF IInv, SnapshotsOld, Failing
        <2>4. QED
            BY <2>2, <2>3
    <1>4. RunsCounted' /\ RunsFresh'
        BY <1>3 DEF RunsCounted, RunsFresh, Ran
    <1>5. ASSUME ~ HandlersOutliveLease PROVE OneHolder'
        <2>1. \A b \in 1 .. MaxVersion :
                 \/ alarms'[b] = alarms[b]
                 \/ b = budget /\ job.status # "failed" /\ (alarms[b] = 0 => alarms'[b] = 1)
            BY <1>5, AlarmType
        <2>2. AlarmsSpent'
            <3>1. AlarmsSpent /\ budget < budget'
                BY <1>5 DEF IInv, OneHolder
            <3>2. QED
                BY <2>1, <3>1 DEF AlarmsSpent
        <2>3. QED
            BY <1>5, <2>2 DEF OneHolder
    <1>6. QED
        BY <1>1, <1>2, <1>4, <1>5 DEF IInv

LEMMA HandlerReschedulesInv ==
    ASSUME IInv, NEW w \in Worker, HandlerReschedules(w)
    PROVE  IInv'
    <1> USE Types
    <1>1. Counted /\ Release(w) /\ sweep' = sweep /\ exec[w].pc = "handler"
        BY CountedSteps DEF HandlerReschedules
    <1>2. CASE CanRescheduleJob(job, exec[w].version)
        <2>1. /\ job' = rescheduleJobRow(job, At) /\ budget' = job'.version /\ runs' = 0
              /\ fresh' = {} /\ started' = FALSE /\ alarms' = alarms
            BY <1>2 DEF HandlerReschedules, AcceptAnew, StartOver, SetRow, Accept
        <2>2. Keeps(job, job') /\ Claimed(job', "pending", job.version + 1, None, 0)
            BY <1>2, <2>1, RescheduleKeeps, VersionEffects
        <2>3. Placed(w, IdleWorker) /\ IdleWorker.pc = "idle"
            BY <1>1, Released
        <2>4. ASSUME ~ HandlersOutliveLease
              PROVE  (\A v \in Worker : ~ Holds(v)') /\ (\A t \in Sweeper : ~ HoldsClaim(t)')
            BY <1>1, <2>3, <2>4 DEF IInv, OneHolder, WorkerAlone, Holds, HoldsClaim, Placed
        <2>5. QED
            BY <1>1, <2>1, <2>2, <2>3, <2>4, StartedOverInv
               DEF Keeps, SameSlot, Claimed, Placed
    <1>3. CASE ~ CanRescheduleJob(job, exec[w].version)
        BY <1>1, <1>3, ReleaseInv DEF HandlerReschedules, rowVars
    <1>4. QED
        BY <1>2, <1>3

\* The budget an exhausted run alarms for is the one that ends here, unless a
\* zombie requeues a window it no longer holds.
LEMMA RequeueWindowInv ==
    ASSUME IInv, NEW w \in Worker, RequeueWindow(w)
    PROVE  IInv'
    <1> USE Types
    <1>1. Counted /\ Release(w) /\ sweep' = sweep /\ Holds(w)
        BY CountedSteps DEF RequeueWindow, Holds
    <1>2. CASE CanRequeueForNextWindow(job)
        <2>1. /\ job' = requeueForNextWindowRow(job) /\ budget' = job'.version /\ runs' = 0
              /\ UNCHANGED <<fresh, started>>
              /\ alarms' = alarms \/ Alarm(exec[w].budget)
              /\ alarms' \in [1 .. MaxVersion -> 0 .. 2]
            BY <1>2, AlarmType DEF RequeueWindow, StartOver, SetRow
        <2>2. Keeps(job, job') /\ Claimed(job', "pending", job.version + 1, None, 0)
            BY <1>2, <2>1, RequeueKeeps, VersionEffects
        <2>3. Placed(w, IdleWorker) /\ IdleWorker.pc = "idle"
            BY <1>1, Released
        <2>4. ASSUME ~ HandlersOutliveLease
              PROVE  /\ \A v \in Worker : ~ Holds(v)'
                     /\ \A t \in Sweeper : ~ HoldsClaim(t)'
                     /\ exec[w].budget = budget /\ job.status # "failed"
            BY <1>1, <2>3, <2>4 DEF IInv, OneHolder, WorkerAlone, Holds, HoldsClaim, Placed
        <2>5. fresh \in SUBSET Worker /\ started \in BOOLEAN
            BY DEF IInv, RowInv, TypeOK
        <2>6. QED
            BY <1>1, <2>1, <2>2, <2>3, <2>4, <2>5, StartedOverInv
               DEF Keeps, SameSlot, Claimed, Placed
    <1>3. CASE ~ CanRequeueForNextWindow(job)
        BY <1>1, <1>3, ReleaseInv DEF RequeueWindow, rowVars
    <1>4. QED
        BY <1>2, <1>3

-----------------------------------------------------------------------------
(* Recovery of stalled claims. *)

LEMMA CrashInv ==
    ASSUME IInv, NEW w \in Worker, Crash(w)
    PROVE  IInv'
    BY CountedSteps, ReleaseInv DEF Crash

\* Without new events the running row is at the version it was claimed at.
LEMMA ClaimIsCurrent ==
    ASSUME IInv, job.status = "running", ~ VersionAdvanced(job)
    PROVE  job.claimedVersion = job.version
    BY Types, NoneAssumption DEF RowFits, ClaimMatches, VersionAdvanced, Job

\* A reclaim, and what a sweep that made it does next, in either of its cases.
LEMMA ReclaimInv ==
    ASSUME IInv, Reclaim, exec' = exec, UNCHANGED <<requests, crashes>>,
           sweep' \in [Sweeper -> SweepRecord],
           \A t \in Sweeper :
              \/ sweep'[t] = sweep[t]
              \/ /\ sweep'[t].version = job'.version /\ sweep'[t].pc # "fail"
                 /\ sweep'[t].pc = "claim" => job'.attempt >= MaxAttempts
    PROVE  IInv'
    <1> USE Types
    <1>1. Counted /\ job.status = "running"
        BY CountedSteps DEF Reclaim, LeaseOver
    <1>2. ASSUME ~ HandlersOutliveLease
          PROVE  (\A v \in Worker : ~ Holds(v)) /\ (\A t \in Sweeper : ~ HoldsClaim(t))
        BY <1>2 DEF Reclaim, LeaseOver, Holds, HoldsClaim
    <1>3. fresh \in SUBSET Worker /\ started \in BOOLEAN
        BY DEF IInv, RowInv, TypeOK
    <1>4. job' = reclaimRow(job) /\ Keeps(job, job')
        BY <1>1, ReclaimKeeps DEF Reclaim, StartOver, Write, SetRow
    <1>5. CASE VersionAdvanced(job)
        <2>1. Claimed(job', "pending", job.version + 1, None, 0)
            BY <1>4, <1>5, ReclaimEffects
        <2>2. budget' = job'.version /\ runs' = 0 /\ UNCHANGED <<fresh, started, alarms>>
            BY <1>4, <1>5 DEF Reclaim, StartOver
        <2>3. ASSUME ~ HandlersOutliveLease
              PROVE  (\A v \in Worker : ~ Holds(v)') /\ (\A t \in Sweeper : ~ HoldsClaim(t)')
            BY <1>2, <2>3 DEF Holds, HoldsClaim
        <2>4. \A t \in Sweeper : \/ sweep'[t] = sweep[t]
                                 \/ sweep'[t].pc \notin {"claim", "fail"}
                                    /\ sweep'[t].version <= job'.version
            BY <2>1 DEF Claimed
        <2>5. QED
            BY <1>1, <1>3, <1>4, <2>1, <2>2, <2>3, <2>4, StartedOverInv
               DEF Keeps, SameSlot, Claimed
    <1>6. CASE ~ VersionAdvanced(job)
        <2>1. Claimed(job', "pending", job.version, None, job.attempt + 1)
            BY <1>4, <1>6, ReclaimEffects
        <2>2. UNCHANGED <<fresh, started, budget, runs, alarms>>
            BY <1>6 DEF Reclaim, Write
        <2>3. RowInv'
            BY <1>1, <1>3, <1>4, <2>1, <2>2, RowInvKept DEF Keeps, SameSlot, Claimed
        <2>4. RunsCounted'
            BY <1>1, <2>1, <2>2 DEF IInv, RunsCounted, Ran, Handling, Failing, Claimed
        <2>5. RunsFresh'
            BY <1>1, <1>6, <2>1, <2>2, ClaimIsCurrent
               DEF IInv, RunsFresh, Handling, Failing, Claimed
        <2>6. SnapshotsOld'
            BY <2>1 DEF IInv, SnapshotsOld, Holds, Claimed
        <2>7. ASSUME ~ HandlersOutliveLease PROVE OneHolder'
            BY <1>1, <1>2, <2>1, <2>2, <2>7
               DEF IInv, OneHolder, AlarmsSpent, Holds, HoldsClaim, Claimed
        <2>8. QED
            BY <2>3, <2>4, <2>5, <2>6, <2>7 DEF IInv
    <1>7. QED
        BY <1>5, <1>6

LEMMA SweepReclaimInv ==
    ASSUME IInv, NEW s \in Sweeper, SweepReclaim(s)
    PROVE  IInv'
    <1> USE Types
    <1> DEFINE new == [pc |-> IF job'.attempt >= MaxAttempts THEN "claim"
                              ELSE IF job'.attempt > 0 THEN "backoff" ELSE "idle",
                       version |-> job'.version]
    <1>1. job.status = "running" /\ job' = reclaimRow(job)
        BY DEF SweepReclaim, Reclaim, LeaseOver, StartOver, Write, SetRow
    <1>2. job' \in Job
        BY <1>1, ReclaimKeeps DEF Keeps
    <1>3. new \in SweepRecord
        BY <1>2 DEF Job, SweepRecord
    <1>4. /\ new.version = job'.version /\ new.pc # "fail"
          /\ new.pc = "claim" => job'.attempt >= MaxAttempts
        OBVIOUS
    <1>5. sweep' = [sweep EXCEPT ![s] = new]
        BY DEF SweepReclaim
    <1> HIDE DEF new
    <1>6. SweepPlaced(s, new)
        BY <1>3, <1>5, SweepSet
    <1>7. QED
        BY <1>4, <1>6, ReclaimInv DEF SweepReclaim, SweepPlaced

LEMMA DkPollReclaimInv ==
    ASSUME IInv, DkPollReclaim
    PROVE  IInv'
    BY Types, ReclaimInv DEF DkPollReclaim

\* A sweep that gives up its place.
LEMMA SweepIdleInv ==
    ASSUME IInv, NEW s \in Sweeper, sweep' = [sweep EXCEPT ![s] = IdleSweeper],
           Counted, exec' = exec, UNCHANGED <<fresh, started, budget, runs, alarms>>,
           Keeps(job, job'),
           Claimed(job', job.status, job.version, job.claimedVersion, job.attempt)
    PROVE  IInv'
    <1> USE Types DEF Claimed
    <1>1. SweepPlaced(s, IdleSweeper) /\ IdleSweeper.pc = "idle" /\ IdleSweeper.version = 0
        BY SweepSet DEF IdleSweeper, SweepRecord
    <1>2. RowInv'
        <2>1. fresh \in SUBSET Worker /\ started \in BOOLEAN
            BY DEF IInv, RowInv, TypeOK
        <2>2. QED
            BY <1>1, <2>1, RowInvKept DEF SweepPlaced, Keeps, SameSlot
    <1>3. RunsCounted'
        BY <1>1 DEF IInv, RunsCounted, Ran, Handling, Failing, SweepPlaced
    <1>4. RunsFresh'
        BY <1>1 DEF IInv, RunsFresh, Handling, Failing, SweepPlaced
    <1>5. SnapshotsOld'
        BY <1>1 DEF IInv, SnapshotsOld, Holds, SweepPlaced
    <1>6. ASSUME ~ HandlersOutliveLease PROVE OneHolder'
        <2>1. VersionAdvanced(job') <=> VersionAdvanced(job)
            BY DEF VersionAdvanced, IsPattern, Keeps, SameSlot
        <2>2. QED
            BY <1>1, <1>6, <2>1 DEF IInv, OneHolder, WorkerAlone, SweeperAlone, AlarmsSpent,
               Holds, HoldsClaim, SweepPlaced
    <1>7. QED
        BY <1>2, <1>3, <1>4, <1>5, <1>6 DEF IInv

\* The row keeps its fields when it is not written.
LEMMA SameRow ==
    ASSUME IInv, job' = job
    PROVE  Keeps(job, job')
           /\ Claimed(job', job.status, job.version, job.claimedVersion, job.attempt)
    BY Types DEF Keeps, SameSlot, Claimed

LEMMA SweepTerminalClaimInv ==
    ASSUME IInv, NEW s \in Sweeper, SweepTerminalClaim(s)
    PROVE  IInv'
    <1> USE Types
    <1>1. Counted /\ exec' = exec /\ sweep[s].pc = "claim"
        BY CountedSteps DEF SweepTerminalClaim
    <1>2. CASE CanMarkRunning(job, sweep[s].version)
        <2> DEFINE new == [sweep[s] EXCEPT !.pc = "fail"]
        <2>1. /\ new \in SweepRecord /\ new.pc = "fail" /\ new.version = sweep[s].version
              /\ sweep' = [sweep EXCEPT ![s] = new]
            BY <1>2 DEF SweepTerminalClaim, SweepRecord
        <2> HIDE DEF new
        <2>2. SweepPlaced(s, new)
            BY <2>1, SweepSet
        <2>3. job' = markRunningRow(job, At)
              /\ UNCHANGED <<fresh, started, budget, runs, alarms>>
            BY <1>2 DEF SweepTerminalClaim, Write, SetRow
        <2>4. /\ job.status = "pending" /\ job.version = sweep[s].version
              /\ Failing(s)
            BY <1>1, <1>2 DEF CanMarkRunning, IsPendingAt, Failing
        <2>5. Keeps(job, job')
              /\ Claimed(job', "running", job.version, job.version, job.attempt)
            BY <1>2, <2>3, MarkRunningKeeps, ClaimEffects
        <2>6. RowInv'
            <3>1. fresh \in SUBSET Worker /\ started \in BOOLEAN
                BY DEF IInv, RowInv, TypeOK
            <3>2. QED
                BY <1>1, <2>2, <2>3, <2>5, <3>1, RowInvKept
                   DEF Keeps, SameSlot, Claimed, SweepPlaced
        <2>7. RunsCounted'
            BY <1>1, <2>1, <2>2, <2>3, <2>4, <2>5
               DEF IInv, RunsCounted, Ran, Handling, Failing, Claimed, SweepPlaced
        <2>8. RunsFresh'
            BY <1>1, <2>1, <2>2, <2>3, <2>4, <2>5
               DEF IInv, RunsFresh, Handling, Failing, Claimed, SweepPlaced
        <2>9. SnapshotsOld'
            BY <1>1, <2>1, <2>2, <2>4, <2>5
               DEF IInv, SnapshotsOld, Holds, Claimed, SweepPlaced
        <2>10. ASSUME ~ HandlersOutliveLease PROVE OneHolder'
            BY <1>1, <2>1, <2>2, <2>3, <2>4, <2>5, <2>10
               DEF IInv, OneHolder, WorkerAlone, SweeperAlone, AlarmsSpent,
                   Holds, HoldsClaim, Claimed, SweepPlaced
        <2>11. QED
            BY <2>6, <2>7, <2>8, <2>9, <2>10 DEF IInv
    <1>3. CASE ~ CanMarkRunning(job, sweep[s].version)
        BY <1>1, <1>3, SameRow, SweepIdleInv DEF SweepTerminalClaim, rowVars
    <1>4. QED
        BY <1>2, <1>3

LEMMA SweepTerminalFailInv ==
    ASSUME IInv, NEW s \in Sweeper, SweepTerminalFail(s)
    PROVE  IInv'
    <1> USE Types
    <1>1. /\ Counted /\ exec' = exec /\ HoldsClaim(s)
          /\ sweep' = [sweep EXCEPT ![s] = IdleSweeper]
        BY CountedSteps DEF SweepTerminalFail, HoldsClaim
    <1>2. CASE CanMarkFailed(job, sweep[s].version)
        <2>1. SweepPlaced(s, IdleSweeper) /\ IdleSweeper.pc = "idle" /\ IdleSweeper.version = 0
            BY <1>1, SweepSet DEF IdleSweeper, SweepRecord
        <2>2. job' = markFailedRow(job, "stalled", At) /\ Alarm(budget)
              /\ UNCHANGED <<fresh, started, budget, runs>>
            BY <1>2 DEF SweepTerminalFail, WriteAndAlarm, SetRow
        <2>3. job.status = "running" /\ Failing(s)
            BY <1>1, <1>2 DEF CanMarkFailed, IsRunningAt, Failing, HoldsClaim
        <2>4. Keeps(job, job')
              /\ Claimed(job', "failed", job.version, job.claimedVersion, job.attempt)
            BY <1>2, <2>2, MarkFailedKeeps, ClaimEffects DEF FailureReason
        <2>5. RowInv'
            <3>1. fresh \in SUBSET Worker /\ started \in BOOLEAN
                  /\ alarms' \in [1 .. MaxVersion -> 0 .. 2]
                BY <2>2, AlarmType DEF IInv, RowInv, TypeOK
            <3>2. QED
                BY <1>1, <2>1, <2>2, <2>4, <3>1, RowInvKept
                   DEF Keeps, SameSlot, Claimed, SweepPlaced
        <2>6. RunsCounted'
            BY <1>1, <2>1, <2>2, <2>3, <2>4
               DEF IInv, RunsCounted, Ran, Handling, Failing, Claimed, SweepPlaced
        <2>7. RunsFresh'
            BY <1>1, <2>1, <2>2, <2>4
               DEF IInv, RunsFresh, Handling, Failing, Claimed, SweepPlaced
        <2>8. SnapshotsOld'
            BY <1>1, <2>1, <2>4 DEF IInv, SnapshotsOld, Holds, Claimed, SweepPlaced
        <2>9. ASSUME ~ HandlersOutliveLease PROVE OneHolder'
            <3>1. (\A v \in Worker : ~ Holds(v)) /\ SweeperAlone(s) /\ AlarmsSpent
                BY <1>1, <2>9 DEF IInv, OneHolder, WorkerAlone
            <3>2. (\A v \in Worker : ~ Holds(v)') /\ (\A t \in Sweeper : ~ HoldsClaim(t)')
                BY <1>1, <2>1, <3>1 DEF SweeperAlone, Holds, HoldsClaim, SweepPlaced
            <3>3. \A b \in 1 .. MaxVersion :
                     /\ b # budget => alarms'[b] = alarms[b]
                     /\ b = budget /\ alarms[b] = 0 => alarms'[b] = 1
                BY <2>2, AlarmType
            <3>4. AlarmsSpent'
                BY <2>2, <2>3, <2>4, <3>1, <3>3 DEF AlarmsSpent, Claimed
            <3>5. QED
                BY <3>2, <3>4 DEF OneHolder
        <2>10. QED
            BY <2>5, <2>6, <2>7, <2>8, <2>9 DEF IInv
    <1>3. CASE ~ CanMarkFailed(job, sweep[s].version)
        BY <1>1, <1>3, SameRow, SweepIdleInv DEF SweepTerminalFail, rowVars
    <1>4. QED
        BY <1>2, <1>3

LEMMA SweepBackoffInv ==
    ASSUME IInv, NEW s \in Sweeper, SweepBackoff(s)
    PROVE  IInv'
    <1>1. job' = updateScheduledForRow(job, job.scheduledFor) /\ job.scheduledFor \in Time
        BY Types DEF SweepBackoff, Write, SetRow, Job
    <1>2. Keeps(job, job')
          /\ Claimed(job', job.status, job.version, job.claimedVersion, job.attempt)
        BY <1>1, Types, UpdateScheduledForKeeps, ClaimEffects
    <1>3. QED
        BY <1>2, CountedSteps, SweepIdleInv DEF SweepBackoff, Write

LEMMA SweepCrashInv ==
    ASSUME IInv, NEW s \in Sweeper, SweepCrash(s)
    PROVE  IInv'
    BY SameRow, CountedSteps, SweepIdleInv DEF SweepCrash, rowVars

-----------------------------------------------------------------------------
(* Client calls. *)

\* An event counts the version up and leaves the claim where it is.
LEMMA PatternEventInv ==
    ASSUME IInv, PatternEvent
    PROVE  IInv'
    <1> USE Types
    <1>1. /\ Counted /\ exec' = exec /\ sweep' = sweep
          /\ job' = updatePatternEventRow(job, At)
          /\ fresh' = {} /\ started' = FALSE /\ UNCHANGED <<budget, runs, alarms>>
        BY CountedSteps DEF PatternEvent, AcceptEvent, SetRow, Accept
    <1>2. Keeps(job, job')
          /\ Claimed(job', job.status, job.version + 1, job.claimedVersion, job.attempt)
        BY <1>1, PatternEventKeeps, VersionEffects DEF PatternEvent, Kind
    <1>3. RowInv'
        <2>1. fresh' \in SUBSET Worker /\ started' \in BOOLEAN
            BY <1>1
        <2>2. budget' \in Nat /\ budget' <= job'.version
            BY <1>1, <1>2 DEF Claimed
        <2>3. QED
            BY <1>1, <1>2, <2>1, <2>2, RowInvKept DEF Keeps, SameSlot
    <1>4. SnapshotsOld'
        BY <1>1, <1>2 DEF IInv, SnapshotsOld, Holds, Claimed
    <1>5. /\ \A v \in Worker : ~ Handling(v)'
          /\ \A t \in Sweeper : ~ Failing(t)'
        BY <1>1, <1>2 DEF IInv, SnapshotsOld, Holds, Handling, Failing, Claimed
    <1>6. RunsCounted'
        BY <1>1, <1>2, <1>5 DEF IInv, RunsCounted, Ran, Claimed
    <1>7. RunsFresh'
        <2>1. job.status = "running" => job'.claimedVersion # job'.version
            BY <1>2 DEF RowFits, ClaimMatches, Claimed
        <2>2. QED
            BY <1>2, <1>5, <2>1 DEF RunsFresh, Claimed
    <1>8. ASSUME ~ HandlersOutliveLease PROVE OneHolder'
        <2>1. VersionAdvanced(job) => VersionAdvanced(job')
            BY <1>2 DEF VersionAdvanced, IsPattern, Keeps, SameSlot, Claimed, Job
        <2>2. QED
            BY <1>1, <1>2, <1>8, <2>1 DEF IInv, OneHolder, WorkerAlone, SweeperAlone,
               AlarmsSpent, Holds, HoldsClaim, Claimed
    <1>9. QED
        BY <1>3, <1>4, <1>6, <1>7, <1>8 DEF IInv

\* Nobody holds a row that is not running.
LEMMA NotRunningFree ==
    ASSUME IInv, ~ HandlersOutliveLease, job.status # "running"
    PROVE  (\A v \in Worker : ~ Holds(v)) /\ (\A t \in Sweeper : ~ HoldsClaim(t))
    BY DEF IInv, OneHolder, WorkerAlone, SweeperAlone

LEMMA ReplaceInv ==
    ASSUME IInv, Replace
    PROVE  IInv'
    <1> USE Types
    <1>1. /\ Counted /\ exec' = exec /\ sweep' = sweep /\ job.status = "pending"
          /\ job' = replaceJobRow(job, At, MaxAttempts) /\ budget' = job'.version
          /\ runs' = 0 /\ fresh' = {} /\ started' = FALSE /\ alarms' = alarms
        BY CountedSteps DEF Replace, CanReplaceJob, AcceptAnew, StartOver, SetRow, Accept
    <1>2. Keeps(job, job')
          /\ Claimed(job', "pending", job.version + 1, job.claimedVersion, 0)
        BY <1>1, ReplaceKeeps, VersionEffects DEF CanReplaceJob
    <1>3. QED
        BY <1>1, <1>2, NotRunningFree, StartedOverInv
           DEF Keeps, SameSlot, Claimed, Holds, HoldsClaim

LEMMA ManualRetryInv ==
    ASSUME IInv, ManualRetry
    PROVE  IInv'
    <1> USE Types
    <1>1. /\ Counted /\ exec' = exec /\ sweep' = sweep /\ job.status = "failed"
          /\ job' = resetJobRow(job, At) /\ budget' = job'.version
          /\ runs' = 0 /\ fresh' = {} /\ started' = FALSE /\ alarms' = alarms
        BY CountedSteps DEF ManualRetry, CanResetJob, AcceptAnew, StartOver, SetRow, Accept
    <1>2. /\ job' \in Job /\ SameSlot(job, job') /\ RowFits(job')
          /\ Claimed(job', "pending", job.version + 1, None, 0)
        BY <1>1, ResetJobRevives, VersionEffects DEF CanResetJob
    <1>3. QED
        BY <1>1, <1>2, NotRunningFree, StartedOverInv
           DEF SameSlot, Claimed, Holds, HoldsClaim

LEMMA CancelInv ==
    ASSUME IInv, Cancel
    PROVE  IInv'
    <1> USE Types
    <1>1. /\ Counted /\ exec' = exec /\ sweep' = sweep /\ job.status = "pending"
          /\ job' = cancelJobRow(job, At) /\ UNCHANGED <<fresh, started, budget, runs, alarms>>
        BY CountedSteps DEF Cancel, CanCancelJob, Write, SetRow
    <1>2. Keeps(job, job')
          /\ Claimed(job', "cancelled", job.version, job.claimedVersion, job.attempt)
        BY <1>1, CancelKeeps, ClaimEffects DEF CanCancelJob
    <1>3. RowInv'
        <2>1. fresh \in SUBSET Worker /\ started \in BOOLEAN
            BY DEF IInv, RowInv, TypeOK
        <2>2. QED
            BY <1>1, <1>2, <2>1, RowInvKept DEF Keeps, SameSlot, Claimed
    <1>4. RunsCounted' /\ RunsFresh' /\ SnapshotsOld'
        BY <1>1, <1>2 DEF IInv, RunsCounted, Ran, RunsFresh, SnapshotsOld, Holds,
           Handling, Failing, Claimed
    <1>5. ASSUME ~ HandlersOutliveLease PROVE OneHolder'
        BY <1>1, <1>2, <1>5, NotRunningFree
           DEF IInv, OneHolder, AlarmsSpent, Holds, HoldsClaim, Claimed
    <1>6. QED
        BY <1>3, <1>4, <1>5 DEF IInv

-----------------------------------------------------------------------------
(* The invariant. *)

LEMMA InitInv ==
    ASSUME Init
    PROVE  IInv
    <1>1. PICK kind \in Kinds : job = NewRow(kind)
        BY DEF Init
    <1>2. /\ job \in Job /\ RowFits(job) /\ job.kind \in {"once", "throttle"}
          /\ job.status = "pending" /\ job.attempt = 0 /\ job.version = 1
        <2> DEFINE handler == CHOOSE h \in Handler : TRUE
                   key == CHOOSE k \in Key : TRUE
        <2>1. handler \in Handler /\ key \in Key /\ At \in Time
            BY DEF At, Time
        <2>2. CASE kind = "once"
            <3>1. job = NewOnceJob(handler, key, At, MaxAttempts, None)
                BY <1>1, <2>2 DEF NewRow
            <3> HIDE DEF handler, key
            <3>2. job \in Job /\ RowFits(job)
                BY <2>1, <3>1, NewOnceJobFits
            <3>3. QED
                BY <3>1, <3>2 DEF NewOnceJob, NewJob, NoWindow
        <2>3. CASE kind = "throttle"
            <3>1. job = NewPatternJob(handler, key, MaxAttempts, None,
                                      NewWindow(kind, At, 1, None))
                BY <1>1, <2>3 DEF NewRow
            <3> HIDE DEF handler, key
            <3>2. kind \in Kind \ {"once"}
                BY <2>3 DEF Kind
            <3>3. job \in Job /\ RowFits(job)
                BY <2>1, <3>1, <3>2, NewPatternJobFits
            <3>4. QED
                BY <2>3, <3>1, <3>3 DEF NewPatternJob, NewJob, NewWindow
        <2>4. QED
            BY <2>2, <2>3
    <1>3. /\ exec \in [Worker -> ExecRecord] /\ sweep \in [Sweeper -> SweepRecord]
          /\ \A w \in Worker : exec[w].pc = "idle"
          /\ \A s \in Sweeper : sweep[s].pc = "idle" /\ sweep[s].version = 0
        BY DEF Init, IdleWorker, IdleSweeper, ExecRecord, SweepRecord
    <1>4. /\ fresh = {} /\ started = FALSE /\ budget = 1 /\ runs = 0
          /\ alarms \in [1 .. MaxVersion -> 0 .. 2]
          /\ \A b \in 1 .. MaxVersion : alarms[b] = 0
          /\ requests \in 0 .. MaxRequests /\ crashes \in 0 .. MaxCrashes
        BY DEF Init
    <1>5. RowInv
        <2>1. TypeOK
            BY <1>2, <1>3, <1>4 DEF TypeOK, ExecRecord, SweepRecord
        <2>2. QED
            BY <1>2, <1>4, <2>1 DEF RowInv
    <1>6. RunsCounted /\ RunsFresh /\ SnapshotsOld
        BY <1>2, <1>3, <1>4 DEF RunsCounted, Ran, RunsFresh, SnapshotsOld, Holds,
           Handling, Failing
    <1>7. OneHolder
        BY <1>3, <1>4 DEF OneHolder, AlarmsSpent, Holds, HoldsClaim
    <1>8. QED
        BY <1>5, <1>6, <1>7 DEF IInv

LEMMA StutterInv ==
    ASSUME IInv, UNCHANGED vars
    PROVE  IInv'
    BY DEF vars, IInv, RowInv, TypeOK, RunsCounted, Ran, RunsFresh, SnapshotsOld, Holds,
       HoldsClaim, Handling, Failing, OneHolder, WorkerAlone, SweeperAlone, AlarmsSpent

LEMMA NextInv ==
    ASSUME IInv, [Next]_vars
    PROVE  IInv'
    <1>1. ASSUME NEW w \in Worker, PollClaim(w) \/ WorkerStep(w) \/ Crash(w)
          PROVE  IInv'
        BY <1>1, PollClaimInv, HandlerSucceedsInv, HandlerReschedulesInv,
           HandlerFailsRetryableInv, HandlerFailsExhaustedInv, RequeueWindowInv, CrashInv
           DEF WorkerStep
    <1>2. ASSUME NEW s \in Sweeper, SweepStep(s) \/ SweepCrash(s)
          PROVE  IInv'
        BY <1>2, SweepReclaimInv, SweepTerminalClaimInv, SweepTerminalFailInv,
           SweepBackoffInv, SweepCrashInv DEF SweepStep
    <1>3. ASSUME DkPollReclaim \/ ClientStep
          PROVE  IInv'
        BY <1>3, DkPollReclaimInv, PatternEventInv, ReplaceInv, CancelInv, ManualRetryInv
           DEF ClientStep
    <1>4. QED
        BY <1>1, <1>2, <1>3, StutterInv DEF Next

THEOREM PollWorkersInvariant == Spec => []IInv
    <1>1. Init => IInv
        BY InitInv
    <1>2. IInv /\ [Next]_vars => IInv'
        BY NextInv
    <1>3. QED
        BY <1>1, <1>2, PTL DEF Spec

\* The types of the row, the processes and the history, for any constants.
THEOREM TypeCorrect == Spec => []TypeOK
    <1>1. IInv => TypeOK
        BY DEF IInv, RowInv
    <1>2. QED
        BY <1>1, PollWorkersInvariant, PTL

\* Whatever zombies and sweeps hold from before a reset of the attempts, a row
\* fails only once its current budget was begun as often as the handler may try.
THEOREM FailsExhausted == Spec => []FailsOnlyExhausted
    <1>1. IInv => FailsOnlyExhausted
        BY Types DEF IInv, RunsCounted, Ran, FailsOnlyExhausted
    <1>2. QED
        BY <1>1, PollWorkersInvariant, PTL

\* Where no handler outlives its lease, executions of the row never overlap:
\* whoever works on it holds its latest claim, alone.
THEOREM NoOverlap == ~ HandlersOutliveLease => (Spec => []RunsNeverOverlap)
    <1>1. ASSUME IInv, ~ HandlersOutliveLease PROVE RunsNeverOverlap
        <2> DEFINE runners == {w \in Worker : exec[w].pc = "handler"}
        <2>1. CASE runners = {}
            BY <2>1, FS_EmptySet DEF RunsNeverOverlap
        <2>2. CASE runners # {}
            <3>1. PICK w \in Worker : w \in runners
                BY <2>2
            <3>2. runners = {w}
                BY <1>1, <3>1 DEF IInv, OneHolder, WorkerAlone, Holds
            <3> HIDE DEF runners
            <3>3. Cardinality(runners) = 1
                BY <3>2, FS_Singleton
            <3> USE DEF runners
            <3>4. QED
                BY <3>3 DEF RunsNeverOverlap
        <2>3. QED
            BY <2>1, <2>2
    <1>2. CASE ~ HandlersOutliveLease
        <2>1. IInv => RunsNeverOverlap
            BY <1>1, <1>2
        <2>2. QED
            BY <2>1, PollWorkersInvariant, PTL
    <1>3. QED
        BY <1>2

\* There, onFailure is called at most once for the attempts of one window or
\* request, by the exhausted run or by one of the sweeps.
THEOREM AlarmOnce == ~ HandlersOutliveLease => (Spec => []OnFailureOnce)
    <1>1. ASSUME IInv, ~ HandlersOutliveLease PROVE OnFailureOnce
        BY <1>1 DEF IInv, OneHolder, AlarmsSpent, OnFailureOnce
    <1>2. CASE ~ HandlersOutliveLease
        <2>1. IInv => OnFailureOnce
            BY <1>1, <1>2
        <2>2. QED
            BY <2>1, PollWorkersInvariant, PTL
    <1>3. QED
        BY <1>2

-----------------------------------------------------------------------------
(* Action properties. *)

\* Which steps settle the row, and what they had in hand.
LEMMA StepServes ==
    ASSUME IInv, [Next]_vars
    PROVE  /\ job.status # "completed" /\ job'.status = "completed" =>
                 \E w \in fresh : exec[w].pc = "handler" /\ exec'[w].pc = "idle"
           /\ job.status # "failed" /\ job'.status = "failed" => started
    <1> USE Types
    <1> DEFINE Unsettled == \/ job'.status = job.status
                            \/ job'.status \notin {"completed", "failed"}
    <1>1. ASSUME NEW w \in Worker, HandlerSucceeds(w), ~ Unsettled
          PROVE  job'.status = "completed" /\ w \in fresh
                 /\ exec[w].pc = "handler" /\ exec'[w].pc = "idle"
        <2>1. CASE CanMarkCompleted(job, exec[w].version)
            <3>1. job' = markCompletedRow(job, At) /\ Release(w) /\ Handling(w)
                BY <1>1, <2>1 DEF HandlerSucceeds, Write, SetRow, Handling, CanMarkCompleted,
                   IsRunningAt
            <3>2. job'.status = "completed"
                <4>1. Claimed(job', "completed", job.version, job.claimedVersion, job.attempt)
                    BY <3>1, ClaimEffects
                <4>2. QED
                    BY <4>1 DEF Claimed
            <3>3. exec'[w].pc = "idle"
                BY <3>1, Released DEF Placed
            <3>4. QED
                BY <3>1, <3>2, <3>3 DEF IInv, RunsFresh, Handling
        <2>2. CASE ~ CanMarkCompleted(job, exec[w].version)
            BY <1>1, <2>2 DEF HandlerSucceeds, LostCAS, rowVars
        <2>3. QED
            BY <2>1, <2>2
    <1>2. ASSUME NEW w \in Worker, HandlerFailsExhausted(w), ~ Unsettled
          PROVE  job'.status = "failed" /\ started
        <2>1. CASE CanMarkFailed(job, exec[w].version)
            <3>1. PICK reason \in FailureReason : job' = markFailedRow(job, reason, At)
                BY <1>2, <2>1 DEF HandlerFailsExhausted, WriteAndAlarm, SetRow, FailureReason
            <3>2. Handling(w)
                BY <1>2, <2>1 DEF HandlerFailsExhausted, Handling, CanMarkFailed, IsRunningAt
            <3>3. job'.status = "failed"
                <4>1. Claimed(job', "failed", job.version, job.claimedVersion, job.attempt)
                    BY <3>1, ClaimEffects
                <4>2. QED
                    BY <4>1 DEF Claimed
            <3>4. QED
                BY <3>2, <3>3 DEF IInv, RunsFresh
        <2>2. CASE ~ CanMarkFailed(job, exec[w].version)
            BY <1>2, <2>2 DEF HandlerFailsExhausted, LostCAS, rowVars
        <2>3. QED
            BY <2>1, <2>2
    <1>3. ASSUME NEW s \in Sweeper, SweepTerminalFail(s), ~ Unsettled
          PROVE  job'.status = "failed" /\ started
        <2>1. CASE CanMarkFailed(job, sweep[s].version)
            <3>1. job' = markFailedRow(job, "stalled", At) /\ Failing(s)
                BY <1>3, <2>1 DEF SweepTerminalFail, WriteAndAlarm, SetRow, Failing,
                   CanMarkFailed, IsRunningAt
            <3>2. job'.status = "failed"
                <4>1. Claimed(job', "failed", job.version, job.claimedVersion, job.attempt)
                    BY <3>1, ClaimEffects
                <4>2. QED
                    BY <4>1 DEF Claimed
            <3>3. QED
                BY <3>1, <3>2 DEF IInv, RunsFresh
        <2>2. CASE ~ CanMarkFailed(job, sweep[s].version)
            BY <1>3, <2>2 DEF SweepTerminalFail, rowVars
        <2>3. QED
            BY <2>1, <2>2
    <1>4. ASSUME NEW w \in Worker,
                 \/ PollClaim(w) \/ HandlerReschedules(w) \/ HandlerFailsRetryable(w)
                 \/ RequeueWindow(w) \/ Crash(w)
          PROVE  Unsettled
        <2>1. CASE PollClaim(w)
            <3>1. isDebounceSettled(job, At)
                BY DEF IInv, RowInv, isDebounceSettled
            <3>2. QED
                BY <2>1, <3>1, ClaimEffects DEF PollClaim, SetRow, claimDueRow, Claimed
        <2>2. CASE HandlerReschedules(w)
            <3>1. job' = rescheduleJobRow(job, At) \/ job' = job
                BY <2>2 DEF HandlerReschedules, AcceptAnew, StartOver, SetRow, rowVars
            <3>2. \/ job' = job
                  \/ Claimed(job', "pending", job.version + 1, None, 0)
                BY <3>1, VersionEffects
            <3>3. QED
                BY <3>2 DEF Claimed
        <2>3. CASE HandlerFailsRetryable(w)
            <3>1. job' = retryJobRow(job, exec[w].attempt + 1, At) \/ job' = job
                BY <2>3 DEF HandlerFailsRetryable, Write, SetRow, LostCAS, rowVars
            <3>2. \/ job' = job
                  \/ Claimed(job', "pending", job.version, None, exec[w].attempt + 1)
                BY <3>1, ClaimEffects
            <3>3. QED
                BY <3>2 DEF Claimed
        <2>4. CASE RequeueWindow(w)
            BY <2>4, VersionEffects DEF RequeueWindow, StartOver, SetRow, Claimed, rowVars
        <2>5. CASE Crash(w)
            BY <2>5 DEF Crash
        <2>6. QED
            BY <1>4, <2>1, <2>2, <2>3, <2>4, <2>5
    <1>5. Reclaim => Unsettled
        BY ReclaimEffects DEF Reclaim, StartOver, Write, SetRow, Claimed
    <1>6. ASSUME NEW s \in Sweeper,
                 \/ SweepReclaim(s) \/ SweepTerminalClaim(s) \/ SweepBackoff(s)
                 \/ SweepCrash(s)
          PROVE  Unsettled
        <2>1. \/ Reclaim \/ job' = job \/ job' = markRunningRow(job, At)
              \/ job' = updateScheduledForRow(job, job.scheduledFor)
            BY <1>6 DEF SweepReclaim, SweepTerminalClaim, SweepBackoff, SweepCrash,
               Write, SetRow, rowVars
        <2>2. \/ Unsettled \/ job' = job
              \/ Claimed(job', "running", job.version, job.version, job.attempt)
              \/ Claimed(job', job.status, job.version, job.claimedVersion, job.attempt)
            BY <1>5, <2>1, ClaimEffects
        <2>3. QED
            BY <2>2 DEF Claimed
    <1>7. ASSUME DkPollReclaim \/ ClientStep
          PROVE  Unsettled
        <2>1. \/ Reclaim
              \/ job' = updatePatternEventRow(job, At) \/ job' = cancelJobRow(job, At)
              \/ job' = replaceJobRow(job, At, MaxAttempts) \/ job' = resetJobRow(job, At)
            BY <1>7 DEF DkPollReclaim, ClientStep, PatternEvent, Replace, Cancel,
               ManualRetry, AcceptEvent, AcceptAnew, StartOver, Write, SetRow
        <2>2. /\ Claimed(updatePatternEventRow(job, At), job.status, job.version + 1,
                         job.claimedVersion, job.attempt)
              /\ Claimed(replaceJobRow(job, At, MaxAttempts), job.status,
                         job.version + 1, job.claimedVersion, 0)
              /\ Claimed(resetJobRow(job, At), "pending", job.version + 1, None, 0)
            BY VersionEffects
        <2>3. Claimed(cancelJobRow(job, At), "cancelled", job.version, job.claimedVersion,
                      job.attempt)
            BY ClaimEffects
        <2>4. QED
            BY <1>5, <2>1, <2>2, <2>3 DEF Claimed
    <1>8. UNCHANGED vars => Unsettled
        BY DEF vars
    <1> HIDE DEF Unsettled
    <1>9. \/ Unsettled
          \/ /\ job'.status = "completed"
             /\ \E w \in fresh : exec[w].pc = "handler" /\ exec'[w].pc = "idle"
          \/ job'.status = "failed" /\ started
        BY <1>1, <1>2, <1>3, <1>4, <1>6, <1>7, <1>8 DEF Next, WorkerStep, SweepStep
    <1>10. QED
        BY <1>9 DEF Unsettled

\* No create, event, replace, retry or reschedule is closed unserved, whatever
\* outlives its lease.
THEOREM NoneClosedUnserved == Spec => NoRequestClosedUnserved
    <1>1. IInv /\ [Next]_vars =>
             [/\ job.status # "completed" /\ job'.status = "completed" =>
                    \E w \in fresh : exec[w].pc = "handler" /\ exec'[w].pc = "idle"
              /\ job.status # "failed" /\ job'.status = "failed" => started]_vars
        BY StepServes
    <1>2. QED
        BY <1>1, PollWorkersInvariant, PTL DEF Spec, NoRequestClosedUnserved

\* Which steps send a claimed window back under a new version.
LEMMA StepRequeues ==
    ASSUME IInv, [Next]_vars, ~ HandlersOutliveLease,
           job.status = "running", job'.status = "pending", IsPattern(job),
           job'.version > job.version
    PROVE  VersionAdvanced(job)
    <1> USE Types
    <1> DEFINE Elsewhere == job'.version = job.version \/ job'.status = "running"
    <1>1. ASSUME NEW w \in Worker, PollClaim(w) \/ WorkerStep(w) \/ Crash(w)
          PROVE  Elsewhere \/ VersionAdvanced(job)
        <2>1. CASE RequeueWindow(w)
            BY <2>1 DEF RequeueWindow, IInv, OneHolder, WorkerAlone, Holds
        <2>2. CASE HandlerReschedules(w) \/ PollClaim(w)
            BY <2>2 DEF HandlerReschedules, PollClaim, IsDue
        <2>3. CASE Crash(w)
            BY <2>3 DEF Crash
        <2>4. CASE HandlerSucceeds(w) \/ HandlerFailsRetryable(w) \/ HandlerFailsExhausted(w)
            <3>1. PICK reason \in FailureReason :
                     \/ job' = job \/ job' = markCompletedRow(job, At)
                     \/ job' = retryJobRow(job, exec[w].attempt + 1, At)
                     \/ job' = markFailedRow(job, reason, At)
                BY <2>4 DEF HandlerSucceeds, HandlerFailsRetryable, HandlerFailsExhausted,
                   Write, WriteAndAlarm, SetRow, LostCAS, rowVars, FailureReason
            <3>2. /\ Claimed(markCompletedRow(job, At), "completed",
                             job.version, job.claimedVersion, job.attempt)
                  /\ Claimed(retryJobRow(job, exec[w].attempt + 1, At), "pending",
                             job.version, None, exec[w].attempt + 1)
                  /\ Claimed(markFailedRow(job, reason, At), "failed",
                             job.version, job.claimedVersion, job.attempt)
                BY ClaimEffects, Zenon
            <3>3. QED
                BY <3>1, <3>2 DEF Claimed
        <2>5. QED
            BY <1>1, <2>1, <2>2, <2>3, <2>4 DEF WorkerStep
    <1>2. Reclaim => Elsewhere \/ VersionAdvanced(job)
        <2>1. Reclaim => job' = reclaimRow(job)
            BY DEF Reclaim, StartOver, Write, SetRow
        <2>2. Reclaim /\ ~ VersionAdvanced(job) =>
                 Claimed(job', "pending", job.version, None, job.attempt + 1)
            BY <2>1, ReclaimEffects
        <2>3. QED
            BY <2>2 DEF Claimed
    <1>3. ASSUME NEW s \in Sweeper, SweepStep(s) \/ SweepCrash(s)
          PROVE  Elsewhere \/ VersionAdvanced(job)
        <2>1. \/ Reclaim \/ job' = job \/ job' = markRunningRow(job, At)
              \/ job' = updateScheduledForRow(job, job.scheduledFor)
              \/ job' = markFailedRow(job, "stalled", At)
            BY <1>3 DEF SweepStep, SweepReclaim, SweepTerminalClaim, SweepTerminalFail,
               SweepBackoff, SweepCrash, Write, WriteAndAlarm, SetRow, rowVars
        <2>2. \/ Reclaim \/ job' = job
              \/ Claimed(job', "running", job.version, job.version, job.attempt)
              \/ Claimed(job', job.status, job.version, job.claimedVersion, job.attempt)
              \/ Claimed(job', "failed", job.version, job.claimedVersion, job.attempt)
            <3>1. /\ Claimed(markRunningRow(job, At), "running",
                             job.version, job.version, job.attempt)
                  /\ Claimed(updateScheduledForRow(job, job.scheduledFor), job.status,
                             job.version, job.claimedVersion, job.attempt)
                  /\ Claimed(markFailedRow(job, "stalled", At), "failed",
                             job.version, job.claimedVersion, job.attempt)
                BY ClaimEffects, Zenon
            <3>2. QED
                BY <2>1, <3>1, Zenon
        <2>3. QED
            BY <1>2, <2>2 DEF Claimed
    <1>4. ASSUME DkPollReclaim \/ ClientStep
          PROVE  Elsewhere \/ VersionAdvanced(job)
        <2>1. Reclaim \/ job' = updatePatternEventRow(job, At)
            BY <1>4 DEF DkPollReclaim, ClientStep, PatternEvent, Replace, Cancel, ManualRetry,
               AcceptEvent, SetRow, CanReplaceJob, CanCancelJob, CanResetJob
        <2>2. Reclaim \/ Claimed(job', job.status, job.version + 1, job.claimedVersion,
                                 job.attempt)
            BY <2>1, VersionEffects
        <2>3. QED
            BY <1>2, <2>2 DEF Claimed
    <1>5. UNCHANGED vars => Elsewhere
        BY DEF vars
    <1> HIDE DEF Elsewhere
    <1>6. Elsewhere \/ VersionAdvanced(job)
        BY <1>1, <1>3, <1>4, <1>5 DEF Next
    <1>7. QED
        BY <1>6 DEF Elsewhere

\* Where no handler outlives its lease, a claimed window starts afresh only
\* because new events arrived during its execution.
THEOREM RequeuedOnlyOnNewEvents == ~ HandlersOutliveLease => (Spec => RequeueOnlyOnNewEvents)
    <1>1. CASE ~ HandlersOutliveLease
        <2>1. IInv /\ [Next]_vars =>
                 [job.status = "running" /\ job'.status = "pending"
                     /\ IsPattern(job) /\ job'.version > job.version
                        => VersionAdvanced(job)]_vars
            BY <1>1, StepRequeues
        <2>2. QED
            BY <2>1, PollWorkersInvariant, PTL DEF Spec, RequeueOnlyOnNewEvents
    <1>2. QED
        BY <1>1
=============================================================================
