--------------------------- MODULE LeaseKeeperProofs ---------------------------
(***************************************************************************)
(* For every lease length, safety window, renewal interval, stopping time  *)
(* and set of faults: the job's containers never run once the server may   *)
(* have given the job away.                                                *)
(***************************************************************************)
EXTENDS LeaseKeeper, TLAPS

(* Where the steps of the script are.                                        *)
LEMMA ScriptPositions ==
  /\ Left = 10
  /\ \A i \in 1 .. 10 :
       /\ Script[i] \in Renewals <=> i \in {1, 3, 5, 6, 8}
       /\ Script[i] \in Executions <=> i \in {4, 7}
       /\ Script[i] \in {"prepare"} <=> i = 2
       /\ Script[i] \in {"report"} <=> i = 9
       /\ Script[i] \in {"report", "left"} <=> i \in {9, 10}
<1>1. Left = 10
  BY DEF Left, Script
<1>2. ASSUME NEW i \in 1 .. 10
      PROVE  /\ Script[i] \in Renewals <=> i \in {1, 3, 5, 6, 8}
             /\ Script[i] \in Executions <=> i \in {4, 7}
             /\ Script[i] \in {"prepare"} <=> i = 2
             /\ Script[i] \in {"report"} <=> i = 9
             /\ Script[i] \in {"report", "left"} <=> i \in {9, 10}
  <2>1. i \in {1, 2, 3, 4, 5, 6, 7, 8, 9, 10}
    OBVIOUS
  <2>2. QED
    BY <2>1 DEF Script, Renewals, Executions
<1>3. QED
  BY <1>1, <1>2
-----------------------------------------------------------------------------
(* The inductive invariant.  Besides the property it says what an answer on  *)
(* its way is worth, that a new one is never worth less than the old, and    *)
(* how much of the margin a cancelled execution has used up.                 *)
Uncancelled ==
  ~cancel => cancelled = 0 /\ (Entered /\ ~Done => lease >= safe + (Lease - Safe))
AnswerWorth ==
  /\ call.stage \in {"sent", "renewed", "refused"} => call.good >= safe
  /\ call.stage = "renewed" /\ call.good > 0 => lease >= call.good + (Lease - Safe)
Stopping ==
  /\ container # "none" => At(Executions)
  /\ holder = "main" => At(Renewals)
  /\ container # "none" /\ cancel => lease >= Lease - Safe - cancelled
KeeperInv == TypeOK /\ Uncancelled /\ AnswerWorth /\ Stopping

(* The keeper starts with the invariant.                                     *)
LEMMA InitialKeeper == Init => KeeperInv
<1> SUFFICES ASSUME Init PROVE KeeperInv
  OBVIOUS
<1>1. lease \in -1 .. Lease
  <2>1. CASE "network" \in faults
    BY <2>1, LeaseAssumption DEF Init
  <2>2. CASE "network" \notin faults
    BY <2>2, LeaseAssumption DEF Init
  <2>3. QED
    BY <2>1, <2>2
<1>2. TypeOK
  <2>1. cancel \in BOOLEAN
    BY DEF Init
  <2>2. pos \in 1 .. Left
    BY ScriptPositions DEF Init
  <2>3. late \in 0 .. MaxLate /\ safe \in 0 .. Safe /\ cancelled \in 0 .. Stop /\ wait \in -1 .. Interval
    BY LeaseAssumption DEF Init
  <2>4. QED
    BY <1>1, <2>1, <2>2, <2>3 DEF Init, TypeOK
<1>3. Uncancelled /\ AnswerWorth /\ Stopping
  BY LeaseAssumption DEF Init, Uncancelled, AnswerWorth, Stopping, Entered, NoCall
<1>4. QED
  BY <1>2, <1>3 DEF KeeperInv

(* A renewal that raises has cancelled the lease and preserves it.           *)
LEMMA RaiseKeeps ==
  ASSUME KeeperInv, NEW t, Cancel, Raise(t)
  PROVE  KeeperInv'
<1> USE LeaseAssumption, ScriptPositions
    DEF KeeperInv, Uncancelled, AnswerWorth, Stopping, TypeOK, Entered, Done, At, NoCall, Raise, Cancel,
        outside
<1>1. container # "none" /\ ~cancel => lease >= Lease - Safe - cancelled
  OBVIOUS
<1>2. CASE t = "main"
  BY <1>2 DEF GiveUp
<1>3. CASE t # "main"
  BY <1>1, <1>3
<1>4. QED
  BY <1>2, <1>3

(* Every step of the three threads, the server and the clock preserves it.   *)
LEMMA KeeperStep == KeeperInv /\ [Next]_vars => KeeperInv'
<1> SUFFICES ASSUME KeeperInv, [Next]_vars PROVE KeeperInv'
  OBVIOUS
<1>0. /\ \A t \in {"main", "loop"} : Acquire(t) /\ cancel => KeeperInv'
      /\ (Send \/ Acknowledged) /\ (cancel \/ safe = 0) => KeeperInv'
      /\ Refused => KeeperInv'
  BY RaiseKeeps DEF Acquire, Send, Acknowledged, Refused
<1> USE LeaseAssumption, ScriptPositions
    DEF KeeperInv, Uncancelled, AnswerWorth, Stopping, TypeOK, Entered, Done, At, NoCall,
        Stages, outside, keeper
<1>1. ASSUME NEW t \in {"main", "loop"}, Acquire(t) PROVE KeeperInv'
  <2>1. CASE cancel
    BY <1>0, <1>1, <2>1
  <2>2. CASE ~cancel
    <3>1. /\ faults' = faults /\ lease' = lease /\ late' = late
          /\ holder' = t /\ call' = [stage |-> "ready", good |-> 0]
          /\ UNCHANGED <<safe, cancel, cancelled, wait, pos, container>>
          /\ Wants(t)
      BY <1>1, <2>2 DEF Acquire
    <3> QED
      BY <2>2, <3>1 DEF Wants
  <2>3. QED
    BY <2>1, <2>2
<1>2. CASE Send
  <2>1. CASE cancel \/ safe = 0
    BY <1>0, <1>2, <2>1
  <2>2. CASE ~(cancel \/ safe = 0)
    <3>1. /\ faults' = faults /\ lease' = lease /\ late' = late
          /\ call' = [stage |-> "sent", good |-> Safe]
          /\ UNCHANGED <<safe, cancel, cancelled, holder, wait, pos, container>>
      BY <1>2, <2>2 DEF Send
    <3> QED
      BY <2>2, <3>1
  <2>3. QED
    BY <2>1, <2>2
<1>3. CASE Serve
  BY <1>3 DEF Serve
<1>4. CASE Fail
  BY <1>4 DEF Fail
<1>5. CASE ServeLate
  BY <1>5 DEF ServeLate
<1>6. CASE Acknowledged
  <2>1. CASE cancel \/ safe = 0
    BY <1>0, <1>6, <2>1
  <2>2. CASE ~(cancel \/ safe = 0)
    <3>1. /\ faults' = faults /\ lease' = lease /\ late' = late
          /\ safe' = call.good /\ holder' = "nobody" /\ call' = NoCall
          /\ UNCHANGED <<cancel, cancelled, container>>
          /\ call.stage = "renewed"
          /\ \/ holder = "main" /\ pos' = pos + 1 /\ UNCHANGED wait
             \/ holder # "main" /\ wait' = Interval /\ UNCHANGED pos
      BY <1>6, <2>2 DEF Acknowledged, Return, AckedDeadline, LoopWait
    <3>2. call.good \in 0 .. Safe
      BY <3>1
    <3> QED
      BY <2>2, <3>1, <3>2
  <2>3. QED
    BY <2>1, <2>2
<1>7. CASE Refused
  BY <1>0, <1>7
<1>8. CASE Retry
  BY <1>8 DEF Retry
<1>9. CASE Watchdog
  BY <1>9 DEF Watchdog, WatchdogDue, Cancel
<1>10. CASE Signal
  BY <1>10 DEF Signal, Cancel
<1>11. CASE Prepare
  BY <1>11 DEF Prepare, GiveUp
<1>12. CASE Create
  BY <1>12 DEF Create, MayCreate
<1>13. CASE Abort
  BY <1>13 DEF Abort, GiveUp
<1>14. CASE Start
  BY <1>14 DEF Start
<1>15. CASE Finish
  BY <1>15 DEF Finish, GiveUp
<1>16. CASE Report
  BY <1>16 DEF Report
<1>17. CASE Tick
  BY <1>17 DEF Tick, Prompt, WatchdogDue, Less
<1>18. CASE UNCHANGED vars
  BY <1>18 DEF vars
<1>19. QED
  BY <1>1, <1>2, <1>3, <1>4, <1>5, <1>6, <1>7, <1>8, <1>9, <1>10, <1>11, <1>12, <1>13,
     <1>14, <1>15, <1>16, <1>17, <1>18 DEF Next

(* The invariant holds in every behaviour of the keeper.                     *)
THEOREM KeeperInvariant == Spec => []KeeperInv
BY InitialKeeper, KeeperStep, PTL DEF Spec

(* The keeper's state is always well typed, so the safe part never grows     *)
(* beyond Safe nor the time since cancel beyond Stop.                        *)
THEOREM KeeperTypeCorrect == Spec => []TypeOK
<1>1. KeeperInv => TypeOK
  BY DEF KeeperInv
<1>2. QED
  BY <1>1, KeeperInvariant, PTL

(* No agent and no test runs once the server may have ended the lease.       *)
THEOREM ExecutionFencedHolds == Spec => []ExecutionFenced
<1>1. KeeperInv => ExecutionFenced
  BY LeaseAssumption, ScriptPositions
     DEF KeeperInv, TypeOK, Uncancelled, Stopping, ExecutionFenced, Entered, Done, At
<1>2. QED
  BY <1>1, KeeperInvariant, PTL

(* A keeper that is not cancelled holds its lease, with the margin left.     *)
THEOREM LeaseHeldHolds == Spec => []LeaseHeld
<1>1. KeeperInv => LeaseHeld
  BY LeaseAssumption DEF KeeperInv, TypeOK, Uncancelled, LeaseHeld
<1>2. QED
  BY <1>1, KeeperInvariant, PTL
-----------------------------------------------------------------------------
(* Why nothing cancels a healthy lease.  A call under way has taken at most  *)
(* Call, and is not refused because the lease is held; what is left of the   *)
(* safe time is short of Safe by one call that was answered, the wait so     *)
(* far, and the call under way.                                              *)
Healthy == RenewsInTime /\ faults = {}
Taken == IF call.stage \in {"sent", "renewed"} THEN Safe - call.good ELSE 0
Undisturbed ==
  /\ ~cancel /\ late = 0 /\ wait >= 0
  /\ call.stage \notin {"refused", "failed"}
  /\ holder = "nobody" <=> call.stage = "none"
  /\ Taken <= Call
SafeTimeLasts ==
  /\ pos = 1 =>
       /\ holder # "loop"
       /\ safe >= Safe - Taken /\ lease >= Lease - Call - Taken
  /\ Entered /\ holder # "nobody" =>
       /\ safe >= Safe - Call - Interval - Taken
       /\ lease >= safe + (Lease - Safe)
  /\ Entered /\ holder = "nobody" /\ ~Done => safe >= Safe - Call - (Interval - wait)
HealthyInv == Healthy => Undisturbed /\ SafeTimeLasts

(* A claim that was answered within Call starts that way.                    *)
LEMMA InitialHealth == Init => HealthyInv
BY LeaseAssumption, ScriptPositions
   DEF Init, HealthyInv, Healthy, RenewsInTime, Undisturbed, SafeTimeLasts, Taken, NoCall, Entered

(* A healthy lease is neither refused nor out of safe time, whoever calls.   *)
LEMMA HealthyCallSucceeds ==
  ASSUME KeeperInv, HealthyInv, Healthy
  PROVE  /\ holder # "nobody" => safe > 0 /\ lease > 0
         /\ ~WatchdogDue
<1> USE LeaseAssumption, ScriptPositions
    DEF KeeperInv, TypeOK, Uncancelled, HealthyInv, Healthy, RenewsInTime, Undisturbed,
        SafeTimeLasts, Taken, Entered, Done
<1>1. pos \in 1 .. 10 /\ safe \in Nat /\ lease \in Int /\ wait \in Int /\ call.good \in Nat
  BY DEF NoCall
<1>2. holder # "nobody" => safe > 0 /\ lease > 0
  <2>1. CASE pos = 1
    BY <1>1, <2>1
  <2>2. CASE pos # 1
    BY <1>1, <2>2
  <2> QED
    BY <2>1, <2>2
<1>3. ~WatchdogDue
  BY <1>1, <1>2 DEF WatchdogDue
<1> QED
  BY <1>2, <1>3

(* Every step of a healthy keeper keeps it that way.                         *)
LEMMA HealthStep == KeeperInv /\ HealthyInv /\ [Next]_vars => HealthyInv'
<1> SUFFICES ASSUME KeeperInv, HealthyInv, [Next]_vars, Healthy' PROVE (Undisturbed /\ SafeTimeLasts)'
  BY DEF HealthyInv
<1>1. Healthy
  <2>1. faults' = faults
    BY DEF Next, vars, outside, Acquire, Send, Serve, Fail, ServeLate, Acknowledged, Refused, Retry,
       Raise, Return, Watchdog, Signal, Prepare, Create, Abort, Start, Finish, Report, Tick
  <2> QED
    BY <2>1 DEF Healthy, RenewsInTime
<1>2. /\ holder # "nobody" => safe > 0 /\ lease > 0
      /\ ~WatchdogDue
  BY <1>1, HealthyCallSucceeds
<1>3. Undisturbed /\ SafeTimeLasts
  BY <1>1 DEF HealthyInv
<1>4. holder # "nobody" <=> call.stage # "none"
  BY <1>3 DEF Undisturbed
<1> USE LeaseAssumption, ScriptPositions
    DEF KeeperInv, Uncancelled, AnswerWorth, Stopping, TypeOK, Entered, Done, At, NoCall,
        Stages, outside, keeper, Healthy, RenewsInTime, Undisturbed, SafeTimeLasts, Taken
<1>5. ASSUME NEW t \in {"main", "loop"}, Acquire(t) PROVE (Undisturbed /\ SafeTimeLasts)'
  BY <1>1, <1>3, <1>5 DEF Acquire, Wants
<1>6. CASE Send
  BY <1>1, <1>2, <1>3, <1>4, <1>6 DEF Send
<1>7. CASE Serve
  BY <1>1, <1>2, <1>3, <1>4, <1>7 DEF Serve
<1>8. CASE Acknowledged
  <2>1. /\ UNCHANGED <<faults, lease, late, cancel, cancelled, container>>
        /\ safe' = call.good /\ holder' = "nobody" /\ call' = NoCall
        /\ call.stage = "renewed"
        /\ \/ holder = "main" /\ pos' = pos + 1 /\ UNCHANGED wait
           \/ holder # "main" /\ wait' = Interval /\ UNCHANGED pos
    BY <1>2, <1>3, <1>4, <1>8 DEF Acknowledged, Return, AckedDeadline, LoopWait
  <2>2. call.good \in 0 .. Safe /\ call.good >= Safe - Call
    BY <1>3, <2>1
  <2> QED
    BY <1>1, <1>3, <2>1, <2>2
<1>9. ~(Fail \/ ServeLate \/ Refused \/ Retry \/ Watchdog \/ Signal \/ Abort)
  BY <1>1, <1>2, <1>3 DEF Fail, ServeLate, Refused, Retry, Watchdog, Signal, Abort
<1>10. CASE Prepare \/ Finish \/ Report
  BY <1>1, <1>3, <1>10 DEF Prepare, Finish, Report, GiveUp
<1>11. CASE Create \/ Start
  BY <1>1, <1>3, <1>11 DEF Create, Start
<1>12. CASE Tick
  BY <1>1, <1>2, <1>3, <1>12 DEF Tick, Prompt, Answerable, Wants, Less
<1>13. CASE UNCHANGED vars
  BY <1>1, <1>3, <1>13 DEF vars
<1> QED
  BY <1>5, <1>6, <1>7, <1>8, <1>9, <1>10, <1>11, <1>12, <1>13 DEF Next

(* A lease that is neither cut off nor signalled is never cancelled, for     *)
(* every lease whose renewals fit into its safe time (lease.py renew_loop).  *)
THEOREM HealthyLeaseSurvivesHolds == Spec => []HealthyLeaseSurvives
<1>1. HealthyInv => HealthyLeaseSurvives
  BY DEF HealthyInv, Healthy, Undisturbed, HealthyLeaseSurvives
<1>2. Spec => []HealthyInv
  BY KeeperInvariant, InitialHealth, HealthStep, PTL DEF Spec
<1> QED
  BY <1>1, <1>2, PTL
-----------------------------------------------------------------------------
(* What is promised is at most Safe + Stop, and only while it is anything.   *)
Bounded ==
  /\ Keeps => Promised \in 0 .. Safe + Stop
  /\ container # "none" => Keeps
LEMMA PromiseBounded == KeeperInv => Bounded
<1> SUFFICES ASSUME KeeperInv PROVE Bounded
  OBVIOUS
<1> USE LeaseAssumption, ScriptPositions DEF KeeperInv, TypeOK, NoCall
<1>1. Keeps => Promised \in 0 .. Safe + Stop
  BY DEF Keeps, Promised
<1>2. container # "none" => Keeps
  <2>1. container # "none" => pos \in {4, 7}
    BY DEF Stopping, At
  <2> QED
    BY <2>1 DEF Keeps, Entered, At
<1> QED
  BY <1>1, <1>2 DEF Bounded

(* A step that neither renews nor takes time, seen through the contract: the *)
(* keeper promises what it promised, or less, or nothing.                    *)
LEMMA MovedIfNotMore ==
  ASSUME KeeperInv, KeeperInv', UNCHANGED lease, Keeps' => Keeps /\ Promised' <= Promised
  PROVE  Contract!Moved
<1>1. Bounded /\ Bounded'
  BY PromiseBounded, PTL
<1>2. Promise' \in Contract!AfterMove(Promise)
  <2>1. Keeps' => Promised' \in 0 .. Promised
    BY <1>1, LeaseAssumption DEF Bounded
  <2> QED
    BY <2>1 DEF Promise, Contract!AfterMove, Contract!Idle
<1>3. (container # "none")' => Promise' # Contract!Idle
  BY <1>1 DEF Bounded, Promise, Contract!Idle
<1> QED
  BY <1>2, <1>3 DEF Contract!Moved

(* A renewal reaches the server: the keeper promises the whole Hold at most. *)
LEMMA RenewedIfServed ==
  ASSUME KeeperInv, KeeperInv', lease > 0, lease' = Lease, UNCHANGED container,
         Promise' = Promise \/ Keeps'
  PROVE  Contract!Renewed
<1>1. Bounded'
  BY PromiseBounded, PTL
<1>2. Promise.job \in {"job", "none"}
  BY DEF Promise
<1>3. Keeps' => Promise' \in Contract!AfterRenewal("job")
  BY <1>1 DEF Bounded, Promise, Contract!AfterRenewal
<1> QED
  BY <1>2, <1>3 DEF Contract!Renewed

(* Whoever ends a renewal by raising cancels, or keeps it cancelled: no more *)
(* than the time to stop is left of the promise.                             *)
LEMMA RaiseMoves ==
  ASSUME KeeperInv, KeeperInv', NEW t, Cancel, Raise(t)
  PROVE  Contract!Moved
<1> USE LeaseAssumption, ScriptPositions
    DEF KeeperInv, TypeOK, Uncancelled, Stopping, Raise, Cancel, outside
<1>1. lease' = lease /\ cancelled' = cancelled /\ cancel'
  OBVIOUS
<1>2. Keeps' => container # "none" /\ container' = container
  BY DEF Keeps, GiveUp
<1>3. container # "none" => Keeps
  BY PromiseBounded DEF Bounded
<1>4. Promised' = Stop - cancelled /\ (cancel \/ cancelled = 0)
  BY <1>1 DEF Promised
<1>5. Stop - cancelled <= Promised
  BY <1>4 DEF Promised, NoCall
<1> QED
  BY <1>1, <1>2, <1>3, <1>4, <1>5, MovedIfNotMore

(* The watchdog and a signal do the same without the lock.                   *)
LEMMA CancelMoves ==
  ASSUME KeeperInv, KeeperInv', Watchdog \/ Signal
  PROVE  Contract!Moved
<1> USE LeaseAssumption DEF KeeperInv, TypeOK, Uncancelled, Stopping
<1>1. /\ UNCHANGED <<lease, cancelled, container>> /\ cancel' /\ ~cancel /\ cancelled = 0
  BY DEF Watchdog, Signal, WatchdogDue, Cancel, outside
<1>2. Keeps' => Keeps
  BY <1>1, PromiseBounded DEF Keeps, Bounded
<1>3. Promised' <= Promised
  BY <1>1 DEF Promised, NoCall
<1> QED
  BY <1>1, <1>2, <1>3, MovedIfNotMore

(* A step of the main thread that ends or begins a part of the script.       *)
LEMMA ScriptMoves ==
  ASSUME KeeperInv, KeeperInv', Prepare \/ Create \/ Abort \/ Start \/ Finish \/ Report
  PROVE  Contract!Moved
<1> USE LeaseAssumption, ScriptPositions DEF KeeperInv, TypeOK, Stopping, outside, keeper
<1>1. UNCHANGED <<lease, safe, cancel, cancelled, call>>
  BY DEF Prepare, Create, Abort, Start, Finish, Report
<1>2. Promised' = Promised
  BY <1>1 DEF Promised
<1>3. Keeps' => Keeps
  <2>1. CASE cancel
    <3>1. container' # "none" => container # "none"
      BY <1>1, <2>1 DEF Prepare, Create, Abort, Start, Finish, Report, MayCreate, GiveUp
    <3> QED
      BY <1>1, <2>1, <3>1 DEF Keeps
  <2>2. CASE ~cancel
    <3>1. \/ pos' = 9 \/ pos' = 10
          \/ pos > 1 /\ (pos' = pos \/ pos' = pos + 1)
      BY <1>1, <2>2 DEF Prepare, Create, Abort, Start, Finish, Report, MayCreate, GiveUp, At
    <3>2. CASE pos' = 9 \/ pos' = 10
      BY <1>1, <2>2, <3>2 DEF Keeps, At
    <3>3. CASE pos' \notin {9, 10}
      <4>1. pos > 1 /\ pos \in 2 .. 8
        BY <3>1, <3>3
      <4> QED
        BY <2>2, <4>1 DEF Keeps, Entered, At
    <3> QED
      BY <3>2, <3>3
  <2> QED
    BY <2>1, <2>2
<1>4. Keeps => Promised' <= Promised
  BY <1>2, PromiseBounded DEF Bounded
<1> HIDE DEF KeeperInv
<1> QED
  BY <1>1, <1>3, <1>4, MovedIfNotMore

(* A granted renewal is in time for what runs, or changes nothing here.      *)
LEMMA ServeRenews ==
  ASSUME KeeperInv, KeeperInv', Serve, lease > 0
  PROVE  Contract!Renewed
<1> USE DEF Serve, KeeperInv, TypeOK, AnswerWorth
<1>1. /\ UNCHANGED <<safe, cancel, cancelled, pos, container>>
      /\ lease' = Lease /\ call.stage = "sent"
      /\ call'.stage = "renewed" /\ call'.good = call.good
  BY DEF NoCall
<1>2. Keeps => Keeps'
  BY <1>1 DEF Keeps, Entered, At
<1>3. ~Keeps /\ ~Keeps' => Promise' = Promise
  BY DEF Promise
<1> QED
  BY <1>1, <1>2, <1>3, RenewedIfServed

(* So is one that arrives after its caller gave up.                          *)
LEMMA ServeLateRenews ==
  ASSUME KeeperInv, KeeperInv', ServeLate, lease > 0
  PROVE  Contract!Renewed
<1>1. UNCHANGED <<keeper, pos, container>> /\ lease' = Lease
  BY DEF ServeLate
<1>2. Promise' = Promise
  BY <1>1 DEF keeper, Promise, Promised, Keeps, Entered, At
<1> QED
  BY <1>1, <1>2, RenewedIfServed


(* A renewal on its way out, and an answer that is lost or not awaited any   *)
(* longer: the promise stays, or falls back to the safe time there was.      *)
LEMMA CallMoves ==
  ASSUME KeeperInv, KeeperInv', UNCHANGED <<lease, safe, cancel, cancelled, pos, container>>,
         call'.stage # "renewed", call'.good \in Int
  PROVE  Contract!Moved
<1>1. Keeps' => Keeps
  BY DEF Keeps, Entered, At
<1>2. Keeps => Promised' <= Promised
  BY LeaseAssumption DEF KeeperInv, TypeOK, AnswerWorth, Promised, NoCall
<1> QED
  BY <1>1, <1>2, MovedIfNotMore

(* An answer in time makes the promise of the renewal the keeper's own.      *)
LEMMA AcknowledgedMoves ==
  ASSUME KeeperInv, KeeperInv', Acknowledged, ~cancel, safe > 0
  PROVE  Contract!Moved
<1> USE LeaseAssumption, ScriptPositions DEF KeeperInv, TypeOK, AnswerWorth, Stopping, Stages, NoCall
<1>1. /\ UNCHANGED <<lease, cancel, cancelled, container>>
      /\ call.stage = "renewed" /\ call.good \in 0 .. Safe /\ call.good >= safe
      /\ safe' = call.good /\ call'.stage = "none"
      /\ pos' = pos \/ pos' = pos + 1
  BY DEF Acknowledged, Return, AckedDeadline, outside
<1>2. pos' = pos + 1 => At(Renewals)
  BY <1>1 DEF Acknowledged, Return
<1>3. Keeps' => Keeps
  BY <1>1, <1>2 DEF Keeps, Entered, At
<1>4. Promised' = Promised
  BY <1>1 DEF Promised
<1>5. Keeps => Promised' <= Promised
  BY <1>4, PromiseBounded DEF Bounded
<1> HIDE DEF KeeperInv
<1> QED
  BY <1>1, <1>3, <1>5, MovedIfNotMore

(* With every tick the promise gets shorter: the watchdog is never late, nor *)
(* the container that is cancelled.                                          *)
LEMMA TickElapses ==
  ASSUME KeeperInv, KeeperInv', Tick
  PROVE  Contract!Elapsed
<1> USE LeaseAssumption, ScriptPositions DEF KeeperInv, TypeOK, NoCall
<1>1. /\ UNCHANGED <<cancel, pos, container>>
      /\ lease' = IF lease >= 0 THEN lease - 1 ELSE lease
      /\ safe' = (IF safe > 0 THEN safe - 1 ELSE safe)
      /\ call' = [call EXCEPT !.good = IF call.good > 0 THEN call.good - 1 ELSE call.good]
      /\ cancelled' = IF cancel /\ cancelled < Stop THEN cancelled + 1 ELSE cancelled
  BY DEF Tick, Less
<1>2. call'.stage = call.stage /\ call'.good <= call.good
  BY <1>1
<1>3. Keeps' => Keeps
  BY <1>1, <1>2 DEF Keeps, Entered, At
<1>4. Keeps' => Promised' < Promised
  <2>1. CASE cancel
    BY <1>1, <2>1 DEF Tick, Prompt, Keeps, Promised
  <2>2. CASE ~cancel /\ ~Entered
    BY <1>1, <1>2, <2>2 DEF Keeps, Promised, Entered
  <2>3. CASE ~cancel /\ Entered
    <3>1. Keeps => safe > 0
      BY <2>3 DEF Tick, Prompt, WatchdogDue, Keeps, Done, At
    <3>2. call.stage = "renewed" => call.good >= safe
      BY DEF AnswerWorth
    <3> QED
      BY <1>1, <1>2, <1>3, <2>3, <3>1, <3>2 DEF Promised
  <2> QED
    BY <2>1, <2>2, <2>3
<1> HIDE DEF KeeperInv, TypeOK
<1>5. Bounded /\ Bounded'
  BY PromiseBounded, PTL
<1>6. Promise' \in Contract!AfterTick(Promise)
  <2>1. Keeps' => Keeps /\ Promised' \in 0 .. Promised - 1
    BY <1>3, <1>4, <1>5 DEF Bounded
  <2> QED
    BY <2>1 DEF Promise, Contract!AfterTick, Contract!Idle
<1>7. container # "none" => Promise' # Contract!Idle
  BY <1>1, <1>5 DEF Bounded, Promise, Contract!Idle
<1> QED
  BY <1>1, <1>6, <1>7 DEF Contract!Elapsed

(* Every step of the keeper is one of the contract, or changes nothing in it.*)
LEMMA ContractStep ==
  KeeperInv /\ KeeperInv' /\ [Next]_vars =>
    [Contract!Renewed \/ Contract!Moved \/ Contract!Elapsed]_Contract!keptVars
<1> DEFINE Kept == [Contract!Renewed \/ Contract!Moved \/ Contract!Elapsed]_Contract!keptVars
<1> SUFFICES ASSUME KeeperInv, KeeperInv', [Next]_vars PROVE Kept
  OBVIOUS
<1>1. ASSUME NEW t \in {"main", "loop"}, Acquire(t) PROVE Contract!Moved
  <2>1. CASE cancel
    BY <1>1, <2>1, RaiseMoves DEF Acquire
  <2>2. CASE ~cancel
    BY <1>1, <2>2, CallMoves DEF Acquire, outside
  <2> QED
    BY <2>1, <2>2
<1>2. ASSUME Send PROVE Contract!Moved
  <2>1. CASE cancel \/ safe = 0
    BY <1>2, <2>1, RaiseMoves DEF Send
  <2>2. CASE ~(cancel \/ safe = 0)
    BY <1>2, <2>2, CallMoves, LeaseAssumption DEF Send, outside
  <2> QED
    BY <2>1, <2>2
<1>3. ASSUME Fail \/ Retry PROVE Contract!Moved
  <2>1. call'.stage # "renewed" /\ call'.good \in Int
    BY <1>3 DEF Fail, Retry, KeeperInv, TypeOK, NoCall
  <2> QED
    BY <1>3, <2>1, CallMoves DEF Fail, Retry, outside
<1>4. ASSUME Acknowledged PROVE Contract!Moved
  <2>1. CASE cancel \/ safe = 0
    BY <1>4, <2>1, RaiseMoves DEF Acknowledged
  <2>2. CASE ~(cancel \/ safe = 0)
    <3>1. safe > 0
      BY <2>2 DEF KeeperInv, TypeOK
    <3> QED
      BY <1>4, <2>2, <3>1, AcknowledgedMoves
  <2> QED
    BY <2>1, <2>2
<1>5. ASSUME Refused PROVE Contract!Moved
  BY <1>5, RaiseMoves DEF Refused
<1>6. ASSUME Serve PROVE Contract!Renewed \/ Contract!Moved
  <2>1. CASE lease > 0
    BY <1>6, <2>1, ServeRenews
  <2>2. CASE ~(lease > 0)
    <3>1. call'.stage # "renewed" /\ call'.good \in Int
      BY <1>6, <2>2 DEF Serve, KeeperInv, TypeOK, NoCall
    <3> QED
      BY <1>6, <2>2, <3>1, CallMoves DEF Serve
  <2> QED
    BY <2>1, <2>2
<1>7. ASSUME ServeLate PROVE Contract!Renewed \/ UNCHANGED Contract!keptVars
  <2>1. CASE lease > 0
    BY <1>7, <2>1, ServeLateRenews
  <2>2. CASE ~(lease > 0)
    BY <1>7, <2>2 DEF ServeLate, keeper, Contract!keptVars, Promise, Promised, Keeps, Entered, At
  <2> QED
    BY <2>1, <2>2
<1>8. CASE UNCHANGED vars
  BY <1>8 DEF vars, Contract!keptVars, Promise, Promised, Keeps, Entered, At
<1> QED
  BY <1>1, <1>2, <1>3, <1>4, <1>5, <1>6, <1>7, <1>8, CancelMoves, ScriptMoves, TickElapses DEF Next

(* The keeper of lease.py keeps the contract that Fleet composes workers     *)
(* from, for every lease and any behaviour of the network.                   *)
THEOREM ContractHonoured == Spec => HonoursContract
<1>1. Init => Contract!Init
  <2>1. Init => lease \in -1 .. Lease /\ ~Keeps
    BY InitialKeeper DEF KeeperInv, TypeOK, Init, Keeps, Entered, NoCall
  <2> QED
    BY <2>1 DEF Contract!Init, Contract!Idle, Promise, Init
<1> QED
  BY <1>1, KeeperInvariant, ContractStep, PTL DEF Spec, HonoursContract, Contract!Spec
=============================================================================
