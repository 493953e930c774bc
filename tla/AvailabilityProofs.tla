------------------------- MODULE AvailabilityProofs -------------------------
(***************************************************************************)
(* What Availability promises, for every value of its constants: the types,*)
(* that the reaper does not take a running worker for gone while no more   *)
(* than Tolerated of its calls fail, and that its polls keep their pace.   *)
(*                                                                         *)
(* The inductive invariant is a budget of silence: for every place of the  *)
(* loop, the most ticks that can have passed since the server last heard of*)
(* the worker, given the calls that failed.                                *)
(***************************************************************************)
EXTENDS Availability, TLAPS

(* What a call that failed costs: the call itself and the pause after it.    *)
Cost(n) == n * (Call + Pause)

(* The most that can have passed since the server last heard of a worker     *)
(* whose job has just ended, and of one whose next heartbeat is not yet due. *)
Busy == Renewal + Cost(failed)
Due == Busy + Heartbeat

(* The runs StaysOnline is about.                                            *)
Steady == InLoop /\ ~stop /\ beat # -1 /\ failed <= Tolerated /\ outages = 0

(* The type invariant in two parts, for the provers.                         *)
Flags ==
  /\ stop \in BOOLEAN /\ keeping \in BOOLEAN
  /\ pending \in BOOLEAN /\ active \in BOOLEAN

Values ==
  /\ pc \in {"down", "top"} \union Calls \union Waits \union Job
  /\ timer \in 0 .. Longest
  /\ answer \in {"none", "awaited", "accepted", "refused", "empty", "job"}
  /\ beat \in -1 .. Heartbeat
  /\ poll \in 0 .. Maximum /\ delay \in Minimum .. Maximum
  /\ since \in -1 .. Longest
  /\ status \in {"ONLINE", "BUSY", "ERROR", "OFFLINE"}
  /\ silence \in 0 .. Offline + 1
  /\ stray \in {"none"} \union Calls
  /\ failed \in 0 .. MaxFailed /\ outages \in 0 .. MaxOutages

(* Which deadlines are set, and what is on disk, where.                      *)
Shape ==
  /\ pc \in {"claim", "idle"} \union Job => beat # -1
  /\ pc \in {"claim", "idle", "heartbeat"} \union Job => ~pending
  /\ pc = "replay" => pending
  /\ pc = "top" /\ beat = -1 => ~pending
  /\ pc = "pause" /\ beat = -1 => ~pending
  /\ pc = "starting" => beat = -1 /\ ~pending
  /\ pc = "claim" => poll = 0
  /\ pc \in Calls => timer <= Call
  /\ answer # "none" => pc \in Calls
  /\ outages = 0 => stray = "none"

(* What a fresh answer says of the row.                                      *)
Fresh ==
  /\ pc = "claim" /\ answer = "job" => silence + timer <= Call
  /\ pc \in Job /\ keeping => silence <= Renewal
  /\ outages = 0 /\ pc = "heartbeat" /\ answer = "accepted" =>
       status \in {"ONLINE", "BUSY"} /\ silence + timer <= Call

(* A lease is lost, if nothing but a call fails, only when its result is in. *)
Leased ==
  outages = 0 /\ ~stop =>
    /\ pc = "claim" /\ answer = "job" => active
    /\ pc = "job" => keeping /\ active
    /\ pc = "retry" => failed > 0
    /\ pc = "retry" => silence <= Busy
    /\ pc = "report" /\ ~keeping => ~active
    /\ pc = "report" /\ ~active => silence + timer <= Busy

(* The time since the server last heard of the worker, place by place.       *)
Budget ==
  Steady =>
    /\ status \in {"ONLINE", "BUSY"}
    /\ beat > 0 => silence + beat <= Due
    /\ pc = "top" => silence <= Due + Call + Pause
    /\ pc = "top" /\ pending => silence <= Busy + Pause
    /\ pc = "pause" => silence + timer <= Due + Call + Pause
    /\ pc = "pause" /\ pending => silence + timer <= Busy + Pause
    /\ pc = "replay" => silence + timer <= Busy + Pause + Call
    /\ pc = "heartbeat" => silence + timer <= Due + 2 * Call + Pause
    /\ pc = "claim" => silence + timer <= Due + Call
    /\ pc = "idle" => silence <= Due + Call

(* The time since the last answer "no job", place by place.                  *)
Paced ==
  /\ since # -1 => since + poll >= Minimum
  /\ pc \in {"replay", "starting"} \union Job => since = -1
  /\ pc \in {"top", "pause"} /\ pending => since = -1
  /\ failed = 0 /\ outages = 0 =>
       /\ pc = "pause" => since = -1
       /\ poll > 0 /\ InLoop => since + poll <= Maximum
       /\ pc \in {"top", "idle"} => since <= Maximum
       /\ pc = "heartbeat" => since + timer <= Maximum + Call
       /\ pc = "claim" /\ timer = Call => since <= Maximum + Call

IInv == TypeOK /\ Shape /\ Fresh /\ Leased /\ Budget /\ Paced

(* A failed call costs a natural number of ticks, each as much as the last.  *)
LEMMA CostFacts ==
  \A n \in Nat : Cost(n) \in Nat /\ Cost(n + 1) = Cost(n) + Call + Pause
BY AvailabilityAssumption DEF Cost

(* More failed calls cost no less.                                           *)
LEMMA CostGrows ==
  ASSUME NEW m \in Nat, NEW n \in Nat, m <= n PROVE Cost(m) <= Cost(n)
<1>1. PICK k \in Nat : n = m + k
  <2>1. n - m \in Nat /\ n = m + (n - m)
    OBVIOUS
  <2> QED BY <2>1
<1>2. Cost(n) = Cost(m) + k * (Call + Pause)
  BY <1>1, AvailabilityAssumption DEF Cost
<1>3. k * (Call + Pause) \in Nat
  BY AvailabilityAssumption
<1> QED BY <1>2, <1>3, CostFacts

(* Arithmetic the solver has to be told.                                     *)
LEMMA AddToZero ==
  ASSUME NEW z \in Int, NEW n \in Int, z = 0 PROVE z + n = n
OBVIOUS

(* What the failed calls of this run cost, and that the tolerated ones fit.  *)
LEMMA BudgetFacts ==
  ASSUME TypeOK
  PROVE  /\ Cost(failed) \in Nat
         /\ Cost(failed + 1) = Cost(failed) + Call + Pause
         /\ failed > 0 => Cost(failed) >= Call + Pause
         /\ failed <= Tolerated =>
              Renewal + Heartbeat + Pause + 2 * Call + Cost(failed) <= Offline
<1>1. failed \in Nat /\ failed + 1 \in Nat
  BY AvailabilityAssumption DEF TypeOK
<1>2. Cost(1) = Call + Pause
  BY AvailabilityAssumption DEF Cost
<1>3. failed > 0 => Cost(failed) >= Call + Pause
  BY <1>1, <1>2, CostGrows
<1>4. ASSUME failed <= Tolerated PROVE Cost(failed) <= Cost(Tolerated)
  BY <1>1, <1>4, CostGrows, AvailabilityAssumption
<1>5. Renewal + Heartbeat + Pause + 2 * Call + Cost(Tolerated) <= Offline
  BY AvailabilityAssumption DEF Cost
<1>6. Cost(failed) \in Nat /\ Cost(Tolerated) \in Nat
  BY <1>1, CostFacts, AvailabilityAssumption
<1> QED
  BY <1>1, <1>3, <1>4, <1>5, <1>6, CostFacts, AvailabilityAssumption

(* Every step keeps the types of the flags.                                  *)
LEMMA FlagsStep == Flags /\ Next => Flags'
<1> SUFFICES ASSUME Flags, Next PROVE Flags'
  OBVIOUS
<1> USE DEF Flags, Calls, Waits, Job, schedule, local, row, faults
<1>1. CASE Start
  BY <1>1 DEF Start, Go, Send
<1>2. CASE Wake
  BY <1>2 DEF Wake, Go, WaitOver
<1>3. CASE Top
  BY <1>3 DEF Top, Go, Send, CheckHeartbeat, CheckPoll
<1>4. CASE Heartbeaten
  BY <1>4 DEF Heartbeaten, HeartbeatSent, Go, Send, CheckPoll
<1>5. CASE NoJob
  BY <1>5 DEF NoJob, Empty, DrawPoll, NextDelay, Small, Large, Go
<1>6. CASE Claimed
  BY <1>6 DEF Claimed, Found, Go
<1>7. CASE ClaimRefused
  BY <1>7 DEF ClaimRefused, Go
<1>8. CASE Replayed
  BY <1>8 DEF Replayed, Go, Send, CheckHeartbeat, CheckPoll
<1>9. CASE Reported
  BY <1>9 DEF Reported, Send
<1>10. CASE Gone
  BY <1>10 DEF Gone, Go
<1>11. CASE JobDone
  BY <1>11 DEF JobDone, Go, HeartbeatSent
<1>12. CASE ReportRefused
  BY <1>12 DEF ReportRefused, Go
<1>13. CASE GiveUp
  BY <1>13 DEF GiveUp, Go, HeartbeatSent
<1>14. CASE Renew
  BY <1>14 DEF Renew
<1>15. CASE Report
  BY <1>15 DEF Report, Send
<1>16. CASE LoseLease
  BY <1>16 DEF LoseLease
<1>17. CASE JobRaises
  BY <1>17 DEF JobRaises, Go, Send
<1>18. CASE Serve
  BY <1>18 DEF Serve, HearRequest, Hear, HearResult, HearClaim
<1>19. CASE ServeLate
  BY <1>19 DEF ServeLate, HearRequest, Hear, HearResult, HearClaim
<1>20. CASE Expire
  BY <1>20 DEF Expire
<1>21. CASE Reap
  BY <1>21 DEF Reap, Silent
<1>22. CASE CallFails
  BY <1>22 DEF CallFails, Lose, Go
<1>23. CASE ReportFails
  BY <1>23 DEF ReportFails, Lose, Go, HeartbeatSent
<1>24. CASE LastCallFails
  BY <1>24 DEF LastCallFails, Lose, Go, Send
<1>25. CASE Signal
  BY <1>25 DEF Signal
<1>26. CASE Crash
  <2>1. stop' = stop /\ keeping' = FALSE /\ pending' = pending /\ active' = active
    BY <1>26 DEF Crash
  <2> QED
    BY <2>1
<1>27. CASE Tick
  BY <1>27 DEF Tick, Prompt, WaitOver, Less, More
<1>28. QED
  BY <1>1, <1>2, <1>3, <1>4, <1>5, <1>6, <1>7, <1>8, <1>9, <1>10, <1>11,
     <1>12, <1>13, <1>14, <1>15, <1>16, <1>17, <1>18, <1>19, <1>20, <1>21,
     <1>22, <1>23, <1>24, <1>25, <1>26, <1>27 DEF Next, WorkerStep

(* Every step keeps the types of everything else.                            *)
LEMMA ValuesStep == Values /\ Shape /\ Next => Values'
<1> SUFFICES ASSUME Values, Shape, Next PROVE Values'
  OBVIOUS
<1> USE AvailabilityAssumption DEF Values, Shape, Longest, Calls,
        Waits, Job, schedule, local, row, faults
<1>1. CASE Start
  BY <1>1 DEF Start, Go, Send
<1>2. CASE Wake
  BY <1>2 DEF Wake, Go, WaitOver
<1>3. CASE Top
  BY <1>3 DEF Top, Go, Send, CheckHeartbeat, CheckPoll
<1>4. CASE Heartbeaten
  BY <1>4 DEF Heartbeaten, HeartbeatSent, Go, Send, CheckPoll
<1>5. CASE NoJob
  BY <1>5 DEF NoJob, Empty, DrawPoll, NextDelay, Small, Large, Go
<1>6. CASE Claimed
  BY <1>6 DEF Claimed, Found, Go
<1>7. CASE ClaimRefused
  BY <1>7 DEF ClaimRefused, Go
<1>8. CASE Replayed
  BY <1>8 DEF Replayed, Go, Send, CheckHeartbeat, CheckPoll
<1>9. CASE Reported
  BY <1>9 DEF Reported, Send
<1>10. CASE Gone
  BY <1>10 DEF Gone, Go
<1>11. CASE JobDone
  BY <1>11 DEF JobDone, Go, HeartbeatSent
<1>12. CASE ReportRefused
  BY <1>12 DEF ReportRefused, Go
<1>13. CASE GiveUp
  BY <1>13 DEF GiveUp, Go, HeartbeatSent
<1>14. CASE Renew
  BY <1>14 DEF Renew
<1>15. CASE Report
  BY <1>15 DEF Report, Send
<1>16. CASE LoseLease
  BY <1>16 DEF LoseLease
<1>17. CASE JobRaises
  BY <1>17 DEF JobRaises, Go, Send
<1>18. CASE Serve
  BY <1>18 DEF Serve, HearRequest, Hear, HearResult, HearClaim
<1>19. CASE ServeLate
  BY <1>19 DEF ServeLate, HearRequest, Hear, HearResult, HearClaim
<1>20. CASE Expire
  BY <1>20 DEF Expire
<1>21. CASE Reap
  BY <1>21 DEF Reap, Silent
<1>22. CASE CallFails
  BY <1>22 DEF CallFails, Lose, Go
<1>23. CASE ReportFails
  BY <1>23 DEF ReportFails, Lose, Go, HeartbeatSent
<1>24. CASE LastCallFails
  BY <1>24 DEF LastCallFails, Lose, Go, Send
<1>25. CASE Signal
  BY <1>25 DEF Signal
<1>26. CASE Crash
  BY <1>26 DEF Crash, Go
<1>27. CASE Tick
  BY <1>27 DEF Tick, Prompt, WaitOver, Less, More
<1>28. QED
  BY <1>1, <1>2, <1>3, <1>4, <1>5, <1>6, <1>7, <1>8, <1>9, <1>10, <1>11,
     <1>12, <1>13, <1>14, <1>15, <1>16, <1>17, <1>18, <1>19, <1>20, <1>21,
     <1>22, <1>23, <1>24, <1>25, <1>26, <1>27 DEF Next, WorkerStep

(* Every step keeps the deadlines and the files where they belong.           *)
LEMMA ShapeStep == TypeOK /\ Shape /\ Next => Shape'
<1> SUFFICES ASSUME TypeOK, Shape, Next PROVE Shape'
  OBVIOUS
<1> USE AvailabilityAssumption DEF TypeOK, Shape, Calls, Waits, Job,
        schedule, local, row, faults
<1>1. CASE Start
  BY <1>1 DEF Start, Go, Send
<1>2. CASE Wake
  BY <1>2 DEF Wake, Go, WaitOver
<1>3. CASE Top
  BY <1>3 DEF Top, Go, Send, CheckHeartbeat, CheckPoll
<1>4. CASE Heartbeaten
  BY <1>4 DEF Heartbeaten, HeartbeatSent, Go, Send, CheckPoll
<1>5. CASE NoJob
  BY <1>5 DEF NoJob, Empty, DrawPoll, NextDelay, Small, Large, Go
<1>6. CASE Claimed
  BY <1>6 DEF Claimed, Found, Go
<1>7. CASE ClaimRefused
  BY <1>7 DEF ClaimRefused, Go
<1>8. CASE Replayed
  BY <1>8 DEF Replayed, Go, Send, CheckHeartbeat, CheckPoll
<1>9. CASE Reported
  BY <1>9 DEF Reported, Send
<1>10. CASE Gone
  BY <1>10 DEF Gone, Go
<1>11. CASE JobDone
  BY <1>11 DEF JobDone, Go, HeartbeatSent
<1>12. CASE ReportRefused
  BY <1>12 DEF ReportRefused, Go
<1>13. CASE GiveUp
  BY <1>13 DEF GiveUp, Go, HeartbeatSent
<1>14. CASE Renew
  BY <1>14 DEF Renew
<1>15. CASE Report
  BY <1>15 DEF Report, Send
<1>16. CASE LoseLease
  BY <1>16 DEF LoseLease
<1>17. CASE JobRaises
  BY <1>17 DEF JobRaises, Go, Send
<1>18. CASE Serve
  BY <1>18 DEF Serve, HearRequest, Hear, HearResult, HearClaim
<1>19. CASE ServeLate
  BY <1>19 DEF ServeLate, HearRequest, Hear, HearResult, HearClaim
<1>20. CASE Expire
  BY <1>20 DEF Expire
<1>21. CASE Reap
  BY <1>21 DEF Reap, Silent
<1>22. CASE CallFails
  BY <1>22 DEF CallFails, Lose, Go
<1>23. CASE ReportFails
  BY <1>23 DEF ReportFails, Lose, Go, HeartbeatSent
<1>24. CASE LastCallFails
  BY <1>24 DEF LastCallFails, Lose, Go, Send
<1>25. CASE Signal
  BY <1>25 DEF Signal
<1>26. CASE Crash
  BY <1>26 DEF Crash, Go
<1>27. CASE Tick
  BY <1>27 DEF Tick, Prompt, WaitOver, Less, More
<1>28. QED
  BY <1>1, <1>2, <1>3, <1>4, <1>5, <1>6, <1>7, <1>8, <1>9, <1>10, <1>11,
     <1>12, <1>13, <1>14, <1>15, <1>16, <1>17, <1>18, <1>19, <1>20, <1>21,
     <1>22, <1>23, <1>24, <1>25, <1>26, <1>27 DEF Next, WorkerStep

(* Every step keeps what a fresh answer says.                                *)
LEMMA FreshStep == TypeOK /\ Shape /\ Fresh /\ Next => Fresh'
<1> SUFFICES ASSUME TypeOK, Shape, Fresh, Next PROVE Fresh'
  OBVIOUS
<1> USE AvailabilityAssumption DEF TypeOK, Shape, Fresh, InLoop,
        Calls, Waits, Job, schedule, local, row, faults
<1>1. CASE Start
  BY <1>1 DEF Start, Go, Send
<1>2. CASE Wake
  BY <1>2 DEF Wake, Go, WaitOver
<1>3. CASE Top
  BY <1>3 DEF Top, Go, Send, CheckHeartbeat, CheckPoll
<1>4. CASE Heartbeaten
  BY <1>4 DEF Heartbeaten, HeartbeatSent, Go, Send, CheckPoll
<1>5. CASE NoJob
  BY <1>5 DEF NoJob, Empty, DrawPoll, NextDelay, Small, Large, Go
<1>6. CASE Claimed
  BY <1>6 DEF Claimed, Found, Go
<1>7. CASE ClaimRefused
  BY <1>7 DEF ClaimRefused, Go
<1>8. CASE Replayed
  BY <1>8 DEF Replayed, Go, Send, CheckHeartbeat, CheckPoll
<1>9. CASE Reported
  BY <1>9 DEF Reported, Send
<1>10. CASE Gone
  BY <1>10 DEF Gone, Go
<1>11. CASE JobDone
  BY <1>11 DEF JobDone, Go, HeartbeatSent
<1>12. CASE ReportRefused
  BY <1>12 DEF ReportRefused, Go
<1>13. CASE GiveUp
  BY <1>13 DEF GiveUp, Go, HeartbeatSent
<1>14. CASE Renew
  BY <1>14 DEF Renew
<1>15. CASE Report
  BY <1>15 DEF Report, Send
<1>16. CASE LoseLease
  BY <1>16 DEF LoseLease
<1>17. CASE JobRaises
  BY <1>17 DEF JobRaises, Go, Send
<1>18. CASE Serve
  BY <1>18 DEF Serve, HearRequest, Hear, HearResult, HearClaim
<1>19. CASE ServeLate
  BY <1>19 DEF ServeLate, HearRequest, Hear, HearResult, HearClaim
<1>20. CASE Expire
  BY <1>20 DEF Expire
<1>21. CASE Reap
  BY <1>21 DEF Reap, Silent
<1>22. CASE CallFails
  BY <1>22 DEF CallFails, Lose, Go
<1>23. CASE ReportFails
  BY <1>23 DEF ReportFails, Lose, Go, HeartbeatSent
<1>24. CASE LastCallFails
  BY <1>24 DEF LastCallFails, Lose, Go, Send
<1>25. CASE Signal
  BY <1>25 DEF Signal
<1>26. CASE Crash
  BY <1>26 DEF Crash, Go
<1>27. CASE Tick
  BY <1>27 DEF Tick, Prompt, WaitOver, Less, More
<1>28. QED
  BY <1>1, <1>2, <1>3, <1>4, <1>5, <1>6, <1>7, <1>8, <1>9, <1>10, <1>11,
     <1>12, <1>13, <1>14, <1>15, <1>16, <1>17, <1>18, <1>19, <1>20, <1>21,
     <1>22, <1>23, <1>24, <1>25, <1>26, <1>27 DEF Next, WorkerStep

(* Every step keeps the lease as long as nothing but calls fails.            *)
LEMMA LeasedStep == TypeOK /\ Shape /\ Fresh /\ Leased /\ Next => Leased'
<1> SUFFICES ASSUME TypeOK, Shape, Fresh, Leased, Next PROVE Leased'
  OBVIOUS
<1> USE AvailabilityAssumption, BudgetFacts DEF TypeOK, Shape, Fresh,
        Leased, Busy, Calls, Waits, Job, schedule, local, row, faults
<1>1. CASE Start
  BY <1>1 DEF Start, Go, Send
<1>2. CASE Wake
  BY <1>2 DEF Wake, Go, WaitOver
<1>3. CASE Top
  BY <1>3 DEF Top, Go, Send, CheckHeartbeat, CheckPoll
<1>4. CASE Heartbeaten
  BY <1>4 DEF Heartbeaten, HeartbeatSent, Go, Send, CheckPoll
<1>5. CASE NoJob
  BY <1>5 DEF NoJob, Empty, DrawPoll, NextDelay, Small, Large, Go
<1>6. CASE Claimed
  BY <1>6 DEF Claimed, Found, Go
<1>7. CASE ClaimRefused
  BY <1>7 DEF ClaimRefused, Go
<1>8. CASE Replayed
  BY <1>8 DEF Replayed, Go, Send, CheckHeartbeat, CheckPoll
<1>9. CASE Reported
  BY <1>9 DEF Reported, Send
<1>10. CASE Gone
  BY <1>10 DEF Gone, Go
<1>11. CASE JobDone
  BY <1>11 DEF JobDone, Go, HeartbeatSent
<1>12. CASE ReportRefused
  BY <1>12 DEF ReportRefused, Go
<1>13. CASE GiveUp
  BY <1>13 DEF GiveUp, Go, HeartbeatSent
<1>14. CASE Renew
  BY <1>14 DEF Renew
<1>15. CASE Report
  BY <1>15 DEF Report, Send
<1>16. CASE LoseLease
  BY <1>16 DEF LoseLease
<1>17. CASE JobRaises
  BY <1>17 DEF JobRaises, Go, Send
<1>18. CASE Serve
  BY <1>18 DEF Serve, HearRequest, Hear, HearResult, HearClaim
<1>19. CASE ServeLate
  BY <1>19 DEF ServeLate, HearRequest, Hear, HearResult, HearClaim
<1>20. CASE Expire
  BY <1>20 DEF Expire
<1>21. CASE Reap
  BY <1>21 DEF Reap, Silent
<1>22. CASE CallFails
  BY <1>22 DEF CallFails, Lose, Go
<1>23. CASE ReportFails
  BY <1>23 DEF ReportFails, Lose, Go, HeartbeatSent
<1>24. CASE LastCallFails
  BY <1>24 DEF LastCallFails, Lose, Go, Send
<1>25. CASE Signal
  BY <1>25 DEF Signal
<1>26. CASE Crash
  BY <1>26 DEF Crash, Go
<1>27. CASE Tick
  BY <1>27 DEF Tick, Prompt, WaitOver, Less, More
<1>28. QED
  BY <1>1, <1>2, <1>3, <1>4, <1>5, <1>6, <1>7, <1>8, <1>9, <1>10, <1>11,
     <1>12, <1>13, <1>14, <1>15, <1>16, <1>17, <1>18, <1>19, <1>20, <1>21,
     <1>22, <1>23, <1>24, <1>25, <1>26, <1>27 DEF Next, WorkerStep

(* Every step stays within the budget of silence.                            *)
LEMMA BudgetStep == TypeOK /\ Shape /\ Fresh /\ Leased /\ Budget /\ Next => Budget'
<1> SUFFICES ASSUME TypeOK, Shape, Fresh, Leased, Budget, Next PROVE Budget'
  OBVIOUS
<1> USE AvailabilityAssumption, BudgetFacts DEF TypeOK, Shape, Fresh,
        Leased, Budget, Steady, InLoop, Due, Busy, Calls, Waits, Job,
        schedule, local, row, faults
<1>1. CASE Start
  BY <1>1 DEF Start, Go, Send
<1>2. CASE Wake
  BY <1>2 DEF Wake, Go, WaitOver
<1>3. CASE Top
  BY <1>3 DEF Top, Go, Send, CheckHeartbeat, CheckPoll
<1>4. CASE Heartbeaten
  BY <1>4 DEF Heartbeaten, HeartbeatSent, Go, Send, CheckPoll
<1>5. CASE NoJob
  BY <1>5 DEF NoJob, Empty, DrawPoll, NextDelay, Small, Large, Go
<1>6. CASE Claimed
  BY <1>6 DEF Claimed, Found, Go
<1>7. CASE ClaimRefused
  BY <1>7 DEF ClaimRefused, Go
<1>8. CASE Replayed
  BY <1>8 DEF Replayed, Go, Send, CheckHeartbeat, CheckPoll
<1>9. CASE Reported
  BY <1>9 DEF Reported, Send
<1>10. CASE Gone
  BY <1>10 DEF Gone, Go
<1>11. CASE JobDone
  BY <1>11 DEF JobDone, Go, HeartbeatSent
<1>12. CASE ReportRefused
  BY <1>12 DEF ReportRefused, Go
<1>13. CASE GiveUp
  BY <1>13 DEF GiveUp, Go, HeartbeatSent
<1>14. CASE Renew
  BY <1>14 DEF Renew
<1>15. CASE Report
  BY <1>15 DEF Report, Send
<1>16. CASE LoseLease
  BY <1>16 DEF LoseLease
<1>17. CASE JobRaises
  BY <1>17 DEF JobRaises, Go, Send
<1>18. CASE Serve
  BY <1>18 DEF Serve, HearRequest, Hear, HearResult, HearClaim
<1>19. CASE ServeLate
  BY <1>19 DEF ServeLate, HearRequest, Hear, HearResult, HearClaim
<1>20. CASE Expire
  BY <1>20 DEF Expire
<1>21. CASE Reap
  BY <1>21 DEF Reap, Silent
<1>22. CASE CallFails
  BY <1>22 DEF CallFails, Lose, Go
<1>23. CASE ReportFails
  BY <1>23 DEF ReportFails, Lose, Go, HeartbeatSent
<1>24. CASE LastCallFails
  BY <1>24 DEF LastCallFails, Lose, Go, Send
<1>25. CASE Signal
  BY <1>25 DEF Signal
<1>26. CASE Crash
  BY <1>26 DEF Crash, Go
<1>27. CASE Tick
  BY <1>27 DEF Tick, Prompt, WaitOver, Less, More
<1>28. QED
  BY <1>1, <1>2, <1>3, <1>4, <1>5, <1>6, <1>7, <1>8, <1>9, <1>10, <1>11,
     <1>12, <1>13, <1>14, <1>15, <1>16, <1>17, <1>18, <1>19, <1>20, <1>21,
     <1>22, <1>23, <1>24, <1>25, <1>26, <1>27 DEF Next, WorkerStep

(* Every step keeps the polls apart.                                         *)
LEMMA PacedStep == TypeOK /\ Shape /\ Fresh /\ Leased /\ Paced /\ Next => Paced'
<1> SUFFICES ASSUME TypeOK, Shape, Fresh, Leased, Paced, Next PROVE Paced'
  OBVIOUS
<1> USE AvailabilityAssumption DEF TypeOK, Shape, Fresh, Leased,
        Paced, InLoop, Longest, Calls, Waits, Job, schedule, local,
        row, faults
<1>1. CASE Start
  BY <1>1 DEF Start, Go, Send
<1>2. CASE Wake
  BY <1>2 DEF Wake, Go, WaitOver
<1>3. CASE Top
  BY <1>3 DEF Top, Go, Send, CheckHeartbeat, CheckPoll
<1>4. CASE Heartbeaten
  BY <1>4 DEF Heartbeaten, HeartbeatSent, Go, Send, CheckPoll
<1>5. CASE NoJob
  <2>1. (4 * delay) \div 5 \in Int
    BY <1>5
  <2>2. PICK low \in Int : low >= Minimum /\ poll' \in low .. delay
    BY <1>5, <2>1 DEF NoJob, Empty, DrawPoll, Large
  <2>3. pc' = "idle"
    BY <1>5 DEF NoJob, Go
  <2>4. since' = 0
    BY <1>5 DEF NoJob, Empty
  <2>5. since' \in Int /\ poll' \in Minimum .. Maximum
    BY <2>2, <2>4
  <2>6. since' + poll' = poll'
    <3>1. poll' \in Int
      BY <2>5
    <3> QED
      BY <2>4, <2>5, <3>1, AddToZero, Zenon
  <2>7. /\ since' + poll' >= Minimum
        /\ since' + poll' <= Maximum
        /\ since' <= Maximum
    <3>1. poll' >= Minimum /\ poll' <= Maximum /\ 0 <= Maximum
      BY <2>5
    <3> QED
      BY <2>4, <2>6, <3>1, Zenon
  <2> QED
    BY <2>3, <2>5, <2>7
<1>6. CASE Claimed
  BY <1>6 DEF Claimed, Found, Go
<1>7. CASE ClaimRefused
  BY <1>7 DEF ClaimRefused, Go
<1>8. CASE Replayed
  BY <1>8 DEF Replayed, Go, Send, CheckHeartbeat, CheckPoll
<1>9. CASE Reported
  BY <1>9 DEF Reported, Send
<1>10. CASE Gone
  BY <1>10 DEF Gone, Go
<1>11. CASE JobDone
  BY <1>11 DEF JobDone, Go, HeartbeatSent
<1>12. CASE ReportRefused
  BY <1>12 DEF ReportRefused, Go
<1>13. CASE GiveUp
  BY <1>13 DEF GiveUp, Go, HeartbeatSent
<1>14. CASE Renew
  BY <1>14 DEF Renew
<1>15. CASE Report
  BY <1>15 DEF Report, Send
<1>16. CASE LoseLease
  BY <1>16 DEF LoseLease
<1>17. CASE JobRaises
  BY <1>17 DEF JobRaises, Go, Send
<1>18. CASE Serve
  BY <1>18 DEF Serve, HearRequest, Hear, HearResult, HearClaim
<1>19. CASE ServeLate
  BY <1>19 DEF ServeLate, HearRequest, Hear, HearResult, HearClaim
<1>20. CASE Expire
  BY <1>20 DEF Expire
<1>21. CASE Reap
  BY <1>21 DEF Reap, Silent
<1>22. CASE CallFails
  BY <1>22 DEF CallFails, Lose, Go
<1>23. CASE ReportFails
  BY <1>23 DEF ReportFails, Lose, Go, HeartbeatSent
<1>24. CASE LastCallFails
  BY <1>24 DEF LastCallFails, Lose, Go, Send
<1>25. CASE Signal
  BY <1>25 DEF Signal
<1>26. CASE Crash
  BY <1>26 DEF Crash, Go
<1>27. CASE Tick
  BY <1>27 DEF Tick, Prompt, WaitOver, Less, More
<1>28. QED
  BY <1>1, <1>2, <1>3, <1>4, <1>5, <1>6, <1>7, <1>8, <1>9, <1>10, <1>11,
     <1>12, <1>13, <1>14, <1>15, <1>16, <1>17, <1>18, <1>19, <1>20, <1>21,
     <1>22, <1>23, <1>24, <1>25, <1>26, <1>27 DEF Next, WorkerStep

(* The type invariant is its two parts.                                      *)
LEMMA TypeParts == (TypeOK) <=> (Values /\ Flags)
BY Zenon DEF TypeOK, Values, Flags

(* The initial states satisfy the invariant.                                 *)
LEMMA Initially == Init => IInv
<1> SUFFICES ASSUME Init PROVE IInv
  OBVIOUS
<1> USE AvailabilityAssumption DEF Init
<1>1. Flags
  BY DEF Flags
<1>2. Values
  BY DEF Values, Longest, Calls, Waits, Job
<1>3. TypeOK
  BY <1>1, <1>2, TypeParts
<1>4. Shape /\ Fresh /\ Leased /\ Budget
  BY DEF Shape, Fresh, Leased, Budget, Steady, Calls, Job
<1>5. Paced
  BY DEF Paced, InLoop, Job
<1> QED
  BY <1>3, <1>4, <1>5 DEF IInv

(* Every step, and every stutter, keeps the invariant.                       *)
LEMMA Inductive == IInv /\ [Next]_vars => IInv'
<1> SUFFICES ASSUME IInv, [Next]_vars PROVE IInv'
  OBVIOUS
<1>1. CASE Next
  <2>1. TypeOK /\ Shape /\ Fresh /\ Leased /\ Budget /\ Paced
    BY DEF IInv
  <2>2. Values' /\ Flags'
    BY <1>1, <2>1, TypeParts, ValuesStep, FlagsStep
  <2>3. TypeOK'
    BY <2>2 DEF TypeOK, Values, Flags
  <2>4. Shape' /\ Fresh' /\ Leased' /\ Budget' /\ Paced'
    BY <1>1, <2>1, ShapeStep, FreshStep, LeasedStep, BudgetStep, PacedStep
  <2> QED
    BY <2>3, <2>4 DEF IInv
<1>2. CASE UNCHANGED vars
  BY <1>2 DEF IInv, vars, TypeOK, Shape, Fresh, Leased, Budget, Paced, Steady,
     InLoop, Busy, Due, Cost
<1> QED
  BY <1>1, <1>2

(* The budget holds in every reachable state.                                *)
THEOREM AvailabilityInvariant == Spec => []IInv
<1>1. Init => IInv
  BY Initially
<1>2. IInv /\ [Next]_vars => IInv'
  BY Inductive
<1> QED
  BY <1>1, <1>2, PTL DEF Spec

(* The deadlines, the row and the loop keep their types (Availability.tla).  *)
THEOREM TypeCorrect == Spec => []TypeOK
<1>1. IInv => TypeOK
  BY DEF IInv
<1> QED
  BY <1>1, AvailabilityInvariant, PTL

(* A running worker is never reaped while no more than Tolerated of its calls*)
(* fail: every place's budget is within Offline.                             *)
THEOREM StaysOnlineHolds == Spec => []StaysOnline
<1>1. IInv => StaysOnline
  <2> SUFFICES ASSUME IInv, Steady
               PROVE  status \in {"ONLINE", "BUSY"} /\ silence <= Offline
    BY DEF StaysOnline, Steady
  <2>1. TypeOK /\ Shape /\ Fresh /\ Leased /\ Budget
    BY DEF IInv
  <2>2. status \in {"ONLINE", "BUSY"}
    BY <2>1 DEF Budget
  <2>3. pc \in Job => silence <= Busy
    BY <2>1, BudgetFacts, AvailabilityAssumption
       DEF TypeOK, Fresh, Leased, Steady, Job, Busy, Calls, Waits
  <2>4. silence <= Due + 2 * Call + Pause
    BY <2>1, <2>3, BudgetFacts, AvailabilityAssumption
       DEF TypeOK, Budget, Steady, InLoop, Job, Busy, Due
  <2>5. Due + 2 * Call + Pause <= Offline
    BY <2>1, BudgetFacts, AvailabilityAssumption DEF Steady, Busy, Due
  <2> QED
    BY <2>1, <2>2, <2>4, <2>5, BudgetFacts, AvailabilityAssumption
       DEF TypeOK, Busy, Due
<1> QED
  BY <1>1, AvailabilityInvariant, PTL

(* After "no job" the worker asks again neither too soon nor too late.       *)
THEOREM PollsPacedHolds == Spec => []PollsPaced
<1>1. IInv => PollsPaced
  BY AvailabilityAssumption DEF IInv, TypeOK, Shape, Paced, PollsPaced
<1> QED
  BY <1>1, AvailabilityInvariant, PTL
=============================================================================
