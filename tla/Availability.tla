----------------------------- MODULE Availability -----------------------------
(***************************************************************************)
(* Whether a worker is there: the deadlines of an idle worker (class       *)
(* IdleSchedule in workers/evaluator/scheduling.py), the loop of           *)
(* run_worker (workers/evaluator/main.py) that keeps them, and the row by  *)
(* which the server judges the worker: its status, its last heartbeat and  *)
(* whether it owns a live job (apps/api/agentbenchx/services.py).          *)
(*                                                                         *)
(* One worker and its row.  Time is counted in ticks; a deadline is what   *)
(* is left until it, 0 once it is due.  A random draw is any whole number  *)
(* of ticks in its range, the lower end rounded down.  The job itself is   *)
(* modelled by LeaseKeeper and Worker, its lease by EvaluationManager; here*)
(* it is something that renews, ends, fails or is lost.                    *)
(*                                                                         *)
(* Operators that Next does not use (DrawPollFromZero, ...) are slips this *)
(* code could have made; PROJECT.json says which property each breaks.     *)
(***************************************************************************)
EXTENDS Integers

CONSTANTS
  Minimum,      \* settings.worker_idle_poll_min_seconds
  Maximum,      \* settings.worker_idle_poll_max_seconds
  Heartbeat,    \* settings.worker_idle_heartbeat_seconds
  Pause,        \* settings.worker_poll_interval, after an error
  Call,         \* the longest a call takes, its client's timeout included
  Renewal,      \* the longest between two renewals of a lease that is kept
  Offline,      \* settings.worker_offline_seconds
  Tolerated,    \* the failed calls Offline leaves room for
  MaxFailed,    \* bound: calls that fail
  MaxOutages    \* bound: leases that are lost, and requests that arrive late

ASSUME AvailabilityAssumption ==
  /\ Minimum \in Nat \ {0} /\ Maximum \in Nat /\ Minimum <= Maximum
  /\ Heartbeat \in Nat /\ Heartbeat >= 2
  /\ Pause \in Nat /\ Call \in Nat \ {0} /\ Renewal \in Nat /\ Call <= Renewal
  /\ Tolerated \in Nat /\ MaxFailed \in Nat /\ MaxOutages \in Nat
  /\ Offline \in Nat
  /\ Renewal + Heartbeat + Pause + 2 * Call + Tolerated * (Call + Pause) <= Offline

VARIABLES
  pc,        \* where run_worker is
  timer,     \* what is left of the call or the wait it is in
  answer,    \* what has become of its call
  beat,      \* schedule.next_heartbeat; -1 before the first heartbeat
  poll,      \* schedule.next_poll
  delay,     \* schedule.delay
  since,     \* ticks since "no job" was the answer, -1 if it was not the last
  stop,      \* the stop event
  keeping,   \* the job's lease is being kept
  pending,   \* a result.pending.json waits for its replay
  status,    \* workers.status
  silence,   \* ticks since workers.last_heartbeat
  active,    \* the worker owns a live job
  stray,     \* a request its caller gave up that may still arrive
  failed,    \* calls that failed so far
  outages    \* leases lost and requests abandoned so far

schedule == <<beat, poll, delay, since>>
local == <<stop, keeping, pending>>
row == <<status, silence, active>>
faults == <<stray, failed, outages>>
vars == <<pc, timer, answer, beat, poll, delay, since, stop, keeping, pending,
          status, silence, active, stray, failed, outages>>

Calls == {"replay", "heartbeat", "claim", "report", "error", "farewell"}
Waits == {"starting", "idle", "pause"}
Job == {"job", "report", "retry"}
InLoop == pc \in {"top", "replay", "heartbeat", "claim", "idle", "pause"} \union Job
Longest == Maximum + Minimum + Call + Pause + Renewal
Small(a, b) == IF a <= b THEN a ELSE b
Large(a, b) == IF a >= b THEN a ELSE b

(* This is the type invariant of the worker's deadlines and of its row.      *)
TypeOK ==
  /\ pc \in {"down", "top"} \union Calls \union Waits \union Job
  /\ timer \in 0 .. Longest
  /\ answer \in {"none", "awaited", "accepted", "refused", "empty", "job"}
  /\ beat \in -1 .. Heartbeat
  /\ poll \in 0 .. Maximum /\ delay \in Minimum .. Maximum
  /\ since \in -1 .. Longest
  /\ stop \in BOOLEAN /\ keeping \in BOOLEAN /\ pending \in BOOLEAN
  /\ status \in {"ONLINE", "BUSY", "ERROR", "OFFLINE"}
  /\ silence \in 0 .. Offline + 1 /\ active \in BOOLEAN
  /\ stray \in {"none"} \union Calls
  /\ failed \in 0 .. MaxFailed /\ outages \in 0 .. MaxOutages

(* A worker that has registered and is not running.                          *)
Init ==
  /\ pc = "down" /\ timer = 0 /\ answer = "none"
  /\ beat = -1 /\ poll = 0 /\ delay = Minimum /\ since = -1
  /\ stop = FALSE /\ keeping = FALSE /\ pending = FALSE
  /\ status = "ONLINE" /\ silence = 0 /\ active = FALSE
  /\ stray = "none" /\ failed = 0 /\ outages = 0
-----------------------------------------------------------------------------
(* IdleSchedule.  Both draws are made where the caller got its answer.       *)
HeartbeatSent == beat' \in (9 * Heartbeat) \div 10 .. Heartbeat

DrawPollFromZero == 0 .. delay
DrawPoll == Large(Minimum, (4 * delay) \div 5) .. delay

NextDelayUncapped == 2 * delay
NextDelay == Small(Maximum, 2 * delay)

Empty ==
  /\ poll' \in DrawPoll
  /\ delay' = NextDelay
  /\ since' = 0

Found == poll' = 0 /\ delay' = Minimum /\ since' = -1

(* wait_seconds is over: a deadline is due.                                  *)
WaitOverAtPoll == poll = 0
WaitOver == poll = 0 \/ beat <= 0
-----------------------------------------------------------------------------
(* Where the loop goes.                                                      *)
Go(place, ticks) == pc' = place /\ timer' = ticks /\ answer' = "none"
Send(request) == pc' = request /\ timer' = Call /\ answer' = "awaited"

CheckPoll == IF poll = 0 THEN Send("claim") ELSE Go("idle", 0)
CheckHeartbeat == IF beat <= 0 THEN Send("heartbeat") ELSE CheckPoll

(* run_worker up to the loop: what a process finds is what the last one left *)
(* on disk.  A kept result is replayed before the startup delay.             *)
Start ==
  /\ pc = "down"
  /\ \/ pending /\ Send("replay")
     \/ ~pending /\ \E d \in 0 .. Minimum : Go("starting", d)
  /\ beat' = -1 /\ poll' = 0 /\ delay' = Minimum /\ since' = -1
  /\ stop' = FALSE /\ keeping' = FALSE
  /\ UNCHANGED <<pending, row, faults>>

Wake ==
  /\ \/ pc \in {"starting", "pause"} /\ (timer = 0 \/ stop)
     \/ pc = "idle" /\ (WaitOver \/ stop)
  /\ Go("top", 0)
  /\ UNCHANGED <<schedule, local, row, faults>>

(* stop is looked at here and nowhere else in the loop.                      *)
Top ==
  /\ pc = "top"
  /\ IF stop THEN Send("farewell")
     ELSE IF pending THEN Send("replay") ELSE CheckHeartbeat
  /\ UNCHANGED <<schedule, local, row, faults>>
-----------------------------------------------------------------------------
(* The server.  A heartbeat sets the status that was reported, and BUSY for  *)
(* ONLINE while a job is live.                                               *)
HearKeepsOffline(reported) ==
  /\ status' = IF status = "OFFLINE" THEN status
               ELSE IF active /\ reported = "ONLINE" THEN "BUSY" ELSE reported
  /\ silence' = 0
  /\ UNCHANGED active

Hear(reported) ==
  /\ status' = IF active /\ reported = "ONLINE" THEN "BUSY" ELSE reported
  /\ silence' = 0
  /\ UNCHANGED active

(* A result of a live job ends it and makes its worker ONLINE; one that is   *)
(* known is acknowledged again.                                              *)
HearResult ==
  \/ active /\ active' = FALSE /\ status' = "ONLINE" /\ silence' = 0
  \/ ~active /\ UNCHANGED row

(* A claim is refused (409), finds nothing, which leaves last_heartbeat as   *)
(* it is, or is granted.                                                     *)
HearClaim(reply) ==
  IF status \in {"ERROR", "OFFLINE"} \/ active
    THEN reply = "refused" /\ UNCHANGED row
    ELSE \/ reply = "empty" /\ UNCHANGED row
         \/ reply = "job" /\ active' = TRUE /\ status' = "BUSY" /\ silence' = 0

(* A result whose lease has ended is refused, whether or not the reaper has  *)
(* been there; the lease of a job that is kept has not.  A replay may carry  *)
(* the result of an earlier job, which is refused or known already, and so   *)
(* may a report that arrives late.                                           *)
HearRequest(request, reply) ==
  \/ request = "heartbeat" /\ reply = "accepted" /\ Hear("ONLINE")
  \/ request = "error" /\ reply = "accepted" /\ Hear("ERROR")
  \/ request = "farewell" /\ reply = "accepted" /\ Hear("OFFLINE")
  \/ request = "claim" /\ HearClaim(reply)
  \/ request \in {"report", "replay"} /\ reply = "accepted" /\ HearResult
  \/ request = "replay" /\ reply = "accepted" /\ UNCHANGED row
  \/ request = "report" /\ reply = "refused" /\ UNCHANGED row
       /\ (active => ~(pc = "report" /\ keeping))
  \/ request = "replay" /\ reply = "refused" /\ UNCHANGED row

Serve ==
  /\ answer = "awaited"
  /\ \E reply \in {"accepted", "refused", "empty", "job"} :
       HearRequest(pc, reply) /\ answer' = reply
  /\ UNCHANGED <<pc, timer, schedule, local, faults>>

ServeLate ==
  /\ stray # "none"
  /\ stray' = "none"
  /\ \E reply \in {"accepted", "refused", "empty", "job"} : HearRequest(stray, reply)
  /\ UNCHANGED <<pc, timer, answer, schedule, local, failed, outages>>

(* The reaper's two transactions, as far as this worker is concerned.  The   *)
(* lease of a job nobody keeps runs out.                                     *)
Expire ==
  /\ active /\ answer # "job"
  /\ ~(pc \in Job /\ keeping)
  /\ active' = FALSE
  /\ UNCHANGED <<pc, timer, answer, schedule, local, status, silence, faults>>

SilentOnline == status = "ONLINE" /\ silence > Offline
Silent == status \in {"ONLINE", "BUSY"} /\ silence > Offline

Reap ==
  /\ Silent
  /\ status' = "OFFLINE"
  /\ UNCHANGED <<pc, timer, answer, schedule, local, silence, active, faults>>
-----------------------------------------------------------------------------
(* The answers.                                                              *)
Heartbeaten ==
  /\ pc = "heartbeat" /\ answer = "accepted"
  /\ HeartbeatSent
  /\ CheckPoll
  /\ UNCHANGED <<poll, delay, since, local, row, faults>>

NoJob ==
  /\ pc = "claim" /\ answer = "empty"
  /\ Empty
  /\ Go("idle", 0)
  /\ UNCHANGED <<beat, local, row, faults>>

Claimed ==
  /\ pc = "claim" /\ answer = "job"
  /\ Found
  /\ Go("job", 0)
  /\ keeping' = TRUE
  /\ UNCHANGED <<beat, stop, pending, row, faults>>

(* A 409 raises like any other failed call.                                  *)
ClaimRefused ==
  /\ pc = "claim" /\ answer = "refused"
  /\ since' = -1
  /\ Go("pause", Pause)
  /\ UNCHANGED <<beat, poll, delay, local, row, faults>>

(* Renamed result.accepted.json or result.rejected.json, and on: to the      *)
(* startup delay, or to the rest of the loop's pass.                         *)
Replayed ==
  /\ pc = "replay" /\ answer \in {"accepted", "refused"}
  /\ pending' = FALSE
  /\ IF beat = -1 THEN \E d \in 0 .. Minimum : Go("starting", d) ELSE CheckHeartbeat
  /\ UNCHANGED <<schedule, stop, keeping, row, faults>>

(* stop is set, so the status ERROR is followed at once by the farewell of   *)
(* every process that ends.                                                  *)
Reported ==
  /\ pc = "error" /\ answer = "accepted"
  /\ Send("farewell")
  /\ UNCHANGED <<schedule, local, row, faults>>

Gone ==
  /\ pc = "farewell" /\ answer = "accepted"
  /\ Go("down", 0)
  /\ UNCHANGED <<schedule, local, row, faults>>
-----------------------------------------------------------------------------
(* The job.                                                                  *)
Renew ==
  /\ pc \in Job /\ keeping /\ active
  /\ silence' = 0
  /\ UNCHANGED <<pc, timer, answer, schedule, local, status, active, faults>>

(* The result of a job whose lease is kept.                                  *)
Report ==
  /\ pc \in {"job", "retry"} /\ keeping
  /\ Send("report")
  /\ UNCHANGED <<schedule, local, row, faults>>

(* After a job the next heartbeat is put off as if one had been sent.        *)
JobDone ==
  /\ pc = "report" /\ answer = "accepted"
  /\ Go("top", 0)
  /\ HeartbeatSent
  /\ keeping' = FALSE
  /\ UNCHANGED <<poll, delay, since, stop, pending, row, faults>>

(* Renewals fail for as long as the keeper waits for one, or are refused     *)
(* because the server has the result already.                                *)
LoseLease ==
  /\ pc \in Job /\ keeping
  /\ \/ active /\ outages < MaxOutages /\ outages' = outages + 1
     \/ ~active /\ UNCHANGED outages
  /\ keeping' = FALSE
  /\ UNCHANGED <<pc, timer, answer, schedule, stop, pending, row, stray, failed>>

(* The cancelled execution, or the cancelled wait for the next try, leaves a *)
(* result for a replay.                                                      *)
GiveUp ==
  /\ pc \in {"job", "retry"} /\ ~keeping
  /\ Go("top", 0)
  /\ HeartbeatSent
  /\ pending' = TRUE
  /\ UNCHANGED <<poll, delay, since, stop, keeping, row, faults>>

(* The keeper's first renewal or evaluate() raises, or the sandbox cannot be *)
(* cleaned up, which stops the worker.                                       *)
JobRaises ==
  /\ pc = "job"
  /\ \/ Go("pause", Pause) /\ UNCHANGED stop
     \/ Send("error") /\ stop' = TRUE
  /\ keeping' = FALSE
  /\ pending' \in BOOLEAN
  /\ UNCHANGED <<schedule, row, faults>>
-----------------------------------------------------------------------------
(* A call fails: a lost connection, no answer in time, a 5xx.  What was sent *)
(* has been served, was lost, or arrives later.                              *)
Lose ==
  \/ /\ failed < MaxFailed /\ failed' = failed + 1
     /\ UNCHANGED <<stray, outages>>
  \/ /\ answer = "awaited" /\ stray = "none" /\ outages < MaxOutages
     /\ stray' = pc /\ outages' = outages + 1
     /\ UNCHANGED failed

(* The loop's handler waits and starts a new pass.                           *)
CallFails ==
  /\ pc \in {"heartbeat", "claim"} \/ (pc = "replay" /\ beat # -1)
  /\ Lose
  /\ Go("pause", Pause)
  /\ since' = IF pc = "claim" THEN -1 ELSE since
  /\ UNCHANGED <<beat, poll, delay, local, row>>

(* The result is tried again under the lease; after the third failure the    *)
(* worker stops, and a 5xx leads to the handler.                             *)
ReportFails ==
  /\ pc = "report"
  /\ Lose
  /\ \/ Go("retry", 0) /\ UNCHANGED <<beat, local>>
     \/ /\ Go("top", 0) /\ HeartbeatSent
        /\ stop' = TRUE /\ keeping' = FALSE /\ pending' = TRUE
     \/ /\ Go("pause", Pause)
        /\ keeping' = FALSE /\ pending' = TRUE
        /\ UNCHANGED <<beat, stop>>
  /\ UNCHANGED <<poll, delay, since, row>>

ReportRefused ==
  /\ pc = "report" /\ answer = "refused"
  /\ Go("pause", Pause)
  /\ keeping' = FALSE /\ pending' = TRUE
  /\ UNCHANGED <<schedule, stop, row, faults>>

(* A replay that fails before the loop, or a report of ERROR, ends the       *)
(* process through the farewell; a farewell that fails just ends it.         *)
LastCallFails ==
  /\ pc \in {"error", "farewell"} \/ (pc = "replay" /\ beat = -1)
  /\ Lose
  /\ IF pc = "farewell" THEN Go("down", 0) ELSE Send("farewell")
  /\ UNCHANGED <<schedule, local, row>>

(* SIGTERM or SIGINT: waits end, and an active lease is cancelled, which     *)
(* ends its renewals too.                                                    *)
Signal ==
  /\ pc # "down" /\ ~stop
  /\ stop' = TRUE
  /\ keeping' = FALSE
  /\ UNCHANGED <<pc, timer, answer, schedule, pending, row, faults>>

(* The process dies.  What it had sent may still arrive.                     *)
Crash ==
  /\ pc # "down"
  /\ Go("down", 0)
  /\ \/ UNCHANGED <<stray, outages>>
     \/ /\ answer = "awaited" /\ stray = "none" /\ outages < MaxOutages
        /\ stray' = pc /\ outages' = outages + 1
  /\ keeping' = FALSE
  /\ UNCHANGED <<schedule, stop, pending, row, failed>>
-----------------------------------------------------------------------------
(* Time waits for nobody but the worker's own next step, and for renewals of *)
(* a lease that is kept.                                                     *)
Prompt ==
  /\ pc # "top"
  /\ pc \in Calls \union {"starting", "pause"} => timer > 0
  /\ pc \in Waits => ~stop
  /\ pc = "idle" => ~WaitOver
  /\ pc = "retry" => keeping
  /\ pc \in Job /\ keeping => silence < Renewal

Less(n) == IF n > 0 THEN n - 1 ELSE n
More(n, most) == IF n < most THEN n + 1 ELSE n

Tick ==
  /\ Prompt
  /\ timer' = Less(timer) /\ beat' = Less(beat) /\ poll' = Less(poll)
  /\ since' = IF since = -1 THEN -1 ELSE More(since, Longest)
  /\ silence' = More(silence, Offline + 1)
  /\ <<timer, beat, poll, since, silence>>' # <<timer, beat, poll, since, silence>>
  /\ UNCHANGED <<pc, answer, delay, local, status, active, faults>>

WorkerStep ==
  \/ Wake \/ Top \/ Heartbeaten \/ NoJob \/ Claimed \/ ClaimRefused
  \/ Replayed \/ Reported \/ Gone \/ JobDone \/ ReportRefused \/ GiveUp

Next ==
  \/ Start \/ WorkerStep \/ Renew \/ Report \/ LoseLease \/ JobRaises
  \/ Serve \/ ServeLate \/ Expire \/ Reap
  \/ CallFails \/ ReportFails \/ LastCallFails \/ Signal \/ Crash
  \/ Tick

Spec == Init /\ [][Next]_vars

(* Fairness: time passes, the worker and the reaper run, calls that do not   *)
(* fail are answered, a result is tried again, and abandoned leases run out. *)
(* Nothing is asked of an execution, which may take for ever, nor of whoever *)
(* starts the worker.                                                        *)
FairSpec ==
  /\ Spec
  /\ WF_vars(Tick) /\ WF_vars(WorkerStep)
  /\ WF_vars(pc = "retry" /\ Report)
  /\ WF_vars(Serve) /\ WF_vars(Renew) /\ WF_vars(~active /\ LoseLease)
  /\ WF_vars(Expire) /\ WF_vars(Reap)
-----------------------------------------------------------------------------
(* The reaper never takes a running worker for gone while no more than       *)
(* Tolerated of its calls fail: the idle heartbeat, put off after every job, *)
(* comes in time whatever calls and waits are in its way (scheduling.py;     *)
(* docs/communication-optimization.md: "more than two nominal idle           *)
(* intervals before being considered offline").                              *)
StaysOnline ==
  InLoop /\ ~stop /\ beat # -1 /\ failed <= Tolerated /\ outages = 0
    => status \in {"ONLINE", "BUSY"} /\ silence <= Offline

(* After "no job" the worker asks again no sooner than the minimum, whatever *)
(* failed meanwhile, and, if nothing fails, no later than the maximum plus a *)
(* heartbeat that was due just before (scheduling.py: "Never exceed the      *)
(* configured maximum latency or busy-spin with full jitter").               *)
PollsPaced ==
  pc = "claim" /\ timer = Call /\ answer = "awaited" /\ since # -1 =>
    /\ since >= Minimum
    /\ failed = 0 /\ outages = 0 => since <= Maximum + Call

(* A worker that keeps running is asked back: it always gets to a claim that *)
(* is not refused, whether it was reaped OFFLINE during an outage, put       *)
(* OFFLINE by the late farewell of an earlier process, or owns a job it does *)
(* not know of because the answer to its claim was lost.                     *)
WorksAgain ==
  []<>(pc = "job" \/ ~InLoop \/ answer \in {"empty", "job"})

(* A worker that is gone is not shown as available for ever, although a      *)
(* request that arrives late may have revived its row (main.py: "Server      *)
(* reaper provides eventual OFFLINE").                                       *)
GoneIsOffline ==
  pc = "down" ~> (pc # "down" \/ status \in {"OFFLINE", "ERROR"})
=============================================================================
