------------------------------ MODULE LeaseKeeper ------------------------------
(***************************************************************************)
(* One job at one worker: the lease it holds at the server, the renewals   *)
(* and the watchdog of class LeaseKeeper (workers/evaluator/lease.py), and *)
(* the containers Evaluator.evaluate runs under it (evaluator.py,          *)
(* docker_sandbox.py).  Three threads share the keeper: the main thread,   *)
(* which works through Script, the renewal loop and the watchdog.          *)
(*                                                                         *)
(* Both clocks run at the same rate; a deadline is what is left until it.  *)
(* Threads are prompt: time does not pass while the watchdog is due, while *)
(* a cancelled container is overdue, or while the loop could take the lock.*)
(* Calls are not: an answer may take for ever, or never come.              *)
(* Docker does what it is asked; module Worker has what happens otherwise. *)
(*                                                                         *)
(* Operators that Next does not use (CreateBlindly, ...) are               *)
(* slips this code could have made; PROJECT.json says which property each  *)
(* of them breaks.                                                         *)
(***************************************************************************)
EXTENDS Integers, Sequences

CONSTANTS
  Lease,      \* job["lease_seconds"], in ticks
  Safe,       \* 0.75 * lease_seconds: what an acknowledged renewal is good for
  Interval,   \* min(interval, lease_seconds / 4): what the loop waits
  Stop,       \* the longest from cancel to a confirmed docker kill
  Call,       \* the longest a call takes when nothing is wrong
  MaxLate,    \* bound: requests still under way whose caller gave up
  Faults      \* which of "network" and "signal" may happen

ASSUME LeaseAssumption ==
  /\ Lease \in Nat /\ Safe \in Nat \ {0} /\ Interval \in Nat /\ Stop \in Nat /\ Call \in Nat
  /\ MaxLate \in Nat
  /\ Safe + Stop < Lease /\ Call < Lease
  /\ Faults \subseteq {"network", "signal"}

VARIABLES
  faults,     \* which of the Faults happen in this run of the keeper
  lease,      \* the server's lease_expires_at - now(); -1 once the reaper may act
  late,       \* abandoned requests the server may still receive
  safe,       \* self.deadline - monotonic()
  cancel,     \* self.cancel
  cancelled,  \* ticks since cancel was set, at most Stop
  holder,     \* who is inside renew() with self.lock
  call,       \* where that renew() is, and what its sent_at is still good for
  wait,       \* ticks until the loop renews; -1 once the loop ended
  pos,        \* where the main thread is in Script
  container   \* the job's container: "none", "created" or "running"

outside == <<faults, lease, late>>
keeper == <<safe, cancel, cancelled, holder, call, wait>>
vars == <<faults, lease, late, safe, cancel, cancelled, holder, call, wait, pos, container>>

(* What the main thread does with a claimed job.  The first renewal is       *)
(* LeaseKeeper.__enter__; "report" is inside the with block, "left" is not.  *)
Script == <<"job.started", "prepare", "agent.started", "agent", "agent.finished",
            "test.started", "test", "test.finished", "report", "left">>
Renewals == {"job.started", "agent.started", "agent.finished", "test.started", "test.finished"}
Executions == {"agent", "test"}
Left == Len(Script)
At(steps) == Script[pos] \in steps

Stages == {"ready", "sent", "renewed", "refused", "failed"}
NoCall == [stage |-> "none", good |-> 0]

(* This is the keeper's type invariant.                                      *)
TypeOK ==
  /\ faults \subseteq Faults
  /\ lease \in -1 .. Lease /\ late \in 0 .. MaxLate
  /\ safe \in 0 .. Safe /\ cancel \in BOOLEAN /\ cancelled \in 0 .. Stop
  /\ holder \in {"nobody", "main", "loop"}
  /\ call \in {NoCall} \union [stage : Stages, good : 0 .. Safe]
  /\ wait \in -1 .. Interval
  /\ pos \in 1 .. Left
  /\ container \in {"none", "created", "running"}

(* The claim was granted some time before its answer arrived.                *)
Init ==
  /\ faults \in SUBSET Faults
  /\ lease \in (IF "network" \in faults THEN -1 ELSE Lease - Call) .. Lease
  /\ late = 0
  /\ safe = Safe /\ cancel = FALSE /\ cancelled = 0
  /\ holder = "nobody" /\ call = NoCall
  /\ wait = Interval
  /\ pos = 1
  /\ container = "none"
-----------------------------------------------------------------------------
Entered == pos > 1
Done == pos = Left
Wants(t) == IF t = "main" THEN At(Renewals) ELSE Entered /\ ~Done /\ wait = 0

(* The main thread gives up on what is left of the script: evaluate's        *)
(* finally removes the containers, and the result is reported, unless the    *)
(* lease is cancelled: then it is kept, and the with block ends.             *)
GiveUp == /\ pos' = IF cancel' THEN Left ELSE Left - 1
          /\ container' = "none"

Cancel == cancel' = TRUE

(* renew() raises: evaluate() gives up, or the loop cancels and ends.        *)
Raise(t) ==
  /\ holder' = "nobody" /\ call' = NoCall
  /\ IF t = "main" THEN GiveUp /\ UNCHANGED wait
                   ELSE wait' = -1 /\ UNCHANGED <<pos, container>>
  /\ UNCHANGED <<outside, safe, cancelled>>

(* renew() returns: the main thread goes on, the loop waits again.           *)
LoopWaitTooLong == Lease
LoopWait == Interval
Return(t) ==
  /\ holder' = "nobody" /\ call' = NoCall
  /\ IF t = "main" THEN pos' = pos + 1 /\ UNCHANGED wait
                   ELSE wait' = LoopWait /\ UNCHANGED pos
  /\ UNCHANGED <<outside, cancel, cancelled, container>>

Acquire(t) ==
  /\ holder = "nobody" /\ Wants(t)
  /\ IF cancel
       THEN Cancel /\ Raise(t)
       ELSE /\ holder' = t
            /\ call' = [stage |-> "ready", good |-> 0]
            /\ UNCHANGED <<outside, safe, cancel, cancelled, wait, pos, container>>

(* The request goes out, unless it is too late or no longer wanted.          *)
Send ==
  /\ call.stage = "ready"
  /\ IF cancel \/ safe = 0
       THEN Cancel /\ Raise(holder)
       ELSE /\ call' = [stage |-> "sent", good |-> Safe]
            /\ UNCHANGED <<outside, safe, cancel, cancelled, holder, wait, pos, container>>

(* The server's job heartbeat: the lease is extended while it is still good. *)
Serve ==
  /\ call.stage = "sent"
  /\ call' = [call EXCEPT !.stage = IF lease > 0 THEN "renewed" ELSE "refused"]
  /\ lease' = IF lease > 0 THEN Lease ELSE lease
  /\ UNCHANGED <<faults, late, safe, cancel, cancelled, holder, wait, pos, container>>

(* A 5xx answer, or none in time: the request or its answer may be lost, or  *)
(* the request may be on its way still.                                      *)
Fail ==
  /\ "network" \in faults
  /\ call.stage \in {"sent", "renewed", "refused"}
  /\ call' = [call EXCEPT !.stage = "failed"]
  /\ late' \in {late} \union (IF call.stage = "sent" /\ late < MaxLate THEN {late + 1} ELSE {})
  /\ UNCHANGED <<faults, lease, safe, cancel, cancelled, holder, wait, pos, container>>

ServeLate ==
  /\ late > 0
  /\ late' = late - 1
  /\ lease' = IF lease > 0 THEN Lease ELSE lease
  /\ UNCHANGED <<faults, keeper, pos, container>>

(* What an acknowledged renewal is good for runs from when it was sent.      *)
AckedDeadlineFromAnswer == Safe
AckedDeadline == call.good

Acknowledged ==
  /\ call.stage = "renewed"
  /\ IF cancel \/ safe = 0
       THEN Cancel /\ Raise(holder)
       ELSE Return(holder) /\ safe' = AckedDeadline

(* A 4xx answer: the lease is gone.                                          *)
Refused ==
  /\ call.stage = "refused"
  /\ Cancel /\ Raise(holder)

(* After a transient failure renew() waits up to two seconds and tries again.*)
Retry ==
  /\ call.stage = "failed"
  /\ call' = [stage |-> "ready", good |-> 0]
  /\ UNCHANGED <<outside, safe, cancel, cancelled, holder, wait, pos, container>>
-----------------------------------------------------------------------------
(* The watchdog needs no lock, so that a call under way cannot hold it up.   *)
WatchdogDueUnlessCalling == Entered /\ ~Done /\ ~cancel /\ safe = 0 /\ holder = "nobody"
WatchdogDue == Entered /\ ~Done /\ ~cancel /\ safe = 0

Watchdog ==
  /\ WatchdogDue
  /\ Cancel
  /\ UNCHANGED <<outside, safe, cancelled, holder, call, wait, pos, container>>

(* SIGTERM or SIGINT: shutdown() cancels the lease that is active.           *)
Signal ==
  /\ "signal" \in faults
  /\ Entered /\ ~Done /\ ~cancel
  /\ Cancel
  /\ UNCHANGED <<outside, safe, cancelled, holder, call, wait, pos, container>>
-----------------------------------------------------------------------------
(* Preparing the inputs and the image ends, or fails; a cancelled lease      *)
(* fails it.                                                                 *)
Prepare ==
  /\ At({"prepare"})
  /\ UNCHANGED <<outside, keeper>>
  /\ \/ ~cancel /\ pos' = pos + 1 /\ UNCHANGED container
     \/ GiveUp

(* DockerSandbox.execute: cancel is looked at before docker create, ...      *)
CreateBlindly == At(Executions) /\ container = "none"
MayCreate == At(Executions) /\ container = "none" /\ ~cancel

Create ==
  /\ MayCreate
  /\ container' = "created"
  /\ UNCHANGED <<outside, keeper, pos>>

Abort ==
  /\ At(Executions) /\ container # "running" /\ cancel
  /\ UNCHANGED <<outside, keeper>>
  /\ GiveUp

(* ... and not again before docker start, ...                                *)
Start ==
  /\ container = "created"
  /\ container' = "running"
  /\ UNCHANGED <<outside, keeper, pos>>

(* ... which ends by itself, by its timeout or by the cancelled lease, and   *)
(* always with a docker kill that is confirmed.  Only a phase that ended by  *)
(* itself leads to the next.                                                 *)
Finish ==
  /\ container = "running"
  /\ UNCHANGED <<outside, keeper>>
  /\ \/ ~cancel /\ pos' = pos + 1 /\ container' = "none"
     \/ GiveUp

(* The result is uploaded, or kept for a replay.                             *)
Report ==
  /\ At({"report"})
  /\ pos' = Left
  /\ UNCHANGED <<outside, keeper, container>>
-----------------------------------------------------------------------------
(* In good health a call is answered within Call ticks and retried at once.  *)
Answerable == call.stage \in {"sent", "renewed", "refused"} /\ Safe - call.good >= Call

Prompt ==
  /\ ~WatchdogDue
  /\ ~(cancel /\ container # "none" /\ cancelled = Stop)
  /\ ~(holder = "nobody" /\ (Wants("loop") \/ Wants("main")))
  /\ "network" \notin faults => call.stage \notin {"ready", "failed"} /\ ~Answerable

Less(n, least) == IF n > least THEN n - 1 ELSE n

Tick ==
  /\ Prompt
  /\ lease' = Less(lease, -1)
  /\ safe' = Less(safe, 0)
  /\ call' = [call EXCEPT !.good = Less(@, 0)]
  /\ wait' = IF Entered THEN Less(wait, IF wait = -1 THEN -1 ELSE 0) ELSE wait
  /\ cancelled' = IF cancel /\ cancelled < Stop THEN cancelled + 1 ELSE cancelled
  /\ UNCHANGED <<faults, late, cancel, holder, pos, container>>

Next ==
  \/ Acquire("main") \/ Acquire("loop")
  \/ Send \/ Serve \/ Fail \/ ServeLate \/ Acknowledged \/ Refused \/ Retry
  \/ Watchdog \/ Signal
  \/ Prepare \/ Create \/ Abort \/ Start \/ Finish \/ Report
  \/ Tick

Spec == Init /\ [][Next]_vars

(* Fairness: time passes, the worker's own threads run, Docker stops a       *)
(* container whose lease is cancelled, and a healthy network answers.  With  *)
(* network faults nothing is asked of it, a call may hang for ever, and      *)
(* nothing ever of the agent, which may run for ever.                        *)
FairSpec ==
  /\ Spec
  /\ WF_vars(Tick)
  /\ WF_vars(Watchdog)
  /\ WF_vars(Acquire("main") \/ Acquire("loop"))
  /\ WF_vars(Create \/ Abort \/ Start)
  /\ WF_vars(cancel /\ Finish)
  /\ WF_vars("network" \notin faults /\ (Send \/ Serve \/ Acknowledged \/ Refused))
-----------------------------------------------------------------------------
(* The agent and its tests never run once the server may have given the job  *)
(* to another worker, whatever happens to the renewals (lease.py,            *)
(* docs/worker-protocol.md: stop local execution before lease expiry).       *)
ExecutionFenced == container = "running" => lease > 0

(* A keeper that is not cancelled does hold the lease, with the margin the   *)
(* watchdog leaves, so that what the worker then starts or uploads is in     *)
(* time; late answers and requests that arrive late do not mislead it.       *)
LeaseHeld == Entered /\ ~Done /\ ~cancel => lease >= Lease - Safe

(* The loop renews in time if a call, its wait and the next call fit into    *)
(* the safe time.  With the defaults they do (2 * 10 + 20 < 90 seconds);     *)
(* with the shortest lease and slow calls they do not (2 * 10 + 7.5 > 22.5). *)
RenewsInTime == 2 * Call + Interval < Safe

(* Without faults no lease is ever cancelled: the loop renews often enough   *)
(* although the main thread renews through the same lock.                    *)
HealthyLeaseSurvives == RenewsInTime /\ faults = {} => ~cancel

(* A worker whose renewals stop being acknowledged stops executing, even if  *)
(* its call hangs for ever with the lock held.                               *)
CutOffStops ==
  []<><<Acknowledged>>_vars \/ <>[](container # "running")
-----------------------------------------------------------------------------
(* What the keeper lets run, and for how long at most: for as long as the    *)
(* safe time lasts, or the answer it waits for is worth, and then until the  *)
(* cancelled container is gone.                                              *)
Keeps ==
  IF cancel THEN container # "none"
            ELSE /\ ~At({"report", "left"})
                 /\ Entered \/ (call.stage = "renewed" /\ call.good > 0)
Promised ==
  IF cancel THEN Stop - cancelled
            ELSE (IF call.stage = "renewed" THEN call.good ELSE safe) + Stop
Promise == IF Keeps THEN [job |-> "job", left |-> Promised]
                    ELSE [job |-> "none", left |-> 0]

Contract == INSTANCE KeptLease WITH
  Jobs <- {"job"}, NoJob <- "none", Hold <- Safe + Stop,
  keeper <- Promise, running <- container # "none"

(* The keeper implements what Fleet assumes of it: what runs at the worker   *)
(* may go on longer only by a renewal that the server granted, counted from  *)
(* when it was sent, and has less time left with every tick.                 *)
HonoursContract == Contract!Spec
=============================================================================
