-------------------------------- MODULE Worker --------------------------------
(***************************************************************************)
(* One worker process with its disk and its Docker: run_worker,            *)
(* recover_sandboxes and replay_pending (workers/evaluator/main.py), what  *)
(* Evaluator.evaluate and acknowledged leave behind (evaluator.py) and the *)
(* containers of DockerSandbox (docker_sandbox.py).  The process may crash *)
(* between any two steps and is started again; its files and its           *)
(* containers survive it.                                                  *)
(*                                                                         *)
(* The server is what EvaluationManager promises: it grants a queued job,  *)
(* accepts the result of a live job once, repeats its answer, and refuses  *)
(* a job whose lease lapsed.  A lease does not lapse under a worker that   *)
(* holds it uncancelled (LeaseKeeper!LeaseHeld).                           *)
(*                                                                         *)
(* Operators that Next does not use (CleanOutOfOrder, ...) are             *)
(* slips this code could have made; PROJECT.json says which property each  *)
(* of them breaks.                                                         *)
(***************************************************************************)
EXTENDS Naturals, FiniteSets

CONSTANTS
  Jobs,       \* the jobs this worker may be given
  NoJob,
  Faults,     \* of "crash", "signal", "network", "lease", "docker", "system"
  MaxFaults   \* bound: how many faults happen

ASSUME WorkerAssumption ==
  /\ NoJob \notin Jobs
  /\ MaxFaults \in Nat
  /\ Faults \subseteq {"crash", "signal", "network", "lease", "docker", "system"}

VARIABLES
  pc,         \* where the process is; "down" when it does not run
  stop,       \* the stop event
  cancel,     \* lease.cancel of the current job
  job,        \* the job being evaluated
  unclean,    \* evaluate() is leaving with a CleanupError
  folder,     \* the jobs with a directory evaluations/<id>/workspace
  container,  \* the worst of a job's containers: "running" until confirmed otherwise
  evidence,   \* which result.*.json a job has; "torn" is an incomplete pending one
  receipt,    \* the jobs with a receipt.json
  outcome,    \* what a job's result says
  server,     \* where the server has a job
  stray,      \* the jobs with an upload that may still reach the server
  left,       \* how many faults may still happen
  seen        \* the kinds of fault that have happened

files == <<folder, evidence, receipt, outcome>>
network == <<server, stray>>
vars == <<pc, stop, cancel, job, unclean, folder, container, evidence, receipt,
          outcome, server, stray, left, seen>>

(* Evaluate is everything from the first renewal on; Leased is the part of   *)
(* the with block in which an uncancelled lease is held.                     *)
Evaluate == {"enter", "prepare", "execute", "running", "record", "writing", "destroy",
             "upload", "receipt", "rename", "clean"}
Leased == Evaluate \ {"enter"}
PCs == {"down", "recover", "startup", "replay", "claim"} \union Evaluate

(* What a result says: the agent's verdict, a TIMEOUT because the execution  *)
(* was cancelled, or INFRASTRUCTURE_FAILURE.                                 *)
Outcomes == {"verdict", "cancelled", "infrastructure"}

(* This is the worker's type invariant.                                      *)
TypeOK ==
  /\ pc \in PCs /\ stop \in BOOLEAN /\ cancel \in BOOLEAN /\ unclean \in BOOLEAN
  /\ job \in Jobs \union {NoJob}
  /\ job = NoJob <=> pc \notin Evaluate
  /\ folder \subseteq Jobs /\ receipt \subseteq Jobs /\ stray \subseteq Jobs
  /\ container \in [Jobs -> {"none", "stopped", "running"}]
  /\ evidence \in [Jobs -> {"none", "torn", "pending", "accepted", "rejected"}]
  /\ outcome \in [Jobs -> Outcomes \union {"none"}]
  /\ server \in [Jobs -> {"queued", "live", "accepted", "lapsed"}]
  /\ left \in 0 .. MaxFaults /\ seen \subseteq Faults

Init ==
  /\ pc = "down" /\ stop = FALSE /\ cancel = FALSE /\ job = NoJob /\ unclean = FALSE
  /\ folder = {} /\ receipt = {} /\ stray = {}
  /\ container = [j \in Jobs |-> "none"]
  /\ evidence = [j \in Jobs |-> "none"]
  /\ outcome = [j \in Jobs |-> "none"]
  /\ server = [j \in Jobs |-> "queued"]
  /\ left = MaxFaults /\ seen = {}

Fault(f) == f \in Faults /\ left > 0 /\ left' = left - 1 /\ seen' = seen \union {f}
Fine == UNCHANGED <<left, seen>>
-----------------------------------------------------------------------------
(* The process ends (the finally of run_worker), or starts over; an error in *)
(* the loop is logged and the loop goes on, unless it was told to stop.      *)
End == pc' = "down" /\ job' = NoJob /\ stop' = FALSE /\ cancel' = FALSE /\ unclean' = FALSE
Continue ==
  IF stop THEN End
  ELSE pc' = "replay" /\ job' = NoJob /\ cancel' = FALSE /\ unclean' = FALSE /\ UNCHANGED stop
Goto(next) == pc' = next /\ UNCHANGED <<stop, cancel, job, unclean>>

Start ==
  /\ pc = "down"
  /\ Goto("recover")
  /\ Fine
  /\ UNCHANGED <<files, container, network>>

(* recover_sandboxes removes the containers of every workspace it finds.     *)
Recover ==
  /\ pc = "recover"
  /\ \/ /\ Goto("startup")
        /\ container' = [j \in Jobs |-> IF j \in folder THEN "none" ELSE container[j]]
        /\ Fine
     \/ End /\ UNCHANGED container /\ (Fault("docker") \/ Fault("system"))
  /\ UNCHANGED <<files, network>>

(* The server's answer to a result that reached it.                          *)
Receives(j) ==
  server' = IF server[j] = "live" THEN [server EXCEPT ![j] = "accepted"] ELSE server
Accepts(j) == server[j] \in {"live", "accepted"}

(* A transport error: the result, or the answer to it, is lost, or the       *)
(* result arrives when nobody waits for it any more.                         *)
Lost(j) ==
  /\ Fault("network")
  /\ \/ UNCHANGED network
     \/ Receives(j) /\ UNCHANGED stray
     \/ stray' = stray \union {j} /\ UNCHANGED server

StrayArrives(j) ==
  /\ j \in stray
  /\ stray' = stray \ {j}
  /\ Receives(j)
  /\ UNCHANGED <<pc, stop, cancel, job, unclean, files, container, left, seen>>

(* replay_pending: before the loop an error ends the process, in the loop it *)
(* is waited out.  A torn file is no JSON.                                   *)
ReplayFails == IF pc = "startup" THEN End ELSE Continue

ReplayAccepted(j) == evidence' = [evidence EXCEPT ![j] = "accepted"] /\ receipt' = receipt \union {j}
ReplayRejectedRaises(j) == UNCHANGED <<evidence, receipt>>
ReplayRejected(j) == evidence' = [evidence EXCEPT ![j] = "rejected"] /\ UNCHANGED receipt
ReplayLostRejects(j) == evidence' = [evidence EXCEPT ![j] = "rejected"] /\ UNCHANGED receipt
ReplayLost(j) == UNCHANGED <<evidence, receipt>>

Replay(j) ==
  /\ pc \in {"startup", "replay"}
  /\ \/ /\ evidence[j] = "torn"
        /\ ReplayFails /\ Fine
        /\ UNCHANGED <<evidence, receipt, network>>
     \/ /\ evidence[j] = "pending"
        /\ IF Accepts(j) THEN ReplayAccepted(j) ELSE ReplayRejected(j)
        /\ Receives(j) /\ UNCHANGED stray
        /\ Goto(pc) /\ Fine
     \/ /\ evidence[j] = "pending" /\ Accepts(j)   \* between receipt.json and the rename
        /\ receipt' = receipt \union {j} /\ UNCHANGED evidence
        /\ Receives(j) /\ UNCHANGED stray
        /\ \/ Fault("crash") /\ End
           \/ Fault("system") /\ ReplayFails
     \/ /\ evidence[j] = "pending"
        /\ Lost(j) /\ ReplayFails /\ ReplayLost(j)
  /\ UNCHANGED <<folder, outcome, container>>

Unacknowledged == {j \in Jobs : evidence[j] \in {"torn", "pending"}}

ReplayedUnlessTorn == \A j \in Jobs : evidence[j] # "pending"
Replayed == Unacknowledged = {}

(* Only the top of the loop looks at stop: a signal during the replay does   *)
(* not keep the worker from claiming.                                        *)
Replays ==
  /\ pc \in {"startup", "replay"}
  /\ Replayed
  /\ IF stop /\ pc = "startup" THEN End ELSE Goto("claim")
  /\ Fine
  /\ UNCHANGED <<files, container, network>>

(* The heartbeat and the claim, when they are due.  There may be no job, or  *)
(* the server may refuse: it gives no second job to a worker that has one,   *)
(* which this worker may not know of, because the answer may be lost.        *)
MayBeGiven(j) == server[j] = "queued" /\ \A k \in Jobs : server[k] # "live"

Claim ==
  /\ pc = "claim"
  /\ \/ \E j \in Jobs :
          /\ MayBeGiven(j)
          /\ server' = [server EXCEPT ![j] = "live"]
          /\ \/ pc' = "enter" /\ job' = j /\ Fine /\ UNCHANGED <<stop, cancel, unclean>>
             \/ Continue /\ Fault("network")
     \/ Continue /\ Fine /\ UNCHANGED server
  /\ UNCHANGED <<files, container, stray>>

(* LeaseKeeper.__enter__ renews, then workspace() makes the directory.       *)
Enter ==
  /\ pc = "enter"
  /\ \/ server[job] = "live" /\ Goto("prepare") /\ folder' = folder \union {job} /\ Fine
     \/ Continue /\ UNCHANGED folder /\ (Fault("network") \/ Fault("system"))
     \/ server[job] # "live" /\ Continue /\ UNCHANGED folder /\ Fine
  /\ UNCHANGED <<evidence, receipt, outcome, container, network>>
-----------------------------------------------------------------------------
Outcome(o) == outcome' = [outcome EXCEPT ![job] = o]

(* Inputs and image: done, or the result says what went wrong.               *)
Prepare ==
  /\ pc = "prepare"
  /\ \/ ~cancel /\ Goto("execute") /\ UNCHANGED outcome
     \/ Goto("record") /\ \E o \in {"infrastructure", "verdict"} : Outcome(o)
  /\ Fine
  /\ UNCHANGED <<folder, evidence, receipt, container, network>>

(* The agent's container, then the tests': the name is tracked first, so a   *)
(* container whose creation is in doubt is removed as well.                  *)
Execute ==
  /\ pc = "execute"
  /\ \/ ~cancel /\ Goto("running") /\ container' = [container EXCEPT ![job] = "running"]
        /\ UNCHANGED outcome
        /\ Fine
     \/ cancel /\ Goto("record") /\ Outcome("infrastructure") /\ UNCHANGED container /\ Fine
     \/ /\ Goto("record") /\ Outcome("infrastructure") /\ Fault("docker")
        /\ container' \in {container, [container EXCEPT ![job] = "stopped"]}
  /\ UNCHANGED <<folder, evidence, receipt, network>>

(* The execution is over and stop() kills the container.  It may be unable   *)
(* to confirm that, which is a CleanupError; or not even be able to run      *)
(* docker, which is an OSError and a result like any other.                  *)
Stop ==
  /\ pc = "running"
  /\ \/ /\ container' = [container EXCEPT ![job] = "stopped"]
        /\ Fine /\ UNCHANGED unclean
        /\ \/ ~cancel /\ pc' = "execute" /\ UNCHANGED outcome
           \/ pc' = "record" /\ \E o \in {"verdict", "infrastructure"} : Outcome(o)
           \/ cancel /\ pc' = "record" /\ Outcome("cancelled")
     \/ /\ Fault("docker")
        /\ pc' = "record" /\ unclean' = TRUE /\ Outcome("infrastructure")
        /\ UNCHANGED container
     \/ /\ Fault("system")
        /\ pc' = "record" /\ Outcome("infrastructure")
        /\ UNCHANGED <<unclean, container>>
  /\ UNCHANGED <<stop, cancel, job, folder, evidence, receipt, network>>

(* evaluate's finally writes the pending result, which a crash may tear, and *)
(* then restricts its mode.  An OSError in either replaces whatever evaluate *)
(* was leaving with, and skips what the finally has left to do.              *)
Record ==
  /\ pc = "record"
  /\ \/ Goto("writing") /\ Fine /\ evidence' = [evidence EXCEPT ![job] = "torn"]
     \/ Continue /\ Fault("system") /\ evidence' \in {evidence, [evidence EXCEPT ![job] = "torn"]}
  /\ UNCHANGED <<folder, receipt, outcome, container, network>>

Written ==
  /\ pc = "writing"
  /\ evidence' = [evidence EXCEPT ![job] = "pending"]
  /\ \/ Goto("destroy") /\ Fine
     \/ Continue /\ Fault("system")
  /\ UNCHANGED <<folder, receipt, outcome, container, network>>

(* Then it removes the containers, and a CleanupError, old or new, stops the *)
(* worker.  A cancelled lease keeps its result for the next replay.          *)
OnCleanupErrorRecovers == pc' = "recover" /\ UNCHANGED <<stop, cancel, job, unclean>>
OnCleanupErrorContinues == Continue
OnCleanupError == End

Destroy ==
  /\ pc = "destroy"
  /\ \/ /\ container' = [container EXCEPT ![job] = "none"] /\ Fine
        /\ IF unclean THEN OnCleanupError ELSE IF cancel THEN Continue ELSE Goto("upload")
     \/ UNCHANGED container /\ OnCleanupError /\ Fault("docker")
     \/ UNCHANGED container /\ Continue /\ Fault("system")
  /\ UNCHANGED <<files, network>>

(* The upload is acknowledged; or refused, or answered with a 5xx before or  *)
(* after the server committed it, which is an error like any other in the    *)
(* loop; or gets no answer.  Then it is tried again, three times at most,    *)
(* and the worker stops; how often it was is left open.                      *)
Upload ==
  /\ pc = "upload"
  /\ \/ /\ Receives(job) /\ UNCHANGED stray /\ Fine
        /\ IF Accepts(job) THEN Goto("receipt") ELSE Continue
     \/ Lost(job) /\ IF cancel THEN Continue ELSE Goto("upload") \/ End
     \/ /\ Fault("network") /\ Continue
        /\ UNCHANGED network \/ (Receives(job) /\ UNCHANGED stray)
  /\ UNCHANGED <<files, container>>

(* acknowledged(): the receipt, the rename, and only then the workspace.     *)
CleanOutOfOrder(step) ==
  /\ receipt' = IF step = "clean" THEN receipt \union {job} ELSE receipt
  /\ evidence' = IF step = "rename" THEN [evidence EXCEPT ![job] = "accepted"] ELSE evidence
  /\ folder' = IF step = "receipt" THEN folder \ {job} ELSE folder
Clean(step) ==
  /\ receipt' = IF step = "receipt" THEN receipt \union {job} ELSE receipt
  /\ evidence' = IF step = "rename" THEN [evidence EXCEPT ![job] = "accepted"] ELSE evidence
  /\ folder' = IF step = "clean" THEN folder \ {job} ELSE folder

Acknowledge ==
  /\ pc \in {"receipt", "rename", "clean"}
  /\ \/ Clean(pc) /\ Fine
        /\ CASE pc = "receipt" -> Goto("rename")
             [] pc = "rename" -> Goto("clean")
             [] OTHER -> Continue
     \/ Continue /\ Fault("system") /\ UNCHANGED <<folder, evidence, receipt>>
  /\ UNCHANGED <<outcome, container, network>>
-----------------------------------------------------------------------------
(* What happens to the process.                                              *)
Crash ==
  /\ pc # "down"
  /\ Fault("crash")
  /\ End
  /\ UNCHANGED <<files, container, network>>

(* SIGTERM or SIGINT: stop, and cancel the lease that is active.             *)
Signal ==
  /\ pc # "down" /\ ~stop
  /\ Fault("signal")
  /\ stop' = TRUE
  /\ cancel' = (cancel \/ pc \in Leased)
  /\ UNCHANGED <<pc, job, unclean, files, container, network>>

(* LeaseKeeper gives up on the lease.                                        *)
LoseLease ==
  /\ pc \in Leased /\ ~cancel
  /\ Fault("lease")
  /\ cancel' = TRUE
  /\ UNCHANGED <<pc, stop, job, unclean, files, container, network>>

(* The server's lease runs out, which it may once no keeper renews it.       *)
Lapse(j) ==
  /\ server[j] = "live"
  /\ ~(pc \in Leased /\ job = j /\ ~cancel)
  /\ server' = [server EXCEPT ![j] = "lapsed"]
  /\ UNCHANGED <<pc, stop, cancel, job, unclean, files, container, stray, left, seen>>
-----------------------------------------------------------------------------
Step ==
  \/ Start \/ Recover \/ Replays \/ Claim \/ Enter
  \/ Prepare \/ Execute \/ Stop \/ Record \/ Written \/ Destroy \/ Upload \/ Acknowledge
  \/ \E j \in Jobs : Replay(j)

Next ==
  \/ Step
  \/ Crash \/ Signal \/ LoseLease
  \/ \E j \in Jobs : StrayArrives(j) \/ Lapse(j)

Spec == Init /\ [][Next]_vars

(* Fairness: the process runs, and is started again by its operator.  What   *)
(* goes wrong does so MaxFaults times, not for ever.                         *)
FairSpec == Spec /\ WF_vars(Step)
-----------------------------------------------------------------------------
(* The worker works on a job only when no container of another is left, and  *)
(* every container belongs to a workspace, which is how the next start finds *)
(* it - whatever crashes, signals, lost answers and Docker errors there were *)
(* (docs/mac-worker-1.md: cleanup failure stops the worker).  An operating   *)
(* system that cannot run docker at all is the exception: see FailClosed.    *)
NoLeftovers ==
  /\ "system" \notin seen /\ pc \in Evaluate => \A k \in Jobs \ {job} : container[k] = "none"
  /\ \A j \in Jobs : container[j] # "none" => j \in folder

(* A result is retained as accepted only if the server counted it and its    *)
(* receipt is there, and as rejected only if it will never be counted, even  *)
(* by a copy of it that is still under way (main.py replay_pending).         *)
EvidenceAgrees ==
  \A j \in Jobs :
    /\ evidence[j] = "accepted" => server[j] = "accepted" /\ j \in receipt
    /\ evidence[j] = "rejected" => server[j] = "lapsed"

(* Nothing else is evaluated while a result waits for the server's answer    *)
(* (main.py: restart replays the pending result before claiming anything).   *)
OneResultAtATime ==
  pc \in Evaluate => Unacknowledged \subseteq {job}

(* A complete result is never given up before the server answered, and the   *)
(* workspace goes only after it was accepted and its containers are gone     *)
(* (docs/mac-worker-1.md: only then is the temporary workspace removed).     *)
KeptUntilAnswered ==
  [][\A j \in Jobs :
       /\ evidence[j] = "pending" => evidence'[j] \in {"pending", "accepted", "rejected"}
       /\ j \in folder /\ j \notin folder' => evidence[j] = "accepted" /\ container[j] = "none"]_vars

(* Every complete result is answered in the end, through crashes, restarts   *)
(* and lost answers.                                                         *)
ResultsDecided ==
  \A j \in Jobs : evidence[j] = "pending" ~> evidence[j] \in {"accepted", "rejected"}
-----------------------------------------------------------------------------
(* What the documents say and the code does not keep.                        *)

(* docker_sandbox.py: do not claim more work when local execution cannot be  *)
(* stopped.                                                                  *)
FailClosed == pc \in Leased => \A k \in Jobs \ {job} : container[k] # "running"

(* docs/mac-worker-1.md: unacknowledged results are replayed after restart.  *)
UnacknowledgedReplayed ==
  \A j \in Jobs : evidence[j] \in {"torn", "pending"} ~> evidence[j] \in {"accepted", "rejected"}

(* docs/evaluation-flow.md: a new attempt for a lost worker lease.           *)
LostLeaseRetried == \A j \in Jobs : server[j] = "accepted" => outcome[j] # "cancelled"

(* docs/mac-worker-1.md: SIGINT/SIGTERM cancel the active job.               *)
SignalCancels == stop /\ pc = "running" => cancel
=============================================================================
