--------------------------------- MODULE Fleet ---------------------------------
(***************************************************************************)
(* The workers of one installation and the server they share: the leases   *)
(* of EvaluationManager composed with a lease keeper at each worker, which  *)
(* does what its contract allows (KeeperContract; LeaseKeeper honours it).  *)
(*                                                                         *)
(* The server does not see what runs at a worker, and a worker does not see *)
(* its lease: it counts from the moment it sent a renewal.                  *)
(* Every request EvaluationManager allows still comes, stray ones included; *)
(* only the result of a job does not come while its keeper lets it run.     *)
(*                                                                         *)
(* A worker whose process dies keeps nothing here: the container it        *)
(* leaves runs on alone until the next process removes it (module Worker). *)
(***************************************************************************)
EXTENDS EvaluationManager

CONSTANTS NoJob, Hold     \* see KeeperContract

INSTANCE KeeperContract

ASSUME FleetAssumption ==
  /\ NoJob \notin Jobs
  /\ Hold \in Nat /\ Hold < LeaseSeconds

VARIABLE keeper           \* what the keeper of each worker promises

fleetVars == <<jobStatus, jobWorker, age, lease, evaluation, claimant,
               workerStatus, silence, request, keeper>>

(* This is the type invariant of the workers' keepers.                       *)
FleetTypeOK == keeper \in [Workers -> Keepers]

FleetInit == Init /\ keeper = [w \in Workers |-> Idle]
-----------------------------------------------------------------------------
(* A renewal the keeper can still accept: LeaseKeeper.__enter__ renews       *)
(* before an evaluation starts, which runs one job at a time.                *)
Keep(w, j) ==
  /\ keeper[w].job \in {j, NoJob}
  /\ JobHeartbeat(w, j)
  /\ \E k \in AfterRenewal(j) : keeper' = [keeper EXCEPT ![w] = k]

(* The evaluation is over, was cancelled, or went down with its process.     *)
Move(w) ==
  /\ \E k \in AfterMove(keeper[w]) : keeper' = [keeper EXCEPT ![w] = k]
  /\ UNCHANGED vars

(* evaluate() returns the result once its containers are gone.               *)
Evaluated(w, j) == keeper[w].job # j

Elapse ==
  /\ Tick
  /\ keeper' \in [Workers -> Keepers]
  /\ \A w \in Workers : keeper'[w] \in AfterTick(keeper[w])

(* What EvaluationManager allows beside results and time.                    *)
Served ==
  \/ \E asked \in SUBSET Submissions : Submit(asked)
  \/ \E w \in Workers :
       \/ Register(w)
       \/ \E reported \in Reported : BeginWorkerHeartbeat(w, reported)
       \/ CommitWorkerHeartbeat(w)
       \/ BeginClaim(w)
       \/ CommitClaim(w)
       \/ \E j \in Jobs : JobHeartbeat(w, j)
       \/ CommitResult(w)
       \/ Rollback(w)
  \/ ReapJobs
  \/ ReapWorkers

FleetNext ==
  \/ Served /\ UNCHANGED keeper
  \/ \E w \in Workers :
       \/ \E j \in Jobs : Keep(w, j)
       \/ Move(w)
       \/ \E j \in Jobs, verdict \in Verdicts :
            Evaluated(w, j) /\ BeginResult(w, j, verdict) /\ UNCHANGED keeper
  \/ Elapse

FleetSpec == FleetInit /\ [][FleetNext]_fleetVars
-----------------------------------------------------------------------------
(* No two workers execute attempts of the same submission at the same time:  *)
(* by the time the server may hand the next attempt to anybody, the worker   *)
(* that lost the lease has killed what it ran, without hearing of the loss   *)
(* (lease.py: "stop work before server lease expiry").                       *)
SingleExecution ==
  \A v, w \in Workers :
    v # w /\ keeper[v].job # NoJob /\ keeper[w].job # NoJob =>
      Submission(keeper[v].job) # Submission(keeper[w].job)

(* What a keeper lets run is a live job of its own whose lease outlives the  *)
(* execution, so the reaper cannot end it and its result is still wanted.    *)
ExecutionLeased ==
  \A w \in Workers : keeper[w].job # NoJob =>
    keeper[w].job \in ActiveJobs(w) /\ keeper[w].left < lease[keeper[w].job]
=============================================================================
