------------------------------ MODULE FleetProofs ------------------------------
(***************************************************************************)
(* That no two workers execute the same submission at once, for any number *)
(* of submissions, workers and attempts and any lease longer than what an  *)
(* acknowledged renewal lets a worker run.                                 *)
(*                                                                         *)
(* The fleet is the manager with something more to it, so all that is      *)
(* proved of the manager holds of it.  What is added is inductive on its   *)
(* own: a kept job is a live job of its worker, with less time to run than  *)
(* its lease has, and no result on its way.                               *)
(***************************************************************************)
EXTENDS Fleet, EvaluationManagerRefinement

(* The server's side of the fleet is the manager's specification: every      *)
(* theorem of EvaluationManager holds of the fleet (services.py).            *)
THEOREM FleetIsServed == FleetSpec => Spec
<1>1. FleetInit => Init
  BY DEF FleetInit
<1>2. [FleetNext]_fleetVars => [Next]_vars
  <2> SUFFICES ASSUME [FleetNext]_fleetVars PROVE [Next]_vars
    OBVIOUS
  <2>1. CASE Served
    BY <2>1 DEF Served, Next
  <2>2. ASSUME NEW w \in Workers, NEW j \in Jobs, Keep(w, j) PROVE Next
    BY <2>2 DEF Keep, Next
  <2>3. ASSUME NEW w \in Workers, NEW j \in Jobs, NEW verdict \in Verdicts,
               BeginResult(w, j, verdict)
        PROVE  Next
    BY <2>3 DEF Next
  <2>4. CASE Elapse
    BY <2>4 DEF Elapse, Next
  <2>5. ASSUME NEW w \in Workers, Move(w) PROVE UNCHANGED vars
    BY <2>5 DEF Move
  <2>6. CASE UNCHANGED fleetVars
    BY <2>6 DEF fleetVars, vars
  <2> QED
    BY <2>1, <2>2, <2>3, <2>4, <2>5, <2>6 DEF FleetNext
<1> QED
  BY <1>1, <1>2, PTL DEF FleetSpec, Spec
-----------------------------------------------------------------------------
(* What a keeper lets run: a live job of its worker, a lease that outlives   *)
(* what is promised, and no result of it on its way.                         *)
Leased(w, k) ==
  /\ k.job \in ActiveJobs(w)
  /\ k.left < lease[k.job]
  /\ ~JobLocked(k.job)

FleetInv ==
  /\ FleetTypeOK
  /\ \A w \in Workers : keeper[w].job # NoJob => Leased(w, keeper[w])

(* What the server does to a live job with a good lease and no result on its *)
(* way: it stays that, and its lease does not get shorter.                   *)
LEMMA ServedKeeps ==
  ASSUME IInv, Served, NEW w \in Workers, NEW j \in ActiveJobs(w),
         lease[j] > 0, ~JobLocked(j)
  PROVE  j \in ActiveJobs(w)' /\ lease[j] <= lease'[j] /\ ~JobLocked(j)'
<1> DEFINE Kept == /\ jobStatus'[j] \in Live /\ jobWorker'[j] = w
                   /\ lease[j] <= lease'[j] /\ ~JobLocked(j)'
<1> USE ConstantsAssumption
<1>0. j \in Jobs /\ jobStatus[j] \in Live /\ jobWorker[j] = w /\ lease[j] \in Int
  BY DEF ActiveJobs, IInv, TypeOK
<1>1. ASSUME NEW asked \in SUBSET Submissions, Submit(asked) PROVE Kept
  BY <1>0, <1>1 DEF Submit, WriteJobs, JobLocked, Live
<1>2. ASSUME NEW v \in Workers, CommitClaim(v) PROVE Kept
  <2>1. PICK k \in OpenClaim(v) : /\ jobStatus' = [jobStatus EXCEPT ![k] = "CLAIMED"]
                                  /\ jobWorker' = [jobWorker EXCEPT ![k] = v]
                                  /\ lease' = [lease EXCEPT ![k] = LeaseSeconds]
    BY <1>2 DEF CommitClaim
  <2>2. k # j
    BY <1>0, <2>1, v # NoWorker DEF OpenClaim, Live, IInv, ClaimsStillGood
  <2>3. jobStatus'[j] = jobStatus[j] /\ jobWorker'[j] = w /\ lease'[j] = lease[j]
    BY <1>0, <2>1, <2>2 DEF IInv, TypeOK
  <2> QED
    BY <1>0, <1>2, <2>3 DEF CommitClaim, JobLocked
<1>3. ASSUME NEW v \in Workers, NEW k \in Jobs, JobHeartbeat(v, k) PROVE Kept
  <2>1. /\ jobStatus' = [jobStatus EXCEPT ![k] = "RUNNING"]
        /\ lease' = [lease EXCEPT ![k] = LeaseSeconds]
        /\ jobWorker' = jobWorker /\ request' = request
    BY <1>3 DEF JobHeartbeat, Renewed
  <2>2. jobStatus'[j] \in Live /\ lease[j] <= lease'[j]
    BY <1>0, <2>1 DEF Live, IInv, TypeOK
  <2> QED
    BY <1>0, <2>1, <2>2 DEF JobLocked
<1>4. ASSUME NEW v \in Workers, CommitResult(v) PROVE Kept
  <2> DEFINE k == request[v].job
             verdict == request[v].verdict
             retry == IF Retryable(verdict) THEN RetriesOf({k}) ELSE {}
  <2>1. k \in Jobs /\ jobStatus[k] \in Live /\ evaluation[k] = NoEvaluation
    BY <1>4 DEF CommitResult, IInv, ResultHoldsLiveJob, ActiveJobs
  <2>2. k # j
    BY <1>4 DEF CommitResult, JobLocked
  <2>3. \A r \in retry : jobStatus[r] = "ABSENT"
    BY <2>1, RetrySlotFree DEF RetriesOf
  <2>4. jobStatus'[j] = jobStatus[j]
    BY <1>0, <1>4, <2>2, <2>3 DEF CommitResult, WriteJobs, Live
  <2>5. ~JobLocked(j)'
    BY <1>4 DEF CommitResult, JobLocked, NoRequest, IInv, TypeOK
  <2> QED
    BY <1>0, <1>4, <2>4, <2>5 DEF CommitResult
<1>5. ASSUME ReapJobs PROVE Kept
  <2>1. \A r \in RetriesOf(Expired) : jobStatus[r] = "ABSENT"
    BY RetrySlotFree DEF RetriesOf, Expired
  <2>2. j \notin Expired
    BY <1>0 DEF Expired
  <2>3. jobStatus'[j] = jobStatus[j]
    BY <1>0, <1>5, <2>1, <2>2 DEF ReapJobs, WriteJobs, Live
  <2>4. jobWorker' = jobWorker /\ lease' = lease /\ request' = request
    BY <1>5 DEF ReapJobs
  <2>5. ~JobLocked(j)'
    BY <2>4 DEF JobLocked
  <2>6. jobStatus'[j] \in Live /\ jobWorker'[j] = w /\ lease[j] <= lease'[j]
    BY <1>0, <2>3, <2>4
  <2> QED
    BY <2>5, <2>6, Zenon
<1>6. ASSUME NEW v \in Workers,
             \/ \E reported \in Reported : BeginWorkerHeartbeat(v, reported)
             \/ CommitWorkerHeartbeat(v)
             \/ BeginClaim(v)
             \/ Rollback(v)
      PROVE  Kept
  BY <1>0, <1>6 DEF BeginWorkerHeartbeat, CommitWorkerHeartbeat, BeginClaim, Rollback, JobLocked,
     NoRequest, jobVars, workerVars, IInv, TypeOK
<1>7. ASSUME NEW v \in Workers, Register(v) PROVE Kept
  BY <1>0, <1>7 DEF Register, JobLocked, jobVars
<1>8. ASSUME ReapWorkers PROVE Kept
  <2>1. jobStatus' = jobStatus /\ jobWorker' = jobWorker /\ lease' = lease /\ request' = request
    BY <1>8 DEF ReapWorkers, jobVars
  <2>2. ~JobLocked(j)'
    BY <2>1 DEF JobLocked
  <2>3. jobStatus'[j] \in Live /\ jobWorker'[j] = w /\ lease[j] <= lease'[j]
    BY <1>0, <2>1
  <2> QED
    BY <2>2, <2>3, Zenon
<1>9. Kept
  <2> HIDE DEF Kept
  <2> QED
    <3>1. CASE \E asked \in SUBSET Submissions : Submit(asked)
      BY <1>1, <3>1
    <3>2. ASSUME NEW v \in Workers,
                 \/ Register(v)
                 \/ \E reported \in Reported : BeginWorkerHeartbeat(v, reported)
                 \/ CommitWorkerHeartbeat(v)
                 \/ BeginClaim(v)
                 \/ CommitClaim(v)
                 \/ \E k \in Jobs : JobHeartbeat(v, k)
                 \/ CommitResult(v)
                 \/ Rollback(v)
          PROVE  Kept
      BY <3>2, <1>2, <1>3, <1>4, <1>6, <1>7
    <3>3. \/ \E asked \in SUBSET Submissions : Submit(asked)
          \/ \E v \in Workers :
               \/ Register(v)
               \/ \E reported \in Reported : BeginWorkerHeartbeat(v, reported)
               \/ CommitWorkerHeartbeat(v)
               \/ BeginClaim(v)
               \/ CommitClaim(v)
               \/ \E k \in Jobs : JobHeartbeat(v, k)
               \/ CommitResult(v)
               \/ Rollback(v)
          \/ ReapJobs
          \/ ReapWorkers
      BY Zenon DEF Served
    <3>4. CASE \E v \in Workers :
               \/ Register(v)
               \/ \E reported \in Reported : BeginWorkerHeartbeat(v, reported)
               \/ CommitWorkerHeartbeat(v)
               \/ BeginClaim(v)
               \/ CommitClaim(v)
               \/ \E k \in Jobs : JobHeartbeat(v, k)
               \/ CommitResult(v)
               \/ Rollback(v)
      BY <3>2, <3>4, Zenon
    <3> QED
      BY <3>1, <3>3, <3>4, <1>5, <1>8, Zenon
<1> QED
  BY <1>0, <1>9 DEF ActiveJobs

(* A renewal leaves its job live, with a whole lease and without a result.   *)
LEMMA RenewalLeases ==
  ASSUME IInv, NEW w \in Workers, NEW j \in Jobs, JobHeartbeat(w, j)
  PROVE  j \in ActiveJobs(w)' /\ lease'[j] = LeaseSeconds /\ ~JobLocked(j)'
<1> USE ConstantsAssumption
<1>1. /\ jobStatus' = [jobStatus EXCEPT ![j] = "RUNNING"]
      /\ lease' = [lease EXCEPT ![j] = LeaseSeconds]
      /\ jobWorker' = jobWorker /\ request' = request
      /\ jobWorker[j] = w /\ ~JobLocked(j)
  BY DEF JobHeartbeat, OwnsLease, Renewed
<1>2. jobStatus'[j] = "RUNNING" /\ lease'[j] = LeaseSeconds /\ jobWorker'[j] = w
  BY <1>1 DEF IInv, TypeOK
<1>3. ~JobLocked(j)'
  BY <1>1 DEF JobLocked
<1> QED
  BY <1>2, <1>3 DEF ActiveJobs, Live

(* A keeper is idle or keeps a job.                                          *)
LEMMA KeeperKinds ==
  ASSUME NEW k \in Keepers
  PROVE  /\ k.job = NoJob => k = Idle
         /\ k.job # NoJob => k \in [job : Jobs, left : 0 .. Hold]
BY FleetAssumption DEF Keepers, Idle

(* The contract does not leave the keepers, and lets a keeper that keeps its *)
(* job promise only less.                                                    *)
LEMMA ContractKeeps ==
  ASSUME NEW k \in Keepers, NEW n \in AfterMove(k) \union AfterTick(k)
  PROVE  /\ n \in Keepers
         /\ n.job # NoJob => n.job = k.job /\ n.left <= k.left
         /\ n.job # NoJob /\ n \in AfterTick(k) => n.left < k.left
<1> USE FleetAssumption
<1>1. CASE n = Idle
  BY <1>1 DEF Idle, Keepers
<1>2. CASE n # Idle /\ k.job # NoJob
  <2>1. k.job \in Jobs /\ k.left \in 0 .. Hold
    BY <1>2, KeeperKinds
  <2> QED
    BY <1>2, <2>1 DEF AfterMove, AfterTick, Keepers
<1>3. CASE n # Idle /\ k.job = NoJob
  BY <1>3, KeeperKinds DEF AfterMove, AfterTick, Idle
<1> QED
  BY <1>1, <1>2, <1>3

(* The empty fleet satisfies the invariant.                                  *)
LEMMA FleetInitial == FleetInit => FleetInv
BY FleetAssumption DEF FleetInit, FleetInv, FleetTypeOK, Keepers, Idle

(* What a keeper lets run stays leased while the server serves and the       *)
(* keeper promises no more than it did.                                      *)
LEMMA OthersKeep ==
  ASSUME IInv, IInv', FleetInv, Served, NEW w \in Workers, keeper[w].job # NoJob,
         keeper'[w] = keeper[w]
  PROVE  Leased(w, keeper[w])'
<1> USE FleetAssumption, ConstantsAssumption
<1>1. PICK j \in Jobs : j = keeper[w].job /\ keeper[w].left \in 0 .. Hold
  BY KeeperKinds DEF FleetInv, FleetTypeOK
<1>2. j \in ActiveJobs(w) /\ keeper[w].left < lease[j] /\ ~JobLocked(j)
  BY <1>1 DEF FleetInv, Leased
<1>3. lease[j] \in Int /\ lease'[j] \in Int
  BY DEF IInv, TypeOK
<1>4. lease[j] > 0
  BY <1>1, <1>2, <1>3
<1>5. j \in ActiveJobs(w)' /\ lease[j] <= lease'[j] /\ ~JobLocked(j)'
  BY <1>2, <1>4, ServedKeeps
<1>6. keeper'[w].left < lease'[j]
  BY <1>1, <1>2, <1>3, <1>5
<1> QED
  BY <1>1, <1>5, <1>6 DEF Leased

(* Every step of the fleet keeps the invariant.                              *)
LEMMA FleetInductive == IInv /\ IInv' /\ FleetInv /\ [FleetNext]_fleetVars => FleetInv'
<1> SUFFICES ASSUME IInv, IInv', FleetInv, [FleetNext]_fleetVars PROVE FleetInv'
  OBVIOUS
<1> USE ConstantsAssumption, FleetAssumption
<1>1. CASE Served /\ UNCHANGED keeper
  <2>1. \A w \in Workers : keeper[w].job # NoJob => Leased(w, keeper[w])'
    BY <1>1, OthersKeep
  <2> QED
    BY <1>1, <2>1 DEF FleetInv, FleetTypeOK
<1>2. ASSUME NEW v \in Workers, NEW j \in Jobs, Keep(v, j) PROVE FleetInv'
  <2>1. PICK k \in AfterRenewal(j) : keeper' = [keeper EXCEPT ![v] = k]
    BY <1>2 DEF Keep
  <2>2. JobHeartbeat(v, j)
    BY <1>2 DEF Keep
  <2>3. k \in Keepers /\ k.job = j /\ k.left \in 0 .. Hold
    BY DEF AfterRenewal, Keepers
  <2>4. FleetTypeOK'
    BY <2>1, <2>3 DEF FleetInv, FleetTypeOK
  <2>5. ASSUME NEW w \in Workers, keeper'[w].job # NoJob
        PROVE  Leased(w, keeper[w])'
    <3>1. CASE w = v
      <4>1. keeper'[v] = k
        BY <2>1 DEF FleetInv, FleetTypeOK
      <4>2. j \in ActiveJobs(v)' /\ lease'[j] = LeaseSeconds /\ ~JobLocked(j)'
        BY <2>2, RenewalLeases
      <4>3. k.left < lease'[j]
        BY <2>3, <4>2
      <4> QED
        BY <2>3, <3>1, <4>1, <4>2, <4>3 DEF Leased
    <3>2. CASE w # v
      <4>1. keeper'[w] = keeper[w]
        BY <2>1, <3>2 DEF FleetInv, FleetTypeOK
      <4>2. Served
        BY <2>2 DEF Served
      <4> QED
        BY <2>5, <4>1, <4>2, OthersKeep
    <3> QED
      BY <3>1, <3>2
  <2> QED
    BY <2>4, <2>5 DEF FleetInv
<1>3. ASSUME NEW v \in Workers, Move(v) PROVE FleetInv'
  <2>1. /\ jobStatus' = jobStatus /\ jobWorker' = jobWorker /\ lease' = lease
        /\ request' = request
    BY <1>3 DEF Move, vars
  <2>2. PICK k \in AfterMove(keeper[v]) : keeper' = [keeper EXCEPT ![v] = k]
    BY <1>3 DEF Move
  <2>3. keeper[v] \in Keepers
    BY DEF FleetInv, FleetTypeOK
  <2>4. k \in Keepers /\ (k.job # NoJob => k.job = keeper[v].job /\ k.left <= keeper[v].left)
    BY <2>3, ContractKeeps
  <2>5. FleetTypeOK'
    BY <2>2, <2>4 DEF FleetInv, FleetTypeOK
  <2>6. ASSUME NEW w \in Workers, keeper'[w].job # NoJob
        PROVE  Leased(w, keeper[w])'
    <3>1. /\ keeper[w].job = keeper'[w].job /\ keeper'[w].left <= keeper[w].left
          /\ keeper[w] \in Keepers /\ keeper'[w] \in Keepers
      <4>1. w = v => keeper'[w] = k
        BY <2>2 DEF FleetInv, FleetTypeOK
      <4>2. w # v => keeper'[w] = keeper[w]
        BY <2>2 DEF FleetInv, FleetTypeOK
      <4>3. keeper[w] \in Keepers
        BY DEF FleetInv, FleetTypeOK
      <4>4. keeper[w].job # NoJob => keeper[w].left \in Int
        BY <4>3, KeeperKinds
      <4> QED
        BY <2>4, <2>6, <4>1, <4>2, <4>3, <4>4
    <3>2. Leased(w, keeper[w])
      BY <2>6, <3>1 DEF FleetInv
    <3>3. keeper[w].job \in Jobs /\ keeper[w].left \in Int /\ keeper'[w].left \in Int
      BY <2>6, <3>1, KeeperKinds
    <3>4. lease[keeper[w].job] \in Int
      BY <3>3 DEF IInv, TypeOK
    <3>5. keeper'[w].left < lease'[keeper'[w].job]
      BY <2>1, <3>1, <3>2, <3>3, <3>4 DEF Leased
    <3> QED
      BY <2>1, <3>1, <3>2, <3>5 DEF Leased, ActiveJobs, JobLocked
  <2> QED
    BY <2>5, <2>6 DEF FleetInv
<1>4. ASSUME NEW v \in Workers, NEW j \in Jobs, NEW verdict \in Verdicts,
             Evaluated(v, j), BeginResult(v, j, verdict), UNCHANGED keeper
      PROVE  FleetInv'
  <2>1. /\ jobStatus' = jobStatus /\ jobWorker' = jobWorker /\ lease' = lease
        /\ request' = [request EXCEPT ![v] =
             [kind |-> "result", job |-> j, verdict |-> verdict]]
        /\ jobWorker[j] = v
    BY <1>4 DEF BeginResult, OwnsLease, jobVars
  <2>2. ASSUME NEW w \in Workers, keeper[w].job # NoJob
        PROVE  Leased(w, keeper[w])'
    <3>1. Leased(w, keeper[w])
      BY <2>2 DEF FleetInv
    <3>2. keeper[w].job # j
      BY <1>4, <2>1, <3>1 DEF Evaluated, Leased, ActiveJobs
    <3>3. \A u \in Workers :
            ~(request'[u].kind = "result" /\ request'[u].job = keeper[w].job)
      <4>1. request'[v].job = j
        BY <2>1 DEF IInv, TypeOK
      <4>2. \A u \in Workers : u # v => request'[u] = request[u]
        BY <2>1 DEF IInv, TypeOK
      <4> QED
        BY <3>1, <3>2, <4>1, <4>2 DEF Leased, JobLocked
    <3> QED
      BY <1>4, <2>1, <3>1, <3>3 DEF Leased, ActiveJobs, JobLocked
  <2> QED
    BY <1>4, <2>2 DEF FleetInv, FleetTypeOK
<1>5. CASE Elapse
  <2>1. /\ jobStatus' = jobStatus /\ jobWorker' = jobWorker /\ request' = request
        /\ lease' = [j \in Jobs |-> IF jobWorker[j] # NoWorker /\ lease[j] >= 0
                                      THEN lease[j] - 1 ELSE lease[j]]
    BY <1>5 DEF Elapse, Tick
  <2>2. FleetTypeOK'
    BY <1>5 DEF Elapse, FleetTypeOK
  <2>3. ASSUME NEW w \in Workers, keeper'[w].job # NoJob
        PROVE  Leased(w, keeper[w])'
    <3>1. /\ keeper[w] \in Keepers /\ keeper'[w] \in Keepers
          /\ keeper'[w] \in AfterTick(keeper[w])
      BY <1>5, <2>2 DEF Elapse, FleetInv, FleetTypeOK
    <3>2. keeper'[w].job = keeper[w].job /\ keeper'[w].left < keeper[w].left
      BY <2>3, <3>1, ContractKeeps
    <3>3. PICK j \in Jobs : /\ j = keeper[w].job
                            /\ keeper[w].left \in 0 .. Hold /\ keeper'[w].left \in 0 .. Hold
      BY <2>3, <3>1, <3>2, KeeperKinds
    <3>4. j \in ActiveJobs(w) /\ keeper[w].left < lease[j] /\ ~JobLocked(j)
      BY <2>3, <3>2, <3>3 DEF FleetInv, Leased
    <3>5. lease[j] \in Int
      BY DEF IInv, TypeOK
    <3>6. lease'[j] = lease[j] - 1
      BY <2>1, <3>3, <3>4, <3>5 DEF ActiveJobs
    <3>7. keeper'[w].left < lease'[j]
      BY <3>2, <3>3, <3>4, <3>5, <3>6
    <3>8. j \in ActiveJobs(w)' /\ ~JobLocked(j)'
      BY <2>1, <3>4 DEF ActiveJobs, JobLocked
    <3> QED
      BY <3>2, <3>3, <3>7, <3>8 DEF Leased
  <2> QED
    BY <2>2, <2>3 DEF FleetInv
<1>6. CASE UNCHANGED fleetVars
  <2>1. /\ keeper' = keeper /\ jobStatus' = jobStatus
        /\ jobWorker' = jobWorker /\ lease' = lease /\ request' = request
    BY <1>6 DEF fleetVars
  <2> QED
    BY <2>1 DEF FleetInv, FleetTypeOK, Leased, ActiveJobs, JobLocked
<1> QED
  BY <1>1, <1>2, <1>3, <1>4, <1>5, <1>6 DEF FleetNext

(* It holds, with the manager's own invariant, in every reachable state.     *)
LEMMA FleetInvariant == FleetSpec => [](RInv /\ FleetInv)
<1>1. FleetSpec => []RInv
  BY FleetIsServed, RefinementInvariant, PTL
<1>2. FleetSpec => []IInv
  BY FleetIsServed, InvariantHolds, PTL
<1>3. FleetSpec => []FleetInv
  BY <1>2, FleetInitial, FleetInductive, PTL DEF FleetSpec
<1> QED
  BY <1>1, <1>3, PTL

(* What a keeper lets run is its worker's own, live, and leased for longer   *)
(* than it may go on (lease.py, services.py owned_job).                      *)
THEOREM ExecutionLeasedHolds == FleetSpec => []ExecutionLeased
<1>1. FleetInv => ExecutionLeased
  BY DEF FleetInv, Leased, ExecutionLeased
<1> QED
  BY <1>1, FleetInvariant, PTL

(* Two live attempts of one submission are one attempt: an earlier one has   *)
(* ended before a later one is made.                                         *)
LEMMA OneLiveAttempt ==
  ASSUME RInv, NEW i \in Jobs, NEW j \in Jobs, Submission(i) = Submission(j),
         jobStatus[i] \in Live, jobStatus[j] \in Live
  PROVE  ~(Attempt(i) < Attempt(j))
<1> USE ConstantsAssumption
<1> SUFFICES ASSUME Attempt(i) < Attempt(j) PROVE FALSE
  OBVIOUS
<1>1. PICK s \in Submissions, a \in 1 .. MaxAttempts + 1, b \in 1 .. MaxAttempts + 1 :
        i = <<s, a>> /\ j = <<s, b>> /\ a < b
  BY DEF Jobs, Submission, Attempt
<1>2. a \in Numbers
  BY <1>1 DEF Numbers
<1>3. CASE b \in Numbers
  <2>1. WithoutVerdict(<<s, a>>)
    BY <1>1, <1>2, <1>3 DEF RInv, Chain, Live
  <2> QED
    BY <1>1, <2>1 DEF WithoutVerdict, Live, Ended
<1>4. CASE b = MaxAttempts + 1
  <2>1. MaxAttempts \in 1 .. MaxAttempts
    OBVIOUS
  <2>2. jobStatus[<<s, MaxAttempts + 1>>] = "ABSENT"
    <3>1. \A n \in 1 .. MaxAttempts :
            jobStatus[<<s, n + 1>>] # "ABSENT" => n < MaxAttempts
      BY <1>1 DEF RInv, IInv, RetriedIffUndecided
    <3> QED
      BY <2>1, <3>1
  <2> QED
    BY <1>1, <1>4, <2>2 DEF Live
<1> QED
  BY <1>1, <1>3, <1>4 DEF Numbers

(* No two workers ever execute the same submission at once: the second could *)
(* only have been given a later attempt, which is made after the lease of    *)
(* the first ran out, and by then the first has killed what it ran.          *)
THEOREM SingleExecutionHolds == FleetSpec => []SingleExecution
<1>1. RInv /\ FleetInv => SingleExecution
  <2> SUFFICES ASSUME RInv, FleetInv, NEW v \in Workers, NEW w \in Workers, v # w,
                      keeper[v].job # NoJob, keeper[w].job # NoJob,
                      Submission(keeper[v].job) = Submission(keeper[w].job)
               PROVE  FALSE
    BY DEF SingleExecution
  <2>1. keeper[v].job \in ActiveJobs(v) /\ keeper[w].job \in ActiveJobs(w)
    BY DEF FleetInv, Leased
  <2>2. PICK i \in Jobs, j \in Jobs :
          /\ i = keeper[v].job /\ j = keeper[w].job /\ i # j
          /\ jobStatus[i] \in Live /\ jobStatus[j] \in Live
    BY <2>1 DEF ActiveJobs
  <2>3. ~(Attempt(i) < Attempt(j)) /\ ~(Attempt(j) < Attempt(i))
    BY <2>2, OneLiveAttempt
  <2>4. Attempt(i) = Attempt(j)
    BY <2>2, <2>3, ConstantsAssumption DEF Jobs, Attempt
  <2> QED
    BY <2>2, <2>4 DEF Jobs, Submission, Attempt
<1> QED
  BY <1>1, FleetInvariant, PTL
=============================================================================
