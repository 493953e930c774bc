----------------------- MODULE EvaluationManagerProofs -----------------------
(***************************************************************************)
(* Theorems of EvaluationManager, for every number of submissions, workers *)
(* and attempts and every length of a lease.                               *)
(***************************************************************************)
EXTENDS EvaluationManager, TLAPS

(* Names of one-line conditions, opened everywhere.                          *)
USE DEF Unlocked, MayClaim, Renewed, Fenced, Retryable, StatusAfterResult, StatusAfterExpiry

(* What a commit that ends some jobs and inserts others does to the types.   *)
LEMMA WriteJobsTypes ==
  ASSUME TypeOK, NEW final, NEW fresh, NEW D \in SUBSET Jobs,
         final \in [D -> Ended], WriteJobs(final, fresh)
  PROVE  /\ jobStatus' \in [Jobs -> JobStatus]
         /\ age' \in [Jobs -> Nat]
  BY ConstantsAssumption DEF TypeOK, WriteJobs, JobStatus, Ended, Live

(* The tables keep their types under every request, the reaper and time.     *)
LEMMA TypesKept == TypeOK /\ [Next]_vars => TypeOK'
<1> SUFFICES ASSUME TypeOK, [Next]_vars PROVE TypeOK'
  OBVIOUS
<1> USE ConstantsAssumption
<1>1. ASSUME NEW asked \in SUBSET Submissions, Submit(asked) PROVE TypeOK'
  <2>1. WriteJobs([j \in {} |-> "ABSENT"], {<<s, 1>> : s \in asked})
    BY <1>1 DEF Submit
  <2>2. [j \in {} |-> "ABSENT"] \in [{} -> Ended]
    OBVIOUS
  <2> QED
    BY <1>1, <2>1, <2>2, WriteJobsTypes DEF Submit, TypeOK
<1>2. ASSUME NEW w \in Workers, Register(w) PROVE TypeOK'
  BY <1>2 DEF Register, TypeOK, WorkerStatus, Reported, jobVars
<1>3. ASSUME NEW w \in Workers, NEW reported \in Reported, BeginWorkerHeartbeat(w, reported)
      PROVE TypeOK'
  BY <1>3 DEF BeginWorkerHeartbeat, TypeOK, Requests, jobVars, workerVars
<1>4. ASSUME NEW w \in Workers, CommitWorkerHeartbeat(w) PROVE TypeOK'
  <2>1. request[w].status \in Reported
    BY <1>4 DEF CommitWorkerHeartbeat, TypeOK, Requests, NoRequest
  <2> QED
    BY <1>4, <2>1 DEF CommitWorkerHeartbeat, TypeOK, WorkerStatus, Requests, jobVars
<1>5. ASSUME NEW w \in Workers, BeginClaim(w) \/ CommitClaim(w) PROVE TypeOK'
  BY <1>5 DEF BeginClaim, CommitClaim, OpenClaim, workerVars, TypeOK, JobStatus, Live, WorkerStatus
<1>6. ASSUME NEW w \in Workers, NEW j \in Jobs, JobHeartbeat(w, j) PROVE TypeOK'
  BY <1>6 DEF JobHeartbeat, TypeOK, JobStatus, Live
<1>7. ASSUME NEW w \in Workers, NEW j \in Jobs, NEW verdict \in Verdicts,
             BeginResult(w, j, verdict)
      PROVE TypeOK'
  BY <1>7 DEF BeginResult, TypeOK, Requests, jobVars, workerVars
<1>8. ASSUME NEW w \in Workers, CommitResult(w) PROVE TypeOK'
  <2> DEFINE j == request[w].job
             verdict == request[w].verdict
             retry == IF Retryable(verdict)
                        THEN RetriesOf({j}) ELSE {}
  <2>1. j \in Jobs /\ verdict \in Verdicts
    BY <1>8 DEF CommitResult, TypeOK, Requests, NoRequest
  <2>2. verdict.status \in Ended /\ verdict.failure \in FailureTypes \union {"NONE"}
    BY <2>1 DEF Verdicts, Ended
  <2>3. WriteJobs([k \in {j} |-> verdict.status], retry)
    BY <1>8 DEF CommitResult
  <2>4. [k \in {j} |-> verdict.status] \in [{j} -> Ended]
    BY <2>2
  <2>5. /\ jobStatus' \in [Jobs -> JobStatus]
        /\ age' \in [Jobs -> Nat]
    <3> HIDE DEF j, verdict, retry
    <3> QED BY <2>1, <2>3, <2>4, WriteJobsTypes
  <2>6. [status |-> verdict.status, failure |-> verdict.failure, worker |-> w] \in Evaluations
    BY <2>2 DEF Evaluations
  <2>7. evaluation' \in [Jobs -> Evaluations \union {NoEvaluation}]
    BY <1>8, <2>1, <2>6 DEF CommitResult, TypeOK
  <2>8. /\ workerStatus' \in [Workers -> WorkerStatus]
        /\ silence' \in [Workers -> 0 .. OfflineSeconds + 1]
        /\ request' \in [Workers -> Requests]
        /\ jobWorker' \in [Jobs -> Workers \union {NoWorker}]
        /\ lease' \in [Jobs -> -1 .. LeaseSeconds]
        /\ claimant' \in [Jobs -> Workers \union {NoWorker}]
    BY <1>8 DEF CommitResult, TypeOK, WorkerStatus, Reported, Requests
  <2> QED
    BY <2>5, <2>7, <2>8 DEF TypeOK
<1>9. ASSUME NEW w \in Workers, Rollback(w) PROVE TypeOK'
  BY <1>9 DEF Rollback, TypeOK, Requests, jobVars, workerVars
<1>10. ASSUME ReapJobs PROVE TypeOK'
  <2> DEFINE final == [j \in Expired |-> StatusAfterExpiry(j)]
  <2>1. WriteJobs(final, RetriesOf(Expired))
    BY <1>10 DEF ReapJobs
  <2>2. final \in [Expired -> Ended] /\ Expired \in SUBSET Jobs
    BY DEF Ended, Expired
  <2>3. /\ jobStatus' \in [Jobs -> JobStatus]
        /\ age' \in [Jobs -> Nat]
    <3> HIDE DEF final
    <3> QED BY <2>1, <2>2, WriteJobsTypes
  <2> QED
    BY <1>10, <2>3 DEF ReapJobs, TypeOK
<1>11. ASSUME ReapWorkers PROVE TypeOK'
  BY <1>11 DEF ReapWorkers, TypeOK, WorkerStatus, Reported, jobVars
<1>12. ASSUME Tick PROVE TypeOK'
  <2>1. lease' \in [Jobs -> -1 .. LeaseSeconds]
    BY <1>12 DEF Tick, TypeOK
  <2>2. silence' \in [Workers -> 0 .. OfflineSeconds + 1]
    BY <1>12 DEF Tick, TypeOK
  <2> QED
    BY <1>12, <2>1, <2>2 DEF Tick, TypeOK
<1>13. ASSUME UNCHANGED vars PROVE TypeOK'
  BY <1>13 DEF vars, TypeOK
<1> QED
  BY <1>1, <1>2, <1>3, <1>4, <1>5, <1>6, <1>7, <1>8, <1>9, <1>10, <1>11, <1>12, <1>13
  DEF Next

(* The manager's tables are always well typed: TypeOK holds of every         *)
(* behaviour, for any set of submissions, workers and attempts.              *)
THEOREM TypeCorrect == Spec => []TypeOK
<1>1. Init => TypeOK
  BY ConstantsAssumption DEF Init, TypeOK, JobStatus, WorkerStatus, Requests
<1> QED
  BY <1>1, TypesKept, PTL DEF Spec
-----------------------------------------------------------------------------
(* The inductive invariant.  None of its parts is inductive alone: that a    *)
(* result never lands on a job the reaper ended needs the row lock           *)
(* (ResultHoldsLiveJob), the lock needs the owner (OwnersRecorded), that a   *)
(* claim gives its worker no second job needs what the claim read to be good *)
(* still (ClaimsStillGood), and that a retry finds its slot empty needs      *)
(* RetriedIffUndecided.                                                      *)
IInv ==
  /\ TypeOK
  /\ OneActiveJob
  /\ RetriedIffUndecided
  /\ EvaluationAgrees
  /\ ResultHoldsLiveJob
  /\ OnlineIsIdle
  /\ OwnersRecorded
  /\ ClaimsStillGood

(* The empty tables satisfy the invariant.                                   *)
LEMMA InitialInvariant == Init => IInv
<1> SUFFICES ASSUME Init PROVE IInv
  OBVIOUS
<1> USE ConstantsAssumption
<1>1. TypeOK
  BY DEF Init, TypeOK, JobStatus, WorkerStatus, Requests
<1>2. \A w \in Workers : ActiveJobs(w) = {}
  BY DEF Init, ActiveJobs, Live
<1>3. RetriedIffUndecided
  BY DEF Init, RetriedIffUndecided, WithoutVerdict, Ended, Jobs
<1>4. EvaluationAgrees /\ OwnersRecorded
  BY <1>2 DEF Init, EvaluationAgrees, OwnersRecorded, Ended, NoRequest
<1>5. ResultHoldsLiveJob /\ OneActiveJob /\ OnlineIsIdle
  BY <1>2 DEF Init, ResultHoldsLiveJob, OneActiveJob, OnlineIsIdle, NoRequest
<1>6. ClaimsStillGood
  BY DEF Init, ClaimsStillGood, OpenClaim
<1> QED
  BY <1>1, <1>3, <1>4, <1>5, <1>6 DEF IInv

(* Claims that a step leaves open are still good if the step leaves alone    *)
(* the rows they have locked and the status and requests of their workers.   *)
LEMMA ClaimsKept ==
  ASSUME IInv, UNCHANGED claimant,
         \A w \in Workers : OpenClaim(w) # {} =>
           workerStatus'[w] = workerStatus[w] /\ request'[w] = request[w] /\ ActiveJobs(w)' = {},
         \A j \in Jobs : jobStatus[j] = "QUEUED" => jobStatus'[j] = "QUEUED"
  PROVE  ClaimsStillGood'
<1>1. \A w \in Workers : OpenClaim(w)' = OpenClaim(w)
  BY DEF OpenClaim
<1> QED
  BY <1>1 DEF IInv, ClaimsStillGood

(* Steps that leave the job rows and the evaluations as they are keep what   *)
(* is said of those alone.                                                   *)
LEMMA RowsUntouched ==
  ASSUME IInv, UNCHANGED <<jobStatus, jobWorker, evaluation>>
  PROVE  /\ OneActiveJob' /\ RetriedIffUndecided' /\ EvaluationAgrees'
         /\ \A w \in Workers : ActiveJobs(w)' = ActiveJobs(w)
<1>1. \A w \in Workers : ActiveJobs(w)' = ActiveJobs(w)
  BY DEF ActiveJobs
<1> QED
  BY <1>1 DEF IInv, OneActiveJob, RetriedIffUndecided, WithoutVerdict, EvaluationAgrees

(* Creating submissions keeps the invariant: their jobs are new first attempts. *)
LEMMA SubmitKeeps ==
  ASSUME IInv, NEW asked \in SUBSET Submissions, Submit(asked)
  PROVE  IInv'
<1> USE ConstantsAssumption DEF IInv
<1> DEFINE fresh == {<<s, 1>> : s \in asked}
<1>1. TypeOK'
  BY TypesKept DEF Next
<1>2. /\ jobStatus' = [j \in Jobs |-> IF j \in fresh THEN "QUEUED" ELSE jobStatus[j]]
      /\ UNCHANGED <<jobWorker, evaluation, claimant, workerStatus, request>>
      /\ \A j \in fresh : jobStatus[j] = "ABSENT"
  BY DEF Submit, WriteJobs
<1>3. \A w \in Workers : ActiveJobs(w)' = ActiveJobs(w)
  BY <1>2 DEF ActiveJobs, Live
<1>4. OneActiveJob' /\ ResultHoldsLiveJob' /\ OnlineIsIdle'
  BY <1>2, <1>3 DEF OneActiveJob, ResultHoldsLiveJob, OnlineIsIdle
<1>5. RetriedIffUndecided'
  <2> SUFFICES ASSUME NEW s \in Submissions, NEW a \in 1 .. MaxAttempts
               PROVE  (jobStatus[<<s, a + 1>>] # "ABSENT"
                         <=> WithoutVerdict(<<s, a>>) /\ a < MaxAttempts)'
    BY DEF RetriedIffUndecided
  <2>1. <<s, a>> \in Jobs /\ <<s, a + 1>> \in Jobs
    BY DEF Jobs
  <2>2. <<s, a + 1>> \notin fresh
    OBVIOUS
  <2>3. WithoutVerdict(<<s, a>>)' <=> WithoutVerdict(<<s, a>>)
    BY <1>2, <2>1 DEF WithoutVerdict, Ended
  <2> QED
    BY <1>2, <2>1, <2>2, <2>3 DEF RetriedIffUndecided
<1>6. EvaluationAgrees'
  BY <1>2 DEF EvaluationAgrees, Ended, TypeOK, Evaluations
<1>7. OwnersRecorded'
  BY <1>2, <1>3 DEF OwnersRecorded
<1>8. ClaimsStillGood'
  BY <1>2, <1>3, ClaimsKept DEF ClaimsStillGood
<1> QED
  BY <1>1, <1>4, <1>5, <1>6, <1>7, <1>8

(* A row exists only within the attempt limit, and the slot after a live job *)
(* is free for its retry.                                                    *)
LEMMA RetrySlotFree ==
  ASSUME IInv, NEW j \in Jobs, jobStatus[j] \in Live
  PROVE  /\ j = <<Submission(j), Attempt(j)>>
         /\ Submission(j) \in Submissions /\ Attempt(j) \in 1 .. MaxAttempts
         /\ <<Submission(j), Attempt(j) + 1>> \in Jobs
         /\ jobStatus[<<Submission(j), Attempt(j) + 1>>] = "ABSENT"
<1> USE ConstantsAssumption
<1>1. /\ j = <<Submission(j), Attempt(j)>>
      /\ Submission(j) \in Submissions /\ Attempt(j) \in 1 .. MaxAttempts + 1
  BY DEF Jobs, Submission, Attempt
<1>2. ASSUME Attempt(j) = MaxAttempts + 1 PROVE FALSE
  <2>1. jobStatus[<<Submission(j), MaxAttempts + 1>>] # "ABSENT"
    BY <1>1, <1>2 DEF Live
  <2>2. MaxAttempts \in 1 .. MaxAttempts /\ ~(MaxAttempts < MaxAttempts)
    OBVIOUS
  <2> QED
    BY <1>1, <2>1, <2>2 DEF IInv, RetriedIffUndecided
<1>3. Attempt(j) \in 1 .. MaxAttempts
  BY <1>1, <1>2
<1>4. <<Submission(j), Attempt(j) + 1>> \in Jobs
  BY <1>1, <1>3 DEF Jobs
<1>5. ~WithoutVerdict(<<Submission(j), Attempt(j)>>)
  BY <1>1 DEF WithoutVerdict, Live, Ended
<1>6. jobStatus[<<Submission(j), Attempt(j) + 1>>] = "ABSENT"
  BY <1>1, <1>3, <1>5 DEF IInv, RetriedIffUndecided
<1> QED
  BY <1>1, <1>3, <1>4, <1>6

(* The commit that ends live jobs and inserts a retry for exactly those that *)
(* ended without a verdict keeps the chain of attempts.  Both the reaper and *)
(* the result handler are such commits.                                      *)
LEMMA EndingKeepsChain ==
  ASSUME IInv, NEW D \in SUBSET Jobs, NEW undecided \in SUBSET D, NEW final,
         \A j \in D : jobStatus[j] \in Live,
         final \in [D -> Ended],
         WriteJobs(final, RetriesOf(undecided)),
         \A j \in Jobs \ D : evaluation'[j] = evaluation[j],
         \A j \in D : j \in undecided <=>
           \/ evaluation'[j] = NoEvaluation
           \/ evaluation'[j].failure = "INFRASTRUCTURE_FAILURE"
  PROVE  RetriedIffUndecided'
<1> USE ConstantsAssumption
<1> DEFINE fresh == RetriesOf(undecided)
<1> SUFFICES ASSUME NEW s \in Submissions, NEW a \in 1 .. MaxAttempts
             PROVE  (jobStatus[<<s, a + 1>>] # "ABSENT"
                       <=> WithoutVerdict(<<s, a>>) /\ a < MaxAttempts)'
  BY DEF RetriedIffUndecided
<1>1. <<s, a>> \in Jobs /\ <<s, a + 1>> \in Jobs
  BY DEF Jobs
<1>2. <<s, a + 1>> \in fresh <=> <<s, a>> \in undecided /\ a < MaxAttempts
  <2>1. ASSUME <<s, a + 1>> \in fresh PROVE <<s, a>> \in undecided /\ a < MaxAttempts
    <3>1. PICK k \in undecided : Attempt(k) < MaxAttempts
                                 /\ <<s, a + 1>> = <<Submission(k), Attempt(k) + 1>>
      BY <2>1 DEF RetriesOf
    <3>2. k \in Jobs /\ jobStatus[k] \in Live
      OBVIOUS
    <3>3. k = <<Submission(k), Attempt(k)>> /\ Attempt(k) \in 1 .. MaxAttempts
      BY <3>2, RetrySlotFree
    <3>4. s = Submission(k) /\ a + 1 = Attempt(k) + 1
      BY <3>1
    <3>5. a = Attempt(k)
      BY <3>3, <3>4
    <3> QED
      BY <3>1, <3>3, <3>4, <3>5
  <2>2. ASSUME <<s, a>> \in undecided, a < MaxAttempts PROVE <<s, a + 1>> \in fresh
    BY <2>2 DEF RetriesOf, Submission, Attempt
  <2> QED
    BY <2>1, <2>2
<1>3. jobStatus' = [j \in Jobs |-> IF j \in D THEN final[j]
                                   ELSE IF j \in fresh THEN "QUEUED" ELSE jobStatus[j]]
  BY DEF WriteJobs
<1>4. CASE <<s, a>> \in D
  <2>1. jobStatus[<<s, a>>] \in Live /\ jobStatus[<<s, a + 1>>] = "ABSENT"
    BY <1>1, <1>4, RetrySlotFree DEF Submission, Attempt
  <2>2. <<s, a + 1>> \notin D
    BY <2>1 DEF Live
  <2>3. jobStatus'[<<s, a + 1>>] # "ABSENT" <=> <<s, a + 1>> \in fresh
    BY <1>1, <1>3, <2>1, <2>2
  <2>4. jobStatus'[<<s, a>>] \in Ended
    BY <1>1, <1>3, <1>4
  <2>5. WithoutVerdict(<<s, a>>)' <=> <<s, a>> \in undecided
    BY <1>4, <2>4 DEF WithoutVerdict
  <2> QED
    BY <1>2, <2>3, <2>5
<1>5. CASE <<s, a>> \notin D
  <2>1. <<s, a + 1>> \notin fresh
    BY <1>2, <1>5
  <2>2. jobStatus'[<<s, a + 1>>] = "ABSENT" <=> jobStatus[<<s, a + 1>>] = "ABSENT"
    BY <1>1, <1>3, <2>1 DEF Live, Ended
  <2>3. <<s, a>> \in fresh => jobStatus[<<s, a>>] = "ABSENT"
    <3> SUFFICES ASSUME <<s, a>> \in fresh PROVE jobStatus[<<s, a>>] = "ABSENT"
      OBVIOUS
    <3>1. PICK k \in undecided : <<s, a>> = <<Submission(k), Attempt(k) + 1>>
      BY DEF RetriesOf
    <3>2. k \in Jobs /\ jobStatus[k] \in Live
      OBVIOUS
    <3> QED
      BY <3>1, <3>2, RetrySlotFree
  <2>4. WithoutVerdict(<<s, a>>)' <=> WithoutVerdict(<<s, a>>)
    BY <1>1, <1>3, <1>5, <2>3 DEF WithoutVerdict, Ended
  <2> QED
    BY <2>2, <2>4 DEF IInv, RetriedIffUndecided
<1> QED
  BY <1>4, <1>5
-----------------------------------------------------------------------------
(* One lemma per kind of commit: the reaper, the result, the claim, the job  *)
(* heartbeat, and the steps that write no job row.                           *)
LEMMA ReapJobsKeeps ==
  ASSUME IInv, ReapJobs
  PROVE  IInv'
<1> USE ConstantsAssumption
<1> DEFINE final == [j \in Expired |-> StatusAfterExpiry(j)]
           fresh == RetriesOf(Expired)
<1>1. TypeOK'
  BY TypesKept DEF IInv, Next
<1>2. Expired \in SUBSET Jobs /\ \A j \in Expired : jobStatus[j] \in Live
  BY DEF Expired
<1>3. final \in [Expired -> Ended]
  BY DEF Ended
<1>4. /\ WriteJobs(final, fresh)
      /\ UNCHANGED <<jobWorker, evaluation, claimant, workerStatus, request>>
  BY DEF ReapJobs
<1>5. \A j \in Jobs : jobStatus[j] \in Live => evaluation[j] = NoEvaluation
  BY DEF IInv, EvaluationAgrees, TypeOK, Evaluations, Live, Ended
<1>6. \A j \in Jobs :
        jobStatus'[j] = IF j \in Expired THEN final[j]
                        ELSE IF j \in fresh THEN "QUEUED" ELSE jobStatus[j]
  BY <1>4 DEF WriteJobs
<1>7. \A j \in fresh : j \in Jobs /\ jobStatus[j] = "ABSENT"
  BY <1>2, RetrySlotFree DEF RetriesOf
<1>8. \A w \in Workers : ActiveJobs(w)' \subseteq ActiveJobs(w)
  BY <1>3, <1>4, <1>6 DEF ActiveJobs, Live, Ended
<1>9. OneActiveJob' /\ OnlineIsIdle'
  BY <1>4, <1>8 DEF IInv, OneActiveJob, OnlineIsIdle
<1>10. RetriedIffUndecided'
  <2> HIDE DEF final
  <2> QED BY <1>2, <1>3, <1>4, <1>5, EndingKeepsChain
<1>11. EvaluationAgrees'
  <2> SUFFICES ASSUME NEW j \in Jobs
               PROVE  (IF evaluation[j] # NoEvaluation
                         THEN jobStatus[j] = evaluation[j].status /\ jobWorker[j] = evaluation[j].worker
                         ELSE jobStatus[j] \in Ended =>
                                jobStatus[j] = IF Attempt(j) = MaxAttempts THEN "FAILED" ELSE "TIMEOUT")'
    BY DEF EvaluationAgrees
  <2>1. CASE j \in Expired
    <3>1. Attempt(j) \in 1 .. MaxAttempts /\ evaluation'[j] = NoEvaluation
      BY <1>2, <1>4, <1>5, <2>1, RetrySlotFree
    <3> QED
      BY <1>6, <2>1, <3>1
  <2>2. CASE j \in fresh
    BY <1>2, <1>4, <1>6, <1>7, <2>2 DEF IInv, EvaluationAgrees, TypeOK, Evaluations, Ended, Live
  <2>3. CASE j \notin Expired /\ j \notin fresh
    BY <1>4, <1>6, <2>3 DEF IInv, EvaluationAgrees
  <2> QED
    BY <2>1, <2>2, <2>3
<1>12. ResultHoldsLiveJob'
  <2> SUFFICES ASSUME NEW w \in Workers, request[w].kind = "result"
               PROVE  request[w].job \in ActiveJobs(w)' /\ evaluation[request[w].job] = NoEvaluation
    BY <1>4 DEF ResultHoldsLiveJob
  <2>1. request[w].job \in ActiveJobs(w) /\ evaluation[request[w].job] = NoEvaluation
    BY DEF IInv, ResultHoldsLiveJob
  <2>2. request[w].job \notin Expired
    BY DEF Expired, JobLocked
  <2>3. request[w].job \notin fresh
    BY <1>7, <2>1 DEF ActiveJobs, Live
  <2> QED
    BY <1>4, <1>6, <2>1, <2>2, <2>3 DEF ActiveJobs
<1>13. OwnersRecorded'
  <2>1. \A j \in Jobs : jobStatus'[j] \in {"ABSENT", "QUEUED"} <=> jobStatus[j] \in {"ABSENT", "QUEUED"}
    BY <1>2, <1>3, <1>6, <1>7 DEF Live, Ended
  <2> QED
    BY <1>4, <1>8, <2>1 DEF IInv, OwnersRecorded
<1>14. ClaimsStillGood'
  <2>1. \A j \in Jobs : jobStatus[j] = "QUEUED" => jobStatus'[j] = "QUEUED"
    BY <1>2, <1>6 DEF Live
  <2>2. \A w \in Workers : OpenClaim(w) # {} => ActiveJobs(w)' = {}
    BY <1>8 DEF IInv, ClaimsStillGood
  <2> QED
    BY <1>4, <2>1, <2>2, ClaimsKept
<1> QED
  BY <1>1, <1>9, <1>10, <1>11, <1>12, <1>13, <1>14 DEF IInv

(* Accepting a result ends its job, which the row lock kept live, once.      *)
LEMMA CommitResultKeeps ==
  ASSUME IInv, NEW w \in Workers, CommitResult(w)
  PROVE  IInv'
<1> USE ConstantsAssumption
<1> DEFINE j == request[w].job
           verdict == request[w].verdict
           final == [k \in {j} |-> verdict.status]
           undecided == IF verdict.failure = "INFRASTRUCTURE_FAILURE" THEN {j} ELSE {}
           fresh == RetriesOf(undecided)
<1>1. TypeOK'
  BY TypesKept DEF IInv, Next
<1>2. j \in ActiveJobs(w) /\ evaluation[j] = NoEvaluation
  BY DEF IInv, ResultHoldsLiveJob, CommitResult
<1>3. j \in Jobs /\ jobStatus[j] \in Live /\ jobWorker[j] = w
  BY <1>2 DEF ActiveJobs
<1>4. verdict \in Verdicts
  BY DEF CommitResult, IInv, TypeOK, Requests, NoRequest
<1>5. verdict.status \in Ended /\ verdict.failure \in FailureTypes \union {"NONE"}
  BY <1>4 DEF Verdicts, Ended
<1>6. final \in [{j} -> Ended]
  BY <1>5
<1>7. RetriesOf({}) = {}
  BY DEF RetriesOf
<1>8. /\ WriteJobs(final, fresh)
      /\ UNCHANGED <<jobWorker, claimant>>
      /\ evaluation' = [evaluation EXCEPT ![j] =
           [status |-> verdict.status, failure |-> verdict.failure, worker |-> w]]
      /\ request' = [request EXCEPT ![w] = NoRequest]
      /\ workerStatus' = [workerStatus EXCEPT ![w] =
           IF workerStatus[w] = "DRAINING" THEN "DRAINING" ELSE "ONLINE"]
  BY <1>7 DEF CommitResult
<1>9. \A k \in Jobs :
        jobStatus'[k] = IF k = j THEN verdict.status
                        ELSE IF k \in fresh THEN "QUEUED" ELSE jobStatus[k]
  BY <1>8 DEF WriteJobs
<1>10. \A k \in fresh : k \in Jobs /\ jobStatus[k] = "ABSENT"
  BY <1>3, RetrySlotFree DEF RetriesOf
<1>11. evaluation'[j] # NoEvaluation /\ evaluation'[j].failure = verdict.failure
       /\ evaluation'[j].status = verdict.status /\ evaluation'[j].worker = w
       /\ \A k \in Jobs \ {j} : evaluation'[k] = evaluation[k]
  BY <1>3, <1>5, <1>8, w # NoWorker DEF NoEvaluation, IInv, TypeOK
<1> HIDE DEF j, verdict, final, undecided, fresh
<1>12. \A v \in Workers : ActiveJobs(v)' = ActiveJobs(v) \ {j}
  BY <1>3, <1>5, <1>8, <1>9, <1>10 DEF ActiveJobs, Live, Ended
<1>13. ActiveJobs(w)' = {}
  BY <1>2, <1>12 DEF IInv, OneActiveJob
<1>14. OneActiveJob' /\ OnlineIsIdle'
  BY <1>8, <1>12, <1>13 DEF IInv, OneActiveJob, OnlineIsIdle, TypeOK
<1>15. RetriedIffUndecided'
  <2>1. undecided \in SUBSET {j} /\ {j} \in SUBSET Jobs
    BY <1>3 DEF undecided
  <2>2. \A k \in {j} : k \in undecided <=>
          evaluation'[k] = NoEvaluation \/ evaluation'[k].failure = "INFRASTRUCTURE_FAILURE"
    BY <1>11 DEF undecided
  <2>3. WriteJobs(final, RetriesOf(undecided)) /\ \A k \in {j} : jobStatus[k] \in Live
    BY <1>3, <1>8 DEF fresh
  <2> QED
    BY <1>6, <1>11, <2>1, <2>2, <2>3, EndingKeepsChain
<1>16. EvaluationAgrees'
  <2> SUFFICES ASSUME NEW k \in Jobs
               PROVE  (IF evaluation[k] # NoEvaluation
                         THEN jobStatus[k] = evaluation[k].status /\ jobWorker[k] = evaluation[k].worker
                         ELSE jobStatus[k] \in Ended =>
                                jobStatus[k] = IF Attempt(k) = MaxAttempts THEN "FAILED" ELSE "TIMEOUT")'
    BY DEF EvaluationAgrees
  <2>1. CASE k = j
    BY <1>3, <1>8, <1>9, <1>11, <2>1
  <2>2. CASE k # j /\ k \in fresh
    <3>1. jobStatus[k] = "ABSENT" /\ jobStatus'[k] = "QUEUED" /\ evaluation'[k] = evaluation[k]
      BY <1>9, <1>10, <1>11, <2>2
    <3>2. evaluation[k] = NoEvaluation
      BY <3>1 DEF IInv, EvaluationAgrees, TypeOK, Evaluations, Ended
    <3> QED
      BY <3>1, <3>2 DEF Ended
  <2>3. CASE k # j /\ k \notin fresh
    BY <1>8, <1>9, <1>11, <2>3 DEF IInv, EvaluationAgrees
  <2> QED
    BY <2>1, <2>2, <2>3
<1>17. ResultHoldsLiveJob'
  <2> SUFFICES ASSUME NEW v \in Workers, request'[v].kind = "result"
               PROVE  request'[v].job \in ActiveJobs(v)' /\ evaluation'[request'[v].job] = NoEvaluation
    BY DEF ResultHoldsLiveJob
  <2>1. v # w /\ request'[v] = request[v]
    BY <1>8 DEF NoRequest, IInv, TypeOK
  <2>2. request[v].job \in ActiveJobs(v) /\ evaluation[request[v].job] = NoEvaluation
    BY <2>1 DEF IInv, ResultHoldsLiveJob
  <2>3. request[v].job # j
    BY <1>3, <2>1, <2>2 DEF ActiveJobs
  <2> QED
    BY <1>11, <1>12, <2>1, <2>2, <2>3 DEF ActiveJobs
<1>18. OwnersRecorded'
  <2>1. \A k \in Jobs : jobStatus'[k] \in {"ABSENT", "QUEUED"} <=> jobStatus[k] \in {"ABSENT", "QUEUED"}
    BY <1>3, <1>5, <1>9, <1>10 DEF Live, Ended
  <2>2. \A v \in Workers : workerStatus'[v] = "ABSENT" => workerStatus[v] = "ABSENT"
    BY <1>8 DEF IInv, TypeOK
  <2>3. \A v \in Workers : request'[v] = NoRequest \/ (v # w /\ request'[v] = request[v])
    BY <1>8 DEF IInv, TypeOK
  <2>4. \A k \in Jobs : jobWorker'[k] # NoWorker => workerStatus'[jobWorker'[k]] # "ABSENT"
    BY <1>8, <2>2 DEF IInv, OwnersRecorded, TypeOK
  <2>5. \A v \in Workers :
          /\ request'[v] # NoRequest => workerStatus'[v] # "ABSENT"
          /\ request'[v].kind = "heartbeat" /\ ~request'[v].active => ActiveJobs(v)' = {}
    BY <1>12, <2>2, <2>3 DEF IInv, OwnersRecorded, NoRequest
  <2> QED
    BY <1>8, <2>1, <2>4, <2>5 DEF IInv, OwnersRecorded
<1>19. ClaimsStillGood'
  <2>1. OpenClaim(w) = {}
    BY DEF CommitResult, NoRequest, IInv, ClaimsStillGood
  <2>2. \A v \in Workers : OpenClaim(v) # {} =>
          workerStatus'[v] = workerStatus[v] /\ request'[v] = request[v] /\ ActiveJobs(v)' = {}
    BY <1>8, <1>12, <2>1 DEF IInv, TypeOK, ClaimsStillGood
  <2>3. \A k \in Jobs : jobStatus[k] = "QUEUED" => jobStatus'[k] = "QUEUED"
    BY <1>3, <1>9 DEF Live
  <2> QED
    BY <1>8, <2>2, <2>3, ClaimsKept
<1> QED
  BY <1>1, <1>14, <1>15, <1>16, <1>17, <1>18, <1>19 DEF IInv

(* A claim opens with a worker that may claim, and locks a row nobody else   *)
(* has locked.                                                               *)
LEMMA BeginClaimKeeps ==
  ASSUME IInv, NEW w \in Workers, BeginClaim(w)
  PROVE  IInv'
<1> USE ConstantsAssumption
<1>1. TypeOK'
  BY TypesKept DEF IInv, Next
<1>2. PICK j \in OldestQueued : claimant' = [claimant EXCEPT ![j] = w]
  BY DEF BeginClaim
<1>3. j \in Jobs /\ jobStatus[j] = "QUEUED" /\ claimant[j] = NoWorker
  BY DEF OldestQueued
<1>4. /\ UNCHANGED <<jobStatus, jobWorker, evaluation, workerStatus, request>>
      /\ workerStatus[w] # "ABSENT" /\ MayClaim(w)
      /\ request[w] = NoRequest /\ OpenClaim(w) = {}
  BY DEF BeginClaim, Lockable, workerVars
<1>5. /\ OneActiveJob' /\ RetriedIffUndecided' /\ EvaluationAgrees'
      /\ \A v \in Workers : ActiveJobs(v)' = ActiveJobs(v)
  BY <1>4, RowsUntouched
<1>6. OnlineIsIdle' /\ ResultHoldsLiveJob' /\ OwnersRecorded'
  BY <1>4, <1>5 DEF IInv, OnlineIsIdle, ResultHoldsLiveJob, OwnersRecorded
<1>7. /\ OpenClaim(w)' = {j}
      /\ \A v \in Workers \ {w} : OpenClaim(v)' = OpenClaim(v)
  BY <1>2, <1>3, <1>4 DEF OpenClaim, IInv, TypeOK
<1>8. ClaimsStillGood'
  BY <1>2, <1>3, <1>4, <1>5, <1>7 DEF IInv, TypeOK, ClaimsStillGood
<1> QED
  BY <1>1, <1>5, <1>6, <1>8 DEF IInv

(* Only the worker's row lock keeps its own heartbeat, which may have read   *)
(* "no active job" already, and a second claim apart from this claim.        *)
LEMMA CommitClaimKeeps ==
  ASSUME IInv, NEW w \in Workers, CommitClaim(w)
  PROVE  IInv'
<1> USE ConstantsAssumption
<1>1. TypeOK'
  BY TypesKept DEF IInv, Next
<1>2. PICK j \in OpenClaim(w) :
        /\ jobStatus' = [jobStatus EXCEPT ![j] = "CLAIMED"]
        /\ jobWorker' = [jobWorker EXCEPT ![j] = w]
        /\ claimant' = [claimant EXCEPT ![j] = NoWorker]
  BY DEF CommitClaim
<1>3. j \in Jobs /\ claimant[j] = w /\ jobStatus[j] = "QUEUED" /\ jobWorker[j] = NoWorker
  BY DEF OpenClaim, IInv, OwnersRecorded, ClaimsStillGood
<1>4. /\ UNCHANGED <<evaluation, request>>
      /\ request[w] = NoRequest /\ ActiveJobs(w) = {}
      /\ workerStatus' = [workerStatus EXCEPT ![w] = "BUSY"]
  BY DEF CommitClaim, IInv, ClaimsStillGood
<1>5. /\ jobStatus'[j] = "CLAIMED" /\ jobWorker'[j] = w
      /\ \A k \in Jobs \ {j} : jobStatus'[k] = jobStatus[k] /\ jobWorker'[k] = jobWorker[k]
  BY <1>2, <1>3 DEF IInv, TypeOK
<1>6. ActiveJobs(w)' = {j}
  BY <1>3, <1>4, <1>5 DEF ActiveJobs, Live
<1>7. \A v \in Workers \ {w} : ActiveJobs(v)' = ActiveJobs(v)
  BY <1>3, <1>5 DEF ActiveJobs, Live
<1>8. OneActiveJob'
  BY <1>6, <1>7 DEF IInv, OneActiveJob
<1>9. OnlineIsIdle'
  BY <1>4, <1>7 DEF IInv, OnlineIsIdle, TypeOK
<1>10. RetriedIffUndecided'
  <2> SUFFICES ASSUME NEW s \in Submissions, NEW a \in 1 .. MaxAttempts
               PROVE  (jobStatus[<<s, a + 1>>] # "ABSENT"
                         <=> WithoutVerdict(<<s, a>>) /\ a < MaxAttempts)'
    BY DEF RetriedIffUndecided
  <2>1. <<s, a>> \in Jobs /\ <<s, a + 1>> \in Jobs
    BY DEF Jobs
  <2>2. jobStatus'[<<s, a + 1>>] = "ABSENT" <=> jobStatus[<<s, a + 1>>] = "ABSENT"
    BY <1>3, <1>5, <2>1
  <2>3. WithoutVerdict(<<s, a>>)' <=> WithoutVerdict(<<s, a>>)
    BY <1>3, <1>4, <1>5, <2>1 DEF WithoutVerdict, Ended
  <2> QED
    BY <2>2, <2>3 DEF IInv, RetriedIffUndecided
<1>11. EvaluationAgrees'
  <2>1. evaluation[j] = NoEvaluation
    BY <1>3 DEF IInv, EvaluationAgrees, TypeOK, Evaluations, Ended
  <2> QED
    BY <1>4, <1>5, <2>1 DEF IInv, EvaluationAgrees, Ended
<1>12. ResultHoldsLiveJob'
  BY <1>4, <1>7, NoRequest.kind = "none" DEF IInv, ResultHoldsLiveJob, NoRequest
<1>13. OwnersRecorded'
  <2>1. \A v \in Workers : workerStatus'[v] = "ABSENT" => workerStatus[v] = "ABSENT"
    BY <1>4 DEF IInv, TypeOK
  <2>2. workerStatus'[w] # "ABSENT"
    BY <1>4 DEF IInv, TypeOK
  <2>3. \A k \in Jobs : jobWorker'[k] = NoWorker <=> jobStatus'[k] \in {"ABSENT", "QUEUED"}
    BY <1>5, w # NoWorker DEF IInv, OwnersRecorded
  <2>4. \A k \in Jobs : jobWorker'[k] # NoWorker => workerStatus'[jobWorker'[k]] # "ABSENT"
    BY <1>5, <2>1, <2>2 DEF IInv, OwnersRecorded, TypeOK
  <2>5. \A v \in Workers : request'[v].kind = "heartbeat" /\ ~request'[v].active => ActiveJobs(v)' = {}
    BY <1>4, <1>7 DEF IInv, OwnersRecorded, NoRequest
  <2> QED
    BY <1>4, <2>1, <2>3, <2>4, <2>5 DEF IInv, OwnersRecorded
<1>14. ClaimsStillGood'
  <2>1. /\ OpenClaim(w)' = {}
        /\ \A v \in Workers \ {w} : OpenClaim(v)' = OpenClaim(v)
    BY <1>2, <1>3 DEF OpenClaim, IInv, TypeOK, ClaimsStillGood
  <2>2. \A v \in Workers \ {w} : workerStatus'[v] = workerStatus[v]
    BY <1>4 DEF IInv, TypeOK
  <2>3. \A k \in Jobs : claimant'[k] # NoWorker => jobStatus'[k] = "QUEUED"
    BY <1>2, <1>3, <1>5 DEF IInv, TypeOK, ClaimsStillGood
  <2> QED
    BY <1>4, <1>7, <2>1, <2>2, <2>3 DEF IInv, ClaimsStillGood
<1> QED
  BY <1>1, <1>8, <1>9, <1>10, <1>11, <1>12, <1>13, <1>14 DEF IInv

(* Renewing a lease makes a live job RUNNING and changes no owner.           *)
LEMMA JobHeartbeatKeeps ==
  ASSUME IInv, NEW w \in Workers, NEW j \in Jobs, JobHeartbeat(w, j)
  PROVE  IInv'
<1> USE ConstantsAssumption
<1>1. TypeOK'
  BY TypesKept DEF IInv, Next
<1>2. /\ jobStatus[j] \in Live /\ jobStatus'[j] = "RUNNING"
      /\ \A k \in Jobs \ {j} : jobStatus'[k] = jobStatus[k]
      /\ UNCHANGED <<jobWorker, evaluation, claimant, workerStatus, request>>
  BY DEF JobHeartbeat, OwnsLease, IInv, TypeOK
<1>3. \A v \in Workers : ActiveJobs(v)' = ActiveJobs(v)
  BY <1>2 DEF ActiveJobs, Live
<1>4. \A k \in Jobs : /\ jobStatus'[k] = "ABSENT" <=> jobStatus[k] = "ABSENT"
                      /\ jobStatus'[k] = "QUEUED" <=> jobStatus[k] = "QUEUED"
                      /\ jobStatus'[k] \in Ended <=> jobStatus[k] \in Ended
                      /\ jobStatus[k] \in Ended => jobStatus'[k] = jobStatus[k]
  BY <1>2 DEF Live, Ended
<1>5. OneActiveJob' /\ OnlineIsIdle' /\ ResultHoldsLiveJob'
  BY <1>2, <1>3 DEF IInv, OneActiveJob, OnlineIsIdle, ResultHoldsLiveJob
<1>6. RetriedIffUndecided'
  <2> SUFFICES ASSUME NEW s \in Submissions, NEW a \in 1 .. MaxAttempts
               PROVE  (jobStatus[<<s, a + 1>>] # "ABSENT"
                         <=> WithoutVerdict(<<s, a>>) /\ a < MaxAttempts)'
    BY DEF RetriedIffUndecided
  <2>1. <<s, a>> \in Jobs /\ <<s, a + 1>> \in Jobs
    BY DEF Jobs
  <2> QED
    BY <1>2, <1>4, <2>1 DEF IInv, RetriedIffUndecided, WithoutVerdict
<1>7. EvaluationAgrees'
  <2>1. \A k \in Jobs : evaluation[k] # NoEvaluation => jobStatus[k] \in Ended
    BY DEF IInv, EvaluationAgrees, TypeOK, Evaluations
  <2> QED
    BY <1>2, <1>4, <2>1 DEF IInv, EvaluationAgrees
<1>8. OwnersRecorded'
  BY <1>2, <1>3, <1>4 DEF IInv, OwnersRecorded
<1>9. ClaimsStillGood'
  BY <1>2, <1>3, <1>4, ClaimsKept DEF IInv, ClaimsStillGood
<1> QED
  BY <1>1, <1>5, <1>6, <1>7, <1>8, <1>9 DEF IInv

(* A worker's steps that write no job row: it registers, reports its status, *)
(* or opens or gives up a request.                                           *)
LEMMA WorkerStepsKeep ==
  ASSUME IInv, NEW w \in Workers,
         \/ Register(w)
         \/ \E reported \in Reported : BeginWorkerHeartbeat(w, reported)
         \/ CommitWorkerHeartbeat(w)
         \/ \E j \in Jobs, verdict \in Verdicts : BeginResult(w, j, verdict)
         \/ Rollback(w)
  PROVE  IInv'
<1> USE ConstantsAssumption
<1>1. TypeOK'
  BY TypesKept DEF IInv, Next
<1>2. UNCHANGED <<jobStatus, jobWorker, evaluation>>
  BY DEF Register, BeginWorkerHeartbeat, CommitWorkerHeartbeat, BeginResult, Rollback, jobVars
<1>3. /\ OneActiveJob' /\ RetriedIffUndecided' /\ EvaluationAgrees'
      /\ \A v \in Workers : ActiveJobs(v)' = ActiveJobs(v)
  BY <1>2, RowsUntouched
<1>4. \A v \in Workers \ {w} : request'[v] = request[v] /\ workerStatus'[v] = workerStatus[v]
  BY DEF Register, BeginWorkerHeartbeat, CommitWorkerHeartbeat, BeginResult, Rollback,
         workerVars, IInv, TypeOK
<1> SUFFICES OnlineIsIdle' /\ ResultHoldsLiveJob' /\ OwnersRecorded' /\ ClaimsStillGood'
  BY <1>1, <1>3 DEF IInv
<1>5. \/ request'[w] = NoRequest \/ request'[w] = request[w]
      \/ /\ request'[w].kind = "heartbeat" /\ (~request'[w].active => ActiveJobs(w) = {})
         /\ workerStatus[w] # "ABSENT"
      \/ /\ request'[w].kind = "result" /\ workerStatus[w] # "ABSENT"
         /\ request'[w].job \in ActiveJobs(w) /\ evaluation[request'[w].job] = NoEvaluation
  <2>1. ASSUME NEW reported \in Reported, BeginWorkerHeartbeat(w, reported)
        PROVE  /\ request'[w].kind = "heartbeat" /\ (~request'[w].active => ActiveJobs(w) = {})
               /\ workerStatus[w] # "ABSENT"
    <3>1. request'[w] = [kind |-> "heartbeat", status |-> reported, active |-> ActiveJobs(w) # {}]
          /\ workerStatus[w] # "ABSENT"
      BY <2>1 DEF BeginWorkerHeartbeat, Lockable, IInv, TypeOK
    <3>2. request'[w].kind = "heartbeat" /\ request'[w].active = (ActiveJobs(w) # {})
      BY <3>1
    <3>3. ~request'[w].active => ActiveJobs(w) = {}
      BY <3>2, Zenon
    <3> QED
      BY <3>1, <3>2, <3>3
  <2>2. ASSUME NEW j \in Jobs, NEW verdict \in Verdicts, BeginResult(w, j, verdict)
        PROVE  /\ request'[w].kind = "result" /\ workerStatus[w] # "ABSENT"
               /\ request'[w].job \in ActiveJobs(w) /\ evaluation[request'[w].job] = NoEvaluation
    BY <2>2 DEF BeginResult, Lockable, OwnsLease, ActiveJobs, IInv, TypeOK
  <2>3. ASSUME Register(w) \/ CommitWorkerHeartbeat(w) \/ Rollback(w)
        PROVE  request'[w] = NoRequest \/ request'[w] = request[w]
    BY <2>3 DEF Register, CommitWorkerHeartbeat, Rollback, IInv, TypeOK
  <2> QED
    BY <2>1, <2>2, <2>3
<1>6. workerStatus'[w] = "ABSENT" => workerStatus[w] = "ABSENT" /\ request'[w] = request[w]
  <2>1. CASE CommitWorkerHeartbeat(w)
    <3>1. request[w].status \in Reported
      BY <2>1 DEF CommitWorkerHeartbeat, IInv, TypeOK, Requests, NoRequest
    <3> QED
      BY <2>1, <3>1 DEF CommitWorkerHeartbeat, Reported, IInv, TypeOK
  <2>2. CASE Register(w)
    BY <2>2 DEF Register, IInv, TypeOK
  <2>3. CASE \E reported \in Reported : BeginWorkerHeartbeat(w, reported)
    BY <2>3 DEF BeginWorkerHeartbeat, Lockable, workerVars
  <2>4. CASE \E j \in Jobs, verdict \in Verdicts : BeginResult(w, j, verdict)
    BY <2>4 DEF BeginResult, Lockable, workerVars
  <2>5. CASE Rollback(w)
    BY <2>5 DEF Rollback, workerVars, IInv, OwnersRecorded
  <2> QED
    BY <2>1, <2>2, <2>3, <2>4, <2>5
<1>7. workerStatus'[w] = "ONLINE" => ActiveJobs(w) = {}
  <2>1. CASE Register(w)
    BY <2>1 DEF Register, ActiveJobs, Live, IInv, OwnersRecorded
  <2>2. CASE CommitWorkerHeartbeat(w)
    <3>1. workerStatus'[w] = "ONLINE" => ~request[w].active
      BY <2>2 DEF CommitWorkerHeartbeat, IInv, TypeOK, Requests, NoRequest
    <3> QED
      BY <2>2, <3>1 DEF CommitWorkerHeartbeat, IInv, OwnersRecorded
  <2>3. CASE UNCHANGED workerStatus
    BY <2>3 DEF IInv, OnlineIsIdle
  <2> QED
    BY <2>1, <2>2, <2>3 DEF BeginWorkerHeartbeat, BeginResult, Rollback, workerVars
<1>8. OnlineIsIdle'
  BY <1>3, <1>4, <1>7 DEF IInv, OnlineIsIdle
<1>9. ResultHoldsLiveJob'
  BY <1>2, <1>3, <1>4, <1>5 DEF IInv, ResultHoldsLiveJob, NoRequest
<1>10. OwnersRecorded'
  <2>1. \A v \in Workers : workerStatus'[v] = "ABSENT" => workerStatus[v] = "ABSENT"
    BY <1>4, <1>6
  <2>2. \A v \in Workers : request'[v] # NoRequest => workerStatus'[v] # "ABSENT"
    BY <1>4, <1>6 DEF IInv, OwnersRecorded
  <2>3. \A v \in Workers : request'[v].kind = "heartbeat" /\ ~request'[v].active => ActiveJobs(v) = {}
    BY <1>4, <1>5 DEF IInv, OwnersRecorded, NoRequest
  <2>4. \A k \in Jobs : jobWorker'[k] # NoWorker => workerStatus'[jobWorker'[k]] # "ABSENT"
    BY <1>2, <2>1 DEF IInv, OwnersRecorded, TypeOK
  <2> QED
    BY <1>2, <1>3, <2>2, <2>3, <2>4 DEF IInv, OwnersRecorded
<1>11. ClaimsStillGood'
  <2>1. CASE Rollback(w)
    <3>1. /\ OpenClaim(w)' = {}
          /\ \A v \in Workers \ {w} : OpenClaim(v)' = OpenClaim(v)
      BY <2>1 DEF Rollback, OpenClaim, IInv, TypeOK
    <3>2. \A k \in Jobs : claimant'[k] = NoWorker \/ claimant'[k] = claimant[k]
      BY <2>1 DEF Rollback
    <3> QED
      BY <1>2, <1>3, <1>4, <3>1, <3>2 DEF IInv, ClaimsStillGood
  <2>2. CASE ~Rollback(w)
    <3>1. OpenClaim(w) = {}
      BY <2>2 DEF Register, BeginWorkerHeartbeat, CommitWorkerHeartbeat, BeginResult, Lockable,
                  NoRequest, IInv, ClaimsStillGood
    <3>2. UNCHANGED claimant
      BY <2>2 DEF Register, BeginWorkerHeartbeat, CommitWorkerHeartbeat, BeginResult, jobVars
    <3>3. \A v \in Workers : OpenClaim(v) # {} => ActiveJobs(v)' = {}
      BY <1>3 DEF IInv, ClaimsStillGood
    <3> QED
      BY <1>2, <1>4, <3>1, <3>2, <3>3, ClaimsKept
  <2> QED
    BY <2>1, <2>2
<1> QED
  BY <1>8, <1>9, <1>10, <1>11

(* The reaper's second transaction and the clock write no job row either.    *)
LEMMA ServerStepsKeep ==
  ASSUME IInv, ReapWorkers \/ Tick \/ UNCHANGED vars
  PROVE  IInv'
<1>1. TypeOK'
  BY TypesKept DEF IInv, Next
<1>2. UNCHANGED <<jobStatus, jobWorker, evaluation, claimant, request>>
  BY DEF ReapWorkers, Tick, vars, jobVars
<1>3. /\ OneActiveJob' /\ RetriedIffUndecided' /\ EvaluationAgrees'
      /\ \A v \in Workers : ActiveJobs(v)' = ActiveJobs(v)
  BY <1>2, RowsUntouched
<1>4. \A v \in Workers : workerStatus'[v] = workerStatus[v]
                         \/ (workerStatus'[v] = "OFFLINE" /\ workerStatus[v] \in {"ONLINE", "BUSY"})
  BY DEF ReapWorkers, Tick, vars, Silent
<1>5. OnlineIsIdle' /\ ResultHoldsLiveJob'
  BY <1>2, <1>3, <1>4 DEF IInv, OnlineIsIdle, ResultHoldsLiveJob
<1>6. OwnersRecorded'
  BY <1>2, <1>3, <1>4 DEF IInv, OwnersRecorded, TypeOK
<1>7. ClaimsStillGood'
  <2>1. \A v \in Workers : OpenClaim(v) # {} => workerStatus'[v] = workerStatus[v]
    BY DEF ReapWorkers, Tick, vars, Silent
  <2>2. \A v \in Workers : OpenClaim(v) # {} => ActiveJobs(v)' = {}
    BY <1>3 DEF IInv, ClaimsStillGood
  <2> QED
    BY <1>2, <2>1, <2>2, ClaimsKept
<1> QED
  BY <1>1, <1>3, <1>5, <1>6, <1>7 DEF IInv

(* The inductive invariant holds in every reachable state.                   *)
THEOREM InvariantHolds == Spec => []IInv
<1>1. IInv /\ [Next]_vars => IInv'
  BY SubmitKeeps, ReapJobsKeeps, CommitResultKeeps, BeginClaimKeeps, CommitClaimKeeps,
     JobHeartbeatKeeps, WorkerStepsKeep, ServerStepsKeep
  DEF Next
<1> QED
  BY <1>1, InitialInvariant, PTL DEF Spec

(* However its requests overlap, no worker owns two live jobs.               *)
THEOREM OneActiveJobHolds == Spec => []OneActiveJob
<1>1. IInv => OneActiveJob
  BY DEF IInv
<1> QED
  BY <1>1, InvariantHolds, PTL

(* An attempt is followed by another exactly when it ended without a verdict *)
(* below the limit: nothing is stranded, nothing is tried twice at once.     *)
THEOREM RetriedIffUndecidedHolds == Spec => []RetriedIffUndecided
<1>1. IInv => RetriedIffUndecided
  BY DEF IInv
<1> QED
  BY <1>1, InvariantHolds, PTL

(* Job rows and evaluations agree, although the reaper and the result        *)
(* handler end jobs independently of each other.                             *)
THEOREM EvaluationAgreesHolds == Spec => []EvaluationAgrees
<1>1. IInv => EvaluationAgrees
  BY DEF IInv
<1> QED
  BY <1>1, InvariantHolds, PTL

(* A worker shown ONLINE has no live job.                                    *)
THEOREM OnlineIsIdleHolds == Spec => []OnlineIsIdle
<1>1. IInv => OnlineIsIdle
  BY DEF IInv
<1> QED
  BY <1>1, InvariantHolds, PTL

(* A result being stored is always for a live, unevaluated job of its worker. *)
THEOREM ResultHoldsLiveJobHolds == Spec => []ResultHoldsLiveJob
<1>1. IInv => ResultHoldsLiveJob
  BY DEF IInv
<1> QED
  BY <1>1, InvariantHolds, PTL
-----------------------------------------------------------------------------
(* What a step does to the row and the evaluation of one job.                *)
LEMMA JobStep ==
  ASSUME IInv, Next, NEW j \in Jobs
  PROVE  \/ UNCHANGED <<jobStatus[j], jobWorker[j], evaluation[j]>>
         \/ jobStatus[j] \in {"ABSENT", "QUEUED"} /\ jobStatus'[j] \notin Ended
         \/ /\ jobStatus[j] \in Live /\ jobStatus'[j] \in Live
            /\ UNCHANGED <<jobWorker[j], evaluation[j]>>
         \/ /\ jobStatus[j] \in Live /\ evaluation'[j] # evaluation[j] /\ lease[j] > 0
         \/ /\ jobStatus[j] \in Live /\ evaluation'[j] = evaluation[j] /\ lease[j] < 0
<1> USE ConstantsAssumption
<1> DEFINE Outcome ==
         \/ UNCHANGED <<jobStatus[j], jobWorker[j], evaluation[j]>>
         \/ jobStatus[j] \in {"ABSENT", "QUEUED"} /\ jobStatus'[j] \notin Ended
         \/ /\ jobStatus[j] \in Live /\ jobStatus'[j] \in Live
            /\ UNCHANGED <<jobWorker[j], evaluation[j]>>
         \/ /\ jobStatus[j] \in Live /\ evaluation'[j] # evaluation[j] /\ lease[j] > 0
         \/ /\ jobStatus[j] \in Live /\ evaluation'[j] = evaluation[j] /\ lease[j] < 0
<1>1. ASSUME NEW asked \in SUBSET Submissions, Submit(asked) PROVE Outcome
  BY <1>1 DEF Submit, WriteJobs, Ended
<1>2. ASSUME NEW w \in Workers, CommitClaim(w) PROVE Outcome
  <2>1. PICK k \in OpenClaim(w) : /\ jobStatus' = [jobStatus EXCEPT ![k] = "CLAIMED"]
                                  /\ jobWorker' = [jobWorker EXCEPT ![k] = w]
    BY <1>2 DEF CommitClaim
  <2>2. CASE k = j
    <3>1. jobStatus[j] = "QUEUED"
      BY <2>1, <2>2, w # NoWorker DEF OpenClaim, IInv, ClaimsStillGood
    <3> QED
      BY <2>1, <2>2, <3>1 DEF Ended, IInv, TypeOK
  <2>3. CASE k # j
    BY <1>2, <2>1, <2>3 DEF CommitClaim, IInv, TypeOK
  <2> QED
    BY <2>2, <2>3
<1>3. ASSUME NEW w \in Workers, NEW k \in Jobs, JobHeartbeat(w, k) PROVE Outcome
  BY <1>3 DEF JobHeartbeat, OwnsLease, Live, IInv, TypeOK
<1>4. ASSUME NEW w \in Workers, CommitResult(w) PROVE Outcome
  <2> DEFINE k == request[w].job
             verdict == request[w].verdict
             retry == IF Retryable(verdict) THEN RetriesOf({k}) ELSE {}
  <2>1. k \in Jobs /\ jobStatus[k] \in Live /\ evaluation[k] = NoEvaluation
    BY <1>4 DEF CommitResult, IInv, ResultHoldsLiveJob, ActiveJobs
  <2>2. \A r \in retry : jobStatus[r] = "ABSENT"
    BY <2>1, RetrySlotFree DEF RetriesOf
  <2>3. CASE j = k
    BY <1>4, <2>1, <2>3 DEF CommitResult, NoEvaluation, IInv, TypeOK
  <2>4. CASE j # k
    BY <1>4, <2>2, <2>4 DEF CommitResult, WriteJobs, Ended, IInv, TypeOK
  <2> QED
    BY <2>3, <2>4
<1>5. ASSUME ReapJobs PROVE Outcome
  <2>1. \A r \in RetriesOf(Expired) : jobStatus[r] = "ABSENT"
    BY RetrySlotFree DEF RetriesOf, Expired
  <2>2. CASE j \in Expired
    BY <1>5, <2>2 DEF ReapJobs, Expired
  <2>3. CASE j \notin Expired
    BY <1>5, <2>1, <2>3 DEF ReapJobs, WriteJobs, Ended
  <2> QED
    BY <2>2, <2>3
<1>6. ASSUME \/ ReapWorkers \/ Tick
             \/ \E w \in Workers :
                  \/ Register(w)
                  \/ \E reported \in Reported : BeginWorkerHeartbeat(w, reported)
                  \/ CommitWorkerHeartbeat(w)
                  \/ BeginClaim(w)
                  \/ \E k \in Jobs, verdict \in Verdicts : BeginResult(w, k, verdict)
                  \/ Rollback(w)
      PROVE  Outcome
  BY <1>6 DEF ReapWorkers, Tick, Register, BeginWorkerHeartbeat, CommitWorkerHeartbeat,
              BeginClaim, BeginResult, Rollback, jobVars
<1> HIDE DEF Outcome
<1>7. Outcome
  BY <1>1, <1>2, <1>3, <1>4, <1>5, <1>6 DEF Next
<1> QED
  BY <1>7 DEF Outcome

(* A job that ended keeps its status, worker and evaluation for ever.        *)
THEOREM EndedIsFinalHolds == Spec => EndedIsFinal
<1>1. IInv /\ [Next]_vars =>
        [\A j \in Jobs : jobStatus[j] \in Ended =>
           UNCHANGED <<jobStatus[j], jobWorker[j], evaluation[j]>>]_vars
  <2> SUFFICES ASSUME IInv, Next, NEW j \in Jobs, jobStatus[j] \in Ended
               PROVE  UNCHANGED <<jobStatus[j], jobWorker[j], evaluation[j]>>
    OBVIOUS
  <2> QED
    BY JobStep DEF Ended, Live
<1> QED
  BY <1>1, InvariantHolds, PTL DEF Spec, EndedIsFinal

(* A live job ends by its owner's result under a good lease or by the reaper *)
(* after the lease, and in no other way.                                     *)
THEOREM LeaseDecidesHolds == Spec => LeaseDecides
<1>1. IInv /\ [Next]_vars =>
        [\A j \in Jobs : jobStatus[j] \in Live /\ jobStatus'[j] \notin Live =>
           IF evaluation'[j] # evaluation[j] THEN lease[j] > 0 ELSE lease[j] < 0]_vars
  <2> SUFFICES ASSUME IInv, Next, NEW j \in Jobs, jobStatus[j] \in Live, jobStatus'[j] \notin Live
               PROVE  IF evaluation'[j] # evaluation[j] THEN lease[j] > 0 ELSE lease[j] < 0
    OBVIOUS
  <2> QED
    BY JobStep DEF Ended, Live
<1> QED
  BY <1>1, InvariantHolds, PTL DEF Spec, LeaseDecides

(* A draining worker is left DRAINING, and without a new job, by every step  *)
(* but a heartbeat of its own.                                               *)
THEOREM DrainingHoldsAlways == Spec => DrainingHolds
<1> DEFINE Drained(w) ==
      /\ workerStatus'[w] = "DRAINING" \/ request[w].kind = "heartbeat"
      /\ \A j \in Jobs : jobWorker'[j] = w => jobWorker[j] = w
<1>1. ASSUME IInv, Next, NEW w \in Workers, workerStatus[w] = "DRAINING" PROVE Drained(w)
  <2>1. CASE \E asked \in SUBSET Submissions : Submit(asked)
    BY <1>1, <2>1 DEF Submit
  <2>2. ASSUME NEW v \in Workers, Register(v) PROVE Drained(w)
    BY <1>1, <2>2 DEF Register, jobVars, IInv, TypeOK
  <2>3. ASSUME NEW v \in Workers, \E reported \in Reported : BeginWorkerHeartbeat(v, reported)
        PROVE  Drained(w)
    BY <1>1, <2>3 DEF BeginWorkerHeartbeat, jobVars, workerVars
  <2>4. ASSUME NEW v \in Workers, CommitWorkerHeartbeat(v) PROVE Drained(w)
    BY <1>1, <2>4 DEF CommitWorkerHeartbeat, jobVars, IInv, TypeOK
  <2>5. ASSUME NEW v \in Workers, CommitClaim(v) PROVE Drained(w)
    <3>1. v # w
      BY <1>1, <2>5 DEF CommitClaim, IInv, ClaimsStillGood
    <3>2. PICK k \in OpenClaim(v) : jobWorker' = [jobWorker EXCEPT ![k] = v]
      BY <2>5 DEF CommitClaim
    <3> QED
      BY <1>1, <2>5, <3>1, <3>2 DEF CommitClaim, OpenClaim, IInv, TypeOK
  <2>13. ASSUME NEW v \in Workers, BeginClaim(v) PROVE Drained(w)
    BY <1>1, <2>13 DEF BeginClaim, workerVars
  <2>6. ASSUME NEW v \in Workers, NEW j \in Jobs, JobHeartbeat(v, j) PROVE Drained(w)
    BY <1>1, <2>6 DEF JobHeartbeat
  <2>7. ASSUME NEW v \in Workers, \E j \in Jobs, verdict \in Verdicts : BeginResult(v, j, verdict)
        PROVE  Drained(w)
    BY <1>1, <2>7 DEF BeginResult, jobVars, workerVars
  <2>8. ASSUME NEW v \in Workers, CommitResult(v) PROVE Drained(w)
    BY <1>1, <2>8 DEF CommitResult, StatusAfterResult, IInv, TypeOK
  <2>9. ASSUME NEW v \in Workers, Rollback(v) PROVE Drained(w)
    BY <1>1, <2>9 DEF Rollback, workerVars
  <2>10. CASE ReapJobs
    BY <1>1, <2>10 DEF ReapJobs
  <2>11. CASE ReapWorkers
    BY <1>1, <2>11 DEF ReapWorkers, Silent, jobVars
  <2>12. CASE Tick
    BY <1>1, <2>12 DEF Tick
  <2> HIDE DEF Drained
  <2> QED
    BY <1>1, <2>1, <2>2, <2>3, <2>4, <2>5, <2>6, <2>7, <2>8, <2>9, <2>10, <2>11, <2>12,
       <2>13 DEF Next
<1>2. IInv /\ [Next]_vars =>
        [\A w \in Workers : workerStatus[w] = "DRAINING" =>
           /\ workerStatus'[w] = "DRAINING" \/ request[w].kind = "heartbeat"
           /\ \A j \in Jobs : jobWorker'[j] = w => jobWorker[j] = w]_vars
  BY <1>1
<1> QED
  BY <1>2, InvariantHolds, PTL DEF Spec, DrainingHolds
=============================================================================
