-------------------------- MODULE EvaluationManager --------------------------
(***************************************************************************)
(* The API server's job lifecycle: class EvaluationManager in              *)
(* apps/api/agentbenchx/services.py, with the row lock that worker_auth    *)
(* (main.py) takes before every worker request and the reaper loop.        *)
(*                                                                         *)
(* Workers are the open world: a worker may send any request about any job *)
(* whose lease token it was ever given, at any time and in any order, so   *)
(* lost, delayed, duplicated and reordered HTTP requests are all here.     *)
(* Requests with a foreign token are refused (403) and change nothing.     *)
(*                                                                         *)
(* Time is what is left of each lease and how long each worker has been    *)
(* silent: lease[j] stands for lease_expires_at - now() and silence[w] for *)
(* now() - last_heartbeat, both in clock ticks and both capped where the   *)
(* code stops telling values apart.  One clock serves every API process.   *)
(*                                                                         *)
(* Operators that Next does not use (RetriesOfPastLimit, ...) are          *)
(* slips this code could have made; PROJECT.json says which property each  *)
(* of them breaks.                                                         *)
(***************************************************************************)
EXTENDS Integers, FiniteSets

CONSTANTS
  Submissions,      \* rows of "submissions", one per (agent, problem) asked for
  Ready,            \* those whose problem version has status READY
  Workers,          \* rows of "workers" that may be registered
  NoWorker,         \* runner_jobs.worker_id = NULL
  MaxAttempts,      \* settings.max_attempts
  LeaseSeconds,     \* settings.lease_seconds, in ticks
  OfflineSeconds,   \* settings.worker_offline_seconds, in ticks
  FailureTypes      \* the failure types a result may carry

ASSUME ConstantsAssumption ==
  /\ Ready \subseteq Submissions
  /\ NoWorker \notin Workers
  /\ MaxAttempts \in Nat \ {0}
  /\ LeaseSeconds \in Nat \ {0}
  /\ OfflineSeconds \in Nat \ {0}
  /\ {"INFRASTRUCTURE_FAILURE", "TIMEOUT"} \subseteq FailureTypes
  /\ "NONE" \notin FailureTypes

VARIABLES
  jobStatus,     \* runner_jobs.status; "ABSENT" where there is no row
  jobWorker,     \* runner_jobs.worker_id
  age,           \* runner_jobs.queued_at: of a QUEUED row, the commits that
                 \* inserted job rows since it was inserted
  lease,         \* ticks left until runner_jobs.lease_expires_at
  evaluation,    \* the evaluations row of a job
  claimant,      \* the worker whose open claim request has the QUEUED row
                 \* locked, NoWorker if there is none
  workerStatus,  \* workers.status; "ABSENT" before registration
  silence,       \* ticks since workers.last_heartbeat
  request        \* the heartbeat or result request that holds the worker's
                 \* row lock, if any

jobVars == <<jobStatus, jobWorker, age, lease, evaluation, claimant>>
workerVars == <<workerStatus, silence>>
vars == <<jobStatus, jobWorker, age, lease, evaluation, claimant,
          workerStatus, silence, request>>
-----------------------------------------------------------------------------
(* A job row is identified by its unique (submission_id, attempt).  One      *)
(* attempt more than the limit can be represented, so that the limit is      *)
(* something the code has to keep.                                           *)
Jobs == Submissions \X (1 .. MaxAttempts + 1)
Submission(j) == j[1]
Attempt(j) == j[2]

Live == {"CLAIMED", "RUNNING"}
Ended == {"COMPLETED", "FAILED", "TIMEOUT"}
JobStatus == {"ABSENT", "QUEUED"} \union Live \union Ended

(* What the schema lets a result say (ResultInput.consistent_status).        *)
Verdicts == [status : {"COMPLETED"}, failure : {"NONE"}]
              \union [status : {"FAILED"}, failure : FailureTypes]
              \union [status : {"TIMEOUT"}, failure : {"TIMEOUT"}]

Evaluations == [status : Ended, failure : FailureTypes \union {"NONE"},
                worker : Workers]
NoEvaluation == [status |-> "NONE", failure |-> "NONE", worker |-> NoWorker]

Reported == {"ONLINE", "DRAINING", "ERROR", "OFFLINE"}
WorkerStatus == Reported \union {"ABSENT", "BUSY"}

NoRequest == [kind |-> "none"]
Requests == {NoRequest}
              \union [kind : {"heartbeat"}, status : Reported, active : BOOLEAN]
              \union [kind : {"result"}, job : Jobs, verdict : Verdicts]

(* This is the type invariant of the manager's tables.                       *)
TypeOK ==
  /\ jobStatus \in [Jobs -> JobStatus]
  /\ jobWorker \in [Jobs -> Workers \union {NoWorker}]
  /\ age \in [Jobs -> Nat]
  /\ lease \in [Jobs -> -1 .. LeaseSeconds]
  /\ evaluation \in [Jobs -> Evaluations \union {NoEvaluation}]
  /\ claimant \in [Jobs -> Workers \union {NoWorker}]
  /\ workerStatus \in [Workers -> WorkerStatus]
  /\ silence \in [Workers -> 0 .. OfflineSeconds + 1]
  /\ request \in [Workers -> Requests]

Init ==
  /\ jobStatus = [j \in Jobs |-> "ABSENT"]
  /\ jobWorker = [j \in Jobs |-> NoWorker]
  /\ age = [j \in Jobs |-> 0]
  /\ lease = [j \in Jobs |-> 0]
  /\ evaluation = [j \in Jobs |-> NoEvaluation]
  /\ claimant = [j \in Jobs |-> NoWorker]
  /\ workerStatus = [w \in Workers |-> "ABSENT"]
  /\ silence = [w \in Workers |-> 0]
  /\ request = [w \in Workers |-> NoRequest]
-----------------------------------------------------------------------------
ActiveJobs(w) == {j \in Jobs : jobWorker[j] = w /\ jobStatus[j] \in Live}

(* The worker's row is locked by a request of its own from worker_auth until *)
(* that commits or rolls back.                                               *)
OpenClaim(w) == {j \in Jobs : claimant[j] = w}
Unlocked(w) == request[w] = NoRequest /\ OpenClaim(w) = {}

LockableWithoutLock(w) == workerStatus[w] # "ABSENT"
Lockable(w) == workerStatus[w] # "ABSENT" /\ Unlocked(w)

(* A result request keeps its job's row locked while it writes artifacts.    *)
JobLocked(j) ==
  \E w \in Workers : request[w].kind = "result" /\ request[w].job = j

(* The retry rows for a set of jobs that ended, within the attempt limit.    *)
RetriesOfPastLimit(ended) ==
  {<<Submission(j), Attempt(j) + 1>> : j \in {k \in ended : Attempt(k) <= MaxAttempts}}
RetriesOf(ended) ==
  {<<Submission(j), Attempt(j) + 1>> : j \in {k \in ended : Attempt(k) < MaxAttempts}}

(* One commit that ends the jobs in the domain of final and inserts the      *)
(* QUEUED rows fresh.                                                        *)
WriteJobs(final, fresh) ==
  /\ jobStatus' = [j \in Jobs |-> IF j \in DOMAIN final THEN final[j]
                                  ELSE IF j \in fresh THEN "QUEUED"
                                  ELSE jobStatus[j]]
  /\ age' = [j \in Jobs |-> IF jobStatus[j] = "QUEUED" /\ fresh # {}
                              THEN age[j] + 1 ELSE age[j]]
-----------------------------------------------------------------------------
(* POST /submissions: all the problems are READY, or nothing is created.     *)
Submit(asked) ==
  LET fresh == {<<s, 1>> : s \in asked}
  IN /\ asked # {} /\ asked \subseteq Ready
     /\ \A j \in fresh : jobStatus[j] = "ABSENT"
     /\ WriteJobs([j \in {} |-> "ABSENT"], fresh)
     /\ UNCHANGED <<jobWorker, lease, evaluation, claimant, workerStatus, silence, request>>

(* POST /workers/register creates a row with the column defaults.            *)
Register(w) ==
  /\ workerStatus[w] = "ABSENT"
  /\ workerStatus' = [workerStatus EXCEPT ![w] = "ONLINE"]
  /\ silence' = [silence EXCEPT ![w] = 0]
  /\ UNCHANGED <<jobVars, request>>

(* POST /workers/{id}/heartbeat reads whether the worker has an active job   *)
(* without locking that job, so the reaper may end it before the commit.     *)
BeginWorkerHeartbeat(w, reported) ==
  /\ Lockable(w)
  /\ request' = [request EXCEPT ![w] =
       [kind |-> "heartbeat", status |-> reported, active |-> ActiveJobs(w) # {}]]
  /\ UNCHANGED <<jobVars, workerVars>>

CommitWorkerHeartbeat(w) ==
  /\ request[w].kind = "heartbeat"
  /\ workerStatus' = [workerStatus EXCEPT ![w] =
       IF request[w].active /\ request[w].status = "ONLINE"
         THEN "BUSY" ELSE request[w].status]
  /\ silence' = [silence EXCEPT ![w] = 0]
  /\ request' = [request EXCEPT ![w] = NoRequest]
  /\ UNCHANGED jobVars

(* The longest waiting of the QUEUED rows that no other claim has locked     *)
(* (SKIP LOCKED); ties of queued_at are broken by the random id.             *)
OldestQueued ==
  LET open == {j \in Jobs : jobStatus[j] = "QUEUED" /\ claimant[j] = NoWorker}
  IN {j \in open : \A k \in open : age[j] >= age[k]}

MayClaim(w) ==
  workerStatus[w] \notin {"DRAINING", "ERROR", "OFFLINE"} /\ ActiveJobs(w) = {}

(* POST /workers/{id}/jobs/claim reads the worker's status and its active    *)
(* jobs and locks the row it will take.  The reads are not repeated: what    *)
(* makes them good until the commit is the worker's row lock alone.          *)
BeginClaim(w) ==
  /\ Lockable(w)
  /\ MayClaim(w)
  /\ \E j \in OldestQueued : claimant' = [claimant EXCEPT ![j] = w]
  /\ UNCHANGED <<jobStatus, jobWorker, age, lease, evaluation, workerVars, request>>

CommitClaim(w) ==
  /\ \E j \in OpenClaim(w) :
       /\ jobStatus' = [jobStatus EXCEPT ![j] = "CLAIMED"]
       /\ jobWorker' = [jobWorker EXCEPT ![j] = w]
       /\ lease' = [lease EXCEPT ![j] = LeaseSeconds]
       /\ age' = [age EXCEPT ![j] = 0]
       /\ claimant' = [claimant EXCEPT ![j] = NoWorker]
  /\ workerStatus' = [workerStatus EXCEPT ![w] = "BUSY"]
  /\ silence' = [silence EXCEPT ![w] = 0]
  /\ UNCHANGED <<evaluation, request>>

(* owned_job: the caller was given this job's token, and the lease is still  *)
(* good.  The handler waits while the row is locked.                         *)
OwnsLeaseOfAnyStatus(w, j) ==
  jobWorker[j] = w /\ ~JobLocked(j) /\ lease[j] > 0
OwnsLease(w, j) ==
  /\ jobWorker[j] = w
  /\ ~JobLocked(j)
  /\ jobStatus[j] \in Live
  /\ lease[j] > 0

(* A renewed lease runs from now, not from its old end. *)
RenewedFromOldEnd(j) == lease[j] + LeaseSeconds
Renewed(j) == LeaseSeconds

(* POST /workers/{id}/jobs/{job_id}/heartbeat extends the lease.             *)
JobHeartbeat(w, j) ==
  /\ Lockable(w)
  /\ OwnsLease(w, j)
  /\ jobStatus' = [jobStatus EXCEPT ![j] = "RUNNING"]
  /\ lease' = [lease EXCEPT ![j] = Renewed(j)]
  /\ silence' = [silence EXCEPT ![w] = 0]
  /\ UNCHANGED <<jobWorker, age, evaluation, claimant, workerStatus, request>>

(* POST /workers/{id}/jobs/{job_id}/result up to the artifact writes.  A job *)
(* that already has its evaluation is answered with it and nothing changes,  *)
(* and so is refused one that ended otherwise or whose lease ran out.        *)
BeginResult(w, j, verdict) ==
  /\ Lockable(w)
  /\ OwnsLease(w, j)
  /\ evaluation[j] = NoEvaluation
  /\ request' = [request EXCEPT ![w] =
       [kind |-> "result", job |-> j, verdict |-> verdict]]
  /\ UNCHANGED <<jobVars, workerVars>>

(* The lease is checked again once the artifacts are stored.  That check and *)
(* the commit are one step here: only inserts lie between them, and the row  *)
(* is locked all the while, so that nobody else could use a lease that ends  *)
(* there.  "The lease is good" means good at this second check.              *)
FencedOnlyBeforeStorage(j) == TRUE
Fenced(j) == lease[j] > 0

(* Only an infrastructure failure says nothing of the agent and is retried.  *)
RetryableIfFailed(verdict) == verdict.status = "FAILED"
Retryable(verdict) == verdict.failure = "INFRASTRUCTURE_FAILURE"

StatusAfterResultForgetful(w) == "ONLINE"
StatusAfterResult(w) == IF workerStatus[w] = "DRAINING" THEN "DRAINING" ELSE "ONLINE"

(* The rest of the handler, after storage took however long it took: from    *)
(* the second check of the lease to the commit.                              *)
CommitResult(w) ==
  LET j == request[w].job
      verdict == request[w].verdict
      retry == IF Retryable(verdict) THEN RetriesOf({j}) ELSE {}
  IN /\ request[w].kind = "result"
     /\ Fenced(j)
     /\ evaluation' = [evaluation EXCEPT ![j] =
          [status |-> verdict.status, failure |-> verdict.failure, worker |-> w]]
     /\ WriteJobs([k \in {j} |-> verdict.status], retry)
     /\ workerStatus' = [workerStatus EXCEPT ![w] = StatusAfterResult(w)]
     /\ silence' = [silence EXCEPT ![w] = 0]
     /\ request' = [request EXCEPT ![w] = NoRequest]
     /\ UNCHANGED <<jobWorker, lease, claimant>>

(* Rollback: storage fails (503), the lease ran out during the writes (409), *)
(* or the API process or its connection dies.  The locks go, the rows stay.  *)
Rollback(w) ==
  /\ ~Unlocked(w)
  /\ request' = [request EXCEPT ![w] = NoRequest]
  /\ claimant' = [j \in Jobs |-> IF claimant[j] = w THEN NoWorker ELSE claimant[j]]
  /\ UNCHANGED <<jobStatus, jobWorker, age, lease, evaluation, workerVars>>

(* The reaper's first transaction: every live job past its lease whose row   *)
(* it can lock at once (SKIP LOCKED).                                        *)
ExpiredEvenIfLocked == {j \in Jobs : jobStatus[j] \in Live /\ lease[j] < 0}
ExpiredUnlessRunning ==
  {j \in Jobs : jobStatus[j] = "CLAIMED" /\ lease[j] < 0 /\ ~JobLocked(j)}
Expired == {j \in Jobs : jobStatus[j] \in Live /\ lease[j] < 0 /\ ~JobLocked(j)}

StatusAfterExpiryPastLimit(j) == IF Attempt(j) > MaxAttempts THEN "FAILED" ELSE "TIMEOUT"
StatusAfterExpiry(j) == IF Attempt(j) >= MaxAttempts THEN "FAILED" ELSE "TIMEOUT"

ReapJobs ==
  /\ Expired # {}
  /\ WriteJobs([j \in Expired |-> StatusAfterExpiry(j)], RetriesOf(Expired))
  /\ UNCHANGED <<jobWorker, lease, evaluation, claimant, workerStatus, silence, request>>

(* Its second transaction, after the first released its job locks, skips the *)
(* workers whose rows are locked.                                            *)
Silent == {w \in Workers : /\ workerStatus[w] \in {"ONLINE", "BUSY"}
                           /\ silence[w] > OfflineSeconds
                           /\ Unlocked(w)}

ReapWorkers ==
  /\ Silent # {}
  /\ workerStatus' = [w \in Workers |-> IF w \in Silent THEN "OFFLINE" ELSE workerStatus[w]]
  /\ UNCHANGED <<jobVars, silence, request>>

(* The clock.  A lease stays in the row, and runs out, after its job ended.  *)
Tick ==
  /\ lease' = [j \in Jobs |-> IF jobWorker[j] # NoWorker /\ lease[j] >= 0
                                THEN lease[j] - 1 ELSE lease[j]]
  /\ silence' = [w \in Workers |-> IF workerStatus[w] # "ABSENT" /\ silence[w] <= OfflineSeconds
                                     THEN silence[w] + 1 ELSE silence[w]]
  /\ <<lease, silence>>' # <<lease, silence>>
  /\ UNCHANGED <<jobStatus, jobWorker, age, evaluation, claimant, workerStatus, request>>
-----------------------------------------------------------------------------
Next ==
  \/ \E asked \in SUBSET Submissions : Submit(asked)
  \/ \E w \in Workers :
       \/ Register(w)
       \/ \E reported \in Reported : BeginWorkerHeartbeat(w, reported)
       \/ CommitWorkerHeartbeat(w)
       \/ BeginClaim(w)
       \/ CommitClaim(w)
       \/ \E j \in Jobs : JobHeartbeat(w, j)
       \/ \E j \in Jobs, verdict \in Verdicts : BeginResult(w, j, verdict)
       \/ CommitResult(w)
       \/ Rollback(w)
  \/ ReapJobs
  \/ ReapWorkers
  \/ Tick

Spec == Init /\ [][Next]_vars

(* Fairness: time passes, the reaper loop runs every reaper_interval_seconds *)
(* and survives its exceptions, and no request holds its locks for ever      *)
(* (storage and the database have timeouts).  Nothing is asked of workers.   *)
FairSpec ==
  /\ Spec
  /\ WF_vars(Tick)
  /\ WF_vars(ReapJobs)
  /\ \A w \in Workers :
       WF_vars(CommitWorkerHeartbeat(w) \/ CommitClaim(w) \/ CommitResult(w) \/ Rollback(w))
-----------------------------------------------------------------------------
(* No worker ever owns two live jobs, whatever requests of its own overlap   *)
(* (services.py claim): each claim decides from a read made before its       *)
(* commit, and only the worker's row lock keeps two of them apart.           *)
OneActiveJob ==
  \A w \in Workers : \A j, k \in ActiveJobs(w) : j = k

(* An attempt has a successor exactly when it ended without a verdict (lease *)
(* expired, or an accepted INFRASTRUCTURE_FAILURE) below the attempt limit:  *)
(* no submission is stranded between attempts, none is tried again after a   *)
(* verdict, and no two attempts of one submission are runnable together.     *)
WithoutVerdict(j) ==
  /\ jobStatus[j] \in Ended
  /\ evaluation[j] = NoEvaluation \/ evaluation[j].failure = "INFRASTRUCTURE_FAILURE"

RetriedIffUndecided ==
  \A s \in Submissions : \A a \in 1 .. MaxAttempts :
    jobStatus[<<s, a + 1>>] # "ABSENT" <=> WithoutVerdict(<<s, a>>) /\ a < MaxAttempts

(* A job's row and its evaluation agree: an evaluated job has the status and *)
(* the worker of its evaluation, and one without was ended by the reaper,    *)
(* which never ends a job whose result is being stored.                      *)
EvaluationAgrees ==
  \A j \in Jobs :
    IF evaluation[j] # NoEvaluation
      THEN jobStatus[j] = evaluation[j].status /\ jobWorker[j] = evaluation[j].worker
      ELSE jobStatus[j] \in Ended =>
             jobStatus[j] = IF Attempt(j) = MaxAttempts THEN "FAILED" ELSE "TIMEOUT"

(* A request that is storing a result works on a live job of its own worker, *)
(* for as long as the storage takes: the row lock holds the reaper off.      *)
ResultHoldsLiveJob ==
  \A w \in Workers : request[w].kind = "result" =>
    request[w].job \in ActiveJobs(w) /\ evaluation[request[w].job] = NoEvaluation

(* A worker shown ONLINE has no live job, although its own heartbeat decides *)
(* the status from a read made before the commit.                            *)
OnlineIsIdle ==
  \A w \in Workers : workerStatus[w] = "ONLINE" => ActiveJobs(w) = {}

(* What the tables know of who works: a row has an owner exactly once it was *)
(* claimed; live jobs and open requests belong to registered workers; and a  *)
(* worker heartbeat that read "no active job" is still right when it commits.*)
OwnersRecorded ==
  /\ \A j \in Jobs :
       /\ jobWorker[j] = NoWorker <=> jobStatus[j] \in {"ABSENT", "QUEUED"}
       /\ jobWorker[j] # NoWorker => workerStatus[jobWorker[j]] # "ABSENT"
  /\ \A w \in Workers :
       /\ request[w] # NoRequest => workerStatus[w] # "ABSENT"
       /\ request[w].kind = "heartbeat" /\ ~request[w].active => ActiveJobs(w) = {}

(* What a claim has read is still so when it commits, and no worker has two  *)
(* claims open: the locks of the worker's row and of the QUEUED row see to it. *)
ClaimsStillGood ==
  /\ \A w \in Workers : OpenClaim(w) # {} =>
       workerStatus[w] # "ABSENT" /\ MayClaim(w) /\ request[w] = NoRequest
  /\ \A w \in Workers : \A j, k \in OpenClaim(w) : j = k
  /\ \A j \in Jobs : claimant[j] # NoWorker => jobStatus[j] = "QUEUED"

(* Once a job has ended, its row and its evaluation never change again, so a *)
(* late, repeated or contradicting result, heartbeat or claim is harmless.   *)
EndedIsFinal ==
  [][\A j \in Jobs : jobStatus[j] \in Ended =>
       UNCHANGED <<jobStatus[j], jobWorker[j], evaluation[j]>>]_vars

(* A job stops being live in two ways only: its owner's result is accepted   *)
(* while the lease is good (at the second check, services.py:319), or the    *)
(* reaper ends it after the lease ran out.                                   *)
LeaseDecides ==
  [][\A j \in Jobs : jobStatus[j] \in Live /\ jobStatus'[j] \notin Live =>
       IF evaluation'[j] # evaluation[j] THEN lease[j] > 0 ELSE lease[j] < 0]_vars

(* A worker that asked to drain stays DRAINING and starts nothing until it   *)
(* says otherwise itself: no result, claim or reaper pass revives it.        *)
DrainingHolds ==
  [][\A w \in Workers : workerStatus[w] = "DRAINING" =>
       /\ workerStatus'[w] = "DRAINING" \/ request[w].kind = "heartbeat"
       /\ \A j \in Jobs : jobWorker'[j] = w => jobWorker[j] = w]_vars

(* A claimed job whose lease stops being renewed does end, whether its       *)
(* worker is gone, silent, or keeps failing to store a result.               *)
AbandonedJobEnds ==
  \A j \in Jobs :
    \/ []<><<\E w \in Workers : JobHeartbeat(w, j)>>_vars
    \/ (jobStatus[j] \in Live ~> jobStatus[j] \in Ended)
-----------------------------------------------------------------------------
(* The refinement: what a client sees of each submission is the state of its *)
(* latest attempt.                                                           *)
Latest(s) ==
  LET made == {a \in 1 .. MaxAttempts : jobStatus[<<s, a>>] # "ABSENT"}
  IN IF made = {} THEN 0 ELSE CHOOSE a \in made : \A b \in made : b <= a

PhaseOf(st) ==
  CASE st = "QUEUED" -> "queued" [] st \in Live -> "running" [] OTHER -> "ended"

(* A verdict counts whichever attempt it came from; without one a submission *)
(* is given up when its latest attempt has ended.                            *)
DecisionOf(s) ==
  LET ended == {a \in 1 .. MaxAttempts : jobStatus[<<s, a>>] \in Ended}
  IN IF \E a \in ended : ~WithoutVerdict(<<s, a>>) THEN "verdict"
     ELSE IF Latest(s) \in ended THEN "exhausted" ELSE "pending"

Lifecycle == INSTANCE SubmissionLifecycle WITH
  attempt <- [s \in Submissions |-> Latest(s)],
  phase <- [s \in Submissions |->
    IF Latest(s) = 0 THEN "unsubmitted" ELSE PhaseOf(jobStatus[<<s, Latest(s)>>])],
  decision <- [s \in Submissions |-> DecisionOf(s)]

(* Every behaviour of the manager is one SubmissionLifecycle allows.         *)
ImplementsLifecycle == Lifecycle!Spec
=============================================================================
