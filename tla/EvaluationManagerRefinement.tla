--------------------- MODULE EvaluationManagerRefinement ---------------------
(***************************************************************************)
(* The proof that EvaluationManager implements SubmissionLifecycle, for    *)
(* every number of submissions, workers and attempts.                      *)
(*                                                                         *)
(* What a client sees of a submission is its latest attempt, so the proof  *)
(* needs to know that there is one.  Two facts about the whole chain of    *)
(* attempts are carried along the behaviour, one step at a time, beside    *)
(* the invariant of EvaluationManagerProofs: every attempt that has a      *)
(* later one ended without a verdict, and the attempts made have a last.   *)
(***************************************************************************)
EXTENDS EvaluationManagerProofs

Numbers == 1 .. MaxAttempts

NoneMade(s) == \A b \in Numbers : jobStatus[<<s, b>>] = "ABSENT"

IsLatest(s, a) ==
  /\ jobStatus[<<s, a>>] # "ABSENT"
  /\ \A b \in Numbers : jobStatus[<<s, b>>] # "ABSENT" => b <= a

Chain ==
  \A s \in Submissions : \A a, b \in Numbers :
    a < b /\ jobStatus[<<s, b>>] # "ABSENT" => WithoutVerdict(<<s, a>>)

HasLatest ==
  \A s \in Submissions : NoneMade(s) \/ \E a \in Numbers : IsLatest(s, a)

RInv == IInv /\ Chain /\ HasLatest
-----------------------------------------------------------------------------
(* No step removes a job row.                                                *)
LEMMA RowsStay ==
  ASSUME IInv, [Next]_vars, NEW j \in Jobs, jobStatus[j] # "ABSENT"
  PROVE  jobStatus'[j] # "ABSENT"
<1> USE ConstantsAssumption
<1>1. ASSUME NEW w \in Workers, CommitResult(w) PROVE jobStatus'[j] # "ABSENT"
  <2>1. request[w].verdict.status # "ABSENT"
    BY <1>1 DEF CommitResult, IInv, TypeOK, Requests, NoRequest, Verdicts
  <2> QED
    BY <1>1, <2>1 DEF CommitResult, WriteJobs
<1>2. ASSUME NEW w \in Workers, CommitClaim(w) PROVE jobStatus'[j] # "ABSENT"
  BY <1>2 DEF CommitClaim, IInv, TypeOK
<1>3. ASSUME NEW w \in Workers, NEW k \in Jobs, JobHeartbeat(w, k) PROVE jobStatus'[j] # "ABSENT"
  BY <1>3 DEF JobHeartbeat, IInv, TypeOK
<1>4. ASSUME NEW asked \in SUBSET Submissions, Submit(asked) PROVE jobStatus'[j] # "ABSENT"
  BY <1>4 DEF Submit, WriteJobs
<1>5. CASE ReapJobs
  BY <1>5 DEF ReapJobs, WriteJobs, StatusAfterExpiry
<1>6. ASSUME \/ ReapWorkers \/ Tick \/ UNCHANGED vars
             \/ \E w \in Workers :
                  \/ Register(w)
                  \/ \E reported \in Reported : BeginWorkerHeartbeat(w, reported)
                  \/ CommitWorkerHeartbeat(w)
                  \/ BeginClaim(w)
                  \/ \E k \in Jobs, verdict \in Verdicts : BeginResult(w, k, verdict)
                  \/ Rollback(w)
      PROVE  jobStatus'[j] # "ABSENT"
  BY <1>6 DEF ReapWorkers, Tick, Register, BeginWorkerHeartbeat, CommitWorkerHeartbeat,
              BeginClaim, BeginResult, Rollback, jobVars, vars
<1> QED
  BY <1>1, <1>2, <1>3, <1>4, <1>5, <1>6 DEF Next

(* A row that appears is a first attempt, or follows an attempt that had a   *)
(* row before and has ended without a verdict now.                           *)
LEMMA NewRow ==
  ASSUME IInv, IInv', [Next]_vars, NEW s \in Submissions, NEW b \in Numbers, b # 1,
         jobStatus[<<s, b>>] = "ABSENT", jobStatus'[<<s, b>>] # "ABSENT"
  PROVE  /\ b - 1 \in Numbers
         /\ jobStatus[<<s, b - 1>>] # "ABSENT"
         /\ WithoutVerdict(<<s, b - 1>>)'
<1> USE ConstantsAssumption DEF Numbers
<1>1. b - 1 \in Numbers /\ (b - 1) + 1 = b /\ <<s, b - 1>> \in Jobs
  BY DEF Jobs
<1>2. WithoutVerdict(<<s, b - 1>>)'
  BY <1>1 DEF IInv, RetriedIffUndecided
<1>3. jobStatus'[<<s, b - 1>>] \in Ended
  BY <1>2 DEF WithoutVerdict
<1>4. ~UNCHANGED vars
  BY DEF vars
<1>5. jobStatus[<<s, b - 1>>] # "ABSENT"
  BY <1>1, <1>3, <1>4, JobStep DEF Live, Ended
<1> QED
  BY <1>1, <1>2, <1>5

(* An attempt that ended without a verdict stays so.                         *)
LEMMA UndecidedStays ==
  ASSUME IInv, [Next]_vars, NEW j \in Jobs, WithoutVerdict(j)
  PROVE  WithoutVerdict(j)'
<1>1. UNCHANGED <<jobStatus[j], evaluation[j]>>
  BY JobStep DEF WithoutVerdict, Ended, Live, vars
<1> QED
  BY <1>1 DEF WithoutVerdict

(* The chain of attempts is kept by every step.                              *)
LEMMA ChainKept == RInv /\ IInv' /\ [Next]_vars => Chain'
<1> USE ConstantsAssumption DEF Numbers
<1> SUFFICES ASSUME RInv, IInv', [Next]_vars, NEW s \in Submissions,
                    NEW a \in Numbers, NEW b \in Numbers,
                    a < b, jobStatus'[<<s, b>>] # "ABSENT"
             PROVE  WithoutVerdict(<<s, a>>)'
  BY DEF Chain
<1>1. <<s, a>> \in Jobs
  BY DEF Jobs
<1>2. CASE jobStatus[<<s, b>>] # "ABSENT"
  BY <1>1, <1>2, UndecidedStays DEF RInv, Chain
<1>3. CASE jobStatus[<<s, b>>] = "ABSENT"
  <2>1. /\ b - 1 \in Numbers
        /\ jobStatus[<<s, b - 1>>] # "ABSENT"
        /\ WithoutVerdict(<<s, b - 1>>)'
    <3>1. b # 1
      OBVIOUS
    <3> QED
      BY <1>3, <3>1, NewRow DEF RInv
  <2>2. CASE a = b - 1
    BY <2>1, <2>2
  <2>3. CASE a < b - 1
    BY <1>1, <2>1, <2>3, UndecidedStays DEF RInv, Chain
  <2> QED
    BY <2>2, <2>3
<1> QED
  BY <1>2, <1>3

(* The attempts of a submission always have a last one.                      *)
LEMMA LatestKept == RInv /\ IInv' /\ [Next]_vars => HasLatest'
<1> USE ConstantsAssumption DEF Numbers
<1> SUFFICES ASSUME RInv, IInv', [Next]_vars, NEW s \in Submissions
             PROVE  (NoneMade(s) \/ \E a \in Numbers : IsLatest(s, a))'
  BY DEF HasLatest
<1>1. CASE NoneMade(s)
  <2>1. \A b \in Numbers : jobStatus'[<<s, b>>] # "ABSENT" => b = 1
    <3> SUFFICES ASSUME NEW b \in Numbers, jobStatus'[<<s, b>>] # "ABSENT", b # 1
                 PROVE  FALSE
      OBVIOUS
    <3>1. b - 1 \in Numbers /\ jobStatus[<<s, b - 1>>] # "ABSENT"
      BY <1>1, NewRow DEF RInv, NoneMade
    <3> QED
      BY <1>1, <3>1 DEF NoneMade
  <2>2. CASE jobStatus'[<<s, 1>>] = "ABSENT"
    BY <2>1, <2>2 DEF NoneMade
  <2>3. CASE jobStatus'[<<s, 1>>] # "ABSENT"
    <3>1. 1 \in Numbers
      OBVIOUS
    <3> QED
      BY <2>1, <2>3, <3>1 DEF IsLatest
  <2> QED
    BY <2>2, <2>3
<1>2. ASSUME NEW a \in Numbers, IsLatest(s, a)
      PROVE  \E c \in Numbers : IsLatest(s, c)'
  <2>1. jobStatus'[<<s, a>>] # "ABSENT"
    BY <1>2, RowsStay DEF IsLatest, Jobs, RInv
  <2>2. \A b \in Numbers : jobStatus'[<<s, b>>] # "ABSENT" => b <= a + 1
    <3> SUFFICES ASSUME NEW b \in Numbers, jobStatus'[<<s, b>>] # "ABSENT", ~(b <= a)
                 PROVE  b <= a + 1
      OBVIOUS
    <3>1. jobStatus[<<s, b>>] = "ABSENT" /\ b # 1
      BY <1>2 DEF IsLatest
    <3>2. b - 1 \in Numbers /\ jobStatus[<<s, b - 1>>] # "ABSENT"
      BY <3>1, NewRow DEF RInv
    <3> QED
      BY <1>2, <3>2 DEF IsLatest
  <2>3. CASE a + 1 \in Numbers /\ jobStatus'[<<s, a + 1>>] # "ABSENT"
    BY <2>2, <2>3 DEF IsLatest
  <2>4. CASE ~(a + 1 \in Numbers /\ jobStatus'[<<s, a + 1>>] # "ABSENT")
    <3>1. \A b \in Numbers : jobStatus'[<<s, b>>] # "ABSENT" => b <= a
      BY <2>2, <2>4
    <3> QED
      BY <2>1, <3>1 DEF IsLatest
  <2> QED
    BY <2>3, <2>4
<1> QED
  BY <1>1, <1>2 DEF RInv, HasLatest

(* Both hold, with the manager's invariant, in every reachable state.        *)
LEMMA RefinementInvariant == Spec => []RInv
<1>1. Init => Chain /\ HasLatest
  BY ConstantsAssumption DEF Init, Chain, HasLatest, NoneMade, Numbers, Jobs
<1>2. IInv /\ Chain /\ HasLatest /\ IInv' /\ [Next]_vars => Chain' /\ HasLatest'
  BY ChainKept, LatestKept DEF RInv
<1>3. Spec => [](Chain /\ HasLatest)
  BY <1>1, <1>2, InvariantHolds, PTL DEF Spec
<1> QED
  BY <1>3, InvariantHolds, PTL DEF RInv
-----------------------------------------------------------------------------
(* What the refinement mapping says of a submission before its first attempt *)
(* and of one whose latest attempt is known.                                 *)
Views ==
  \A s \in Submissions :
    /\ NoneMade(s) => Latest(s) = 0 /\ DecisionOf(s) = "pending"
    /\ \A a \in Numbers : IsLatest(s, a) =>
         /\ Latest(s) = a
         /\ DecisionOf(s) = IF jobStatus[<<s, a>>] \in Ended
                              THEN IF WithoutVerdict(<<s, a>>) THEN "exhausted" ELSE "verdict"
                              ELSE "pending"

(* The mapping of a reachable state.                                         *)
LEMMA ViewsNow == RInv => Views
<1> USE ConstantsAssumption DEF Numbers
<1> SUFFICES ASSUME RInv, NEW s \in Submissions
             PROVE  /\ NoneMade(s) => Latest(s) = 0 /\ DecisionOf(s) = "pending"
                    /\ \A a \in Numbers : IsLatest(s, a) =>
                         /\ Latest(s) = a
                         /\ DecisionOf(s) = IF jobStatus[<<s, a>>] \in Ended
                              THEN IF WithoutVerdict(<<s, a>>) THEN "exhausted" ELSE "verdict"
                              ELSE "pending"
  BY DEF Views
<1> DEFINE made == {a \in Numbers : jobStatus[<<s, a>>] # "ABSENT"}
           ended == {a \in Numbers : jobStatus[<<s, a>>] \in Ended}
<1>1. /\ Latest(s) = IF made = {} THEN 0 ELSE CHOOSE a \in made : \A b \in made : b <= a
      /\ DecisionOf(s) = IF \E a \in ended : ~WithoutVerdict(<<s, a>>) THEN "verdict"
                         ELSE IF Latest(s) \in ended THEN "exhausted" ELSE "pending"
      /\ ended \subseteq made
  BY DEF Latest, DecisionOf, Ended
<1>2. ASSUME NoneMade(s) PROVE Latest(s) = 0 /\ DecisionOf(s) = "pending"
  <2>1. made = {} /\ ended = {}
    BY <1>1, <1>2 DEF NoneMade
  <2> HIDE DEF made, ended
  <2> QED
    BY <1>1, <2>1
<1>3. ASSUME NEW a \in Numbers, IsLatest(s, a)
      PROVE  /\ Latest(s) = a
             /\ DecisionOf(s) = IF jobStatus[<<s, a>>] \in Ended
                              THEN IF WithoutVerdict(<<s, a>>) THEN "exhausted" ELSE "verdict"
                              ELSE "pending"
  <2>1. /\ a \in made
        /\ \A b \in made : b <= a
        /\ \A c \in made : (\A b \in made : b <= c) => c = a
    BY <1>3 DEF IsLatest
  <2>2. Latest(s) = a
    <3> HIDE DEF made, ended
    <3> QED
      BY <1>1, <2>1
  <2>3. \A b \in ended : b # a => WithoutVerdict(<<s, b>>)
    <3> SUFFICES ASSUME NEW b \in ended, b # a PROVE WithoutVerdict(<<s, b>>)
      OBVIOUS
    <3>1. b \in Numbers /\ b < a
      BY <1>1, <2>1
    <3> QED
      BY <1>3, <3>1 DEF RInv, Chain, IsLatest
  <2>4. (a \in ended) <=> (jobStatus[<<s, a>>] \in Ended)
    OBVIOUS
  <2> HIDE DEF made, ended
  <2> QED
    BY <1>1, <2>2, <2>3, <2>4
<1> QED
  BY <1>2, <1>3

(* And of the state a step leads to.                                         *)
LEMMA ViewsNext == RInv' => Views'
  BY ViewsNow, PTL

(* A queued or running job is the latest attempt of its submission.          *)
LEMMA LatestUnlessEnded ==
  ASSUME RInv, NEW j \in Jobs, jobStatus[j] \in {"QUEUED"} \union Live
  PROVE  /\ j = <<Submission(j), Attempt(j)>>
         /\ Submission(j) \in Submissions /\ Attempt(j) \in Numbers
         /\ IsLatest(Submission(j), Attempt(j))
<1> USE ConstantsAssumption DEF Numbers
<1>1. /\ j = <<Submission(j), Attempt(j)>>
      /\ Submission(j) \in Submissions /\ Attempt(j) \in 1 .. MaxAttempts + 1
  BY DEF Jobs, Submission, Attempt
<1>2. ASSUME Attempt(j) = MaxAttempts + 1 PROVE FALSE
  <2>1. jobStatus[<<Submission(j), MaxAttempts + 1>>] # "ABSENT"
    BY <1>1, <1>2 DEF Live
  <2>2. MaxAttempts \in Numbers /\ ~(MaxAttempts < MaxAttempts)
    OBVIOUS
  <2> QED
    BY <1>1, <2>1, <2>2 DEF RInv, IInv, RetriedIffUndecided
<1>3. Attempt(j) \in Numbers
  BY <1>1, <1>2
<1>4. ~WithoutVerdict(<<Submission(j), Attempt(j)>>)
  BY <1>1 DEF WithoutVerdict, Live, Ended
<1>5. \A b \in Numbers : jobStatus[<<Submission(j), b>>] # "ABSENT" => b <= Attempt(j)
  BY <1>1, <1>3, <1>4 DEF RInv, Chain
<1> QED
  BY <1>1, <1>3, <1>5 DEF IsLatest, Live
-----------------------------------------------------------------------------
(* The phase the mapping gives a submission.                                 *)
Phase(s) ==
  IF Latest(s) = 0 THEN "unsubmitted" ELSE PhaseOf(jobStatus[<<s, Latest(s)>>])

(* The mapping of s is what it was.                                          *)
SeenAsBefore(s) ==
  Latest(s)' = Latest(s) /\ Phase(s)' = Phase(s) /\ DecisionOf(s)' = DecisionOf(s)

(* No row of s changed but from CLAIMED to RUNNING.                          *)
SameRows(s) ==
  \A a \in Numbers :
    /\ \/ jobStatus'[<<s, a>>] = jobStatus[<<s, a>>]
       \/ jobStatus[<<s, a>>] \in Live /\ jobStatus'[<<s, a>>] \in Live
    /\ evaluation'[<<s, a>>] = evaluation[<<s, a>>]

(* A client sees no difference then.                                         *)
LEMMA UnchangedView ==
  ASSUME RInv, RInv', NEW s \in Submissions, SameRows(s)
  PROVE  SeenAsBefore(s)
<1> USE ConstantsAssumption DEF Numbers
<1>1. \A a \in Numbers : WithoutVerdict(<<s, a>>)' <=> WithoutVerdict(<<s, a>>)
  BY DEF SameRows, WithoutVerdict, Ended, Live
<1>2. CASE NoneMade(s)
  <2>1. NoneMade(s)'
    BY <1>2 DEF NoneMade, SameRows, Live
  <2> QED
    BY <1>2, <2>1, ViewsNow, ViewsNext DEF Views, SeenAsBefore, Phase
<1>3. ASSUME NEW a \in Numbers, IsLatest(s, a) PROVE SeenAsBefore(s)
  <2>1. IsLatest(s, a)'
    BY <1>3 DEF IsLatest, SameRows, Live
  <2>2. Latest(s) = a /\ Latest(s)' = a
    <3>1. Latest(s) = a
      BY <1>3, ViewsNow DEF Views
    <3>2. Latest(s)' = a
      BY <2>1, ViewsNext DEF Views
    <3> QED
      BY <3>1, <3>2
  <2>3. Phase(s)' = Phase(s)
    BY <1>3, <2>2 DEF Phase, PhaseOf, SameRows, Live
  <2>4. (jobStatus'[<<s, a>>] \in Ended) <=> (jobStatus[<<s, a>>] \in Ended)
    BY DEF SameRows, Live, Ended
  <2>5. DecisionOf(s)' = DecisionOf(s)
    BY <1>1, <1>3, <2>1, <2>4, ViewsNow, ViewsNext DEF Views
  <2> QED
    BY <2>2, <2>3, <2>5 DEF SeenAsBefore
<1> QED
  BY <1>2, <1>3 DEF RInv, HasLatest

(* A first attempt that appears is seen as a new queued submission.          *)
LEMMA SubmittedView ==
  ASSUME RInv, RInv', NEW s \in Submissions, [Next]_vars,
         jobStatus[<<s, 1>>] = "ABSENT", jobStatus'[<<s, 1>>] = "QUEUED"
  PROVE  /\ Phase(s) = "unsubmitted" /\ Phase(s)' = "queued"
         /\ Latest(s)' = 1 /\ DecisionOf(s)' = DecisionOf(s)
<1> USE ConstantsAssumption DEF Numbers
<1>1. NoneMade(s)
  <2> SUFFICES ASSUME NEW b \in Numbers, jobStatus[<<s, b>>] # "ABSENT" PROVE FALSE
    BY DEF NoneMade
  <2>1. 1 \in Numbers /\ 1 < b
    OBVIOUS
  <2>2. WithoutVerdict(<<s, 1>>)
    BY <2>1 DEF RInv, Chain
  <2> QED
    BY <2>2 DEF WithoutVerdict, Ended
<1>2. IsLatest(s, 1)'
  <2>1. \A b \in Numbers : jobStatus'[<<s, b>>] # "ABSENT" => b <= 1
    <3> SUFFICES ASSUME NEW b \in Numbers, jobStatus'[<<s, b>>] # "ABSENT", b # 1
                 PROVE  FALSE
      OBVIOUS
    <3>1. b - 1 \in Numbers /\ jobStatus[<<s, b - 1>>] # "ABSENT"
      BY <1>1, NewRow DEF RInv, NoneMade
    <3> QED
      BY <1>1, <3>1 DEF NoneMade
  <2> QED
    BY <2>1 DEF IsLatest
<1>3. Latest(s) = 0 /\ DecisionOf(s) = "pending"
  BY <1>1, ViewsNow DEF Views
<1>4. Latest(s)' = 1 /\ DecisionOf(s)' = "pending"
  BY <1>2, ViewsNext DEF Views, Ended
<1>5. Phase(s) = "unsubmitted"
  BY <1>3 DEF Phase
<1>6. Phase(s)' = "queued"
  BY <1>4 DEF Phase, PhaseOf, Live
<1> QED
  BY <1>3, <1>4, <1>5, <1>6

(* A queued job that is claimed is seen as its submission starting.          *)
LEMMA StartedView ==
  ASSUME RInv, RInv', NEW s \in Submissions, NEW a \in Numbers,
         jobStatus[<<s, a>>] = "QUEUED", jobStatus'[<<s, a>>] \in Live,
         \A b \in Numbers : b # a => jobStatus'[<<s, b>>] = jobStatus[<<s, b>>]
  PROVE  /\ Phase(s) = "queued" /\ Phase(s)' = "running"
         /\ Latest(s)' = Latest(s) /\ DecisionOf(s)' = DecisionOf(s)
<1> USE ConstantsAssumption DEF Numbers
<1>1. IsLatest(s, a)
  <2>1. <<s, a>> \in Jobs
    BY DEF Jobs
  <2> QED
    BY <2>1, LatestUnlessEnded DEF Submission, Attempt
<1>2. IsLatest(s, a)'
  BY <1>1 DEF IsLatest, Live
<1>3. Latest(s) = a /\ DecisionOf(s) = "pending"
  BY <1>1, ViewsNow DEF Views, Ended
<1>4. Latest(s)' = a /\ DecisionOf(s)' = "pending"
  BY <1>2, ViewsNext DEF Views, Ended, Live
<1> QED
  BY <1>3, <1>4 DEF Phase, PhaseOf, Live

(* A live job that ends with no attempt after it decides its submission, or  *)
(* exhausts it.                                                              *)
LEMMA EndedView ==
  ASSUME RInv, RInv', [Next]_vars, NEW s \in Submissions, NEW a \in Numbers,
         jobStatus[<<s, a>>] \in Live, jobStatus'[<<s, a>>] \in Ended,
         a + 1 \in Numbers => jobStatus'[<<s, a + 1>>] = "ABSENT"
  PROVE  /\ Phase(s) = "running" /\ Phase(s)' = "ended"
         /\ Latest(s) = a /\ Latest(s)' = a
         /\ DecisionOf(s)' = IF WithoutVerdict(<<s, a>>)' THEN "exhausted" ELSE "verdict"
<1> USE ConstantsAssumption DEF Numbers
<1>1. IsLatest(s, a)
  <2>1. <<s, a>> \in Jobs
    BY DEF Jobs
  <2> QED
    BY <2>1, LatestUnlessEnded DEF Submission, Attempt
<1>2. IsLatest(s, a)'
  <2> SUFFICES ASSUME NEW b \in Numbers, jobStatus'[<<s, b>>] # "ABSENT", ~(b <= a)
               PROVE  FALSE
    BY DEF IsLatest, Ended
  <2>1. jobStatus[<<s, b>>] = "ABSENT" /\ b # 1
    BY <1>1 DEF IsLatest
  <2>2. b - 1 \in Numbers /\ jobStatus[<<s, b - 1>>] # "ABSENT"
    BY <2>1, NewRow DEF RInv
  <2>3. b = a + 1
    BY <1>1, <2>2 DEF IsLatest
  <2> QED
    BY <2>3
<1>3. Latest(s) = a
  BY <1>1, ViewsNow DEF Views
<1>4. /\ Latest(s)' = a
      /\ DecisionOf(s)' = IF WithoutVerdict(<<s, a>>)' THEN "exhausted" ELSE "verdict"
  BY <1>2, ViewsNext DEF Views
<1>5. Phase(s) = "running"
  BY <1>3 DEF Phase, PhaseOf, Live
<1>6. Phase(s)' = "ended"
  BY <1>4 DEF Phase, PhaseOf, Ended, Live
<1> QED
  BY <1>3, <1>4, <1>5, <1>6

(* A live job that ends with a retry after it is seen as queued again.       *)
LEMMA RetriedView ==
  ASSUME RInv, RInv', NEW s \in Submissions, NEW a \in Numbers, [Next]_vars,
         jobStatus[<<s, a>>] \in Live, a + 1 \in Numbers,
         jobStatus'[<<s, a + 1>>] = "QUEUED"
  PROVE  /\ Phase(s) = "running" /\ Phase(s)' = "queued"
         /\ Latest(s) = a /\ Latest(s)' = a + 1 /\ DecisionOf(s)' = DecisionOf(s)
<1> USE ConstantsAssumption DEF Numbers
<1>1. IsLatest(s, a)
  <2>1. <<s, a>> \in Jobs
    BY DEF Jobs
  <2> QED
    BY <2>1, LatestUnlessEnded DEF Submission, Attempt
<1>2. IsLatest(s, a + 1)'
  <2>1. <<s, a + 1>> \in Jobs /\ s \in Submissions
    BY DEF Jobs
  <2>2. jobStatus'[<<s, a + 1>>] # "ABSENT"
    OBVIOUS
  <2>3. \A b \in Numbers : jobStatus'[<<s, b>>] # "ABSENT" => b <= a + 1
    <3> SUFFICES ASSUME NEW b \in Numbers, jobStatus'[<<s, b>>] # "ABSENT", ~(b <= a)
                 PROVE  b <= a + 1
      OBVIOUS
    <3>1. jobStatus[<<s, b>>] = "ABSENT" /\ b # 1
      BY <1>1 DEF IsLatest
    <3>2. b - 1 \in Numbers /\ jobStatus[<<s, b - 1>>] # "ABSENT"
      BY <3>1, NewRow DEF RInv
    <3> QED
      BY <1>1, <3>2 DEF IsLatest
  <2> QED
    BY <2>2, <2>3 DEF IsLatest
<1>3. Latest(s) = a /\ DecisionOf(s) = "pending"
  BY <1>1, ViewsNow DEF Views, Live, Ended
<1>4. Latest(s)' = a + 1 /\ DecisionOf(s)' = "pending"
  BY <1>2, ViewsNext DEF Views, Ended
<1> QED
  BY <1>3, <1>4 DEF Phase, PhaseOf, Live
-----------------------------------------------------------------------------
(* Every step of the manager is a step of the lifecycle or changes nothing   *)
(* a client sees: one case for each kind of step.                            *)
LifecycleStep == [Lifecycle!Next]_(Lifecycle!vars)

(* Where every submission is seen as before, the mapping stutters.           *)
LEMMA StutterMapped ==
  ASSUME \A s \in Submissions : SeenAsBefore(s)
  PROVE  LifecycleStep
<1>1. /\ [s \in Submissions |-> Latest(s)]' = [s \in Submissions |-> Latest(s)]
      /\ [s \in Submissions |-> Phase(s)]' = [s \in Submissions |-> Phase(s)]
      /\ [s \in Submissions |-> DecisionOf(s)]' = [s \in Submissions |-> DecisionOf(s)]
  BY DEF SeenAsBefore
<1> QED
  BY <1>1 DEF LifecycleStep, Lifecycle!vars, Phase

(* A commit that creates submissions is the lifecycle's Submit.              *)
LEMMA SubmitMapped ==
  ASSUME RInv, RInv', NEW asked \in SUBSET Submissions, Submit(asked)
  PROVE  LifecycleStep
<1> USE ConstantsAssumption DEF Numbers
<1>1. [Next]_vars
  BY DEF Next
<1>2. ASSUME NEW s \in asked
      PROVE  /\ Phase(s) = "unsubmitted" /\ Phase(s)' = "queued"
             /\ Latest(s)' = 1 /\ DecisionOf(s)' = DecisionOf(s)
  <2>1. <<s, 1>> \in Jobs
    BY DEF Jobs
  <2>2. jobStatus[<<s, 1>>] = "ABSENT" /\ jobStatus'[<<s, 1>>] = "QUEUED"
    BY <2>1 DEF Submit, WriteJobs
  <2> QED
    BY <1>1, <2>2, SubmittedView
<1>3. ASSUME NEW s \in Submissions \ asked PROVE SeenAsBefore(s)
  <2>1. SameRows(s)
    BY DEF Submit, WriteJobs, SameRows, Jobs
  <2> QED
    BY <2>1, UnchangedView
<1>4. Lifecycle!Submit(asked)
  BY <1>2, <1>3 DEF Lifecycle!Submit, SeenAsBefore, Phase
<1> QED
  BY <1>4 DEF LifecycleStep, Lifecycle!Next

(* A claim starts the submission whose job it takes.                         *)
LEMMA ClaimMapped ==
  ASSUME RInv, RInv', NEW w \in Workers, CommitClaim(w)
  PROVE  LifecycleStep
<1> USE ConstantsAssumption DEF Numbers
<1>1. PICK j \in OpenClaim(w) : jobStatus' = [jobStatus EXCEPT ![j] = "CLAIMED"]
  BY DEF CommitClaim
<1> DEFINE s == Submission(j)
           a == Attempt(j)
<1>2. /\ j \in Jobs /\ jobStatus[j] = "QUEUED"
      /\ j = <<s, a>> /\ s \in Submissions /\ a \in Numbers
  <2>1. j \in Jobs /\ jobStatus[j] = "QUEUED"
    BY w # NoWorker DEF OpenClaim, RInv, IInv, ClaimsStillGood
  <2> QED
    BY <2>1, LatestUnlessEnded
<1>3. jobStatus \in [Jobs -> JobStatus] /\ UNCHANGED evaluation
  BY DEF RInv, IInv, TypeOK, CommitClaim
<1> HIDE DEF s, a
<1>4. /\ Phase(s) = "queued" /\ Phase(s)' = "running"
      /\ Latest(s)' = Latest(s) /\ DecisionOf(s)' = DecisionOf(s)
  <2>1. jobStatus'[<<s, a>>] \in Live
    BY <1>1, <1>2, <1>3 DEF Live
  <2>2. \A b \in Numbers : b # a => jobStatus'[<<s, b>>] = jobStatus[<<s, b>>]
    BY <1>1, <1>2, <1>3 DEF Jobs
  <2> QED
    BY <1>2, <2>1, <2>2, StartedView
<1>5. ASSUME NEW r \in Submissions, r # s PROVE SeenAsBefore(r)
  <2>1. SameRows(r)
    BY <1>1, <1>2, <1>3, <1>5 DEF SameRows, Jobs
  <2> QED
    BY <2>1, UnchangedView
<1>6. Lifecycle!Start(s)
  <2>1. [r \in Submissions |-> Phase(r)]'
          = [[r \in Submissions |-> Phase(r)] EXCEPT ![s] = "running"]
    BY <1>2, <1>4, <1>5 DEF SeenAsBefore
  <2>2. /\ [r \in Submissions |-> Latest(r)]' = [r \in Submissions |-> Latest(r)]
        /\ [r \in Submissions |-> DecisionOf(r)]' = [r \in Submissions |-> DecisionOf(r)]
    BY <1>4, <1>5 DEF SeenAsBefore
  <2> QED
    BY <1>2, <1>4, <2>1, <2>2 DEF Lifecycle!Start, Phase
<1> QED
  BY <1>2, <1>6 DEF LifecycleStep, Lifecycle!Next

(* A result that is stored decides its submission, or ends an attempt        *)
(* without a verdict when it reports an infrastructure failure.              *)
LEMMA ResultMapped ==
  ASSUME RInv, RInv', NEW w \in Workers, CommitResult(w)
  PROVE  LifecycleStep
<1> USE ConstantsAssumption DEF Numbers
<1>0. PICK j \in Jobs, verdict \in Verdicts :
        /\ j = request[w].job /\ verdict = request[w].verdict
        /\ jobStatus[j] \in Live /\ evaluation[j] = NoEvaluation
  <2>1. request[w].job \in Jobs /\ request[w].verdict \in Verdicts
    BY DEF CommitResult, RInv, IInv, TypeOK, Requests, NoRequest
  <2>2. jobStatus[request[w].job] \in Live /\ evaluation[request[w].job] = NoEvaluation
    BY DEF CommitResult, RInv, IInv, ResultHoldsLiveJob, ActiveJobs
  <2> QED
    BY <2>1, <2>2
<1>1. /\ j \in Jobs /\ jobStatus[j] \in Live /\ evaluation[j] = NoEvaluation
      /\ verdict \in Verdicts
  BY <1>0
<1>2. PICK s \in Submissions, a \in Numbers :
        /\ s = Submission(j) /\ a = Attempt(j)
        /\ j = <<s, a>> /\ IsLatest(s, a)
  BY <1>1, LatestUnlessEnded
<1> DEFINE retry == IF Retryable(verdict) THEN RetriesOf({j}) ELSE {}
<1>3. jobStatus[<<s, a + 1>>] = "ABSENT" /\ <<s, a + 1>> \in Jobs
  BY <1>1, <1>2, RetrySlotFree DEF RInv
<1>4. /\ jobStatus' = [k \in Jobs |-> IF k \in {j} THEN verdict.status
                                      ELSE IF k \in retry THEN "QUEUED" ELSE jobStatus[k]]
      /\ evaluation' = [evaluation EXCEPT ![j] =
            [status |-> verdict.status, failure |-> verdict.failure, worker |-> w]]
  BY <1>0 DEF CommitResult, WriteJobs
<1>5. retry = IF Retryable(verdict) /\ a < MaxAttempts THEN {<<s, a + 1>>} ELSE {}
  BY <1>2 DEF RetriesOf
<1>6. verdict.status \in Ended
  BY <1>1 DEF Verdicts, Ended
<1>7. evaluation \in [Jobs -> Evaluations \union {NoEvaluation}]
  BY DEF RInv, IInv, TypeOK
<1>8. [Next]_vars
  BY DEF Next
<1>9. (WithoutVerdict(<<s, a>>)') <=> Retryable(verdict)
  <2>1. /\ evaluation'[j].failure = verdict.failure
        /\ evaluation'[j].status = verdict.status
    BY <1>1, <1>4, <1>7
  <2>2. evaluation'[j] # NoEvaluation
    BY <1>6, <2>1 DEF NoEvaluation, Ended
  <2>3. jobStatus'[j] \in Ended
    BY <1>1, <1>4, <1>6
  <2> QED
    BY <1>2, <2>1, <2>2, <2>3 DEF WithoutVerdict, Retryable
<1> HIDE DEF retry
<1>10. ASSUME NEW r \in Submissions, r # s PROVE SeenAsBefore(r)
  <2>1. SameRows(r)
    BY <1>2, <1>4, <1>5, <1>7, <1>10 DEF SameRows, Jobs
  <2> QED
    BY <2>1, UnchangedView
<1>11. jobStatus'[<<s, a>>] \in Ended
  BY <1>1, <1>2, <1>4, <1>6
<1>12. ASSUME Retryable(verdict), a < MaxAttempts PROVE LifecycleStep
  <2>1. a + 1 \in Numbers /\ jobStatus'[<<s, a + 1>>] = "QUEUED"
    BY <1>1, <1>2, <1>3, <1>4, <1>5, <1>12 DEF Live
  <2>2. /\ Phase(s) = "running" /\ Phase(s)' = "queued"
        /\ Latest(s) = a /\ Latest(s)' = a + 1 /\ DecisionOf(s)' = DecisionOf(s)
    BY <1>1, <1>2, <1>8, <2>1, RetriedView
  <2>3. Lifecycle!EndWithoutVerdict({s})
    BY <1>2, <1>10, <1>12, <2>2 DEF Lifecycle!EndWithoutVerdict, SeenAsBefore, Phase
  <2> QED
    BY <1>2, <2>3 DEF LifecycleStep, Lifecycle!Next
<1>13. ASSUME ~(Retryable(verdict) /\ a < MaxAttempts) PROVE LifecycleStep
  <2>1. a + 1 \in Numbers => jobStatus'[<<s, a + 1>>] = "ABSENT"
    BY <1>2, <1>3, <1>4, <1>5, <1>13
  <2>2. /\ Phase(s) = "running" /\ Phase(s)' = "ended"
        /\ Latest(s) = a /\ Latest(s)' = a
        /\ DecisionOf(s)' = IF WithoutVerdict(<<s, a>>)' THEN "exhausted" ELSE "verdict"
    BY <1>1, <1>2, <1>8, <1>11, <2>1, EndedView
  <2>3. CASE Retryable(verdict)
    <3>1. ~(a < MaxAttempts) /\ DecisionOf(s)' = "exhausted"
      BY <1>9, <1>13, <2>2, <2>3
    <3>2. Lifecycle!EndWithoutVerdict({s})
      BY <1>2, <1>10, <2>2, <3>1 DEF Lifecycle!EndWithoutVerdict, SeenAsBefore, Phase
    <3> QED
      BY <1>2, <3>2 DEF LifecycleStep, Lifecycle!Next
  <2>4. CASE ~Retryable(verdict)
    <3>1. DecisionOf(s)' = "verdict"
      BY <1>9, <2>2, <2>4
    <3>2. /\ [r \in Submissions |-> Phase(r)]'
               = [[r \in Submissions |-> Phase(r)] EXCEPT ![s] = "ended"]
          /\ [r \in Submissions |-> DecisionOf(r)]'
               = [[r \in Submissions |-> DecisionOf(r)] EXCEPT ![s] = "verdict"]
          /\ [r \in Submissions |-> Latest(r)]' = [r \in Submissions |-> Latest(r)]
      BY <1>2, <1>10, <2>2, <3>1 DEF SeenAsBefore
    <3>3. Lifecycle!Decide(s)
      BY <1>2, <2>2, <3>2 DEF Lifecycle!Decide, Phase
    <3> QED
      BY <1>2, <3>3 DEF LifecycleStep, Lifecycle!Next
  <2> QED
    BY <2>3, <2>4
<1> QED
  BY <1>12, <1>13

(* A pass of the reaper ends its expired jobs' attempts without a verdict.   *)
LEMMA ReapMapped ==
  ASSUME RInv, RInv', ReapJobs
  PROVE  LifecycleStep
<1> USE ConstantsAssumption DEF Numbers
<1> DEFINE lost == {r \in Submissions : \E a \in Numbers : <<r, a>> \in Expired}
           final == [k \in Expired |-> StatusAfterExpiry(k)]
<1>1. /\ jobStatus' = [k \in Jobs |-> IF k \in Expired THEN final[k]
                                      ELSE IF k \in RetriesOf(Expired) THEN "QUEUED"
                                      ELSE jobStatus[k]]
      /\ UNCHANGED evaluation
  BY DEF ReapJobs, WriteJobs
<1>2. \A k \in Expired : final[k] \in Ended
  BY DEF StatusAfterExpiry, Ended
<1>3. [Next]_vars
  BY DEF Next
<1>4. \A k \in Expired : k \in Jobs /\ jobStatus[k] \in Live
  BY DEF Expired
<1>5. ASSUME NEW r \in Submissions, NEW a \in Numbers
      PROVE  <<r, a + 1>> \in RetriesOf(Expired) <=> (<<r, a>> \in Expired /\ a < MaxAttempts)
  <2>1. ASSUME <<r, a + 1>> \in RetriesOf(Expired) PROVE <<r, a>> \in Expired /\ a < MaxAttempts
    <3>1. PICK k \in Expired : Attempt(k) < MaxAttempts
                               /\ <<r, a + 1>> = <<Submission(k), Attempt(k) + 1>>
      BY <2>1 DEF RetriesOf
    <3>2. k = <<Submission(k), Attempt(k)>> /\ Attempt(k) \in Numbers
      BY <1>4, LatestUnlessEnded
    <3>3. r = Submission(k) /\ a + 1 = Attempt(k) + 1
      BY <3>1
    <3>4. a = Attempt(k)
      BY <3>2, <3>3
    <3> QED
      BY <3>1, <3>2, <3>3, <3>4
  <2>2. ASSUME <<r, a>> \in Expired, a < MaxAttempts PROVE <<r, a + 1>> \in RetriesOf(Expired)
    BY <2>2 DEF RetriesOf, Submission, Attempt
  <2> QED
    BY <2>1, <2>2
<1> HIDE DEF final
<1>6. ASSUME NEW r \in Submissions \ lost PROVE SeenAsBefore(r)
  <2>1. \A a \in Numbers : <<r, a>> \notin Expired
    BY <1>6
  <2>2. \A a \in Numbers : <<r, a>> \notin RetriesOf(Expired)
    <3> SUFFICES ASSUME NEW a \in Numbers, <<r, a>> \in RetriesOf(Expired) PROVE FALSE
      OBVIOUS
    <3>1. PICK k \in Expired : <<r, a>> = <<Submission(k), Attempt(k) + 1>>
      BY DEF RetriesOf
    <3>2. k = <<Submission(k), Attempt(k)>> /\ Attempt(k) \in Numbers
      BY <1>4, LatestUnlessEnded
    <3> QED
      BY <2>1, <3>1, <3>2
  <2>3. SameRows(r)
    BY <1>1, <2>1, <2>2 DEF SameRows, Jobs
  <2> QED
    BY <2>3, UnchangedView
<1>7. ASSUME NEW r \in lost
      PROVE  /\ Phase(r) = "running"
             /\ Latest(r) < MaxAttempts =>
                  /\ Phase(r)' = "queued" /\ Latest(r)' = Latest(r) + 1
                  /\ DecisionOf(r)' = DecisionOf(r)
             /\ ~(Latest(r) < MaxAttempts) =>
                  /\ Phase(r)' = "ended" /\ Latest(r)' = Latest(r)
                  /\ DecisionOf(r)' = "exhausted"
  <2>1. PICK a \in Numbers : <<r, a>> \in Expired
    OBVIOUS
  <2>2. jobStatus[<<r, a>>] \in Live /\ <<r, a>> \in Jobs /\ r \in Submissions
    BY <1>4, <2>1
  <2>3. /\ jobStatus[<<r, a + 1>>] = "ABSENT" /\ <<r, a + 1>> \in Jobs
    BY <2>2, RetrySlotFree DEF RInv, Submission, Attempt
  <2>4. <<r, a + 1>> \notin Expired
    BY <1>4, <2>3 DEF Live
  <2>5. CASE a < MaxAttempts
    <3>1. a + 1 \in Numbers /\ jobStatus'[<<r, a + 1>>] = "QUEUED"
      BY <1>1, <1>5, <2>1, <2>2, <2>3, <2>4, <2>5
    <3> QED
      BY <1>3, <2>2, <2>5, <3>1, RetriedView
  <2>6. CASE ~(a < MaxAttempts)
    <3>1. ~(a + 1 \in Numbers) /\ jobStatus'[<<r, a>>] \in Ended
      BY <1>1, <1>2, <2>1, <2>2, <2>6
    <3>2. evaluation[<<r, a>>] = NoEvaluation
      <4>1. \A st \in Ended : st \notin Live
        BY DEF Ended, Live
      <4>2. evaluation[<<r, a>>] # NoEvaluation => evaluation[<<r, a>>].status \in Ended
        BY <2>2 DEF RInv, IInv, TypeOK, Evaluations
      <4> QED
        BY <2>2, <4>1, <4>2 DEF RInv, IInv, EvaluationAgrees
    <3>3. WithoutVerdict(<<r, a>>)'
      BY <1>1, <3>1, <3>2 DEF WithoutVerdict
    <3> QED
      BY <1>3, <2>2, <2>6, <3>1, <3>3, EndedView
  <2> QED
    BY <2>5, <2>6
<1>8. Lifecycle!EndWithoutVerdict(lost)
  <2>1. lost \subseteq Submissions
    OBVIOUS
  <2> HIDE DEF lost
  <2> QED
    BY <1>6, <1>7, <2>1 DEF Lifecycle!EndWithoutVerdict, SeenAsBefore, Phase
<1> QED
  BY <1>8 DEF LifecycleStep, Lifecycle!Next

(* The other steps change nothing a client sees: a heartbeat only turns a    *)
(* claimed job into a running one.                                           *)
LEMMA OthersMapped ==
  ASSUME RInv, RInv',
         \/ ReapWorkers \/ Tick \/ UNCHANGED vars
         \/ \E w \in Workers :
              \/ Register(w)
              \/ \E reported \in Reported : BeginWorkerHeartbeat(w, reported)
              \/ CommitWorkerHeartbeat(w)
              \/ BeginClaim(w)
              \/ \E k \in Jobs : JobHeartbeat(w, k)
              \/ \E k \in Jobs, verdict \in Verdicts : BeginResult(w, k, verdict)
              \/ Rollback(w)
  PROVE  LifecycleStep
<1>1. ASSUME NEW s \in Submissions PROVE SameRows(s)
  <2>1. CASE UNCHANGED <<jobStatus, evaluation>>
    BY <2>1 DEF SameRows
  <2>2. ASSUME NEW w \in Workers, NEW k \in Jobs, JobHeartbeat(w, k) PROVE SameRows(s)
    BY <2>2 DEF SameRows, JobHeartbeat, OwnsLease, Live, RInv, IInv, TypeOK
  <2> QED
    BY <2>1, <2>2 DEF ReapWorkers, Tick, Register, BeginWorkerHeartbeat,
       CommitWorkerHeartbeat, BeginClaim, BeginResult, Rollback, jobVars, vars
<1> QED
  BY <1>1, UnchangedView, StutterMapped

(* What clients see is what SubmissionLifecycle promises: a submission is    *)
(* tried at most MaxAttempts times, one attempt after the other, the first   *)
(* verdict is the last word and what was decided stays decided, whatever the *)
(* workers, the network, the reaper and the clock do.                        *)
THEOREM LifecycleImplemented == Spec => ImplementsLifecycle
<1>1. Init /\ RInv => Lifecycle!Init
  <2> SUFFICES ASSUME Init, RInv PROVE Lifecycle!Init
    OBVIOUS
  <2>1. \A s \in Submissions : NoneMade(s)
    BY ConstantsAssumption DEF Init, NoneMade, Numbers, Jobs
  <2> QED
    BY <2>1, ViewsNow DEF Lifecycle!Init, Views
<1>2. RInv /\ RInv' /\ [Next]_vars => LifecycleStep
  BY SubmitMapped, ClaimMapped, ResultMapped, ReapMapped, OthersMapped DEF Next
<1>3. RInv /\ RInv' /\ [Next]_vars => [Lifecycle!Next]_(Lifecycle!vars)
  BY <1>2 DEF LifecycleStep
<1> QED
  BY <1>1, <1>3, RefinementInvariant, PTL DEF Spec, ImplementsLifecycle, Lifecycle!Spec
-----------------------------------------------------------------------------
(* What follows from the lifecycle alone, and so holds of the manager.       *)
(* One submission: the decision is in line with the attempts made.           *)
SettledOne(s) ==
  /\ Latest(s) \in 0 .. MaxAttempts
  /\ Phase(s) \in {"unsubmitted", "queued", "running", "ended"}
  /\ DecisionOf(s) \in {"pending", "verdict", "exhausted"}
  /\ Phase(s) = "unsubmitted" <=> Latest(s) = 0
  /\ Phase(s) = "ended" <=> DecisionOf(s) # "pending"
  /\ DecisionOf(s) = "exhausted" => Latest(s) = MaxAttempts

SettledInv == \A s \in Submissions : SettledOne(s)

(* What one step of the lifecycle may do to a submission.                    *)
MovesOn(s) ==
  \/ SeenAsBefore(s)
  \/ /\ Phase(s) = "unsubmitted" /\ Phase(s)' = "queued"
     /\ Latest(s)' = 1 /\ DecisionOf(s)' = DecisionOf(s)
  \/ /\ Phase(s) = "queued" /\ Phase(s)' = "running"
     /\ Latest(s)' = Latest(s) /\ DecisionOf(s)' = DecisionOf(s)
  \/ /\ Phase(s) = "running" /\ Phase(s)' = "ended"
     /\ Latest(s)' = Latest(s)
     /\ \/ DecisionOf(s)' = "verdict"
        \/ ~(Latest(s) < MaxAttempts) /\ DecisionOf(s)' = "exhausted"
  \/ /\ Phase(s) = "running" /\ Phase(s)' = "queued" /\ Latest(s) < MaxAttempts
     /\ Latest(s)' = Latest(s) + 1 /\ DecisionOf(s)' = DecisionOf(s)

(* Each action of the lifecycle moves every submission so.                   *)
LEMMA LifecycleMoves ==
  ASSUME [Lifecycle!Next]_(Lifecycle!vars), NEW s \in Submissions
  PROVE  MovesOn(s)
<1>1. ASSUME NEW asked \in SUBSET Submissions, Lifecycle!Submit(asked)
      PROVE  MovesOn(s)
  BY <1>1 DEF Lifecycle!Submit, MovesOn, SeenAsBefore, Phase
<1>2. ASSUME NEW r \in Submissions, Lifecycle!Start(r)
      PROVE  MovesOn(s)
  BY <1>2 DEF Lifecycle!Start, MovesOn, SeenAsBefore, Phase
<1>3. ASSUME NEW r \in Submissions, Lifecycle!Decide(r)
      PROVE  MovesOn(s)
  <2>1. /\ Phase(r) = "running"
        /\ Latest(s)' = Latest(s)
        /\ Phase(s)' = IF s = r THEN "ended" ELSE Phase(s)
        /\ DecisionOf(s)' = IF s = r THEN "verdict" ELSE DecisionOf(s)
    BY <1>3 DEF Lifecycle!Decide, Phase
  <2> QED
    BY <2>1 DEF MovesOn, SeenAsBefore
<1>4. ASSUME NEW lost \in SUBSET Submissions, Lifecycle!EndWithoutVerdict(lost)
      PROVE  MovesOn(s)
  BY <1>4 DEF Lifecycle!EndWithoutVerdict, MovesOn, SeenAsBefore, Phase
<1>5. ASSUME UNCHANGED Lifecycle!vars
      PROVE  MovesOn(s)
  BY <1>5 DEF Lifecycle!vars, MovesOn, SeenAsBefore, Phase
<1> QED
  BY <1>1, <1>2, <1>3, <1>4, <1>5 DEF Lifecycle!Next

(* And so the decision stays in line with the attempts.                      *)
LEMMA MoveSettles ==
  ASSUME NEW s \in Submissions, SettledOne(s), MovesOn(s)
  PROVE  SettledOne(s)' /\ (DecisionOf(s) # "pending" => SeenAsBefore(s))
BY ConstantsAssumption DEF SettledOne, MovesOn, SeenAsBefore

(* Every submission's decision follows from its attempts, in every state.    *)
LEMMA SettledInvariant == Lifecycle!Spec => []SettledInv
<1>1. Lifecycle!Init => SettledInv
  BY ConstantsAssumption DEF SettledInv, SettledOne, Lifecycle!Init, Phase
<1>2. SettledInv /\ [Lifecycle!Next]_(Lifecycle!vars) => SettledInv'
  BY LifecycleMoves, MoveSettles DEF SettledInv
<1> QED
  BY <1>1, <1>2, PTL DEF Lifecycle!Spec

(* A submission is decided exactly when its latest attempt has ended, and    *)
(* given up only at the attempt limit (services.py, main.py result handler). *)
THEOREM SubmissionsSettled == Spec => []Lifecycle!Settled
<1>1. SettledInv => Lifecycle!Settled
  BY DEF SettledInv, SettledOne, Lifecycle!Settled, Phase
<1> QED
  BY <1>1, LifecycleImplemented, SettledInvariant, PTL DEF ImplementsLifecycle

(* What a client was told of a submission in the end is never taken back:    *)
(* no late result, retry or reaper pass gives it another attempt or outcome. *)
THEOREM DecisionsAreFinal == Spec => Lifecycle!DecisionsFinal
<1>1. SettledInv /\ [Lifecycle!Next]_(Lifecycle!vars) => Lifecycle!DecidedStays
  <2>1. ASSUME SettledInv, [Lifecycle!Next]_(Lifecycle!vars), NEW s \in Submissions,
               DecisionOf(s) # "pending"
        PROVE  SeenAsBefore(s)
    BY <2>1, LifecycleMoves, MoveSettles DEF SettledInv
  <2> QED
    BY <2>1 DEF Lifecycle!DecidedStays, SeenAsBefore, Phase
<1> QED
  BY <1>1, LifecycleImplemented, SettledInvariant, PTL
     DEF ImplementsLifecycle, Lifecycle!Spec, Lifecycle!DecisionsFinal
=============================================================================
