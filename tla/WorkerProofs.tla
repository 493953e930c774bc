------------------------------ MODULE WorkerProofs ------------------------------
(***************************************************************************)
(* What Worker promises for any jobs and any number of faults of any kind: *)
(* no container is left where the next job could meet it, what the files   *)
(* say of a result is true at the server, and no result is overtaken.      *)
(***************************************************************************)
EXTENDS Worker, TLAPS

(* What is on the disk and at the server at each point of an evaluation.  It *)
(* is what a crash at that point leaves behind.                              *)
Stages ==
  /\ pc \in Evaluate => server[job] # "queued"
  /\ pc \in Leased => job \in folder
  /\ pc \in {"enter", "prepare", "execute", "running", "record"} => evidence[job] = "none"
  /\ pc = "enter" => container[job] = "none"
  /\ pc = "writing" => evidence[job] = "torn"
  /\ pc \in {"destroy", "upload", "receipt", "rename"} => evidence[job] = "pending"
  /\ pc = "clean" => evidence[job] = "accepted"
  /\ pc \in {"upload", "receipt", "rename", "clean"} => container[job] = "none"
  /\ pc \in {"receipt", "rename", "clean"} => server[job] = "accepted"
  /\ pc \in {"rename", "clean"} => job \in receipt

(* A job that was never given to this worker has left nothing here.          *)
Untouched ==
  \A j \in Jobs : server[j] = "queued" => j \notin folder /\ evidence[j] = "none"

(* Between two evaluations nothing runs and, once replayed, nothing waits.   *)
Idle ==
  /\ "system" \notin seen /\ pc \in {"startup", "replay", "claim"} =>
       \A j \in Jobs : container[j] = "none"
  /\ pc = "claim" => Unacknowledged = {}

(* The inductive invariant.  NoLeftovers needs Idle for the moment before an *)
(* evaluation, and Stages for those that end with Continue; EvidenceAgrees   *)
(* and OneResultAtATime need Stages and Untouched.                           *)
Kept ==
  NoLeftovers /\ EvidenceAgrees /\ OneResultAtATime /\ Stages /\ Untouched /\ Idle
WorkerInv == TypeOK /\ Kept

(* The types in three parts: the process, its faults, and what survives it.  *)
ProcessOK ==
  /\ pc \in PCs /\ stop \in BOOLEAN /\ cancel \in BOOLEAN /\ unclean \in BOOLEAN
  /\ job \in Jobs \union {NoJob}
  /\ (job = NoJob) <=> (pc \notin Evaluate)
FaultsOK == left \in 0 .. MaxFaults /\ seen \subseteq Faults
RestOK ==
  /\ folder \subseteq Jobs /\ receipt \subseteq Jobs /\ stray \subseteq Jobs
  /\ container \in [Jobs -> {"none", "stopped", "running"}]
  /\ evidence \in [Jobs -> {"none", "torn", "pending", "accepted", "rejected"}]
  /\ outcome \in [Jobs -> Outcomes \union {"none"}]
  /\ server \in [Jobs -> {"queued", "live", "accepted", "lapsed"}]
-----------------------------------------------------------------------------
Kinds == {"crash", "signal", "network", "lease", "docker", "system"}

(* One more fault keeps the count in its bound. *)
LEMMA FaultBound ==
  ASSUME FaultsOK, NEW f \in Kinds, Fault(f)
  PROVE  FaultsOK'
BY WorkerAssumption DEF FaultsOK, Fault

(* Every step has one fault or none. *)
LEMMA FaultsKept ==
  ASSUME FaultsOK, Next
  PROVE  FaultsOK'
<1>1. Fine \/ \E f \in Kinds : Fault(f)
  BY DEF Next, Step, Start, Recover, Replays, Claim, Enter, Prepare, Execute, Stop, Record,
         Written, Destroy, Upload, Acknowledge, Replay, Lost,
         Crash, Signal, LoseLease, StrayArrives, Lapse, Fine, Kinds
<1> QED
  BY <1>1, FaultBound DEF FaultsOK, Fine

(* The process is somewhere, and has a job exactly while it evaluates one.   *)
LEMMA ProcessKept ==
  ASSUME ProcessOK, Next
  PROVE  ProcessOK'
BY WorkerAssumption
   DEF ProcessOK, Evaluate, Leased, PCs, Goto, End, Continue, ReplayFails, OnCleanupError,
       Next, Step, Start, Recover, Replays, Claim, Enter, Prepare, Execute, Stop, Record,
       Written, Destroy, Upload, Acknowledge, Replay,
       Crash, Signal, LoseLease, StrayArrives, Lapse

(* Files, containers and the server's side keep their types. *)
LEMMA RestKept ==
  ASSUME ProcessOK, RestOK, Next
  PROVE  RestOK'
BY WorkerAssumption
   DEF RestOK, ProcessOK, Evaluate, Leased, PCs, Outcomes, Outcome, files, network,
       ReplayAccepted, ReplayRejected, ReplayLost, Receives, Lost, Clean,
       Next, Step, Start, Recover, Replays, Claim, Enter, Prepare, Execute, Stop, Record,
       Written, Destroy, Upload, Acknowledge, Replay,
       Crash, Signal, LoseLease, StrayArrives, Lapse

(* The three parts are the type invariant. *)
LEMMA TypesKept ==
  ASSUME TypeOK, Next
  PROVE  TypeOK'
<1>1. ProcessOK /\ FaultsOK /\ RestOK
  BY DEF TypeOK, ProcessOK, FaultsOK, RestOK
<1>2. ProcessOK' /\ FaultsOK' /\ RestOK'
  BY <1>1, ProcessKept, FaultsKept, RestKept
<1> QED
  BY <1>2 DEF TypeOK, ProcessOK, FaultsOK, RestOK
-----------------------------------------------------------------------------
(* Nothing runs and nothing is known yet.                                    *)
LEMMA InitialWorker == Init => WorkerInv
<1> SUFFICES ASSUME Init PROVE WorkerInv
  OBVIOUS
<1>1. ProcessOK
  BY WorkerAssumption DEF Init, ProcessOK, PCs, Evaluate
<1>2. FaultsOK
  BY WorkerAssumption DEF Init, FaultsOK
<1>3. RestOK
  BY DEF Init, RestOK, Outcomes
<1>4. TypeOK
  BY <1>1, <1>2, <1>3 DEF TypeOK, ProcessOK, FaultsOK, RestOK
<1>5. Kept
  BY DEF Init, Kept, NoLeftovers, EvidenceAgrees, OneResultAtATime, Stages, Untouched, Idle,
         Unacknowledged, Evaluate, Leased
<1> QED
  BY <1>4, <1>5 DEF WorkerInv

(* Every step keeps what the disk, the containers and the server say of each *)
(* other.  The steps that matter: Recover empties what a crash left, Replays *)
(* opens the way to a claim only when nothing waits, Destroy is the only way *)
(* to the upload, and Acknowledge works in the order of Stages.              *)
LEMMA WorkerStep ==
  ASSUME WorkerInv, Next
  PROVE  Kept'
<1> USE WorkerAssumption
    DEF WorkerInv, TypeOK, NoLeftovers, EvidenceAgrees, OneResultAtATime, Stages, Untouched,
        Idle, Unacknowledged, Evaluate, Leased, PCs, Outcomes, End, Continue, Goto, Fault, Fine,
        files, network, Kept
<1>1. CASE Start
  BY <1>1 DEF Start
<1>2. CASE Recover
  BY <1>2 DEF Recover
<1>3. CASE Replays
  BY <1>3 DEF Replays, Replayed
<1>4. CASE Claim
  BY <1>4 DEF Claim, MayBeGiven
<1>5. CASE Enter
  BY <1>5 DEF Enter
<1>6. CASE Prepare
  BY <1>6 DEF Prepare, Outcome
<1>7. CASE Execute
  BY <1>7 DEF Execute, Outcome
<1>8. CASE Stop
  BY <1>8 DEF Stop, Outcome
<1>9. CASE Record
  BY <1>9 DEF Record
<1>10. CASE Written
  BY <1>10 DEF Written
<1>11. CASE Destroy
  BY <1>11 DEF Destroy, OnCleanupError
<1>12. CASE Upload
  BY <1>12 DEF Upload, Receives, Accepts, Lost
<1>13. CASE Acknowledge
  BY <1>13 DEF Acknowledge, Clean
<1>14. CASE Crash
  BY <1>14 DEF Crash
<1>15. CASE Signal
  BY <1>15 DEF Signal
<1>16. CASE LoseLease
  BY <1>16 DEF LoseLease
<1>17. ASSUME NEW j \in Jobs, Replay(j) PROVE Kept'
  BY <1>17
     DEF Replay, ReplayFails, ReplayAccepted, ReplayRejected, ReplayLost, Receives, Accepts, Lost
<1>18. ASSUME NEW j \in Jobs, StrayArrives(j) PROVE Kept'
  BY <1>18 DEF StrayArrives, Receives
<1>19. ASSUME NEW j \in Jobs, Lapse(j) PROVE Kept'
  BY <1>19 DEF Lapse
<1> QED
  BY <1>1, <1>2, <1>3, <1>4, <1>5, <1>6, <1>7, <1>8, <1>9, <1>10, <1>11, <1>12, <1>13, <1>14,
     <1>15, <1>16, <1>17, <1>18, <1>19
     DEF Next, Step

(* The inductive invariant holds throughout. *)
THEOREM WorkerInvariant == Spec => []WorkerInv
<1>1. WorkerInv /\ [Next]_vars => WorkerInv'
  <2> SUFFICES ASSUME WorkerInv, [Next]_vars PROVE WorkerInv'
    OBVIOUS
  <2>1. CASE Next
    BY <2>1, TypesKept, WorkerStep DEF WorkerInv
  <2>2. CASE UNCHANGED vars
    BY <2>2
       DEF vars, WorkerInv, Kept, TypeOK, NoLeftovers, EvidenceAgrees, OneResultAtATime, Stages,
           Untouched, Idle, Unacknowledged
  <2> QED
    BY <2>1, <2>2
<1> QED
  BY InitialWorker, <1>1, PTL DEF Spec

(* The worker's state keeps its types, for any jobs and faults.              *)
THEOREM WorkerTypeCorrect == Spec => []TypeOK
<1>1. WorkerInv => TypeOK
  BY DEF WorkerInv
<1> QED
  BY WorkerInvariant, <1>1, PTL

(* No container is left running beside the next job, and each can be found   *)
(* through its workspace (evaluator/main.py recover_sandboxes).              *)
THEOREM NoLeftoversHolds == Spec => []NoLeftovers
<1>1. WorkerInv => NoLeftovers
  BY DEF WorkerInv, Kept
<1> QED
  BY WorkerInvariant, <1>1, PTL

(* A result file named accepted or rejected tells the truth about the server *)
(* (evaluator/main.py replay_pending).                                       *)
THEOREM EvidenceAgreesHolds == Spec => []EvidenceAgrees
<1>1. WorkerInv => EvidenceAgrees
  BY DEF WorkerInv, Kept
<1> QED
  BY WorkerInvariant, <1>1, PTL

(* Nothing is evaluated while another result waits for its answer.           *)
THEOREM OneResultAtATimeHolds == Spec => []OneResultAtATime
<1>1. WorkerInv => OneResultAtATime
  BY DEF WorkerInv, Kept
<1> QED
  BY WorkerInvariant, <1>1, PTL

(* A complete result stays until the server answered it, and a workspace     *)
(* until its result is accepted and its containers are gone.                 *)
THEOREM KeptUntilAnsweredHolds == Spec => KeptUntilAnswered
<1> DEFINE Keeps(j) ==
      /\ evidence[j] = "pending" => evidence'[j] \in {"pending", "accepted", "rejected"}
      /\ j \in folder /\ j \notin folder' => evidence[j] = "accepted" /\ container[j] = "none"
<1>1. WorkerInv /\ [Next]_vars => [\A j \in Jobs : Keeps(j)]_vars
  <2> SUFFICES ASSUME WorkerInv, Next, NEW j \in Jobs PROVE Keeps(j)
    OBVIOUS
  <2>1. evidence[j] = "pending" => evidence'[j] \in {"pending", "accepted", "rejected"}
    BY DEF WorkerInv, Kept, TypeOK, Stages, Evaluate, Leased,
           Next, Step, Start, Recover, Replays, Claim, Enter, Prepare, Execute, Stop, Record,
           Written, Destroy, Upload, Acknowledge, Clean, Replay, ReplayAccepted,
           ReplayRejected, ReplayLost, Crash, Signal, LoseLease, StrayArrives, Lapse, files
  <2>2. j \in folder /\ j \notin folder' => evidence[j] = "accepted" /\ container[j] = "none"
    BY DEF WorkerInv, Kept, TypeOK, Stages, Evaluate, Leased,
           Next, Step, Start, Recover, Replays, Claim, Enter, Prepare, Execute, Stop, Record,
           Written, Destroy, Upload, Acknowledge, Clean, Replay,
           Crash, Signal, LoseLease, StrayArrives, Lapse, files
  <2> QED
    BY <2>1, <2>2
<1> QED
  BY WorkerInvariant, <1>1, PTL DEF Spec, KeptUntilAnswered
-----------------------------------------------------------------------------
(* What has to go wrong before a promise of the documents is broken.         *)
GivenUp == {"lease", "signal"}
Interrupted == {"crash", "system"}

(* A job is cancelled, and a result says so, only after a lease was given up *)
(* or a signal came; and a result file is torn only while it is written, or  *)
(* after a crash or a failing operating system.                              *)
Causes ==
  /\ cancel => GivenUp \cap seen # {}
  /\ \A j \in Jobs :
       /\ outcome[j] = "cancelled" => GivenUp \cap seen # {}
       /\ evidence[j] = "torn" =>
            (pc = "writing" /\ job = j) \/ Interrupted \cap seen # {}

(* Every step keeps the causes: what was seen stays seen.                    *)
LEMMA CausesKept ==
  ASSUME WorkerInv, Causes, Next
  PROVE  Causes'
<1>1. seen \subseteq seen'
  BY DEF Next, Step, Start, Recover, Replays, Claim, Enter, Prepare, Execute, Stop, Record,
         Written, Destroy, Upload, Acknowledge, Replay, Lost,
         Crash, Signal, LoseLease, StrayArrives, Lapse, Fine, Fault
<1>2. cancel' => GivenUp \cap seen' # {}
  BY <1>1 DEF Causes, GivenUp, End, Continue, ReplayFails, Goto, OnCleanupError, Fault,
         Next, Step, Start, Recover, Replays, Claim, Enter, Prepare, Execute, Stop, Record,
         Written, Destroy, Upload, Acknowledge, Replay,
         Crash, Signal, LoseLease, StrayArrives, Lapse
<1>3. ASSUME NEW j \in Jobs, outcome'[j] = "cancelled"
      PROVE  GivenUp \cap seen' # {}
  BY <1>1, <1>3 DEF WorkerInv, TypeOK, Causes, GivenUp, Outcome, files,
         Next, Step, Start, Recover, Replays, Claim, Enter, Prepare, Execute, Stop, Record,
         Written, Destroy, Upload, Acknowledge, Replay,
         Crash, Signal, LoseLease, StrayArrives, Lapse
<1>4. ASSUME NEW j \in Jobs, evidence'[j] = "torn"
      PROVE  (pc' = "writing" /\ job' = j) \/ Interrupted \cap seen' # {}
  <2>1. CASE Written
    BY <1>1, <1>4, <2>1 DEF WorkerInv, TypeOK, Causes, Interrupted, Written
  <2>2. CASE Record
    BY <1>1, <1>4, <2>2
       DEF WorkerInv, TypeOK, Causes, Interrupted, Record, Goto, Continue, End, Fault
  <2>3. CASE Crash
    BY <2>3 DEF Interrupted, Crash, Fault
  <2>4. CASE Next /\ ~Written /\ ~Record /\ ~Crash
    BY <1>1, <1>4, <2>4
       DEF WorkerInv, TypeOK, Causes, Evaluate, Clean, ReplayAccepted, ReplayRejected, ReplayLost,
           End, Continue, ReplayFails, Goto, files, network,
           Next, Step, Start, Recover, Replays, Claim, Enter, Prepare, Execute, Stop,
           Destroy, Upload, Acknowledge, Replay, Signal, LoseLease, StrayArrives, Lapse
  <2> QED
    BY <2>1, <2>2, <2>3, <2>4
<1> QED
  BY <1>2, <1>3, <1>4 DEF Causes

(* So a cancelled or torn result has its cause, whatever else happened.      *)
THEOREM CausesHold == Spec => []Causes
<1>1. Init => Causes
  BY DEF Init, Causes
<1>2. WorkerInv /\ Causes /\ [Next]_vars => Causes'
  <2>1. ASSUME Causes, UNCHANGED vars PROVE Causes'
    BY <2>1 DEF Causes, vars
  <2> QED
    BY <2>1, CausesKept
<1> QED
  BY <1>1, <1>2, WorkerInvariant, PTL DEF Spec

(* docs/evaluation-flow.md, as far as it is kept: a result that counts says  *)
(* "cancelled" only if the worker gave up a lease or was told to stop.       *)
THEOREM RetriedUnlessGivenUp ==
  Spec => [](GivenUp \cap seen = {} => LostLeaseRetried)
<1>1. Causes => (GivenUp \cap seen = {} => LostLeaseRetried)
  BY DEF Causes, LostLeaseRetried
<1> QED
  BY <1>1, CausesHold, PTL

(* docker_sandbox.py, as far as it is kept: while the operating system runs  *)
(* docker, nothing is evaluated beside a container that could not be stopped,*)
(* however often Docker itself fails, the worker crashes or is told to stop. *)
THEOREM FailClosedUnlessSystemFails ==
  Spec => []("system" \notin seen => FailClosed)
<1>1. WorkerInv => ("system" \notin seen => FailClosed)
  BY DEF WorkerInv, Kept, NoLeftovers, FailClosed, Leased
<1> QED
  BY <1>1, WorkerInvariant, PTL
=============================================================================
