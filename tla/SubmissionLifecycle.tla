------------------------- MODULE SubmissionLifecycle -------------------------
(***************************************************************************)
(* What the API promises whoever submits an agent, whatever workers, the   *)
(* network and the clock do: a submission is tried at most MaxAttempts     *)
(* times, one attempt after the other; an attempt whose outcome is unknown *)
(* (its lease expired) or says nothing of the agent (the infrastructure    *)
(* failed) is tried again; the first attempt that yields a verdict is the  *)
(* last; and what was decided stays decided.                               *)
(* The state is what the dashboard and GET /runner-jobs show: the latest   *)
(* attempt of each submission (apps/api/agentbenchx/main.py).              *)
(***************************************************************************)
EXTENDS Integers

CONSTANTS Submissions, MaxAttempts

VARIABLES
  attempt,   \* the latest attempt's number, 0 before the submission exists
  phase,     \* where that attempt is
  decision   \* how the submission ended

vars == <<attempt, phase, decision>>

Phases == {"unsubmitted", "queued", "running", "ended"}
Decisions == {"pending", "verdict", "exhausted"}

TypeOK ==
  /\ attempt \in [Submissions -> 0 .. MaxAttempts]
  /\ phase \in [Submissions -> Phases]
  /\ decision \in [Submissions -> Decisions]

Init ==
  /\ attempt = [s \in Submissions |-> 0]
  /\ phase = [s \in Submissions |-> "unsubmitted"]
  /\ decision = [s \in Submissions |-> "pending"]

(* Any number of submissions arrive in one commit. *)
Submit(asked) ==
  /\ \A s \in asked : phase[s] = "unsubmitted"
  /\ attempt' = [s \in Submissions |-> IF s \in asked THEN 1 ELSE attempt[s]]
  /\ phase' = [s \in Submissions |-> IF s \in asked THEN "queued" ELSE phase[s]]
  /\ UNCHANGED decision

Start(s) ==
  /\ phase[s] = "queued"
  /\ phase' = [phase EXCEPT ![s] = "running"]
  /\ UNCHANGED <<attempt, decision>>

Decide(s) ==
  /\ phase[s] = "running"
  /\ phase' = [phase EXCEPT ![s] = "ended"]
  /\ decision' = [decision EXCEPT ![s] = "verdict"]
  /\ UNCHANGED attempt

(* Some running attempts end without a verdict: each is tried again while the *)
(* limit allows it, and given up only at the limit.                           *)
EndWithoutVerdict(lost) ==
  LET again == {s \in lost : attempt[s] < MaxAttempts}
  IN /\ \A s \in lost : phase[s] = "running"
     /\ attempt' = [s \in Submissions |-> IF s \in again THEN attempt[s] + 1 ELSE attempt[s]]
     /\ phase' = [s \in Submissions |->
          IF s \in again THEN "queued" ELSE IF s \in lost THEN "ended" ELSE phase[s]]
     /\ decision' = [s \in Submissions |->
          IF s \in lost \ again THEN "exhausted" ELSE decision[s]]

Next ==
  \/ \E asked \in SUBSET Submissions : Submit(asked)
  \/ \E s \in Submissions : Start(s) \/ Decide(s)
  \/ \E lost \in SUBSET Submissions : EndWithoutVerdict(lost)

Spec == Init /\ [][Next]_vars
-----------------------------------------------------------------------------
(* A submission is decided exactly when its last attempt has ended, and is   *)
(* given up only after all the attempts it may have                          *)
(* (apps/api/agentbenchx/services.py: reap and result).                      *)
Settled ==
  \A s \in Submissions :
    /\ phase[s] = "unsubmitted" <=> attempt[s] = 0
    /\ phase[s] = "ended" <=> decision[s] # "pending"
    /\ decision[s] = "exhausted" => attempt[s] = MaxAttempts

(* What a client was told in the end is never taken back, and no further     *)
(* attempt follows it.                                                       *)
DecidedStays ==
  \A s \in Submissions : decision[s] # "pending" =>
    UNCHANGED <<attempt[s], phase[s], decision[s]>>

DecisionsFinal == [][DecidedStays]_vars
=============================================================================
