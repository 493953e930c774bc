----------------------------- MODULE KeeperContract -----------------------------
(***************************************************************************)
(* What a LeaseKeeper promises to whoever shares the server with it: the   *)
(* job it lets run, and the ticks within which what runs has certainly been *)
(* killed unless another renewal comes.  LeaseKeeper is shown to keep this  *)
(* promise (KeptLease), and Fleet has one such keeper at every worker.      *)
(***************************************************************************)
EXTENDS Integers

CONSTANTS
  Jobs,
  NoJob,        \* of a keeper that lets nothing run
  Hold          \* from sending a renewal to the confirmed end of what runs
                \* under it: Safe + Stop of LeaseKeeper

Idle == [job |-> NoJob, left |-> 0]
Keepers == {Idle} \union [job : Jobs, left : 0 .. Hold]

(* A renewal of j by its keeper, or by one that had not entered yet: what    *)
(* runs may go on for what is left of Hold since the renewal was sent,       *)
(* however late the answer is.                                               *)
AfterRenewalOnArrival(j) == [job : {j}, left : {Hold + 1}]
AfterRenewal(j) == [job : {j}, left : 0 .. Hold]

(* A step of the worker's that takes no time: the job ends for whatever      *)
(* reason, or what the keeper allows gets shorter (it cancels, or an answer  *)
(* it could have accepted is lost).                                          *)
AfterMove(k) == {Idle} \union [job : {k.job}, left : 0 .. k.left]

(* The watchdog cancels, and the cancelled container is killed, in time.     *)
AfterTickTooLong(k) == {Idle} \union [job : {k.job}, left : 0 .. k.left]
AfterTick(k) == {Idle} \union [job : {k.job}, left : 0 .. k.left - 1]
=============================================================================
