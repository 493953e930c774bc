-------------------------------- MODULE KeptLease --------------------------------
(***************************************************************************)
(* One lease at the server and the keeper that lives off it, as the other  *)
(* workers may think of them: the abstract specification of LeaseKeeper.   *)
(* The keeper does not see the lease, nor the server what runs.            *)
(***************************************************************************)
EXTENDS KeeperContract

CONSTANT Lease      \* what a renewal makes of the lease, in ticks

VARIABLES
  lease,            \* what is left of it at the server; -1 once it may have ended
  keeper,           \* what the keeper promises
  running           \* whether a container of the job exists

keptVars == <<lease, keeper, running>>

Init == lease \in -1 .. Lease /\ keeper = Idle /\ running = FALSE

(* A renewal reaches the server while the lease is good.  The keeper may     *)
(* have given the request up, or have lost its job since.                    *)
Renewed ==
  /\ lease > 0
  /\ lease' = Lease
  /\ \/ UNCHANGED keeper
     \/ \E j \in Jobs : keeper.job \in {j, NoJob} /\ keeper' \in AfterRenewal(j)
  /\ UNCHANGED running

(* Containers are made and run only while the keeper lets them.              *)
Moved ==
  /\ keeper' \in AfterMove(keeper)
  /\ running' \in BOOLEAN /\ (running' => keeper' # Idle)
  /\ UNCHANGED lease

(* Time passes at both sides.                                                *)
Elapsed ==
  /\ lease' = IF lease >= 0 THEN lease - 1 ELSE lease
  /\ keeper' \in AfterTick(keeper)
  /\ running => keeper' # Idle
  /\ UNCHANGED running

Spec == Init /\ [][Renewed \/ Moved \/ Elapsed]_keptVars
=============================================================================
