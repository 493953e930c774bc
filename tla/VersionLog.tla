------------------------------- MODULE VersionLog -------------------------------
(***************************************************************************)
(* What a reader of one agent's versions may rely on: a log that only      *)
(* grows at its end.  Version n is its n-th entry, has the content that was *)
(* uploaded for it, and is never changed, renumbered or removed.  The      *)
(* abstract specification of AgentManager.                                 *)
(***************************************************************************)
EXTENDS Naturals, Sequences

CONSTANT Uploads

VARIABLE published      \* the versions: whose upload each is, and what is stored for it

Init == published = <<>>

Publish(u) ==
  /\ \A n \in 1 .. Len(published) : published[n].upload # u
  /\ published' = Append(published, [upload |-> u, content |-> "stored"])

Spec == Init /\ [][\E u \in Uploads : Publish(u)]_published
=============================================================================
