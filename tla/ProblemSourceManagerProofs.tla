---------------------- MODULE ProblemSourceManagerProofs ----------------------
(***************************************************************************)
(* What ProblemSourceManager promises for any set of syncs and commits and *)
(* any number of faults.                                                   *)
(***************************************************************************)
EXTENDS ProblemSourceManager, TLAPS

(* The inductive invariant.  A sync inserts versions only after it pinned    *)
(* their commit, with the lock or without; and while it holds the lock       *)
(* nobody else inserts any, so that what it read stays true.                 *)
PinnedFirst ==
  /\ pins \subseteq objects
  /\ versions \subseteq pins
  /\ \A s \in Syncs : pc[s] \in {"select", "commit"} => sha[s] \in pins
WorksWithLock ==
  /\ \A s \in holds : pc[s] \in Steps
  /\ \A s \in Syncs : pc[s] = "commit" /\ ~read[s] => sha[s] \in versions \union Empty
  /\ \A s \in Syncs : pc[s] = "commit" /\ read[s] => sha[s] \notin Empty
SourceInv ==
  /\ TypeOK
  /\ PinnedFirst
  /\ WorksWithLock
  /\ StatusDescribesCommit
  /\ LockedReadHolds

(* A source that was never synchronised satisfies it.                        *)
LEMMA InitialSource == Init => SourceInv
BY SourceAssumption DEF Init, SourceInv, TypeOK, PinnedFirst, WorksWithLock,
   StatusDescribesCommit, LockedReadHolds, Steps

(* A git command changes no table, and of the locks at most its own.         *)
LEMMA GitStepKeeps ==
  ASSUME SourceInv, NEW s \in Syncs,
         \/ InitRepository(s) \/ AddRemote(s) \/ Fetch(s) \/ Resolve(s) \/ Pin(s)
  PROVE  SourceInv'
<1> USE SourceAssumption DEF Git, Goto, Rollback, Fault, Fine, mirror, tables, SourceInv, TypeOK
<1>1. UNCHANGED <<tables, read, upstream>> /\ holds' \subseteq holds
  BY DEF InitRepository, AddRemote, Fetch, Resolve, Pin
<1>2. \A t \in Syncs \ {s} : pc'[t] = pc[t] /\ sha'[t] = sha[t]
  BY DEF InitRepository, AddRemote, Fetch, Resolve, Pin
<1>3. pc'[s] \in {"remote", "fetch", "resolve", "pin", "select", "failed"}
  BY DEF InitRepository, AddRemote, Fetch, Resolve, Pin
<1>4. s \in holds' => pc'[s] # "failed"
  BY DEF InitRepository, AddRemote, Fetch, Resolve, Pin
<1>5. TypeOK'
  BY DEF InitRepository, AddRemote, Fetch, Resolve, Pin, PinCommit, Steps
<1>6. pins \subseteq pins' /\ objects \subseteq objects' /\ pins' \subseteq objects'
  BY DEF InitRepository, AddRemote, Fetch, Resolve, Pin, PinCommit, PinnedFirst
<1>7. pc'[s] = "select" => sha'[s] \in pins'
  BY DEF InitRepository, AddRemote, Fetch, Resolve, Pin, PinCommit
<1>8. PinnedFirst'
  BY <1>1, <1>2, <1>3, <1>6, <1>7 DEF PinnedFirst
<1>9. WorksWithLock' /\ LockedReadHolds'
  BY <1>1, <1>2, <1>3, <1>4 DEF WorksWithLock, LockedReadHolds, Steps
<1> QED
  BY <1>1, <1>5, <1>8, <1>9 DEF StatusDescribesCommit

(* A commit inserts the versions of a pinned commit, while it holds the lock *)
(* that nobody else can then hold.                                           *)
LEMMA CommitKeeps ==
  ASSUME SourceInv, NEW s \in Syncs, Commit(s)
  PROVE  SourceInv'
<1> USE SourceAssumption DEF Goto, Rollback, Fault, Fine, mirror, tables, SourceInv
<1>1. TypeOK'
  BY DEF Commit, TypeOK, StatusOf, PinnedFirst
<1>2. PinnedFirst'
  BY DEF Commit, PinnedFirst, TypeOK
<1>3. WorksWithLock'
  BY DEF Commit, WorksWithLock, TypeOK, Steps
<1>4. StatusDescribesCommit'
  BY DEF Commit, StatusDescribesCommit, WorksWithLock, StatusOf, TypeOK
<1>5. LockedReadHolds'
  BY DEF Commit, LockedReadHolds, TypeOK
<1> QED
  BY <1>1, <1>2, <1>3, <1>4, <1>5

(* Every other step.                                                         *)
LEMMA SourceStep == SourceInv /\ [Next]_vars => SourceInv'
<1> SUFFICES ASSUME SourceInv, [Next]_vars PROVE SourceInv'
  OBVIOUS
<1> USE SourceAssumption
<1> USE DEF Goto, Rollback, Fault, Fine, mirror, tables, SourceInv, TypeOK, PinnedFirst,
        WorksWithLock, StatusDescribesCommit, LockedReadHolds, Steps
<1>1. ASSUME NEW s \in Syncs, Begin(s) PROVE SourceInv'
  BY <1>1 DEF Begin, LockFree
<1>2. ASSUME NEW s \in Syncs, Open(s) PROVE SourceInv'
  BY <1>2 DEF Open, AfterOpen
<1>3. ASSUME NEW s \in Syncs, Select(s) PROVE SourceInv'
  <2>1. CASE s \in holds
    <3>1. read' \in [Syncs -> BOOLEAN] /\ \A t \in Syncs \ {s} : read'[t] = read[t]
      BY <1>3, <2>1 DEF Select
    <3>2. read'[s] <=> sha[s] \notin versions \union Empty
      BY <1>3, <2>1 DEF Select
    <3>3. pc' = [pc EXCEPT ![s] = "commit"] /\ UNCHANGED <<holds, upstream, repo, head, pins,
            objects, versions, status, last, sha, left>>
      BY <1>3, <2>1 DEF Select
    <3> QED
      BY <1>3, <3>1, <3>2, <3>3 DEF Select
  <2>2. CASE s \notin holds
    BY <1>3, <2>2 DEF Select
  <2> QED
    BY <2>1, <2>2
<1>4. ASSUME NEW s \in Syncs, ReadStatus(s) PROVE SourceInv'
  BY <1>4 DEF ReadStatus
<1>5. ASSUME NEW s \in Syncs, MarkFailed(s) PROVE SourceInv'
  BY <1>5 DEF MarkFailed
<1>6. ASSUME NEW s \in Syncs, Crash(s) PROVE SourceInv'
  BY <1>6 DEF Crash
<1>7. ASSUME NEW s \in Syncs, LoseConnection(s) PROVE SourceInv'
  BY <1>7 DEF LoseConnection
<1>8. ASSUME NEW c \in Commits, Push(c) PROVE SourceInv'
  BY <1>8 DEF Push
<1>9. CASE Collect
  BY <1>9 DEF Collect
<1>10. CASE UNCHANGED vars
  BY <1>10 DEF vars
<1> QED
  BY <1>1, <1>2, <1>3, <1>4, <1>5, <1>6, <1>7, <1>8, <1>9, <1>10, GitStepKeeps, CommitKeeps
  DEF Next, SyncStep

(* The invariant holds in every behaviour.                                   *)
THEOREM SourceInvariant == Spec => []SourceInv
BY InitialSource, SourceStep, PTL DEF Spec

(* The mirror and the tables keep their types, and the row lock one holder.  *)
THEOREM SourceTypeCorrect == Spec => []TypeOK
<1>1. SourceInv => TypeOK
  BY DEF SourceInv
<1> QED
  BY <1>1, SourceInvariant, PTL

(* No force-push, garbage collection, crash or concurrent sync makes the     *)
(* commit of a version unreachable.                                          *)
THEOREM HistoryReachableHolds == Spec => []HistoryReachable
<1>1. SourceInv => HistoryReachable
  BY DEF SourceInv, PinnedFirst, HistoryReachable
<1> QED
  BY <1>1, SourceInvariant, PTL

(* READY and EMPTY are true of the last commit.                              *)
THEOREM StatusDescribesCommitHolds == Spec => []StatusDescribesCommit
<1>1. SourceInv => StatusDescribesCommit
  BY DEF SourceInv
<1> QED
  BY <1>1, SourceInvariant, PTL

(* What a sync reads under the row lock stays so until it commits.           *)
THEOREM LockedReadHoldsAlways == Spec => []LockedReadHolds
<1>1. SourceInv => LockedReadHolds
  BY DEF SourceInv
<1> QED
  BY <1>1, SourceInvariant, PTL
-----------------------------------------------------------------------------
(* What the next Git command of a sync needs is there, whatever the syncs    *)
(* beside it, pushes and garbage collections do: a branch once fetched names *)
(* a commit whose objects stay, and so do those of a commit being pinned.    *)
MirrorReady ==
  /\ head # NoCommit => head \in objects
  /\ \A s \in Syncs : pc[s] = "resolve" => head # NoCommit
  /\ \A s \in Syncs : pc[s] = "pin" => sha[s] \in objects

(* The places of a sync from its fetch on.                                   *)
Synchronising == {"fetch", "resolve", "pin", "select", "commit"}

(* Every step keeps it; Collect, because it spares the branch and the        *)
(* commits of the syncs under way.                                           *)
LEMMA MirrorStaysReady == SourceInv /\ MirrorReady /\ [Next]_vars => MirrorReady'
<1> SUFFICES ASSUME SourceInv, MirrorReady, [Next]_vars PROVE MirrorReady'
  OBVIOUS
<1> USE SourceAssumption
    DEF MirrorReady, SourceInv, TypeOK, Goto, Rollback, Fault, Fine, mirror, tables, Steps
<1>1. ASSUME NEW s \in Syncs, InitRepository(s) \/ AddRemote(s) PROVE MirrorReady'
  BY <1>1 DEF InitRepository, AddRemote, Git
<1>2. ASSUME NEW s \in Syncs, Fetch(s) PROVE MirrorReady'
  BY <1>2 DEF Fetch, Git
<1>3. ASSUME NEW s \in Syncs, Resolve(s) PROVE MirrorReady'
  BY <1>3 DEF Resolve, Git
<1>4. ASSUME NEW s \in Syncs, Pin(s) PROVE MirrorReady'
  BY <1>4 DEF Pin, PinCommit, Git
<1>5. CASE Collect
  BY <1>5 DEF Collect
<1>6. ASSUME NEW s \in Syncs,
             \/ Begin(s) \/ Open(s) \/ Select(s) \/ Commit(s) \/ ReadStatus(s) \/ MarkFailed(s)
             \/ Crash(s) \/ LoseConnection(s)
      PROVE  MirrorReady'
  BY <1>6 DEF Begin, Open, AfterOpen, Select, Commit, ReadStatus, MarkFailed, Crash,
              LoseConnection
<1>7. ASSUME NEW c \in Commits, Push(c) PROVE MirrorReady'
  BY <1>7 DEF Push
<1>8. CASE UNCHANGED vars
  BY <1>8 DEF vars
<1> QED
  BY <1>1, <1>2, <1>3, <1>4, <1>5, <1>6, <1>7, <1>8 DEF Next, SyncStep

(* The safety half of FaultlessSyncSucceeds: once the mirror has its origin, *)
(* a sync that keeps its row lock fails only if Git, the database or the     *)
(* process does, and never because of what another sync did (git_sources.py).*)
THEOREM OnlyFaultsFailSyncs ==
  Spec => [][\A s \in Syncs :
               (s \in holds /\ repo = "remote" /\ pc[s] \in Synchronising /\ pc'[s] = "failed")
               => left' = left - 1]_vars
<1> DEFINE FailsByFault(s) ==
      (s \in holds /\ repo = "remote" /\ pc[s] \in Synchronising /\ pc'[s] = "failed")
      => left' = left - 1
<1>1. Init => MirrorReady
  BY DEF Init, MirrorReady
<1>2. SourceInv /\ MirrorReady /\ [Next]_vars => [\A s \in Syncs : FailsByFault(s)]_vars
  <2> SUFFICES ASSUME SourceInv, MirrorReady, Next, NEW s \in Syncs,
                      s \in holds, repo = "remote", pc[s] \in Synchronising, pc'[s] = "failed"
               PROVE  left' = left - 1
    OBVIOUS
  <2> USE SourceAssumption DEF SourceInv, TypeOK, Synchronising, Goto, Fault, Steps
  <2>1. CASE Fetch(s) \/ Resolve(s) \/ Pin(s)
    BY <2>1 DEF Fetch, Resolve, Pin, Git, MirrorReady, Rollback
  <2>2. CASE Select(s)
    BY <2>2 DEF Select
  <2>3. CASE Commit(s)
    BY <2>3 DEF Commit, LockedReadHolds
  <2>4. ASSUME NEW t \in Syncs, t # s,
               SyncStep(t) \/ Begin(t) \/ Crash(t) \/ LoseConnection(t)
        PROVE  FALSE
    <3>1. pc'[s] = pc[s]
      BY <2>4 DEF SyncStep, Begin, Crash, LoseConnection, Open, InitRepository, AddRemote, Fetch,
                  Resolve, Pin, Git, Rollback, Select, Commit, ReadStatus, MarkFailed
    <3> QED
      BY <3>1
  <2>5. CASE \/ Begin(s) \/ Open(s) \/ InitRepository(s) \/ AddRemote(s) \/ ReadStatus(s)
             \/ MarkFailed(s) \/ Crash(s) \/ LoseConnection(s)
    BY <2>5 DEF Begin, Open, InitRepository, AddRemote, Git, ReadStatus, MarkFailed, Crash,
                LoseConnection
  <2>6. CASE Collect \/ \E c \in Commits : Push(c)
    BY <2>6 DEF Collect, Push
  <2> QED
    BY <2>1, <2>2, <2>3, <2>4, <2>5, <2>6 DEF Next, SyncStep
<1> QED
  BY <1>1, <1>2, MirrorStaysReady, SourceInvariant, PTL DEF Spec
=============================================================================
