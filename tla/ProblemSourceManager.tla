------------------------- MODULE ProblemSourceManager -------------------------
(***************************************************************************)
(* Synchronising one problem source: class ProblemSourceManager and the    *)
(* Git mirror GitRepositoryManager keeps for it (apps/api/agentbenchx/     *)
(* git_sources.py).  Sync requests overlap; the source's row lock keeps    *)
(* their work on the mirror and the tables apart, until a process dies or  *)
(* loses its database connection and with it the lock.  The mirror is a    *)
(* directory and survives everything.                                      *)
(*                                                                         *)
(* Sources have a row, a directory and versions of their own each (URLs    *)
(* are unique), so one source says it all.  It has one branch, which is    *)
(* its default_branch.  (A source without one would resolve the HEAD that  *)
(* init --bare made up.)  Upstream may be force-pushed at any time, and no *)
(* commit is an ancestor of another: what no ref names is unreachable.     *)
(* The rows of a commit's problems are inserted together, and stand for    *)
(* one version here.                                                       *)
(*                                                                         *)
(* Operators that Next does not use (PinNothing, ...) are slips this code  *)
(* could have made; PROJECT.json says which property each of them breaks.  *)
(***************************************************************************)
EXTENDS Naturals, FiniteSets

CONSTANTS
  Syncs,      \* requests that may run at the same time
  Commits,
  Empty,      \* the commits in which no valid problem is found
  NoCommit,   \* a ref or a column that is not set
  MaxFaults   \* bound: how often Git, the database or a process fails

ASSUME SourceAssumption ==
  /\ Empty \subseteq Commits
  /\ NoCommit \notin Commits
  /\ MaxFaults \in Nat

VARIABLES
  upstream,   \* the commit of the branch at its host
  repo,       \* the directory: "absent", "bare" (initialised) or "remote" (with its origin)
  head,       \* refs/heads/<branch> of the mirror
  pins,       \* its refs/agentbenchx/<sha>
  objects,    \* the commits it has the objects of
  versions,   \* the commits with rows in problem_versions
  status,     \* problem_sources.sync_status
  last,       \* problem_sources.last_commit_sha
  holds,      \* the syncs that hold the source's row lock
  pc,         \* where each sync is
  sha,        \* the commit it synchronises
  read,       \* what it read before its next write to the database
  left        \* how many faults may still happen

mirror == <<repo, head, pins, objects>>
tables == <<versions, status, last>>
vars == <<upstream, repo, head, pins, objects, versions, status, last,
          holds, pc, sha, read, left>>

Steps == {"open", "init", "remote", "fetch", "resolve", "pin", "select", "commit"}

(* This is the type invariant of the mirror and the tables; a row lock has   *)
(* one holder.                                                               *)
TypeOK ==
  /\ upstream \in Commits
  /\ repo \in {"absent", "bare", "remote"}
  /\ head \in Commits \union {NoCommit}
  /\ pins \subseteq Commits /\ objects \subseteq Commits /\ versions \subseteq Commits
  /\ status \in {"PENDING", "READY", "EMPTY", "FAILED"}
  /\ last \in Commits \union {NoCommit}
  /\ holds \subseteq Syncs /\ \A s, t \in holds : s = t
  /\ pc \in [Syncs -> Steps \union {"idle", "failed", "mark"}]
  /\ sha \in [Syncs -> Commits \union {NoCommit}]
  /\ read \in [Syncs -> BOOLEAN]
  /\ left \in 0 .. MaxFaults

Init ==
  /\ upstream \in Commits
  /\ repo = "absent" /\ head = NoCommit /\ pins = {} /\ objects = {}
  /\ versions = {} /\ status = "PENDING" /\ last = NoCommit
  /\ holds = {}
  /\ pc = [s \in Syncs |-> "idle"]
  /\ sha = [s \in Syncs |-> NoCommit]
  /\ read = [s \in Syncs |-> FALSE]
  /\ left = MaxFaults
-----------------------------------------------------------------------------
Fault == left > 0 /\ left' = left - 1
Fine == UNCHANGED left
Goto(s, step) == pc' = [pc EXCEPT ![s] = step]

(* An exception: the rollback releases the row lock before FAILED is written. *)
Rollback(s) == holds' = holds \ {s} /\ Goto(s, "failed")

(* The row is locked, and stays so until the commit or the rollback.         *)
LockFreely == TRUE
LockFree == holds = {}

Begin(s) ==
  /\ pc[s] = "idle"
  /\ LockFree
  /\ holds' = holds \union {s}
  /\ Goto(s, "open")
  /\ UNCHANGED <<upstream, mirror, tables, sha, read, left>>

(* A directory that exists counts as a clone, however the clone ended.       *)
AfterOpenCloning == "init"
AfterOpen == IF repo = "absent" THEN "init" ELSE "fetch"

Open(s) ==
  /\ pc[s] = "open"
  /\ Goto(s, AfterOpen)
  /\ UNCHANGED <<upstream, mirror, tables, holds, sha, read, left>>

(* A git command does its work or fails for want of what it needs; a fault   *)
(* makes it fail (the network, the disk, 120 s), before or after its effect. *)
Git(s, step, next, works, Effect) ==
  /\ pc[s] = step
  /\ \/ /\ works /\ Effect
        /\ \/ Goto(s, next) /\ Fine /\ UNCHANGED holds
           \/ Fault /\ Rollback(s)
     \/ /\ UNCHANGED mirror /\ Rollback(s)
        /\ IF works THEN Fault ELSE Fine
  /\ UNCHANGED <<upstream, tables, read>>

InitRepository(s) ==
  /\ Git(s, "init", "remote", TRUE,
         /\ repo' = IF repo = "absent" THEN "bare" ELSE repo
         /\ UNCHANGED <<head, pins, objects>>)
  /\ UNCHANGED sha

AddRemote(s) ==
  /\ Git(s, "remote", "fetch", repo = "bare",
         repo' = "remote" /\ UNCHANGED <<head, pins, objects>>)
  /\ UNCHANGED sha

Fetch(s) ==
  /\ Git(s, "fetch", "resolve", repo = "remote",
         /\ head' = upstream /\ objects' = objects \union {upstream}
         /\ UNCHANGED <<repo, pins>>)
  /\ UNCHANGED sha

(* The branch is resolved, and the problems of its commit are discovered.    *)
Resolve(s) ==
  /\ Git(s, "resolve", "pin", head \in objects, UNCHANGED mirror)
  /\ sha' = [sha EXCEPT ![s] = head]

PinNothing(s) == UNCHANGED pins
PinCommit(s) == pins' = pins \union {sha[s]}

Pin(s) ==
  /\ Git(s, "pin", "select", sha[s] \in objects,
         PinCommit(s) /\ UNCHANGED <<repo, head, objects>>)
  /\ UNCHANGED sha

(* Which of its problems have a version already.                             *)
Select(s) ==
  /\ pc[s] = "select"
  /\ IF s \in holds
       THEN /\ read' = [read EXCEPT ![s] = sha[s] \notin versions \union Empty]
            /\ Goto(s, "commit") /\ UNCHANGED holds
       ELSE Rollback(s) /\ UNCHANGED read
  /\ UNCHANGED <<upstream, mirror, tables, sha, left>>

(* READY says that problems were found, not that versions are new.           *)
StatusIfCreated(s) == IF read[s] THEN "READY" ELSE "EMPTY"
StatusOf(s) == IF sha[s] \notin Empty THEN "READY" ELSE "EMPTY"

(* The commit: it needs the connection, and (url, commit, path) is unique.   *)
(* Its answer may be lost, which is an exception too.                        *)
Commit(s) ==
  /\ pc[s] = "commit"
  /\ \/ /\ s \in holds /\ ~(read[s] /\ sha[s] \in versions)
        /\ versions' = IF read[s] THEN versions \union {sha[s]} ELSE versions
        /\ status' = StatusOf(s)
        /\ last' = sha[s]
        /\ holds' = holds \ {s}
        /\ \/ Goto(s, "idle") /\ Fine
           \/ Goto(s, "failed") /\ Fault
     \/ /\ Rollback(s) /\ UNCHANGED tables
        /\ IF s \in holds /\ ~(read[s] /\ sha[s] \in versions) THEN Fault ELSE Fine
  /\ UNCHANGED <<upstream, mirror, sha, read>>

(* The exception handler reads the row again, without a lock, and updates it *)
(* only if that changes it: an UPDATE waits for whoever holds the lock.      *)
ReadStatus(s) ==
  /\ pc[s] = "failed"
  /\ read' = [read EXCEPT ![s] = status = "FAILED"]
  /\ Goto(s, "mark")
  /\ UNCHANGED <<upstream, mirror, tables, holds, sha, left>>

MarkFailed(s) ==
  /\ pc[s] = "mark"
  /\ read[s] \/ holds = {}
  /\ status' = IF read[s] THEN status ELSE "FAILED"
  /\ Goto(s, "idle")
  /\ UNCHANGED <<upstream, mirror, versions, last, holds, sha, read, left>>
-----------------------------------------------------------------------------
(* The API process that runs a sync dies, or loses its database connection.  *)
Crash(s) ==
  /\ pc[s] # "idle"
  /\ Fault
  /\ holds' = holds \ {s}
  /\ Goto(s, "idle")
  /\ UNCHANGED <<upstream, mirror, tables, sha, read>>

LoseConnection(s) ==
  /\ s \in holds
  /\ Fault
  /\ holds' = holds \ {s}
  /\ UNCHANGED <<upstream, mirror, tables, pc, sha, read>>

(* A push, possibly forced.                                                  *)
Push(c) ==
  /\ c # upstream
  /\ upstream' = c
  /\ UNCHANGED <<mirror, tables, holds, pc, sha, read, left>>

(* git fetch collects garbage once in a while: objects no ref names and no   *)
(* sync has touched lately (two weeks, longer than any sync) are removed.    *)
Collect ==
  LET kept == pins \union {head} \union {sha[s] : s \in {t \in Syncs : pc[t] # "idle"}}
  IN /\ ~(objects \subseteq kept)
     /\ objects' = objects \intersect kept
     /\ UNCHANGED <<upstream, repo, head, pins, tables, holds, pc, sha, read, left>>
-----------------------------------------------------------------------------
SyncStep(s) ==
  \/ Open(s) \/ InitRepository(s) \/ AddRemote(s) \/ Fetch(s) \/ Resolve(s) \/ Pin(s)
  \/ Select(s) \/ Commit(s) \/ ReadStatus(s) \/ MarkFailed(s)

Next ==
  \/ \E s \in Syncs : Begin(s) \/ SyncStep(s) \/ Crash(s) \/ LoseConnection(s)
  \/ \E c \in Commits : Push(c)
  \/ Collect

Spec == Init /\ [][Next]_vars

(* Fairness: a sync that began goes on; every git command ends within its    *)
(* timeout.  Nobody has to ask for another.                                  *)
FairSpec == Spec /\ \A s \in Syncs : WF_vars(SyncStep(s))
-----------------------------------------------------------------------------
(* The mirror has the objects of every commit a version names, whatever was  *)
(* force-pushed, pruned, cut short or synchronised at the same time          *)
(* (docs/problem-sources.md: fetch and force-pushes cannot make historical   *)
(* objects unreachable).                                                     *)
HistoryReachable == versions \subseteq objects

(* What the source's row says of its last commit is so: READY means there    *)
(* are versions of it to submit to, EMPTY that there is nothing in it.       *)
StatusDescribesCommit ==
  /\ status = "READY" => last \in versions
  /\ status = "EMPTY" => last \in Empty

(* What a sync read under the row lock is still so when it commits: syncs    *)
(* never run into the uniqueness of each other's versions.                   *)
LockedReadHolds ==
  \A s \in Syncs : s \in holds /\ pc[s] = "commit" =>
    (read[s] <=> sha[s] \notin versions \union Empty)

(* Once faults have stopped, a sync of a mirror that was completely set up   *)
(* succeeds, whatever was left of the syncs before it.  (A mirror whose      *)
(* clone was cut short before it had its origin never does.)                 *)
FaultlessSyncSucceeds ==
  \A s \in Syncs :
    pc[s] = "open" /\ s \in holds /\ left = 0 /\ repo = "remote" ~> status \in {"READY", "EMPTY"}
=============================================================================
