----------------------------- MODULE AgentManager -----------------------------
(***************************************************************************)
(* Uploading versions of one agent: AgentManager.upload (apps/api/         *)
(* agentbenchx/services.py), the put() of both storage backends            *)
(* (storage.py) and the route (main.py).  The route is a coroutine: its    *)
(* upload runs, locks rows and stores objects on the event loop of its     *)
(* process, where nothing else happens meanwhile.  Uploads in other        *)
(* processes overlap with it; the Agent row lock orders them.              *)
(*                                                                         *)
(* The object is stored before its row is committed, and nothing undoes it *)
(* if the commit fails: each upload has a key of its own (a fresh UUID),   *)
(* so what is left behind is never read.                                   *)
(*                                                                         *)
(* Operators that Next does not use (LockFreely, ...) are slips this code  *)
(* could have made; PROJECT.json says which property each of them breaks.  *)
(***************************************************************************)
EXTENDS Integers, FiniteSets, FiniteSetsExt

CONSTANTS
  Uploads,    \* requests to upload, valid or not
  Processes,  \* API processes, each with one event loop
  Backends,   \* of "local" and "s3": what STORAGE_BACKEND may be
  MaxFaults   \* bound: how often storage, the database or a process fails

ASSUME AgentAssumption ==
  /\ IsFiniteSet(Uploads)
  /\ Backends \subseteq {"local", "s3"}
  /\ MaxFaults \in Nat

VARIABLES
  backend,   \* the configured storage backend
  home,      \* the process that serves each upload
  object,    \* the object of each upload; "torn" is not what was uploaded
  rows,      \* the uploads with a row in agent_versions
  version,   \* agent_versions.version, from when the upload computes it
  holds,     \* the uploads that hold the Agent row lock
  running,   \* the uploads that occupy the event loop of their process
  pc,        \* where each upload is
  left       \* how many faults may still happen

vars == <<backend, home, object, rows, version, holds, running, pc, left>>

Steps == {"lock", "number", "put", "verify", "commit"}

(* This is the type invariant of uploads; a row lock has one holder, and an  *)
(* event loop runs one upload.                                               *)
TypeOK ==
  /\ backend \in Backends
  /\ home \in [Uploads -> Processes]
  /\ object \in [Uploads -> {"none", "torn", "stored"}]
  /\ rows \subseteq Uploads
  /\ version \in [Uploads -> Nat]
  /\ holds \subseteq Uploads /\ \A u, v \in holds : u = v
  /\ pc \in [Uploads -> Steps \union {"new", "close", "over"}]
  /\ running = {u \in Uploads : pc[u] \in Steps}
  /\ \A u, v \in running : home[u] = home[v] => u = v
  /\ left \in 0 .. MaxFaults

Init ==
  /\ backend \in Backends
  /\ home \in [Uploads -> Processes]
  /\ object = [u \in Uploads |-> "none"]
  /\ rows = {}
  /\ version = [u \in Uploads |-> 0]
  /\ holds = {}
  /\ running = {}
  /\ pc = [u \in Uploads |-> "new"]
  /\ left = MaxFaults
-----------------------------------------------------------------------------
Fault == left > 0 /\ left' = left - 1
Fine == UNCHANGED left
Goto(u, step) == pc' = [pc EXCEPT ![u] = step] /\ UNCHANGED running
Leave(u, where) == pc' = [pc EXCEPT ![u] = where] /\ running' = running \ {u}

(* The event loop of its process is free to go on with u.                    *)
LoopFree(u) == \A v \in running : home[v] # home[u]

Begin(u) ==
  /\ pc[u] = "new"
  /\ LoopFree(u)
  /\ pc' = [pc EXCEPT ![u] = "lock"]
  /\ running' = running \union {u}
  /\ UNCHANGED <<backend, home, object, rows, version, holds, left>>

LockFreely == TRUE
LockFree == holds = {}

Lock(u) ==
  /\ pc[u] = "lock"
  /\ LockFree
  /\ holds' = holds \union {u}
  /\ Goto(u, "number")
  /\ UNCHANGED <<backend, home, object, rows, version, left>>

(* 422: the wrong name or size, or not Python.  An exception leaves the      *)
(* coroutine, but not yet the transaction: the session is closed, in a       *)
(* thread, once the event loop comes to it.                                  *)
Reject(u) ==
  /\ pc[u] = "number"
  /\ Leave(u, "close")
  /\ UNCHANGED <<backend, home, object, rows, version, holds, left>>

Close(u) ==
  /\ pc[u] = "close"
  /\ LoopFree(u)
  /\ holds' = holds \ {u}
  /\ Leave(u, "over")
  /\ UNCHANGED <<backend, home, object, rows, version, left>>

(* max(version) + 1, or 1 for the first. *)
NextVersionOfObjects == 1 + Cardinality({v \in Uploads : object[v] # "none"})
NextVersion == 1 + Max({version[v] : v \in rows} \union {0})

(* The query needs the connection.                                           *)
Number(u) ==
  /\ pc[u] = "number"
  /\ IF u \in holds
       THEN version' = [version EXCEPT ![u] = NextVersion] /\ Goto(u, "put")
       ELSE Leave(u, "close") /\ UNCHANGED version
  /\ UNCHANGED <<backend, home, object, rows, holds, left>>

(* put(): an exclusive create and a write, which fail with any part of the   *)
(* object written; or a conditional PUT, which may store it and fail all the *)
(* same (the SDK retries a lost answer and is then refused), or store        *)
(* something else.                                                           *)
Put(u) ==
  /\ pc[u] = "put"
  /\ \/ /\ object' = [object EXCEPT ![u] = "stored"]
        /\ Goto(u, "verify") /\ Fine
     \/ /\ backend = "s3" /\ object' = [object EXCEPT ![u] = "torn"]
        /\ Goto(u, "verify") /\ Fault
     \/ /\ \E found \in {"none", "torn", "stored"} : object' = [object EXCEPT ![u] = found]
        /\ Leave(u, "close") /\ Fault
  /\ UNCHANGED <<backend, home, rows, version, holds>>

(* After a PUT the code compares the length and the digest that a HEAD tells.*)
(* The digest is the uploader's own metadata, not one computed from what was *)
(* stored; that what was stored is what was sent rests on the ContentMD5 that*)
(* the storage service checks.  Together they are taken to compare contents. *)
VerifiedBlindly(u) == TRUE
Verified(u) == backend = "s3" => object[u] = "stored"

Verify(u) ==
  /\ pc[u] = "verify"
  /\ \/ Verified(u) /\ Goto(u, "commit") /\ Fine
     \/ Leave(u, "close") /\ IF Verified(u) THEN Fault ELSE Fine
  /\ UNCHANGED <<backend, home, object, rows, version, holds>>

(* The commit needs the connection, and (agent, version) is unique.  Its     *)
(* answer may be lost.  However it ends, so does the transaction.            *)
Commit(u) ==
  LET works == u \in holds /\ \A v \in rows : version[v] # version[u]
  IN /\ pc[u] = "commit"
     /\ holds' = holds \ {u}
     /\ Leave(u, "over")
     /\ \/ works /\ rows' = rows \union {u} /\ (Fine \/ Fault)
        \/ UNCHANGED rows /\ IF works THEN Fault ELSE Fine
     /\ UNCHANGED <<backend, home, object, version>>

(* An API process dies; a connection to the database is lost.                *)
Crash(p) ==
  LET died == {u \in Uploads : home[u] = p /\ pc[u] \notin {"new", "over"}}
  IN /\ died # {}
     /\ Fault
     /\ holds' = holds \ died
     /\ running' = running \ died
     /\ pc' = [u \in Uploads |-> IF u \in died THEN "over" ELSE pc[u]]
     /\ UNCHANGED <<backend, home, object, rows, version>>

LoseConnection(u) ==
  /\ u \in holds
  /\ Fault
  /\ holds' = holds \ {u}
  /\ UNCHANGED <<backend, home, object, rows, version, running, pc>>

Step(u) ==
  Lock(u) \/ Reject(u) \/ Number(u) \/ Put(u) \/ Verify(u) \/ Commit(u) \/ Close(u)

Next ==
  \/ \E u \in Uploads : Begin(u) \/ Step(u) \/ LoseConnection(u)
  \/ \E p \in Processes : Crash(p)

Spec == Init /\ [][Next]_vars

(* Fairness: an upload that has the event loop goes on when it can (storage  *)
(* and queries have timeouts, PostgreSQL hands a free lock to who waits),    *)
(* and a free event loop comes to every session to close.                    *)
FairSpec == Spec /\ \A u \in Uploads : WF_vars(Step(u))
-----------------------------------------------------------------------------
(* Every version has the content that was uploaded for it, however storage,  *)
(* the database or a process failed on the way: what a worker downloads and  *)
(* verifies against the row is there (services.py upload, storage.py put).   *)
VersionsHaveContent == \A u \in rows : object[u] = "stored"

(* The versions of an agent are numbered 1, 2, 3 and so on: no upload, not   *)
(* even one that failed after its object was stored, leaves a gap.           *)
VersionsConsecutive ==
  /\ \A u, v \in rows : version[u] = version[v] => u = v
  /\ {version[u] : u \in rows} = 1 .. Cardinality(rows)

(* The number an upload computed under the row lock is still the next one    *)
(* when it commits, although storage took its time: uploads never run into   *)
(* each other's version (docs/evaluation-flow.md: a locked Agent row         *)
(* serializes version numbers).                                              *)
NumberStillNext ==
  \A u \in holds : pc[u] \in {"put", "verify", "commit"} =>
    version[u] = Cardinality(rows) + 1

(* The rows in the order of their numbers, as readers see them.              *)
Published ==
  [n \in 1 .. Cardinality(rows) |->
    LET u == CHOOSE v \in rows : version[v] = n
    IN [upload |-> u, content |-> object[u]]]

Log == INSTANCE VersionLog WITH published <- Published

(* The versions are a log that only grows, one whole upload at a time: what  *)
(* a submission was given as version n stays version n, with its content,    *)
(* whatever overlaps with it or fails (services.py upload).                  *)
ImplementsLog == Log!Spec

(* Every upload is answered: docs/evaluation-flow.md has a locked Agent row  *)
(* serialize uploads.  NOT so in the code: an upload that waits for the row  *)
(* lock on the event loop keeps the one that holds it, and failed, from      *)
(* being closed (main.py upload and db_session).                             *)
UploadsAnswered == \A u \in Uploads : pc[u] = "lock" ~> pc[u] = "over"
=============================================================================
