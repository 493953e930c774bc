-------------------------- MODULE AgentManagerProofs --------------------------
(***************************************************************************)
(* What AgentManager promises for any set of uploads and any faults:       *)
(* versions have their content and are numbered without gaps.              *)
(***************************************************************************)
EXTENDS AgentManager, FiniteSetTheorems, SequenceTheorems, TLAPS

(* The inductive invariant.  The numbering needs the row lock: whoever holds *)
(* it has a number nobody else can have taken since (NumberStillNext), and   *)
(* only an upload that passed the verification commits.                      *)
Ordered ==
  /\ \A u \in rows : pc[u] = "over"
  /\ \A u \in Uploads : pc[u] \in {"new", "lock"} => u \notin holds
  /\ \A u \in Uploads : pc[u] = "commit" => object[u] = "stored"
  /\ \A u \in Uploads : pc[u] = "verify" /\ backend = "local" => object[u] = "stored"
UploadInv == TypeOK /\ VersionsHaveContent /\ VersionsConsecutive /\ NumberStillNext /\ Ordered

(* The rows are finitely many. *)
LEMMA RowsFinite ==
  ASSUME TypeOK
  PROVE  IsFiniteSet(rows) /\ Cardinality(rows) \in Nat
BY AgentAssumption, FS_Subset, FS_CardinalityType DEF TypeOK

(* While the versions are 1 to n, max + 1 is n + 1.                          *)
LEMMA NextIsFree ==
  ASSUME TypeOK, VersionsConsecutive
  PROVE  NextVersion = Cardinality(rows) + 1
<1> DEFINE n == Cardinality(rows)
<1>1. n \in Nat
  BY RowsFinite
<1>2. {version[v] : v \in rows} \union {0} = 0 .. n
  BY <1>1 DEF VersionsConsecutive
<1> HIDE DEF n
<1>3. n \in 0 .. n /\ \A y \in 0 .. n : n >= y
  BY <1>1
<1>4. ASSUME NEW m \in 0 .. n, \A y \in 0 .. n : m >= y PROVE m = n
  BY <1>1, <1>3, <1>4
<1>5. Max(0 .. n) = n
  BY <1>3, <1>4 DEF Max
<1>6. NextVersion = 1 + Max(0 .. n)
  BY <1>2 DEF NextVersion
<1>7. NextVersion = n + 1
  BY <1>1, <1>5, <1>6
<1> QED
  BY <1>7 DEF n

(* A commit extends the numbering by one.                                    *)
LEMMA CommitExtends ==
  ASSUME UploadInv, NEW u \in Uploads, u \in holds, pc[u] = "commit",
         rows' = rows \union {u}, UNCHANGED version
  PROVE  VersionsConsecutive' /\ Cardinality(rows') = Cardinality(rows) + 1
<1> DEFINE n == Cardinality(rows)
<1>1. u \notin rows /\ n \in Nat /\ IsFiniteSet(rows)
  BY RowsFinite DEF UploadInv, Ordered
<1>2. Cardinality(rows') = n + 1
  BY <1>1, FS_AddElement
<1>3. version[u] = n + 1
  BY DEF UploadInv, NumberStillNext
<1>4. {version[v] : v \in rows} = 1 .. n
  BY DEF UploadInv, VersionsConsecutive
<1> HIDE DEF n
<1>5. {version'[v] : v \in rows'} = 1 .. n + 1
  <2>1. {version'[v] : v \in rows'} = {version[v] : v \in rows} \union {n + 1}
    BY <1>3
  <2>2. (1 .. n) \union {n + 1} = 1 .. n + 1
    BY <1>1
  <2> QED
    BY <1>4, <2>1, <2>2
<1>6. \A v \in rows : version[v] # version[u]
  <2> TAKE v \in rows
  <2>1. version[v] \in 1 .. n
    BY <1>4
  <2> QED
    BY <1>1, <1>3, <2>1
<1>7. \A v, w \in rows' : version'[v] = version'[w] => v = w
  BY <1>6 DEF UploadInv, VersionsConsecutive
<1> QED
  BY <1>2, <1>5, <1>7 DEF VersionsConsecutive, n

(* Nothing is uploaded yet.                                                  *)
LEMMA InitialUploads == Init => UploadInv
<1> SUFFICES ASSUME Init PROVE UploadInv
  OBVIOUS
<1>1. Cardinality(rows) = 0 /\ {version[u] : u \in rows} = {}
  BY FS_EmptySet DEF Init
<1>2. VersionsConsecutive
  BY <1>1 DEF Init, VersionsConsecutive
<1> QED
  BY <1>2, AgentAssumption
     DEF Init, Steps, UploadInv, TypeOK, VersionsHaveContent, NumberStillNext, Ordered

(* Every step of an upload, and every fault, preserves it.                   *)
LEMMA UploadStep == UploadInv /\ [Next]_vars => UploadInv'
<1> SUFFICES ASSUME UploadInv, [Next]_vars PROVE UploadInv'
  OBVIOUS
<1> USE AgentAssumption
<1> USE DEF Steps, Goto, Leave, Fault, Fine
<1>1. ASSUME NEW u \in Uploads, Begin(u) PROVE UploadInv'
  <2>1. TypeOK'
    BY <1>1 DEF Begin, LoopFree, UploadInv, TypeOK
  <2> QED
    BY <1>1, <2>1 DEF Begin, UploadInv, TypeOK, VersionsHaveContent, VersionsConsecutive,
                      NumberStillNext, Ordered
<1>2. ASSUME NEW u \in Uploads, Lock(u) PROVE UploadInv'
  BY <1>2 DEF Lock, LockFree, UploadInv, TypeOK, VersionsHaveContent,
              VersionsConsecutive, NumberStillNext, Ordered
<1>3. ASSUME NEW u \in Uploads, Reject(u) PROVE UploadInv'
  BY <1>3 DEF Reject, UploadInv, TypeOK, VersionsHaveContent, VersionsConsecutive,
              NumberStillNext, Ordered
<1>4. ASSUME NEW u \in Uploads, Close(u) PROVE UploadInv'
  BY <1>4 DEF Close, UploadInv, TypeOK, VersionsHaveContent, VersionsConsecutive,
              NumberStillNext, Ordered
<1>5. ASSUME NEW u \in Uploads, Number(u) PROVE UploadInv'
  <2>1. NextVersion = Cardinality(rows) + 1 /\ Cardinality(rows) \in Nat
    BY NextIsFree, RowsFinite DEF UploadInv
  <2>2. u \notin rows
    BY <1>5 DEF Number, UploadInv, Ordered
  <2>3. \A v \in rows : version'[v] = version[v]
    BY <1>5, <2>2 DEF Number, UploadInv, TypeOK
  <2>4. VersionsConsecutive'
    <3>1. rows' = rows
      BY <1>5 DEF Number
    <3>2. {version'[v] : v \in rows} = {version[v] : v \in rows}
      BY <2>3
    <3> QED
      BY <2>3, <3>1, <3>2 DEF UploadInv, VersionsConsecutive
  <2>5. TypeOK'
    BY <1>5, <2>1 DEF Number, UploadInv, TypeOK
  <2>6. NumberStillNext'
    BY <1>5, <2>1 DEF Number, UploadInv, TypeOK, NumberStillNext
  <2> QED
    BY <1>5, <2>4, <2>5, <2>6 DEF Number, UploadInv, TypeOK, VersionsHaveContent, Ordered
<1>6. ASSUME NEW u \in Uploads, Put(u) PROVE UploadInv'
  <2>1. u \notin rows
    BY <1>6 DEF Put, UploadInv, Ordered
  <2>2. TypeOK'
    BY <1>6 DEF Put, UploadInv, TypeOK
  <2>3. VersionsHaveContent' /\ VersionsConsecutive' /\ NumberStillNext'
    BY <1>6, <2>1 DEF Put, UploadInv, TypeOK, VersionsHaveContent, VersionsConsecutive,
                      NumberStillNext
  <2> QED
    BY <1>6, <2>1, <2>2, <2>3 DEF Put, UploadInv, TypeOK, Ordered
<1>7. ASSUME NEW u \in Uploads, Verify(u) PROVE UploadInv'
  BY <1>7 DEF Verify, Verified, UploadInv, TypeOK, VersionsHaveContent, VersionsConsecutive,
              NumberStillNext, Ordered
<1>8. ASSUME NEW u \in Uploads, Commit(u) PROVE UploadInv'
  <2>1. TypeOK' /\ VersionsHaveContent' /\ Ordered'
    BY <1>8 DEF Commit, UploadInv, TypeOK, VersionsHaveContent, Ordered
  <2>2. CASE rows' = rows \union {u} /\ u \in holds
    <3>1. VersionsConsecutive'
      BY <1>8, <2>2, CommitExtends DEF Commit
    <3>2. holds' = {}
      BY <1>8, <2>2 DEF Commit, UploadInv, TypeOK
    <3> QED
      BY <2>1, <3>1, <3>2 DEF UploadInv, NumberStillNext
  <2>3. CASE UNCHANGED rows
    BY <1>8, <2>1, <2>3 DEF Commit, UploadInv, TypeOK, VersionsConsecutive, NumberStillNext
  <2> QED
    BY <1>8, <2>2, <2>3 DEF Commit
<1>9. ASSUME NEW p \in Processes, Crash(p) PROVE UploadInv'
  <2>1. \A u \in rows : pc'[u] = "over"
    BY <1>9 DEF Crash, UploadInv, TypeOK, Ordered
  <2>2. TypeOK'
    BY <1>9 DEF Crash, UploadInv, TypeOK
  <2> QED
    BY <1>9, <2>1, <2>2 DEF Crash, UploadInv, TypeOK, VersionsHaveContent, VersionsConsecutive,
                            NumberStillNext, Ordered
<1>10. ASSUME NEW u \in Uploads, LoseConnection(u) PROVE UploadInv'
  BY <1>10 DEF LoseConnection, UploadInv, TypeOK, VersionsHaveContent, VersionsConsecutive,
               NumberStillNext, Ordered
<1>11. CASE UNCHANGED vars
  BY <1>11 DEF vars, UploadInv, TypeOK, VersionsHaveContent, VersionsConsecutive,
               NumberStillNext, Ordered
<1> QED
  BY <1>1, <1>2, <1>3, <1>4, <1>5, <1>6, <1>7, <1>8, <1>9, <1>10, <1>11 DEF Next, Step

(* The invariant holds in every behaviour.                                   *)
THEOREM UploadInvariant == Spec => []UploadInv
BY InitialUploads, UploadStep, PTL DEF Spec

(* The state keeps its types: one upload per event loop, one lock holder.    *)
THEOREM UploadTypeCorrect == Spec => []TypeOK
<1>1. UploadInv => TypeOK
  BY DEF UploadInv
<1> QED
  BY <1>1, UploadInvariant, PTL

(* Every version, of however many, has the content uploaded for it.          *)
THEOREM VersionsHaveContentHolds == Spec => []VersionsHaveContent
<1>1. UploadInv => VersionsHaveContent
  BY DEF UploadInv
<1> QED
  BY <1>1, UploadInvariant, PTL

(* However many uploads overlap and fail, the versions are 1, 2, 3, ...      *)
THEOREM VersionsConsecutiveHolds == Spec => []VersionsConsecutive
<1>1. UploadInv => VersionsConsecutive
  BY DEF UploadInv
<1> QED
  BY <1>1, UploadInvariant, PTL

(* A number computed under the row lock is still the next at the commit.     *)
THEOREM NumberStillNextHolds == Spec => []NumberStillNext
<1>1. UploadInv => NumberStillNext
  BY DEF UploadInv
<1> QED
  BY <1>1, UploadInvariant, PTL
-----------------------------------------------------------------------------
(* What readers see, without the choice it is defined by: the row numbered n *)
(* is the n-th entry, and complete.                                          *)
Entries ==
  /\ Published = [n \in 1 .. Cardinality(rows) |-> Published[n]]
  /\ \A n \in 1 .. Cardinality(rows) : \E u \in rows : version[u] = n
  /\ \A u \in rows :
       /\ version[u] \in 1 .. Cardinality(rows)
       /\ Published[version[u]] = [upload |-> u, content |-> "stored"]

LEMMA EntriesAreRows == UploadInv => Entries
<1> SUFFICES ASSUME UploadInv PROVE Entries
  OBVIOUS
<1>1. {version[u] : u \in rows} = 1 .. Cardinality(rows)
  BY DEF UploadInv, VersionsConsecutive
<1>2. \A n \in 1 .. Cardinality(rows) : \E u \in rows : version[u] = n
  BY <1>1
<1>3. ASSUME NEW u \in rows
      PROVE  /\ version[u] \in 1 .. Cardinality(rows)
             /\ Published[version[u]] = [upload |-> u, content |-> "stored"]
  <2>1. version[u] \in 1 .. Cardinality(rows)
    BY <1>1
  <2>2. (CHOOSE v \in rows : version[v] = version[u]) = u
    BY DEF UploadInv, VersionsConsecutive
  <2>3. object[u] = "stored"
    BY DEF UploadInv, VersionsHaveContent
  <2> QED
    BY <2>1, <2>2, <2>3 DEF Published
<1>4. Published = [n \in 1 .. Cardinality(rows) |-> Published[n]]
  BY DEF Published
<1> QED
  BY <1>2, <1>3, <1>4 DEF Entries

(* A step that neither adds a row nor changes one is not seen.               *)
LEMMA RowsKept ==
  ASSUME Entries, Entries', rows' = rows, \A u \in rows : version'[u] = version[u]
  PROVE  Published' = Published
<1>1. ASSUME NEW n \in 1 .. Cardinality(rows) PROVE Published'[n] = Published[n]
  <2>1. PICK u \in rows : version[u] = n
    BY DEF Entries
  <2>2. Published[version[u]] = [upload |-> u, content |-> "stored"]
    BY DEF Entries
  <2>3. Published'[version'[u]] = [upload |-> u, content |-> "stored"]
    BY DEF Entries
  <2> QED
    BY <2>1, <2>2, <2>3
<1>2. Cardinality(rows') = Cardinality(rows)
  OBVIOUS
<1> QED
  BY <1>1, <1>2, Zenon DEF Entries

(* A commit appends its upload to what readers see.                          *)
LEMMA CommitPublishes ==
  ASSUME UploadInv, UploadInv', NEW u \in Uploads, u \in holds, pc[u] = "commit",
         rows' = rows \union {u}, UNCHANGED version
  PROVE  Log!Publish(u)
<1> DEFINE n == Cardinality(rows)
           entry == [upload |-> u, content |-> "stored"]
<1>1. Entries /\ Entries'
  BY EntriesAreRows, PTL
<1>2. u \notin rows /\ n \in Nat /\ version[u] = n + 1
  BY RowsFinite DEF UploadInv, Ordered, NumberStillNext
<1>3. Cardinality(rows') = n + 1
  BY CommitExtends
<1> HIDE DEF n
<1>4. Published = [m \in 1 .. n |-> Published[m]] /\ Published' = [m \in 1 .. n + 1 |-> Published'[m]]
  BY <1>1, <1>3 DEF Entries, n
<1>5. ASSUME NEW m \in 1 .. n
      PROVE  /\ Published[m].upload # u /\ Published'[m] = Published[m]
             /\ Published[m] \in [upload : Uploads, content : {"stored"}]
  <2>1. PICK v \in rows : version[v] = m
    BY <1>1 DEF Entries, n
  <2>2. Published[m] = [upload |-> v, content |-> "stored"]
    BY <1>1, <2>1 DEF Entries
  <2>3. Published'[m] = [upload |-> v, content |-> "stored"]
    BY <1>1, <2>1 DEF Entries
  <2>4. v # u
    BY <1>2
  <2> QED
    BY <2>2, <2>3, <2>4 DEF UploadInv, TypeOK
<1>6. Published'[n + 1] = entry
  BY <1>1, <1>2 DEF Entries
<1> DEFINE before == Published
           after == Published'
<1>7. before = [m \in 1 .. n |-> before[m]] /\ after = [m \in 1 .. n + 1 |-> after[m]]
  BY <1>4
<1>8. \A m \in 1 .. n : after[m] = before[m]
  BY <1>5
<1>9. after[n + 1] = entry
  BY <1>6
<1> DEFINE Whole == [upload : Uploads, content : {"stored"}]
<1>10. entry \in Whole /\ \A m \in 1 .. n : before[m] \in Whole
  BY <1>5
<1> HIDE DEF before, after, entry, Whole
<1>11. before \in Seq(Whole) /\ Len(before) = n
  <2>1. before \in [1 .. n -> Whole]
    BY <1>7, <1>10
  <2> QED
    BY <1>2, <2>1
<1>12. after \in Seq(Whole) /\ Len(after) = n + 1
  <2>1. \A m \in 1 .. n + 1 : after[m] \in Whole
    BY <1>2, <1>8, <1>9, <1>10
  <2>2. after \in [1 .. n + 1 -> Whole]
    BY <1>7, <2>1
  <2> QED
    BY <1>2, <2>2
<1>13. after = Append(before, entry)
  <2> DEFINE appended == Append(before, entry)
  <2>1. /\ appended \in Seq(Whole) /\ Len(appended) = n + 1
        /\ \A m \in 1 .. n : appended[m] = before[m]
        /\ appended[n + 1] = entry
    BY <1>2, <1>10, <1>11
  <2> HIDE DEF appended
  <2>2. \A m \in 1 .. Len(after) : after[m] = appended[m]
    BY <1>2, <1>8, <1>9, <1>12, <2>1
  <2>3. after = appended
    BY <1>12, <2>1, <2>2, SeqEqual
  <2> QED
    BY <2>3 DEF appended
<1> QED
  BY <1>5, <1>11, <1>13 DEF Log!Publish, before, after, entry

(* Only a commit touches the log, and only at its end.                       *)
LEMMA LogStep ==
  UploadInv /\ UploadInv' /\ [Next]_vars => [\E u \in Uploads : Log!Publish(u)]_Published
<1> SUFFICES ASSUME UploadInv, UploadInv', [Next]_vars
             PROVE  (\E u \in Uploads : Log!Publish(u)) \/ Published' = Published
  OBVIOUS
<1>1. Entries /\ Entries'
  BY EntriesAreRows, PTL
<1>2. ASSUME NEW u \in Uploads, Number(u) PROVE Published' = Published
  <2>1. u \notin rows
    BY <1>2 DEF Number, UploadInv, Ordered
  <2>2. rows' = rows /\ \A v \in rows : version'[v] = version[v]
    BY <1>2, <2>1 DEF Number, UploadInv, TypeOK
  <2> QED
    BY <1>1, <2>2, RowsKept
<1>3. ASSUME NEW u \in Uploads, Commit(u)
      PROVE  (\E v \in Uploads : Log!Publish(v)) \/ Published' = Published
  <2>1. UNCHANGED version /\ pc[u] = "commit"
    BY <1>3 DEF Commit
  <2>2. CASE rows' = rows \union {u} /\ u \in holds
    BY <2>1, <2>2, CommitPublishes
  <2>3. CASE UNCHANGED rows
    BY <1>1, <2>1, <2>3, RowsKept
  <2> QED
    BY <1>3, <2>2, <2>3 DEF Commit
<1>4. ASSUME UNCHANGED <<rows, version>> PROVE Published' = Published
  BY <1>1, <1>4, RowsKept
<1>5. ASSUME NEW u \in Uploads, Begin(u) \/ Step(u) \/ LoseConnection(u)
      PROVE  Number(u) \/ Commit(u) \/ UNCHANGED <<rows, version>>
  BY <1>5 DEF Begin, Step, Lock, Reject, Put, Verify, Close, LoseConnection
<1>6. ASSUME NEW p \in Processes, Crash(p) PROVE UNCHANGED <<rows, version>>
  BY <1>6 DEF Crash
<1> QED
  BY <1>2, <1>3, <1>4, <1>5, <1>6 DEF Next, vars

(* The manager implements the log: a version, once published, stays what it  *)
(* is, whatever overlaps with it or fails (services.py, storage.py).         *)
THEOREM LogImplemented == Spec => ImplementsLog
<1>1. Init => Log!Init
  <2> SUFFICES ASSUME Init PROVE Published = << >>
    BY DEF Log!Init
  <2>1. Cardinality(rows) = 0
    BY FS_EmptySet DEF Init
  <2> QED
    BY <2>1 DEF Published
<1> QED
  BY <1>1, UploadInvariant, LogStep, PTL DEF Spec, ImplementsLog, Log!Spec
=============================================================================
