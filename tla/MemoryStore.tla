---------------------------- MODULE MemoryStore ----------------------------
(* The storage engine of a shard node: internal/storage/memory.go.          *)
(*                                                                          *)
(* MemoryStore keeps committed versions in a B-tree ordered by raw key and  *)
(* write intents in a lock table.  Every method runs under s.mu, so each is *)
(* one action, except Put, which takes the mutex twice.  The reads change   *)
(* nothing: they are operators over the state.                              *)
EXTENDS MVCC, Functions, FiniteSetsExt

CONSTANTS Key,        \* user keys clients write, as byte strings
          RawKey,     \* the byte strings the tree may hold
          Value,
          Txn,        \* transaction ids of clients
          Caller,     \* goroutines that call Put
          Legacy,     \* the id "legacy" that every Put uses
          NoTxn,      \* result owner of the operations that carry no id
          NoLock,     \* absence of an entry in the lock table
          CommitTs,   \* commit timestamps clients use
          Batches,    \* operation lists given to OnePhaseCommit
          Imports,    \* raw key -> value maps given to Ingest
          Coerce(_),  \* encoding/json: bytes of a map key -> valid UTF-8
          MaxByte     \* 0xFF

Owner == Txn \cup {Legacy}
Lock == [txn : Owner, value : Value]
BatchOp == [key : Key, value : Value]

(* A call of Put between its two critical sections.  `alone` is a history   *)
(* flag: no other Put has written or committed the entry of its key since.  *)
PutCall == [by : Caller, key : Key, value : Value, alone : BOOLEAN]

ASSUME KeyAssumption == Key \subseteq Bytes
ASSUME OwnerAssumption == Legacy \notin Txn /\ NoTxn \notin Owner
ASSUME LockAssumption == NoLock \notin Lock
ASSUME CommitTsAssumption == CommitTs \subseteq Timestamp
ASSUME BatchAssumption == \A b \in Batches : b \in Seq(BatchOp) /\ b # <<>>

(* Raw keys are byte strings long enough to carry a timestamp ("valid MVCC  *)
(* keys"); JSON lengthens them, if anything.                                *)
ASSUME RawKeyAssumption ==
  /\ \A r \in RawKey : /\ r \in Bytes /\ DecodedKey(r) \in Bytes
                        /\ \E ts \in Timestamp : r = EncodeKey(DecodedKey(r), ts)
  /\ \A k \in Key, ts \in CommitTs \cup {1} : EncodeKey(k, ts) \in RawKey
  /\ \A r \in RawKey : Coerce(r) \in RawKey
(* User keys are text: 0xFF is no byte of UTF-8.                            *)
ASSUME TextAssumption ==
  MaxByte \in Nat /\ \A r \in RawKey : \A i \in 1 .. Len(DecodedKey(r)) : DecodedKey(r)[i] < MaxByte
ASSUME ImportAssumption ==
  \A m \in Imports : DOMAIN m \subseteq RawKey /\ \A r \in DOMAIN m : m[r] \in Value

VARIABLES tree,     \* raw key -> value: the B-tree
          locks,    \* user key -> lock table entry, or NoLock
          putting,  \* the calls of Put between their two critical sections
          resp      \* owner and success of the last operation that returned

vars == <<tree, locks, putting, resp>>

-----------------------------------------------------------------------------
(* Reads.                                                                   *)

(* The item tree.AscendGreaterOrEqual visits first: none or one.            *)
Seek(p) ==
  {r \in DOMAIN tree : /\ LexLeq(p, r)
                       /\ \A q \in DOMAIN tree : LexLeq(p, q) => LexLeq(r, q)}

(* Plausible bug: the seek starts at the newest version, whatever readTs.   *)
mvccGetNewest(key, readTs) ==
  {tree[r] : r \in {s \in Seek(EncodeKey(key, MaxTs)) : DecodedKey(s) = key}}

(* mvccGetLocked returns the value of the first item at or after            *)
(* EncodeKey(key, readTs) if that item belongs to key; none if it does not. *)
mvccGetLocked(key, readTs) ==
  {tree[r] : r \in {s \in Seek(EncodeKey(key, readTs)) : DecodedKey(s) = key}}

(* GetTxn fails on a key that carries an intent, anybody's.                 *)
GetTxn(key, readTs) ==
  IF locks[key] # NoLock THEN [ok |-> FALSE, val |-> {}]
  ELSE [ok |-> TRUE, val |-> mvccGetLocked(key, readTs)]

Get(key) == GetTxn(key, MaxTs)

(* Plausible bug: the end of the range is taken to be part of it.           *)
ScanInclusive(start, end) ==
  LET from == {r \in DOMAIN tree : LexLeq(EncodeKey(start, MaxTs), r)}
      stops == {r \in from : \E e \in end : LexLess(e, DecodedKey(r))}
  IN  {r \in from : \A s \in stops : LexLess(r, s)}

(* Scan walks from EncodeKey(start, MaxUint64) and stops at the first item  *)
(* whose user key is not below end; `end` is a set, empty for nil.          *)
Scan(start, end) ==
  LET from == {r \in DOMAIN tree : LexLeq(EncodeKey(start, MaxTs), r)}
      stops == {r \in from : \E e \in end : LexLeq(e, DecodedKey(r))}
  IN  {r \in from : \A s \in stops : LexLess(r, s)}

ScanRange(start, end) == Restrict(tree, Scan(start, end))

HasPrefix(s, prefix) == Len(prefix) <= Len(s) /\ SubSeq(s, 1, Len(prefix)) = prefix

(* Plausible bug: a key counts as seen before its version proved visible.   *)
executeScanSeesEarly(prefix, readTs) ==
  LET from == {r \in Scan(prefix, {Append(prefix, MaxByte)}) : HasPrefix(DecodedKey(r), prefix)}
  IN  {r \in from : /\ DecodedTs(r) <= readTs
                    /\ \A q \in from : DecodedKey(q) = DecodedKey(r) => LexLeq(r, q)}

(* executeScan of internal/sql: the raw keys it makes rows of, for each     *)
(* user key with the table's prefix the first visible version it meets.     *)
executeScan(prefix, readTs) ==
  LET from == {r \in Scan(prefix, {Append(prefix, MaxByte)}) :
                 HasPrefix(DecodedKey(r), prefix) /\ DecodedTs(r) <= readTs}
  IN  {r \in from : \A q \in from : DecodedKey(q) = DecodedKey(r) => LexLeq(r, q)}

-----------------------------------------------------------------------------
(* Writes.                                                                  *)

LockedByOther(key, txnID) == locks[key] # NoLock /\ locks[key].txn # txnID
HoldsIntent(key, txnID) == locks[key] # NoLock /\ locks[key].txn = txnID

(* The tree after tree.ReplaceOrInsert of every item of a map.              *)
ReplaceOrInsert(items) ==
  [r \in DOMAIN items \cup DOMAIN tree |-> IF r \in DOMAIN items THEN items[r] ELSE tree[r]]

Return(txnID, ok) == resp' = [txn |-> txnID, ok |-> ok]

Refuse(txnID) == Return(txnID, FALSE) /\ UNCHANGED <<tree, locks, putting>>

(* Plausible bug: the owner of an existing entry is not compared.           *)
PrepareSteals(key, value, txnID) ==
  /\ locks' = [locks EXCEPT ![key] = [txn |-> txnID, value |-> value]]
  /\ Return(txnID, TRUE)
  /\ UNCHANGED <<tree, putting>>

(* Plausible bug: the entry does not record who placed it.                  *)
PrepareAnonymous(key, value, txnID) ==
  /\ ~LockedByOther(key, txnID)
  /\ locks' = [locks EXCEPT ![key] = [txn |-> NoTxn, value |-> value]]
  /\ Return(txnID, TRUE)
  /\ UNCHANGED <<tree, putting>>

Prepare(key, value, txnID) ==
  \/ /\ ~LockedByOther(key, txnID)
     /\ locks' = [locks EXCEPT ![key] = [txn |-> txnID, value |-> value]]
     /\ Return(txnID, TRUE)
     /\ UNCHANGED <<tree, putting>>
  \/ LockedByOther(key, txnID) /\ Refuse(txnID)

(* Plausible bug: the entry stays in the lock table.                        *)
CommitKeepsLock(key, txnID, commitTs) ==
  /\ HoldsIntent(key, txnID)
  /\ tree' = ReplaceOrInsert([r \in {EncodeKey(key, commitTs)} |-> locks[key].value])
  /\ Return(txnID, TRUE)
  /\ UNCHANGED locks

(* Commit moves the caller's intent into the tree.                          *)
CommitIntent(key, txnID, commitTs) ==
  /\ HoldsIntent(key, txnID)
  /\ tree' = ReplaceOrInsert([r \in {EncodeKey(key, commitTs)} |-> locks[key].value])
  /\ locks' = [locks EXCEPT ![key] = NoLock]
  /\ Return(txnID, TRUE)

Commit(key, txnID, commitTs) ==
  \/ CommitIntent(key, txnID, commitTs) /\ UNCHANGED putting
  \/ ~HoldsIntent(key, txnID) /\ Refuse(txnID)

(* Abort succeeds without an entry, and refuses somebody else's.            *)
Abort(key, txnID) ==
  \/ /\ ~LockedByOther(key, txnID)
     /\ locks' = [locks EXCEPT ![key] = NoLock]
     /\ Return(txnID, TRUE)
     /\ UNCHANGED <<tree, putting>>
  \/ LockedByOther(key, txnID) /\ Refuse(txnID)

BatchKeys(ops) == {ops[i].key : i \in DOMAIN ops}

(* A later operation of the list on the same key replaces an earlier one.   *)
LastValue(ops, key) == ops[Max({i \in DOMAIN ops : ops[i].key = key})].value

(* The raw entries the commit phase of OnePhaseCommit leaves behind.        *)
Written(ops, commitTs) ==
  [r \in {EncodeKey(k, commitTs) : k \in BatchKeys(ops)} |-> LastValue(ops, DecodedKey(r))]

(* Plausible bug: each operation is checked when its turn comes, so the     *)
(* ones before the first conflict have been written when the error returns. *)
OnePhaseCommitUnchecked(ops, txnID, commitTs) ==
  LET bad == {i \in DOMAIN ops : LockedByOther(ops[i].key, txnID)}
      done == IF bad = {} THEN ops ELSE SubSeq(ops, 1, Min(bad) - 1)
  IN  /\ tree' = ReplaceOrInsert(Written(done, commitTs))
      /\ locks' = [k \in Key |-> IF k \in BatchKeys(done) THEN NoLock ELSE locks[k]]
      /\ Return(txnID, bad = {})
      /\ UNCHANGED putting

(* OnePhaseCommit checks every lock before it writes anything.              *)
OnePhaseCommit(ops, txnID, commitTs) ==
  \/ /\ \A k \in BatchKeys(ops) : ~LockedByOther(k, txnID)
     /\ tree' = ReplaceOrInsert(Written(ops, commitTs))
     /\ locks' = [k \in Key |-> IF k \in BatchKeys(ops) THEN NoLock ELSE locks[k]]
     /\ Return(txnID, TRUE)
     /\ UNCHANGED putting
  \/ (\E k \in BatchKeys(ops) : LockedByOther(k, txnID)) /\ Refuse(txnID)

(* The calls of Put after one of them wrote or committed the entry of key.  *)
Crossed(calls, key) ==
  {[p EXCEPT !.alone = @ /\ p.key # key] : p \in calls}

PutCalls(c, key, value) ==
  Crossed(putting, key) \cup {[by |-> c, key |-> key, value |-> value, alone |-> TRUE]}

(* Plausible bug: Put goes on to its Commit although its Prepare failed.    *)
PutPrepareBlind(c, key, value) ==
  /\ \A p \in putting : p.by # c
  /\ locks' = IF LockedByOther(key, Legacy) THEN locks
              ELSE [locks EXCEPT ![key] = [txn |-> Legacy, value |-> value]]
  /\ putting' = PutCalls(c, key, value)
  /\ Return(Legacy, TRUE)
  /\ UNCHANGED tree

(* Put: Prepare and Commit under the id "legacy", at timestamp 1.  The      *)
(* mutex is free between the two, and every caller shares the id: a Prepare *)
(* replaces the entry of a Put that is still in progress.                   *)
PutPrepare(c, key, value) ==
  /\ \A p \in putting : p.by # c
  /\ \/ /\ ~LockedByOther(key, Legacy)
        /\ locks' = [locks EXCEPT ![key] = [txn |-> Legacy, value |-> value]]
        /\ putting' = PutCalls(c, key, value)
        /\ Return(Legacy, TRUE)
        /\ UNCHANGED tree
     \/ LockedByOther(key, Legacy) /\ Refuse(Legacy)

(* Put's Commit takes whatever value the entry holds, and fails when there  *)
(* is none.                                                                 *)
PutCommit(p) ==
  \/ /\ CommitIntent(p.key, Legacy, 1)
     /\ putting' = Crossed(putting \ {p}, p.key)
  \/ /\ ~HoldsIntent(p.key, Legacy)
     /\ Return(Legacy, FALSE)
     /\ putting' = putting \ {p}
     /\ UNCHANGED <<tree, locks>>

(* Plausible bug: of the versions no newer than safeTs the oldest is kept.  *)
GarbageKeepsOldest(safeTs) ==
  {r \in DOMAIN tree :
     /\ DecodedTs(r) <= safeTs
     /\ \E q \in DOMAIN tree \ {r} :
          /\ DecodedKey(q) = DecodedKey(r) /\ DecodedTs(q) <= safeTs
          /\ LexLess(r, q)}

(* Plausible bug: a version at safeTs itself does not count as old.         *)
GarbageStrict(safeTs) ==
  {r \in DOMAIN tree :
     /\ DecodedTs(r) < safeTs
     /\ \E q \in DOMAIN tree :
          /\ LexLess(q, r) /\ DecodedTs(q) < safeTs
          /\ \A m \in DOMAIN tree :
               LexLeq(q, m) /\ LexLeq(m, r) => DecodedKey(m) = DecodedKey(r)}

(* RunGC collects the items no newer than safeTs that follow, in the same   *)
(* run of items of one user key, an item no newer than safeTs.              *)
Garbage(safeTs) ==
  {r \in DOMAIN tree :
     /\ DecodedTs(r) <= safeTs
     /\ \E q \in DOMAIN tree :
          /\ LexLess(q, r) /\ DecodedTs(q) <= safeTs
          /\ \A m \in DOMAIN tree :
               LexLeq(q, m) /\ LexLeq(m, r) => DecodedKey(m) = DecodedKey(r)}

RunGC(safeTs) ==
  /\ Return(NoTxn, TRUE)
  /\ tree' = Restrict(tree, DOMAIN tree \ Garbage(safeTs))
  /\ UNCHANGED <<locks, putting>>

(* Ingest writes raw keys blindly: neither locks nor timestamps are looked  *)
(* at.                                                                      *)
Ingest(data) ==
  /\ Return(NoTxn, TRUE)
  /\ tree' = ReplaceOrInsert(data)
  /\ UNCHANGED <<locks, putting>>

(* GetSnapshotData: data is the JSON object written from the tree.          *)
(* encoding/json turns each raw key into valid UTF-8; of raw keys that      *)
(* collide, the last in key order survives decoding.  The lock table is not *)
(* written.                                                                 *)
GetSnapshotData(data) ==
  \A c \in DOMAIN data :
    \E r \in DOMAIN tree :
      /\ Coerce(r) = c /\ data[c] = tree[r]
      /\ \A q \in DOMAIN tree : Coerce(q) = c => LexLeq(q, r)

(* RestoreSnapshot replaces the tree, and leaves the lock table alone.  The *)
(* data is the snapshot of a replica that has applied the same operations.  *)
RestoreSnapshot ==
  /\ Return(NoTxn, TRUE)
  /\ \E data \in [{Coerce(r) : r \in DOMAIN tree} -> Value] :
       GetSnapshotData(data) /\ tree' = data
  /\ UNCHANGED <<locks, putting>>

-----------------------------------------------------------------------------
NewMemoryStore ==
  /\ tree = [r \in {} |-> {}]
  /\ locks = [k \in Key |-> NoLock]

Init ==
  /\ NewMemoryStore
  /\ putting = {}
  /\ resp = [txn |-> NoTxn, ok |-> TRUE]

(* The operations of the Engine interface and the ones of the apply loop    *)
(* and the migration endpoints.                                             *)
EngineNext ==
  \/ \E k \in Key, v \in Value, t \in Txn : Prepare(k, v, t)
  \/ \E k \in Key, t \in Txn, ts \in CommitTs : Commit(k, t, ts)
  \/ \E k \in Key, t \in Txn : Abort(k, t)
  \/ \E b \in Batches, t \in Txn, ts \in CommitTs : OnePhaseCommit(b, t, ts)
  \/ \E c \in Caller, k \in Key, v \in Value : PutPrepare(c, k, v)
  \/ \E p \in putting : PutCommit(p)
  \/ \E ts \in Timestamp : RunGC(ts)
  \/ \E m \in Imports : Ingest(m)

Next == EngineNext \/ RestoreSnapshot

EngineSpec == Init /\ [][EngineNext]_vars
Spec == Init /\ [][Next]_vars

-----------------------------------------------------------------------------
(* Properties.                                                              *)

(* Types of the engine's state: the tree maps byte strings to values, the   *)
(* lock table holds at most one intent per user key.                        *)
TypeOK ==
  /\ DOMAIN tree \subseteq RawKey /\ \A r \in DOMAIN tree : tree[r] \in Value
  /\ locks \in [Key -> Lock \cup {NoLock}]
  /\ putting \subseteq PutCall
  /\ resp \in [txn : Owner \cup {NoTxn}, ok : BOOLEAN]

(* An intent is changed or removed only by an operation of the transaction  *)
(* that placed it: no batch, ingest, restore, collection or other           *)
(* transaction's call ever takes a lock away (memory.go Prepare, Commit,    *)
(* Abort, OnePhaseCommit).                                                  *)
IntentOwner ==
  [][\A k \in Key : locks[k] # NoLock /\ locks'[k] # locks[k] =>
       resp'.txn = locks[k].txn]_vars

(* A call that returns an error has had no effect, not even on the keys of  *)
(* a batch that came before the conflicting one (OnePhaseCommit).           *)
RefusalChangesNothing ==
  [][~resp'.ok => UNCHANGED <<tree, locks>>]_vars

(* Between the two critical sections of a Put its intent, with the value to *)
(* be put, stays in the lock table, unless another Put of the same key came *)
(* in between: the Puts share the id "legacy", so one replaces or commits   *)
(* the other's entry.  No transaction, batch, ingest, restore or collection *)
(* does (memory.go Put, Prepare, Commit, Abort, OnePhaseCommit).            *)
PutHoldsIntent ==
  \A p \in putting : p.alone => locks[p.key] = [txn |-> Legacy, value |-> p.value]

(* However Puts of one key cross, and though one of them may commit the     *)
(* value of another and the other then fail, an intent under "legacy" is    *)
(* always that of a Put still in progress: none is left behind, where it    *)
(* would refuse every transaction on its key (Put, Commit).                 *)
PutLeavesNoIntent ==
  \A k \in Key : HoldsIntent(k, Legacy) =>
    \E p \in putting : p.key = k /\ p.value = locks[k].value

(* Garbage collection is invisible to every read at or above safeTs, for    *)
(* any set of user keys: the version such a read has to return is kept, and *)
(* keeps its value (RunGC: "keeping at least one version <= safeTs").       *)
GCPreservesReads ==
  [][tree' # tree => \A s \in Timestamp : RunGC(s) =>
       \A k \in Key, ts \in s .. MaxTs :
         /\ NewestAt(DOMAIN tree', k, ts) = NewestAt(DOMAIN tree, k, ts)
         /\ \A r \in NewestAt(DOMAIN tree, k, ts) : tree'[r] = tree[r]]_vars

(* Garbage collection is complete: it leaves at most one version of a user  *)
(* key at or below safeTs (RunGC: "removes versions older than safeTs").    *)
GCComplete ==
  [][\A s \in Timestamp : RunGC(s) =>
       \A k \in Key : Cardinality(VisibleAt(DOMAIN tree', k, s)) <= 1]_vars

(* The keys clients write and those of imports; none is a prefix of another *)
(* one, as the reads below need it.                                         *)
StoredKey == Key \cup UNION {{DecodedKey(r) : r \in DOMAIN m} : m \in Imports}
PrefixFree == \A j, k \in StoredKey : HasPrefix(j, k) => j = k

(* A point read of a key without an intent returns the newest version no    *)
(* newer than readTs: the seek in encoded order and the decoded versions    *)
(* agree (mvccGetLocked; mvcc.go: "latest valid version of the key visible  *)
(* at readTs").                                                             *)
ReadsNewest ==
  \A k \in Key, ts \in Timestamp :
    LET read == GetTxn(k, ts) IN
    read.ok =>
      read.val = {tree[r] : r \in NewestAt(DOMAIN tree, k, ts)}

(* Whatever the keys, and after restores too, a point read of a key without *)
(* an intent returns the newest version no newer than readTs or, when keys  *)
(* are stored that begin with the key or that the key begins with, possibly *)
(* nothing: never an older version (mvccGetLocked gives up at the first     *)
(* item of another key).                                                    *)
ReadsNewestUnlessShadowed ==
  \A k \in Key, ts \in Timestamp :
    LET read == GetTxn(k, ts) IN
    read.ok =>
      \/ read.val = {tree[r] : r \in NewestAt(DOMAIN tree, k, ts)}
      \/ /\ read.val = {}
         /\ \E r \in DOMAIN tree :
              /\ DecodedKey(r) # k
              /\ HasPrefix(DecodedKey(r), k) \/ HasPrefix(k, DecodedKey(r))

(* A table scan, unlike the point reads, is exact for any keys: versions of *)
(* one key need not be neighbours in the tree, and still each key of the    *)
(* table gives the newest version no newer than readTs, once (executor.go   *)
(* executeScan, seenKeys).                                                  *)
TableScanNewest ==
  \A p \in Key, ts \in {1, MaxTs} :
    LET visible == {r \in DOMAIN tree : HasPrefix(DecodedKey(r), p) /\ DecodedTs(r) <= ts} IN
    executeScan(p, ts) =
      {r \in visible : \A q \in visible :
         DecodedKey(q) = DecodedKey(r) => DecodedTs(q) <= DecodedTs(r)}

(* ScanRange exports exactly the versions of the user keys in [start, end)  *)
(* (memory.go: "exports all raw keys and values in the range").             *)
ScanRangeExact ==
  \A s \in Key, end \in {{}} \cup {{e} : e \in Key} :
    DOMAIN ScanRange(s, end) =
      {r \in DOMAIN tree : /\ LexLeq(s, DecodedKey(r))
                           /\ \A e \in end : LexLess(DecodedKey(r), e)}

(* A store restored from its snapshot answers every read as before          *)
(* (RestoreSnapshot: "restores state from data").                           *)
RestoreKeepsReads ==
  [][RestoreSnapshot =>
       \A k \in Key, ts \in Timestamp : GetTxn(k, ts)' = GetTxn(k, ts)]_vars

(* The versions a tree, or an import, holds of each user key.               *)
VersionsOf(items) ==
  [k \in Key |-> [ts \in {t \in Timestamp : EncodeKey(k, t) \in DOMAIN items} |->
                    items[EncodeKey(k, ts)]]]

VS == INSTANCE VersionStore WITH versions <- VersionsOf(tree), intents <- locks,
                                 Imports <- {VersionsOf(m) : m \in Imports}

(* The engine implements the abstract store: its lock table is the intents, *)
(* the values under the encoded keys are the versions, a refused call is no *)
(* step at all, and collection drops only what no read at or above safeTs   *)
(* can see.                                                                 *)
ImplementsVersionStore == VS!Spec
=============================================================================
