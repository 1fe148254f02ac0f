----------------------- MODULE MemoryStoreRefinement -----------------------
(* The engine implements the abstract store: every step of MemoryStore is a *)
(* step of VersionStore, or leaves its variables alone, under the mapping   *)
(* of the tree to the versions it holds.                                    *)
EXTENDS MemoryStoreProofs

(* What one key gets from items written over the tree.                      *)
Merged(f, g) == [ts \in DOMAIN f \cup DOMAIN g |-> IF ts \in DOMAIN f THEN f[ts] ELSE g[ts]]

(* Encoding is injective: no version is stored under two keys.              *)
LEMMA EncodeInjective ==
  ASSUME NEW k \in Bytes, NEW j \in Bytes, NEW t \in Timestamp, NEW u \in Timestamp,
         EncodeKey(k, t) = EncodeKey(j, u)
  PROVE  k = j /\ t = u
<1>1. DecodedKey(EncodeKey(k, t)) = k /\ DecodedTs(EncodeKey(k, t)) = t
  BY DecodeEncode
<1>2. DecodedKey(EncodeKey(j, u)) = j /\ DecodedTs(EncodeKey(j, u)) = u
  BY DecodeEncode
<1> QED
  BY <1>1, <1>2

(* Writing items merges their versions, key by key.                         *)
LEMMA InsertVersions ==
  ASSUME NEW f
  PROVE  VersionsOf(ReplaceOrInsert(f)) =
           [k \in Key |-> Merged(VersionsOf(f)[k], VersionsOf(tree)[k])]
<1> DEFINE A == VersionsOf(ReplaceOrInsert(f))
           B == [k \in Key |-> Merged(VersionsOf(f)[k], VersionsOf(tree)[k])]
<1>1. ASSUME NEW k \in Key PROVE A[k] = B[k]
  <2> DEFINE F == {t \in Timestamp : EncodeKey(k, t) \in DOMAIN f}
             G == {t \in Timestamp : EncodeKey(k, t) \in DOMAIN tree}
  <2>1. /\ VersionsOf(f)[k] = [ts \in F |-> f[EncodeKey(k, ts)]]
        /\ VersionsOf(tree)[k] = [ts \in G |-> tree[EncodeKey(k, ts)]]
    BY DEF VersionsOf
  <2>2. A[k] = [ts \in {t \in Timestamp : EncodeKey(k, t) \in DOMAIN f \cup DOMAIN tree} |->
                  IF EncodeKey(k, ts) \in DOMAIN f THEN f[EncodeKey(k, ts)]
                  ELSE tree[EncodeKey(k, ts)]]
    BY DEF VersionsOf, ReplaceOrInsert
  <2>3. {t \in Timestamp : EncodeKey(k, t) \in DOMAIN f \cup DOMAIN tree} = F \cup G
    OBVIOUS
  <2>4. B[k] = [ts \in F \cup G |-> IF ts \in F THEN f[EncodeKey(k, ts)]
                                    ELSE tree[EncodeKey(k, ts)]]
    BY <2>1 DEF Merged
  <2> QED
    BY <2>2, <2>3, <2>4
<1>2. A = [k \in Key |-> A[k]] /\ B = [k \in Key |-> B[k]]
  BY DEF VersionsOf
<1> QED
  BY <1>1, <1>2

(* The items that write v[k] for each k in K at ts, and what they should    *)
(* make of the versions.                                                    *)
Rows(K, ts, v) == [r \in {EncodeKey(k, ts) : k \in K} |-> v[DecodedKey(r)]]

WithVersions(K, ts, v) ==
  [k \in Key |-> IF k \in K THEN VS!WithVersion(VersionsOf(tree)[k], ts, v[k])
                 ELSE VersionsOf(tree)[k]]

(* A set of keys written at one timestamp becomes one version of each.      *)
LEMMA WriteVersions ==
  ASSUME NEW K \in SUBSET Key, NEW ts \in Timestamp, NEW v
  PROVE  VersionsOf(ReplaceOrInsert(Rows(K, ts, v))) = WithVersions(K, ts, v)
<1> DEFINE f == Rows(K, ts, v)
           B == [k \in Key |-> IF k \in K THEN VS!WithVersion(VersionsOf(tree)[k], ts, v[k])
                               ELSE VersionsOf(tree)[k]]
<1>0. f = [r \in {EncodeKey(k, ts) : k \in K} |-> v[DecodedKey(r)]]
  BY DEF Rows
<1> HIDE DEF f
<1>1. \A k \in Key : k \in Bytes
  BY KeyAssumption
<1>2. ASSUME NEW k \in Key
      PROVE  Merged(VersionsOf(f)[k], VersionsOf(tree)[k]) = B[k]
  <2> DEFINE F == {t \in Timestamp : EncodeKey(k, t) \in DOMAIN f}
             g == VersionsOf(tree)[k]
  <2>1. VersionsOf(f)[k] = [t \in F |-> f[EncodeKey(k, t)]]
    BY DEF VersionsOf
  <2>2. g = [t \in DOMAIN g |-> g[t]]
    BY DEF VersionsOf
  <2>3. CASE k \in K
    <3>1. F = {ts}
      BY <1>0, <1>1, <2>3, EncodeInjective
    <3>2. f[EncodeKey(k, ts)] = v[k]
      BY <1>0, <1>1, <2>3, DecodeEncode
    <3>3. VersionsOf(f)[k] = [t \in {ts} |-> v[k]]
      BY <2>1, <3>1, <3>2
    <3> HIDE DEF g
    <3>4. Merged(VersionsOf(f)[k], g) = [t \in {ts} \cup DOMAIN g |-> IF t \in {ts} THEN v[k] ELSE g[t]]
      BY <3>3 DEF Merged
    <3>5. VS!WithVersion(g, ts, v[k]) = [t \in DOMAIN g \cup {ts} |-> IF t = ts THEN v[k] ELSE g[t]]
      BY DEF VS!WithVersion
    <3>6. Merged(VersionsOf(f)[k], g) = VS!WithVersion(g, ts, v[k])
      BY <3>4, <3>5
    <3> QED
      BY <2>3, <3>6 DEF g
  <2>4. CASE k \notin K
    <3>1. F = {}
      BY <1>0, <1>1, <2>4, EncodeInjective
    <3>2. DOMAIN VersionsOf(f)[k] = {}
      BY <2>1, <3>1
    <3> HIDE DEF g
    <3>3. Merged(VersionsOf(f)[k], g) = [t \in DOMAIN g |-> g[t]]
      BY <3>2 DEF Merged
    <3> QED
      BY <2>2, <2>4, <3>3 DEF g
  <2> QED
    BY <2>3, <2>4
<1>3. VersionsOf(ReplaceOrInsert(f)) = B
  BY <1>2, InsertVersions
<1> QED
  BY <1>3 DEF f, WithVersions

(* Collection: what is dropped is hidden by a version that stays.           *)
LEMMA CollectVersions ==
  ASSUME TypeOK, NEW s \in Timestamp, RunGC(s), NEW k \in Key
  PROVE  /\ IsRestriction(VersionsOf(tree')[k], VersionsOf(tree)[k])
         /\ \A ts \in DOMAIN VersionsOf(tree)[k] \ DOMAIN VersionsOf(tree')[k] :
              \E u \in DOMAIN VersionsOf(tree')[k] : ts < u /\ u <= s
<1> DEFINE V == VersionsOf(tree)[k]
           W == VersionsOf(tree')[k]
<1> USE MaxTsAssumption
<1>1. /\ V = [t \in {x \in Timestamp : EncodeKey(k, x) \in DOMAIN tree} |-> tree[EncodeKey(k, t)]]
      /\ W = [t \in {x \in Timestamp : EncodeKey(k, x) \in DOMAIN tree'} |-> tree'[EncodeKey(k, t)]]
  BY DEF VersionsOf
<1>2. /\ DOMAIN tree' = DOMAIN tree \ Garbage(s)
      /\ \A r \in DOMAIN tree' : tree'[r] = tree[r]
  BY DEF RunGC, Restrict
<1>3. IsRestriction(W, V)
  BY <1>1, <1>2 DEF IsRestriction
<1>4. ASSUME NEW ts \in DOMAIN V \ DOMAIN W
      PROVE  \E u \in DOMAIN W : ts < u /\ u <= s
  <2> DEFINE r == EncodeKey(k, ts)
             D == DOMAIN tree
  <2>1. ts \in Timestamp /\ k \in Bytes /\ r \in Garbage(s)
    BY <1>1, <1>2, KeyAssumption
  <2>2. DecodedKey(r) = k /\ DecodedTs(r) = ts
    BY <2>1, DecodeEncode
  <2>3. PICK q \in D : DecodedKey(q) = k /\ ts < DecodedTs(q) /\ DecodedTs(q) <= s
    BY <2>1, <2>2, GarbageIsHidden
  <2>4. q \in VisibleAt(D, k, s)
    BY <2>3 DEF VisibleAt
  <2>5. D \in SUBSET RawKey
    BY DEF TypeOK
  <2>6. PICK m \in VisibleAt(D, k, s) : m \in NewestAt(D, k, s)
    BY <2>4, <2>5, NewestExists
  <2>7. s \in s .. MaxTs
    BY DEF Timestamp
  <2>8. m \in DOMAIN tree'
    BY <2>6, <2>7, GCKeepsNewest DEF NewestAt, VisibleAt
  <2>9. /\ m \in RawKey /\ DecodedKey(m) = k /\ DecodedTs(m) <= s
        /\ DecodedTs(q) <= DecodedTs(m)
    BY <2>4, <2>5, <2>6 DEF NewestAt, VisibleAt
  <2>10. DecodedTs(m) \in Timestamp /\ m = EncodeKey(k, DecodedTs(m)) /\ DecodedTs(q) \in Timestamp
    BY <2>3, <2>5, <2>9, EncodeDecode
  <2>11. DecodedTs(m) \in DOMAIN W
    BY <1>1, <2>8, <2>10
  <2>12. ts < DecodedTs(m)
    BY <2>1, <2>3, <2>9, <2>10 DEF Timestamp
  <2> QED
    BY <2>9, <2>11, <2>12
<1> QED
  BY <1>3, <1>4

(* One step of the engine, one case per operation.                          *)
LEMMA RefinementStep ==
  ASSUME TypeOK, [EngineNext]_vars
  PROVE  [VS!Next]_(VS!vsVars)
<1> USE DEF Owner
<1>1. ASSUME UNCHANGED <<tree, locks>> PROVE UNCHANGED VS!vsVars
  BY <1>1 DEF VS!vsVars, VersionsOf
<1>2. ASSUME NEW t, Refuse(t) PROVE UNCHANGED VS!vsVars
  BY <1>1, <1>2 DEF Refuse
<1>3. VersionsOf(tree)' = VersionsOf(tree')
  BY DEF VersionsOf
<1>4. \A ts \in CommitTs \cup {1} : ts \in Timestamp
  BY CommitTsAssumption, MaxTsAssumption DEF Timestamp
<1>5. ASSUME UNCHANGED tree PROVE UNCHANGED VersionsOf(tree)
  BY <1>5 DEF VersionsOf
<1>6. ASSUME NEW k \in Key, NEW v \in Value, NEW t \in Owner, ~LockedByOther(k, t),
             locks' = [locks EXCEPT ![k] = [txn |-> t, value |-> v]], UNCHANGED tree
      PROVE  VS!Next
  <2>1. VS!Prepare(k, v, t)
    BY <1>5, <1>6 DEF VS!Prepare, VS!LockedByOther, LockedByOther
  <2> QED
    BY <2>1 DEF VS!Next
<1>7. ASSUME NEW k \in Key, NEW v \in Value, NEW t \in Txn, Prepare(k, v, t)
      PROVE  [VS!Next]_(VS!vsVars)
  BY <1>2, <1>6, <1>7 DEF Prepare
<1>8. ASSUME NEW k \in Key, NEW t \in Owner, NEW ts \in CommitTs \cup {1}, CommitIntent(k, t, ts)
      PROVE  VS!Next
  <2> DEFINE v == [j \in {k} |-> locks[k].value]
  <2>1. {EncodeKey(j, ts) : j \in {k}} = {EncodeKey(k, ts)}
    OBVIOUS
  <2>2. k \in Bytes /\ ts \in Timestamp /\ {k} \in SUBSET Key
    BY <1>4, KeyAssumption
  <2>3. DecodedKey(EncodeKey(k, ts)) = k
    BY <2>2, DecodeEncode
  <2>4. [r \in {EncodeKey(k, ts)} |-> locks[k].value] = Rows({k}, ts, v)
    BY <2>1, <2>3 DEF Rows
  <2>5. tree' = ReplaceOrInsert(Rows({k}, ts, v))
    BY <1>8, <2>4 DEF CommitIntent
  <2>6. VersionsOf(tree') =
          [j \in Key |-> IF j \in {k} THEN VS!WithVersion(VersionsOf(tree)[j], ts, v[j])
                         ELSE VersionsOf(tree)[j]]
    <3> HIDE DEF v
    <3>1. VersionsOf(ReplaceOrInsert(Rows({k}, ts, v))) = WithVersions({k}, ts, v)
      BY <2>2, WriteVersions
    <3> QED
      BY <2>5, <3>1 DEF WithVersions
  <2>7. VersionsOf(tree) \in [Key -> {VersionsOf(tree)[j] : j \in Key}]
    BY DEF VersionsOf
  <2>8. VersionsOf(tree') =
          [VersionsOf(tree) EXCEPT ![k] = VS!WithVersion(VersionsOf(tree)[k], ts, locks[k].value)]
    BY <2>6, <2>7
  <2>9. VS!Commit(k, t, ts)
    BY <1>3, <1>8, <2>8 DEF CommitIntent, HoldsIntent, VS!Commit, VS!HoldsIntent
  <2> QED
    BY <2>2, <2>9 DEF VS!Next
<1>9. ASSUME NEW k \in Key, NEW t \in Txn, NEW ts \in CommitTs, Commit(k, t, ts)
      PROVE  [VS!Next]_(VS!vsVars)
  BY <1>2, <1>8, <1>9 DEF Commit
<1>10. ASSUME NEW k \in Key, NEW t \in Txn, Abort(k, t)
       PROVE  [VS!Next]_(VS!vsVars)
  <2>1. CASE Refuse(t)
    BY <1>2, <2>1
  <2>2. CASE /\ ~LockedByOther(k, t) /\ locks' = [locks EXCEPT ![k] = NoLock] /\ UNCHANGED tree
    <3>1. CASE locks[k] = NoLock
      <4>1. locks' = locks
        BY <2>2, <3>1 DEF TypeOK
      <4> QED
        BY <1>1, <2>2, <4>1
    <3>2. CASE locks[k] # NoLock
      <4>1. VS!Abort(k, t)
        BY <1>5, <2>2, <3>2 DEF LockedByOther, VS!Abort, VS!HoldsIntent
      <4> QED
        BY <4>1 DEF VS!Next
    <3> QED
      BY <3>1, <3>2
  <2> QED
    BY <1>10, <2>1, <2>2 DEF Abort
<1>11. ASSUME NEW b \in Batches, NEW t \in Txn, NEW ts \in CommitTs, OnePhaseCommit(b, t, ts)
       PROVE  [VS!Next]_(VS!vsVars)
  <2>1. CASE Refuse(t)
    BY <1>2, <2>1
  <2>2. CASE /\ \A k \in BatchKeys(b) : ~LockedByOther(k, t)
             /\ tree' = ReplaceOrInsert(Written(b, ts))
             /\ locks' = [k \in Key |-> IF k \in BatchKeys(b) THEN NoLock ELSE locks[k]]
    <3> DEFINE K == BatchKeys(b)
               v == [k \in K |-> LastValue(b, k)]
    <3>1. K \in SUBSET Key /\ v \in [K -> Value]
      BY BatchTypes
    <3>2. ts \in Timestamp /\ \A k \in K : DecodedKey(EncodeKey(k, ts)) = k
      BY <1>4, <3>1, KeyAssumption, DecodeEncode
    <3>3. Written(b, ts) = Rows(K, ts, v)
      BY <3>2 DEF Written, Rows
    <3>4. VersionsOf(tree') =
            [k \in Key |-> IF k \in K THEN VS!WithVersion(VersionsOf(tree)[k], ts, v[k])
                           ELSE VersionsOf(tree)[k]]
      <4> HIDE DEF K, v
      <4>1. VersionsOf(ReplaceOrInsert(Rows(K, ts, v))) = WithVersions(K, ts, v)
        BY <3>1, <3>2, WriteVersions
      <4> QED
        BY <2>2, <3>3, <4>1 DEF WithVersions
    <3>5. DOMAIN v = K
      OBVIOUS
    <3>6. VS!OnePhaseCommit(v, t, ts)
      <4>1. VersionsOf(tree)' =
              [k \in Key |-> IF k \in DOMAIN v
                             THEN VS!WithVersion(VersionsOf(tree)[k], ts, v[k])
                             ELSE VersionsOf(tree)[k]]
        BY <1>3, <3>4, <3>5
      <4>2. locks' = [k \in Key |-> IF k \in DOMAIN v THEN NoLock ELSE locks[k]]
        BY <2>2, <3>5
      <4>3. \A k \in DOMAIN v : ~VS!LockedByOther(k, t)
        BY <2>2, <3>5 DEF LockedByOther, VS!LockedByOther
      <4> HIDE DEF v
      <4> QED
        BY <4>1, <4>2, <4>3 DEF VS!OnePhaseCommit
    <3> HIDE DEF K, v
    <3> QED
      BY <3>1, <3>2, <3>6 DEF VS!Next
  <2> QED
    BY <1>11, <2>1, <2>2 DEF OnePhaseCommit
<1>12. ASSUME NEW c \in Caller, NEW k \in Key, NEW v \in Value, PutPrepare(c, k, v)
       PROVE  [VS!Next]_(VS!vsVars)
  BY <1>2, <1>6, <1>12 DEF PutPrepare
<1>13. ASSUME NEW p \in putting, PutCommit(p) PROVE [VS!Next]_(VS!vsVars)
  <2>1. p.key \in Key
    BY DEF TypeOK, PutCall
  <2>2. CASE CommitIntent(p.key, Legacy, 1)
    BY <1>8, <2>1, <2>2
  <2>3. CASE UNCHANGED <<tree, locks>>
    BY <1>1, <2>3
  <2> QED
    BY <1>13, <2>2, <2>3 DEF PutCommit
<1>14. ASSUME NEW s \in Timestamp, RunGC(s) PROVE [VS!Next]_(VS!vsVars)
  <2>1. UNCHANGED locks
    BY <1>14 DEF RunGC
  <2>2. VS!Collect(s)
    BY <1>3, <1>14, <2>1, CollectVersions DEF VS!Collect, VS!IsRestriction, IsRestriction
  <2> QED
    BY <2>2 DEF VS!Next
<1>15. ASSUME NEW m \in Imports, Ingest(m) PROVE [VS!Next]_(VS!vsVars)
  <2>1. VersionsOf(tree') = [k \in Key |-> Merged(VersionsOf(m)[k], VersionsOf(tree)[k])]
    BY <1>15, InsertVersions DEF Ingest
  <2>2. UNCHANGED locks
    BY <1>15 DEF Ingest
  <2>3. VS!Import(VersionsOf(m))
    BY <1>3, <2>1, <2>2 DEF VS!Import, Merged
  <2> QED
    BY <2>3 DEF VS!Next
<1>16. ASSUME UNCHANGED vars PROVE [VS!Next]_(VS!vsVars)
  BY <1>1, <1>16 DEF vars
<1> QED
  BY <1>7, <1>9, <1>10, <1>11, <1>12, <1>13, <1>14, <1>15, <1>16 DEF EngineNext

(* The engine, without snapshots, implements the abstract version store,    *)
(* for any keys and any timestamp width.                                    *)
THEOREM EngineImplementsStore == EngineSpec => ImplementsVersionStore
<1>1. Init => VS!Init
  BY DEF Init, NewMemoryStore, VS!Init, VersionsOf
<1>2. EngineSpec => Spec
  <2>1. [EngineNext]_vars => [Next]_vars
    BY DEF Next
  <2> QED
    BY <2>1, PTL DEF EngineSpec, Spec
<1> QED
  BY <1>1, <1>2, TypeCorrect, RefinementStep, PTL DEF EngineSpec, ImplementsVersionStore, VS!Spec
=============================================================================
