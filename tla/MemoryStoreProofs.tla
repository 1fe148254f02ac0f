------------------------- MODULE MemoryStoreProofs -------------------------
(* Proofs about the storage engine, for every set of keys, values and       *)
(* transactions and every timestamp width.                                  *)
EXTENDS MemoryStore, SequenceTheorems, SetLemmas, TLAPS

-----------------------------------------------------------------------------
(* The encoding.                                                            *)

(* Decoding undoes encoding: a raw key carries its user key and timestamp.  *)
LEMMA DecodeEncode ==
  ASSUME NEW k \in Bytes, NEW ts \in Timestamp
  PROVE  /\ EncodeKey(k, ts) \in Bytes
         /\ Len(EncodeKey(k, ts)) = Len(k) + Width
         /\ DecodedKey(EncodeKey(k, ts)) = k
         /\ DecodedTs(EncodeKey(k, ts)) = ts
<1> DEFINE b == BigEndian(MaxTs - ts)
           r == EncodeKey(k, ts)
<1> USE WidthAssumption, MaxTsAssumption
<1>1. MaxTs - ts \in Timestamp
  BY DEF Timestamp
<1>2. b \in Seq(Nat) /\ Len(b) = Width
  BY <1>1, BigEndianWidth
<1>3. /\ r \in Seq(Nat) /\ Len(r) = Len(k) + Width
      /\ \A i \in 1 .. Len(k) + Width : r[i] = IF i <= Len(k) THEN k[i] ELSE b[i - Len(k)]
  BY <1>2, ConcatProperties DEF EncodeKey, Bytes
<1>4. Len(k) \in Nat
  BY DEF Bytes
<1>5. SubSeq(r, 1, Len(r) - Width) = k
  <2>1. \A i \in 1 .. Len(k) : r[i] \in Nat
    BY <1>3, <1>4, ElementOfSeq
  <2>2. /\ SubSeq(r, 1, Len(k)) \in Seq(Nat) /\ Len(SubSeq(r, 1, Len(k))) = Len(k)
        /\ \A i \in 1 .. Len(k) : SubSeq(r, 1, Len(k))[i] = r[i]
    BY <1>4, <2>1, SubSeqProperties
  <2>3. \A i \in 1 .. Len(k) : SubSeq(r, 1, Len(k))[i] = k[i]
    BY <1>3, <1>4, <2>2
  <2> QED
    BY <1>3, <1>4, <2>2, <2>3, SeqEqual DEF Bytes
<1>6. SubSeq(r, Len(r) - Width + 1, Len(r)) = b
  <2> DEFINE u == SubSeq(r, Len(k) + 1, Len(k) + Width)
  <2>1. \A i \in Len(k) + 1 .. Len(k) + Width : r[i] \in Nat
    BY <1>3, <1>4, ElementOfSeq
  <2>2a. Len(k) + 1 \in Int /\ Len(k) + Width \in Int /\ Len(k) + 1 <= Len(k) + Width
    BY <1>4
  <2>2b. /\ u \in Seq(Nat) /\ Len(u) = (Len(k) + Width) - (Len(k) + 1) + 1
        /\ \A i \in 1 .. (Len(k) + Width) - (Len(k) + 1) + 1 : u[i] = r[(Len(k) + 1) + i - 1]
    BY <2>2a, <2>1, SubSeqProperties
  <2>2. /\ u \in Seq(Nat) /\ Len(u) = Width
        /\ \A i \in 1 .. Width : u[i] = r[Len(k) + i]
    <3>1. (Len(k) + Width) - (Len(k) + 1) + 1 = Width
      BY <1>4
    <3>2. \A i \in 1 .. Width : (Len(k) + 1) + i - 1 = Len(k) + i
      BY <1>4
    <3> QED
      BY <2>2b, <3>1, <3>2
  <2>3. \A i \in 1 .. Width : u[i] = b[i]
    <3> SUFFICES ASSUME NEW i \in 1 .. Width PROVE u[i] = b[i]
      OBVIOUS
    <3>1. Len(k) + i \in 1 .. Len(k) + Width /\ ~(Len(k) + i <= Len(k)) /\ (Len(k) + i) - Len(k) = i
      BY <1>4
    <3>2. r[Len(k) + i] = b[i]
      BY <1>3, <3>1
    <3> QED
      BY <2>2, <3>2
  <2>4. u = b
    BY <1>2, <2>2, <2>3, SeqEqual
  <2> QED
    BY <1>3, <1>4, <2>4
<1>7. Uint64(b) = MaxTs - ts
  <2>1. \A n \in Timestamp : BigEndian(n) = b => n = MaxTs - ts
    <3> SUFFICES ASSUME NEW n \in Timestamp, BigEndian(n) = b, n # MaxTs - ts
                 PROVE  FALSE
      OBVIOUS
    <3>1. n < MaxTs - ts \/ MaxTs - ts < n
      BY <1>1 DEF Timestamp
    <3>2. \A i \in 1 .. Width : b[i] \in Nat
      BY <1>2, ElementOfSeq
    <3> QED
      BY <1>1, <3>1, <3>2, BigEndianOrder
  <2> QED
    BY <1>1, <2>1 DEF Uint64
<1>8. ~(Len(r) < Width)
  BY <1>3, <1>4
<1>9. DecodedKey(r) = k
  BY <1>5, <1>8 DEF DecodedKey
<1>10. DecodedTs(r) = MaxTs - (MaxTs - ts)
  BY <1>6, <1>7, <1>8 DEF DecodedTs
<1>11. MaxTs - (MaxTs - ts) = ts
  BY DEF Timestamp
<1> QED
  BY <1>3, <1>9, <1>10, <1>11 DEF Bytes

(* Every raw key the tree may hold is the encoding of what it decodes to.   *)
LEMMA EncodeDecode ==
  ASSUME NEW r \in RawKey
  PROVE  /\ r \in Bytes /\ DecodedKey(r) \in Bytes /\ DecodedTs(r) \in Timestamp
         /\ r = EncodeKey(DecodedKey(r), DecodedTs(r))
<1>1. PICK ts \in Timestamp : r = EncodeKey(DecodedKey(r), ts)
  BY RawKeyAssumption
<1>2. r \in Bytes /\ DecodedKey(r) \in Bytes
  BY RawKeyAssumption
<1>3. DecodedTs(EncodeKey(DecodedKey(r), ts)) = ts
  BY <1>2, DecodeEncode
<1>4. DecodedTs(r) = ts
  BY <1>1, <1>3
<1> QED
  BY <1>1, <1>2, <1>4

(* Among the versions of one key the newer one comes first in the tree.     *)
LEMMA NewerFirst ==
  ASSUME NEW k \in Bytes, NEW t \in Timestamp, NEW u \in Timestamp,
         LexLess(EncodeKey(k, t), EncodeKey(k, u))
  PROVE  u < t
<1> DEFINE a == EncodeKey(k, t)
           b == EncodeKey(k, u)
           A == BigEndian(MaxTs - t)
           B == BigEndian(MaxTs - u)
<1> USE WidthAssumption, MaxTsAssumption
<1>1. MaxTs - t \in Timestamp /\ MaxTs - u \in Timestamp
  BY DEF Timestamp
<1>2. A \in Seq(Nat) /\ Len(A) = Width /\ B \in Seq(Nat) /\ Len(B) = Width
  BY <1>1, BigEndianWidth
<1>3. Len(k) \in Nat /\ \A i \in 1 .. Len(k) : k[i] \in Nat
  BY LenProperties, ElementOfSeq DEF Bytes
<1>4. /\ Len(a) = Len(k) + Width /\ Len(b) = Len(k) + Width
      /\ \A i \in 1 .. Len(k) + Width :
           /\ a[i] = IF i <= Len(k) THEN k[i] ELSE A[i - Len(k)]
           /\ b[i] = IF i <= Len(k) THEN k[i] ELSE B[i - Len(k)]
  BY <1>2, ConcatProperties DEF EncodeKey, Bytes
<1>5. \A j \in 1 .. Width : A[j] \in Nat /\ B[j] \in Nat
  BY <1>2, ElementOfSeq
<1> HIDE DEF a, b, A, B
<1>6. PICK i \in 1 .. Len(b) : /\ \A j \in 1 .. (i - 1) : a[j] = b[j]
                               /\ i <= Len(a) => a[i] < b[i]
  BY DEF LexLess, a, b
<1>7. i \in 1 .. Len(k) + Width /\ a[i] < b[i]
  BY <1>3, <1>4, <1>6
<1>8. ~(i <= Len(k))
  BY <1>3, <1>4, <1>7
<1> DEFINE n == i - Len(k)
<1>9. n \in 1 .. Width /\ A[n] < B[n]
  BY <1>3, <1>4, <1>7, <1>8
<1>10. \A j \in 1 .. (n - 1) : A[j] = B[j]
  <2> SUFFICES ASSUME NEW j \in 1 .. (n - 1) PROVE A[j] = B[j]
    OBVIOUS
  <2>1. /\ Len(k) + j \in 1 .. (i - 1) /\ Len(k) + j \in 1 .. Len(k) + Width
        /\ ~(Len(k) + j <= Len(k)) /\ (Len(k) + j) - Len(k) = j
    BY <1>3, <1>7
  <2>2. a[Len(k) + j] = b[Len(k) + j]
    BY <1>6, <2>1
  <2>3. a[Len(k) + j] = A[j] /\ b[Len(k) + j] = B[j]
    BY <1>4, <2>1
  <2> QED
    BY <2>2, <2>3
<1>11. ~(t = u)
  <2> SUFFICES ASSUME t = u PROVE FALSE
    OBVIOUS
  <2>1. A = B
    BY DEF A, B
  <2> QED
    BY <1>5, <1>9, <2>1
<1>12. ~(t < u)
  <2> SUFFICES ASSUME t < u PROVE FALSE
    OBVIOUS
  <2>1. MaxTs - u < MaxTs - t
    BY DEF Timestamp
  <2>2. PICK m \in 1 .. Width : (\A j \in 1 .. (m - 1) : B[j] = A[j]) /\ B[m] < A[m]
    BY <1>1, <2>1, BigEndianOrder DEF A, B
  <2>3. m \in Nat /\ n \in Nat
    BY <1>9
  <2>4. CASE m < n
    <3>1. m \in 1 .. (n - 1)
      BY <2>3, <2>4
    <3> QED
      BY <1>5, <1>10, <2>2, <3>1
  <2>5. CASE n < m
    <3>1. n \in 1 .. (m - 1)
      BY <1>9, <2>3, <2>5
    <3> QED
      BY <1>5, <1>9, <2>2, <3>1
  <2>6. CASE n = m
    BY <1>5, <1>9, <2>2, <2>6
  <2> QED
    BY <2>3, <2>4, <2>5, <2>6
<1> QED
  BY <1>11, <1>12 DEF Timestamp

-----------------------------------------------------------------------------
(* Garbage collection.                                                      *)

(* An item RunGC deletes is hidden by a newer version of the same key that  *)
(* is itself no newer than safeTs.                                          *)
LEMMA GarbageIsHidden ==
  ASSUME TypeOK, NEW s \in Timestamp, NEW r \in Garbage(s)
  PROVE  /\ r \in DOMAIN tree
         /\ \E q \in DOMAIN tree : /\ DecodedKey(q) = DecodedKey(r)
                                   /\ DecodedTs(r) < DecodedTs(q) /\ DecodedTs(q) <= s
<1>1. PICK q \in DOMAIN tree :
        /\ LexLess(q, r) /\ DecodedTs(q) <= s
        /\ \A m \in DOMAIN tree : LexLeq(q, m) /\ LexLeq(m, r) => DecodedKey(m) = DecodedKey(r)
  BY DEF Garbage
<1>2. r \in DOMAIN tree
  BY DEF Garbage
<1>3. q \in RawKey /\ r \in RawKey
  BY <1>2 DEF TypeOK
<1>4. DecodedKey(q) = DecodedKey(r)
  BY <1>1 DEF LexLeq
<1>5. LexLess(EncodeKey(DecodedKey(r), DecodedTs(q)), EncodeKey(DecodedKey(r), DecodedTs(r)))
  BY <1>1, <1>3, <1>4, EncodeDecode
<1>6. DecodedTs(r) < DecodedTs(q)
  BY <1>3, <1>5, EncodeDecode, NewerFirst
<1> QED
  BY <1>1, <1>2, <1>4, <1>6

(* A key with a version visible at ts has a newest such version.            *)
LEMMA NewestExists ==
  ASSUME NEW R \in SUBSET RawKey, NEW k, NEW ts \in Timestamp, NEW r \in VisibleAt(R, k, ts)
  PROVE  \E m \in VisibleAt(R, k, ts) : m \in NewestAt(R, k, ts)
<1> DEFINE V == VisibleAt(R, k, ts)
           S == {DecodedTs(q) : q \in V}
<1>1. \A q \in V : DecodedTs(q) \in 0 .. MaxTs
  BY EncodeDecode DEF VisibleAt, Timestamp
<1>2. S \in SUBSET (0 .. MaxTs) /\ S # {}
  BY <1>1
<1>3. PICK x \in S : \A y \in S : y <= x
  BY <1>2, BoundedMax, MaxTsAssumption
<1>4. PICK m \in V : x = DecodedTs(m)
  OBVIOUS
<1>5. \A q \in V : DecodedTs(q) <= DecodedTs(m)
  BY <1>3, <1>4
<1> QED
  BY <1>4, <1>5 DEF NewestAt

(* RunGC(s) leaves the newest version visible at any ts >= s in place.      *)
LEMMA GCKeepsNewest ==
  ASSUME TypeOK, NEW s \in Timestamp, RunGC(s), NEW k \in Key, NEW ts \in s .. MaxTs
  PROVE  /\ NewestAt(DOMAIN tree', k, ts) = NewestAt(DOMAIN tree, k, ts)
         /\ \A r \in NewestAt(DOMAIN tree, k, ts) : tree'[r] = tree[r]
<1> DEFINE D == DOMAIN tree
           E == DOMAIN tree'
<1> USE MaxTsAssumption
<1>1. /\ E = D \ Garbage(s)
      /\ \A r \in E : tree'[r] = tree[r]
  BY DEF RunGC, Restrict
<1>2. ts \in Timestamp /\ s \in Nat /\ s <= ts
  BY DEF Timestamp
<1>3. D \subseteq RawKey
  BY DEF TypeOK
<1>4. \A q \in D : DecodedTs(q) \in Nat
  BY <1>3, EncodeDecode DEF Timestamp
<1>5. ASSUME NEW r \in NewestAt(D, k, ts) PROVE r \in E
  <2>1. r \in D /\ DecodedKey(r) = k
    BY DEF NewestAt, VisibleAt
  <2>2. SUFFICES ASSUME r \in Garbage(s) PROVE FALSE
    BY <1>1, <2>1
  <2>3. PICK q \in D : /\ DecodedKey(q) = DecodedKey(r)
                        /\ DecodedTs(r) < DecodedTs(q) /\ DecodedTs(q) <= s
    BY <2>2, GarbageIsHidden
  <2>4. DecodedTs(q) <= ts
    BY <1>2, <1>4, <2>3 DEF Timestamp
  <2>5. q \in VisibleAt(D, k, ts)
    BY <2>1, <2>3, <2>4 DEF VisibleAt
  <2>6. DecodedTs(q) <= DecodedTs(r)
    BY <2>5 DEF NewestAt
  <2> QED
    BY <1>4, <2>1, <2>3, <2>6
<1>6. VisibleAt(E, k, ts) \subseteq VisibleAt(D, k, ts)
  BY <1>1 DEF VisibleAt
<1>7. \A r \in E : r \in VisibleAt(D, k, ts) => r \in VisibleAt(E, k, ts)
  BY DEF VisibleAt
<1>8. NewestAt(D, k, ts) \subseteq NewestAt(E, k, ts)
  BY <1>5, <1>6, <1>7 DEF NewestAt
<1>9. ASSUME NEW r \in NewestAt(E, k, ts) PROVE r \in NewestAt(D, k, ts)
  <2>1. r \in VisibleAt(D, k, ts)
    BY <1>6 DEF NewestAt
  <2>2. PICK m \in VisibleAt(D, k, ts) : m \in NewestAt(D, k, ts)
    BY <1>2, <1>3, <2>1, NewestExists
  <2>3. m \in VisibleAt(E, k, ts)
    BY <1>5, <1>7, <2>2
  <2>4. DecodedTs(m) <= DecodedTs(r)
    BY <2>3 DEF NewestAt
  <2>5. \A q \in VisibleAt(D, k, ts) : DecodedTs(q) <= DecodedTs(m)
    BY <2>2 DEF NewestAt
  <2>6. \A q \in VisibleAt(D, k, ts) : DecodedTs(q) \in Nat
    BY <1>4 DEF VisibleAt
  <2>7. \A q \in VisibleAt(D, k, ts) : DecodedTs(q) <= DecodedTs(r)
    BY <2>1, <2>2, <2>4, <2>5, <2>6
  <2> QED
    BY <2>1, <2>7 DEF NewestAt
<1>10. NewestAt(E, k, ts) = NewestAt(D, k, ts)
  BY <1>8, <1>9
<1> QED
  BY <1>1, <1>5, <1>10

-----------------------------------------------------------------------------
(* Types.                                                                   *)

(* Writing well-typed items leaves a well-typed tree.                       *)
LEMMA InsertType ==
  ASSUME TypeOK, NEW f, DOMAIN f \subseteq RawKey, \A r \in DOMAIN f : f[r] \in Value
  PROVE  /\ DOMAIN ReplaceOrInsert(f) \subseteq RawKey
         /\ \A r \in DOMAIN ReplaceOrInsert(f) : ReplaceOrInsert(f)[r] \in Value
  BY DEF ReplaceOrInsert, TypeOK

(* Every key of a batch has a last operation and a value.                   *)
LEMMA BatchTypes ==
  ASSUME NEW ops \in Batches
  PROVE  /\ BatchKeys(ops) \subseteq Key
         /\ \A k \in BatchKeys(ops) : LastValue(ops, k) \in Value
<1>1. ops \in Seq(BatchOp)
  BY BatchAssumption
<1>2. Len(ops) \in Nat /\ DOMAIN ops = 1 .. Len(ops)
      /\ \A i \in 1 .. Len(ops) : ops[i] \in BatchOp
  BY <1>1
<1>3. \A k \in BatchKeys(ops) : k \in Key
  BY <1>2 DEF BatchKeys, BatchOp
<1>4. ASSUME NEW k \in BatchKeys(ops) PROVE LastValue(ops, k) \in Value
  <2> DEFINE S == {i \in DOMAIN ops : ops[i].key = k}
  <2>1. S \in SUBSET (0 .. Len(ops)) /\ S # {}
    BY <1>2 DEF BatchKeys
  <2>2. \E m \in S : \A i \in S : i <= m
    BY <1>2, <2>1, BoundedMax
  <2>3. \E m \in S : \A i \in S : m >= i
    BY <1>2, <2>1, <2>2
  <2>4. Max(S) \in S
    BY <2>3 DEF Max
  <2>5. ops[Max(S)] \in BatchOp
    BY <1>2, <2>4
  <2> QED
    BY <2>5 DEF LastValue, BatchOp
<1> QED
  BY <1>3, <1>4

(* So the entries of a one-phase commit are well typed.                     *)
LEMMA WrittenType ==
  ASSUME NEW ops \in Batches, NEW ts \in CommitTs
  PROVE  LET f == Written(ops, ts)
         IN  DOMAIN f \subseteq RawKey /\ \A r \in DOMAIN f : f[r] \in Value
<1>1. ASSUME NEW k \in BatchKeys(ops)
      PROVE  EncodeKey(k, ts) \in RawKey /\ DecodedKey(EncodeKey(k, ts)) = k
  <2>1. k \in Key /\ k \in Bytes /\ ts \in Timestamp
    BY BatchTypes, KeyAssumption, CommitTsAssumption
  <2> QED
    BY <2>1, RawKeyAssumption, DecodeEncode
<1> QED
  BY <1>1, BatchTypes DEF Written

(* Crossing keeps the calls of Put, up to the flag, and clears the flag of  *)
(* the calls on that key.                                                   *)
LEMMA CrossedCalls ==
  ASSUME NEW C \in SUBSET PutCall, NEW k, NEW q \in Crossed(C, k)
  PROVE  /\ q \in PutCall
         /\ \E p \in C : /\ q.by = p.by /\ q.key = p.key /\ q.value = p.value
                        /\ q.alone = (p.alone /\ p.key # k)
<1>1. PICK p \in C : q = [p EXCEPT !.alone = @ /\ p.key # k]
  BY DEF Crossed
<1>2. p \in PutCall
  OBVIOUS
<1>3. /\ q.by = p.by /\ q.key = p.key /\ q.value = p.value
      /\ q.alone = (p.alone /\ p.key # k)
  BY <1>1, <1>2 DEF PutCall
<1>4. q \in PutCall
  BY <1>1, <1>2 DEF PutCall
<1> QED
  BY <1>3, <1>4

LEMMA CrossedType ==
  ASSUME NEW C \in SUBSET PutCall, NEW k
  PROVE  Crossed(C, k) \subseteq PutCall
  BY CrossedCalls

LEMMA CrossedKeeps ==
  ASSUME NEW C \in SUBSET PutCall, NEW k, NEW p \in C
  PROVE  \E q \in Crossed(C, k) : q.key = p.key /\ q.value = p.value
<1> DEFINE q == [p EXCEPT !.alone = @ /\ p.key # k]
<1>1. q \in Crossed(C, k)
  BY DEF Crossed
<1>2. q.key = p.key /\ q.value = p.value
  BY DEF PutCall
<1> QED
  BY <1>1, <1>2

(* The inductive step of type correctness, one case per operation.          *)
LEMMA TypeStep ==
  ASSUME TypeOK, [Next]_vars
  PROVE  TypeOK'
<1> USE DEF Owner
<1>1. Lock \cup {NoLock} # {} /\ [txn |-> NoTxn, ok |-> TRUE] \in [txn : Owner \cup {NoTxn}, ok : BOOLEAN]
  OBVIOUS
<1>2. ASSUME NEW t \in Owner, NEW b \in BOOLEAN, Return(t, b)
      PROVE  resp' \in [txn : Owner \cup {NoTxn}, ok : BOOLEAN]
  BY <1>2 DEF Return
<1>3. ASSUME NEW t \in Owner, Refuse(t) PROVE TypeOK'
  BY <1>2, <1>3 DEF Refuse, TypeOK
<1>4. ASSUME NEW k \in Key, NEW v \in Value, NEW t \in Txn, Prepare(k, v, t)
      PROVE  TypeOK'
  <2>1. CASE LockedByOther(k, t) /\ Refuse(t)
    BY <1>3, <2>1
  <2>2. CASE /\ locks' = [locks EXCEPT ![k] = [txn |-> t, value |-> v]]
             /\ Return(t, TRUE) /\ UNCHANGED <<tree, putting>>
    BY <1>2, <2>2 DEF TypeOK, Lock
  <2> QED
    BY <1>4, <2>1, <2>2 DEF Prepare
<1>5. ASSUME NEW k \in Key, NEW t \in Owner, NEW ts \in CommitTs \cup {1},
             CommitIntent(k, t, ts)
      PROVE  /\ DOMAIN tree' \subseteq RawKey /\ \A r \in DOMAIN tree' : tree'[r] \in Value
             /\ locks' \in [Key -> Lock \cup {NoLock}]
             /\ resp' \in [txn : Owner \cup {NoTxn}, ok : BOOLEAN]
  <2>1. locks[k].value \in Value
    BY <1>5 DEF CommitIntent, HoldsIntent, TypeOK, Lock
  <2>2. EncodeKey(k, ts) \in RawKey
    BY RawKeyAssumption
  <2>3. tree' = ReplaceOrInsert([r \in {EncodeKey(k, ts)} |-> locks[k].value])
    BY <1>5 DEF CommitIntent
  <2>4. DOMAIN tree' \subseteq RawKey /\ \A r \in DOMAIN tree' : tree'[r] \in Value
    BY <2>1, <2>2, <2>3, InsertType
  <2>5. locks' \in [Key -> Lock \cup {NoLock}]
    BY <1>5 DEF CommitIntent, TypeOK
  <2> QED
    BY <1>2, <1>5, <2>4, <2>5 DEF CommitIntent
<1>6. ASSUME NEW k \in Key, NEW t \in Txn, NEW ts \in CommitTs, Commit(k, t, ts)
      PROVE  TypeOK'
  BY <1>3, <1>5, <1>6 DEF Commit, TypeOK
<1>7. ASSUME NEW k \in Key, NEW t \in Txn, Abort(k, t)
      PROVE  TypeOK'
  BY <1>2, <1>3, <1>7 DEF Abort, TypeOK
<1>8. ASSUME NEW b \in Batches, NEW t \in Txn, NEW ts \in CommitTs, OnePhaseCommit(b, t, ts)
      PROVE  TypeOK'
  <2>1. CASE (\E k \in BatchKeys(b) : LockedByOther(k, t)) /\ Refuse(t)
    BY <1>3, <2>1
  <2>2. CASE /\ tree' = ReplaceOrInsert(Written(b, ts))
             /\ locks' = [k \in Key |-> IF k \in BatchKeys(b) THEN NoLock ELSE locks[k]]
             /\ Return(t, TRUE) /\ UNCHANGED putting
    <3>1. DOMAIN tree' \subseteq RawKey /\ \A r \in DOMAIN tree' : tree'[r] \in Value
      BY <2>2, WrittenType, InsertType DEF TypeOK
    <3>2. locks' \in [Key -> Lock \cup {NoLock}]
      BY <2>2 DEF TypeOK
    <3> QED
      BY <1>2, <2>2, <3>1, <3>2 DEF TypeOK
  <2> QED
    BY <1>8, <2>1, <2>2 DEF OnePhaseCommit
<1>9. ASSUME NEW c \in Caller, NEW k \in Key, NEW v \in Value, PutPrepare(c, k, v)
      PROVE  TypeOK'
  <2>1. CASE LockedByOther(k, Legacy) /\ Refuse(Legacy)
    BY <1>3, <2>1
  <2>2. CASE /\ locks' = [locks EXCEPT ![k] = [txn |-> Legacy, value |-> v]]
             /\ putting' = PutCalls(c, k, v)
             /\ Return(Legacy, TRUE) /\ UNCHANGED tree
    <3>1. locks' \in [Key -> Lock \cup {NoLock}]
      BY <2>2 DEF TypeOK, Lock
    <3>2. putting' \subseteq PutCall
      <4>1. [by |-> c, key |-> k, value |-> v, alone |-> TRUE] \in PutCall
        BY DEF PutCall
      <4> QED
        BY <2>2, <4>1, CrossedType DEF PutCalls, TypeOK
    <3> QED
      BY <1>2, <2>2, <3>1, <3>2 DEF TypeOK
  <2> QED
    BY <1>9, <2>1, <2>2 DEF PutPrepare
<1>10. ASSUME NEW p \in putting, PutCommit(p) PROVE TypeOK'
  <2>1. p.key \in Key
    BY DEF TypeOK, PutCall
  <2>2. CASE CommitIntent(p.key, Legacy, 1) /\ putting' = Crossed(putting \ {p}, p.key)
    <3>1. putting' \subseteq PutCall
      BY <2>2, CrossedType DEF TypeOK
    <3> QED
      BY <1>5, <2>1, <2>2, <3>1 DEF TypeOK
  <2>3. CASE Return(Legacy, FALSE) /\ putting' = putting \ {p} /\ UNCHANGED <<tree, locks>>
    BY <1>2, <2>3 DEF TypeOK
  <2> QED
    BY <1>10, <2>2, <2>3 DEF PutCommit
<1>11. ASSUME NEW s \in Timestamp, RunGC(s) PROVE TypeOK'
  BY <1>11 DEF RunGC, Return, Restrict, TypeOK
<1>12. ASSUME NEW m \in Imports, Ingest(m) PROVE TypeOK'
  <2>1. DOMAIN tree' \subseteq RawKey /\ \A r \in DOMAIN tree' : tree'[r] \in Value
    BY <1>12, ImportAssumption, InsertType DEF Ingest, TypeOK
  <2> QED
    BY <1>12, <2>1 DEF Ingest, Return, TypeOK
<1>13. ASSUME RestoreSnapshot PROVE TypeOK'
  <2>1. PICK data \in [{Coerce(r) : r \in DOMAIN tree} -> Value] : tree' = data
    BY <1>13 DEF RestoreSnapshot
  <2>2. DOMAIN tree' \subseteq RawKey /\ \A r \in DOMAIN tree' : tree'[r] \in Value
    BY <2>1, RawKeyAssumption DEF TypeOK
  <2> QED
    BY <1>13, <2>2 DEF RestoreSnapshot, Return, TypeOK
<1>14. CASE UNCHANGED vars
  BY <1>14 DEF vars, TypeOK
<1> QED
  BY <1>4, <1>6, <1>7, <1>8, <1>9, <1>10, <1>11, <1>12, <1>13, <1>14 DEF Next, EngineNext

(* The engine's state is well typed in every reachable state, whatever the  *)
(* keys, the values, the callers and the width of a timestamp.              *)
THEOREM TypeCorrect == Spec => []TypeOK
<1>1. Init => TypeOK
  BY DEF Init, NewMemoryStore, TypeOK, Owner
<1> QED
  BY <1>1, TypeStep, PTL DEF Spec

-----------------------------------------------------------------------------
(* The lock table.                                                          *)

(* A step that changes an entry of the lock table belongs to its owner: one *)
(* case per operation that writes the table.                                *)
LEMMA OwnerStep ==
  ASSUME TypeOK, [Next]_vars, NEW k \in Key, locks[k] # NoLock, locks'[k] # locks[k]
  PROVE  resp'.txn = locks[k].txn
<1> USE DEF LockedByOther, HoldsIntent, Return, TypeOK
<1>1. ASSUME NEW j \in Key, NEW v \in Value, NEW t \in Txn, Prepare(j, v, t)
      PROVE  resp'.txn = locks[k].txn
  BY <1>1 DEF Prepare, Refuse
<1>2. ASSUME NEW j \in Key, NEW t \in Owner, NEW ts, CommitIntent(j, t, ts)
      PROVE  resp'.txn = locks[k].txn
  BY <1>2 DEF CommitIntent
<1>3. ASSUME NEW j \in Key, NEW t \in Txn, NEW ts \in CommitTs, Commit(j, t, ts)
      PROVE  resp'.txn = locks[k].txn
  BY <1>2, <1>3 DEF Commit, Refuse, Owner
<1>4. ASSUME NEW j \in Key, NEW t \in Txn, Abort(j, t)
      PROVE  resp'.txn = locks[k].txn
  BY <1>4 DEF Abort, Refuse
<1>5. ASSUME NEW b \in Batches, NEW t \in Txn, NEW ts \in CommitTs, OnePhaseCommit(b, t, ts)
      PROVE  resp'.txn = locks[k].txn
  BY <1>5 DEF OnePhaseCommit, Refuse
<1>6. ASSUME NEW c \in Caller, NEW j \in Key, NEW v \in Value, PutPrepare(c, j, v)
      PROVE  resp'.txn = locks[k].txn
  BY <1>6 DEF PutPrepare, Refuse
<1>7. ASSUME NEW p \in putting, PutCommit(p) PROVE resp'.txn = locks[k].txn
  <2>1. p.key \in Key /\ Legacy \in Owner
    BY DEF PutCall, Owner
  <2> QED
    BY <1>2, <1>7, <2>1 DEF PutCommit
<1>8. ASSUME UNCHANGED locks PROVE FALSE
  BY <1>8
<1>9. (\E s \in Timestamp : RunGC(s)) \/ (\E m \in Imports : Ingest(m)) \/ RestoreSnapshot
        => UNCHANGED locks
  BY DEF RunGC, Ingest, RestoreSnapshot
<1> QED
  BY <1>1, <1>3, <1>4, <1>5, <1>6, <1>7, <1>8, <1>9 DEF Next, EngineNext, vars

(* No operation takes another transaction's intent away, in any reachable   *)
(* state and for any number of transactions.                                *)
THEOREM IntentOwnership == Spec => IntentOwner
<1>1. TypeOK /\ [Next]_vars
        => [\A k \in Key : locks[k] # NoLock /\ locks'[k] # locks[k] =>
              resp'.txn = locks[k].txn]_vars
  BY OwnerStep
<1> QED
  BY <1>1, TypeCorrect, PTL DEF Spec, IntentOwner

(* What a step of a caller other than a Put leaves alone: the calls of Put  *)
(* in progress, and every entry under "legacy", since no client has that id *)
(* and only its owner changes an entry.                                     *)
LEMMA LegacyUntouched ==
  ASSUME TypeOK, [Next]_vars,
         ~(\E c \in Caller, k \in Key, v \in Value : PutPrepare(c, k, v)),
         ~(\E p \in putting : PutCommit(p)),
         NEW k \in Key
  PROVE  /\ UNCHANGED putting
         /\ HoldsIntent(k, Legacy) => locks'[k] = locks[k]
         /\ HoldsIntent(k, Legacy)' => locks'[k] = locks[k]
<1> DEFINE Kept == /\ UNCHANGED putting
                   /\ HoldsIntent(k, Legacy) => locks'[k] = locks[k]
                   /\ HoldsIntent(k, Legacy)' => locks'[k] = locks[k]
<1>1. ASSUME UNCHANGED <<locks, putting>> PROVE Kept
  BY <1>1
<1>2. ASSUME NEW t \in Txn, NEW b, Return(t, b) PROVE resp'.txn # Legacy
  BY <1>2, OwnerAssumption DEF Return
<1>3. ASSUME resp'.txn # Legacy PROVE HoldsIntent(k, Legacy) => locks'[k] = locks[k]
  BY <1>3, OwnerStep DEF HoldsIntent
<1>4. ASSUME NEW j \in Key, NEW v \in Value, NEW t \in Txn, Prepare(j, v, t) PROVE Kept
  <2>1. CASE Refuse(t)
    BY <1>1, <2>1 DEF Refuse
  <2>2. CASE /\ locks' = [locks EXCEPT ![j] = [txn |-> t, value |-> v]]
             /\ Return(t, TRUE) /\ UNCHANGED <<tree, putting>>
    <3>1. HoldsIntent(k, Legacy)' => locks'[k] = locks[k]
      BY <2>2, OwnerAssumption DEF HoldsIntent, TypeOK
    <3> QED
      BY <1>2, <1>3, <2>2, <3>1
  <2> QED
    BY <1>4, <2>1, <2>2 DEF Prepare
<1>5. ASSUME NEW j \in Key, NEW t \in Txn, NEW ts \in CommitTs, Commit(j, t, ts) PROVE Kept
  <2>1. CASE Refuse(t)
    BY <1>1, <2>1 DEF Refuse
  <2>2. CASE CommitIntent(j, t, ts) /\ UNCHANGED putting
    <3>1. HoldsIntent(k, Legacy)' => locks'[k] = locks[k]
      BY <2>2 DEF HoldsIntent, TypeOK, CommitIntent
    <3>2. Return(t, TRUE)
      BY <2>2 DEF CommitIntent
    <3> QED
      BY <1>2, <1>3, <2>2, <3>1, <3>2
  <2> QED
    BY <1>5, <2>1, <2>2 DEF Commit
<1>6. ASSUME NEW j \in Key, NEW t \in Txn, Abort(j, t) PROVE Kept
  <2>1. CASE Refuse(t)
    BY <1>1, <2>1 DEF Refuse
  <2>2. CASE /\ locks' = [locks EXCEPT ![j] = NoLock]
             /\ Return(t, TRUE) /\ UNCHANGED <<tree, putting>>
    <3>1. HoldsIntent(k, Legacy)' => locks'[k] = locks[k]
      BY <2>2 DEF HoldsIntent, TypeOK
    <3> QED
      BY <1>2, <1>3, <2>2, <3>1
  <2> QED
    BY <1>6, <2>1, <2>2 DEF Abort
<1>7. ASSUME NEW b \in Batches, NEW t \in Txn, NEW ts \in CommitTs, OnePhaseCommit(b, t, ts)
      PROVE  Kept
  <2>1. CASE Refuse(t)
    BY <1>1, <2>1 DEF Refuse
  <2>2. CASE /\ locks' = [j \in Key |-> IF j \in BatchKeys(b) THEN NoLock ELSE locks[j]]
             /\ Return(t, TRUE) /\ UNCHANGED putting
    <3>1. HoldsIntent(k, Legacy)' => locks'[k] = locks[k]
      BY <2>2 DEF HoldsIntent
    <3> QED
      BY <1>2, <1>3, <2>2, <3>1
  <2> QED
    BY <1>7, <2>1, <2>2 DEF OnePhaseCommit
<1>8. ASSUME \/ \E s \in Timestamp : RunGC(s)
             \/ \E m \in Imports : Ingest(m)
             \/ RestoreSnapshot
             \/ UNCHANGED vars
      PROVE  Kept
  BY <1>1, <1>8 DEF RunGC, Ingest, RestoreSnapshot, vars
<1> QED
  BY <1>4, <1>5, <1>6, <1>7, <1>8 DEF Next, EngineNext

(* What the intents under "legacy" and the calls of Put have to do with one *)
(* another.                                                                 *)
PutInv == PutHoldsIntent /\ PutLeavesNoIntent

(* A step keeps both: the first and the second critical section of a Put    *)
(* flag the calls they cross, and only the call that wrote an entry, or one *)
(* that commits it, goes while the entry is there.                          *)
LEMMA PutStep ==
  ASSUME TypeOK, PutInv, [Next]_vars
  PROVE  PutInv'
<1> DEFINE Own(p) == [txn |-> Legacy, value |-> p.value]
<1>0. putting \in SUBSET PutCall
  BY DEF TypeOK
<1>1. ASSUME NEW c \in Caller, NEW k \in Key, NEW v \in Value, PutPrepare(c, k, v) PROVE PutInv'
  <2>1. CASE Refuse(Legacy)
    BY <2>1 DEF Refuse, PutInv, PutHoldsIntent, PutLeavesNoIntent, HoldsIntent
  <2>2. CASE /\ locks' = [locks EXCEPT ![k] = [txn |-> Legacy, value |-> v]]
             /\ putting' = PutCalls(c, k, v)
    <3> DEFINE new == [by |-> c, key |-> k, value |-> v, alone |-> TRUE]
    <3>1. /\ locks'[k] = [txn |-> Legacy, value |-> v]
          /\ \A j \in Key : j # k => locks'[j] = locks[j]
      BY <2>2 DEF TypeOK
    <3>2. putting' = Crossed(putting, k) \cup {new}
      BY <2>2 DEF PutCalls
    <3>3. ASSUME NEW q \in putting', q.alone PROVE locks'[q.key] = Own(q)
      <4>1. CASE q = new
        BY <3>1, <4>1
      <4>2. CASE q \in Crossed(putting, k)
        <5>1. PICK p \in putting : /\ q.key = p.key /\ q.value = p.value
                                   /\ q.alone = (p.alone /\ p.key # k)
          BY <1>0, <4>2, CrossedCalls
        <5>2. p.key \in Key /\ p.key # k /\ p.alone
          BY <1>0, <3>3, <5>1 DEF PutCall
        <5> QED
          BY <3>1, <5>1, <5>2 DEF PutInv, PutHoldsIntent
      <4> QED
        BY <3>2, <4>1, <4>2
    <3>4. ASSUME NEW j \in Key, HoldsIntent(j, Legacy)'
          PROVE  \E q \in putting' : q.key = j /\ q.value = locks'[j].value
      <4>1. CASE j = k
        <5>1. new \in putting' /\ new.key = j /\ new.value = locks'[j].value
          BY <3>1, <3>2, <4>1
        <5> QED
          BY <5>1
      <4>2. CASE j # k
        <5>1. HoldsIntent(j, Legacy) /\ locks'[j] = locks[j]
          BY <3>1, <3>4, <4>2 DEF HoldsIntent
        <5>2. PICK p \in putting : p.key = j /\ p.value = locks[j].value
          BY <5>1 DEF PutInv, PutLeavesNoIntent
        <5> QED
          BY <1>0, <3>2, <5>1, <5>2, CrossedKeeps
      <4> QED
        BY <4>1, <4>2
    <3> QED
      BY <3>3, <3>4 DEF PutInv, PutHoldsIntent, PutLeavesNoIntent
  <2> QED
    BY <1>1, <2>1, <2>2 DEF PutPrepare
<1>2. ASSUME NEW p \in putting, PutCommit(p) PROVE PutInv'
  <2>0. p.key \in Key /\ putting \ {p} \in SUBSET PutCall
    BY <1>0 DEF PutCall
  <2>1. CASE CommitIntent(p.key, Legacy, 1) /\ putting' = Crossed(putting \ {p}, p.key)
    <3>1. locks'[p.key] = NoLock /\ \A j \in Key : j # p.key => locks'[j] = locks[j]
      BY <2>0, <2>1 DEF CommitIntent, TypeOK
    <3>2. ASSUME NEW q \in putting', q.alone PROVE locks'[q.key] = Own(q)
      <4>1. PICK r \in putting \ {p} : /\ q.key = r.key /\ q.value = r.value
                                      /\ q.alone = (r.alone /\ r.key # p.key)
        BY <2>0, <2>1, CrossedCalls
      <4>2. r.key \in Key /\ r.key # p.key /\ r.alone
        BY <1>0, <3>2, <4>1 DEF PutCall
      <4> QED
        BY <3>1, <4>1, <4>2 DEF PutInv, PutHoldsIntent
    <3>3. ASSUME NEW j \in Key, HoldsIntent(j, Legacy)'
          PROVE  \E q \in putting' : q.key = j /\ q.value = locks'[j].value
      <4>1. j # p.key
        BY <3>1, <3>3 DEF HoldsIntent
      <4>2. HoldsIntent(j, Legacy) /\ locks'[j] = locks[j]
        BY <3>1, <3>3, <4>1 DEF HoldsIntent
      <4>3. PICK r \in putting : r.key = j /\ r.value = locks[j].value
        BY <4>2 DEF PutInv, PutLeavesNoIntent
      <4>4. r \in putting \ {p}
        BY <4>1, <4>3
      <4> QED
        BY <2>0, <2>1, <4>2, <4>3, <4>4, CrossedKeeps
    <3> QED
      BY <3>2, <3>3 DEF PutInv, PutHoldsIntent, PutLeavesNoIntent
  <2>2. CASE /\ ~HoldsIntent(p.key, Legacy) /\ putting' = putting \ {p}
             /\ UNCHANGED <<tree, locks>>
    <3>1. PutHoldsIntent'
      BY <2>2 DEF PutInv, PutHoldsIntent
    <3>2. PutLeavesNoIntent'
      BY <2>2 DEF PutInv, PutLeavesNoIntent, HoldsIntent
    <3> QED
      BY <3>1, <3>2 DEF PutInv
  <2> QED
    BY <1>2, <2>1, <2>2 DEF PutCommit
<1>3. ASSUME ~(\E c \in Caller, k \in Key, v \in Value : PutPrepare(c, k, v)),
             ~(\E p \in putting : PutCommit(p))
      PROVE  PutInv'
  <2>1. \A k \in Key : /\ UNCHANGED putting
                       /\ HoldsIntent(k, Legacy) => locks'[k] = locks[k]
                       /\ HoldsIntent(k, Legacy)' => locks'[k] = locks[k]
    BY <1>3, LegacyUntouched
  <2>2. PutLeavesNoIntent'
    <3> SUFFICES ASSUME NEW j \in Key, HoldsIntent(j, Legacy)'
                 PROVE  \E q \in putting' : q.key = j /\ q.value = locks'[j].value
      BY DEF PutLeavesNoIntent
    <3>1. putting' = putting /\ locks'[j] = locks[j]
      BY <2>1
    <3>2. HoldsIntent(j, Legacy)
      BY <3>1 DEF HoldsIntent
    <3> QED
      BY <3>1, <3>2 DEF PutInv, PutLeavesNoIntent
  <2>3. PutHoldsIntent'
    <3>1. ASSUME NEW q \in putting', q.alone PROVE locks'[q.key] = Own(q)
      <4>0. q.key \in Key
        BY <3>1, TypeStep DEF TypeOK, PutCall
      <4>1. q \in putting /\ q.value \in Value
        BY <1>0, <2>1, <3>1, <4>0 DEF PutCall
      <4>2. locks[q.key] = Own(q)
        BY <3>1, <4>1 DEF PutInv, PutHoldsIntent
      <4>3. HoldsIntent(q.key, Legacy)
        BY <4>0, <4>1, <4>2, LockAssumption DEF HoldsIntent, Lock, Owner
      <4> QED
        BY <2>1, <4>0, <4>2, <4>3
    <3> QED
      BY <3>1 DEF PutHoldsIntent
  <2> QED
    BY <2>2, <2>3 DEF PutInv
<1> QED
  BY <1>1, <1>2, <1>3

LEMMA PutsHold == Spec => []PutInv
<1>1. Init => PutInv
  BY LockAssumption DEF Init, NewMemoryStore, PutInv, PutHoldsIntent, PutLeavesNoIntent, HoldsIntent
<1> QED
  BY <1>1, PutStep, TypeCorrect, PTL DEF Spec

(* The intent of a Put, with its value, survives until its second critical  *)
(* section, whatever runs in between that is not a Put of the same key: for *)
(* any number of callers of Put, whose id no transaction has.               *)
THEOREM PutSafe == Spec => []PutHoldsIntent
  BY PutsHold, PTL DEF PutInv

(* Any number of Puts that cross leave no intent behind.                    *)
THEOREM PutsRelease == Spec => []PutLeavesNoIntent
  BY PutsHold, PTL DEF PutInv

-----------------------------------------------------------------------------
(* What the callers see.                                                    *)

(* A call that answers with an error changes neither tree nor lock table.   *)
LEMMA RefusalStep ==
  ASSUME Next, ~resp'.ok
  PROVE  UNCHANGED <<tree, locks>>
<1> USE DEF Refuse
<1>1. ASSUME NEW t, Return(t, TRUE) PROVE FALSE
  <2>1. resp'.ok = TRUE
    BY <1>1 DEF Return
  <2> QED
    BY <2>1, Zenon
<1>2. ASSUME NEW k \in Key, NEW v \in Value, NEW t \in Txn, Prepare(k, v, t)
      PROVE  UNCHANGED <<tree, locks>>
  BY <1>1, <1>2 DEF Prepare
<1>3. ASSUME NEW k \in Key, NEW t \in Txn, NEW ts \in CommitTs, Commit(k, t, ts)
      PROVE  UNCHANGED <<tree, locks>>
  BY <1>1, <1>3 DEF Commit, CommitIntent
<1>4. ASSUME NEW k \in Key, NEW t \in Txn, Abort(k, t)
      PROVE  UNCHANGED <<tree, locks>>
  BY <1>1, <1>4 DEF Abort
<1>5. ASSUME NEW b \in Batches, NEW t \in Txn, NEW ts \in CommitTs, OnePhaseCommit(b, t, ts)
      PROVE  UNCHANGED <<tree, locks>>
  BY <1>1, <1>5 DEF OnePhaseCommit
<1>6. ASSUME NEW c \in Caller, NEW k \in Key, NEW v \in Value, PutPrepare(c, k, v)
      PROVE  UNCHANGED <<tree, locks>>
  BY <1>1, <1>6 DEF PutPrepare
<1>7. ASSUME NEW p \in putting, PutCommit(p)
      PROVE  UNCHANGED <<tree, locks>>
  BY <1>1, <1>7 DEF PutCommit, CommitIntent
<1>8. ~(\E s \in Timestamp : RunGC(s)) /\ ~(\E m \in Imports : Ingest(m)) /\ ~RestoreSnapshot
  BY <1>1 DEF RunGC, Ingest, RestoreSnapshot
<1> QED
  BY <1>2, <1>3, <1>4, <1>5, <1>6, <1>7, <1>8 DEF Next, EngineNext

(* An error means that the call had no effect at all, for batches of any    *)
(* length.                                                                  *)
THEOREM Refusals == Spec => RefusalChangesNothing
<1>1. [Next]_vars => [~resp'.ok => UNCHANGED <<tree, locks>>]_vars
  BY RefusalStep
<1> QED
  BY <1>1, PTL DEF Spec, RefusalChangesNothing

(* Garbage collection is invisible at and above safeTs in every reachable   *)
(* state, for any set of keys (prefixes of one another or not) and any      *)
(* timestamp width.                                                         *)
THEOREM GCSafe == Spec => GCPreservesReads
<1>1. TypeOK => [tree' # tree => \A s \in Timestamp : RunGC(s) =>
                   \A k \in Key, ts \in s .. MaxTs :
                     /\ NewestAt(DOMAIN tree', k, ts) = NewestAt(DOMAIN tree, k, ts)
                     /\ \A r \in NewestAt(DOMAIN tree, k, ts) : tree'[r] = tree[r]]_vars
  BY GCKeepsNewest
<1> QED
  BY <1>1, TypeCorrect, PTL DEF Spec, GCPreservesReads
=============================================================================
