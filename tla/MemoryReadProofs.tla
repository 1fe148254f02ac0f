-------------------------- MODULE MemoryReadProofs --------------------------
(* Proofs about the reads of the storage engine: what a walk in the order   *)
(* of raw keys returns, against the versions the tree holds.                *)
EXTENDS MemoryStoreProofs, FiniteSetTheorems

-----------------------------------------------------------------------------
(* bytes.Compare is a strict total order.                                   *)

LEMMA BytesTypes ==
  ASSUME NEW a \in Bytes
  PROVE  Len(a) \in Nat /\ \A i \in 1 .. Len(a) : a[i] \in Nat
  BY LenProperties, ElementOfSeq DEF Bytes

LEMMA LexAsymmetric ==
  ASSUME NEW a \in Bytes, NEW b \in Bytes, LexLess(a, b)
  PROVE  ~LexLess(b, a)
<1> SUFFICES ASSUME LexLess(b, a) PROVE FALSE
  OBVIOUS
<1>1. PICK i \in 1 .. Len(b) : /\ i - 1 <= Len(a) /\ \A j \in 1 .. (i - 1) : a[j] = b[j]
                               /\ i <= Len(a) => a[i] < b[i]
  BY DEF LexLess
<1>2. PICK m \in 1 .. Len(a) : /\ m - 1 <= Len(b) /\ \A j \in 1 .. (m - 1) : b[j] = a[j]
                               /\ m <= Len(b) => b[m] < a[m]
  BY DEF LexLess
<1>3. /\ Len(a) \in Nat /\ \A j \in 1 .. Len(a) : a[j] \in Nat
      /\ Len(b) \in Nat /\ \A j \in 1 .. Len(b) : b[j] \in Nat
  BY BytesTypes
<1>4. CASE i < m
  <2>1. i \in 1 .. (m - 1) /\ i \in 1 .. Len(a)
    BY <1>3, <1>4
  <2> QED
    BY <1>1, <1>2, <1>3, <2>1
<1>5. CASE m < i
  <2>1. m \in 1 .. (i - 1) /\ m \in 1 .. Len(b)
    BY <1>3, <1>5
  <2> QED
    BY <1>1, <1>2, <1>3, <2>1
<1>6. CASE i = m
  BY <1>1, <1>2, <1>3, <1>6
<1> QED
  BY <1>3, <1>4, <1>5, <1>6

LEMMA LexTransitive ==
  ASSUME NEW a \in Bytes, NEW b \in Bytes, NEW c \in Bytes, LexLess(a, b), LexLess(b, c)
  PROVE  LexLess(a, c)
<1>1. PICK i \in 1 .. Len(b) : /\ i - 1 <= Len(a) /\ \A j \in 1 .. (i - 1) : a[j] = b[j]
                               /\ i <= Len(a) => a[i] < b[i]
  BY DEF LexLess
<1>2. PICK m \in 1 .. Len(c) : /\ m - 1 <= Len(b) /\ \A j \in 1 .. (m - 1) : b[j] = c[j]
                               /\ m <= Len(b) => b[m] < c[m]
  BY DEF LexLess
<1>3. /\ Len(a) \in Nat /\ \A j \in 1 .. Len(a) : a[j] \in Nat
      /\ Len(b) \in Nat /\ \A j \in 1 .. Len(b) : b[j] \in Nat
      /\ Len(c) \in Nat /\ \A j \in 1 .. Len(c) : c[j] \in Nat
  BY BytesTypes
<1>4. CASE i < m
  <2>1. i \in 1 .. (m - 1) /\ i \in 1 .. Len(c)
    BY <1>3, <1>4
  <2>2. \A j \in 1 .. (i - 1) : j \in 1 .. (m - 1) /\ a[j] = c[j]
    BY <1>1, <1>2, <1>4
  <2>3. i <= Len(a) => a[i] < c[i]
    BY <1>1, <1>2, <2>1
  <2> QED
    BY <1>1, <2>1, <2>2, <2>3 DEF LexLess
<1>5. CASE m < i
  <2>1. m \in 1 .. (i - 1) /\ m \in 1 .. Len(b) /\ m - 1 <= Len(a)
    BY <1>1, <1>3, <1>5
  <2>2. \A j \in 1 .. (m - 1) : j \in 1 .. (i - 1) /\ a[j] = c[j]
    BY <1>1, <1>2, <1>5
  <2>3. m <= Len(a) => a[m] < c[m]
    BY <1>1, <1>2, <2>1
  <2> QED
    BY <2>1, <2>2, <2>3 DEF LexLess
<1>6. CASE i = m
  <2>1. \A j \in 1 .. (i - 1) : a[j] = c[j]
    BY <1>1, <1>2, <1>6
  <2>2. i <= Len(a) => a[i] < c[i]
    BY <1>1, <1>2, <1>3, <1>6
  <2> QED
    BY <1>1, <1>6, <2>1, <2>2 DEF LexLess
<1> QED
  BY <1>3, <1>4, <1>5, <1>6

LEMMA LexTotal ==
  ASSUME NEW a \in Bytes, NEW b \in Bytes
  PROVE  a = b \/ LexLess(a, b) \/ LexLess(b, a)
<1> SUFFICES ASSUME a # b PROVE LexLess(a, b) \/ LexLess(b, a)
  OBVIOUS
<1> DEFINE D == {i \in Nat \ {0} : \/ i <= Len(a) /\ i <= Len(b) /\ a[i] # b[i]
                                   \/ i <= Len(a) /\ ~(i <= Len(b))
                                   \/ ~(i <= Len(a)) /\ i <= Len(b)}
<1>1. /\ Len(a) \in Nat /\ \A j \in 1 .. Len(a) : a[j] \in Nat
      /\ Len(b) \in Nat /\ \A j \in 1 .. Len(b) : b[j] \in Nat
  BY BytesTypes
<1>2. D # {}
  <2> SUFFICES ASSUME D = {} PROVE FALSE
    OBVIOUS
  <2>1. Len(a) = Len(b)
    <3>1. ~(Len(a) < Len(b))
      <4> SUFFICES ASSUME Len(a) < Len(b) PROVE FALSE
        OBVIOUS
      <4>1. Len(b) \in D
        BY <1>1
      <4> QED
        BY <4>1
    <3>2. ~(Len(b) < Len(a))
      <4> SUFFICES ASSUME Len(b) < Len(a) PROVE FALSE
        OBVIOUS
      <4>1. Len(a) \in D
        BY <1>1
      <4> QED
        BY <4>1
    <3> QED
      BY <1>1, <3>1, <3>2
  <2>2. \A i \in 1 .. Len(a) : a[i] = b[i]
    <3> SUFFICES ASSUME NEW i \in 1 .. Len(a), a[i] # b[i] PROVE FALSE
      OBVIOUS
    <3>1. i \in D
      BY <1>1, <2>1
    <3> QED
      BY <3>1
  <2> QED
    BY <2>1, <2>2, SeqEqual DEF Bytes
<1>3. PICK m \in D : \A i \in D : m <= i
  <2>1. D \in SUBSET Nat
    OBVIOUS
  <2> QED
    BY <1>2, <2>1, LeastElement
<1>4. \A j \in 1 .. (m - 1) : j <= Len(a) /\ j <= Len(b) /\ a[j] = b[j]
  <2> SUFFICES ASSUME NEW j \in 1 .. (m - 1) PROVE j <= Len(a) /\ j <= Len(b) /\ a[j] = b[j]
    OBVIOUS
  <2>1. j \notin D /\ j \in Nat \ {0} /\ j < m
    BY <1>3
  <2>2. j <= Len(a) \/ j <= Len(b)
    <3>1. m <= Len(a) \/ m <= Len(b)
      OBVIOUS
    <3> QED
      BY <1>1, <2>1, <3>1
  <2> QED
    BY <2>1, <2>2
<1>5. m - 1 <= Len(a) /\ m - 1 <= Len(b)
  <2>1. CASE m = 1
    BY <1>1, <2>1
  <2>2. CASE m # 1
    <3>1. m - 1 \in 1 .. (m - 1)
      BY <2>2
    <3> QED
      BY <1>4, <3>1
  <2> QED
    BY <2>1, <2>2
<1>6. CASE m <= Len(b) /\ (m <= Len(a) => a[m] < b[m])
  <2>1. m \in 1 .. Len(b)
    BY <1>1, <1>6
  <2> QED
    BY <1>4, <1>5, <1>6, <2>1 DEF LexLess
<1>7. CASE m <= Len(a) /\ (m <= Len(b) => b[m] < a[m])
  <2>1. m \in 1 .. Len(a)
    BY <1>1, <1>7
  <2> QED
    BY <1>4, <1>5, <1>7, <2>1 DEF LexLess
<1>8. \/ m <= Len(b) /\ (m <= Len(a) => a[m] < b[m])
      \/ m <= Len(a) /\ (m <= Len(b) => b[m] < a[m])
  BY <1>1
<1> QED
  BY <1>6, <1>7, <1>8

-----------------------------------------------------------------------------
(* Prefixes.                                                                *)

(* HasPrefix, byte by byte.                                                 *)
Starts(s, k) == Len(k) <= Len(s) /\ \A i \in 1 .. Len(k) : s[i] = k[i]

LEMMA PrefixBytes ==
  ASSUME NEW s \in Bytes, NEW k \in Bytes
  PROVE  HasPrefix(s, k) <=> Starts(s, k)
<1>1. Len(s) \in Nat /\ Len(k) \in Nat /\ \A i \in 1 .. Len(s) : s[i] \in Nat
  BY BytesTypes
<1> SUFFICES ASSUME Len(k) <= Len(s)
             PROVE  SubSeq(s, 1, Len(k)) = k <=> \A i \in 1 .. Len(k) : s[i] = k[i]
  BY DEF HasPrefix, Starts
<1>2. \A i \in 1 .. Len(k) : s[i] \in Nat
  BY <1>1
<1>3. /\ SubSeq(s, 1, Len(k)) \in Seq(Nat) /\ Len(SubSeq(s, 1, Len(k))) = Len(k)
      /\ \A i \in 1 .. Len(k) : SubSeq(s, 1, Len(k))[i] = s[i]
  BY <1>1, <1>2, SubSeqProperties
<1> QED
  BY <1>3, SeqEqual DEF Bytes

(* What an encoding looks like, byte by byte.                               *)
LEMMA EncodedBytes ==
  ASSUME NEW k \in Bytes, NEW ts \in Timestamp
  PROVE  LET e == EncodeKey(k, ts)
             b == BigEndian(MaxTs - ts)
         IN  /\ e \in Bytes /\ Len(e) = Len(k) + Width /\ Starts(e, k)
             /\ \A i \in 1 .. Width : b[i] \in Nat /\ e[Len(k) + i] = b[i]
<1> DEFINE e == EncodeKey(k, ts)
           b == BigEndian(MaxTs - ts)
<1> USE WidthAssumption, MaxTsAssumption
<1>1. MaxTs - ts \in Timestamp
  BY DEF Timestamp
<1>2. b \in Seq(Nat) /\ Len(b) = Width
  BY <1>1, BigEndianWidth
<1>3. Len(k) \in Nat
  BY BytesTypes
<1>4. /\ e \in Bytes /\ Len(e) = Len(k) + Width
      /\ \A i \in 1 .. Len(k) + Width : e[i] = IF i <= Len(k) THEN k[i] ELSE b[i - Len(k)]
  BY <1>2, ConcatProperties DEF EncodeKey, Bytes
<1> HIDE DEF e, b
<1>5. \A i \in 1 .. Width : b[i] \in Nat
  BY <1>2, ElementOfSeq
<1>6. \A i \in 1 .. Width : e[Len(k) + i] = b[i]
  <2> SUFFICES ASSUME NEW i \in 1 .. Width PROVE e[Len(k) + i] = b[i]
    OBVIOUS
  <2>1. Len(k) + i \in 1 .. Len(k) + Width /\ ~(Len(k) + i <= Len(k)) /\ (Len(k) + i) - Len(k) = i
    BY <1>3
  <2> QED
    BY <1>4, <2>1
<1>7. Starts(e, k)
  BY <1>3, <1>4 DEF Starts
<1> QED
  BY <1>4, <1>5, <1>6, <1>7 DEF e, b

LEMMA RawBytes ==
  ASSUME NEW r \in RawKey
  PROVE  /\ r \in Bytes /\ DecodedKey(r) \in Bytes
         /\ Starts(r, DecodedKey(r)) /\ Len(r) = Len(DecodedKey(r)) + Width
  BY EncodeDecode, EncodedBytes

(* What lies between two strings with a common prefix has that prefix.      *)
LEMMA Between ==
  ASSUME NEW k \in Bytes, NEW p \in Bytes, NEW q \in Bytes, NEW n \in Bytes,
         Starts(p, k), Starts(n, k), LexLeq(p, q), LexLeq(q, n)
  PROVE  Starts(q, k)
<1>1. /\ Len(k) \in Nat /\ \A j \in 1 .. Len(k) : k[j] \in Nat
      /\ Len(p) \in Nat /\ \A j \in 1 .. Len(p) : p[j] \in Nat
      /\ Len(q) \in Nat /\ \A j \in 1 .. Len(q) : q[j] \in Nat
      /\ Len(n) \in Nat /\ \A j \in 1 .. Len(n) : n[j] \in Nat
  BY BytesTypes
<1>2. /\ Len(k) <= Len(p) /\ \A j \in 1 .. Len(k) : p[j] = k[j]
      /\ Len(k) <= Len(n) /\ \A j \in 1 .. Len(k) : n[j] = k[j]
  BY DEF Starts
<1> SUFFICES ASSUME LexLess(p, q), LexLess(q, n) PROVE Starts(q, k)
  BY DEF LexLeq
<1>3. PICK i \in 1 .. Len(q) : /\ i - 1 <= Len(p) /\ \A j \in 1 .. (i - 1) : p[j] = q[j]
                               /\ i <= Len(p) => p[i] < q[i]
  BY DEF LexLess
<1>4. PICK m \in 1 .. Len(n) : /\ m - 1 <= Len(q) /\ \A j \in 1 .. (m - 1) : q[j] = n[j]
                               /\ m <= Len(q) => q[m] < n[m]
  BY DEF LexLess
<1>5. CASE Len(k) < i
  <2>1. \A j \in 1 .. Len(k) : j \in 1 .. (i - 1)
    BY <1>1, <1>5
  <2>2. \A j \in 1 .. Len(k) : q[j] = k[j]
    BY <1>2, <1>3, <2>1
  <2> QED
    BY <1>1, <1>5, <2>2 DEF Starts
<1>6. CASE i <= Len(k)
  <2>1. i \in 1 .. Len(k) /\ i <= Len(p)
    BY <1>1, <1>2, <1>6
  <2>2. k[i] < q[i] /\ n[i] = k[i]
    BY <1>2, <1>3, <2>1
  <2>3. ~(i < m)
    <3> SUFFICES ASSUME i < m PROVE FALSE
      OBVIOUS
    <3>1. i \in 1 .. (m - 1)
      BY <1>1
    <3> QED
      BY <1>1, <1>4, <2>1, <2>2, <3>1
  <2>4. m # i
    BY <1>1, <1>4, <2>1, <2>2
  <2>5. ~(m < i)
    <3> SUFFICES ASSUME m < i PROVE FALSE
      OBVIOUS
    <3>1. m \in 1 .. (i - 1) /\ m \in 1 .. Len(k) /\ m <= Len(q)
      BY <1>1, <2>1
    <3>2. q[m] = k[m] /\ n[m] = k[m]
      BY <1>2, <1>3, <3>1
    <3> QED
      BY <1>1, <1>4, <3>1, <3>2
  <2> QED
    BY <1>1, <2>3, <2>4, <2>5
<1> QED
  BY <1>1, <1>5, <1>6

(* Of two prefixes of one string, one is a prefix of the other.             *)
LEMMA CommonPrefix ==
  ASSUME NEW s \in Bytes, NEW j \in Bytes, NEW k \in Bytes, Starts(s, j), Starts(s, k)
  PROVE  Starts(j, k) \/ Starts(k, j)
<1>1. Len(j) \in Nat /\ Len(k) \in Nat
  BY BytesTypes
<1>2. CASE Len(k) <= Len(j)
  BY <1>1, <1>2 DEF Starts
<1>3. CASE Len(j) <= Len(k)
  BY <1>1, <1>3 DEF Starts
<1> QED
  BY <1>1, <1>2, <1>3

(* The order of user keys is the order of raw keys, unless the smaller key  *)
(* is a prefix of the larger.                                               *)
LEMMA KeyOrder ==
  ASSUME NEW j \in Bytes, NEW k \in Bytes, NEW a \in Bytes, NEW b \in Bytes,
         LexLess(j, k), ~Starts(k, j), Starts(a, j), Starts(b, k)
  PROVE  LexLess(a, b)
<1>1. /\ Len(j) \in Nat /\ Len(k) \in Nat /\ Len(a) \in Nat /\ Len(b) \in Nat
  BY BytesTypes
<1>2. PICK i \in 1 .. Len(k) : /\ i - 1 <= Len(j) /\ \A m \in 1 .. (i - 1) : j[m] = k[m]
                               /\ i <= Len(j) => j[i] < k[i]
  BY DEF LexLess
<1>3. i <= Len(j)
  <2> SUFFICES ASSUME ~(i <= Len(j)) PROVE FALSE
    OBVIOUS
  <2>1. Len(j) = i - 1
    BY <1>1, <1>2
  <2>2. Len(j) <= Len(k) /\ \A m \in 1 .. Len(j) : k[m] = j[m]
    BY <1>1, <1>2, <2>1
  <2> QED
    BY <2>2 DEF Starts
<1>4. /\ i \in 1 .. Len(j) /\ a[i] = j[i] /\ b[i] = k[i] /\ i \in 1 .. Len(b)
      /\ Len(j) <= Len(a)
  BY <1>1, <1>2, <1>3 DEF Starts
<1>5. \A m \in 1 .. (i - 1) : m \in 1 .. Len(j) /\ m \in 1 .. Len(k)
  BY <1>1, <1>4
<1>6. \A m \in 1 .. (i - 1) : a[m] = b[m]
  BY <1>2, <1>5 DEF Starts
<1>7. a[i] < b[i] /\ i - 1 <= Len(a)
  BY <1>1, <1>2, <1>3, <1>4
<1> QED
  BY <1>4, <1>6, <1>7 DEF LexLess

-----------------------------------------------------------------------------
(* Versions in the order of the tree.                                       *)

(* An older version of a key is not before a newer one.                     *)
LEMMA OlderAfter ==
  ASSUME NEW k \in Bytes, NEW t \in Timestamp, NEW u \in Timestamp, t <= u
  PROVE  LexLeq(EncodeKey(k, u), EncodeKey(k, t))
<1>1. EncodeKey(k, t) \in Bytes /\ EncodeKey(k, u) \in Bytes
  BY DecodeEncode
<1>2. ~LexLess(EncodeKey(k, t), EncodeKey(k, u))
  <2> SUFFICES ASSUME LexLess(EncodeKey(k, t), EncodeKey(k, u)) PROVE FALSE
    OBVIOUS
  <2>1. u < t
    BY NewerFirst
  <2> QED
    BY <2>1, MaxTsAssumption DEF Timestamp
<1> QED
  BY <1>1, <1>2, LexTotal DEF LexLeq

(* Where a version of a key is from its own encodings at other timestamps.  *)
LEMMA VersionPlace ==
  ASSUME NEW r \in RawKey, NEW ts \in Timestamp
  PROVE  LexLeq(EncodeKey(DecodedKey(r), ts), r) <=> DecodedTs(r) <= ts
<1>1. /\ r \in Bytes /\ DecodedKey(r) \in Bytes /\ DecodedTs(r) \in Timestamp
      /\ r = EncodeKey(DecodedKey(r), DecodedTs(r))
  BY EncodeDecode
<1> DEFINE p == EncodeKey(DecodedKey(r), ts)
<1>2. p \in Bytes
  BY <1>1, DecodeEncode
<1>3. ASSUME DecodedTs(r) <= ts PROVE LexLeq(p, r)
  BY <1>1, <1>3, OlderAfter
<1>4. ASSUME LexLeq(p, r), ~(DecodedTs(r) <= ts) PROVE FALSE
  <2>1. ts <= DecodedTs(r) /\ ts # DecodedTs(r)
    BY <1>1, <1>4, MaxTsAssumption DEF Timestamp
  <2>2. LexLeq(r, p)
    BY <1>1, <2>1, OlderAfter
  <2>3. DecodedTs(p) = ts
    BY <1>1, DecodeEncode
  <2>4. r # p
    BY <2>1, <2>3
  <2> QED
    BY <1>1, <1>2, <1>4, <2>2, <2>4, LexAsymmetric DEF LexLeq
<1> QED
  BY <1>3, <1>4

(* Two versions of a key in the order of the tree.                          *)
LEMMA VersionOrder ==
  ASSUME NEW q \in RawKey, NEW r \in RawKey, DecodedKey(q) = DecodedKey(r)
  PROVE  /\ LexLeq(q, r) <=> DecodedTs(r) <= DecodedTs(q)
         /\ DecodedTs(q) = DecodedTs(r) => q = r
<1>1. /\ DecodedTs(q) \in Timestamp /\ q = EncodeKey(DecodedKey(r), DecodedTs(q))
      /\ DecodedTs(r) \in Timestamp /\ r = EncodeKey(DecodedKey(r), DecodedTs(r))
  BY EncodeDecode
<1>2. LexLeq(EncodeKey(DecodedKey(r), DecodedTs(q)), r) <=> DecodedTs(r) <= DecodedTs(q)
  BY <1>1, VersionPlace
<1> QED
  BY <1>1, <1>2

-----------------------------------------------------------------------------
(* The seek: the first item at or after a place among the encodings of a    *)
(* key, against the newest version the place leaves visible.                *)

FirstFrom(p) ==
  {r \in DOMAIN tree : LexLeq(p, r) /\ \A q \in DOMAIN tree : LexLeq(p, q) => LexLeq(r, q)}

(* p stands before the versions of k no newer than ts, after the others.    *)
Divides(p, k, ts) ==
  \A r \in RawKey : DecodedKey(r) = k => (LexLeq(p, r) <=> DecodedTs(r) <= ts)

(* Keys one of which is a prefix of the other.                              *)
Related(j, k) == Starts(j, k) \/ Starts(k, j)

(* If the first item belongs to k, it is the newest version.                *)
LEMMA FirstIsNewest ==
  ASSUME TypeOK, NEW k, NEW ts \in Timestamp, NEW p, Divides(p, k, ts),
         NEW s \in FirstFrom(p), DecodedKey(s) = k
  PROVE  NewestAt(DOMAIN tree, k, ts) = {s}
<1> DEFINE V == VisibleAt(DOMAIN tree, k, ts)
<1>1. DOMAIN tree \subseteq RawKey /\ s \in DOMAIN tree /\ s \in RawKey
  BY DEF TypeOK, FirstFrom
<1>2. LexLeq(p, s) /\ \A q \in DOMAIN tree : LexLeq(p, q) => LexLeq(s, q)
  BY DEF FirstFrom
<1>3. s \in V
  BY <1>1, <1>2 DEF VisibleAt, Divides
<1>4. ASSUME NEW q \in V PROVE DecodedTs(q) <= DecodedTs(s)
  <2>1. q \in DOMAIN tree /\ q \in RawKey /\ DecodedKey(q) = k /\ DecodedTs(q) <= ts
    BY <1>1 DEF VisibleAt
  <2>2. LexLeq(s, q)
    BY <1>2, <2>1 DEF Divides
  <2> QED
    BY <1>1, <2>1, <2>2, VersionOrder
<1>5. ASSUME NEW q \in NewestAt(DOMAIN tree, k, ts) PROVE q = s
  <2>1. q \in V /\ q \in RawKey /\ DecodedKey(q) = k
    BY <1>1 DEF NewestAt, VisibleAt
  <2>2. DecodedTs(s) <= DecodedTs(q) /\ DecodedTs(q) <= DecodedTs(s)
    BY <1>3, <1>4, <2>1 DEF NewestAt
  <2>3. DecodedTs(s) \in Nat /\ DecodedTs(q) \in Nat
    BY <1>1, <2>1, EncodeDecode, MaxTsAssumption DEF Timestamp
  <2> QED
    BY <1>1, <2>1, <2>2, <2>3, VersionOrder
<1>6. s \in NewestAt(DOMAIN tree, k, ts)
  BY <1>3, <1>4 DEF NewestAt
<1> QED
  BY <1>5, <1>6

(* If it does not, though there is a version to return, an item of a        *)
(* related key stands before that version.                                  *)
LEMMA FirstOrShadow ==
  ASSUME TypeOK, NEW k \in Bytes, NEW ts \in Timestamp, NEW p \in Bytes, Starts(p, k),
         Divides(p, k, ts), NEW n \in NewestAt(DOMAIN tree, k, ts), n \notin FirstFrom(p)
  PROVE  \E q \in DOMAIN tree : DecodedKey(q) # k /\ Related(DecodedKey(q), k)
<1>1. DOMAIN tree \subseteq RawKey
  BY DEF TypeOK
<1>2. n \in DOMAIN tree /\ n \in RawKey /\ DecodedKey(n) = k /\ DecodedTs(n) <= ts
  BY <1>1 DEF NewestAt, VisibleAt
<1>3. LexLeq(p, n)
  BY <1>2 DEF Divides
<1>4. PICK q \in DOMAIN tree : LexLeq(p, q) /\ ~LexLeq(n, q)
  BY <1>2, <1>3 DEF FirstFrom
<1>5. /\ q \in RawKey /\ q \in Bytes /\ DecodedKey(q) \in Bytes /\ Starts(q, DecodedKey(q))
      /\ n \in Bytes /\ Starts(n, k)
  BY <1>1, <1>2, RawBytes
<1>6. LexLeq(q, n)
  BY <1>4, <1>5, LexTotal DEF LexLeq
<1>7. Starts(q, k)
  BY <1>3, <1>4, <1>5, <1>6, Between
<1>8. Related(DecodedKey(q), k)
  BY <1>5, <1>7, CommonPrefix DEF Related
<1>9. DecodedKey(q) # k
  <2> SUFFICES ASSUME DecodedKey(q) = k PROVE FALSE
    OBVIOUS
  <2>1. DecodedTs(q) <= ts
    BY <1>4, <1>5 DEF Divides
  <2>2. DecodedTs(q) <= DecodedTs(n)
    BY <2>1 DEF NewestAt, VisibleAt
  <2> QED
    BY <1>2, <1>4, <1>5, <2>2, VersionOrder
<1> QED
  BY <1>8, <1>9

(* Both together, for the values a point read returns.                      *)
LEMMA PointRead ==
  ASSUME TypeOK, NEW k \in Bytes, NEW ts \in Timestamp, NEW p \in Bytes, Starts(p, k),
         Divides(p, k, ts)
  PROVE  LET val == {tree[r] : r \in {s \in FirstFrom(p) : DecodedKey(s) = k}} IN
         \/ val = {tree[r] : r \in NewestAt(DOMAIN tree, k, ts)}
         \/ /\ val = {}
            /\ \E q \in DOMAIN tree : DecodedKey(q) # k /\ Related(DecodedKey(q), k)
<1> DEFINE mine == {s \in FirstFrom(p) : DecodedKey(s) = k}
           new == NewestAt(DOMAIN tree, k, ts)
<1>1. ASSUME NEW s \in mine PROVE mine = new
  <2>1. new = {s}
    BY FirstIsNewest
  <2>2. \A q \in mine : new = {q}
    BY FirstIsNewest
  <2> QED
    BY <2>1, <2>2
<1>2. CASE mine # {}
  <2>1. mine = new
    BY <1>1, <1>2
  <2> QED
    BY <2>1
<1>3. CASE mine = {} /\ new = {}
  BY <1>3
<1>4. CASE mine = {} /\ new # {}
  <2>1. PICK n \in new : TRUE
    BY <1>4
  <2>2. DecodedKey(n) = k
    BY DEF NewestAt, VisibleAt
  <2>3. n \notin FirstFrom(p)
    BY <1>4, <2>2
  <2>4. \E q \in DOMAIN tree : DecodedKey(q) # k /\ Related(DecodedKey(q), k)
    BY <2>1, <2>3, FirstOrShadow
  <2> QED
    BY <1>4, <2>4
<1> QED
  BY <1>2, <1>3, <1>4

LEMMA SeekDivides ==
  ASSUME NEW k \in Bytes, NEW ts \in Timestamp
  PROVE  Divides(EncodeKey(k, ts), k, ts)
  BY VersionPlace DEF Divides

(* What mvccGetLocked returns.                                              *)
LEMMA SeekRead ==
  ASSUME TypeOK, NEW k \in Key, NEW ts \in Timestamp
  PROVE  \/ mvccGetLocked(k, ts) = {tree[r] : r \in NewestAt(DOMAIN tree, k, ts)}
         \/ /\ mvccGetLocked(k, ts) = {}
            /\ \E q \in DOMAIN tree : DecodedKey(q) # k /\ Related(DecodedKey(q), k)
<1>1. k \in Bytes
  BY KeyAssumption
<1>2. EncodeKey(k, ts) \in Bytes /\ Starts(EncodeKey(k, ts), k)
  BY <1>1, EncodedBytes
<1>3. Divides(EncodeKey(k, ts), k, ts)
  BY <1>1, SeekDivides
<1>4. Seek(EncodeKey(k, ts)) = FirstFrom(EncodeKey(k, ts))
  BY DEF Seek, FirstFrom
<1> QED
  BY <1>1, <1>2, <1>3, <1>4, PointRead DEF mvccGetLocked

(* Whatever the keys are and whatever was imported or restored, a point     *)
(* read of a key without an intent (memory.go GetTxn, mvccGetLocked) never  *)
(* returns another version than the newest visible one; it may return none  *)
(* only if a key is stored that is a prefix of the key or extends it.       *)
THEOREM ReadsNewestOrNothing == Spec => []ReadsNewestUnlessShadowed
<1>1. TypeOK => ReadsNewestUnlessShadowed
  <2> SUFFICES ASSUME TypeOK, NEW k \in Key, NEW ts \in Timestamp, GetTxn(k, ts).ok
               PROVE  \/ GetTxn(k, ts).val = {tree[r] : r \in NewestAt(DOMAIN tree, k, ts)}
                      \/ /\ GetTxn(k, ts).val = {}
                         /\ \E r \in DOMAIN tree :
                              /\ DecodedKey(r) # k
                              /\ HasPrefix(DecodedKey(r), k) \/ HasPrefix(k, DecodedKey(r))
    BY DEF ReadsNewestUnlessShadowed
  <2>1. GetTxn(k, ts).val = mvccGetLocked(k, ts)
    BY DEF GetTxn
  <2>2. \A r \in DOMAIN tree : DecodedKey(r) \in Bytes
    BY RawBytes DEF TypeOK
  <2>3. \A r \in DOMAIN tree : Related(DecodedKey(r), k) =>
          HasPrefix(DecodedKey(r), k) \/ HasPrefix(k, DecodedKey(r))
    BY <2>2, KeyAssumption, PrefixBytes DEF Related
  <2> QED
    BY <2>1, <2>3, SeekRead
<1> QED
  BY <1>1, TypeCorrect, PTL

-----------------------------------------------------------------------------
(* Table scans.                                                             *)

(* Nothing with a prefix stands before the prefix's encoding at MaxTs,      *)
(* whose timestamp is all zero bytes.                                       *)
LEMMA ScanStart ==
  ASSUME NEW p \in Bytes, NEW r \in RawKey, Starts(DecodedKey(r), p)
  PROVE  LexLeq(EncodeKey(p, MaxTs), r) /\ Starts(r, p)
<1> DEFINE e == EncodeKey(p, MaxTs)
<1> USE WidthAssumption, MaxTsAssumption
<1>1. MaxTs \in Timestamp /\ MaxTs - MaxTs = 0
  BY DEF Timestamp
<1>2. /\ e \in Bytes /\ Len(e) = Len(p) + Width /\ Starts(e, p)
      /\ \A i \in 1 .. Width : e[Len(p) + i] = 0
  BY <1>1, EncodedBytes, BigEndianZero
<1>3. /\ r \in Bytes /\ DecodedKey(r) \in Bytes /\ Starts(r, DecodedKey(r))
      /\ Len(r) = Len(DecodedKey(r)) + Width
  BY RawBytes
<1>4. /\ Len(p) \in Nat /\ Len(r) \in Nat /\ Len(DecodedKey(r)) \in Nat
      /\ \A i \in 1 .. Len(r) : r[i] \in Nat
      /\ \A i \in 1 .. Len(p) : p[i] \in Nat
  BY <1>3, BytesTypes
<1>5. Starts(r, p) /\ Len(p) + Width <= Len(r)
  BY <1>3, <1>4 DEF Starts
<1> HIDE DEF e
<1>6. ~LexLess(r, e)
  <2> SUFFICES ASSUME LexLess(r, e) PROVE FALSE
    OBVIOUS
  <2>1. PICK i \in 1 .. Len(e) : i <= Len(r) => r[i] < e[i]
    BY DEF LexLess
  <2>2. i \in 1 .. Len(r) /\ r[i] < e[i] /\ r[i] \in Nat
    BY <1>2, <1>4, <1>5, <2>1
  <2>3. CASE i <= Len(p)
    <3>1. i \in 1 .. Len(p)
      BY <1>4, <2>3
    <3>2. r[i] = p[i] /\ e[i] = p[i]
      BY <1>2, <1>5, <3>1 DEF Starts
    <3> QED
      BY <1>4, <2>2, <3>1, <3>2
  <2>4. CASE ~(i <= Len(p))
    <3>1. i - Len(p) \in 1 .. Width /\ Len(p) + (i - Len(p)) = i
      BY <1>2, <1>4, <2>4
    <3>2. e[i] = 0
      BY <1>2, <3>1
    <3> QED
      BY <2>2, <3>2
  <2> QED
    BY <2>3, <2>4
<1> QED
  BY <1>2, <1>3, <1>5, <1>6, LexTotal DEF LexLeq, e

(* Where a table scan stops all items with the table's prefix are behind:   *)
(* no byte of a user key is 0xFF.                                           *)
LEMMA ScanEnd ==
  ASSUME NEW p \in Bytes, NEW r \in RawKey, Starts(r, p), NEW s \in RawKey,
         LexLeq(Append(p, MaxByte), DecodedKey(s))
  PROVE  LexLess(r, s)
<1> DEFINE e == Append(p, MaxByte)
           d == DecodedKey(s)
<1>1. /\ r \in Bytes /\ s \in Bytes /\ d \in Bytes /\ Starts(s, d)
  BY RawBytes
<1>2. /\ Len(p) \in Nat /\ Len(r) \in Nat /\ Len(s) \in Nat /\ Len(d) \in Nat
      /\ \A i \in 1 .. Len(d) : d[i] \in Nat /\ d[i] < MaxByte
  BY <1>1, BytesTypes, TextAssumption
<1>3. /\ Len(e) = Len(p) + 1 /\ e[Len(p) + 1] = MaxByte
      /\ \A i \in 1 .. Len(p) : e[i] = p[i]
  BY AppendProperties, TextAssumption DEF Bytes
<1> HIDE DEF e, d
<1>4. LexLess(e, d)
  <2> SUFFICES ASSUME e = d PROVE FALSE
    BY DEF LexLeq, e, d
  <2>1. Len(p) + 1 \in 1 .. Len(d) /\ d[Len(p) + 1] = MaxByte
    BY <1>2, <1>3
  <2> QED
    BY <1>2, <2>1, TextAssumption
<1>5. PICK i \in 1 .. Len(d) : /\ i - 1 <= Len(e) /\ \A j \in 1 .. (i - 1) : e[j] = d[j]
                               /\ i <= Len(e) => e[i] < d[i]
  BY <1>4 DEF LexLess
<1>6. i <= Len(p)
  <2> SUFFICES ASSUME ~(i <= Len(p)) PROVE FALSE
    OBVIOUS
  <2>1. CASE i = Len(p) + 1
    BY <1>2, <1>3, <1>5, <2>1, TextAssumption
  <2>2. CASE i # Len(p) + 1
    <3>1. Len(p) + 1 \in 1 .. (i - 1) /\ Len(p) + 1 \in 1 .. Len(d)
      BY <1>2, <2>2
    <3> QED
      BY <1>2, <1>3, <1>5, <3>1, TextAssumption
  <2> QED
    BY <2>1, <2>2
<1>7. i \in 1 .. Len(p) /\ i - 1 <= Len(r) /\ i \in 1 .. Len(s) /\ p[i] < d[i]
  BY <1>1, <1>2, <1>3, <1>5, <1>6 DEF Starts
<1>8. r[i] = p[i] /\ s[i] = d[i]
  BY <1>1, <1>2, <1>5, <1>7 DEF Starts
<1>9. \A j \in 1 .. (i - 1) : r[j] = s[j]
  <2> SUFFICES ASSUME NEW j \in 1 .. (i - 1) PROVE r[j] = s[j]
    OBVIOUS
  <2>1. j \in 1 .. Len(p) /\ j \in 1 .. Len(d)
    BY <1>2, <1>5, <1>7
  <2> QED
    BY <1>1, <1>3, <1>5, <2>1 DEF Starts
<1> QED
  BY <1>7, <1>8, <1>9 DEF LexLess

(* Whatever the keys are and whatever was imported or restored, a table     *)
(* scan (executor.go executeScan) gives each key of the table once, in its  *)
(* newest visible version, and misses none.                                 *)
THEOREM TableScansExact == Spec => []TableScanNewest
<1>1. ASSUME TypeOK, NEW p \in Key, NEW ts \in {1, MaxTs}
      PROVE  LET visible == {r \in DOMAIN tree : HasPrefix(DecodedKey(r), p) /\ DecodedTs(r) <= ts}
             IN  executeScan(p, ts) =
                   {r \in visible : \A q \in visible :
                      DecodedKey(q) = DecodedKey(r) => DecodedTs(q) <= DecodedTs(r)}
  <2> DEFINE D == DOMAIN tree
             visible == {r \in D : HasPrefix(DecodedKey(r), p) /\ DecodedTs(r) <= ts}
             from == {r \in Scan(p, {Append(p, MaxByte)}) :
                        HasPrefix(DecodedKey(r), p) /\ DecodedTs(r) <= ts}
  <2>1. D \subseteq RawKey /\ p \in Bytes
    BY <1>1, KeyAssumption DEF TypeOK
  <2>2. ASSUME NEW r \in D, HasPrefix(DecodedKey(r), p)
        PROVE  r \in Scan(p, {Append(p, MaxByte)})
    <3>1. DecodedKey(r) \in Bytes
      BY <2>1, RawBytes
    <3>2. Starts(DecodedKey(r), p)
      BY <2>1, <2>2, <3>1, PrefixBytes
    <3>3. LexLeq(EncodeKey(p, MaxTs), r) /\ Starts(r, p)
      BY <2>1, <3>2, ScanStart
    <3>4. \A s \in D : LexLeq(Append(p, MaxByte), DecodedKey(s)) => LexLess(r, s)
      BY <2>1, <3>3, ScanEnd
    <3> QED
      BY <2>2, <3>3, <3>4 DEF Scan
  <2>3. Scan(p, {Append(p, MaxByte)}) \subseteq D
    BY DEF Scan
  <2>4. from = visible
    BY <2>2, <2>3
  <2>5. \A q, r \in visible : DecodedKey(q) = DecodedKey(r) =>
          (LexLeq(r, q) <=> DecodedTs(q) <= DecodedTs(r))
    BY <2>1, VersionOrder
  <2>6. executeScan(p, ts) =
          {r \in from : \A q \in from : DecodedKey(q) = DecodedKey(r) => LexLeq(r, q)}
    BY DEF executeScan
  <2> HIDE DEF from, visible
  <2> QED
    BY <2>4, <2>5, <2>6 DEF visible
<1>2. TypeOK => TableScanNewest
  BY <1>1 DEF TableScanNewest
<1> QED
  BY <1>2, TypeCorrect, PTL

-----------------------------------------------------------------------------
(* Keys none of which is a prefix of another.  They stay the only ones      *)
(* without restores: a restored snapshot holds longer keys (Coerce).        *)

StoredOnly == \A r \in DOMAIN tree : DecodedKey(r) \in StoredKey

LEMMA StoredBytes == StoredKey \subseteq Bytes
  BY KeyAssumption, ImportAssumption, RawBytes DEF StoredKey

LEMMA StoredInsert ==
  ASSUME StoredOnly, NEW f, \A r \in DOMAIN f : DecodedKey(r) \in StoredKey,
         tree' = ReplaceOrInsert(f)
  PROVE  StoredOnly'
  BY DEF StoredOnly, ReplaceOrInsert

(* The engine without restores holds versions of those keys only.           *)
LEMMA StoredStep ==
  ASSUME TypeOK, StoredOnly, [EngineNext]_vars
  PROVE  StoredOnly'
<1>1. ASSUME NEW k \in Key, NEW ts \in Timestamp PROVE DecodedKey(EncodeKey(k, ts)) \in StoredKey
  BY <1>1, KeyAssumption, DecodeEncode DEF StoredKey
<1>2. ASSUME UNCHANGED tree PROVE StoredOnly'
  BY <1>2 DEF StoredOnly
<1>3. ASSUME NEW k \in Key, NEW t, NEW ts \in Timestamp, CommitIntent(k, t, ts)
      PROVE  StoredOnly'
  <2> DEFINE f == [r \in {EncodeKey(k, ts)} |-> locks[k].value]
  <2>1. tree' = ReplaceOrInsert(f)
    BY <1>3 DEF CommitIntent
  <2>2. \A r \in DOMAIN f : DecodedKey(r) \in StoredKey
    BY <1>1
  <2> QED
    BY <2>1, <2>2, StoredInsert
<1>4. ASSUME NEW k \in Key, NEW t \in Txn, NEW ts \in CommitTs, Commit(k, t, ts)
      PROVE  StoredOnly'
  BY <1>2, <1>3, <1>4, CommitTsAssumption DEF Commit, Refuse
<1>5. ASSUME NEW b \in Batches, NEW t \in Txn, NEW ts \in CommitTs, OnePhaseCommit(b, t, ts)
      PROVE  StoredOnly'
  <2>1. CASE tree' = ReplaceOrInsert(Written(b, ts))
    <3>1. \A r \in DOMAIN Written(b, ts) : DecodedKey(r) \in StoredKey
      BY <1>1, BatchTypes, CommitTsAssumption DEF Written
    <3> QED
      BY <2>1, <3>1, StoredInsert
  <2> QED
    BY <1>2, <1>5, <2>1 DEF OnePhaseCommit, Refuse
<1>6. ASSUME NEW p \in putting, PutCommit(p) PROVE StoredOnly'
  <2>1. p.key \in Key /\ 1 \in Timestamp
    BY MaxTsAssumption DEF TypeOK, PutCall, Timestamp
  <2>2. CASE CommitIntent(p.key, Legacy, 1)
    BY <1>3, <2>1, <2>2
  <2> QED
    BY <1>2, <1>6, <2>2 DEF PutCommit
<1>7. ASSUME NEW s \in Timestamp, RunGC(s) PROVE StoredOnly'
  BY <1>7 DEF RunGC, Restrict, StoredOnly
<1>8. ASSUME NEW m \in Imports, Ingest(m) PROVE StoredOnly'
  <2>1. \A r \in DOMAIN m : DecodedKey(r) \in StoredKey
    BY DEF StoredKey
  <2> QED
    BY <1>8, <2>1, StoredInsert DEF Ingest
<1>9. ASSUME NEW k \in Key, NEW v \in Value, NEW t \in Txn, Prepare(k, v, t)
      PROVE  StoredOnly'
  BY <1>2, <1>9 DEF Prepare, Refuse
<1>10. ASSUME NEW c \in Caller, NEW k \in Key, NEW v \in Value, PutPrepare(c, k, v)
       PROVE  StoredOnly'
  BY <1>2, <1>10 DEF PutPrepare, Refuse
<1>11. ASSUME NEW k \in Key, NEW t \in Txn, Abort(k, t) PROVE StoredOnly'
  BY <1>2, <1>11 DEF Abort, Refuse
<1>12. CASE UNCHANGED vars
  BY <1>2, <1>12 DEF vars
<1> QED
  BY <1>4, <1>5, <1>6, <1>7, <1>8, <1>9, <1>10, <1>11, <1>12 DEF EngineNext

EngineInv == TypeOK /\ StoredOnly

LEMMA EngineStored == EngineSpec => []EngineInv
<1>1. Init => EngineInv
  BY DEF Init, NewMemoryStore, TypeOK, Owner, StoredOnly, EngineInv
<1>2. EngineInv /\ [EngineNext]_vars => EngineInv'
  BY TypeStep, StoredStep DEF EngineInv, Next
<1> QED
  BY <1>1, <1>2, PTL DEF EngineSpec

(* No stored key is related to another one.                                 *)
LEMMA Unrelated ==
  ASSUME PrefixFree, NEW j \in StoredKey, NEW k \in StoredKey, Related(j, k)
  PROVE  j = k
<1>1. HasPrefix(j, k) \/ HasPrefix(k, j)
  BY StoredBytes, PrefixBytes DEF Related
<1> QED
  BY <1>1 DEF PrefixFree

(* With keys none of which is a prefix of another, a point read of a key    *)
(* without an intent returns the newest visible version, always (memory.go  *)
(* GetTxn; mvcc.go: "latest valid version of the key visible at readTs").   *)
THEOREM PointReadsNewest == ASSUME PrefixFree PROVE EngineSpec => []ReadsNewest
<1>1. EngineInv => ReadsNewest
  <2> SUFFICES ASSUME EngineInv, NEW k \in Key, NEW ts \in Timestamp, GetTxn(k, ts).ok
               PROVE  GetTxn(k, ts).val = {tree[r] : r \in NewestAt(DOMAIN tree, k, ts)}
    BY DEF ReadsNewest
  <2>1. GetTxn(k, ts).val = mvccGetLocked(k, ts)
    BY DEF GetTxn
  <2>2. \A q \in DOMAIN tree : Related(DecodedKey(q), k) => DecodedKey(q) = k
    BY Unrelated DEF EngineInv, StoredOnly, StoredKey
  <2>3. TypeOK
    BY DEF EngineInv
  <2> QED
    BY <2>1, <2>2, <2>3, SeekRead
<1> QED
  BY <1>1, EngineStored, PTL

-----------------------------------------------------------------------------
(* Range scans.                                                             *)

(* Stored keys are ordered as their raw keys are.                           *)
LEMMA StoredOrder ==
  ASSUME PrefixFree, NEW j \in StoredKey, NEW k \in StoredKey, LexLess(j, k),
         NEW a \in Bytes, NEW b \in Bytes, Starts(a, j), Starts(b, k)
  PROVE  LexLess(a, b)
<1>1. j \in Bytes /\ k \in Bytes
  BY StoredBytes
<1>2. ~Starts(k, j)
  <2> SUFFICES ASSUME Starts(k, j) PROVE FALSE
    OBVIOUS
  <2>1. j = k
    BY Unrelated DEF Related
  <2> QED
    BY <1>1, <2>1, LexAsymmetric
<1> QED
  BY <1>1, <1>2, KeyOrder

(* With such keys an export of [start, end) has exactly the versions of the *)
(* user keys in that range (memory.go ScanRange), wherever the walk over    *)
(* raw keys begins and ends.                                                *)
THEOREM ExportsExact == ASSUME PrefixFree PROVE EngineSpec => []ScanRangeExact
<1>1. ASSUME EngineInv, NEW s \in Key, NEW end \in {{}} \cup {{e} : e \in Key}
      PROVE  DOMAIN ScanRange(s, end) =
               {r \in DOMAIN tree : /\ LexLeq(s, DecodedKey(r))
                                    /\ \A e \in end : LexLess(DecodedKey(r), e)}
  <2> DEFINE D == DOMAIN tree
             p == EncodeKey(s, MaxTs)
             from == {r \in D : LexLeq(p, r)}
             stops == {r \in from : \E e \in end : LexLeq(e, DecodedKey(r))}
  <2>1. s \in StoredKey /\ s \in Bytes /\ MaxTs \in Timestamp
    BY KeyAssumption, MaxTsAssumption DEF StoredKey, Timestamp
  <2>2. p \in Bytes /\ Starts(p, s)
    BY <2>1, EncodedBytes
  <2>3. \A r \in D : /\ r \in RawKey /\ r \in Bytes /\ DecodedKey(r) \in Bytes
                     /\ Starts(r, DecodedKey(r)) /\ DecodedKey(r) \in StoredKey
    BY <1>1, RawBytes DEF EngineInv, TypeOK, StoredOnly
  <2>4. end \subseteq Key /\ end \subseteq StoredKey /\ end \subseteq Bytes
    BY KeyAssumption DEF StoredKey
  <2>5. ASSUME NEW r \in D PROVE LexLeq(p, r) <=> LexLeq(s, DecodedKey(r))
    <3>1. CASE DecodedKey(r) = s
      <4>1. DecodedTs(r) <= MaxTs
        BY <2>3, EncodeDecode, MaxTsAssumption DEF Timestamp
      <4> QED
        BY <2>1, <2>3, <3>1, <4>1, VersionPlace DEF LexLeq
    <3>2. CASE LexLess(s, DecodedKey(r))
      BY <2>1, <2>2, <2>3, <3>2, StoredOrder DEF LexLeq
    <3>3. CASE LexLess(DecodedKey(r), s)
      <4>1. LexLess(r, p)
        BY <2>1, <2>2, <2>3, <3>3, StoredOrder
      <4>2. ~LexLeq(p, r)
        BY <2>2, <2>3, <4>1, LexAsymmetric DEF LexLeq
      <4>3. ~LexLeq(s, DecodedKey(r))
        BY <2>1, <2>3, <3>3, LexAsymmetric DEF LexLeq
      <4> QED
        BY <4>2, <4>3
    <3> QED
      BY <2>1, <2>3, <3>1, <3>2, <3>3, LexTotal
  <2>6. ASSUME NEW r \in D, NEW t \in stops, \A e \in end : LexLess(DecodedKey(r), e)
        PROVE  LexLess(r, t)
    <3>1. PICK e \in end : LexLeq(e, DecodedKey(t))
      OBVIOUS
    <3>2. LexLess(DecodedKey(r), e)
      BY <2>6
    <3>3. LexLess(DecodedKey(r), DecodedKey(t))
      BY <2>3, <2>4, <3>1, <3>2, LexTransitive DEF LexLeq
    <3> QED
      BY <2>3, <3>3, StoredOrder
  <2>7. ASSUME NEW r \in from, NEW e \in end, ~LexLess(DecodedKey(r), e)
        PROVE  ~ \A t \in stops : LexLess(r, t)
    <3>1. LexLeq(e, DecodedKey(r))
      BY <2>3, <2>4, <2>7, LexTotal DEF LexLeq
    <3>2. r \in stops
      BY <3>1
    <3>3. ~LexLess(r, r)
      BY <2>3, LexAsymmetric
    <3> QED
      BY <3>2, <3>3
  <2>8. Scan(s, end) = {r \in from : \A t \in stops : LexLess(r, t)}
    BY DEF Scan
  <2>9. DOMAIN ScanRange(s, end) = Scan(s, end)
    BY DEF ScanRange, Restrict, Scan
  <2>10. \A r \in D : r \in from <=> LexLeq(s, DecodedKey(r))
    BY <2>5
  <2> HIDE DEF from, stops
  <2>11. from \subseteq D
    BY DEF from
  <2>12. \A r \in from : (\A t \in stops : LexLess(r, t)) <=> \A e \in end : LexLess(DecodedKey(r), e)
    BY <2>6, <2>7, <2>11
  <2> QED
    BY <2>8, <2>9, <2>10, <2>11, <2>12
<1>2. EngineInv => ScanRangeExact
  BY <1>1 DEF ScanRangeExact
<1> QED
  BY <1>2, EngineStored, PTL

-----------------------------------------------------------------------------
(* Collection.                                                              *)

(* With such keys the versions of one key are neighbours in the tree, so    *)
(* RunGC (memory.go) leaves at most one version of each at or below safeTs. *)
THEOREM CollectsAll == ASSUME PrefixFree PROVE EngineSpec => GCComplete
<1>1. ASSUME EngineInv, NEW s \in Timestamp, RunGC(s), NEW k \in Key
      PROVE  Cardinality(VisibleAt(DOMAIN tree', k, s)) <= 1
  <2> DEFINE V == VisibleAt(DOMAIN tree', k, s)
  <2>1. DOMAIN tree' = DOMAIN tree \ Garbage(s)
    BY <1>1 DEF RunGC, Restrict
  <2>2. \A r \in DOMAIN tree : /\ r \in RawKey /\ r \in Bytes /\ DecodedKey(r) \in Bytes
                               /\ Starts(r, DecodedKey(r)) /\ DecodedKey(r) \in StoredKey
    BY <1>1, RawBytes DEF EngineInv, TypeOK, StoredOnly
  <2>3. k \in Bytes /\ k \in StoredKey
    BY KeyAssumption DEF StoredKey
  <2>4. ASSUME NEW q \in V, NEW r \in V PROVE ~LexLess(q, r)
    <3> SUFFICES ASSUME LexLess(q, r) PROVE FALSE
      OBVIOUS
    <3>1. /\ q \in DOMAIN tree /\ DecodedKey(q) = k /\ DecodedTs(q) <= s
          /\ r \in DOMAIN tree /\ DecodedKey(r) = k /\ DecodedTs(r) <= s
          /\ r \notin Garbage(s)
      BY <2>1 DEF VisibleAt
    <3>2. ASSUME NEW m \in DOMAIN tree, LexLeq(q, m), LexLeq(m, r) PROVE DecodedKey(m) = k
      <4>1. Starts(m, k)
        BY <2>2, <2>3, <3>1, <3>2, Between
      <4>2. Related(DecodedKey(m), k)
        BY <2>2, <2>3, <4>1, CommonPrefix DEF Related
      <4> QED
        BY <2>2, <2>3, <4>2, Unrelated
    <3>3. r \in Garbage(s)
      BY <3>1, <3>2 DEF Garbage
    <3> QED
      BY <3>1, <3>3
  <2>5. \A q, r \in V : q = r
    <3>1. \A q \in V : q \in Bytes
      BY <2>1, <2>2 DEF VisibleAt
    <3> QED
      BY <2>4, <3>1, LexTotal
  <2>6. CASE V = {}
    BY <2>6, FS_EmptySet
  <2>7. CASE V # {}
    <3>1. PICK q \in V : TRUE
      BY <2>7
    <3>2. V = {q}
      BY <2>5
    <3>3. Cardinality({q}) = 1
      BY FS_Singleton
    <3> QED
      BY <3>2, <3>3
  <2> QED
    BY <2>6, <2>7
<1>2. EngineInv => [\A s \in Timestamp : RunGC(s) =>
                     \A k \in Key : Cardinality(VisibleAt(DOMAIN tree', k, s)) <= 1]_vars
  BY <1>1
<1> QED
  BY <1>2, EngineStored, PTL DEF GCComplete
=============================================================================
