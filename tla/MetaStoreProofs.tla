-------------------------- MODULE MetaStoreProofs --------------------------
(* Proofs about the range map, for every number of keys, ranges and shards. *)
EXTENDS MetaStore, SetLemmas, TLAPS

-----------------------------------------------------------------------------
(* The inductive invariant: what every list of ranges looks like.           *)

(* The ranges follow one another from the least key to the greatest, each   *)
(* ending where the next one starts.                                        *)
Chained(rs) ==
  /\ rs[1].start = Nil /\ rs[Len(rs)].end = Nil
  /\ \A i \in 1 .. Len(rs) - 1 : rs[i].end = rs[i + 1].start

(* Unbounded starts come first; the others increase.                        *)
Sorted(rs) ==
  \A i, j \in 1 .. Len(rs) :
    i < j /\ rs[i].start # Nil => rs[j].start # Nil /\ rs[i].start < rs[j].start

WellFormed(rs) == rs \in Seq(Range) /\ rs # <<>> /\ Chained(rs) /\ Sorted(rs)

IInv ==
  /\ WellFormed(ranges)
  /\ WellFormed(snapshot.ranges)
  /\ shards \in [ShardID -> Addr \cup {NoAddr}]
  /\ snapshot \in [ranges : Seq(Range), shards : [ShardID -> Addr \cup {NoAddr}]]

-----------------------------------------------------------------------------
(* Lookups over well-formed ranges.                                         *)

(* Starts are keys or Nil, and lengths are positive.                        *)
LEMMA RangeTypes ==
  ASSUME NEW rs, WellFormed(rs)
  PROVE  /\ Len(rs) \in Nat \ {0}
         /\ \A i \in 1 .. Len(rs) :
              /\ rs[i] \in Range
              /\ rs[i].start # Nil => rs[i].start \in Nat
              /\ rs[i].end # Nil => rs[i].end \in Nat
<1>1. rs \in Seq(Range) /\ rs # <<>>
  BY DEF WellFormed
<1>2. Len(rs) \in Nat \ {0} /\ \A i \in 1 .. Len(rs) : rs[i] \in Range
  BY <1>1
<1>3. \A r \in Range : r.start \in Boundary /\ r.end \in Boundary
  BY DEF Range
<1>4. \A b \in Boundary : b # Nil => b \in Nat
  BY MetaBounds DEF Boundary, Key
<1> QED
  BY <1>2, <1>3, <1>4

(* A search key compares as a natural.                                      *)
LEMMA BytesNat ==
  ASSUME NEW key \in Boundary
  PROVE  Bytes(key) \in Nat
  BY MetaBounds DEF Bytes, Boundary, Key

(* The binary search finds the last range that does not start after key:    *)
(* there is one, all before it start no later, all behind it do.            *)
LEMMA SearchFinds ==
  ASSUME NEW rs, WellFormed(rs), NEW key \in Boundary
  PROVE  /\ Search(rs, key) \in 1 .. Len(rs)
         /\ \A i \in 1 .. Len(rs) : StartsAfter(rs, i, key) <=> i > Search(rs, key)
<1> DEFINE S == {i \in 1 .. Len(rs) : ~StartsAfter(rs, i, key)}
           P(n) == /\ \A i \in 1 .. n : ~StartsAfter(rs, i, key)
                   /\ n < Len(rs) => StartsAfter(rs, n + 1, key)
<1>1. Len(rs) \in Nat \ {0} /\ Bytes(key) \in Nat
  BY RangeTypes, BytesNat
<1>2. 1 \in S
  BY <1>1 DEF WellFormed, Chained, StartsAfter
<1>3. \A i, j \in 1 .. Len(rs) : i < j /\ StartsAfter(rs, i, key) => StartsAfter(rs, j, key)
  <2> SUFFICES ASSUME NEW i \in 1 .. Len(rs), NEW j \in 1 .. Len(rs), i < j,
                      StartsAfter(rs, i, key)
               PROVE  StartsAfter(rs, j, key)
    OBVIOUS
  <2>1. rs[j].start # Nil /\ rs[i].start < rs[j].start
    BY DEF StartsAfter, WellFormed, Sorted
  <2>2. rs[i].start \in Nat /\ rs[j].start \in Nat
    BY <2>1, RangeTypes DEF StartsAfter
  <2> QED
    BY <1>1, <2>1, <2>2 DEF StartsAfter
<1>4. S \in SUBSET (0 .. Len(rs))
  BY <1>1
<1>5. PICK m \in S : \A i \in S : i <= m
  BY <1>1, <1>2, <1>4, BoundedMax
<1>6. m \in 0 .. Len(rs) /\ P(m)
  <2>1. \A i \in 1 .. m : ~StartsAfter(rs, i, key)
    BY <1>1, <1>3
  <2>2. m < Len(rs) => StartsAfter(rs, m + 1, key)
    BY <1>1, <1>5
  <2> QED
    BY <1>1, <2>1, <2>2
<1>7. Search(rs, key) = CHOOSE n \in 0 .. Len(rs) : P(n)
  BY DEF Search
<1> HIDE DEF P
<1>8. Search(rs, key) \in 0 .. Len(rs) /\ P(Search(rs, key))
  BY <1>6, <1>7
<1> USE DEF P
<1>9. Search(rs, key) # 0
  BY <1>1, <1>2, <1>8
<1>10. ASSUME NEW i \in 1 .. Len(rs), i > Search(rs, key)
       PROVE  StartsAfter(rs, i, key)
  <2>1. StartsAfter(rs, Search(rs, key) + 1, key) /\ Search(rs, key) + 1 \in 1 .. Len(rs)
    BY <1>1, <1>8, <1>10
  <2> QED
    BY <1>1, <1>3, <1>8, <1>10, <2>1
<1> QED
  BY <1>1, <1>8, <1>9, <1>10

(* The range the search finds contains the key.                             *)
LEMMA FoundContains ==
  ASSUME NEW rs, WellFormed(rs), NEW k \in Key
  PROVE  Contains(rs[Search(rs, k)], k)
<1> DEFINE n == Search(rs, k)
<1>1. /\ n \in 1 .. Len(rs) /\ k \in Nat /\ Bytes(k) = k
      /\ \A i \in 1 .. Len(rs) : StartsAfter(rs, i, k) <=> i > n
  BY SearchFinds, MetaNil, MetaBounds DEF Boundary, Key, Bytes
<1> HIDE DEF n
<1>2. rs[n].start # Nil => rs[n].start <= k
  BY <1>1, RangeTypes DEF StartsAfter
<1>3. rs[n].end # Nil => k < rs[n].end
  <2> SUFFICES ASSUME rs[n].end # Nil PROVE k < rs[n].end
    OBVIOUS
  <2>1. n # Len(rs)
    BY DEF WellFormed, Chained
  <2>2. n \in 1 .. Len(rs) - 1 /\ n + 1 \in 1 .. Len(rs)
    BY <1>1, <2>1, RangeTypes
  <2>3. rs[n].end = rs[n + 1].start
    BY <2>2 DEF WellFormed, Chained
  <2> QED
    BY <1>1, <2>2, <2>3, RangeTypes DEF StartsAfter
<1> QED
  BY <1>2, <1>3 DEF Contains, n

(* As long as no split key was missing, no other range contains it.         *)
LEMMA FoundOnly ==
  ASSUME NEW rs, WellFormed(rs), SplitKeysGiven(rs), NEW k \in Key,
         NEW j \in 1 .. Len(rs), Contains(rs[j], k)
  PROVE  j = Search(rs, k)
<1> DEFINE n == Search(rs, k)
<1>1. /\ n \in 1 .. Len(rs) /\ k \in Nat /\ Bytes(k) = k /\ Len(rs) \in Nat
      /\ \A i \in 1 .. Len(rs) : StartsAfter(rs, i, k) <=> i > n
  BY SearchFinds, RangeTypes, MetaNil, MetaBounds DEF Boundary, Key, Bytes
<1> HIDE DEF n
<1>2. ASSUME j > n PROVE FALSE
  <2>1. rs[j].start # Nil /\ rs[j].start > k
    BY <1>1, <1>2 DEF StartsAfter
  <2> QED
    BY <1>1, <2>1, RangeTypes DEF Contains
<1>3. ASSUME j < n PROVE FALSE
  <2>1. j \in 1 .. Len(rs) - 1 /\ j + 1 \in 2 .. Len(rs) /\ n \in 2 .. Len(rs)
    BY <1>1, <1>3
  <2>2. rs[j].end = rs[j + 1].start /\ rs[j + 1].start # Nil /\ rs[n].start # Nil
    BY <2>1 DEF WellFormed, Chained, SplitKeysGiven
  <2>3. j + 1 = n \/ rs[j + 1].start < rs[n].start
    BY <1>1, <1>3, <2>1, <2>2 DEF WellFormed, Sorted
  <2>4. ~(rs[n].start > k)
    BY <1>1, <2>2 DEF StartsAfter
  <2>5. k < rs[j].end
    BY <2>2 DEF Contains
  <2> QED
    BY <1>1, <2>1, <2>2, <2>3, <2>4, <2>5, RangeTypes
<1> QED
  BY <1>1, <1>2, <1>3 DEF n

(* The meta node answers with the shard of the range that contains the key. *)
LEMMA GetShardOf ==
  ASSUME NEW rs, WellFormed(rs), SplitKeysGiven(rs), NEW k \in Key,
         NEW j \in 1 .. Len(rs), Contains(rs[j], k)
  PROVE  GetShard(rs, k) = rs[j].shard
<1>1. Search(rs, k) = j /\ j > 0
  BY FoundOnly
<1> QED
  BY <1>1 DEF GetShard

-----------------------------------------------------------------------------
(* The effect of a split.                                                   *)

(* What the code knows of the target of a split that passes the validation: *)
(* it starts before the split key, the range behind it after, and a split   *)
(* key is missing only where the target has no start.                       *)
LEMMA TargetOf ==
  ASSUME WellFormed(ranges), NEW key \in Boundary, ValidSplit(key)
  PROVE  /\ Target(key) \in 1 .. Len(ranges)
         /\ ranges[Target(key)].start # Nil => key # Nil /\ ranges[Target(key)].start < key
         /\ \A j \in Target(key) + 1 .. Len(ranges) :
              ranges[j].start # Nil /\ Bytes(key) < ranges[j].start
<1> DEFINE t == Target(key)
<1>1. /\ t \in 1 .. Len(ranges) /\ Len(ranges) \in Nat /\ Bytes(key) \in Nat
      /\ \A i \in 1 .. Len(ranges) : StartsAfter(ranges, i, key) <=> i > t
  BY SearchFinds, RangeTypes, BytesNat DEF Target
<1>2. ranges[t].start # Nil => ranges[t].start \in Nat /\ ranges[t].start < Bytes(key)
  BY <1>1, RangeTypes DEF ValidSplit
<1>3. ASSUME NEW j \in t + 1 .. Len(ranges)
      PROVE  ranges[j].start # Nil /\ Bytes(key) < ranges[j].start
  BY <1>1, RangeTypes DEF StartsAfter
<1> HIDE DEF t
<1>4. ranges[t].start # Nil => key # Nil /\ ranges[t].start < key
  BY <1>1, <1>2 DEF Bytes
<1> QED
  BY <1>1, <1>3, <1>4 DEF t

(* The new list, range by range.                                            *)
LEMMA SplitElements ==
  ASSUME WellFormed(ranges), NEW key \in Boundary, NEW id1 \in ShardID, NEW id2 \in ShardID,
         SplitRange(key, id1, id2)
  PROVE  LET t == Target(key) IN
         /\ ranges' \in Seq(Range) /\ Len(ranges') = Len(ranges) + 1
         /\ \A i \in 1 .. t - 1 : ranges'[i] = ranges[i]
         /\ ranges'[t] = [start |-> ranges[t].start, end |-> key, shard |-> id1]
         /\ ranges'[t + 1] = [start |-> key, end |-> ranges[t].end, shard |-> id2]
         /\ \A i \in t + 1 .. Len(ranges) : ranges'[i + 1] = ranges[i]
<1> DEFINE t == Target(key)
           n == Len(ranges)
           r1 == [start |-> ranges[t].start, end |-> key, shard |-> id1]
           r2 == [start |-> key, end |-> ranges[t].end, shard |-> id2]
<1>1. n \in Nat /\ t \in 1 .. n /\ \A i \in 1 .. n : ranges[i] \in Range
  BY TargetOf, RangeTypes DEF SplitRange
<1>2. r1 \in Range /\ r2 \in Range
  BY <1>1 DEF Range
<1>3. ranges' = [i \in 1 .. n + 1 |->
                   IF i < t THEN ranges[i] ELSE IF i = t THEN r1
                   ELSE IF i = t + 1 THEN r2 ELSE ranges[i - 1]]
  BY DEF SplitRange, Replaced
<1> HIDE DEF t, n, r1, r2
<1>4. \A i \in 1 .. n + 1 :
        (IF i < t THEN ranges[i] ELSE IF i = t THEN r1
         ELSE IF i = t + 1 THEN r2 ELSE ranges[i - 1]) \in Range
  BY <1>1, <1>2
<1>5. ranges' \in Seq(Range) /\ Len(ranges') = n + 1
  BY <1>1, <1>3, <1>4
<1>6. /\ \A i \in 1 .. t - 1 : ranges'[i] = ranges[i]
      /\ ranges'[t] = r1 /\ ranges'[t + 1] = r2
      /\ \A i \in t + 1 .. n : ranges'[i + 1] = ranges[i]
  BY <1>1, <1>3
<1> QED
  BY <1>5, <1>6 DEF t, n, r1, r2

(* A split keeps the list well-formed, a missing split key included.        *)
LEMMA SplitWellFormed ==
  ASSUME WellFormed(ranges), NEW key \in Boundary, NEW id1 \in ShardID, NEW id2 \in ShardID,
         SplitRange(key, id1, id2)
  PROVE  WellFormed(ranges')
<1> DEFINE t == Target(key)
           n == Len(ranges)
<1>1. /\ ranges' \in Seq(Range) /\ Len(ranges') = n + 1
      /\ \A i \in 1 .. t - 1 : ranges'[i] = ranges[i]
      /\ ranges'[t] = [start |-> ranges[t].start, end |-> key, shard |-> id1]
      /\ ranges'[t + 1] = [start |-> key, end |-> ranges[t].end, shard |-> id2]
      /\ \A i \in t + 1 .. n : ranges'[i + 1] = ranges[i]
  BY SplitElements
<1>2. /\ t \in 1 .. n
      /\ ranges[t].start # Nil => key # Nil /\ ranges[t].start < key
      /\ \A j \in t + 1 .. n : ranges[j].start # Nil /\ Bytes(key) < ranges[j].start
  BY TargetOf DEF SplitRange
<1>3. /\ n \in Nat
      /\ \A i \in 1 .. n : ranges[i].start # Nil => ranges[i].start \in Nat
      /\ Bytes(key) \in Nat /\ (key # Nil => key \in Nat /\ Bytes(key) = key)
  BY RangeTypes, BytesNat DEF Bytes
<1>4. Chained(ranges) /\ Sorted(ranges)
  BY DEF WellFormed
<1> HIDE DEF t, n
<1>5. \A i \in 1 .. n + 1 : i < t \/ i = t \/ i = t + 1 \/ i \in t + 2 .. n + 1
  BY <1>2, <1>3
<1>6. /\ \A i \in 1 .. t : ranges'[i].start = ranges[i].start
      /\ ranges'[t + 1].start = key
      /\ \A i \in t + 2 .. n + 1 : i - 1 \in t + 1 .. n /\ ranges'[i] = ranges[i - 1]
  <2>1. \A i \in 1 .. t : ranges'[i].start = ranges[i].start
    BY <1>1, <1>2, <1>3
  <2>2. \A i \in t + 2 .. n + 1 : i - 1 \in t + 1 .. n /\ (i - 1) + 1 = i
    BY <1>2, <1>3
  <2> QED
    BY <1>1, <2>1, <2>2
<1>7. Sorted(ranges')
  <2> SUFFICES ASSUME NEW i \in 1 .. n + 1, NEW j \in 1 .. n + 1, i < j,
                      ranges'[i].start # Nil
               PROVE  ranges'[j].start # Nil /\ ranges'[i].start < ranges'[j].start
    BY <1>1 DEF Sorted, n
  <2>1. CASE j <= t
    BY <1>2, <1>3, <1>4, <1>6, <2>1 DEF Sorted, n
  <2>2. CASE j = t + 1
    <3>1. i \in 1 .. t /\ ranges[i].start # Nil
      BY <1>2, <1>3, <1>6, <2>2
    <3>2. i # t => ranges[t].start # Nil /\ ranges[i].start < ranges[t].start
      BY <1>2, <1>3, <1>4, <3>1 DEF Sorted, n
    <3>3. key # Nil /\ ranges[t].start < key /\ ranges[t].start # Nil
      BY <1>2, <3>1, <3>2
    <3>4. ranges[i].start \in Nat /\ ranges[t].start \in Nat /\ key \in Nat
      <4>1. i \in 1 .. n /\ t \in 1 .. n
        BY <1>2, <1>3, <3>1
      <4> QED
        BY <1>3, <3>1, <3>3, <4>1
    <3>5. ranges[i].start < key
      BY <3>2, <3>3, <3>4
    <3> QED
      BY <1>6, <2>2, <3>1, <3>3, <3>5
  <2>3. CASE j \in t + 2 .. n + 1
    <3>1. j - 1 \in t + 1 .. n /\ ranges'[j] = ranges[j - 1]
      BY <1>6, <2>3
    <3>2. CASE i <= t
      BY <1>2, <1>3, <1>4, <1>6, <3>1, <3>2 DEF Sorted, n
    <3>3. CASE i = t + 1
      BY <1>2, <1>3, <1>6, <3>1, <3>3
    <3>4. CASE i \in t + 2 .. n + 1
      <4>1. i - 1 \in 1 .. n /\ ranges'[i] = ranges[i - 1] /\ i - 1 < j - 1 /\ j - 1 \in 1 .. n
        BY <1>2, <1>3, <1>6, <3>1, <3>4
      <4> QED
        BY <1>4, <3>1, <4>1 DEF Sorted, n
    <3> QED
      BY <1>2, <1>3, <3>2, <3>3, <3>4
  <2> QED
    BY <1>2, <1>3, <2>1, <2>2, <2>3
<1>8. Chained(ranges')
  <2>1. ranges'[1].start = Nil
    BY <1>2, <1>3, <1>4, <1>6 DEF Chained
  <2>2. ranges'[n + 1].end = Nil
    <3>1. CASE t = n
      BY <1>1, <1>4, <3>1 DEF Chained, n
    <3>2. CASE t < n
      <4>1. n + 1 \in t + 2 .. n + 1 /\ (n + 1) - 1 = n
        BY <1>2, <1>3, <3>2
      <4> QED
        BY <1>4, <1>6, <4>1 DEF Chained, n
    <3> QED
      BY <1>2, <1>3, <3>1, <3>2
  <2>3. ASSUME NEW i \in 1 .. n PROVE ranges'[i].end = ranges'[i + 1].start
    <3>1. CASE i < t
      <4>1. i \in 1 .. n - 1 /\ i + 1 \in 1 .. t /\ i \in 1 .. t - 1
        BY <1>2, <1>3, <3>1
      <4>2. ranges[i].end = ranges[i + 1].start
        BY <1>4, <4>1 DEF Chained, n
      <4> QED
        BY <1>1, <1>6, <4>1, <4>2
    <3>2. CASE i = t
      BY <1>1, <3>2
    <3>3. CASE i = t + 1
      <4>1. i + 1 \in t + 2 .. n + 1 /\ (i + 1) - 1 = t + 1 /\ t \in 1 .. n - 1
        BY <1>2, <1>3, <3>3
      <4>2. ranges[t].end = ranges[t + 1].start
        BY <1>4, <4>1 DEF Chained, n
      <4>3. ranges'[i + 1] = ranges[t + 1]
        BY <1>6, <4>1
      <4> QED
        BY <1>1, <3>3, <4>2, <4>3
    <3>4. CASE i > t + 1
      <4>1. /\ i \in t + 2 .. n + 1 /\ i + 1 \in t + 2 .. n + 1 /\ (i + 1) - 1 = (i - 1) + 1
            /\ i - 1 \in 1 .. n - 1
        BY <1>2, <1>3, <3>4
      <4>2. ranges[i - 1].end = ranges[(i - 1) + 1].start
        BY <1>4, <4>1 DEF Chained, n
      <4> QED
        BY <1>6, <4>1, <4>2
    <3> QED
      BY <1>2, <1>3, <3>1, <3>2, <3>3, <3>4
  <2>4. Len(ranges') = n + 1 /\ (n + 1) - 1 = n
    BY <1>1, <1>3
  <2> QED
    BY <2>1, <2>2, <2>3, <2>4 DEF Chained
<1>9. ranges' # <<>>
  BY <1>1, <1>3
<1> QED
  BY <1>1, <1>7, <1>8, <1>9 DEF WellFormed

(* A split with a split key adds no range without a start.                  *)
LEMMA SplitKeepsGiven ==
  ASSUME WellFormed(ranges), SplitKeysGiven(ranges), NEW key \in Key,
         NEW id1 \in ShardID, NEW id2 \in ShardID, SplitRange(key, id1, id2)
  PROVE  SplitKeysGiven(ranges')
<1> DEFINE t == Target(key)
           n == Len(ranges)
<1>1. key \in Boundary /\ key # Nil
  BY MetaNil, MetaBounds DEF Boundary, Key
<1>2. /\ Len(ranges') = n + 1
      /\ \A i \in 1 .. t - 1 : ranges'[i] = ranges[i]
      /\ ranges'[t] = [start |-> ranges[t].start, end |-> key, shard |-> id1]
      /\ ranges'[t + 1] = [start |-> key, end |-> ranges[t].end, shard |-> id2]
      /\ \A i \in t + 1 .. n : ranges'[i + 1] = ranges[i]
  BY <1>1, SplitElements
<1>3. t \in 1 .. n /\ n \in Nat
  BY <1>1, TargetOf, RangeTypes DEF SplitRange
<1>4. \A i \in 2 .. n : ranges[i].start # Nil
  BY DEF SplitKeysGiven
<1> HIDE DEF t, n
<1>5. ASSUME NEW i \in 2 .. n + 1 PROVE ranges'[i].start # Nil
  <2>1. CASE i < t
    BY <1>2, <1>3, <1>4, <2>1
  <2>2. CASE i = t
    BY <1>2, <1>3, <1>4, <2>2
  <2>3. CASE i = t + 1
    BY <1>1, <1>2, <2>3
  <2>4. CASE i > t + 1
    <3>1. i - 1 \in t + 1 .. n /\ i - 1 \in 2 .. n /\ (i - 1) + 1 = i
      BY <1>3, <2>4
    <3> QED
      BY <1>2, <1>4, <3>1
  <2> QED
    BY <1>3, <2>1, <2>2, <2>3, <2>4
<1> QED
  BY <1>2, <1>5 DEF SplitKeysGiven

(* Where a key lies after a split: in one half of the target, or in the     *)
(* range that contained it before.                                          *)
LEMMA SplitMoves ==
  ASSUME WellFormed(ranges), SplitKeysGiven(ranges), NEW key \in Key,
         NEW id1 \in ShardID, NEW id2 \in ShardID, SplitRange(key, id1, id2), NEW k \in Key
  PROVE  GetShard(ranges', k) =
           IF ~Contains(ranges[Target(key)], k) THEN GetShard(ranges, k)
           ELSE IF k < key THEN id1 ELSE id2
<1> DEFINE t == Target(key)
           n == Len(ranges)
           m == Search(ranges, k)
<1>1. key \in Boundary /\ key # Nil /\ key \in Nat /\ k \in Nat /\ k \in Boundary
  BY MetaNil, MetaBounds DEF Boundary, Key
<1>2. WellFormed(ranges') /\ SplitKeysGiven(ranges')
  BY <1>1, SplitWellFormed, SplitKeepsGiven
<1>3. /\ Len(ranges') = n + 1
      /\ \A i \in 1 .. t - 1 : ranges'[i] = ranges[i]
      /\ ranges'[t] = [start |-> ranges[t].start, end |-> key, shard |-> id1]
      /\ ranges'[t + 1] = [start |-> key, end |-> ranges[t].end, shard |-> id2]
      /\ \A i \in t + 1 .. n : ranges'[i + 1] = ranges[i]
  BY <1>1, SplitElements
<1>4. t \in 1 .. n /\ n \in Nat /\ m \in 1 .. n
  BY <1>1, TargetOf, SearchFinds, RangeTypes DEF SplitRange
<1>5. Contains(ranges[m], k) /\ GetShard(ranges, k) = ranges[m].shard
  BY <1>4, FoundContains, GetShardOf
<1>6. \A j \in 1 .. n + 1 : Contains(ranges'[j], k) => GetShard(ranges', k) = ranges'[j].shard
  BY <1>2, <1>3, GetShardOf
<1> HIDE DEF t, n, m
<1>7. CASE ~Contains(ranges[t], k)
  <2>1. m # t
    BY <1>5, <1>7
  <2>2. CASE m < t
    <3>1. m \in 1 .. t - 1 /\ m \in 1 .. n + 1
      BY <1>4, <2>2
    <3> QED
      BY <1>3, <1>5, <1>6, <1>7, <3>1 DEF t
  <2>3. CASE m > t
    <3>1. m \in t + 1 .. n /\ m + 1 \in 1 .. n + 1
      BY <1>4, <2>3
    <3> QED
      BY <1>3, <1>5, <1>6, <1>7, <3>1 DEF t
  <2> QED
    BY <1>4, <2>1, <2>2, <2>3
<1>8. CASE Contains(ranges[t], k) /\ k < key
  <2>1. Contains(ranges'[t], k) /\ ranges'[t].shard = id1 /\ t \in 1 .. n + 1
    BY <1>1, <1>3, <1>4, <1>8 DEF Contains
  <2> QED
    BY <1>6, <1>8, <2>1 DEF t
<1>9. CASE Contains(ranges[t], k) /\ ~(k < key)
  <2>1. Contains(ranges'[t + 1], k) /\ ranges'[t + 1].shard = id2 /\ t + 1 \in 1 .. n + 1
    BY <1>1, <1>3, <1>4, <1>9 DEF Contains
  <2> QED
    BY <1>6, <1>9, <2>1 DEF t
<1> QED
  BY <1>7, <1>8, <1>9

-----------------------------------------------------------------------------
(* The theorems.                                                            *)

(* The ranges in force and those in the last snapshot are well-formed after *)
(* any sequence of registrations, splits, snapshots and restores.           *)
THEOREM Inductive == Spec => []IInv
<1>1. Init => IInv
  <2> SUFFICES ASSUME Init PROVE IInv
    OBVIOUS
  <2> DEFINE r == [start |-> Nil, end |-> Nil, shard |-> 1]
  <2>1. ranges = <<r>> /\ snapshot.ranges = ranges
    BY DEF Init, NewMetaStore
  <2>2. r \in Range
    BY MetaShards DEF Range, Boundary
  <2>3. /\ <<r>> \in Seq(Range) /\ Len(<<r>>) = 1 /\ <<r>> # <<>> /\ <<r>>[1] = r
    BY <2>2
  <2>4. WellFormed(ranges)
    <3>1. Chained(ranges) /\ Sorted(ranges)
      BY <2>1, <2>3 DEF Chained, Sorted
    <3> QED
      BY <2>1, <2>3, <3>1 DEF WellFormed
  <2>5. shards \in [ShardID -> Addr \cup {NoAddr}]
    BY DEF Init, NewMetaStore
  <2>6. snapshot \in [ranges : Seq(Range), shards : [ShardID -> Addr \cup {NoAddr}]]
    BY <2>1, <2>3, <2>5 DEF Init
  <2> QED
    BY <2>1, <2>4, <2>5, <2>6 DEF IInv
<1>2. IInv /\ [Next]_vars => IInv'
  <2> SUFFICES ASSUME IInv, [Next]_vars PROVE IInv'
    OBVIOUS
  <2>1. ASSUME NEW id \in ShardID, NEW addr \in Addr, RegisterShard(id, addr) PROVE IInv'
    BY <2>1 DEF IInv, RegisterShard
  <2>2. ASSUME NEW key \in SplitKeys, NEW id1 \in ShardID, NEW id2 \in ShardID,
               SplitRange(key, id1, id2)
        PROVE  IInv'
    <3>1. WellFormed(ranges')
      BY <2>2, SplitWellFormed, MetaSplitKeys DEF IInv
    <3> QED
      BY <2>2, <3>1 DEF IInv, SplitRange
  <2>3. CASE GetSnapshot
    BY <2>3 DEF IInv, GetSnapshot, WellFormed
  <2>4. CASE Restore
    BY <2>4 DEF IInv, Restore
  <2>5. CASE UNCHANGED vars
    BY <2>5 DEF IInv, vars
  <2> QED
    BY <2>1, <2>2, <2>3, <2>4, <2>5 DEF Next
<1> QED
  BY <1>1, <1>2, PTL DEF Spec

(* The metadata keeps its types, and a range is never missing.              *)
THEOREM TypeCorrect == Spec => []TypeOK
<1>1. IInv => TypeOK
  BY DEF IInv, TypeOK, WellFormed
<1> QED
  BY <1>1, Inductive, PTL

(* Every key lies in a range, and in one only as long as no split key was   *)
(* missing, after any sequence of commands.                                 *)
THEOREM EveryKeyCovered == Spec => []CoveredOnce
<1>1. IInv => CoveredOnce
  <2> SUFFICES ASSUME IInv, NEW k \in Key
               PROVE  \E i \in 1 .. Len(ranges) :
                        /\ Contains(ranges[i], k)
                        /\ SplitKeysGiven(ranges) =>
                             \A j \in 1 .. Len(ranges) : Contains(ranges[j], k) => j = i
    BY DEF CoveredOnce
  <2>1. WellFormed(ranges) /\ k \in Boundary
    BY DEF IInv, Boundary
  <2>2. Search(ranges, k) \in 1 .. Len(ranges) /\ Contains(ranges[Search(ranges, k)], k)
    BY <2>1, SearchFinds, FoundContains
  <2>3. SplitKeysGiven(ranges) =>
          \A j \in 1 .. Len(ranges) : Contains(ranges[j], k) => j = Search(ranges, k)
    BY <2>1, FoundOnly
  <2> QED
    BY <2>2, <2>3
<1> QED
  BY <1>1, Inductive, PTL

(* The two implementations of the lookup agree on every key.                *)
THEOREM SameAnswers == Spec => []LookupsAgree
<1>1. IInv => LookupsAgree
  <2> SUFFICES ASSUME IInv, SplitKeysGiven(ranges), NEW k \in Key
               PROVE  GetShard(ranges, k) = GetShardID(ranges, k)
    BY DEF LookupsAgree
  <2> DEFINE n == Search(ranges, k)
             hits == {i \in 1 .. Len(ranges) : Contains(ranges[i], k)}
  <2>1. WellFormed(ranges) /\ k \in Boundary
    BY DEF IInv, Boundary
  <2>2. n \in 1 .. Len(ranges) /\ Contains(ranges[n], k)
    BY <2>1, SearchFinds, FoundContains
  <2>3. hits = {n}
    BY <2>1, <2>2, FoundOnly
  <2>4. GetShard(ranges, k) = ranges[n].shard
    BY <2>1, <2>2, GetShardOf
  <2>5. GetShardID(ranges, k) =
          IF hits = {} THEN 1
          ELSE ranges[CHOOSE i \in hits : \A j \in hits : i <= j].shard
    BY DEF GetShardID
  <2> HIDE DEF hits, n
  <2>6. (CHOOSE i \in hits : \A j \in hits : i <= j) = n
    BY <2>2, <2>3
  <2> QED
    BY <2>3, <2>4, <2>5, <2>6
<1> QED
  BY <1>1, Inductive, PTL

(* A split re-homes the keys of its target only, each to the half it        *)
(* belongs to.                                                              *)
THEOREM SplitLocal == Spec => SplitMovesOnlyTarget
<1>1. IInv => [ranges' # ranges => \A key \in SplitKeys \ {Nil}, id1, id2 \in ShardID :
                 SplitKeysGiven(ranges) /\ SplitRange(key, id1, id2)
                 => \A k \in Key :
                      GetShard(ranges', k) =
                        IF ~Contains(ranges[Target(key)], k) THEN GetShard(ranges, k)
                        ELSE IF k < key THEN id1 ELSE id2]_vars
  <2>1. \A key \in SplitKeys \ {Nil} : key \in Key
    BY MetaSplitKeys DEF Boundary
  <2> QED
    BY <2>1, SplitMoves DEF IInv
<1> QED
  BY <1>1, Inductive, PTL DEF Spec, SplitMovesOnlyTarget
=============================================================================
