----------------------------- MODULE MetaStore -----------------------------
(* The cluster metadata and the two lookups over it: internal/meta/store.go *)
(* (a Raft applier) and internal/router/router.go (the proxy's copy).       *)
(*                                                                          *)
(* Keys are naturals in the order of bytes.Compare; 0 is the empty string.  *)
(* A boundary is a key or Nil, the nil slice, which compares as the empty   *)
(* string and means "unbounded" where the code tests for nil.               *)
EXTENDS Naturals, Sequences

CONSTANTS MaxKey,      \* bound: largest key
          ShardID,     \* shard numbers, 1 the initial one
          Addr,        \* address lists of a ShardConfig
          NoAddr,      \* absence from the map of shards
          SplitKeys,   \* the SplitKey fields of SPLIT_RANGE commands
          MaxRanges,   \* bound: ranges
          Nil

Key == 0 .. MaxKey
Boundary == Key \cup {Nil}
Range == [start : Boundary, end : Boundary, shard : ShardID]

ASSUME MetaBounds == MaxKey \in Nat /\ MaxRanges \in Nat \ {0}
ASSUME MetaShards == ShardID \subseteq Nat \ {0} /\ 1 \in ShardID /\ NoAddr \notin Addr
ASSUME MetaNil == Nil \notin Nat
ASSUME MetaSplitKeys == SplitKeys \subseteq Boundary

VARIABLES ranges,    \* s.Ranges
          shards,    \* s.Shards
          snapshot   \* the last snapshot handed to Raft

vars == <<ranges, shards, snapshot>>

-----------------------------------------------------------------------------
(* Lookups.                                                                 *)

(* bytes.Compare sees a nil slice as the empty string.                      *)
Bytes(b) == IF b = Nil THEN 0 ELSE b

(* The predicate given to sort.Search: range i starts after key.            *)
StartsAfter(rs, i, key) == rs[i].start # Nil /\ rs[i].start > Bytes(key)

(* sort.Search: the ranges before the first one that starts after key.      *)
Search(rs, key) ==
  CHOOSE n \in 0 .. Len(rs) :
    /\ \A i \in 1 .. n : ~StartsAfter(rs, i, key)
    /\ n < Len(rs) => StartsAfter(rs, n + 1, key)

(* MetaStore.GetShard; 0 is the answer for an uncovered key.                *)
GetShard(rs, key) ==
  LET idx == Search(rs, key) IN
  IF idx > 0 THEN rs[idx].shard
  ELSE IF rs[1].start = Nil THEN rs[1].shard ELSE 0

Contains(r, key) ==
  /\ r.start # Nil => r.start <= key
  /\ r.end # Nil => key < r.end

(* Router.GetShardID: the first range that contains key, else shard 1.      *)
GetShardID(rs, key) ==
  LET hits == {i \in 1 .. Len(rs) : Contains(rs[i], key)} IN
  IF hits = {} THEN 1
  ELSE rs[CHOOSE i \in hits : \A j \in hits : i <= j].shard

-----------------------------------------------------------------------------
(* Commands applied from the Raft log.                                      *)

RegisterShard(id, addr) ==
  /\ shards' = [shards EXCEPT ![id] = addr]
  /\ UNCHANGED <<ranges, snapshot>>

(* The range a split at key falls into.                                     *)
Target(key) == LET idx == Search(ranges, key) IN IF idx > 0 THEN idx ELSE 1

ValidSplit(key) ==
  LET r == ranges[Target(key)] IN
  /\ r.start # Nil => Bytes(key) > r.start
  /\ r.end # Nil => Bytes(key) < r.end

(* r1 in place of the target, r2 inserted behind it.                        *)
Replaced(t, r1, r2) ==
  [i \in 1 .. Len(ranges) + 1 |->
     IF i < t THEN ranges[i] ELSE IF i = t THEN r1
     ELSE IF i = t + 1 THEN r2 ELSE ranges[i - 1]]

(* Plausible bug: the slice is shifted from one place too early.            *)
SplitRangeShifts(key, id1, id2) ==
  /\ Len(ranges) < MaxRanges
  /\ ValidSplit(key)
  /\ LET t == Target(key)
         r1 == [start |-> ranges[t].start, end |-> key, shard |-> id1]
         r2 == [start |-> key, end |-> ranges[t].end, shard |-> id2]
     IN  ranges' = [i \in 1 .. Len(ranges) + 1 |->
                      IF i = t THEN r1 ELSE IF i = Len(ranges) + 1 THEN r2 ELSE ranges[i]]
  /\ UNCHANGED <<shards, snapshot>>

(* Plausible bug: the two halves get the shards the wrong way round.        *)
SplitRangeSwaps(key, id1, id2) ==
  /\ Len(ranges) < MaxRanges
  /\ ValidSplit(key)
  /\ LET t == Target(key)
         r1 == [start |-> ranges[t].start, end |-> key, shard |-> id2]
         r2 == [start |-> key, end |-> ranges[t].end, shard |-> id1]
     IN  ranges' = Replaced(t, r1, r2)
  /\ UNCHANGED <<shards, snapshot>>

(* Plausible bug: the left half keeps the end of the old range.             *)
SplitRangeKeepsEnd(key, id1, id2) ==
  /\ Len(ranges) < MaxRanges
  /\ ValidSplit(key)
  /\ LET t == Target(key)
         r1 == [ranges[t] EXCEPT !.shard = id1]
         r2 == [start |-> key, end |-> ranges[t].end, shard |-> id2]
     IN  ranges' = Replaced(t, r1, r2)
  /\ UNCHANGED <<shards, snapshot>>

(* SPLIT_RANGE; a split key that fails the validation changes nothing.      *)
SplitRange(key, id1, id2) ==
  /\ Len(ranges) < MaxRanges
  /\ ValidSplit(key)
  /\ LET t == Target(key)
         r1 == [start |-> ranges[t].start, end |-> key, shard |-> id1]
         r2 == [start |-> key, end |-> ranges[t].end, shard |-> id2]
     IN  ranges' = Replaced(t, r1, r2)
  /\ UNCHANGED <<shards, snapshot>>

(* GetSnapshot and Restore: JSON keeps nil and empty boundaries apart (null *)
(* and ""), so what comes back is what was written.                         *)
GetSnapshot ==
  /\ snapshot' = [ranges |-> ranges, shards |-> shards]
  /\ UNCHANGED <<ranges, shards>>

(* Plausible bug: a restore that reads only the shards back.                *)
RestoreForgetsRanges ==
  /\ ranges' = <<>>
  /\ shards' = snapshot.shards
  /\ UNCHANGED snapshot

Restore ==
  /\ ranges' = snapshot.ranges
  /\ shards' = snapshot.shards
  /\ UNCHANGED snapshot

NewMetaStore ==
  /\ ranges = <<[start |-> Nil, end |-> Nil, shard |-> 1]>>
  /\ shards = [id \in ShardID |-> NoAddr]

(* A snapshot of the initial state stands for "none yet".                   *)
Init == NewMetaStore /\ snapshot = [ranges |-> ranges, shards |-> shards]

Next ==
  \/ \E id \in ShardID, addr \in Addr : RegisterShard(id, addr)
  \/ \E key \in SplitKeys, id1, id2 \in ShardID : SplitRange(key, id1, id2)
  \/ GetSnapshot
  \/ Restore

Spec == Init /\ [][Next]_vars

-----------------------------------------------------------------------------
(* Properties.                                                              *)

(* Types of the metadata; there is always a range.                          *)
TypeOK ==
  /\ ranges \in Seq(Range) /\ ranges # <<>>
  /\ shards \in [ShardID -> Addr \cup {NoAddr}]
  /\ snapshot \in [ranges : Seq(Range), shards : [ShardID -> Addr \cup {NoAddr}]]

(* Every range but the first has a start.  A SPLIT_RANGE command without a  *)
(* split key passes the validation of the unbounded range and leaves one    *)
(* that has none; restoring an older snapshot undoes it.                    *)
SplitKeysGiven(rs) == \A i \in 2 .. Len(rs) : rs[i].start # Nil

(* After any sequence of splits and restores every key lies in a range, and *)
(* in one only unless a split key was missing (store.go SPLIT_RANGE: "order *)
(* preserved").                                                             *)
CoveredOnce ==
  \A k \in Key : \E i \in 1 .. Len(ranges) :
    /\ Contains(ranges[i], k)
    /\ SplitKeysGiven(ranges) => \A j \in 1 .. Len(ranges) : Contains(ranges[j], k) => j = i

(* The binary search of the meta node and the linear search of the router,  *)
(* given the same ranges, answer alike for every key (router.go:            *)
(* "Duplicates logic from MetaStore"), unless a split key was missing.      *)
LookupsAgree ==
  SplitKeysGiven(ranges) => \A k \in Key : GetShard(ranges, k) = GetShardID(ranges, k)

(* A split re-homes exactly the keys of the range it splits: those below    *)
(* the split key to the first shard, the others to the second.              *)
SplitMovesOnlyTarget ==
  [][ranges' # ranges => \A key \in SplitKeys \ {Nil}, id1, id2 \in ShardID :
       SplitKeysGiven(ranges) /\ SplitRange(key, id1, id2)
       => \A k \in Key :
            GetShard(ranges', k) =
              IF ~Contains(ranges[Target(key)], k) THEN GetShard(ranges, k)
              ELSE IF k < key THEN id1 ELSE id2]_vars
=============================================================================
