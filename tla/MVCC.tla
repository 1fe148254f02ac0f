-------------------------------- MODULE MVCC --------------------------------
(* The raw key space of the storage engine: internal/storage/mvcc.go.       *)
(*                                                                          *)
(* A version of a user key is stored in the B-tree under one byte string,   *)
(* the user key followed by the inverted timestamp in fixed-width           *)
(* big-endian form.  Byte strings are sequences of naturals; the tree       *)
(* orders them with bytes.Compare.                                          *)
EXTENDS Naturals, Sequences, FiniteSets

CONSTANTS MaxTs,        \* math.MaxUint64
          Width,        \* bytes of an encoded timestamp (8)
          BigEndian(_)  \* binary.BigEndian.PutUint64: 0..MaxTs -> Width bytes

Timestamp == 0 .. MaxTs
Bytes == Seq(Nat)

ASSUME MaxTsAssumption == MaxTs \in Nat /\ MaxTs >= 1
ASSUME WidthAssumption == Width \in Nat \ {0}

(* encoding/binary writes exactly Width bytes.                              *)
ASSUME BigEndianWidth ==
  \A n \in Timestamp : BigEndian(n) \in [1 .. Width -> Nat]

(* Big-endian form is order preserving: of two numbers the smaller one has  *)
(* the smaller byte at the first place where they differ.                   *)
ASSUME BigEndianOrder ==
  \A m, n \in Timestamp : m < n =>
     \E i \in 1 .. Width : /\ \A j \in 1 .. (i - 1) : BigEndian(m)[j] = BigEndian(n)[j]
                           /\ BigEndian(m)[i] < BigEndian(n)[i]

(* Zero is all zero bytes.                                                  *)
ASSUME BigEndianZero == \A i \in 1 .. Width : BigEndian(0)[i] = 0

(* bytes.Compare(a, b) < 0: b extends a, or is larger at the first          *)
(* difference.                                                              *)
LexLess(a, b) ==
  \E i \in 1 .. Len(b) : /\ i - 1 <= Len(a)
                         /\ \A j \in 1 .. (i - 1) : a[j] = b[j]
                         /\ i <= Len(a) => a[i] < b[i]

LexLeq(a, b) == a = b \/ LexLess(a, b)

(* EncodeKey appends the inverted timestamp to the key.                     *)
EncodeKey(key, ts) == key \o BigEndian(MaxTs - ts)

(* binary.BigEndian.Uint64: the number a Width-byte string stands for.      *)
Uint64(b) == CHOOSE n \in Timestamp : BigEndian(n) = b

(* DecodeKey splits a raw key into user key and timestamp; a string too     *)
(* short to carry a timestamp is its own key, at timestamp 0.               *)
DecodedKey(raw) ==
  IF Len(raw) < Width THEN raw ELSE SubSeq(raw, 1, Len(raw) - Width)

DecodedTs(raw) ==
  IF Len(raw) < Width THEN 0
  ELSE MaxTs - Uint64(SubSeq(raw, Len(raw) - Width + 1, Len(raw)))

-----------------------------------------------------------------------------
(* What the engine's reads are for, independently of the order in which the *)
(* tree keeps the raw keys.                                                 *)

(* The raw keys in R that hold a version of user key k no newer than ts.    *)
VisibleAt(R, k, ts) == {r \in R : DecodedKey(r) = k /\ DecodedTs(r) <= ts}

(* The newest of them: what a read of k at ts has to return (at most one).  *)
NewestAt(R, k, ts) ==
  {r \in VisibleAt(R, k, ts) :
     \A q \in VisibleAt(R, k, ts) : DecodedTs(q) <= DecodedTs(r)}
=============================================================================
