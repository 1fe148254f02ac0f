--------------------------- MODULE MCMemoryStore ---------------------------
(* Small instances of MemoryStore for TLC.                                  *)
(*                                                                          *)
(* Bytes are 0..4 and a timestamp is one byte wide.  0 stands for the zero  *)
(* byte, 1 for the ASCII bytes, 2..4 for the bytes from 0x80 up.  Commit    *)
(* timestamps 1 and 2 are stored as the bytes 3 and 2: as in the program,   *)
(* inverted commit timestamps begin with a byte above ASCII, and the        *)
(* inverted MaxUint64 of a read is the zero byte.                           *)
EXTENDS MemoryStore, TLC

CONSTANTS t1, t2, c1, c2, x, y

MCMaxTs == 4
MCWidth == 1
MCBigEndian(n) == <<n>>

(* U+FFFD in UTF-8: three bytes, all from 0x80 up.                          *)
Replacement == <<4, 3, 3>>

(* encoding/json replaces each byte that is not part of valid UTF-8.        *)
RECURSIVE MCCoerce(_)
MCCoerce(s) ==
  CASE s = <<>> -> <<>>
    [] Len(s) >= 3 /\ SubSeq(s, 1, 3) = Replacement ->
         Replacement \o MCCoerce(SubSeq(s, 4, Len(s)))
    [] s # <<>> /\ s[1] >= 2 /\ ~(Len(s) >= 3 /\ SubSeq(s, 1, 3) = Replacement) ->
         Replacement \o MCCoerce(Tail(s))
    [] OTHER -> <<s[1]>> \o MCCoerce(Tail(s))

MCValue == {x, y}
MCTxn == {t1, t2}
MCCaller == {c1, c2}
OneCaller == {c1}
MCSymmetry ==
  Permutations(MCTxn) \cup Permutations(MCCaller) \cup Permutations(MCValue)
MCCommitTs == {1, 2}

(* Two keys none of which is a prefix of the other.                         *)
PrefixFreeKeys == {<<1, 0>>, <<1, 1>>}

(* Two keys such as "u1" and "u10".                                         *)
PrefixKeys == {<<1>>, <<1, 1>>}

(* What the theorems about prefix-free keys assume holds in that instance.  *)
ASSUME PrefixFreeInstance == Key = PrefixFreeKeys => PrefixFree

(* Over the two keys: one write of each, and a key written twice.           *)
BatchesOver(k1, k2) ==
  UNION {{<<[key |-> k1, value |-> v], [key |-> k2, value |-> w]>>,
          <<[key |-> k2, value |-> v], [key |-> k2, value |-> w]>>} :
           <<v, w>> \in {<<x, y>>, <<y, x>>}}
PrefixFreeBatches == BatchesOver(<<1, 0>>, <<1, 1>>)
PrefixBatches == BatchesOver(<<1>>, <<1, 1>>)

(* Exports of another node: a version of each key.                          *)
PrefixFreeImports ==
  {(<<1, 0, 2>> :> v) @@ (<<1, 1, 1>> :> w) : <<v, w>> \in {<<x, y>>, <<y, x>>}}
PrefixImports ==
  {(<<1, 2>> :> v) @@ (<<1, 1, 2>> :> w) : <<v, w>> \in {<<x, y>>, <<y, x>>}}

(* The raw keys of either instance: encoded keys, imports, and what JSON    *)
(* makes of them.                                                           *)
RawKeysOver(keys, imports) ==
  LET raw == {EncodeKey(k, ts) : k \in keys, ts \in CommitTs \cup {1}}
               \cup UNION {DOMAIN m : m \in imports}
  IN  raw \cup {MCCoerce(r) : r \in raw}
PrefixFreeRawKeys == RawKeysOver(PrefixFreeKeys, PrefixFreeImports)
PrefixRawKeys == RawKeysOver(PrefixKeys, PrefixImports)
=============================================================================
