--------------------------- MODULE MCCoordinator ---------------------------
(* Small instances of Coordinator for TLC: keys a and b on different        *)
(* shards.                                                                  *)
EXTENDS Coordinator

CONSTANTS a, b, s1, s2, t1, t2, c1, c2, x, y

MCLocate(k) == IF k = a THEN s1 ELSE s2

Keys == {a, b}
Shards == {s1, s2}
OneTxn == {t1}
TwoTxns == {t1, t2}
OneCaller == {c1}
TwoCallers == {c1, c2}
OneValue == {x}
OtherValue == {y}
TwoValues == {x, y}
NoValues == {}

(* Rivals that write the same keys with values of their own; one value for  *)
(* all; any value; and two values for b, so that a later write counts.      *)
OwnValue(t) == [key : Key, value : {IF t = t1 THEN x ELSE y}]
SameValue(t) == [key : Key, value : {x}]
AnyWrite(t) == Write
Rewrites(t) == {[key |-> a, value |-> x], [key |-> b, value |-> x], [key |-> b, value |-> y]}

(* One COMMIT per transaction, or two of the same one.                      *)
OwnTxn(c) == IF c = c1 THEN {t1} ELSE {t2}
AnyTxn(c) == Txn

(* A request may fail before or after its entry was proposed; or do         *)
(* anything.                                                                *)
Refused == [ok : {FALSE}, proposed : BOOLEAN, late : {FALSE}]
AnyOutcome == [ok : BOOLEAN, proposed : BOOLEAN, late : BOOLEAN]
NoFailure == {}
=============================================================================
