----------------------------- MODULE MCSQLPath -----------------------------
(* A small instance of SQLPath for TLC: a client, two of the three          *)
(* replicas, and two transactions.                                          *)
EXTENDS SQLPath

CONSTANTS k1, k2, v, r

MCKey == {k1, k2}
MCClient == {r}
MCNode == {1, 2}
MCGetShardID(key) == 1
NoHints == {NoHint}

(* INSERTs of k1, one short and in a transaction, one with a row too many;  *)
(* point reads of both keys and a scan.                                     *)
Insert(rows, txn) == [kind |-> "insert", rows |-> rows, txn |-> txn]
Select(where, key, padded) == [kind |-> "select", where |-> where, key |-> key, padded |-> padded]

MCStatements(c) ==
  {Insert(<<<<k1>>>>, TRUE), Insert(<<<<k1, v>>, <<k2, v>>>>, FALSE),
   Select("equal", k1, FALSE), Select("equal", k2, FALSE), Select("none", k1, FALSE)}

(* A transaction on k1, and another one in a single entry, at timestamps of *)
(* the wall clock.                                                          *)
MCTxnEntries == {[type |-> "PREPARE", key |-> k1, value |-> <<v>>, txn |-> "t"],
                 [type |-> "COMMIT", key |-> k1, txn |-> "t", ts |-> 3],
                 [type |-> "ONESHOT", ops |-> (k1 :> <<v>> @@ k2 :> <<v>>), txn |-> "u", ts |-> 4]}

(* k2 is k1 and more; only k1 is migrated.                                  *)
MCLonger(k) == IF k = k1 THEN {k2} ELSE {}
K1 == {k1}
K2 == {k2}
=============================================================================
