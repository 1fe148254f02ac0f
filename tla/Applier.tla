------------------------------ MODULE Applier ------------------------------
(* The state machine of a shard replica: ApplierAdapter.Apply of            *)
(* cmd/shard-node/main.go on an engine, with the parser and the executor of *)
(* internal/sql for the statements it is given.                             *)
(*                                                                          *)
(* An engine is [versions, locks], as the engine promises them              *)
(* (VersionStore).  A stored value is the sequence of fields it was made    *)
(* of: executeInsert joins every value of the row, the key too, where a     *)
(* transaction stores the one value it was given.                           *)
(*                                                                          *)
(* A statement is an abstract syntax tree over the one table of the         *)
(* instance.  INSERT: [kind, rows], the rows sequences of literals, the key *)
(* first; rows <<>> stands for INSERT ... SELECT.  SELECT: [kind, where,    *)
(* key, padded]; the condition is "none", "equal" (column = literal),       *)
(* "nested" (such an equality inside a larger condition) or "other", and a  *)
(* padded text begins with a blank.                                         *)
(*                                                                          *)
(* Keys are texts: an item whose key extends k comes before every item of k *)
(* in the tree, since the inverted timestamp that follows k there begins    *)
(* with a byte no text has.                                                 *)
EXTENDS Naturals, Sequences, SequencesExt, FiniteSets, FiniteSetsExt

CONSTANTS Key, NoLock,
          Longer(_),   \* the keys that begin with k and go on
          AutoTs,   \* 100: the timestamp of every INSERT outside transactions
          AutoTxn   \* "auto-100": the owner it works under

NewEngine == [versions |-> [k \in Key |-> <<>>], locks |-> [k \in Key |-> NoLock]]

-----------------------------------------------------------------------------
(* Plans.                                                                   *)

NoPlan == [node |-> "error"]

(* buildInsertPlan: the literals of the first row only.                     *)
buildInsertPlan(stmt) ==
  IF stmt.rows = <<>> THEN NoPlan ELSE [node |-> "insert", values |-> stmt.rows[1]]

(* buildSelectPlan: an equality that is the whole condition is a point get; *)
(* any other condition is a filter that the executor lets everything pass.  *)
buildSelectPlan(stmt) ==
  IF stmt.where = "equal" THEN [node |-> "pointget", key |-> stmt.key]
  ELSE [node |-> "scan"]

ParseToPlan(stmt) ==
  CASE stmt.kind = "insert" -> buildInsertPlan(stmt)
    [] stmt.kind = "select" -> buildSelectPlan(stmt)
    [] OTHER -> NoPlan

-----------------------------------------------------------------------------
(* The engine's operations; a refused one leaves the engine as it is.       *)

LockedByOther(s, k, txn) == s.locks[k] # NoLock /\ s.locks[k].txn # txn
HoldsIntent(s, k, txn) == s.locks[k] # NoLock /\ s.locks[k].txn = txn

WithVersion(vs, ts, value) ==
  [t \in DOMAIN vs \cup {ts} |-> IF t = ts THEN value ELSE vs[t]]

Prepare(s, k, value, txn) ==
  IF LockedByOther(s, k, txn) THEN s
  ELSE [s EXCEPT !.locks[k] = [txn |-> txn, value |-> value]]

Commit(s, k, txn, ts) ==
  IF HoldsIntent(s, k, txn)
  THEN [s EXCEPT !.versions[k] = WithVersion(@, ts, s.locks[k].value),
                 !.locks[k] = NoLock]
  ELSE s

Abort(s, k, txn) == IF HoldsIntent(s, k, txn) THEN [s EXCEPT !.locks[k] = NoLock] ELSE s

(* One entry carries the whole transaction; ops maps its keys to values.    *)
OnePhaseCommit(s, ops, txn, ts) ==
  IF \E k \in DOMAIN ops : LockedByOther(s, k, txn) THEN s
  ELSE [versions |-> [k \in Key |-> IF k \in DOMAIN ops
                                    THEN WithVersion(s.versions[k], ts, ops[k])
                                    ELSE s.versions[k]],
        locks |-> [k \in Key |-> IF k \in DOMAIN ops THEN NoLock ELSE s.locks[k]]]

(* Mutation: the INSERT does not ask for the lock.                          *)
executeInsertUnlocked(s, values) ==
  [s EXCEPT !.versions[values[1]] = WithVersion(@, AutoTs, values)]

(* A row without values is no row.  A key another transaction has locked is *)
(* left alone: nobody hears of the error.  Prepare and Commit are two       *)
(* critical sections: SQLPath has the reads in between.                     *)
executeInsert(s, values) ==
  IF values = <<>> \/ LockedByOther(s, values[1], AutoTxn) THEN s
  ELSE Commit(Prepare(s, values[1], values, AutoTxn), values[1], AutoTxn, AutoTs)

(* Apply on the entries the handlers propose.  A SELECT is proposed too;    *)
(* its plan only reads.                                                     *)
Apply(s, e) ==
  CASE e.type = "PREPARE" -> Prepare(s, e.key, e.value, e.txn)
    [] e.type = "COMMIT" -> Commit(s, e.key, e.txn, e.ts)
    [] e.type = "ABORT" -> Abort(s, e.key, e.txn)
    [] e.type = "ONESHOT" -> OnePhaseCommit(s, e.ops, e.txn, e.ts)
    [] e.type = "SQL" ->
         LET plan == ParseToPlan(e.stmt) IN
         IF plan.node = "insert" THEN executeInsert(s, plan.values) ELSE s

-----------------------------------------------------------------------------
(* Reads, at MaxUint64.                                                     *)

Row(s, k) ==
  LET ts == Max(DOMAIN s.versions[k]) IN [key |-> k, ts |-> ts, value |-> s.versions[k][ts]]

(* GetTxn on a locked key is an error, and the rows are nil.                *)
Refuses(plan, s) == plan.node = "pointget" /\ s.locks[plan.key] # NoLock

(* The first item from the key on has to be the key's own.                  *)
Shadowed(s, k) == \E j \in Longer(k) : s.versions[j] # <<>>

executePointGet(s, k) ==
  IF s.locks[k] # NoLock \/ s.versions[k] = <<>> \/ Shadowed(s, k) THEN {} ELSE {Row(s, k)}

(* Mutation: the scan shows intents.                                        *)
executeScanIntents(s) ==
  {Row(s, k) : k \in {x \in Key : s.versions[x] # <<>> /\ s.locks[x] = NoLock}}
    \cup {[key |-> k, ts |-> AutoTs, value |-> s.locks[k].value] :
            k \in {x \in Key : s.locks[x] # NoLock}}

(* A scan does not look at locks.                                           *)
executeScan(s) == {Row(s, k) : k \in {x \in Key : s.versions[x] # <<>>}}

Execute(plan, s) ==
  CASE plan.node = "pointget" -> executePointGet(s, plan.key)
    [] plan.node = "scan" -> executeScan(s)
    [] OTHER -> {}

-----------------------------------------------------------------------------
(* /debug/export and /debug/ingest, on the engine of one replica.           *)

(* The walk begins at the start of the range and ends at the first key      *)
(* beyond its end: a key is missed when one beyond extends it.              *)
Export(s, keys, beyond) ==
  [k \in Key |-> IF k \in keys /\ \A j \in beyond \cap Longer(k) : s.versions[j] = <<>>
                THEN s.versions[k] ELSE <<>>]

(* Mutation: the imported range takes the place of what was there.          *)
IngestReplaces(s, data) == [s EXCEPT !.versions = data]

Ingest(s, data) ==
  [s EXCEPT !.versions = [k \in Key |->
     [t \in DOMAIN @[k] \cup DOMAIN data[k] |->
        IF t \in DOMAIN data[k] THEN data[k][t] ELSE @[k][t]]]]
=============================================================================
