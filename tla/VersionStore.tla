---------------------------- MODULE VersionStore ----------------------------
(* What the storage engine promises (the Engine interface and the comments  *)
(* of internal/storage): every user key has a set of committed versions,    *)
(* one per timestamp, and at most one write intent, exclusive to the        *)
(* transaction that placed it.  Raw keys and their order do not show.       *)
(*                                                                          *)
(* Each action is a successful call.  A refused call changes nothing and is *)
(* a stuttering step here.                                                  *)
EXTENDS Naturals, Functions

CONSTANTS Key, Value, Owner, Timestamp, NoLock,
          Imports    \* version maps an import may bring, as functions like versions

VARIABLES versions,  \* key -> (timestamp -> value), both partial in timestamp
          intents    \* key -> [txn, value] or NoLock

vsVars == <<versions, intents>>

Intent == [txn : Owner, value : Value]

LockedByOther(key, txn) == intents[key] # NoLock /\ intents[key].txn # txn
HoldsIntent(key, txn) == intents[key] # NoLock /\ intents[key].txn = txn

(* The versions of a key after a write of value at ts.                      *)
WithVersion(vs, ts, value) ==
  [t \in DOMAIN vs \cup {ts} |-> IF t = ts THEN value ELSE vs[t]]

(* Prepare places an intent, or replaces the caller's own.                  *)
Prepare(key, value, txn) ==
  /\ ~LockedByOther(key, txn)
  /\ intents' = [intents EXCEPT ![key] = [txn |-> txn, value |-> value]]
  /\ UNCHANGED versions

(* Commit turns the caller's intent into the version at ts.                 *)
Commit(key, txn, ts) ==
  /\ HoldsIntent(key, txn)
  /\ versions' = [versions EXCEPT ![key] = WithVersion(@, ts, intents[key].value)]
  /\ intents' = [intents EXCEPT ![key] = NoLock]

(* Abort drops the caller's intent.                                         *)
Abort(key, txn) ==
  /\ HoldsIntent(key, txn)
  /\ intents' = [intents EXCEPT ![key] = NoLock]
  /\ UNCHANGED versions

(* OnePhaseCommit writes all the keys of the batch in one step, or none;    *)
(* the batch is a function from the keys it writes to their values.         *)
OnePhaseCommit(batch, txn, ts) ==
  /\ \A k \in DOMAIN batch : ~LockedByOther(k, txn)
  /\ versions' = [k \in Key |-> IF k \in DOMAIN batch THEN WithVersion(versions[k], ts, batch[k])
                                ELSE versions[k]]
  /\ intents' = [k \in Key |-> IF k \in DOMAIN batch THEN NoLock ELSE intents[k]]

(* Collection below safeTs drops only versions that a kept version, no      *)
(* newer than safeTs, hides from every read at or above safeTs.             *)
Collect(safeTs) ==
  /\ \A k \in Key :
       /\ IsRestriction(versions'[k], versions[k])
       /\ \A ts \in DOMAIN versions[k] \ DOMAIN versions'[k] :
            \E u \in DOMAIN versions'[k] : ts < u /\ u <= safeTs
  /\ UNCHANGED intents

(* An import writes the versions it brings, and never touches intents.      *)
Import(m) ==
  /\ versions' = [k \in Key |->
                   [ts \in DOMAIN m[k] \cup DOMAIN versions[k] |->
                      IF ts \in DOMAIN m[k] THEN m[k][ts] ELSE versions[k][ts]]]
  /\ UNCHANGED intents

Init ==
  /\ versions = [k \in Key |-> [ts \in {} |-> ts]]
  /\ intents = [k \in Key |-> NoLock]

Next ==
  \/ \E k \in Key, v \in Value, t \in Owner : Prepare(k, v, t)
  \/ \E k \in Key, t \in Owner, ts \in Timestamp : Commit(k, t, ts)
  \/ \E k \in Key, t \in Owner : Abort(k, t)
  \/ \E K \in SUBSET Key : \E batch \in [K -> Value], t \in Owner, ts \in Timestamp :
       OnePhaseCommit(batch, t, ts)
  \/ \E ts \in Timestamp : Collect(ts)
  \/ \E m \in Imports : Import(m)

Spec == Init /\ [][Next]_vsVars
=============================================================================
