--------------------------- MODULE SQLPathProofs ---------------------------
(* Proofs about SQLPath, for any clients, replicas, statements, routing     *)
(* hints, transactions and migrations: the types, that rows stem from the   *)
(* log, that a scatter-gather misses nothing, that point reads never go     *)
(* back in time, that versions are kept and the last INSERT stands.         *)
EXTENDS SQLPath, SetLemmas, FiniteSetTheorems

-----------------------------------------------------------------------------
(* Engines.                                                                 *)

(* The versions of a key, and those of all keys.                            *)
IsHistory(h) ==
  /\ h = [t \in DOMAIN h |-> h[t]]
  /\ DOMAIN h \subseteq Nat
  /\ IsFiniteSet(DOMAIN h)

IsVersions(vs) ==
  /\ vs = [k \in Key |-> vs[k]]
  /\ \A k \in Key : IsHistory(vs[k])

IsLock(l) == l = NoLock \/ DOMAIN l = {"txn", "value"}

IsEngine(s) ==
  /\ s = [versions |-> s.versions, locks |-> s.locks]
  /\ s.locks = [k \in Key |-> s.locks[k]]
  /\ \A k \in Key : IsLock(s.locks[k])
  /\ IsVersions(s.versions)

(* The entries of the log.                                                  *)
SentInserts ==
  {stmt \in UNION {Statements(c) : c \in Client} : stmt.kind = "insert" /\ stmt.rows # <<>>}
Entry == TxnEntries \cup {[type |-> "SQL", stmt |-> stmt] : stmt \in SentInserts}

(* The locks after an entry; they do not depend on the versions.            *)
LocksAfter(l, e) == Apply([versions |-> [k \in Key |-> <<>>], locks |-> l], e).locks

(* What an entry may write where the locks are l.                           *)
Puts(l, e, k, ts, value) ==
  \/ e.type = "SQL" /\ e.stmt.rows[1] = value /\ value[1] = k /\ ts = AutoTs
  \/ e.type = "COMMIT" /\ e.key = k /\ e.ts = ts
       /\ l[k] # NoLock /\ l[k].txn = e.txn /\ l[k].value = value
  \/ e.type = "ONESHOT" /\ e.ts = ts /\ k \in DOMAIN e.ops /\ e.ops[k] = value

(* The history of a key before and after one write.                         *)
OneWrite(l, e, k, old, new) ==
  \/ new = old
  \/ \E ts \in Nat : \E value : Puts(l, e, k, ts, value) /\ new = WithVersion(old, ts, value)

(* A version written by WithVersion, and the ones before it.                *)
LEMMA WithVersionIs ==
  ASSUME NEW h, NEW ts \in Nat, NEW value, IsHistory(h)
  PROVE  /\ IsHistory(WithVersion(h, ts, value))
         /\ DOMAIN WithVersion(h, ts, value) = DOMAIN h \cup {ts}
         /\ WithVersion(h, ts, value)[ts] = value
         /\ \A t \in DOMAIN h : t # ts => WithVersion(h, ts, value)[t] = h[t]
<1>1. DOMAIN WithVersion(h, ts, value) = DOMAIN h \cup {ts}
  BY DEF WithVersion
<1>2. IsFiniteSet(DOMAIN h \cup {ts})
  BY FS_AddElement DEF IsHistory
<1>3. DOMAIN h \cup {ts} \subseteq Nat
  BY DEF IsHistory
<1>4. WithVersion(h, ts, value)
        = [t \in DOMAIN WithVersion(h, ts, value) |-> WithVersion(h, ts, value)[t]]
  BY DEF WithVersion
<1> QED
  BY <1>1, <1>2, <1>3, <1>4 DEF IsHistory, WithVersion

LEMMA EmptyHistory == IsHistory(<<>>) /\ DOMAIN <<>> = {}
<1>1. DOMAIN <<>> = {}
  OBVIOUS
<1>2. IsFiniteSet({})
  BY FS_EmptySet
<1>3. <<>> = [t \in DOMAIN <<>> |-> <<>>[t]]
  OBVIOUS
<1> QED
  BY <1>1, <1>2, <1>3 DEF IsHistory

(* A history without versions is the empty one the reads compare with.      *)
LEMMA NoVersions ==
  ASSUME NEW h, IsHistory(h)
  PROVE  (h = <<>>) <=> (DOMAIN h = {})
<1>1. h = <<>> => DOMAIN h = {}
  OBVIOUS
<1>2. DOMAIN h = {} => h = <<>>
  BY DEF IsHistory
<1> QED
  BY <1>1, <1>2

(* What the parser lets through.                                            *)
LEMMA SentInsert ==
  ASSUME NEW stmt \in SentInserts
  PROVE  /\ stmt.kind = "insert" /\ stmt.rows # <<>>
         /\ stmt.rows[1] = <<>> \/ stmt.rows[1][1] \in Key
  BY PathStatements DEF SentInserts

-----------------------------------------------------------------------------
(* Each operation of the engine, on any engine.                             *)

LEMMA PrepareEffects ==
  ASSUME NEW s, IsEngine(s), NEW key \in Key, NEW value, NEW txn
  PROVE  /\ IsEngine(Prepare(s, key, value, txn))
         /\ Prepare(s, key, value, txn).versions = s.versions
         /\ \A k \in Key :
              \/ Prepare(s, key, value, txn).locks[k] = s.locks[k]
              \/ /\ k = key
                 /\ Prepare(s, key, value, txn).locks[k] = [txn |-> txn, value |-> value]
<1>1. CASE LockedByOther(s, key, txn)
  BY <1>1 DEF Prepare
<1>2. CASE ~LockedByOther(s, key, txn)
  <2> DEFINE p == [s EXCEPT !.locks[key] = [txn |-> txn, value |-> value]]
  <2>1. Prepare(s, key, value, txn) = p
    BY <1>2 DEF Prepare
  <2>2. /\ p = [versions |-> p.versions, locks |-> p.locks]
        /\ p.versions = s.versions
        /\ p.locks = [s.locks EXCEPT ![key] = [txn |-> txn, value |-> value]]
    BY DEF IsEngine
  <2>3. /\ p.locks = [k \in Key |-> p.locks[k]]
        /\ p.locks[key] = [txn |-> txn, value |-> value]
        /\ \A k \in Key : k # key => p.locks[k] = s.locks[k]
    BY <2>2 DEF IsEngine
  <2> HIDE DEF p
  <2>4. \A k \in Key : IsLock(p.locks[k])
    BY <2>3 DEF IsEngine, IsLock
  <2>5. IsEngine(p)
    BY <2>2, <2>3, <2>4 DEF IsEngine
  <2> QED
    BY <2>1, <2>2, <2>3, <2>5
<1> QED
  BY <1>1, <1>2

LEMMA CommitEffects ==
  ASSUME NEW s, IsEngine(s), NEW key \in Key, NEW txn, NEW ts \in Nat
  PROVE  /\ IsEngine(Commit(s, key, txn, ts))
         /\ Commit(s, key, txn, ts).locks
              = IF HoldsIntent(s, key, txn) THEN [s.locks EXCEPT ![key] = NoLock] ELSE s.locks
         /\ \A k \in Key :
              \/ Commit(s, key, txn, ts).versions[k] = s.versions[k]
              \/ /\ k = key /\ HoldsIntent(s, key, txn)
                 /\ Commit(s, key, txn, ts).versions[k]
                      = WithVersion(s.versions[k], ts, s.locks[k].value)
         /\ HoldsIntent(s, key, txn) =>
              Commit(s, key, txn, ts).versions[key]
                = WithVersion(s.versions[key], ts, s.locks[key].value)
<1>1. CASE ~HoldsIntent(s, key, txn)
  BY <1>1 DEF Commit
<1>2. CASE HoldsIntent(s, key, txn)
  <2>0. PICK v : v = s.locks[key].value
    OBVIOUS
  <2> DEFINE h == WithVersion(s.versions[key], ts, v)
             p == [s EXCEPT !.versions[key] = h, !.locks[key] = NoLock]
  <2>1. Commit(s, key, txn, ts) = p
    BY <1>2, <2>0 DEF Commit
  <2>2. IsHistory(h)
    <3>1. IsHistory(s.versions[key])
      BY DEF IsEngine, IsVersions
    <3>2. IsHistory(WithVersion(s.versions[key], ts, v))
      BY <3>1, WithVersionIs
    <3> QED
      BY <3>2
  <2> HIDE DEF h
  <2>3. /\ p = [versions |-> p.versions, locks |-> p.locks]
        /\ p.versions = [s.versions EXCEPT ![key] = h]
        /\ p.locks = [s.locks EXCEPT ![key] = NoLock]
    <3>1. PICK vs, ls : vs = s.versions /\ ls = s.locks
      OBVIOUS
    <3>2. s = [versions |-> vs, locks |-> ls]
      BY <3>1 DEF IsEngine
    <3> DEFINE a == [s EXCEPT !.versions[key] = h]
    <3>4. p = [a EXCEPT !.locks[key] = NoLock]
      OBVIOUS
    <3>5. a = [versions |-> [vs EXCEPT ![key] = h], locks |-> ls]
      BY <3>2
    <3> HIDE DEF a
    <3>3. p = [versions |-> [vs EXCEPT ![key] = h], locks |-> [ls EXCEPT ![key] = NoLock]]
      BY <3>4, <3>5
    <3> QED
      BY <3>1, <3>3
  <2>4. /\ p.locks = [k \in Key |-> p.locks[k]]
        /\ p.locks[key] = NoLock
        /\ \A k \in Key : k # key => p.locks[k] = s.locks[k]
    BY <2>3 DEF IsEngine
  <2>5. /\ p.versions = [k \in Key |-> p.versions[k]]
        /\ p.versions[key] = h
        /\ \A k \in Key : k # key => p.versions[k] = s.versions[k]
    BY <2>3 DEF IsEngine, IsVersions
  <2> HIDE DEF p
  <2>6. \A k \in Key : IsLock(p.locks[k])
    BY <2>4 DEF IsEngine, IsLock
  <2>7. IsVersions(p.versions)
    BY <2>2, <2>5 DEF IsEngine, IsVersions
  <2>8. IsEngine(p)
    BY <2>3, <2>4, <2>6, <2>7 DEF IsEngine
  <2> QED
    BY <1>2, <2>0, <2>1, <2>3, <2>5, <2>8 DEF h
<1> QED
  BY <1>1, <1>2

LEMMA AbortEffects ==
  ASSUME NEW s, IsEngine(s), NEW key \in Key, NEW txn
  PROVE  /\ IsEngine(Abort(s, key, txn))
         /\ Abort(s, key, txn).versions = s.versions
         /\ \A k \in Key : Abort(s, key, txn).locks[k] \in {s.locks[k], NoLock}
<1>1. CASE ~HoldsIntent(s, key, txn)
  BY <1>1 DEF Abort
<1>2. CASE HoldsIntent(s, key, txn)
  <2> DEFINE p == [s EXCEPT !.locks[key] = NoLock]
  <2>1. Abort(s, key, txn) = p
    BY <1>2 DEF Abort
  <2>2. /\ p = [versions |-> p.versions, locks |-> p.locks]
        /\ p.versions = s.versions
        /\ p.locks = [s.locks EXCEPT ![key] = NoLock]
    BY DEF IsEngine
  <2>3. /\ p.locks = [k \in Key |-> p.locks[k]]
        /\ p.locks[key] = NoLock
        /\ \A k \in Key : k # key => p.locks[k] = s.locks[k]
    BY <2>2 DEF IsEngine
  <2> HIDE DEF p
  <2>4. \A k \in Key : IsLock(p.locks[k])
    BY <2>3 DEF IsEngine, IsLock
  <2>5. IsEngine(p)
    BY <2>2, <2>3, <2>4 DEF IsEngine
  <2> QED
    BY <2>1, <2>2, <2>3, <2>5
<1> QED
  BY <1>1, <1>2

LEMMA OnePhaseEffects ==
  ASSUME NEW s, IsEngine(s), NEW ops, DOMAIN ops \subseteq Key, NEW txn, NEW ts \in Nat
  PROVE  /\ IsEngine(OnePhaseCommit(s, ops, txn, ts))
         /\ \A k \in Key :
              \/ OnePhaseCommit(s, ops, txn, ts).versions[k] = s.versions[k]
              \/ /\ k \in DOMAIN ops
                 /\ OnePhaseCommit(s, ops, txn, ts).versions[k]
                      = WithVersion(s.versions[k], ts, ops[k])
         /\ \A k \in Key : OnePhaseCommit(s, ops, txn, ts).locks[k] \in {s.locks[k], NoLock}
<1>1. CASE \E k \in DOMAIN ops : LockedByOther(s, k, txn)
  BY <1>1 DEF OnePhaseCommit
<1>2. CASE ~\E k \in DOMAIN ops : LockedByOther(s, k, txn)
  <2> DEFINE vs == [k \in Key |-> IF k \in DOMAIN ops THEN WithVersion(s.versions[k], ts, ops[k])
                                  ELSE s.versions[k]]
             ls == [k \in Key |-> IF k \in DOMAIN ops THEN NoLock ELSE s.locks[k]]
             p == [versions |-> vs, locks |-> ls]
  <2>1. OnePhaseCommit(s, ops, txn, ts) = p
    BY <1>2 DEF OnePhaseCommit
  <2>2. \A k \in Key : IsHistory(vs[k])
    <3> SUFFICES ASSUME NEW k \in Key PROVE IsHistory(vs[k])
      OBVIOUS
    <3>1. IsHistory(s.versions[k])
      BY DEF IsEngine, IsVersions
    <3>2. IsHistory(WithVersion(s.versions[k], ts, ops[k]))
      BY <3>1, WithVersionIs
    <3> QED
      BY <3>1, <3>2
  <2>3. \A k \in Key : IsLock(ls[k])
    BY DEF IsEngine, IsLock
  <2>4. IsEngine(p)
    BY <2>2, <2>3 DEF IsEngine, IsVersions
  <2> QED
    BY <2>1, <2>4
<1> QED
  BY <1>1, <1>2

(* An INSERT outside transactions goes by the lock and leaves none.         *)
LEMMA InsertEffects ==
  ASSUME NEW s, IsEngine(s), NEW values, values = <<>> \/ values[1] \in Key
  PROVE  /\ IsEngine(executeInsert(s, values))
         /\ \A k \in Key :
              \/ executeInsert(s, values).versions[k] = s.versions[k]
              \/ /\ values[1] = k
                 /\ executeInsert(s, values).versions[k]
                      = WithVersion(s.versions[k], AutoTs, values)
         /\ \A k \in Key : executeInsert(s, values).locks[k] \in {s.locks[k], NoLock}
<1>1. CASE values = <<>> \/ LockedByOther(s, values[1], AutoTxn)
  BY <1>1 DEF executeInsert
<1>2. CASE ~(values = <<>> \/ LockedByOther(s, values[1], AutoTxn))
  <2>0. PICK key \in Key : key = values[1]
    BY <1>2
  <2> DEFINE p == Prepare(s, key, values, AutoTxn)
             q == Commit(p, key, AutoTxn, AutoTs)
  <2>1. key \in Key /\ executeInsert(s, values) = q
    BY <1>2, <2>0 DEF executeInsert
  <2>2. /\ IsEngine(p)
        /\ p.versions = s.versions
        /\ \A k \in Key : \/ p.locks[k] = s.locks[k]
                          \/ k = key /\ p.locks[k] = [txn |-> AutoTxn, value |-> values]
    BY <2>1, PrepareEffects
  <2>3. p.locks[key] = [txn |-> AutoTxn, value |-> values]
    BY <1>2, <2>0 DEF Prepare, IsEngine
  <2> HIDE DEF p
  <2>4. /\ IsEngine(q)
        /\ q.locks = IF HoldsIntent(p, key, AutoTxn)
                     THEN [p.locks EXCEPT ![key] = NoLock] ELSE p.locks
        /\ \A k \in Key :
             \/ q.versions[k] = p.versions[k]
             \/ /\ k = key /\ HoldsIntent(p, key, AutoTxn)
                /\ q.versions[k] = WithVersion(p.versions[k], AutoTs, p.locks[k].value)
    BY <2>1, <2>2, PathAutoTs, CommitEffects
  <2> HIDE DEF q
  <2>5. p.locks[key].txn = AutoTxn /\ p.locks[key].value = values
    BY <2>3
  <2>6. \A k \in Key : k # key => q.locks[k] = s.locks[k]
    BY <2>1, <2>2, <2>4 DEF IsEngine
  <2>7. q.locks[key] = NoLock
    <3>1. p.locks[key] # NoLock => HoldsIntent(p, key, AutoTxn)
      BY <2>5 DEF HoldsIntent
    <3> QED
      BY <2>1, <2>2, <2>4, <3>1 DEF IsEngine
  <2>8. \A k \in Key :
          \/ q.versions[k] = s.versions[k]
          \/ k = key /\ q.versions[k] = WithVersion(s.versions[k], AutoTs, values)
    BY <2>2, <2>4, <2>5
  <2> QED
    BY <2>0, <2>1, <2>4, <2>6, <2>7, <2>8
<1> QED
  BY <1>1, <1>2

(* What applying an entry does: at most one write to each key, and locks    *)
(* taken only by a PREPARE.                                                 *)
LEMMA ApplyEffects ==
  ASSUME NEW s, IsEngine(s), NEW e \in Entry
  PROVE  /\ IsEngine(Apply(s, e))
         /\ \A k \in Key : OneWrite(s.locks, e, k, s.versions[k], Apply(s, e).versions[k])
         /\ \A k \in Key :
              \/ Apply(s, e).locks[k] \in {s.locks[k], NoLock}
              \/ /\ e.type = "PREPARE" /\ e.key = k
                 /\ Apply(s, e).locks[k] = [txn |-> e.txn, value |-> e.value]
<1>1. ASSUME e.type = "PREPARE", e \in TxnEntries
      PROVE  /\ e.key \in Key
             /\ Apply(s, e) = Prepare(s, e.key, e.value, e.txn)
  BY <1>1, PathEntries DEF Apply
<1>2. ASSUME e.type = "COMMIT", e \in TxnEntries
      PROVE  /\ e.key \in Key /\ e.ts \in Nat
             /\ Apply(s, e) = Commit(s, e.key, e.txn, e.ts)
  BY <1>2, PathEntries DEF Apply
<1>3. ASSUME e.type = "ABORT", e \in TxnEntries
      PROVE  /\ e.key \in Key
             /\ Apply(s, e) = Abort(s, e.key, e.txn)
  BY <1>3, PathEntries DEF Apply
<1>4. ASSUME e.type = "ONESHOT", e \in TxnEntries
      PROVE  /\ DOMAIN e.ops \subseteq Key /\ e.ts \in Nat
             /\ Apply(s, e) = OnePhaseCommit(s, e.ops, e.txn, e.ts)
  BY <1>4, PathEntries DEF Apply
<1>5. ASSUME NEW stmt \in SentInserts, e = [type |-> "SQL", stmt |-> stmt]
      PROVE  /\ stmt.rows[1] = <<>> \/ stmt.rows[1][1] \in Key
             /\ Apply(s, e) = executeInsert(s, stmt.rows[1])
  <2>1. /\ stmt.kind = "insert" /\ stmt.rows # <<>>
        /\ stmt.rows[1] = <<>> \/ stmt.rows[1][1] \in Key
    BY SentInsert
  <2>2. ParseToPlan(stmt) = [node |-> "insert", values |-> stmt.rows[1]]
    BY <2>1 DEF ParseToPlan, buildInsertPlan
  <2>3. e.type = "SQL" /\ e.stmt = stmt
    BY <1>5
  <2>4. Apply(s, e) = executeInsert(s, stmt.rows[1])
    BY <2>2, <2>3 DEF Apply
  <2> QED
    BY <2>1, <2>4
<1>6. \/ e \in TxnEntries /\ e.type \in {"PREPARE", "COMMIT", "ABORT", "ONESHOT"}
      \/ \E stmt \in SentInserts : e = [type |-> "SQL", stmt |-> stmt]
  BY PathEntries DEF Entry
<1>7. CASE e.type = "PREPARE" /\ e \in TxnEntries
  <2>1. e.key \in Key /\ Apply(s, e) = Prepare(s, e.key, e.value, e.txn)
    BY <1>1, <1>7
  <2>2. /\ IsEngine(Apply(s, e))
        /\ Apply(s, e).versions = s.versions
        /\ \A k \in Key : \/ Apply(s, e).locks[k] = s.locks[k]
                          \/ k = e.key /\ Apply(s, e).locks[k] = [txn |-> e.txn, value |-> e.value]
    BY <2>1, PrepareEffects
  <2> QED
    BY <1>7, <2>2 DEF OneWrite
<1>8. CASE e.type = "COMMIT" /\ e \in TxnEntries
  <2>1. e.key \in Key /\ e.ts \in Nat /\ Apply(s, e) = Commit(s, e.key, e.txn, e.ts)
    BY <1>2, <1>8
  <2>2. /\ IsEngine(Apply(s, e))
        /\ Apply(s, e).locks
              = IF HoldsIntent(s, e.key, e.txn) THEN [s.locks EXCEPT ![e.key] = NoLock] ELSE s.locks
        /\ \A k \in Key :
              \/ Apply(s, e).versions[k] = s.versions[k]
              \/ /\ k = e.key /\ HoldsIntent(s, e.key, e.txn)
                 /\ Apply(s, e).versions[k] = WithVersion(s.versions[k], e.ts, s.locks[k].value)
    BY <2>1, CommitEffects
  <2>3. \A k \in Key : Apply(s, e).locks[k] \in {s.locks[k], NoLock}
    BY <2>1, <2>2 DEF IsEngine
  <2>4. ASSUME NEW k \in Key, k = e.key, HoldsIntent(s, e.key, e.txn)
        PROVE  Puts(s.locks, e, k, e.ts, s.locks[k].value)
    BY <1>8, <2>4 DEF Puts, HoldsIntent
  <2> QED
    BY <2>1, <2>2, <2>3, <2>4 DEF OneWrite
<1>9. CASE e.type = "ABORT" /\ e \in TxnEntries
  <2>1. e.key \in Key /\ Apply(s, e) = Abort(s, e.key, e.txn)
    BY <1>3, <1>9
  <2> QED
    BY <2>1, AbortEffects DEF OneWrite
<1>10. CASE e.type = "ONESHOT" /\ e \in TxnEntries
  <2>1. /\ DOMAIN e.ops \subseteq Key /\ e.ts \in Nat
        /\ Apply(s, e) = OnePhaseCommit(s, e.ops, e.txn, e.ts)
    BY <1>4, <1>10
  <2>2. /\ IsEngine(Apply(s, e))
        /\ \A k \in Key :
              \/ Apply(s, e).versions[k] = s.versions[k]
              \/ /\ k \in DOMAIN e.ops
                 /\ Apply(s, e).versions[k] = WithVersion(s.versions[k], e.ts, e.ops[k])
        /\ \A k \in Key : Apply(s, e).locks[k] \in {s.locks[k], NoLock}
    BY <2>1, OnePhaseEffects
  <2>3. \A k \in DOMAIN e.ops : Puts(s.locks, e, k, e.ts, e.ops[k])
    BY <1>10 DEF Puts
  <2> QED
    BY <2>1, <2>2, <2>3 DEF OneWrite
<1>11. ASSUME NEW stmt \in SentInserts, e = [type |-> "SQL", stmt |-> stmt]
       PROVE  /\ IsEngine(Apply(s, e))
              /\ \A k \in Key : OneWrite(s.locks, e, k, s.versions[k], Apply(s, e).versions[k])
              /\ \A k \in Key : Apply(s, e).locks[k] \in {s.locks[k], NoLock}
  <2> DEFINE values == stmt.rows[1]
  <2>1. (values = <<>> \/ values[1] \in Key) /\ Apply(s, e) = executeInsert(s, values)
    BY <1>5, <1>11
  <2>2. e.type = "SQL" /\ e.stmt = stmt
    BY <1>11
  <2>3. \A k \in Key : values[1] = k => Puts(s.locks, e, k, AutoTs, values)
    BY <2>2 DEF Puts
  <2> HIDE DEF values
  <2>4. /\ IsEngine(Apply(s, e))
        /\ \A k \in Key :
              \/ Apply(s, e).versions[k] = s.versions[k]
              \/ /\ values[1] = k
                 /\ Apply(s, e).versions[k] = WithVersion(s.versions[k], AutoTs, values)
        /\ \A k \in Key : Apply(s, e).locks[k] \in {s.locks[k], NoLock}
    BY <2>1, InsertEffects
  <2> QED
    BY <2>3, <2>4, PathAutoTs DEF OneWrite
<1> QED
  BY <1>6, <1>7, <1>8, <1>9, <1>10, <1>11

(* The locks after an entry depend on the locks before it alone: replicas   *)
(* at the same place of the log have the same locks.                        *)
LEMMA SameLocks ==
  ASSUME NEW s, NEW u, IsEngine(s), IsEngine(u), s.locks = u.locks, NEW e \in Entry
  PROVE  Apply(s, e).locks = Apply(u, e).locks
<1>1. \A k, txn : /\ LockedByOther(s, k, txn) <=> LockedByOther(u, k, txn)
                  /\ HoldsIntent(s, k, txn) <=> HoldsIntent(u, k, txn)
  BY DEF LockedByOther, HoldsIntent
<1>2. ASSUME NEW key \in Key, NEW value, NEW txn
      PROVE  Prepare(s, key, value, txn).locks = Prepare(u, key, value, txn).locks
  BY <1>1 DEF Prepare, IsEngine
<1>3. ASSUME NEW key \in Key, NEW txn, NEW ts \in Nat
      PROVE  Commit(s, key, txn, ts).locks = Commit(u, key, txn, ts).locks
  <2>1. HoldsIntent(s, key, txn) <=> HoldsIntent(u, key, txn)
    BY <1>1
  <2>2. Commit(s, key, txn, ts).locks
          = IF HoldsIntent(s, key, txn) THEN [s.locks EXCEPT ![key] = NoLock] ELSE s.locks
    BY CommitEffects
  <2>3. Commit(u, key, txn, ts).locks
          = IF HoldsIntent(u, key, txn) THEN [u.locks EXCEPT ![key] = NoLock] ELSE u.locks
    BY CommitEffects
  <2> QED
    BY <2>1, <2>2, <2>3
<1>4. ASSUME NEW key \in Key, NEW txn
      PROVE  Abort(s, key, txn).locks = Abort(u, key, txn).locks
  BY <1>1 DEF Abort, IsEngine
<1>5. ASSUME NEW ops, NEW txn, NEW ts
      PROVE  OnePhaseCommit(s, ops, txn, ts).locks = OnePhaseCommit(u, ops, txn, ts).locks
  BY <1>1 DEF OnePhaseCommit
<1>6. ASSUME NEW values, values = <<>> \/ values[1] \in Key
      PROVE  executeInsert(s, values).locks = executeInsert(u, values).locks
  <2>1. /\ IsEngine(executeInsert(s, values)) /\ IsEngine(executeInsert(u, values))
    BY <1>6, InsertEffects
  <2>2. CASE values = <<>> \/ LockedByOther(s, values[1], AutoTxn)
    BY <1>1, <2>2 DEF executeInsert
  <2>3. CASE ~(values = <<>> \/ LockedByOther(s, values[1], AutoTxn))
    <3>1. PICK key \in Key : key = values[1]
      BY <1>6, <2>3
    <3> DEFINE p == Prepare(s, key, values, AutoTxn)
               q == Prepare(u, key, values, AutoTxn)
    <3>2. /\ executeInsert(s, values) = Commit(p, key, AutoTxn, AutoTs)
          /\ executeInsert(u, values) = Commit(q, key, AutoTxn, AutoTs)
      BY <1>1, <2>3, <3>1 DEF executeInsert
    <3>6. p.locks = q.locks
      BY <1>2
    <3>7. IsEngine(p)
      BY PrepareEffects
    <3>8. IsEngine(q)
      BY PrepareEffects
    <3>3. IsEngine(p) /\ IsEngine(q) /\ p.locks = q.locks
      BY <3>6, <3>7, <3>8
    <3> HIDE DEF p, q
    <3>4. HoldsIntent(p, key, AutoTxn) <=> HoldsIntent(q, key, AutoTxn)
      BY <3>3 DEF HoldsIntent
    <3>5. /\ Commit(p, key, AutoTxn, AutoTs).locks
               = IF HoldsIntent(p, key, AutoTxn) THEN [p.locks EXCEPT ![key] = NoLock] ELSE p.locks
          /\ Commit(q, key, AutoTxn, AutoTs).locks
               = IF HoldsIntent(q, key, AutoTxn) THEN [q.locks EXCEPT ![key] = NoLock] ELSE q.locks
      BY <3>3, CommitEffects, PathAutoTs
    <3> QED
      BY <3>2, <3>3, <3>4, <3>5
  <2> QED
    BY <2>2, <2>3
<1>7. ASSUME e \in TxnEntries PROVE Apply(s, e).locks = Apply(u, e).locks
  <2>1. CASE e.type \in {"PREPARE", "ABORT"} /\ e.key \in Key
    BY <1>2, <1>4, <2>1 DEF Apply
  <2>2. CASE e.type = "COMMIT" /\ e.key \in Key /\ e.ts \in Nat
    BY <1>3, <2>2 DEF Apply
  <2>3. CASE e.type = "ONESHOT"
    BY <1>5, <2>3 DEF Apply
  <2> QED
    BY <1>7, <2>1, <2>2, <2>3, PathEntries
<1>8. ASSUME NEW stmt \in SentInserts, e = [type |-> "SQL", stmt |-> stmt]
      PROVE  Apply(s, e).locks = Apply(u, e).locks
  <2>1. /\ stmt.kind = "insert" /\ stmt.rows # <<>>
        /\ stmt.rows[1] = <<>> \/ stmt.rows[1][1] \in Key
    BY SentInsert
  <2>2. ParseToPlan(stmt) = [node |-> "insert", values |-> stmt.rows[1]]
    BY <2>1 DEF ParseToPlan, buildInsertPlan
  <2>3. e.type = "SQL" /\ e.stmt = stmt
    BY <1>8
  <2>4. /\ Apply(s, e) = executeInsert(s, stmt.rows[1])
        /\ Apply(u, e) = executeInsert(u, stmt.rows[1])
    BY <2>2, <2>3 DEF Apply
  <2> QED
    BY <1>6, <2>1, <2>4
<1> QED
  BY <1>7, <1>8 DEF Entry

LEMMA ApplyLocks ==
  ASSUME NEW s, IsEngine(s), NEW e \in Entry
  PROVE  Apply(s, e).locks = LocksAfter(s.locks, e)
<1> DEFINE u == [versions |-> [k \in Key |-> <<>>], locks |-> s.locks]
<1>1. IsVersions([k \in Key |-> <<>>])
  BY EmptyHistory DEF IsVersions
<1>2. u.versions = [k \in Key |-> <<>>] /\ u.locks = s.locks
  OBVIOUS
<1>3. IsEngine(u)
  BY <1>1, <1>2 DEF IsEngine
<1>4. Apply(s, e).locks = Apply(u, e).locks
  BY <1>2, <1>3, SameLocks
<1> QED
  BY <1>4 DEF LocksAfter

-----------------------------------------------------------------------------
(* Newest versions, reads, exports and imports.                             *)

LEMMA MaxOf ==
  ASSUME NEW S \in SUBSET Nat, S # {}, IsFiniteSet(S)
  PROVE  Max(S) \in S /\ \A i \in S : i <= Max(S)
<1>1. PICK m \in S : \A i \in S : i <= m
  BY FiniteMax
<1>2. \A i \in S : m >= i
  BY <1>1
<1>3. Max(S) \in S /\ \A i \in S : Max(S) >= i
  BY <1>2 DEF Max
<1> QED
  BY <1>3

LEMMA NewestIs ==
  ASSUME NEW s, IsEngine(s), NEW k \in Key
  PROVE  /\ Newest(s)[k] \in Nat
         /\ \A t \in DOMAIN s.versions[k] : t <= Newest(s)[k]
         /\ Newest(s)[k] \in {0} \cup DOMAIN s.versions[k]
<1> DEFINE S == {0} \cup DOMAIN s.versions[k]
<1>1. IsFiniteSet(DOMAIN s.versions[k]) /\ DOMAIN s.versions[k] \subseteq Nat
  BY DEF IsEngine, IsVersions, IsHistory
<1>2. IsFiniteSet(S)
  <2>1. S = DOMAIN s.versions[k] \cup {0}
    OBVIOUS
  <2> QED
    BY <1>1, <2>1, FS_AddElement
<1>3. S \in SUBSET Nat /\ S # {}
  BY <1>1
<1>4. Newest(s)[k] = Max(S)
  BY DEF Newest
<1> HIDE DEF S
<1>5. Max(S) \in S /\ \A i \in S : i <= Max(S)
  BY <1>2, <1>3, MaxOf
<1> QED
  BY <1>3, <1>4, <1>5 DEF S

(* The versions of s are all in t, whatever their values.                   *)
Grows(s, t) == \A k \in Key : DOMAIN s.versions[k] \subseteq DOMAIN t.versions[k]

LEMMA NewestGrows ==
  ASSUME NEW s, NEW t, IsEngine(s), IsEngine(t), Grows(s, t), NEW k \in Key
  PROVE  Newest(s)[k] <= Newest(t)[k]
<1>1. /\ Newest(s)[k] \in {0} \cup DOMAIN s.versions[k]
      /\ Newest(t)[k] \in Nat
      /\ \A i \in DOMAIN t.versions[k] : i <= Newest(t)[k]
  BY NewestIs
<1> QED
  BY <1>1 DEF Grows

LEMMA ApplyGrows ==
  ASSUME NEW s, IsEngine(s), NEW e \in Entry
  PROVE  Grows(s, Apply(s, e))
<1> SUFFICES ASSUME NEW k \in Key
             PROVE  DOMAIN s.versions[k] \subseteq DOMAIN Apply(s, e).versions[k]
  BY DEF Grows
<1>1. OneWrite(s.locks, e, k, s.versions[k], Apply(s, e).versions[k])
  BY ApplyEffects
<1>2. IsHistory(s.versions[k])
  BY DEF IsEngine, IsVersions
<1>3. CASE Apply(s, e).versions[k] = s.versions[k]
  BY <1>3
<1>4. CASE Apply(s, e).versions[k] # s.versions[k]
  BY <1>1, <1>4 DEF OneWrite, WithVersion
<1> QED
  BY <1>3, <1>4

(* The row a read makes of a key that has versions.                         *)
LEMMA RowIs ==
  ASSUME NEW s, IsEngine(s), NEW k \in Key, s.versions[k] # <<>>
  PROVE  /\ Row(s, k).key = k
         /\ Row(s, k).ts \in DOMAIN s.versions[k]
         /\ Row(s, k).ts = Newest(s)[k]
         /\ Row(s, k).value = s.versions[k][Row(s, k).ts]
<1> DEFINE D == DOMAIN s.versions[k]
<1>1. IsHistory(s.versions[k])
  BY DEF IsEngine, IsVersions
<1>2. D # {} /\ D \in SUBSET Nat /\ IsFiniteSet(D)
  BY <1>1, NoVersions DEF IsHistory
<1>3. Row(s, k) = [key |-> k, ts |-> Max(D), value |-> s.versions[k][Max(D)]]
  BY DEF Row
<1> HIDE DEF D
<1>4. Max(D) \in D /\ \A i \in D : i <= Max(D)
  BY <1>2, MaxOf
<1>5. /\ Newest(s)[k] \in Nat
      /\ \A t \in D : t <= Newest(s)[k]
      /\ Newest(s)[k] \in {0} \cup D
  BY NewestIs DEF D
<1>6. Max(D) = Newest(s)[k]
  <2>1. PICK m \in Nat, n \in Nat : m = Max(D) /\ n = Newest(s)[k]
    BY <1>2, <1>4, <1>5
  <2>2. m <= n /\ (n = 0 \/ n <= m)
    BY <1>4, <1>5, <2>1
  <2> QED
    BY <2>1, <2>2
<1> QED
  BY <1>3, <1>4, <1>6 DEF D

(* A key without a version has 0 for its newest timestamp.                  *)
LEMMA NothingNewest ==
  ASSUME NEW s, IsEngine(s), NEW k \in Key, s.versions[k] = <<>>
  PROVE  Newest(s)[k] = 0
<1>1. Newest(s)[k] \in {0} \cup DOMAIN s.versions[k]
  BY NewestIs
<1> QED
  BY <1>1

(* A row of key k that shows the newest version of s.                       *)
ShowsNewest(s, r) ==
  /\ r.key \in Key
  /\ r.ts \in DOMAIN s.versions[r.key]
  /\ r.ts = Newest(s)[r.key]
  /\ r.value = s.versions[r.key][r.ts]

LEMMA ReadRows ==
  ASSUME NEW s, IsEngine(s), NEW stmt, stmt.kind = "select", stmt.key \in Key
  PROVE  LET R == Execute(ParseToPlan(stmt), s) IN
         /\ \A r \in R : ShowsNewest(s, r)
         /\ \A r, q \in R : r.key = q.key => r = q
         /\ stmt.where # "equal" =>
              \A k \in Key : Newest(s)[k] > 0 =>
                \E r \in R : r.key = k /\ r.ts = Newest(s)[k]
<1> DEFINE R == Execute(ParseToPlan(stmt), s)
           V == {x \in Key : s.versions[x] # <<>>}
<1>1. \A k \in V : Row(s, k).key = k /\ ShowsNewest(s, Row(s, k))
  BY RowIs DEF ShowsNewest
<1>2. \A k \in Key : Newest(s)[k] > 0 => k \in V
  BY NothingNewest
<1>3. CASE stmt.where = "equal"
  <2>1. ParseToPlan(stmt) = [node |-> "pointget", key |-> stmt.key]
    BY <1>3 DEF ParseToPlan, buildSelectPlan
  <2>2. R = executePointGet(s, stmt.key)
    BY <2>1 DEF Execute
  <2>3. R = {} \/ (stmt.key \in V /\ R = {Row(s, stmt.key)})
    BY <2>2 DEF executePointGet
  <2> HIDE DEF R, V
  <2>4. /\ \A r \in R : ShowsNewest(s, r)
        /\ \A r, q \in R : r.key = q.key => r = q
    BY <1>1, <2>3
  <2> QED
    BY <1>3, <2>4 DEF R
<1>4. CASE stmt.where # "equal"
  <2>1. ParseToPlan(stmt) = [node |-> "scan"]
    BY <1>4 DEF ParseToPlan, buildSelectPlan
  <2>2. R = executeScan(s)
    BY <2>1 DEF Execute
  <2>3. R = {Row(s, k) : k \in V}
    BY <2>2 DEF executeScan
  <2> HIDE DEF R, V
  <2>4. /\ \A r \in R : ShowsNewest(s, r)
        /\ \A r, q \in R : r.key = q.key => r = q
    BY <1>1, <2>3
  <2>5. ASSUME NEW k \in Key, Newest(s)[k] > 0
        PROVE  \E r \in R : r.key = k /\ r.ts = Newest(s)[k]
    <3>1. k \in V
      BY <1>2, <2>5
    <3>2. Row(s, k) \in R /\ Row(s, k).key = k /\ Row(s, k).ts = Newest(s)[k]
      BY <1>1, <2>3, <3>1 DEF ShowsNewest
    <3> QED
      BY <3>2
  <2> QED
    BY <1>4, <2>4, <2>5 DEF R
<1> QED
  BY <1>3, <1>4

(* An ingest adds versions and leaves the locks alone.                      *)
LEMMA IngestEffects ==
  ASSUME NEW s, IsEngine(s), NEW data, IsVersions(data)
  PROVE  /\ IsEngine(Ingest(s, data))
         /\ Ingest(s, data).locks = s.locks
         /\ Grows(s, Ingest(s, data))
         /\ \A k \in Key : \A t \in DOMAIN Ingest(s, data).versions[k] :
              \/ t \in DOMAIN data[k] /\ Ingest(s, data).versions[k][t] = data[k][t]
              \/ /\ t \in DOMAIN s.versions[k] \ DOMAIN data[k]
                 /\ Ingest(s, data).versions[k][t] = s.versions[k][t]
<1> DEFINE vs == [k \in Key |->
                   [t \in DOMAIN s.versions[k] \cup DOMAIN data[k] |->
                      IF t \in DOMAIN data[k] THEN data[k][t] ELSE s.versions[k][t]]]
           p == Ingest(s, data)
<1>1. p = [s EXCEPT !.versions = vs]
  BY DEF Ingest
<1>2. \A k \in Key : IsHistory(vs[k])
  <2> SUFFICES ASSUME NEW k \in Key PROVE IsHistory(vs[k])
    OBVIOUS
  <2>1. IsHistory(s.versions[k]) /\ IsHistory(data[k])
    BY DEF IsEngine, IsVersions
  <2>2. DOMAIN vs[k] = DOMAIN s.versions[k] \cup DOMAIN data[k]
    OBVIOUS
  <2>3. IsFiniteSet(DOMAIN vs[k]) /\ DOMAIN vs[k] \subseteq Nat
    BY <2>1, <2>2, FS_Union DEF IsHistory
  <2>4. vs[k] = [t \in DOMAIN vs[k] |-> vs[k][t]]
    OBVIOUS
  <2> QED
    BY <2>3, <2>4 DEF IsHistory
<1>3. \A k \in Key :
        /\ DOMAIN vs[k] = DOMAIN s.versions[k] \cup DOMAIN data[k]
        /\ \A t \in DOMAIN vs[k] :
             vs[k][t] = IF t \in DOMAIN data[k] THEN data[k][t] ELSE s.versions[k][t]
  OBVIOUS
<1>4. vs = [k \in Key |-> vs[k]]
  OBVIOUS
<1> HIDE DEF vs, p
<1>5. p = [versions |-> vs, locks |-> s.locks]
  BY <1>1 DEF IsEngine
<1>6. p.versions = vs /\ p.locks = s.locks
  BY <1>5
<1>7. IsEngine(p)
  BY <1>2, <1>4, <1>5, <1>6 DEF IsEngine, IsVersions
<1> QED
  BY <1>3, <1>6, <1>7 DEF p, Grows

LEMMA ExportEffects ==
  ASSUME NEW s, IsEngine(s), NEW keys, NEW beyond
  PROVE  /\ IsVersions(Export(s, keys, beyond))
         /\ \A k \in Key : \A t \in DOMAIN Export(s, keys, beyond)[k] :
              t \in DOMAIN s.versions[k] /\ Export(s, keys, beyond)[k][t] = s.versions[k][t]
<1> DEFINE x == Export(s, keys, beyond)
<1>1. /\ x = [k \in Key |-> x[k]]
      /\ \A k \in Key : x[k] = s.versions[k] \/ x[k] = <<>>
  BY DEF Export
<1> HIDE DEF x
<1>2. \A k \in Key : IsHistory(x[k])
  BY <1>1, EmptyHistory DEF IsEngine, IsVersions
<1>3. \A k \in Key : \A t \in DOMAIN x[k] : t \in DOMAIN s.versions[k] /\ x[k][t] = s.versions[k][t]
  BY <1>1, EmptyHistory
<1> QED
  BY <1>1, <1>2, <1>3 DEF x, IsVersions

-----------------------------------------------------------------------------
(* The type invariant.                                                      *)

LEMMA RouteIs ==
  ASSUME NEW c \in Client, NEW stmt \in Statements(c), NEW hint \in Hints
  PROVE  /\ Route(stmt, hint) \subseteq Node
         /\ stmt.kind = "select" /\ stmt.where = "equal" => Route(stmt, hint) = {Home}
<1> DEFINE plan == IF hint # NoHint THEN Single(hint) ELSE Analyze(stmt)
           Routed == Key \cup (Hints \ {NoHint}) \cup {Default}
<1>1. \A key \in Routed : GetShardID(key) = Home /\ GetShardID(key) \in Node
  BY PathRouting DEF Home
<1>2. \/ plan = Broadcast
      \/ \E key \in Routed : plan = Single(key)
  BY PathStatements DEF Analyze, analyzeInsert, analyzeSelect, Single, Broadcast
<1>3. stmt.kind = "select" /\ stmt.where = "equal" => \E key \in Routed : plan = Single(key)
  BY PathStatements DEF Analyze, analyzeSelect
<1>4. Route(stmt, hint) = IF plan.type = "broadcast" THEN ScatterIDs ELSE {GetShardID(plan.key)}
  BY DEF Route
<1> HIDE DEF plan, Routed
<1>5. ASSUME NEW key \in Routed, plan = Single(key)
      PROVE  Route(stmt, hint) = {Home} /\ Home \in Node
  <2>1. plan.type = "single" /\ plan.key = key
    BY <1>5 DEF Single
  <2> QED
    BY <1>1, <1>4, <2>1
<1>6. plan = Broadcast => Route(stmt, hint) \subseteq Node
  BY <1>4, PathNodes DEF Broadcast
<1> QED
  BY <1>2, <1>3, <1>5, <1>6

(* What the proxy does with a request once it has it.                       *)
Proxy(c) == Serve(c) \/ \E n \in Node, reached \in BOOLEAN : Fail(c, n, reached)

LEMMA HomeIsNode == Home \in Node
  BY PathRouting DEF Home

IsRequest(c, q) ==
  /\ DOMAIN q = {"busy", "stmt", "asked", "todo", "rows", "failed", "start"}
  /\ q = [f \in DOMAIN q |-> q[f]] /\ q.busy = TRUE
  /\ q.stmt \in Statements(c) /\ ParseToPlan(q.stmt) # NoPlan
  /\ q.todo \subseteq q.asked /\ q.asked \subseteq Node /\ q.failed \subseteq q.asked
  /\ q.stmt.kind = "select" /\ q.stmt.where = "equal" => q.asked \subseteq {Home}
  /\ \A r \in q.rows : r.from \in q.asked /\ r.row.key \in Key

Requests ==
  /\ req = [c \in Client |-> req[c]]
  /\ \A c \in Client : req[c] = Free \/ IsRequest(c, req[c])

Types ==
  /\ Requests
  /\ proposed \subseteq Entry /\ log \in Seq(Entry)
  /\ applied \in [Node -> Nat] /\ \A n \in Node : applied[n] <= Len(log)
  /\ store = [n \in Node |-> store[n]] /\ \A n \in Node : IsEngine(store[n])
  /\ exported = NoExport \/ IsVersions(exported)
  /\ inserting \subseteq {n \in Node : InsertNext(n)} /\ led \subseteq Node
  /\ faults \in 0 .. MaxFaults /\ ingests \in 0 .. MaxIngests
  /\ seen \in [Client -> Nat]

LEMMA BusyRequest ==
  ASSUME Types, NEW c \in Client, req[c].busy
  PROVE  IsRequest(c, req[c])
  BY DEF Types, Requests, Free

(* The entries a request leaves in the log.                                 *)
LEMMA ProposalIs ==
  ASSUME NEW c \in Client, NEW q, IsRequest(c, q)
  PROVE  Proposal(q.stmt) \subseteq Entry /\ \A e \in Proposal(q.stmt) : e.type = "SQL"
<1>1. CASE q.stmt.kind = "insert"
  <2>1. q.stmt.rows # <<>>
    BY <1>1 DEF IsRequest, ParseToPlan, buildInsertPlan
  <2>2. q.stmt \in SentInserts
    BY <1>1, <2>1 DEF IsRequest, SentInserts
  <2> QED
    BY <1>1, <2>2 DEF Proposal, Entry
<1>2. CASE q.stmt.kind # "insert"
  BY <1>2 DEF Proposal
<1> QED
  BY <1>1, <1>2

(* A statement that shows rows is a SELECT about a key.                     *)
LEMMA ShowsSelect ==
  ASSUME NEW c \in Client, NEW q, IsRequest(c, q), Shows(q.stmt)
  PROVE  q.stmt.kind = "select" /\ q.stmt.key \in Key
  BY PathStatements DEF IsRequest, Shows

LEMMA TxnNotSQL == \A e \in TxnEntries : e.type # "SQL"
  BY PathEntries

(* The engine readers meet has the versions of the replica, and an INSERT   *)
(* under way has one lock more.                                             *)
LEMMA EngineOfIs ==
  ASSUME Types, NEW n \in Node
  PROVE  /\ IsEngine(EngineOf(n))
         /\ EngineOf(n).versions = store[n].versions
         /\ \A k \in Key : EngineOf(n).locks[k] = NoLock => store[n].locks[k] = NoLock
<1>1. IsEngine(store[n])
  BY DEF Types
<1>2. CASE n \notin inserting
  BY <1>1, <1>2 DEF EngineOf
<1>3. CASE n \in inserting
  <2>1. applied[n] + 1 \in 1 .. Len(log) /\ InsertNext(n)
    <3>1. InsertNext(n)
      BY <1>3 DEF Types
    <3>2. applied[n] \in Nat /\ Len(log) \in Nat /\ applied[n] < Len(log)
      BY <3>1 DEF Types, InsertNext
    <3> QED
      BY <3>1, <3>2
  <2>2. PICK e \in Entry : e = log[applied[n] + 1] /\ e.type = "SQL"
    BY <2>1 DEF Types, InsertNext
  <2>3. PICK stmt \in SentInserts : e.stmt = stmt
    <3>1. PICK stmt \in SentInserts : e = [type |-> "SQL", stmt |-> stmt]
      BY <2>2, TxnNotSQL DEF Entry
    <3>2. e.stmt = stmt
      BY <3>1
    <3> QED
      BY <3>2
  <2>4. PICK values, key : values = stmt.rows[1] /\ key = values[1]
    OBVIOUS
  <2>5. key \in Key
    BY <2>1, <2>2, <2>3, <2>4, SentInsert DEF InsertNext
  <2>6. EngineOf(n) = Prepare(store[n], key, values, AutoTxn)
    BY <1>3, <2>2, <2>3, <2>4 DEF EngineOf
  <2>7. NoLock # [txn |-> AutoTxn, value |-> values]
    BY <2>4, PathNoLock DEF SentInserts
  <2>8. /\ IsEngine(EngineOf(n))
        /\ EngineOf(n).versions = store[n].versions
        /\ \A k \in Key :
             \/ EngineOf(n).locks[k] = store[n].locks[k]
             \/ EngineOf(n).locks[k] = [txn |-> AutoTxn, value |-> values]
    BY <1>1, <2>5, <2>6, PrepareEffects
  <2> QED
    BY <2>7, <2>8
<1> QED
  BY <1>2, <1>3

(* The rows of a shard.                                                     *)
LEMMA RowsAtIs ==
  ASSUME Types, NEW c \in Client, NEW q, IsRequest(c, q), NEW n \in Node
  PROVE  /\ \A r \in RowsAt(n, q.stmt) : r.from = n /\ ShowsNewest(store[n], r.row)
         /\ \A r, u \in RowsAt(n, q.stmt) : r.row.key = u.row.key => r = u
         /\ Shows(q.stmt) /\ q.stmt.where # "equal" =>
              \A k \in Key : Newest(store[n])[k] > 0 =>
                \E r \in RowsAt(n, q.stmt) : r.row.key = k /\ r.row.ts = Newest(store[n])[k]
<1>1. CASE ~Shows(q.stmt)
  BY <1>1 DEF RowsAt
<1>2. CASE Shows(q.stmt)
  <2>0. PICK s : s = EngineOf(n) /\ IsEngine(s) /\ s.versions = store[n].versions
    BY EngineOfIs
  <2> DEFINE R == Execute(ParseToPlan(q.stmt), s)
  <2>1. q.stmt.kind = "select" /\ q.stmt.key \in Key
    BY <1>2, ShowsSelect
  <2>9. /\ Newest(s) = Newest(store[n])
        /\ \A r : ShowsNewest(s, r) => ShowsNewest(store[n], r)
    <3>1. Newest(s) = Newest(store[n])
      BY <2>0 DEF Newest
    <3> QED
      BY <2>0, <3>1 DEF ShowsNewest
  <2>2. /\ \A r \in R : ShowsNewest(store[n], r)
        /\ \A r, u \in R : r.key = u.key => r = u
        /\ q.stmt.where # "equal" =>
              \A k \in Key : Newest(store[n])[k] > 0 =>
                \E r \in R : r.key = k /\ r.ts = Newest(store[n])[k]
    <3>1. /\ \A r \in R : ShowsNewest(s, r)
          /\ \A r, u \in R : r.key = u.key => r = u
          /\ q.stmt.where # "equal" =>
                \A k \in Key : Newest(s)[k] > 0 =>
                  \E r \in R : r.key = k /\ r.ts = Newest(s)[k]
      BY <2>0, <2>1, ReadRows
    <3> HIDE DEF R
    <3> QED
      BY <2>9, <3>1
  <2>3. RowsAt(n, q.stmt) = {[from |-> n, row |-> r] : r \in R}
    BY <1>2, <2>0 DEF RowsAt
  <2> HIDE DEF R
  <2>4. \A r \in RowsAt(n, q.stmt) :
          r.from = n /\ r.row \in R /\ r = [from |-> n, row |-> r.row]
    BY <2>3
  <2>5. \A r, u \in RowsAt(n, q.stmt) : r.row.key = u.row.key => r = u
    BY <2>2, <2>4
  <2>6. ASSUME q.stmt.where # "equal", NEW k \in Key, Newest(store[n])[k] > 0
        PROVE  \E r \in RowsAt(n, q.stmt) : r.row.key = k /\ r.row.ts = Newest(store[n])[k]
    <3>1. PICK r \in R : r.key = k /\ r.ts = Newest(store[n])[k]
      BY <2>2, <2>6
    <3>2. [from |-> n, row |-> r] \in RowsAt(n, q.stmt)
      BY <2>3
    <3> QED
      BY <3>1, <3>2
  <2> QED
    BY <2>2, <2>4, <2>5, <2>6
<1> QED
  BY <1>1, <1>2

(* A point read moves its client to a place, no later than any that fits.   *)
LEMMA PointReadIs ==
  ASSUME Types, NEW c \in Client, NEW n \in Node, NEW k
  PROVE  /\ PointRead(c, n, k) \in Nat
         /\ \A i \in Places(c, n, k) : PointRead(c, n, k) <= i
<1> DEFINE S == {MaxLog + 1} \cup Places(c, n, k)
<1>1. Places(c, n, k) \subseteq Nat
  <2>1. seen[c] \in Nat /\ Len(log) \in Nat
    BY DEF Types
  <2>2. Places(c, n, k) \subseteq seen[c] .. Len(log)
    BY DEF Places
  <2> QED
    BY <2>1, <2>2
<1>2. S \in SUBSET Nat /\ S # {}
  BY <1>1, PathBounds
<1>3. PointRead(c, n, k) = Min(S)
  BY DEF PointRead
<1>4. Places(c, n, k) \subseteq S
  OBVIOUS
<1> HIDE DEF S
<1>5. PICK m \in S : \A i \in S : m <= i
  BY <1>2, LeastElement
<1>6. Min(S) \in S /\ \A i \in S : Min(S) <= i
  BY <1>5 DEF Min
<1> QED
  BY <1>2, <1>3, <1>4, <1>6

LEMMA TypesInit == Init => Types
<1> SUFFICES ASSUME Init PROVE Types
  OBVIOUS
<1>1. IsVersions([k \in Key |-> <<>>])
  BY EmptyHistory DEF IsVersions
<1>2. IsEngine(NewEngine)
  BY <1>1 DEF NewEngine, IsEngine, IsLock
<1>3. Requests
  BY DEF Init, Requests
<1>4. log \in Seq(Entry) /\ Len(log) = 0
  BY DEF Init
<1>5. faults \in 0 .. MaxFaults /\ ingests \in 0 .. MaxIngests
  BY PathBounds DEF Init
<1> QED
  BY <1>2, <1>3, <1>4, <1>5 DEF Init, Types

(* The requests after one of them has changed.                              *)
LEMMA RequestChange ==
  ASSUME Types, NEW c \in Client, NEW q, req' = [req EXCEPT ![c] = q],
         q = Free \/ IsRequest(c, q)
  PROVE  Requests'
<1>1. /\ req' = [d \in Client |-> req'[d]]
      /\ req'[c] = q
      /\ \A d \in Client \ {c} : req'[d] = req[d]
  BY DEF Types, Requests
<1>2. \A d \in Client : req'[d] = Free \/ IsRequest(d, req'[d])
  BY <1>1 DEF Types, Requests
<1> QED
  BY <1>1, <1>2 DEF Requests

(* The answer, or the failure, of a shard changes three fields.             *)
Updated(c, todo, rows, failed) ==
  /\ req' = [req EXCEPT ![c] = req'[c]]
  /\ DOMAIN req'[c] = DOMAIN req[c]
  /\ req'[c] = [f \in DOMAIN req'[c] |-> req'[c][f]]
  /\ req'[c].busy = TRUE /\ req'[c].stmt = req[c].stmt
  /\ req'[c].asked = req[c].asked /\ req'[c].start = req[c].start
  /\ req'[c].todo = todo /\ req'[c].rows = rows /\ req'[c].failed = failed

LEMMA AskIs ==
  ASSUME Types, NEW c \in Client, NEW n \in Node, Ask(c, n)
  PROVE  Updated(c, req[c].todo \ {n}, req[c].rows \cup RowsAt(n, req[c].stmt),
                 req[c].failed \cup Nulls(n, req[c].stmt))
<1>1. PICK q : q = req[c] /\ IsRequest(c, q)
  BY BusyRequest DEF Ask
<1>2. PICK R, F : R = RowsAt(n, req[c].stmt) /\ F = Nulls(n, req[c].stmt)
  OBVIOUS
<1>3. req' = [req EXCEPT ![c] = [q EXCEPT !.todo = @ \ {n}, !.rows = @ \cup R,
                                          !.failed = @ \cup F]]
  BY <1>1, <1>2 DEF Ask, Types, Requests
<1> DEFINE p == [q EXCEPT !.todo = @ \ {n}, !.rows = @ \cup R, !.failed = @ \cup F]
<1>4. /\ DOMAIN p = DOMAIN q /\ p = [f \in DOMAIN p |-> p[f]]
      /\ p.busy = TRUE /\ p.stmt = q.stmt /\ p.asked = q.asked /\ p.start = q.start
      /\ p.todo = q.todo \ {n} /\ p.rows = q.rows \cup R /\ p.failed = q.failed \cup F
  BY <1>1 DEF IsRequest
<1> HIDE DEF p
<1>5. req' = [req EXCEPT ![c] = p] /\ req'[c] = p
  BY <1>3 DEF Types, Requests, p
<1> QED
  BY <1>1, <1>2, <1>4, <1>5 DEF Updated

LEMMA FailIs ==
  ASSUME Types, NEW c \in Client, NEW n \in Node, NEW reached \in BOOLEAN, Fail(c, n, reached)
  PROVE  Updated(c, req[c].todo \ {n}, req[c].rows, req[c].failed \cup {n})
<1>1. PICK q : q = req[c] /\ IsRequest(c, q)
  BY BusyRequest DEF Fail
<1>3. req' = [req EXCEPT ![c] = [q EXCEPT !.todo = @ \ {n}, !.failed = @ \cup {n}]]
  BY <1>1 DEF Fail, Types, Requests
<1> DEFINE p == [q EXCEPT !.todo = @ \ {n}, !.failed = @ \cup {n}]
<1>4. /\ DOMAIN p = DOMAIN q /\ p = [f \in DOMAIN p |-> p[f]]
      /\ p.busy = TRUE /\ p.stmt = q.stmt /\ p.asked = q.asked /\ p.start = q.start
      /\ p.todo = q.todo \ {n} /\ p.rows = q.rows /\ p.failed = q.failed \cup {n}
  BY <1>1 DEF IsRequest
<1> HIDE DEF p
<1>5. req' = [req EXCEPT ![c] = p] /\ req'[c] = p
  BY <1>3 DEF Types, Requests, p
<1>6. req' = [req EXCEPT ![c] = req'[c]]
  BY <1>5
<1>7. /\ DOMAIN req'[c] = DOMAIN req[c]
      /\ req'[c] = [f \in DOMAIN req'[c] |-> req'[c][f]]
  BY <1>1, <1>4, <1>5
<1>8. /\ req'[c].busy = TRUE /\ req'[c].stmt = req[c].stmt
      /\ req'[c].asked = req[c].asked /\ req'[c].start = req[c].start
  BY <1>1, <1>4, <1>5
<1>9. /\ req'[c].todo = req[c].todo \ {n} /\ req'[c].rows = req[c].rows
      /\ req'[c].failed = req[c].failed \cup {n}
  BY <1>1, <1>4, <1>5
<1> QED
  BY <1>6, <1>7, <1>8, <1>9 DEF Updated

(* A request after it was asked is still one.                               *)
LEMMA RequestAsked ==
  ASSUME Types, NEW c \in Client, req[c].busy, NEW n \in Node, NEW rows, NEW failed,
         failed \subseteq req[c].asked,
         \A r \in rows : r.from \in req[c].asked /\ r.row.key \in Key,
         Updated(c, req[c].todo \ {n}, rows, failed)
  PROVE  Requests'
<1>1. IsRequest(c, req[c])
  BY BusyRequest
<1>2. PICK q : q = req'[c]
  OBVIOUS
<1>3. req' = [req EXCEPT ![c] = q]
  BY <1>2 DEF Updated
<1>4. IsRequest(c, q)
  BY <1>1, <1>2 DEF IsRequest, Updated
<1> QED
  BY <1>3, <1>4, RequestChange

(* The request Submit makes.                                                *)
LEMMA SubmitIs ==
  ASSUME Types, NEW c \in Client, NEW stmt \in Statements(c), NEW hint \in Hints,
         Submit(c, stmt, hint)
  PROVE  /\ Requests'
         /\ req' = [req EXCEPT ![c] = req'[c]]
         /\ req'[c].busy = TRUE /\ req'[c].stmt = stmt /\ req'[c].asked = Route(stmt, hint)
         /\ req'[c].todo = Route(stmt, hint) /\ req'[c].rows = {} /\ req'[c].failed = {}
         /\ req'[c].start = [n \in Route(stmt, hint) |-> Newest(store[n])]
<1>1. PICK R, st : R = Route(stmt, hint) /\ st = [n \in R |-> Newest(store[n])]
  OBVIOUS
<1> DEFINE q == [busy |-> TRUE, stmt |-> stmt, asked |-> R, todo |-> R,
                 rows |-> {}, failed |-> {}, start |-> st]
<1>2. /\ DOMAIN q = {"busy", "stmt", "asked", "todo", "rows", "failed", "start"}
      /\ q = [f \in DOMAIN q |-> q[f]]
      /\ q.busy = TRUE /\ q.stmt = stmt /\ q.asked = R /\ q.todo = R
      /\ q.rows = {} /\ q.failed = {} /\ q.start = st
  OBVIOUS
<1>3. req' = [req EXCEPT ![c] = q]
  BY <1>1 DEF Submit
<1> HIDE DEF q
<1>4. R \subseteq Node /\ (stmt.kind = "select" /\ stmt.where = "equal" => R = {Home})
  BY <1>1, RouteIs
<1>5. ParseToPlan(stmt) # NoPlan
  BY DEF Submit
<1>6. IsRequest(c, q)
  BY <1>2, <1>4, <1>5 DEF IsRequest
<1>7. Requests'
  BY <1>3, <1>6, RequestChange
<1>8. req'[c] = q
  BY <1>3 DEF Types, Requests
<1>9. req' = [req EXCEPT ![c] = req'[c]]
  BY <1>3, <1>8
<1> QED
  BY <1>1, <1>2, <1>7, <1>8, <1>9

(* What a replica does with the next entry of the log.                      *)
LEMMA ApplyNextIs ==
  ASSUME Types, NEW n \in Node, ApplyNext(n)
  PROVE  /\ log[applied[n] + 1] \in Entry /\ applied[n] + 1 \in 1 .. Len(log)
         /\ store' = [m \in Node |-> store'[m]]
         /\ store'[n] = Apply(store[n], log[applied[n] + 1])
         /\ \A m \in Node \ {n} : store'[m] = store[m]
         /\ applied'[n] = applied[n] + 1
         /\ \A m \in Node \ {n} : applied'[m] = applied[m]
<1>1. applied[n] \in Nat /\ Len(log) \in Nat /\ applied[n] < Len(log)
  BY DEF Types, ApplyNext
<1>2. applied[n] + 1 \in 1 .. Len(log)
  BY <1>1
<1>3. log[applied[n] + 1] \in Entry
  BY <1>2 DEF Types
<1>4. PICK e : e = Apply(store[n], log[applied[n] + 1])
  OBVIOUS
<1>5. store' = [store EXCEPT ![n] = e]
  BY <1>4 DEF ApplyNext
<1>6. /\ store' = [m \in Node |-> store'[m]]
      /\ store'[n] = e
      /\ \A m \in Node \ {n} : store'[m] = store[m]
  BY <1>5 DEF Types
<1>7. applied'[n] = applied[n] + 1 /\ \A m \in Node \ {n} : applied'[m] = applied[m]
  BY DEF ApplyNext, Types
<1> QED
  BY <1>2, <1>3, <1>4, <1>6, <1>7

LEMMA DebugIngestIs ==
  ASSUME Types, NEW n \in Node, DebugIngest(n)
  PROVE  /\ IsVersions(exported)
         /\ store' = [m \in Node |-> store'[m]]
         /\ store'[n] = Ingest(store[n], exported)
         /\ \A m \in Node \ {n} : store'[m] = store[m]
<1>1. PICK e : e = Ingest(store[n], exported)
  OBVIOUS
<1>2. store' = [store EXCEPT ![n] = e]
  BY <1>1 DEF DebugIngest
<1>3. /\ store' = [m \in Node |-> store'[m]]
      /\ store'[n] = e
      /\ \A m \in Node \ {n} : store'[m] = store[m]
  BY <1>2 DEF Types
<1>4. IsVersions(exported)
  BY DEF Types, DebugIngest
<1> QED
  BY <1>1, <1>3, <1>4

(* Whatever happens, a replica keeps the timestamps it has.                 *)
LEMMA StoreStep ==
  ASSUME Types, [Next]_vars
  PROVE  /\ store' = [n \in Node |-> store'[n]]
         /\ \A n \in Node : IsEngine(store'[n]) /\ Grows(store[n], store'[n])
<1> DEFINE Good == /\ store' = [n \in Node |-> store'[n]]
                   /\ \A n \in Node : IsEngine(store'[n]) /\ Grows(store[n], store'[n])
<1> SUFFICES Good
  OBVIOUS
<1>1. /\ store = [n \in Node |-> store[n]]
      /\ \A n \in Node : IsEngine(store[n]) /\ Grows(store[n], store[n])
  BY DEF Types, Grows
<1>2. ASSUME UNCHANGED store PROVE Good
  BY <1>1, <1>2
<1>3. ASSUME NEW n \in Node, ApplyNext(n) PROVE Good
  <2>1. /\ log[applied[n] + 1] \in Entry
        /\ store' = [m \in Node |-> store'[m]]
        /\ store'[n] = Apply(store[n], log[applied[n] + 1])
        /\ \A m \in Node \ {n} : store'[m] = store[m]
    BY <1>3, ApplyNextIs
  <2>2. PICK e \in Entry : e = log[applied[n] + 1]
    BY <2>1
  <2>3. IsEngine(Apply(store[n], e)) /\ Grows(store[n], Apply(store[n], e))
    BY <1>1, ApplyEffects, ApplyGrows
  <2> QED
    BY <1>1, <2>1, <2>2, <2>3
<1>4. ASSUME NEW n \in Node, DebugIngest(n) PROVE Good
  <2>1. /\ IsVersions(exported)
        /\ store' = [m \in Node |-> store'[m]]
        /\ store'[n] = Ingest(store[n], exported)
        /\ \A m \in Node \ {n} : store'[m] = store[m]
    BY <1>4, DebugIngestIs
  <2>2. IsEngine(Ingest(store[n], exported)) /\ Grows(store[n], Ingest(store[n], exported))
    BY <1>1, <2>1, IngestEffects
  <2> QED
    BY <1>1, <2>1, <2>2
<1> HIDE DEF Good
<1>5. (\E n \in Node : ApplyNext(n) \/ DebugIngest(n)) \/ UNCHANGED store
  BY DEF Next, vars, InsertPrepare, LoseLeader, FindLeader, Submit, Serve, Ask, Fail, Answer,
         ProposeTxn, CommitEntry, DebugExport, replicas
<1> QED
  BY <1>2, <1>3, <1>4, <1>5

(* The log grows at its end.                                                *)
LEMMA LogStep ==
  ASSUME Types, [Next]_vars
  PROVE  /\ proposed' \subseteq Entry /\ log' \in Seq(Entry)
         /\ log' = log \/ \E e \in proposed : log' = Append(log, e)
         /\ Len(log) \in Nat /\ Len(log') \in Nat /\ Len(log) <= Len(log')
         /\ \A i \in 1 .. Len(log) : log'[i] = log[i]
<1>1. proposed \subseteq Entry /\ log \in Seq(Entry)
  BY DEF Types
<1>2. ASSUME NEW e \in proposed, CommitEntry(e)
      PROVE  proposed' \subseteq proposed /\ log' = Append(log, e)
  BY <1>2 DEF CommitEntry
<1>3. ASSUME NEW c \in Client, Proxy(c)
      PROVE  proposed' \subseteq Entry /\ log' = log
  <2>1. ASSUME NEW n \in Node, Ask(c, n) PROVE proposed' \subseteq Entry /\ log' = log
    <3>1. IsRequest(c, req[c])
      BY <2>1, BusyRequest DEF Ask
    <3>2. Proposal(req[c].stmt) \subseteq Entry
      BY <3>1, ProposalIs
    <3> QED
      BY <1>1, <2>1, <3>2 DEF Ask, replicas
  <2>2. ASSUME NEW n \in Node, NEW reached \in BOOLEAN, Fail(c, n, reached)
        PROVE  proposed' \subseteq Entry /\ log' = log
    <3>1. IsRequest(c, req[c])
      BY <2>2, BusyRequest DEF Fail
    <3>2. Proposal(req[c].stmt) \subseteq Entry
      BY <3>1, ProposalIs
    <3> QED
      BY <1>1, <2>2, <3>2 DEF Fail, replicas
  <2>3. Answer(c) => proposed' = proposed /\ log' = log
    BY DEF Answer, replicas
  <2> QED
    BY <1>1, <1>3, <2>1, <2>2, <2>3 DEF Proxy, Serve
<1>4. ASSUME NEW e \in TxnEntries, ProposeTxn(e)
      PROVE  proposed' \subseteq Entry /\ log' = log
  BY <1>1, <1>4 DEF ProposeTxn, replicas, Entry
<1>5. \/ \E e \in proposed : CommitEntry(e)
      \/ \E c \in Client : Proxy(c)
      \/ \E e \in TxnEntries : ProposeTxn(e)
      \/ proposed' = proposed /\ log' = log
  BY DEF Next, vars, InsertPrepare, LoseLeader, FindLeader, Proxy, Submit, ApplyNext, DebugExport,
         DebugIngest, replicas
<1>6. /\ proposed' \subseteq Entry
      /\ log' = log \/ \E e \in proposed : log' = Append(log, e)
  BY <1>1, <1>2, <1>3, <1>4, <1>5
<1>7. ASSUME NEW e \in Entry, log' = Append(log, e)
      PROVE  /\ log' \in Seq(Entry) /\ Len(log') = Len(log) + 1
             /\ \A i \in 1 .. Len(log) : log'[i] = log[i]
  BY <1>1, <1>7
<1>8. log' \in Seq(Entry) /\ \A i \in 1 .. Len(log) : log'[i] = log[i]
  BY <1>1, <1>6, <1>7
<1>9. Len(log) \in Nat /\ Len(log') \in Nat /\ Len(log) <= Len(log')
  BY <1>1, <1>6, <1>7
<1> QED
  BY <1>6, <1>8, <1>9

LEMMA RequestsStep ==
  ASSUME Types, [Next]_vars
  PROVE  Requests'
<1>1. ASSUME NEW c \in Client, NEW stmt \in Statements(c), NEW hint \in Hints,
             Submit(c, stmt, hint)
      PROVE  Requests'
  BY <1>1, SubmitIs
<1>2. ASSUME NEW c \in Client, NEW n \in Node, Ask(c, n) PROVE Requests'
  <2>1. IsRequest(c, req[c]) /\ req[c].busy /\ n \in req[c].todo
    BY <1>2, BusyRequest DEF Ask
  <2>3. \A r \in RowsAt(n, req[c].stmt) : r.from = n /\ r.row.key \in Key
    BY <2>1, RowsAtIs DEF ShowsNewest
  <2>4. PICK rows : rows = req[c].rows \cup RowsAt(n, req[c].stmt)
    OBVIOUS
  <2>5. \A r \in rows : r.from \in req[c].asked /\ r.row.key \in Key
    BY <2>1, <2>3, <2>4 DEF IsRequest
  <2>6. PICK failed : failed = req[c].failed \cup Nulls(n, req[c].stmt)
    OBVIOUS
  <2>7. Updated(c, req[c].todo \ {n}, rows, failed)
    BY <1>2, <2>4, <2>6, AskIs
  <2>8. failed \subseteq req[c].asked
    BY <2>1, <2>6 DEF IsRequest, Nulls
  <2> QED
    BY <2>1, <2>5, <2>7, <2>8, RequestAsked
<1>3. ASSUME NEW c \in Client, NEW n \in Node, NEW reached \in BOOLEAN, Fail(c, n, reached)
      PROVE  Requests'
  <2>1. IsRequest(c, req[c]) /\ req[c].busy /\ n \in req[c].todo
    BY <1>3, BusyRequest DEF Fail
  <2>2. PICK rows, failed : rows = req[c].rows /\ failed = req[c].failed \cup {n}
    OBVIOUS
  <2>3. Updated(c, req[c].todo \ {n}, rows, failed)
    BY <1>3, <2>2, FailIs
  <2>4. /\ failed \subseteq req[c].asked
        /\ \A r \in rows : r.from \in req[c].asked /\ r.row.key \in Key
    BY <2>1, <2>2 DEF IsRequest
  <2> QED
    BY <2>1, <2>3, <2>4, RequestAsked
<1>4. ASSUME NEW c \in Client, Answer(c) PROVE Requests'
  BY <1>4, RequestChange DEF Answer
<1>5. ASSUME UNCHANGED req PROVE Requests'
  BY <1>5 DEF Types, Requests
<1>6. \/ \E c \in Client : \E stmt \in Statements(c), hint \in Hints : Submit(c, stmt, hint)
      \/ \E c \in Client : Proxy(c)
      \/ UNCHANGED req
  BY DEF Next, vars, InsertPrepare, LoseLeader, FindLeader, Proxy, ProposeTxn, CommitEntry,
         ApplyNext, DebugExport, DebugIngest
<1> QED
  BY <1>1, <1>2, <1>3, <1>4, <1>5, <1>6 DEF Proxy, Serve

(* What a step makes of the place of a client: only a point read that is    *)
(* answered, and so by the home shard, moves it.                            *)
LEMMA SeenStep ==
  ASSUME Types, [Next]_vars
  PROVE  /\ seen' \in [Client -> Nat]
         /\ \A c \in Client :
              \/ seen'[c] = seen[c]
              \/ /\ applied' = applied
                 /\ \E k \in Key : /\ EngineOf(Home).locks[k] = NoLock
                                   /\ seen'[c] = PointRead(c, Home, k)
<1> DEFINE Moved(c) == /\ applied' = applied
                       /\ \E k \in Key : /\ EngineOf(Home).locks[k] = NoLock
                                         /\ seen'[c] = PointRead(c, Home, k)
           Good == /\ seen' \in [Client -> Nat]
                   /\ \A c \in Client : seen'[c] = seen[c] \/ Moved(c)
<1>1. ASSUME UNCHANGED seen PROVE Good
  BY <1>1 DEF Types
<1>2. ASSUME NEW c \in Client, NEW n \in Node, Ask(c, n),
             Shows(req[c].stmt), req[c].stmt.where = "equal", Nulls(n, req[c].stmt) = {}
      PROVE  Good
  <2>1. PICK q : q = req[c] /\ IsRequest(c, q) /\ n \in q.todo
    BY <1>2, BusyRequest DEF Ask
  <2>2. q.stmt.kind = "select" /\ q.stmt.key \in Key
    BY <1>2, <2>1, ShowsSelect
  <2>3. n = Home
    BY <1>2, <2>1, <2>2 DEF IsRequest
  <2>4. PICK key \in Key : key = q.stmt.key
    BY <2>2
  <2>5. EngineOf(n).locks[key] = NoLock
    <3>1. ParseToPlan(q.stmt) = [node |-> "pointget", key |-> key]
      BY <1>2, <2>1, <2>2, <2>4 DEF ParseToPlan, buildSelectPlan
    <3>2. ~Refuses(ParseToPlan(q.stmt), EngineOf(n))
      BY <1>2, <2>1 DEF Nulls
    <3> QED
      BY <3>1, <3>2 DEF Refuses
  <2>6. PICK i : i = PointRead(c, n, key)
    OBVIOUS
  <2>7. i \in Nat
    BY <2>6, PointReadIs
  <2>8. seen' = [seen EXCEPT ![c] = i]
    BY <1>2, <2>1, <2>4, <2>6 DEF Ask
  <2>9. seen' \in [Client -> Nat] /\ \A d \in Client : seen'[d] = IF d = c THEN i ELSE seen[d]
    BY <2>7, <2>8 DEF Types
  <2>10. applied' = applied
    BY <1>2 DEF Ask, replicas
  <2>11. Moved(c)
    BY <2>3, <2>5, <2>6, <2>9, <2>10
  <2> HIDE DEF Moved
  <2> QED
    BY <2>9, <2>11
<1> HIDE DEF Good
<1>3. ASSUME NEW c \in Client, Proxy(c) PROVE Good
  <2>1. ASSUME NEW n \in Node, Ask(c, n) PROVE Good
    <3>1. CASE Shows(req[c].stmt) /\ req[c].stmt.where = "equal" /\ Nulls(n, req[c].stmt) = {}
      BY <1>2, <2>1, <3>1
    <3>2. CASE ~(Shows(req[c].stmt) /\ req[c].stmt.where = "equal" /\ Nulls(n, req[c].stmt) = {})
      BY <1>1, <2>1, <3>2 DEF Ask
    <3> QED
      BY <3>1, <3>2
  <2>2. ASSUME ~\E n \in Node : Ask(c, n) PROVE Good
    BY <1>1, <1>3, <2>2 DEF Proxy, Serve, Fail, Answer
  <2> QED
    BY <2>1, <2>2
<1>4. (\E c \in Client : Proxy(c)) \/ UNCHANGED seen
  BY DEF Next, vars, InsertPrepare, LoseLeader, FindLeader, Proxy, Submit, ProposeTxn, CommitEntry,
         ApplyNext, DebugExport, DebugIngest
<1>5. Good
  BY <1>1, <1>3, <1>4
<1> QED
  BY <1>5 DEF Good

(* An INSERT under way is the next entry of its replica, and meets no lock. *)
LEMMA InsertingStep ==
  ASSUME Types, [Next]_vars
  PROVE  inserting' \subseteq {n \in Node : InsertNext(n)'} /\ led' \subseteq Node
<1>1. led' \subseteq Node
  BY DEF Types, Next, vars, InsertPrepare, LoseLeader, FindLeader, Serve, Ask, Fail, Answer,
         Submit, ProposeTxn, CommitEntry, ApplyNext, DebugExport, DebugIngest, replicas
<1>2. ASSUME NEW n \in inserting' PROVE n \in Node /\ InsertNext(n) /\ ~ApplyNext(n)
  <2>1. (n \in inserting \/ InsertPrepare(n)) /\ n \in Node
    BY <1>2 DEF Types, Next, vars, InsertPrepare, LoseLeader, FindLeader, Serve, Ask, Fail,
                Answer, Submit, ProposeTxn, CommitEntry, ApplyNext, DebugExport, DebugIngest,
                replicas
  <2> QED
    BY <1>2, <2>1 DEF Types, InsertPrepare, ApplyNext
<1>3. ASSUME NEW n \in Node, InsertNext(n), ~ApplyNext(n) PROVE InsertNext(n)'
  <2>1. applied'[n] = applied[n] /\ store'[n].locks = store[n].locks
    <3>1. ASSUME NEW m \in Node, ApplyNext(m) PROVE applied'[n] = applied[n] /\ store'[n] = store[n]
      BY <1>3, <3>1, ApplyNextIs
    <3>2. ASSUME NEW m \in Node, DebugIngest(m)
          PROVE  applied'[n] = applied[n] /\ store'[n].locks = store[n].locks
      <4>1. /\ IsVersions(exported)
            /\ store'[m] = Ingest(store[m], exported)
            /\ \A l \in Node \ {m} : store'[l] = store[l]
        BY <3>2, DebugIngestIs
      <4>2. Ingest(store[m], exported).locks = store[m].locks
        BY <4>1, IngestEffects DEF Types
      <4> QED
        BY <3>2, <4>1, <4>2 DEF DebugIngest
    <3>3. (\E m \in Node : ApplyNext(m) \/ DebugIngest(m)) \/ UNCHANGED <<store, applied>>
      BY DEF Next, vars, InsertPrepare, LoseLeader, FindLeader, Submit, Serve, Ask, Fail, Answer,
             ProposeTxn, CommitEntry, DebugExport, replicas
    <3> QED
      BY <3>1, <3>2, <3>3
  <2>2. PICK i \in 1 .. Len(log) : i = applied[n] + 1
    BY <1>3 DEF InsertNext, Types
  <2>3. i \in 1 .. Len(log') /\ log'[i] = log[i] /\ applied[n] < Len(log')
    BY <2>2, LogStep DEF Types
  <2>4. PICK values : values = log[i].stmt.rows[1]
    OBVIOUS
  <2>5. log[i].type = "SQL" /\ values # <<>> /\ ~LockedByOther(store[n], values[1], AutoTxn)
    BY <1>3, <2>2, <2>4 DEF InsertNext
  <2>6. ~LockedByOther(store'[n], values[1], AutoTxn)
    BY <2>1, <2>5 DEF LockedByOther
  <2> QED
    BY <2>1, <2>2, <2>3, <2>4, <2>5, <2>6 DEF InsertNext
<1> QED
  BY <1>1, <1>2, <1>3

LEMMA TypesStep ==
  ASSUME Types, [Next]_vars
  PROVE  Types'
<1>1. Requests'
  BY RequestsStep
<1>2. /\ proposed' \subseteq Entry /\ log' \in Seq(Entry)
      /\ Len(log) \in Nat /\ Len(log') \in Nat /\ Len(log) <= Len(log')
  BY LogStep
<1>3. applied' \in [Node -> Nat] /\ \A n \in Node : applied'[n] <= Len(log')
  <2>1. ASSUME NEW n \in Node, ApplyNext(n)
        PROVE  applied' \in [Node -> Nat] /\ \A m \in Node : applied'[m] <= Len(log')
    <3>1. /\ applied' = [applied EXCEPT ![n] = applied[n] + 1]
          /\ applied[n] < Len(log) /\ log' = log
      BY <2>1 DEF ApplyNext
    <3> QED
      BY <1>2, <3>1 DEF Types
  <2>2. ASSUME UNCHANGED applied
        PROVE  applied' \in [Node -> Nat] /\ \A m \in Node : applied'[m] <= Len(log')
    BY <1>2, <2>2 DEF Types
  <2>3. (\E n \in Node : ApplyNext(n)) \/ UNCHANGED applied
    BY DEF Next, vars, InsertPrepare, LoseLeader, FindLeader, Submit, Serve, Ask, Fail, Answer,
           ProposeTxn, CommitEntry, DebugExport, DebugIngest, replicas
  <2> QED
    BY <2>1, <2>2, <2>3
<1>4. store' = [n \in Node |-> store'[n]] /\ \A n \in Node : IsEngine(store'[n])
  BY StoreStep
<1>5. exported' = NoExport \/ IsVersions(exported')
  <2>1. ASSUME NEW n \in Node, DebugExport(n) PROVE IsVersions(exported')
    <3>1. IsEngine(store[n])
      BY DEF Types
    <3>2. IsVersions(Export(store[n], ExportKeys, ExportBeyond))
      BY <3>1, ExportEffects
    <3> QED
      BY <2>1, <3>2 DEF DebugExport
  <2>2. (\E n \in Node : DebugExport(n)) \/ UNCHANGED exported
    BY DEF Next, vars, InsertPrepare, LoseLeader, FindLeader, Submit, Serve, Ask, Fail, Answer,
           ProposeTxn, CommitEntry, ApplyNext, DebugIngest
  <2> QED
    BY <2>1, <2>2 DEF Types
<1>6. faults' \in 0 .. MaxFaults
  <2>1. faults' = faults \/ (faults < MaxFaults /\ faults' = faults + 1)
    BY DEF Next, vars, InsertPrepare, LoseLeader, FindLeader, Submit, Serve, Ask, Fail, Answer,
           ProposeTxn, CommitEntry, ApplyNext, DebugExport, DebugIngest
  <2>2. faults \in 0 .. MaxFaults /\ MaxFaults \in Nat
    BY PathBounds DEF Types
  <2> QED
    BY <2>1, <2>2
<1>7. ingests' \in 0 .. MaxIngests
  <2>1. ingests' = ingests \/ (ingests < MaxIngests /\ ingests' = ingests + 1)
    BY DEF Next, vars, InsertPrepare, LoseLeader, FindLeader, Submit, Serve, Ask, Fail, Answer,
           ProposeTxn, CommitEntry, ApplyNext, DebugExport, DebugIngest
  <2>2. ingests \in 0 .. MaxIngests /\ MaxIngests \in Nat
    BY PathBounds DEF Types
  <2> QED
    BY <2>1, <2>2
<1>8. seen' \in [Client -> Nat]
  BY SeenStep
<1>9. inserting' \subseteq {n \in Node : InsertNext(n)'} /\ led' \subseteq Node
  BY InsertingStep
<1> QED
  BY <1>1, <1>2, <1>3, <1>4, <1>5, <1>6, <1>7, <1>8, <1>9 DEF Types

(* Requests, rows, engines and exports keep the shapes the proxy and the    *)
(* shard nodes give them (proxy/main.go:96-200, executor.go:101-143): a row *)
(* is a version of a key, and the locks and versions of a replica are those *)
(* of an engine.                                                            *)
THEOREM Typed == Spec => []Types
<1>1. Init => Types
  BY TypesInit
<1>2. Types /\ [Next]_vars => Types'
  BY TypesStep
<1> QED
  BY <1>1, <1>2, PTL DEF Spec

(* The type invariant of SQLPath.                                           *)
THEOREM TypeCorrect == Spec => []TypeOK
<1>1. Types => TypeOK
  <2> SUFFICES ASSUME Types PROVE TypeOK
    OBVIOUS
  <2>1. ASSUME NEW c \in Client, req[c].busy
        PROVE  /\ req[c].todo \subseteq req[c].asked /\ req[c].asked \subseteq Node
               /\ req[c].failed \subseteq req[c].asked
               /\ \A r \in req[c].rows : r.from \in req[c].asked /\ r.row.key \in Key
    BY <2>1, BusyRequest DEF IsRequest
  <2>2. \A n \in Node : applied[n] \in 0 .. Len(log)
    BY DEF Types
  <2>3. \A n \in Node, k \in Key :
          store[n].locks[k] = NoLock \/ DOMAIN store[n].locks[k] = {"txn", "value"}
    BY DEF Types, IsEngine, IsLock
  <2>4. /\ faults \in 0 .. MaxFaults /\ ingests \in 0 .. MaxIngests
        /\ inserting \subseteq Node /\ led \subseteq Node
    BY DEF Types
  <2> QED
    BY <2>1, <2>2, <2>3, <2>4 DEF TypeOK
<1> QED
  BY <1>1, Typed, PTL

-----------------------------------------------------------------------------
(* Rows stem from the log.                                                  *)

Stems(k, ts, value) == \E i \in 1 .. Len(log) : Writes(log[i], k, ts, value)

Prepared(k, txn, value) ==
  \E i \in 1 .. Len(log) : /\ log[i].type = "PREPARE" /\ log[i].key = k
                           /\ log[i].txn = txn /\ log[i].value = value

VersionsStem(vs) == \A k \in Key : \A ts \in DOMAIN vs[k] : Stems(k, ts, vs[k][ts])

(* Every version of a replica, or of an export, was written by an entry of  *)
(* the log, and every lock was placed by a PREPARE in it.                   *)
StoreStems ==
  /\ \A n \in Node : VersionsStem(store[n].versions)
  /\ \A n \in Node, k \in Key : store[n].locks[k] # NoLock =>
       Prepared(k, store[n].locks[k].txn, store[n].locks[k].value)
  /\ exported # NoExport => VersionsStem(exported)

LEMMA StemsStay ==
  ASSUME Types, [Next]_vars, NEW k, NEW ts, NEW value, Stems(k, ts, value)
  PROVE  Stems(k, ts, value)'
<1>1. PICK i \in 1 .. Len(log) : Writes(log[i], k, ts, value)
  BY DEF Stems
<1>2. /\ Len(log) \in Nat /\ Len(log') \in Nat /\ Len(log) <= Len(log')
      /\ \A j \in 1 .. Len(log) : log'[j] = log[j]
  BY LogStep
<1>3. i \in 1 .. Len(log') /\ log'[i] = log[i]
  BY <1>2
<1>4. PICK e : e = log[i]
  OBVIOUS
<1>5. Writes(e, k, ts, value)'
  <2>1. Writes(e, k, ts, value)
    BY <1>1, <1>4
  <2>2. ASSUME e.type = "COMMIT", e.key = k, e.ts = ts,
               NEW j \in 1 .. Len(log), log[j].type = "PREPARE", log[j].key = k,
               log[j].txn = e.txn, log[j].value = value
        PROVE  Writes(e, k, ts, value)'
    <3>1. j \in 1 .. Len(log') /\ log'[j] = log[j]
      BY <1>2
    <3> QED
      BY <2>2, <3>1 DEF Writes
  <2> QED
    BY <2>1, <2>2 DEF Writes
<1> QED
  BY <1>3, <1>4, <1>5 DEF Stems

LEMMA PreparedStays ==
  ASSUME Types, [Next]_vars, NEW k, NEW txn, NEW value, Prepared(k, txn, value)
  PROVE  Prepared(k, txn, value)'
<1>1. PICK i \in 1 .. Len(log) : /\ log[i].type = "PREPARE" /\ log[i].key = k
                                 /\ log[i].txn = txn /\ log[i].value = value
  BY DEF Prepared
<1>2. i \in 1 .. Len(log') /\ log'[i] = log[i]
  BY LogStep
<1> QED
  BY <1>1, <1>2 DEF Prepared

(* What an entry of the log puts stems from it.                             *)
LEMMA PutStems ==
  ASSUME NEW i \in 1 .. Len(log), NEW l, NEW k, NEW ts, NEW value,
         Puts(l, log[i], k, ts, value),
         l[k] # NoLock => Prepared(k, l[k].txn, l[k].value)
  PROVE  Stems(k, ts, value)
<1>1. PICK e : e = log[i]
  OBVIOUS
<1>2. Writes(e, k, ts, value)
  <2>1. Puts(l, e, k, ts, value)
    BY <1>1
  <2>2. ASSUME e.type = "COMMIT", e.key = k, e.ts = ts,
               l[k] # NoLock, l[k].txn = e.txn, l[k].value = value
        PROVE  Writes(e, k, ts, value)
    <3>1. Prepared(k, e.txn, value)
      BY <2>2
    <3> QED
      BY <2>2, <3>1 DEF Writes, Prepared
  <2> QED
    BY <2>1, <2>2 DEF Puts, Writes
<1> QED
  BY <1>1, <1>2 DEF Stems

(* The versions and locks a step leaves on a replica stem from the log as   *)
(* it was before: an entry is in the log before it is applied.              *)
LEMMA VersionsStemStep ==
  ASSUME Types, StoreStems, [Next]_vars, NEW n \in Node
  PROVE  /\ VersionsStem(store'[n].versions)
         /\ \A k \in Key : store'[n].locks[k] # NoLock =>
              Prepared(k, store'[n].locks[k].txn, store'[n].locks[k].value)
<1> DEFINE Good == /\ VersionsStem(store'[n].versions)
                   /\ \A k \in Key : store'[n].locks[k] # NoLock =>
                        Prepared(k, store'[n].locks[k].txn, store'[n].locks[k].value)
<1>0. /\ VersionsStem(store[n].versions)
      /\ \A k \in Key : store[n].locks[k] # NoLock =>
           Prepared(k, store[n].locks[k].txn, store[n].locks[k].value)
      /\ IsEngine(store[n])
  BY DEF StoreStems, Types
<1>1. ASSUME store'[n] = store[n] PROVE Good
  BY <1>0, <1>1
<1>2. ASSUME ApplyNext(n) PROVE Good
  <2>1. PICK i \in 1 .. Len(log) : i = applied[n] + 1 /\ log[i] \in Entry
    BY <1>2, ApplyNextIs
  <2>2. PICK s, t : s = store[n] /\ t = store'[n] /\ t = Apply(s, log[i])
    BY <1>2, <2>1, ApplyNextIs
  <2>3. IsEngine(s)
    BY <1>0, <2>2
  <2>4. /\ \A k \in Key : OneWrite(s.locks, log[i], k, s.versions[k], t.versions[k])
        /\ \A k \in Key :
             \/ t.locks[k] \in {s.locks[k], NoLock}
             \/ /\ log[i].type = "PREPARE" /\ log[i].key = k
                /\ t.locks[k] = [txn |-> log[i].txn, value |-> log[i].value]
    BY <2>1, <2>2, <2>3, ApplyEffects
  <2>5. ASSUME NEW k \in Key, NEW ts \in DOMAIN t.versions[k]
        PROVE  Stems(k, ts, t.versions[k][ts])
    <3>1. CASE t.versions[k] = s.versions[k]
      BY <1>0, <2>2, <3>1 DEF VersionsStem
    <3>2. ASSUME NEW u \in Nat, NEW value, Puts(s.locks, log[i], k, u, value),
                 t.versions[k] = WithVersion(s.versions[k], u, value)
          PROVE  Stems(k, ts, t.versions[k][ts])
      <4>1. \/ ts = u /\ t.versions[k][ts] = value
            \/ ts \in DOMAIN s.versions[k] /\ t.versions[k][ts] = s.versions[k][ts]
        BY <3>2 DEF WithVersion
      <4>2. s.locks[k] # NoLock => Prepared(k, s.locks[k].txn, s.locks[k].value)
        BY <1>0, <2>2
      <4>3. PICK l : l = s.locks
        OBVIOUS
      <4>4. Stems(k, u, value)
        BY <3>2, <4>2, <4>3, PutStems
      <4>5. ts \in DOMAIN s.versions[k] => Stems(k, ts, s.versions[k][ts])
        BY <1>0, <2>2 DEF VersionsStem
      <4> QED
        BY <4>1, <4>4, <4>5
    <3> QED
      BY <2>4, <3>1, <3>2 DEF OneWrite
  <2>6. ASSUME NEW k \in Key, t.locks[k] # NoLock
        PROVE  Prepared(k, t.locks[k].txn, t.locks[k].value)
    <3>1. CASE t.locks[k] = s.locks[k]
      BY <1>0, <2>2, <2>6, <3>1
    <3>2. CASE /\ log[i].type = "PREPARE" /\ log[i].key = k
               /\ t.locks[k] = [txn |-> log[i].txn, value |-> log[i].value]
      <4>1. t.locks[k].txn = log[i].txn /\ t.locks[k].value = log[i].value
        BY <3>2
      <4> QED
        BY <3>2, <4>1 DEF Prepared
    <3> QED
      BY <2>4, <2>6, <3>1, <3>2
  <2> QED
    BY <2>2, <2>5, <2>6 DEF VersionsStem
<1>3. ASSUME DebugIngest(n) PROVE Good
  <2>1. PICK s, t : /\ s = store[n] /\ t = store'[n] /\ IsVersions(exported)
                    /\ t = Ingest(s, exported)
    BY <1>3, DebugIngestIs
  <2>2. /\ t.locks = s.locks
        /\ \A k \in Key : \A ts \in DOMAIN t.versions[k] :
              \/ ts \in DOMAIN exported[k] /\ t.versions[k][ts] = exported[k][ts]
              \/ /\ ts \in DOMAIN s.versions[k] \ DOMAIN exported[k]
                 /\ t.versions[k][ts] = s.versions[k][ts]
    BY <1>0, <2>1, IngestEffects
  <2>3. VersionsStem(exported)
    BY <1>3 DEF DebugIngest, StoreStems
  <2>4. VersionsStem(t.versions)
    BY <1>0, <2>1, <2>2, <2>3 DEF VersionsStem
  <2> QED
    BY <1>0, <2>1, <2>2, <2>4
<1>4. store'[n] = store[n] \/ ApplyNext(n) \/ DebugIngest(n)
  <2>1. ASSUME NEW m \in Node, ApplyNext(m) \/ DebugIngest(m), m # n PROVE store'[n] = store[n]
    BY <2>1, ApplyNextIs, DebugIngestIs
  <2>2. (\E m \in Node : ApplyNext(m) \/ DebugIngest(m)) \/ UNCHANGED store
    BY DEF Next, vars, InsertPrepare, LoseLeader, FindLeader, Submit, Serve, Ask, Fail, Answer,
           ProposeTxn, CommitEntry, DebugExport, replicas
  <2> QED
    BY <2>1, <2>2
<1> QED
  BY <1>1, <1>2, <1>3, <1>4

LEMMA StemInit == Init => StoreStems
<1> SUFFICES ASSUME Init PROVE StoreStems
  OBVIOUS
<1>1. \A n \in Node, k \in Key : store[n].versions[k] = <<>> /\ store[n].locks[k] = NoLock
  BY DEF Init, NewEngine
<1>2. \A n \in Node : VersionsStem(store[n].versions)
  BY <1>1, EmptyHistory DEF VersionsStem
<1> QED
  BY <1>1, <1>2 DEF StoreStems, Init

LEMMA StemStep ==
  ASSUME Types, StoreStems, [Next]_vars
  PROVE  StoreStems'
<1>1. ASSUME NEW vs, VersionsStem(vs) PROVE VersionsStem(vs)'
  <2> SUFFICES ASSUME NEW k \in Key, NEW ts \in DOMAIN vs[k] PROVE Stems(k, ts, vs[k][ts])'
    BY DEF VersionsStem
  <2>1. Stems(k, ts, vs[k][ts])
    BY <1>1 DEF VersionsStem
  <2> QED
    BY <2>1, StemsStay
<1>2. ASSUME NEW n \in Node PROVE VersionsStem(store[n].versions)'
  <2>1. PICK vs : vs = store'[n].versions
    OBVIOUS
  <2>2. VersionsStem(vs)
    BY <2>1, VersionsStemStep
  <2>3. VersionsStem(vs)'
    BY <1>1, <2>2
  <2> QED
    BY <2>1, <2>3
<1>3. ASSUME NEW n \in Node, NEW k \in Key, store'[n].locks[k] # NoLock
      PROVE  Prepared(k, store[n].locks[k].txn, store[n].locks[k].value)'
  <2>1. PICK txn, value : txn = store'[n].locks[k].txn /\ value = store'[n].locks[k].value
    OBVIOUS
  <2>2. Prepared(k, txn, value)
    BY <1>3, <2>1, VersionsStemStep
  <2>3. Prepared(k, txn, value)'
    BY <2>2, PreparedStays
  <2> QED
    BY <2>1, <2>3
<1>4. ASSUME exported' # NoExport PROVE VersionsStem(exported)'
  <2>1. PICK vs : vs = exported'
    OBVIOUS
  <2>2. VersionsStem(vs)
    <3>1. CASE exported' = exported
      BY <1>4, <2>1, <3>1 DEF StoreStems
    <3>2. ASSUME NEW n \in Node, DebugExport(n) PROVE VersionsStem(vs)
      <4>1. /\ vs = Export(store[n], ExportKeys, ExportBeyond)
            /\ IsEngine(store[n]) /\ VersionsStem(store[n].versions)
        BY <2>1, <3>2 DEF DebugExport, Types, StoreStems
      <4>2. \A k \in Key : \A t \in DOMAIN vs[k] :
              t \in DOMAIN store[n].versions[k] /\ vs[k][t] = store[n].versions[k][t]
        BY <4>1, ExportEffects
      <4> QED
        BY <4>1, <4>2 DEF VersionsStem
    <3>3. (\E n \in Node : DebugExport(n)) \/ exported' = exported
      BY DEF Next, vars, InsertPrepare, LoseLeader, FindLeader, Submit, Serve, Ask, Fail, Answer,
             ProposeTxn, CommitEntry, ApplyNext, DebugIngest
    <3> QED
      BY <3>1, <3>2, <3>3
  <2>3. VersionsStem(vs)'
    BY <1>1, <2>2
  <2> QED
    BY <2>1, <2>3
<1> QED
  BY <1>2, <1>3, <1>4 DEF StoreStems

(* Rows already answered stay, and an answering shard shows its versions.   *)
LEMMA RowsStep ==
  ASSUME Types, StoreStems, RowsCommitted, [Next]_vars
  PROVE  RowsCommitted'
<1>1. ASSUME NEW c \in Client, req'[c].busy, NEW r \in req'[c].rows
      PROVE  Stems(r.row.key, r.row.ts, r.row.value)
  <2>1. ASSUME req'[c] = req[c] PROVE Stems(r.row.key, r.row.ts, r.row.value)
    BY <1>1, <2>1 DEF RowsCommitted, Stems
  <2>2. ASSUME NEW d \in Client, NEW q, req' = [req EXCEPT ![d] = q], d # c
        PROVE  req'[c] = req[c]
    BY <2>2
  <2>3. ASSUME NEW d \in Client, NEW stmt \in Statements(d), NEW hint \in Hints,
               Submit(d, stmt, hint)
        PROVE  req'[c] = req[c]
    <3>1. req' = [req EXCEPT ![d] = req'[d]] /\ req'[d].rows = {}
      BY <2>3, SubmitIs
    <3> QED
      BY <1>1, <3>1, <2>2
  <2>4. ASSUME NEW d \in Client, NEW n \in Node, Ask(d, n)
        PROVE  Stems(r.row.key, r.row.ts, r.row.value)
    <3>1. Updated(d, req[d].todo \ {n}, req[d].rows \cup RowsAt(n, req[d].stmt),
                  req[d].failed \cup Nulls(n, req[d].stmt))
      BY <2>4, AskIs
    <3>2. CASE d # c
      BY <2>1, <2>2, <3>1, <3>2 DEF Updated
    <3>3. CASE d = c
      <4>1. r \in req[c].rows \/ r \in RowsAt(n, req[c].stmt)
        BY <1>1, <3>1, <3>3 DEF Updated
      <4>2. req[c].busy /\ IsRequest(c, req[c])
        BY <2>4, <3>3, BusyRequest DEF Ask
      <4>3. CASE r \in req[c].rows
        BY <4>2, <4>3 DEF RowsCommitted, Stems
      <4>4. CASE r \in RowsAt(n, req[c].stmt)
        <5>2. ShowsNewest(store[n], r.row)
          BY <4>2, <4>4, RowsAtIs
        <5> QED
          BY <5>2 DEF ShowsNewest, StoreStems, VersionsStem
      <4> QED
        BY <4>1, <4>3, <4>4
    <3> QED
      BY <3>2, <3>3
  <2>5. ASSUME NEW d \in Client, NEW n \in Node, NEW reached \in BOOLEAN, Fail(d, n, reached)
        PROVE  Stems(r.row.key, r.row.ts, r.row.value)
    <3>1. Updated(d, req[d].todo \ {n}, req[d].rows, req[d].failed \cup {n})
      BY <2>5, FailIs
    <3>2. CASE d # c
      BY <2>1, <2>2, <3>1, <3>2 DEF Updated
    <3>3. CASE d = c
      <4>1. req[c].busy /\ r \in req[c].rows
        BY <1>1, <2>5, <3>1, <3>3 DEF Updated, Fail
      <4> QED
        BY <4>1 DEF RowsCommitted, Stems
    <3> QED
      BY <3>2, <3>3
  <2>6. ASSUME NEW d \in Client, Answer(d) PROVE req'[c] = req[c]
    <3>1. req' = [req EXCEPT ![d] = Free] /\ (d = c => req'[c] = Free)
      BY <2>6 DEF Answer, Types, Requests
    <3> QED
      BY <1>1, <2>2, <3>1 DEF Free
  <2>7. \/ \E d \in Client : \E stmt \in Statements(d), hint \in Hints : Submit(d, stmt, hint)
        \/ \E d \in Client : Proxy(d)
        \/ UNCHANGED req
    BY DEF Next, vars, InsertPrepare, LoseLeader, FindLeader, Proxy, ProposeTxn, CommitEntry,
           ApplyNext, DebugExport, DebugIngest
  <2> QED
    BY <2>1, <2>3, <2>4, <2>5, <2>6, <2>7 DEF Proxy, Serve
<1>2. ASSUME NEW c \in Client, req'[c].busy, NEW r \in req'[c].rows
      PROVE  \E i \in 1 .. Len(log') : Writes(log[i], r.row.key, r.row.ts, r.row.value)'
  <2>1. PICK k, ts, value : k = r.row.key /\ ts = r.row.ts /\ value = r.row.value
    OBVIOUS
  <2>2. Stems(k, ts, value)
    BY <1>1, <1>2, <2>1
  <2>3. Stems(k, ts, value)'
    BY <2>2, StemsStay
  <2> QED
    BY <2>1, <2>3 DEF Stems
<1> QED
  BY <1>2 DEF RowsCommitted

(* Every row a client gets was committed by an entry of the log, at its     *)
(* timestamp and with its value (shard-node/main.go:177-182,                *)
(* executor.go:101-143): no scan shows an intent, and no INSERT is seen     *)
(* that the group has not committed, by whatever export and ingest the      *)
(* version reached the replica.                                             *)
THEOREM RowsFromLog == Spec => []RowsCommitted
<1>1. Init => StoreStems /\ RowsCommitted
  BY StemInit DEF Init, RowsCommitted, Free
<1>2. Types /\ StoreStems /\ RowsCommitted /\ [Next]_vars => StoreStems' /\ RowsCommitted'
  BY StemStep, RowsStep
<1> QED
  BY <1>1, <1>2, Typed, PTL DEF Spec

-----------------------------------------------------------------------------
(* Scatter-gather.                                                          *)

(* The rows gathered so far: at most one per shard and key, none from a     *)
(* shard still to answer, whose versions are no older than at the start,    *)
(* and from the others what they showed at the start, or newer.             *)
Gathering(asked, todo, rows, failed, start) ==
  /\ \A n \in asked, k \in Key : start[n][k] \in Nat
  /\ \A n \in todo, k \in Key : start[n][k] <= Newest(store[n])[k]
  /\ \A r \in rows : r.from \notin todo
  /\ \A r, u \in rows : r.from = u.from /\ r.row.key = u.row.key => r = u
  /\ \A n \in asked \ (todo \cup failed), k \in Key : start[n][k] > 0 =>
       \E r \in rows : r.from = n /\ r.row.key = k /\ r.row.ts >= start[n][k]

Gathered ==
  \A c \in Client :
    req[c].busy /\ Shows(req[c].stmt) /\ req[c].stmt.where # "equal" =>
      Gathering(req[c].asked, req[c].todo, req[c].rows, req[c].failed, req[c].start)

(* The other steps only bring newer versions.                               *)
LEMMA GatheringStays ==
  ASSUME Types, [Next]_vars, NEW asked \in SUBSET Node, NEW todo \in SUBSET asked,
         NEW rows, NEW failed, NEW start, Gathering(asked, todo, rows, failed, start)
  PROVE  Gathering(asked, todo, rows, failed, start)'
<1>1. ASSUME NEW n \in todo, NEW k \in Key PROVE start[n][k] <= Newest(store'[n])[k]
  <2>1. n \in Node /\ n \in asked
    OBVIOUS
  <2>2. IsEngine(store[n]) /\ IsEngine(store'[n]) /\ Grows(store[n], store'[n])
    BY <2>1, StoreStep DEF Types
  <2>3. PICK old, new : old = Newest(store[n])[k] /\ new = Newest(store'[n])[k]
    OBVIOUS
  <2>4. old \in Nat /\ new \in Nat /\ old <= new
    BY <2>2, <2>3, NewestIs, NewestGrows
  <2>5. start[n][k] \in Nat /\ start[n][k] <= old
    BY <2>1, <2>3 DEF Gathering
  <2> QED
    BY <2>3, <2>4, <2>5
<1> QED
  BY <1>1 DEF Gathering

(* Shard n answers.                                                         *)
LEMMA GatheringAsk ==
  ASSUME Types, NEW c \in Client, NEW q, IsRequest(c, q), NEW n \in q.todo,
         Shows(q.stmt), q.stmt.where # "equal",
         Gathering(q.asked, q.todo, q.rows, q.failed, q.start), NEW F
  PROVE  Gathering(q.asked, q.todo \ {n}, q.rows \cup RowsAt(n, q.stmt), q.failed \cup F,
                   q.start)
<1>1. PICK R : R = RowsAt(n, q.stmt)
  OBVIOUS
<1>2. n \in q.asked /\ n \in Node /\ IsEngine(store[n])
  BY DEF IsRequest, Types
<1>3. /\ \A r \in R : r.from = n /\ ShowsNewest(store[n], r.row)
      /\ \A r, u \in R : r.row.key = u.row.key => r = u
      /\ \A k \in Key : Newest(store[n])[k] > 0 =>
           \E r \in R : r.row.key = k /\ r.row.ts = Newest(store[n])[k]
  BY <1>1, <1>2, RowsAtIs
<1>4. \A r \in q.rows \cup R : r.from \notin q.todo \ {n}
  BY <1>3 DEF Gathering
<1>5. ASSUME NEW r \in q.rows \cup R, NEW u \in q.rows \cup R,
             r.from = u.from, r.row.key = u.row.key
      PROVE  r = u
  <2>1. \A x \in q.rows : x.from # n
    BY DEF Gathering
  <2> QED
    BY <1>3, <1>5, <2>1 DEF Gathering
<1>6. ASSUME NEW m \in q.asked \ ((q.todo \ {n}) \cup (q.failed \cup F)),
             NEW k \in Key, q.start[m][k] > 0
      PROVE  \E r \in q.rows \cup R : r.from = m /\ r.row.key = k /\ r.row.ts >= q.start[m][k]
  <2>1. CASE m # n
    BY <1>6, <2>1 DEF Gathering
  <2>2. CASE m = n
    <3>1. PICK s, new : s = q.start[n][k] /\ new = Newest(store[n])[k]
      OBVIOUS
    <3>2. s \in Nat /\ new \in Nat /\ s > 0 /\ s <= new
      BY <1>2, <1>6, <2>2, <3>1, NewestIs DEF Gathering
    <3>3. PICK r \in R : r.row.key = k /\ r.row.ts = new
      BY <1>3, <3>1, <3>2
    <3>4. r.from = m /\ r.row.ts >= s
      BY <1>3, <2>2, <3>2, <3>3
    <3> QED
      BY <2>2, <3>1, <3>3, <3>4
  <2> QED
    BY <2>1, <2>2
<1>7. /\ \A m \in q.asked, k \in Key : q.start[m][k] \in Nat
      /\ \A m \in q.todo \ {n}, k \in Key : q.start[m][k] <= Newest(store[m])[k]
  BY DEF Gathering
<1> QED
  BY <1>1, <1>4, <1>5, <1>6, <1>7 DEF Gathering

LEMMA GatherInit == Init => Gathered
  BY DEF Init, Gathered, Free

LEMMA GatherStep ==
  ASSUME Types, Gathered, [Next]_vars
  PROVE  Gathered'
<1> DEFINE Good(c) ==
      req'[c].busy /\ Shows(req'[c].stmt) /\ req'[c].stmt.where # "equal" =>
        Gathering(req[c].asked, req[c].todo, req[c].rows, req[c].failed, req[c].start)'
<1> SUFFICES ASSUME NEW c \in Client PROVE Good(c)
  BY DEF Gathered, Shows
<1>1. ASSUME NEW asked, NEW todo, NEW rows, NEW failed, NEW start,
             asked \subseteq Node, todo \subseteq asked,
             asked = req'[c].asked, todo = req'[c].todo, rows = req'[c].rows,
             failed = req'[c].failed, start = req'[c].start,
             Gathering(asked, todo, rows, failed, start)
      PROVE  Good(c)
  <2>1. Gathering(asked, todo, rows, failed, start)'
    BY <1>1, GatheringStays
  <2> QED
    BY <1>1, <2>1
<1>2. ASSUME req'[c] = req[c] PROVE Good(c)
  <2> SUFFICES ASSUME req'[c].busy, Shows(req'[c].stmt), req'[c].stmt.where # "equal" PROVE Good(c)
    OBVIOUS
  <2>1. PICK q : q = req[c] /\ IsRequest(c, q)
    BY <1>2, BusyRequest
  <2>2. Gathering(q.asked, q.todo, q.rows, q.failed, q.start)
    BY <1>2, <2>1 DEF Gathered
  <2>3. q.asked \subseteq Node /\ q.todo \subseteq q.asked
    BY <2>1 DEF IsRequest
  <2> QED
    BY <1>1, <1>2, <2>1, <2>2, <2>3
<1>3. ASSUME NEW d \in Client, NEW q, req' = [req EXCEPT ![d] = q], d # c PROVE Good(c)
  <2>1. req'[c] = req[c]
    BY <1>3
  <2> QED
    BY <1>2, <2>1
<1>4. ASSUME NEW d \in Client, NEW stmt \in Statements(d), NEW hint \in Hints,
             Submit(d, stmt, hint)
      PROVE  Good(c)
  <2>1. /\ req' = [req EXCEPT ![d] = req'[d]]
        /\ req'[d].asked = Route(stmt, hint) /\ req'[d].todo = Route(stmt, hint)
        /\ req'[d].rows = {} /\ req'[d].failed = {}
        /\ req'[d].start = [n \in Route(stmt, hint) |-> Newest(store[n])]
    <3>1. req' = [req EXCEPT ![d] = req'[d]]
      BY <1>4, SubmitIs
    <3>2. /\ req'[d].asked = Route(stmt, hint) /\ req'[d].todo = Route(stmt, hint)
          /\ req'[d].rows = {} /\ req'[d].failed = {}
      BY <1>4, SubmitIs
    <3>3. req'[d].start = [n \in Route(stmt, hint) |-> Newest(store[n])]
      BY <1>4, SubmitIs
    <3> QED
      BY <3>1, <3>2, <3>3
  <2>2. PICK q : q = req'[d]
    OBVIOUS
  <2>3. CASE d # c
    BY <1>3, <2>1, <2>2, <2>3
  <2>4. CASE d = c
    <3>1. PICK R, start : R = Route(stmt, hint) /\ start = [n \in R |-> Newest(store[n])]
      OBVIOUS
    <3>2. R \subseteq Node
      BY <3>1, RouteIs
    <3>3. \A n \in R, k \in Key : start[n][k] = Newest(store[n])[k] /\ start[n][k] \in Nat
      BY <3>1, <3>2, NewestIs DEF Types
    <3>4. Gathering(R, R, {}, {}, start)
      BY <3>3 DEF Gathering
    <3> QED
      BY <1>1, <2>1, <2>4, <3>1, <3>2, <3>4
  <2> QED
    BY <2>3, <2>4
<1>5. ASSUME NEW d \in Client, NEW n \in Node, Ask(d, n) PROVE Good(c)
  <2>1. Updated(d, req[d].todo \ {n}, req[d].rows \cup RowsAt(n, req[d].stmt),
                  req[d].failed \cup Nulls(n, req[d].stmt))
    BY <1>5, AskIs
  <2>2. PICK q : q = req'[d] /\ req' = [req EXCEPT ![d] = q]
    BY <2>1 DEF Updated
  <2>3. CASE d # c
    BY <1>3, <2>2, <2>3
  <2>4. CASE d = c
    <3> SUFFICES ASSUME Shows(req'[c].stmt), req'[c].stmt.where # "equal" PROVE Good(c)
      OBVIOUS
    <3>1. PICK p : p = req[c] /\ IsRequest(c, p) /\ n \in p.todo /\ p.busy
      BY <1>5, <2>4, BusyRequest DEF Ask
    <3>2. p.stmt = req'[c].stmt
      BY <2>1, <2>4, <3>1 DEF Updated
    <3>3. Shows(p.stmt) /\ p.stmt.where # "equal"
      BY <3>2
    <3>4. Gathering(p.asked, p.todo, p.rows, p.failed, p.start)
      BY <3>1, <3>3 DEF Gathered
    <3>5. PICK rows, failed : /\ rows = p.rows \cup RowsAt(n, p.stmt)
                              /\ failed = p.failed \cup Nulls(n, p.stmt)
      OBVIOUS
    <3>6. Gathering(p.asked, p.todo \ {n}, rows, failed, p.start)
      BY <3>1, <3>3, <3>4, <3>5, GatheringAsk
    <3>7. p.asked \subseteq Node /\ p.todo \ {n} \subseteq p.asked
      BY <3>1 DEF IsRequest
    <3>8. /\ p.asked = req'[c].asked /\ p.todo \ {n} = req'[c].todo /\ rows = req'[c].rows
          /\ failed = req'[c].failed /\ p.start = req'[c].start
      BY <2>1, <2>4, <3>1, <3>5 DEF Updated
    <3> QED
      BY <1>1, <3>6, <3>7, <3>8
  <2> QED
    BY <2>3, <2>4
<1>6. ASSUME NEW d \in Client, NEW n \in Node, NEW reached \in BOOLEAN, Fail(d, n, reached)
      PROVE  Good(c)
  <2>1. Updated(d, req[d].todo \ {n}, req[d].rows, req[d].failed \cup {n})
    BY <1>6, FailIs
  <2>2. PICK q : q = req'[d] /\ req' = [req EXCEPT ![d] = q]
    BY <2>1 DEF Updated
  <2>3. CASE d # c
    BY <1>3, <2>2, <2>3
  <2>4. CASE d = c
    <3> SUFFICES ASSUME Shows(req'[c].stmt), req'[c].stmt.where # "equal" PROVE Good(c)
      OBVIOUS
    <3>1. PICK p : p = req[c] /\ IsRequest(c, p) /\ n \in p.todo /\ p.busy
      BY <1>6, <2>4, BusyRequest DEF Fail
    <3>2. p.stmt = req'[c].stmt
      BY <2>1, <2>4, <3>1 DEF Updated
    <3>3. Shows(p.stmt) /\ p.stmt.where # "equal"
      BY <3>2
    <3>4. Gathering(p.asked, p.todo, p.rows, p.failed, p.start)
      BY <3>1, <3>3 DEF Gathered
    <3>5. p.asked \ ((p.todo \ {n}) \cup (p.failed \cup {n})) \subseteq p.asked \ (p.todo \cup p.failed)
      OBVIOUS
    <3>6. Gathering(p.asked, p.todo \ {n}, p.rows, p.failed \cup {n}, p.start)
      BY <3>4, <3>5 DEF Gathering
    <3>7. p.asked \subseteq Node /\ p.todo \ {n} \subseteq p.asked
      BY <3>1 DEF IsRequest
    <3>8. /\ p.asked = req'[c].asked /\ p.todo \ {n} = req'[c].todo /\ p.rows = req'[c].rows
          /\ p.failed \cup {n} = req'[c].failed /\ p.start = req'[c].start
      BY <2>1, <2>4, <3>1 DEF Updated
    <3> QED
      BY <1>1, <3>6, <3>7, <3>8
  <2> QED
    BY <2>3, <2>4
<1>7. ASSUME NEW d \in Client, Answer(d) PROVE Good(c)
  <2>1. req' = [req EXCEPT ![d] = Free] /\ (d = c => ~req'[c].busy)
    BY <1>7 DEF Answer, Types, Requests, Free
  <2> QED
    BY <1>3, <2>1
<1> HIDE DEF Good
<1>8. \/ \E d \in Client : \E stmt \in Statements(d), hint \in Hints : Submit(d, stmt, hint)
      \/ \E d \in Client : Proxy(d)
      \/ UNCHANGED req
  BY DEF Next, vars, InsertPrepare, LoseLeader, FindLeader, Proxy, ProposeTxn, CommitEntry,
         ApplyNext, DebugExport, DebugIngest
<1> QED
  BY <1>2, <1>4, <1>5, <1>6, <1>7, <1>8 DEF Proxy, Serve

LEMMA GatheredComplete ==
  ASSUME Types, Gathered
  PROVE  ScatterComplete
<1> SUFFICES ASSUME NEW c \in Client, Answered(c), Shows(req[c].stmt),
                    req[c].stmt.where # "equal", req[c].failed = {},
                    NEW n \in req[c].asked, NEW k \in Key
             PROVE  LET mine == {r \in req[c].rows : r.from = n /\ r.row.key = k} IN
                    /\ Cardinality(mine) <= 1
                    /\ req[c].start[n][k] > 0 =>
                         \E r \in mine : r.row.ts >= req[c].start[n][k]
  BY DEF ScatterComplete
<1> DEFINE mine == {r \in req[c].rows : r.from = n /\ r.row.key = k}
<1>1. req[c].busy /\ req[c].todo = {}
  BY DEF Answered
<1>2. Gathering(req[c].asked, {}, req[c].rows, {}, req[c].start)
  BY <1>1 DEF Gathered
<1>3. req[c].start[n][k] > 0 => \E r \in mine : r.row.ts >= req[c].start[n][k]
  BY <1>2 DEF Gathering
<1>4. \A r, u \in mine : r = u
  BY <1>2 DEF Gathering
<1> HIDE DEF mine
<1>5. mine = {} \/ \E r : mine = {r}
  BY <1>4
<1>6. Cardinality(mine) <= 1
  <2>1. CASE mine = {}
    <3>1. Cardinality({}) = 0
      BY FS_EmptySet
    <3> QED
      BY <2>1, <3>1
  <2>2. ASSUME NEW r, mine = {r} PROVE Cardinality(mine) <= 1
    <3>1. Cardinality({r}) = 1
      BY FS_Singleton
    <3> QED
      BY <2>2, <3>1
  <2> QED
    BY <1>5, <2>1, <2>2
<1> QED
  BY <1>3, <1>6 DEF mine

(* The answer of a scatter-gather without failures has each key each shard  *)
(* showed when the request began, no older than then, and at most once per  *)
(* shard (proxy/main.go:126-200), however many shards there are and         *)
(* whatever they apply or ingest meanwhile.                                 *)
THEOREM ScatterMissesNothing == Spec => []ScatterComplete
<1>1. Init => Gathered
  BY GatherInit
<1>2. Types /\ Gathered /\ [Next]_vars => Gathered'
  BY GatherStep
<1>3. Types /\ Gathered => ScatterComplete
  BY GatheredComplete
<1> QED
  BY <1>1, <1>2, <1>3, Typed, PTL DEF Spec

-----------------------------------------------------------------------------
(* Versions are kept.                                                       *)

(* The coordinator's entries are proposed once, so they are in the log at   *)
(* most once.                                                               *)
Once ==
  /\ \A i, j \in 1 .. Len(log) : log[i] = log[j] /\ log[i] \in TxnEntries => i = j
  /\ \A i \in 1 .. Len(log) : log[i] \in TxnEntries => log[i] \notin proposed

(* The locks after each entry of the log.                                   *)
LockHistory(h) == \A i \in 1 .. Len(log) : h[i] = LocksAfter(h[i - 1], log[i])

(* Every version outside AutoTs is what some entry put there, under the     *)
(* locks of its place in the log.                                           *)
Written(h, vs) ==
  \A k \in Key : \A ts \in DOMAIN vs[k] : ts # AutoTs =>
    \E i \in 1 .. Len(log) : Puts(h[i - 1], log[i], k, ts, vs[k][ts])

(* The replicas have the locks of their place in the log, and what they     *)
(* hold, applied or ingested, was put by the log.                           *)
Follows(h) ==
  /\ \A n \in Node : store[n].locks = h[applied[n]]
  /\ \A n \in Node : Written(h, store[n].versions)
  /\ exported # NoExport => Written(h, exported)

OneHistory == \E h : LockHistory(h) /\ Follows(h)

LEMMA OnceStep ==
  ASSUME Types, Once, [Next]_vars
  PROVE  Once'
<1>1. log \in Seq(Entry) /\ proposed \subseteq Entry
  BY DEF Types
<1>2. ASSUME NEW e \in proposed, CommitEntry(e) PROVE Once'
  <2>1. proposed' = proposed \ {e} /\ log' = Append(log, e)
    BY <1>2 DEF CommitEntry
  <2>2. /\ Len(log') = Len(log) + 1 /\ log'[Len(log) + 1] = e /\ Len(log) \in Nat
        /\ \A i \in 1 .. Len(log) : log'[i] = log[i]
    BY <1>1, <2>1
  <2>3. \A i \in 1 .. Len(log) : log[i] \in TxnEntries => log[i] # e
    BY DEF Once
  <2>4. ASSUME NEW i \in 1 .. Len(log'), NEW j \in 1 .. Len(log'),
               log'[i] = log'[j], log'[i] \in TxnEntries
        PROVE  i = j
    <3>1. /\ i \in 1 .. Len(log) \/ i = Len(log) + 1
          /\ j \in 1 .. Len(log) \/ j = Len(log) + 1
      BY <2>2
    <3> QED
      BY <2>2, <2>3, <2>4, <3>1 DEF Once
  <2>5. ASSUME NEW i \in 1 .. Len(log'), log'[i] \in TxnEntries PROVE log'[i] \notin proposed'
    <3>1. i \in 1 .. Len(log) \/ i = Len(log) + 1
      BY <2>2
    <3> QED
      BY <2>1, <2>2, <2>5, <3>1 DEF Once
  <2> QED
    BY <2>4, <2>5 DEF Once
<1>3. ASSUME log' = log, \A e \in proposed' \ proposed : e \notin TxnEntries PROVE Once'
  BY <1>3 DEF Once
<1>4. ASSUME NEW e \in TxnEntries, ProposeTxn(e) PROVE Once'
  <2>1. \A i \in 1 .. Len(log) : log[i] # e
    BY <1>1, <1>4 DEF ProposeTxn, ToSet
  <2>2. log' = log /\ proposed' = proposed \cup {e}
    BY <1>4 DEF ProposeTxn, replicas
  <2> QED
    BY <2>1, <2>2 DEF Once
<1>5. ASSUME NEW c \in Client, Proxy(c)
      PROVE  log' = log /\ \A e \in proposed' \ proposed : e \notin TxnEntries
  <2>1. log' = log /\ proposed' \subseteq proposed \cup Proposal(req[c].stmt)
    BY <1>5 DEF Proxy, Serve, Ask, Fail, Answer, replicas
  <2>2. proposed' # proposed => req[c].busy
    BY <1>5 DEF Proxy, Serve, Ask, Fail, Answer
  <2>3. ASSUME req[c].busy PROVE \A e \in Proposal(req[c].stmt) : e.type = "SQL"
    <3>1. IsRequest(c, req[c])
      BY <2>3, BusyRequest
    <3> QED
      BY <3>1, ProposalIs
  <2> QED
    BY <2>1, <2>2, <2>3, TxnNotSQL
<1>6. \/ \E e \in proposed : CommitEntry(e)
      \/ \E c \in Client : Proxy(c)
      \/ \E e \in TxnEntries : ProposeTxn(e)
      \/ proposed' = proposed /\ log' = log
  BY DEF Next, vars, InsertPrepare, LoseLeader, FindLeader, Proxy, Submit, ApplyNext, DebugExport,
         DebugIngest, replicas
<1> QED
  BY <1>2, <1>3, <1>4, <1>5, <1>6

(* One entry of the log writes a key at a timestamp, so one value.          *)
LEMMA OneValue ==
  ASSUME Types, Once, NEW h, NEW k \in Key, NEW ts, ts # AutoTs, NEW v, NEW w,
         NEW i \in 1 .. Len(log), Puts(h[i - 1], log[i], k, ts, v),
         NEW j \in 1 .. Len(log), Puts(h[j - 1], log[j], k, ts, w)
  PROVE  v = w
<1>1. ASSUME NEW l, NEW e \in Entry, NEW x, Puts(l, e, k, ts, x)
      PROVE  e \in TxnEntries /\ k \in KeysWritten(e) /\ e.ts = ts
  <2>1. e.type \in {"COMMIT", "ONESHOT"} /\ e.ts = ts
    BY <1>1 DEF Puts
  <2>2. e \in TxnEntries
    BY <2>1 DEF Entry
  <2>3. k \in KeysWritten(e)
    BY <1>1, <2>1 DEF Puts, KeysWritten
  <2> QED
    BY <2>1, <2>2, <2>3
<1>2. PICK e \in Entry, f \in Entry : e = log[i] /\ f = log[j]
  BY DEF Types
<1>3. /\ e \in TxnEntries /\ k \in KeysWritten(e) /\ e.ts = ts
      /\ f \in TxnEntries /\ k \in KeysWritten(f) /\ f.ts = ts
  BY <1>1, <1>2
<1>4. e = f
  BY <1>3, PathTimestamps
<1>5. i = j
  BY <1>2, <1>3, <1>4 DEF Once
<1>6. PICK l : l = h[i - 1]
  OBVIOUS
<1>7. Puts(l, e, k, ts, v) /\ Puts(l, e, k, ts, w)
  BY <1>2, <1>5, <1>6
<1> QED
  BY <1>7 DEF Puts

(* A step leaves nothing on a replica that the log before it did not put.   *)
LEMMA FollowStep ==
  ASSUME Types, [Next]_vars, NEW h, LockHistory(h), Follows(h), NEW n \in Node
  PROVE  store'[n].locks = h[applied'[n]] /\ Written(h, store'[n].versions)
<1> DEFINE Good == store'[n].locks = h[applied'[n]] /\ Written(h, store'[n].versions)
<1>0. /\ store[n].locks = h[applied[n]] /\ Written(h, store[n].versions)
      /\ IsEngine(store[n])
  BY DEF Follows, Types
<1>1. ASSUME store'[n] = store[n], applied'[n] = applied[n] PROVE Good
  BY <1>0, <1>1
<1>2. ASSUME ApplyNext(n) PROVE Good
  <2>1. PICK i \in 1 .. Len(log) : i = applied[n] + 1 /\ log[i] \in Entry
    BY <1>2, ApplyNextIs
  <2>2. PICK s, t : s = store[n] /\ t = store'[n] /\ t = Apply(s, log[i])
    BY <1>2, <2>1, ApplyNextIs
  <2>3. IsEngine(s)
    BY <1>0, <2>2
  <2>4. applied[n] = i - 1 /\ applied'[n] = i
    BY <1>2, <2>1, ApplyNextIs DEF Types
  <2>5. \A k \in Key : OneWrite(s.locks, log[i], k, s.versions[k], t.versions[k])
    <3>1. PICK e \in Entry : e = log[i]
      BY <2>1
    <3>2. \A k \in Key : OneWrite(s.locks, e, k, s.versions[k], Apply(s, e).versions[k])
      BY <2>3, ApplyEffects
    <3> QED
      BY <2>2, <3>1, <3>2
  <2>6. t.locks = LocksAfter(s.locks, log[i])
    BY <2>1, <2>2, <2>3, ApplyLocks
  <2>7. s.locks = h[i - 1]
    BY <1>0, <2>2, <2>4
  <2>8. t.locks = h[i]
    BY <2>6, <2>7 DEF LockHistory
  <2>9. ASSUME NEW k \in Key, NEW ts \in DOMAIN t.versions[k], ts # AutoTs
        PROVE  \E j \in 1 .. Len(log) : Puts(h[j - 1], log[j], k, ts, t.versions[k][ts])
    <3>1. CASE t.versions[k] = s.versions[k]
      BY <1>0, <2>2, <2>9, <3>1 DEF Written
    <3>2. ASSUME NEW u \in Nat, NEW value, Puts(s.locks, log[i], k, u, value),
                 t.versions[k] = WithVersion(s.versions[k], u, value)
          PROVE  \E j \in 1 .. Len(log) : Puts(h[j - 1], log[j], k, ts, t.versions[k][ts])
      <4>1. \/ ts = u /\ t.versions[k][ts] = value
            \/ ts \in DOMAIN s.versions[k] /\ t.versions[k][ts] = s.versions[k][ts]
        BY <3>2 DEF WithVersion
      <4>2. ts \in DOMAIN s.versions[k] =>
              \E j \in 1 .. Len(log) : Puts(h[j - 1], log[j], k, ts, s.versions[k][ts])
        BY <1>0, <2>2, <2>9 DEF Written
      <4>3. Puts(h[i - 1], log[i], k, u, value)
        BY <2>7, <3>2
      <4> QED
        BY <4>1, <4>2, <4>3
    <3> QED
      BY <2>5, <3>1, <3>2 DEF OneWrite
  <2> QED
    BY <2>2, <2>4, <2>8, <2>9 DEF Written
<1>3. ASSUME DebugIngest(n) PROVE Good
  <2>1. PICK s, t : /\ s = store[n] /\ t = store'[n] /\ IsVersions(exported)
                    /\ t = Ingest(s, exported)
    BY <1>3, DebugIngestIs
  <2>2. /\ t.locks = s.locks
        /\ \A k \in Key : \A ts \in DOMAIN t.versions[k] :
              \/ ts \in DOMAIN exported[k] /\ t.versions[k][ts] = exported[k][ts]
              \/ /\ ts \in DOMAIN s.versions[k] \ DOMAIN exported[k]
                 /\ t.versions[k][ts] = s.versions[k][ts]
    BY <1>0, <2>1, IngestEffects
  <2>3. Written(h, exported) /\ applied' = applied
    BY <1>3 DEF DebugIngest, Follows
  <2>4. Written(h, t.versions)
    BY <1>0, <2>1, <2>2, <2>3 DEF Written
  <2> QED
    BY <1>0, <2>1, <2>2, <2>3, <2>4
<1>4. ApplyNext(n) \/ DebugIngest(n) \/ (store'[n] = store[n] /\ applied'[n] = applied[n])
  <2>1. ASSUME NEW m \in Node, ApplyNext(m), m # n
        PROVE  store'[n] = store[n] /\ applied'[n] = applied[n]
    BY <2>1, ApplyNextIs
  <2>2. ASSUME NEW m \in Node, DebugIngest(m), m # n
        PROVE  store'[n] = store[n] /\ applied'[n] = applied[n]
    BY <2>2, DebugIngestIs DEF DebugIngest
  <2>3. (\E m \in Node : ApplyNext(m) \/ DebugIngest(m)) \/ UNCHANGED <<store, applied>>
    BY DEF Next, vars, InsertPrepare, LoseLeader, FindLeader, Submit, Serve, Ask, Fail, Answer,
           ProposeTxn, CommitEntry, DebugExport, replicas
  <2> QED
    BY <2>1, <2>2, <2>3
<1> QED
  BY <1>1, <1>2, <1>3, <1>4

LEMMA OneHistoryInit == Init => Once /\ OneHistory
<1> SUFFICES ASSUME Init PROVE Once /\ OneHistory
  OBVIOUS
<1>1. Len(log) = 0 /\ 1 .. Len(log) = {}
  BY DEF Init
<1>2. Once
  BY <1>1 DEF Once
<1> DEFINE h == [i \in {0} |-> [k \in Key |-> NoLock]]
<1>3. LockHistory(h)
  BY <1>1 DEF LockHistory
<1>4. \A n \in Node : /\ store[n].locks = h[applied[n]]
                      /\ \A k \in Key : store[n].versions[k] = <<>>
  BY DEF Init, NewEngine
<1>5. Follows(h)
  <2>1. \A n \in Node : Written(h, store[n].versions)
    BY <1>4, EmptyHistory DEF Written
  <2> QED
    BY <1>4, <2>1 DEF Follows, Init
<1> QED
  BY <1>2, <1>3, <1>5 DEF OneHistory

LEMMA OneHistoryStep ==
  ASSUME Types, OneHistory, [Next]_vars
  PROVE  OneHistory'
<1>1. PICK h : LockHistory(h) /\ Follows(h)
  BY DEF OneHistory
<1>2. /\ \A n \in Node : store'[n].locks = h[applied'[n]] /\ Written(h, store'[n].versions)
  BY <1>1, FollowStep
<1>3. exported' # NoExport => Written(h, exported')
  <2>1. ASSUME NEW n \in Node, DebugExport(n) PROVE Written(h, exported')
    <3>1. PICK x : /\ x = exported' /\ x = Export(store[n], ExportKeys, ExportBeyond)
                   /\ IsEngine(store[n])
      BY <2>1 DEF DebugExport, Types
    <3>2. \A k \in Key : \A t \in DOMAIN x[k] :
            t \in DOMAIN store[n].versions[k] /\ x[k][t] = store[n].versions[k][t]
      BY <3>1, ExportEffects
    <3>3. Written(h, x)
      BY <1>1, <3>2 DEF Follows, Written
    <3> QED
      BY <3>1, <3>3
  <2>2. (\E n \in Node : DebugExport(n)) \/ exported' = exported
    BY DEF Next, vars, InsertPrepare, LoseLeader, FindLeader, Submit, Serve, Ask, Fail, Answer,
           ProposeTxn, CommitEntry, ApplyNext, DebugIngest
  <2> QED
    BY <1>1, <2>1, <2>2 DEF Follows
<1>4. /\ log' = log \/ \E e \in proposed : log' = Append(log, e)
      /\ log \in Seq(Entry) /\ Len(log) \in Nat
      /\ applied \in [Node -> Nat] /\ \A n \in Node : applied[n] <= Len(log)
  BY LogStep DEF Types
<1>5. CASE log' = log
  <2>1. LockHistory(h)'
    BY <1>1, <1>5 DEF LockHistory
  <2>2. \A vs : Written(h, vs) <=> Written(h, vs)'
    BY <1>5 DEF Written
  <2>3. Follows(h)'
    BY <1>2, <1>3, <2>2 DEF Follows
  <2> QED
    BY <2>1, <2>3 DEF OneHistory
<1>6. ASSUME NEW e \in Entry, log' = Append(log, e) PROVE OneHistory'
  <2>1. PICK len \in Nat : len = Len(log)
    BY <1>4
  <2>2. /\ Len(log') = len + 1 /\ log'[len + 1] = e
        /\ \A i \in 1 .. len : log'[i] = log[i]
    BY <1>4, <1>6, <2>1
  <2>3. PICK next : next = LocksAfter(h[len], e)
    OBVIOUS
  <2> DEFINE g == [i \in 0 .. len + 1 |-> IF i = len + 1 THEN next ELSE h[i]]
  <2>4. g[len + 1] = next /\ \A i \in 0 .. len : g[i] = h[i]
    BY <2>1
  <2> HIDE DEF g
  <2>5. LockHistory(g)'
    <3> SUFFICES ASSUME NEW i \in 1 .. Len(log') PROVE g[i] = LocksAfter(g[i - 1], log'[i])
      BY DEF LockHistory
    <3>1. CASE i = len + 1
      <4>1. i - 1 = len /\ i - 1 \in 0 .. len
        BY <2>1, <3>1
      <4>2. g[i - 1] = h[len] /\ log'[i] = e /\ g[i] = next
        BY <2>2, <2>4, <3>1, <4>1
      <4> QED
        BY <2>3, <4>2
    <3>2. CASE i # len + 1
      <4>1. i \in 1 .. len /\ i - 1 \in 0 .. len /\ i \in 0 .. len
        BY <2>1, <2>2, <3>2
      <4>2. g[i - 1] = h[i - 1] /\ g[i] = h[i] /\ log'[i] = log[i]
        BY <2>2, <2>4, <4>1
      <4>3. h[i] = LocksAfter(h[i - 1], log[i])
        BY <1>1, <2>1, <4>1 DEF LockHistory
      <4> QED
        BY <4>2, <4>3
    <3> QED
      BY <3>1, <3>2
  <2>6. ASSUME NEW vs, Written(h, vs) PROVE Written(g, vs)'
    <3> SUFFICES ASSUME NEW k \in Key, NEW ts \in DOMAIN vs[k], ts # AutoTs
                 PROVE  \E i \in 1 .. Len(log') : Puts(g[i - 1], log'[i], k, ts, vs[k][ts])
      BY DEF Written, Puts
    <3>1. PICK i \in 1 .. Len(log) : Puts(h[i - 1], log[i], k, ts, vs[k][ts])
      BY <2>6 DEF Written
    <3>2. i \in 1 .. len /\ i \in 1 .. Len(log') /\ i - 1 \in 0 .. len
      BY <2>1, <2>2
    <3>3. g[i - 1] = h[i - 1] /\ log'[i] = log[i]
      BY <2>2, <2>4, <3>2
    <3>4. Puts(g[i - 1], log'[i], k, ts, vs[k][ts])
      BY <3>1, <3>3
    <3> QED
      BY <3>2, <3>4
  <2>7. ASSUME NEW n \in Node PROVE store'[n].locks = g[applied'[n]]
    <3>1. applied' = applied
      <4>1. log' # log
        BY <2>1, <2>2
      <4>2. applied' = applied \/ log' = log
        BY DEF Next, vars, InsertPrepare, LoseLeader, FindLeader, Submit, Serve, Ask, Fail, Answer,
               ProposeTxn, CommitEntry, ApplyNext, DebugExport, DebugIngest, replicas
      <4> QED
        BY <4>1, <4>2
    <3>2. applied[n] \in 0 .. len
      BY <1>4, <2>1
    <3> QED
      BY <1>2, <2>4, <3>1, <3>2
  <2>8. Follows(g)'
    <3>1. ASSUME NEW n \in Node PROVE Written(g, store[n].versions)'
      <4>1. PICK vs : vs = store'[n].versions
        OBVIOUS
      <4>2. Written(g, vs)'
        BY <1>2, <2>6, <4>1
      <4> QED
        BY <4>1, <4>2
    <3>2. ASSUME exported' # NoExport PROVE Written(g, exported)'
      <4>1. PICK vs : vs = exported'
        OBVIOUS
      <4>2. Written(g, vs)'
        BY <1>3, <2>6, <3>2, <4>1
      <4> QED
        BY <4>1, <4>2
    <3> QED
      BY <2>7, <3>1, <3>2 DEF Follows
  <2> QED
    BY <2>5, <2>8 DEF OneHistory
<1> QED
  BY <1>4, <1>5, <1>6 DEF Types

(* There is one history of the lock table along the log: every replica has  *)
(* the locks of its place in it (shard-node/main.go:38-108), and every      *)
(* version outside AutoTs, applied or ingested, is what an entry writes     *)
(* under the locks of its place.                                            *)
THEOREM ReplicasFollowLog == Spec => [](Once /\ OneHistory)
<1>1. Init => Once /\ OneHistory
  BY OneHistoryInit
<1>2. Types /\ Once /\ OneHistory /\ [Next]_vars => Once' /\ OneHistory'
  BY OnceStep, OneHistoryStep
<1> QED
  BY <1>1, <1>2, Typed, PTL DEF Spec

(* A replica loses no version, and outside AutoTs rewrites none             *)
(* (memory.go:67-94, 343-351), whether it applies the log late or ingests   *)
(* from a replica that was ahead of it: where it meets a timestamp again,   *)
(* the value is the one it has, since the locks are those of the log.       *)
THEOREM VersionsStay == Spec => VersionsKept
<1>1. Types /\ Once /\ OneHistory /\ [Next]_vars
        => [\A n \in Node, k \in Key : \A ts \in DOMAIN store[n].versions[k] :
              /\ ts \in DOMAIN store'[n].versions[k]
              /\ ts # AutoTs => store'[n].versions[k][ts] = store[n].versions[k][ts]]_store
  <2> SUFFICES ASSUME Types, Once, OneHistory, [Next]_vars, NEW n \in Node, NEW k \in Key,
                      NEW ts \in DOMAIN store[n].versions[k]
               PROVE  /\ ts \in DOMAIN store'[n].versions[k]
                      /\ ts # AutoTs => store'[n].versions[k][ts] = store[n].versions[k][ts]
    OBVIOUS
  <2>1. ts \in DOMAIN store'[n].versions[k]
    BY StoreStep DEF Grows
  <2>2. ASSUME ts # AutoTs PROVE store'[n].versions[k][ts] = store[n].versions[k][ts]
    <3>1. PICK h : LockHistory(h) /\ Follows(h)
      BY DEF OneHistory
    <3>2. PICK v, w : v = store[n].versions[k][ts] /\ w = store'[n].versions[k][ts]
      OBVIOUS
    <3>3. PICK i \in 1 .. Len(log) : Puts(h[i - 1], log[i], k, ts, v)
      BY <2>2, <3>1, <3>2 DEF Follows, Written
    <3>4. Written(h, store'[n].versions)
      BY <3>1, FollowStep
    <3>5. PICK j \in 1 .. Len(log) : Puts(h[j - 1], log[j], k, ts, w)
      BY <2>1, <2>2, <3>2, <3>4 DEF Written
    <3>6. v = w
      BY <2>2, <3>3, <3>5, OneValue
    <3> QED
      BY <3>2, <3>6
  <2> QED
    BY <2>1, <2>2
<1> QED
  BY <1>1, Typed, ReplicasFollowLog, PTL DEF Spec, VersionsKept

-----------------------------------------------------------------------------
(* INSERTs stand.                                                           *)

(* EngineAfter is a recursive function; here is that it exists, and what it *)
(* is after each entry.                                                     *)
IsRun(f, entries, n) ==
  f = [j \in 0 .. n |-> IF j = 0 THEN NewEngine ELSE Apply(f[j - 1], entries[j])]

LEMMA RunIs ==
  ASSUME NEW f, NEW entries, NEW n \in Nat, IsRun(f, entries, n)
  PROVE  /\ DOMAIN f = 0 .. n /\ f[0] = NewEngine
         /\ \A j \in 1 .. n : f[j] = Apply(f[j - 1], entries[j])
<1>1. DOMAIN f = 0 .. n
  BY DEF IsRun
<1>2. \A j \in 0 .. n : f[j] = IF j = 0 THEN NewEngine ELSE Apply(f[j - 1], entries[j])
  BY DEF IsRun
<1> QED
  BY <1>1, <1>2

LEMMA RunExists ==
  ASSUME NEW entries
  PROVE  \A n \in Nat : \E f : IsRun(f, entries, n)
<1> DEFINE Missing == {n \in Nat : ~ \E f : IsRun(f, entries, n)}
<1> SUFFICES ASSUME Missing # {} PROVE FALSE
  OBVIOUS
<1>1. PICK m \in Missing : \A i \in Missing : m <= i
  <2>1. Missing \in SUBSET Nat
    OBVIOUS
  <2> QED
    BY <2>1, LeastElement
<1>2. CASE m = 0
  <2> DEFINE f == [j \in 0 .. 0 |-> NewEngine]
  <2>1. IsRun(f, entries, 0)
    BY DEF IsRun
  <2> QED
    BY <1>2, <2>1
<1>3. CASE m # 0
  <2>1. m - 1 \in Nat /\ m - 1 \notin Missing /\ m \in Nat
    BY <1>1, <1>3
  <2>2. PICK f : IsRun(f, entries, m - 1)
    BY <2>1
  <2>3. PICK last : last = Apply(f[m - 1], entries[m])
    OBVIOUS
  <2> DEFINE g == [j \in 0 .. m |-> IF j = m THEN last ELSE f[j]]
  <2>4. /\ f[0] = NewEngine
        /\ \A j \in 1 .. m - 1 : f[j] = Apply(f[j - 1], entries[j])
    BY <2>1, <2>2, RunIs
  <2>5. ASSUME NEW j \in 0 .. m
        PROVE  g[j] = IF j = 0 THEN NewEngine ELSE Apply(g[j - 1], entries[j])
    <3>1. CASE j = 0
      BY <1>3, <2>1, <2>4, <3>1
    <3>2. CASE j # 0 /\ j # m
      <4>1. j \in 1 .. m - 1 /\ j - 1 \in 0 .. m /\ j - 1 # m
        BY <2>1, <3>2
      <4>2. g[j] = f[j] /\ g[j - 1] = f[j - 1]
        BY <3>2, <4>1
      <4> QED
        BY <2>4, <3>2, <4>1, <4>2
    <3>3. CASE j = m
      <4>1. m - 1 \in 0 .. m /\ m - 1 # m
        BY <2>1
      <4>2. g[m - 1] = f[m - 1] /\ g[m] = last
        BY <2>1, <4>1
      <4> QED
        BY <1>3, <2>3, <3>3, <4>2
    <3> QED
      BY <3>1, <3>2, <3>3
  <2>6. g = [j \in 0 .. m |-> g[j]]
    OBVIOUS
  <2> HIDE DEF g
  <2>7. IsRun(g, entries, m)
    BY <2>5, <2>6 DEF IsRun
  <2> QED
    BY <1>1, <2>7
<1> QED
  BY <1>2, <1>3

(* Runs over logs that agree are the same as far as they go.                *)
Alike(entries, others, i) == \A j \in 1 .. i : entries[j] = others[j]

LEMMA RunsAgree ==
  ASSUME NEW entries, NEW others, NEW m \in Nat, NEW n \in Nat, NEW i \in Nat,
         i <= m, i <= n, Alike(entries, others, i),
         NEW f, IsRun(f, entries, m), NEW g, IsRun(g, others, n)
  PROVE  f[i] = g[i]
<1> DEFINE Apart == {j \in 0 .. i : f[j] # g[j]}
<1>1. /\ f[0] = NewEngine /\ \A j \in 1 .. m : f[j] = Apply(f[j - 1], entries[j])
      /\ g[0] = NewEngine /\ \A j \in 1 .. n : g[j] = Apply(g[j - 1], others[j])
  BY RunIs
<1> SUFFICES ASSUME Apart # {} PROVE FALSE
  OBVIOUS
<1>2. PICK j \in Apart : \A l \in Apart : j <= l
  <2>1. Apart \in SUBSET Nat
    OBVIOUS
  <2> QED
    BY <2>1, LeastElement
<1>3. j # 0
  BY <1>1
<1>4. j \in 1 .. i /\ j \in 1 .. m /\ j \in 1 .. n /\ j - 1 \in 0 .. i /\ ~(j <= j - 1)
  BY <1>3
<1>5. f[j - 1] = g[j - 1]
  BY <1>2, <1>4
<1>6. f[j] = g[j]
  BY <1>1, <1>4, <1>5 DEF Alike
<1> QED
  BY <1>6

LEMMA EngineAfterRun ==
  ASSUME NEW entries, NEW i \in Nat
  PROVE  \E f : IsRun(f, entries, i) /\ EngineAfter(entries, i) = f[i]
<1> DEFINE Fun(f) == f = [j \in 0 .. i |-> IF j = 0 THEN NewEngine ELSE Apply(f[j - 1], entries[j])]
<1>1. \E f : Fun(f)
  BY RunExists DEF IsRun
<1>2. Fun(CHOOSE f : Fun(f))
  BY <1>1
<1>3. EngineAfter(entries, i) = (CHOOSE f : Fun(f))[i]
  BY DEF EngineAfter
<1> QED
  BY <1>2, <1>3 DEF IsRun

LEMMA EngineAfterIs ==
  ASSUME NEW entries
  PROVE  /\ EngineAfter(entries, 0) = NewEngine
         /\ \A i \in Nat \ {0} :
              EngineAfter(entries, i) = Apply(EngineAfter(entries, i - 1), entries[i])
<1>1. EngineAfter(entries, 0) = NewEngine
  <2>1. PICK f : IsRun(f, entries, 0) /\ EngineAfter(entries, 0) = f[0]
    BY EngineAfterRun
  <2> QED
    BY <2>1, RunIs
<1>2. ASSUME NEW i \in Nat \ {0}
      PROVE  EngineAfter(entries, i) = Apply(EngineAfter(entries, i - 1), entries[i])
  <2>1. i - 1 \in Nat /\ i \in Nat /\ i \in 1 .. i /\ i - 1 <= i
    OBVIOUS
  <2>2. PICK f : IsRun(f, entries, i) /\ EngineAfter(entries, i) = f[i]
    BY <2>1, EngineAfterRun
  <2>3. PICK g : IsRun(g, entries, i - 1) /\ EngineAfter(entries, i - 1) = g[i - 1]
    BY <2>1, EngineAfterRun
  <2>4. f[i] = Apply(f[i - 1], entries[i])
    BY <2>1, <2>2, RunIs
  <2>5. f[i - 1] = g[i - 1]
    <3>1. PICK l \in Nat : l = i - 1
      BY <2>1
    <3>2. IsRun(f, entries, i) /\ IsRun(g, entries, l)
      BY <2>2, <2>3, <3>1
    <3>3. i \in Nat /\ l <= i /\ l <= l /\ Alike(entries, entries, l)
      BY <2>1, <3>1 DEF Alike
    <3>4. f[l] = g[l]
      BY ONLY l \in Nat, <3>2, <3>3, RunsAgree
    <3> QED
      BY <3>1, <3>4
  <2> QED
    BY <2>2, <2>3, <2>4, <2>5
<1> QED
  BY <1>1, <1>2

LEMMA EngineAfterAgrees ==
  ASSUME NEW entries, NEW others, NEW i \in Nat, \A j \in 1 .. i : entries[j] = others[j]
  PROVE  EngineAfter(entries, i) = EngineAfter(others, i)
<1>1. PICK f : IsRun(f, entries, i) /\ EngineAfter(entries, i) = f[i]
  BY EngineAfterRun
<1>2. PICK g : IsRun(g, others, i) /\ EngineAfter(others, i) = g[i]
  BY EngineAfterRun
<1>3. f[i] = g[i]
  <2>1. IsRun(f, entries, i) /\ IsRun(g, others, i) /\ i <= i
    BY <1>1, <1>2
  <2>2. i \in Nat /\ Alike(entries, others, i)
    BY DEF Alike
  <2> QED
    BY ONLY <2>1, <2>2, RunsAgree
<1> QED
  BY <1>1, <1>2, <1>3

(* An INSERT of k that meets no lock, and what it and other entries do to   *)
(* the version at AutoTs.                                                   *)
Lands(s, e, k) ==
  /\ e.type = "SQL" /\ e.stmt.rows[1] # <<>> /\ e.stmt.rows[1][1] = k
  /\ ~LockedByOther(s, k, AutoTxn)

SameAtAutoTs(old, new) ==
  /\ AutoTs \in DOMAIN new <=> AutoTs \in DOMAIN old
  /\ AutoTs \in DOMAIN old => new[AutoTs] = old[AutoTs]

LEMMA InsertApplied ==
  ASSUME NEW s, NEW e \in Entry, e.type = "SQL"
  PROVE  /\ e.stmt \in SentInserts
         /\ Apply(s, e) = executeInsert(s, e.stmt.rows[1])
<1>1. PICK stmt \in SentInserts : e = [type |-> "SQL", stmt |-> stmt]
  BY TxnNotSQL DEF Entry
<1>2. e.type = "SQL" /\ e.stmt = stmt
  BY <1>1
<1>3. stmt.kind = "insert" /\ stmt.rows # <<>>
  BY SentInsert
<1>4. ParseToPlan(stmt) = [node |-> "insert", values |-> stmt.rows[1]]
  BY <1>3 DEF ParseToPlan, buildInsertPlan
<1>5. ParseToPlan(stmt).node = "insert" /\ ParseToPlan(stmt).values = stmt.rows[1]
  BY <1>4
<1>6. Apply(s, e) = executeInsert(s, stmt.rows[1])
  BY <1>2, <1>5 DEF Apply
<1> QED
  BY <1>2, <1>6

LEMMA InsertLands ==
  ASSUME NEW s, IsEngine(s), NEW e \in Entry, NEW k \in Key, Lands(s, e, k)
  PROVE  Apply(s, e).versions[k] = WithVersion(s.versions[k], AutoTs, e.stmt.rows[1])
<1>1. PICK values : values = e.stmt.rows[1]
  OBVIOUS
<1>2. e.stmt \in SentInserts /\ Apply(s, e) = executeInsert(s, values)
  BY <1>1, InsertApplied DEF Lands
<1>3. values # <<>> /\ values[1] = k /\ ~LockedByOther(s, k, AutoTxn)
  BY <1>1 DEF Lands
<1> DEFINE p == Prepare(s, k, values, AutoTxn)
<1>4. Apply(s, e) = Commit(p, k, AutoTxn, AutoTs)
  BY <1>2, <1>3 DEF executeInsert
<1>5. /\ IsEngine(p)
      /\ p.versions = s.versions
      /\ \A x \in Key : \/ p.locks[x] = s.locks[x]
                        \/ x = k /\ p.locks[x] = [txn |-> AutoTxn, value |-> values]
  BY PrepareEffects
<1>6. p.locks[k] = [txn |-> AutoTxn, value |-> values]
  BY <1>3 DEF Prepare, IsEngine
<1>7. NoLock # [txn |-> AutoTxn, value |-> values]
  <2>1. PICK c \in Client : e.stmt \in Statements(c)
    BY <1>2 DEF SentInserts
  <2>2. e.stmt.kind = "insert" /\ e.stmt.rows # <<>>
    BY <1>2, SentInsert
  <2> QED
    BY <1>1, <2>1, <2>2, PathNoLock
<1> HIDE DEF p
<1>8. HoldsIntent(p, k, AutoTxn) /\ p.locks[k].value = values
  BY <1>6, <1>7 DEF HoldsIntent
<1> DEFINE q == Commit(p, k, AutoTxn, AutoTs)
<1>9. /\ IsEngine(q)
      /\ q.locks = IF HoldsIntent(p, k, AutoTxn)
                   THEN [p.locks EXCEPT ![k] = NoLock] ELSE p.locks
      /\ \A x \in Key :
           \/ q.versions[x] = p.versions[x]
           \/ /\ x = k /\ HoldsIntent(p, k, AutoTxn)
              /\ q.versions[x] = WithVersion(p.versions[x], AutoTs, p.locks[x].value)
      /\ HoldsIntent(p, k, AutoTxn) =>
           q.versions[k] = WithVersion(p.versions[k], AutoTs, p.locks[k].value)
  BY <1>5, PathAutoTs, CommitEffects
<1> QED
  BY <1>1, <1>4, <1>5, <1>8, <1>9

LEMMA InsertMisses ==
  ASSUME NEW s, IsEngine(s), NEW e \in Entry, NEW k \in Key, ~Lands(s, e, k)
  PROVE  SameAtAutoTs(s.versions[k], Apply(s, e).versions[k])
<1>1. PICK old, new : old = s.versions[k] /\ new = Apply(s, e).versions[k]
  OBVIOUS
<1>2. IsHistory(old)
  BY <1>1 DEF IsEngine, IsVersions
<1>3. CASE e.type = "SQL"
  <2>1. PICK values : values = e.stmt.rows[1]
    OBVIOUS
  <2>2. e.stmt \in SentInserts /\ Apply(s, e) = executeInsert(s, values)
    BY <1>3, <2>1, InsertApplied
  <2>3. values = <<>> \/ values[1] \in Key
    BY <2>1, <2>2, SentInsert
  <2>4. values = <<>> \/ values[1] # k \/ LockedByOther(s, k, AutoTxn)
    BY <1>3, <2>1 DEF Lands
  <2>5. CASE values = <<>> \/ LockedByOther(s, values[1], AutoTxn)
    <3>1. Apply(s, e) = s
      BY <2>2, <2>5 DEF executeInsert
    <3> QED
      BY <3>1 DEF SameAtAutoTs
  <2>6. CASE values[1] # k
    <3>1. \A x \in Key :
            \/ executeInsert(s, values).versions[x] = s.versions[x]
            \/ /\ values[1] = x
               /\ executeInsert(s, values).versions[x]
                    = WithVersion(s.versions[x], AutoTs, values)
      BY <2>3, InsertEffects
    <3>2. Apply(s, e).versions[k] = s.versions[k]
      BY <2>2, <2>6, <3>1
    <3> QED
      BY <3>2 DEF SameAtAutoTs
  <2> QED
    BY <2>4, <2>5, <2>6
<1>4. CASE e.type # "SQL"
  <2>1. e \in TxnEntries
    <3>1. \A stmt : [type |-> "SQL", stmt |-> stmt].type = "SQL"
      OBVIOUS
    <3> QED
      BY <1>4, <3>1 DEF Entry
  <2>2. OneWrite(s.locks, e, k, old, new)
    BY <1>1, ApplyEffects
  <2>3. CASE new = old
    BY <1>1, <2>3 DEF SameAtAutoTs
  <2>4. CASE \E ts \in Nat : \E value :
               Puts(s.locks, e, k, ts, value) /\ new = WithVersion(old, ts, value)
    <3>0. PICK ts \in Nat : \E value :
            Puts(s.locks, e, k, ts, value) /\ new = WithVersion(old, ts, value)
      BY <2>4
    <3>1. PICK value : Puts(s.locks, e, k, ts, value) /\ new = WithVersion(old, ts, value)
      BY <3>0
    <3>2. ts = e.ts /\ k \in KeysWritten(e)
      <4>1. CASE e.type = "COMMIT"
        BY <3>1, <4>1 DEF Puts, KeysWritten
      <4>2. CASE e.type = "ONESHOT"
        BY <3>1, <4>2 DEF Puts, KeysWritten
      <4> QED
        BY <1>4, <3>1, <4>1, <4>2 DEF Puts
    <3>3. ts # AutoTs
      BY <2>1, <3>2, PathTimestamps
    <3>4. /\ DOMAIN new = DOMAIN old \cup {ts}
          /\ \A t \in DOMAIN old : t # ts => new[t] = old[t]
      BY <3>1 DEF WithVersion
    <3> QED
      BY <1>1, <3>1, <3>3, <3>4 DEF SameAtAutoTs
  <2> QED
    BY <2>2, <2>3, <2>4 DEF OneWrite
<1> QED
  BY <1>3, <1>4

(* The INSERTs of k that land among the first i entries of a log, and that  *)
(* the version at AutoTs is the row of the last of them.                    *)
Landed(entries, i, k) == {j \in 1 .. i : Lands(EngineAfter(entries, j - 1), entries[j], k)}

LastStands(entries, i, k, h) ==
  IF Landed(entries, i, k) = {} THEN AutoTs \notin DOMAIN h
  ELSE /\ AutoTs \in DOMAIN h
       /\ h[AutoTs] = entries[Max(Landed(entries, i, k))].stmt.rows[1]

LEMMA LandedStep ==
  ASSUME NEW entries, NEW i \in Nat \ {0}, NEW k
  PROVE  Landed(entries, i, k)
           = Landed(entries, i - 1, k)
               \cup (IF Lands(EngineAfter(entries, i - 1), entries[i], k) THEN {i} ELSE {})
<1>1. \A j : j \in 1 .. i <=> j \in 1 .. i - 1 \/ j = i
  OBVIOUS
<1> QED
  BY <1>1 DEF Landed

LEMMA LandedMax ==
  ASSUME NEW entries, NEW i \in Nat \ {0}, NEW k,
         Lands(EngineAfter(entries, i - 1), entries[i], k)
  PROVE  Landed(entries, i, k) # {} /\ Max(Landed(entries, i, k)) = i
<1>1. i \in Landed(entries, i, k)
  BY LandedStep
<1>2. Landed(entries, i, k) \subseteq 1 .. i
  BY DEF Landed
<1>3. PICK S : S = Landed(entries, i, k)
  OBVIOUS
<1>4. S \in SUBSET Nat /\ S # {} /\ IsFiniteSet(S)
  <2>1. IsFiniteSet(1 .. i)
    BY FS_Interval
  <2> QED
    BY <1>1, <1>2, <1>3, <2>1, FS_Subset
<1>5. Max(S) \in S /\ \A j \in S : j <= Max(S)
  BY <1>4, MaxOf
<1>6. Max(S) \in 1 .. i /\ i <= Max(S)
  BY <1>1, <1>2, <1>3, <1>5
<1>7. Max(S) = i
  BY <1>6
<1> QED
  BY <1>1, <1>3, <1>7

(* Along a log, the engine is an engine and the last INSERT that landed     *)
(* stands: by induction on the entries.                                     *)
LEMMA LogStands ==
  ASSUME NEW entries \in Seq(Entry)
  PROVE  \A i \in 0 .. Len(entries) :
           /\ IsEngine(EngineAfter(entries, i))
           /\ \A k \in Key : LastStands(entries, i, k, EngineAfter(entries, i).versions[k])
<1> DEFINE Good(i) ==
      /\ IsEngine(EngineAfter(entries, i))
      /\ \A k \in Key : LastStands(entries, i, k, EngineAfter(entries, i).versions[k])
<1>1. Good(0)
  <2>1. EngineAfter(entries, 0) = NewEngine
    BY EngineAfterIs
  <2>2. IsEngine(NewEngine) /\ \A k \in Key : NewEngine.versions[k] = <<>>
    BY NoVersions, EmptyHistory DEF NewEngine, IsEngine, IsVersions, IsLock
  <2>3. \A k \in Key : Landed(entries, 0, k) = {}
    BY DEF Landed
  <2> QED
    BY <2>1, <2>2, <2>3, EmptyHistory DEF LastStands
<1>2. ASSUME NEW i \in 1 .. Len(entries), Good(i - 1) PROVE Good(i)
  <2>1. i \in Nat \ {0} /\ entries[i] \in Entry
    OBVIOUS
  <2>2. PICK s, t, e : /\ s = EngineAfter(entries, i - 1)
                       /\ t = EngineAfter(entries, i) /\ e = entries[i]
    OBVIOUS
  <2>3. t = Apply(s, e) /\ e \in Entry /\ IsEngine(s)
    BY <1>2, <2>1, <2>2, EngineAfterIs
  <2>4. IsEngine(t)
    BY <2>3, ApplyEffects
  <2>5. ASSUME NEW k \in Key PROVE LastStands(entries, i, k, t.versions[k])
    <3>1. LastStands(entries, i - 1, k, s.versions[k])
      BY <1>2, <2>2
    <3>2. CASE Lands(s, e, k)
      <4>1. Landed(entries, i, k) # {} /\ Max(Landed(entries, i, k)) = i
        BY <2>1, <2>2, <3>2, LandedMax
      <4>2. t.versions[k] = WithVersion(s.versions[k], AutoTs, e.stmt.rows[1])
        BY <2>3, <3>2, InsertLands
      <4>3. AutoTs \in DOMAIN t.versions[k] /\ t.versions[k][AutoTs] = e.stmt.rows[1]
        BY <4>2 DEF WithVersion
      <4> QED
        BY <2>2, <4>1, <4>3 DEF LastStands
    <3>3. CASE ~Lands(s, e, k)
      <4>1. Landed(entries, i, k) = Landed(entries, i - 1, k)
        <5>1. Landed(entries, i, k)
                = Landed(entries, i - 1, k)
                    \cup (IF Lands(EngineAfter(entries, i - 1), entries[i], k) THEN {i} ELSE {})
          BY <2>1, LandedStep
        <5> QED
          BY <2>2, <3>3, <5>1
      <4>2. SameAtAutoTs(s.versions[k], t.versions[k])
        BY <2>3, <3>3, InsertMisses
      <4> QED
        BY <3>1, <4>1, <4>2 DEF LastStands, SameAtAutoTs
    <3> QED
      BY <3>2, <3>3
  <2> QED
    BY <2>2, <2>4, <2>5
<1> HIDE DEF Good
<1> DEFINE Bad == {i \in 0 .. Len(entries) : ~Good(i)}
<1>3. ASSUME Bad # {} PROVE FALSE
  <2>1. Bad \in SUBSET Nat
    OBVIOUS
  <2>2. PICK m \in Bad : \A i \in Bad : m <= i
    <3> HIDE DEF Bad
    <3> QED
      BY <1>3, <2>1, LeastElement
  <2>3. m \in 0 .. Len(entries) /\ ~Good(m)
    OBVIOUS
  <2>4. m \in 1 .. Len(entries) /\ m - 1 \in 0 .. Len(entries) /\ ~(m <= m - 1)
    BY <1>1, <2>3
  <2>5. Good(m - 1)
    BY <2>2, <2>4
  <2> QED
    BY <1>2, <2>3, <2>4, <2>5
<1>4. \A i \in 0 .. Len(entries) : Good(i)
  BY <1>3
<1> QED
  BY <1>4 DEF Good

(* A replica that took no ingest is the log replayed as far as it applied.  *)
Replayed == \A n \in Node \ ingested : store[n] = EngineAfter(log, applied[n])

LEMMA ReplayedStep ==
  ASSUME Types, Replayed, [Next]_vars
  PROVE  Replayed'
<1>1. /\ log' \in Seq(Entry) /\ Len(log) \in Nat
      /\ \A i \in 1 .. Len(log) : log'[i] = log[i]
  BY LogStep
<1>2. ASSUME NEW m \in Node
      PROVE  EngineAfter(log', applied[m]) = EngineAfter(log, applied[m])
  <2>1. PICK i \in Nat : i = applied[m] /\ i <= Len(log)
    BY DEF Types
  <2>2. \A j \in 1 .. i : log'[j] = log[j]
    BY <1>1, <2>1
  <2>3. EngineAfter(log', i) = EngineAfter(log, i)
    BY <2>2, EngineAfterAgrees
  <2> QED
    BY <2>1, <2>3
<1>3. ASSUME NEW n \in Node, ApplyNext(n) PROVE Replayed'
  <2>1. /\ log[applied[n] + 1] \in Entry /\ applied[n] + 1 \in 1 .. Len(log)
        /\ store' = [m \in Node |-> store'[m]]
        /\ store'[n] = Apply(store[n], log[applied[n] + 1])
        /\ \A m \in Node \ {n} : store'[m] = store[m]
        /\ applied'[n] = applied[n] + 1
        /\ \A m \in Node \ {n} : applied'[m] = applied[m]
    BY <1>3, ApplyNextIs
  <2>2. log' = log /\ ingested' = ingested
    BY <1>3 DEF ApplyNext
  <2>3. ASSUME n \notin ingested PROVE store'[n] = EngineAfter(log, applied'[n])
    <3>1. PICK i \in Nat \ {0} : i = applied[n] + 1 /\ i - 1 = applied[n]
      BY DEF Types
    <3>2. store[n] = EngineAfter(log, i - 1)
      BY <2>3, <3>1 DEF Replayed
    <3>3. EngineAfter(log, i) = Apply(EngineAfter(log, i - 1), log[i])
      BY EngineAfterIs
    <3> QED
      BY <2>1, <3>1, <3>2, <3>3
  <2> QED
    BY <2>1, <2>2, <2>3 DEF Replayed
<1>4. ASSUME NEW n \in Node, DebugIngest(n) PROVE Replayed'
  <2>1. \A m \in Node \ {n} : store'[m] = store[m]
    BY <1>4, DebugIngestIs
  <2>2. log' = log /\ applied' = applied /\ ingested' = ingested \cup {n}
    BY <1>4 DEF DebugIngest
  <2> QED
    BY <2>1, <2>2 DEF Replayed
<1>5. ASSUME UNCHANGED <<store, applied, ingested>> PROVE Replayed'
  BY <1>2, <1>5 DEF Replayed
<1>6. \/ \E n \in Node : ApplyNext(n) \/ DebugIngest(n)
      \/ UNCHANGED <<store, applied, ingested>>
  BY DEF Next, vars, InsertPrepare, LoseLeader, FindLeader, Submit, Serve, Ask, Fail, Answer,
         ProposeTxn, CommitEntry, DebugExport, replicas
<1> QED
  BY <1>3, <1>4, <1>5, <1>6

LEMMA ReplayedStands ==
  ASSUME Types, Replayed
  PROVE  LastInsertStands
<1> SUFFICES ASSUME NEW n \in Node \ ingested, NEW k \in Key
             PROVE  IF Inserts(n, k) = {} THEN AutoTs \notin DOMAIN store[n].versions[k]
                    ELSE /\ AutoTs \in DOMAIN store[n].versions[k]
                         /\ store[n].versions[k][AutoTs]
                              = log[Max(Inserts(n, k))].stmt.rows[1]
  BY DEF LastInsertStands
<1>1. applied[n] \in 0 .. Len(log) /\ log \in Seq(Entry)
  BY DEF Types
<1>2. LastStands(log, applied[n], k, EngineAfter(log, applied[n]).versions[k])
  BY <1>1, LogStands
<1>3. Inserts(n, k) = Landed(log, applied[n], k)
  BY DEF Inserts, Landed, Lands
<1>4. store[n] = EngineAfter(log, applied[n])
  BY DEF Replayed
<1> QED
  BY <1>2, <1>3, <1>4 DEF LastStands

(* A replica that took no ingest is the fold of Apply over the log it has   *)
(* applied (shard-node/main.go:34-108): replicas at the same place agree on *)
(* every version and lock.                                                  *)
THEOREM ReplicasReplay == Spec => []Replayed
<1>1. Init => Replayed
  <2>1. EngineAfter(<<>>, 0) = NewEngine
    BY EngineAfterIs
  <2> QED
    BY <2>1 DEF Init, Replayed
<1>2. Types /\ Replayed /\ [Next]_vars => Replayed'
  BY ReplayedStep
<1> QED
  BY <1>1, <1>2, Typed, PTL DEF Spec

(* On a replica that took no ingest the version at AutoTs of a key is the   *)
(* row of the last INSERT of it that met no lock, and there is none before  *)
(* the first (shard-node/main.go:101, executor.go:28-61): no transaction    *)
(* writes there, and only a lock makes an INSERT vanish.                    *)
THEOREM InsertsStand == Spec => []LastInsertStands
<1>1. Types /\ Replayed => LastInsertStands
  BY ReplayedStands
<1> QED
  BY <1>1, Typed, ReplicasReplay, PTL

-----------------------------------------------------------------------------
(* Point reads.                                                             *)

(* What a replica that took no ingest answers is the answer of its place in *)
(* the log, whatever INSERT it is at.                                       *)
LEMMA PlaceFits ==
  ASSUME Types, Replayed, NEW c \in Client, NEW n \in Node \ ingested, NEW k \in Key,
         EngineOf(n).locks[k] = NoLock, seen[c] <= applied[n]
  PROVE  applied[n] \in Places(c, n, k)
<1>1. PICK s, t : s = store[n] /\ t = EngineOf(n)
  OBVIOUS
<1>2. s = EngineAfter(log, applied[n])
  BY <1>1 DEF Replayed
<1>3. t.versions = s.versions /\ t.locks[k] = NoLock /\ s.locks[k] = NoLock
  BY <1>1, EngineOfIs
<1>4. executePointGet(s, k) = executePointGet(t, k)
  <2>1. Shadowed(s, k) <=> Shadowed(t, k)
    BY <1>3 DEF Shadowed
  <2>2. Row(s, k) = Row(t, k)
    BY <1>3 DEF Row
  <2> QED
    BY <1>3, <2>1, <2>2 DEF executePointGet
<1>5. applied[n] \in seen[c] .. Len(log)
  BY DEF Types
<1> QED
  BY <1>1, <1>2, <1>3, <1>4, <1>5 DEF Places

LEMMA ReadsStep ==
  ASSUME Types, Replayed, MonotonicPointReads, [Next]_vars
  PROVE  MonotonicPointReads'
<1> SUFFICES ASSUME Home \notin ingested', NEW c \in Client PROVE seen'[c] <= applied'[Home]
  BY DEF MonotonicPointReads, Home
<1>1. Home \in Node \ ingested
  BY HomeIsNode DEF Next, vars, InsertPrepare, LoseLeader, FindLeader, Submit, Serve, Ask, Fail,
     Answer, ProposeTxn, CommitEntry, ApplyNext, DebugExport, DebugIngest
<1>2. seen[c] \in Nat /\ applied[Home] \in Nat /\ seen[c] <= applied[Home]
  BY <1>1 DEF Types, MonotonicPointReads
<1>3. applied'[Home] = applied[Home] \/ applied'[Home] = applied[Home] + 1
  <2>1. ASSUME NEW n \in Node, ApplyNext(n)
        PROVE  applied'[Home] = applied[Home] \/ applied'[Home] = applied[Home] + 1
    BY <1>1, <2>1, ApplyNextIs
  <2>2. (\E n \in Node : ApplyNext(n)) \/ UNCHANGED applied
    BY DEF Next, vars, InsertPrepare, LoseLeader, FindLeader, Submit, Serve, Ask, Fail, Answer,
           ProposeTxn, CommitEntry, DebugExport, DebugIngest, replicas
  <2> QED
    BY <2>1, <2>2
<1>4. CASE seen'[c] = seen[c]
  BY <1>2, <1>3, <1>4
<1>5. ASSUME applied' = applied, NEW k \in Key, EngineOf(Home).locks[k] = NoLock,
             seen'[c] = PointRead(c, Home, k)
      PROVE  seen'[c] <= applied'[Home]
  <2>1. applied[Home] \in Places(c, Home, k)
    BY <1>1, <1>2, <1>5, PlaceFits
  <2>2. PointRead(c, Home, k) <= applied[Home]
    BY <1>1, <2>1, PointReadIs
  <2> QED
    BY <1>5, <2>2
<1> QED
  BY <1>4, <1>5, SeenStep

(* The point reads of a client never go back in time (planner.go:70-111,    *)
(* router.go:50, executor.go:63-77): all of them reach the home shard, and  *)
(* there, until it takes an ingest, each gets the answer of a place of the  *)
(* log no earlier than the one before, rows, values and missing keys alike. *)
THEOREM ReadsMonotonic == Spec => []MonotonicPointReads
<1>1. Init => MonotonicPointReads
  BY HomeIsNode DEF Init, MonotonicPointReads
<1>2. Types /\ Replayed /\ MonotonicPointReads /\ [Next]_vars => MonotonicPointReads'
  BY ReadsStep
<1> QED
  BY <1>1, <1>2, Typed, ReplicasReplay, PTL DEF Spec
=============================================================================
