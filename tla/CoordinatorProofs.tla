------------------------- MODULE CoordinatorProofs -------------------------
(* Proofs about distributed transactions, for every set of keys, shards,    *)
(* transactions and callers, every routing and every fault model.           *)
EXTENDS Coordinator, SequenceTheorems, SetLemmas, TLAPS

USE DEF commits

-----------------------------------------------------------------------------
(* The inductive invariant behind CommittedOnly: where values come from.    *)

Versions == UNION {[T -> Value] : T \in SUBSET Timestamp}
KeysOf(writes) == {writes[i].key : i \in DOMAIN writes}
WritesOf(t) == ToSet(txns[t].writes)

Types == TypeOK /\ versions \in [Key -> Versions]

(* An entry that is under way: in a request or in a shard's log.            *)
Underway(e) == e \in DOMAIN net \/ \E s \in Shard : \E i \in DOMAIN log[s] : log[s][i] = e

(* A transaction that was not begun has no writes; a caller works on writes *)
(* that were buffered before.                                               *)
BufferedFirst ==
  /\ \A t \in Txn : txns[t].state = "none" => txns[t].writes = <<>>
  /\ \A c \in Caller : call[c].pc # "idle" =>
       /\ call[c].writes # <<>>
       /\ ToSet(call[c].writes) \subseteq WritesOf(call[c].txn)
       /\ ToSet(call[c].todo) \subseteq ToSet(call[c].writes)

(* What an entry says is backed: a prepare by a buffered write, a commit by *)
(* a decision.                                                              *)
Backed(e) ==
  /\ e.type = "PREPARE" => [key |-> e.key, value |-> e.value] \in WritesOf(e.txn)
  /\ e.type = "COMMIT" =>
       \E d \in issued : d.txn = e.txn /\ d.ts = e.ts /\ e.key \in KeysOf(d.writes)
  /\ e.type = "ONESHOT" =>
       /\ [txn |-> e.txn, ts |-> e.ts, writes |-> e.ops] \in issued
       /\ e.ops # <<>> /\ ToSet(e.ops) \subseteq WritesOf(e.txn)

EntriesBacked ==
  /\ \A e \in DOMAIN net : Backed(e)
  /\ \A s \in Shard : \A i \in DOMAIN log[s] : Backed(log[s][i])

IntentsBacked ==
  \A k \in Key : intents[k] # NoLock =>
    [key |-> k, value |-> intents[k].value] \in WritesOf(intents[k].txn)

(* CommittedOnly, in terms of the commits sent out.                         *)
VersionsIssued ==
  \A k \in Key : \A ts \in DOMAIN versions[k] :
    \E d \in issued :
      /\ d.ts = ts
      /\ k \in {d.writes[i].key : i \in DOMAIN d.writes}
      /\ [key |-> k, value |-> versions[k][ts]] \in ToSet(txns[d.txn].writes)

CInv == Types /\ BufferedFirst /\ EntriesBacked /\ IntentsBacked /\ VersionsIssued

-----------------------------------------------------------------------------
(* The inductive invariant behind AtomicUnlessDisturbed: how far a          *)
(* transaction that nothing disturbed has come, key by key.                 *)

Working(c, t) == call[c].pc # "idle" /\ call[c].txn = t

(* Entries are in the log of the shard of their key.                        *)
LogsRouted ==
  \A s \in Shard : \A i \in DOMAIN log[s] :
    log[s][i].type # "ONESHOT" => Locate(log[s][i].key) = s

(* A commit timestamp belongs to one decision, taken or about to be taken.  *)
Deciding(c) == call[c].pc \in {"decide", "send"}

TimestampsUnique ==
  /\ \A d \in issued : d.ts <= clock
  /\ \A d1, d2 \in issued : d1.ts = d2.ts => d1 = d2
  /\ \A c \in Caller : Deciding(c) =>
       /\ call[c].ts <= clock
       /\ \A d \in issued : d.ts # call[c].ts
       /\ \A c2 \in Caller \ {c} : Deciding(c2) => call[c2].ts # call[c].ts

(* The shard of k has been told to write v under t's intent, and no later   *)
(* prepare of t says otherwise: the last prepare in the log carries v or,   *)
(* when all have been applied, the intent does.                             *)
IsPrepare(e, t, k) == e.type = "PREPARE" /\ e.txn = t /\ e.key = k
NoPrepare(t, k) == \A i \in DOMAIN log[Locate(k)] : ~IsPrepare(log[Locate(k)][i], t, k)

LastPrepare(t, k, v) ==
  \E i \in DOMAIN log[Locate(k)] :
    /\ IsPrepare(log[Locate(k)][i], t, k) /\ log[Locate(k)][i].value = v
    /\ \A j \in DOMAIN log[Locate(k)] : j > i => ~IsPrepare(log[Locate(k)][j], t, k)

Holding(t, k, v) ==
  \/ NoPrepare(t, k) /\ intents[k] = [txn |-> t, value |-> v]
  \/ LastPrepare(t, k, v)

(* Nothing of t is left on k.                                               *)
Released(t, k) == NoPrepare(t, k) /\ ~Engine!HoldsIntent(k, t)

Undecided(t) == \A d \in issued : d.txn # t

(* t has left no trace.                                                     *)
Quiet(t) ==
  /\ Undecided(t)
  /\ \A e \in DOMAIN net : e.txn # t
  /\ \A s \in Shard : \A i \in DOMAIN log[s] : log[s][i].txn # t
  /\ \A k \in Key : ~Engine!HoldsIntent(k, t)

(* A key of a transaction that is being prepared: its last write is still   *)
(* to be sent, or its shard has been told.                                  *)
LastInTodo(todo, k, v) ==
  \A i \in DOMAIN todo :
    todo[i].key = k /\ (\A j \in DOMAIN todo : j > i => todo[j].key # k) => todo[i].value = v

KeyPrepared(c, k) ==
  LET v == LastWrites(call[c].writes)[k] IN
  IF k \in KeysOf(call[c].todo) THEN LastInTodo(call[c].todo, k, v)
  ELSE Holding(call[c].txn, k, v)

(* A key of a decided transaction: visible; about to be committed; or part  *)
(* of a one-shot entry.                                                     *)
KeyDecided(d, k) ==
  \/ VisibleOn(d, k) /\ Released(d.txn, k)
  \/ /\ Holding(d.txn, k, LastWrites(d.writes)[k])
     /\ Underway([type |-> "COMMIT", key |-> k, txn |-> d.txn, ts |-> d.ts])
  \/ /\ Released(d.txn, k)
     /\ Underway(OneShotEntry(d.writes, d.txn, d.ts))

(* t is being prepared: only prepares of it are under way, all of them in a *)
(* log.                                                                     *)
Preparing(t) ==
  /\ Undecided(t)
  /\ \A e \in DOMAIN net : e.txn # t
  /\ \A s \in Shard : \A i \in DOMAIN log[s] : log[s][i].txn = t => log[s][i].type = "PREPARE"

CallUndisturbed(c) ==
  LET t == call[c].txn IN
  /\ call[c].pc # "abort"
  /\ \A c2 \in Caller : Working(c2, t) => c2 = c
  /\ call[c].pc \in {"oneshot", "send"} => Quiet(t)
  /\ call[c].pc \in {"prepare", "decide"} =>
       Preparing(t) /\ \A k \in KeysOf(call[c].writes) : KeyPrepared(c, k)
  /\ call[c].pc = "decide" => call[c].todo = <<>>

(* Requests of t still on their way are commits, nothing of t is aborted,   *)
(* and no commit overtakes a prepare in a log.                              *)
Orderly(t) ==
  /\ \A e \in DOMAIN net : e.txn = t => e.type = "COMMIT"
  /\ \A s \in Shard : \A i \in DOMAIN log[s] : log[s][i].txn = t => log[s][i].type # "ABORT"
  /\ \A s \in Shard : \A i, j \in DOMAIN log[s] :
       (/\ log[s][i].txn = t /\ log[s][i].type = "PREPARE"
        /\ log[s][j].txn = t /\ log[s][j].type = "COMMIT") => i < j

DecidedOnce(t) == \A d1, d2 \in issued : d1.txn = t /\ d2.txn = t => d1 = d2

Undisturbed(t) ==
  /\ txns[t].state # "aborted"
  /\ Orderly(t) /\ DecidedOnce(t)
  /\ txns[t].state \in {"none", "active"} /\ (\A c \in Caller : ~Working(c, t)) => Quiet(t)
  /\ \A c \in Caller : Working(c, t) => CallUndisturbed(c)
  /\ \A d \in issued : d.txn = t => \A k \in KeysOf(d.writes) : KeyDecided(d, k)

AInv ==
  /\ CInv /\ LogsRouted /\ TimestampsUnique
  /\ \A t \in Txn \ disturbed : Undisturbed(t)

-----------------------------------------------------------------------------
(* Bags, sequences and the writes by key.                                   *)

(* What the bag operations do to the set of entries in a bag.               *)
LEMMA BagAddDomain ==
  ASSUME NEW B, NEW x
  PROVE  DOMAIN BagAdd(B, x) = DOMAIN B \cup {x}
  BY DEF BagAdd

LEMMA BagRemoveDomain ==
  ASSUME NEW B, NEW x
  PROVE  /\ DOMAIN BagRemove(B, x) \subseteq DOMAIN B
         /\ DOMAIN B \subseteq DOMAIN BagRemove(B, x) \cup {x}
  BY DEF BagRemove

LEMMA RequestsDomain ==
  ASSUME NEW B, NEW s
  PROVE  DOMAIN (B (+) Requests(s)) = DOMAIN B \cup {s[i] : i \in DOMAIN s}
<1>1. DOMAIN Requests(s) = {s[i] : i \in DOMAIN s}
  BY DEF Requests, ToSet
<1>2. DOMAIN (B (+) Requests(s)) = DOMAIN B \cup DOMAIN Requests(s)
  BY DEF (+)
<1> QED
  BY <1>1, <1>2

LEMMA BagElements ==
  ASSUME NEW B
  PROVE  BagToSet(B) = DOMAIN B /\ DOMAIN EmptyBag = {}
  BY DEF BagToSet, EmptyBag, SetToBag

(* The positions of a sequence, and what Append and Tail do to them.        *)
LEMMA SeqSteps ==
  ASSUME NEW S, NEW q \in Seq(S)
  PROVE  /\ Len(q) \in Nat /\ DOMAIN q = 1 .. Len(q) /\ \A i \in DOMAIN q : q[i] \in S
         /\ \A x \in S : /\ Append(q, x) \in Seq(S)
                         /\ DOMAIN Append(q, x) = 1 .. Len(q) + 1
                         /\ \A i \in DOMAIN q : Append(q, x)[i] = q[i]
                         /\ Append(q, x)[Len(q) + 1] = x
         /\ q # <<>> => /\ Head(q) = q[1] /\ 1 \in DOMAIN q /\ Tail(q) \in Seq(S)
                        /\ DOMAIN Tail(q) = 1 .. Len(q) - 1
                        /\ \A i \in DOMAIN Tail(q) : i + 1 \in DOMAIN q /\ Tail(q)[i] = q[i + 1]
<1>1. Len(q) \in Nat /\ DOMAIN q = 1 .. Len(q) /\ \A i \in DOMAIN q : q[i] \in S
  OBVIOUS
<1>2. ASSUME NEW x \in S
      PROVE  /\ Append(q, x) \in Seq(S)
             /\ DOMAIN Append(q, x) = 1 .. Len(q) + 1
             /\ \A i \in DOMAIN q : Append(q, x)[i] = q[i]
             /\ Append(q, x)[Len(q) + 1] = x
  BY <1>1, AppendProperties, LenProperties
<1>3. ASSUME q # <<>>
      PROVE  /\ Head(q) = q[1] /\ 1 \in DOMAIN q /\ Tail(q) \in Seq(S)
             /\ DOMAIN Tail(q) = 1 .. Len(q) - 1
             /\ \A i \in DOMAIN Tail(q) : i + 1 \in DOMAIN q /\ Tail(q)[i] = q[i + 1]
  <2>1. Tail(q) \in Seq(S) /\ Len(Tail(q)) = Len(q) - 1
        /\ \A i \in 1 .. Len(Tail(q)) : Tail(q)[i] = q[i + 1]
    BY <1>3, HeadTailProperties
  <2>2. DOMAIN Tail(q) = 1 .. Len(q) - 1
    BY <2>1, LenProperties
  <2>3. Len(q) # 0 /\ Head(q) = q[1]
    BY <1>3, EmptySeq
  <2> QED
    BY <1>1, <2>1, <2>2, <2>3
<1> QED
  BY <1>1, <1>2, <1>3

(* The last write of a key exists and is what LastWrites gives.             *)
LEMMA LastWriteOf ==
  ASSUME NEW w \in Seq(Write), NEW k \in KeysOf(w)
  PROVE  /\ k \in Key /\ DOMAIN LastWrites(w) = KeysOf(w)
         /\ \E i \in DOMAIN w : /\ w[i].key = k /\ LastWrites(w)[k] = w[i].value
                               /\ \A j \in DOMAIN w : w[j].key = k => j <= i
<1> DEFINE S == {i \in DOMAIN w : w[i].key = k}
           P(i) == w[i].key = k /\ \A j \in DOMAIN w : w[j].key = k => j <= i
<1>1. Len(w) \in Nat /\ DOMAIN w = 1 .. Len(w) /\ \A i \in DOMAIN w : w[i] \in Write
  BY SeqSteps
<1>2. S # {} /\ S \in SUBSET (0 .. Len(w))
  BY <1>1 DEF KeysOf
<1>3. PICK m \in S : \A i \in S : i <= m
  BY <1>1, <1>2, BoundedMax
<1>4. m \in DOMAIN w /\ P(m)
  BY <1>3
<1>5. DOMAIN LastWrites(w) = KeysOf(w)
  BY DEF LastWrites, KeysOf
<1>6. LastWrites(w)[k] = w[CHOOSE i \in DOMAIN w : P(i)].value
  BY DEF LastWrites, KeysOf
<1>7. k \in Key
  BY <1>1, <1>4 DEF Write
<1> HIDE DEF P
<1>8. (CHOOSE i \in DOMAIN w : P(i)) \in DOMAIN w /\ P(CHOOSE i \in DOMAIN w : P(i))
  BY <1>4
<1> QED
  BY <1>5, <1>6, <1>7, <1>8 DEF P

-----------------------------------------------------------------------------
(* Types.                                                                   *)

CallRecord == [pc : {"prepare", "decide", "oneshot", "send", "mark", "abort"}, txn : Txn,
               writes : Seq(Write), todo : Seq(Write), ts : Timestamp]

(* The fields an entry has.                                                 *)
LEMMA EntryFields ==
  ASSUME NEW e \in Entry
  PROVE  /\ e.type \in {"PREPARE", "COMMIT", "ABORT", "ONESHOT"} /\ e.txn \in Txn
         /\ e.type # "ONESHOT" => e.key \in Key /\ ShardOf(e) = Locate(e.key)
         /\ e.type = "PREPARE" => e.value \in Value
         /\ e.type \in {"COMMIT", "ONESHOT"} => e.ts \in Timestamp
         /\ e.type = "ONESHOT" => e.ops \in Seq(Write)
  BY DEF Entry, ShardOf

(* The entries the coordinator makes are entries.                           *)
LEMMA EntriesMade ==
  ASSUME NEW w \in Write, NEW t \in Txn, NEW ts \in Timestamp, NEW ops \in Seq(Write)
  PROVE  /\ PrepareEntry(w, t) \in Entry /\ CommitEntry(w, t, ts) \in Entry
         /\ AbortEntry(w, t) \in Entry /\ OneShotEntry(ops, t, ts) \in Entry
  BY DEF Entry, Write, PrepareEntry, CommitEntry, AbortEntry, OneShotEntry

(* What a caller at work knows.                                             *)
LEMMA CallFields ==
  ASSUME TypeOK, NEW c \in Caller, call[c].pc # "idle"
  PROVE  /\ call[c] \in CallRecord /\ call[c].txn \in Txn
         /\ call[c].writes \in Seq(Write) /\ call[c].todo \in Seq(Write)
         /\ call[c].ts \in Timestamp
         /\ call[c].pc \in {"prepare", "decide", "oneshot", "send", "mark", "abort"}
<1>1. call[c] \in {Idle} \cup CallRecord
  BY DEF TypeOK, CallRecord
<1>2. call[c] # Idle
  BY DEF Idle
<1>3. call[c] \in CallRecord
  BY <1>1, <1>2
<1> QED
  BY <1>3 DEF CallRecord

(* A proposal keeps the logs well typed.                                    *)
LEMMA ProposeTyped ==
  ASSUME TypeOK, NEW e \in Entry, Propose(e)
  PROVE  log' \in [Shard -> Seq(Entry)]
<1>1. log \in [Shard -> Seq(Entry)]
  BY DEF TypeOK
<1>2. \A s \in Shard : Append(log[s], e) \in Seq(Entry)
  BY <1>1, SeqSteps
<1> QED
  BY <1>1, <1>2 DEF Propose

(* A version more is a function from timestamps to values, too.             *)
LEMMA WithVersionTyped ==
  ASSUME NEW vs \in Versions, NEW ts \in Timestamp, NEW v \in Value
  PROVE  /\ Engine!WithVersion(vs, ts, v) \in Versions
         /\ DOMAIN Engine!WithVersion(vs, ts, v) = DOMAIN vs \cup {ts}
         /\ Engine!WithVersion(vs, ts, v)[ts] = v
         /\ \A u \in DOMAIN vs : u # ts => Engine!WithVersion(vs, ts, v)[u] = vs[u]
<1>1. PICK T \in SUBSET Timestamp : vs \in [T -> Value]
  BY DEF Versions
<1>2. Engine!WithVersion(vs, ts, v) \in [T \cup {ts} -> Value]
  BY <1>1 DEF Engine!WithVersion
<1>3. T \cup {ts} \in SUBSET Timestamp
  OBVIOUS
<1>4. Engine!WithVersion(vs, ts, v) \in Versions
  BY <1>2, <1>3 DEF Versions
<1> QED
  BY <1>1, <1>4 DEF Engine!WithVersion

(* What the types say of the engines, for use in the steps.                 *)
LEMMA StoreTypes ==
  ASSUME versions \in [Key -> Versions]
  PROVE  \A k \in Key : /\ DOMAIN versions[k] \subseteq Timestamp
                       /\ \A ts \in DOMAIN versions[k] : versions[k][ts] \in Value
<1> SUFFICES ASSUME NEW k \in Key
             PROVE  /\ DOMAIN versions[k] \subseteq Timestamp
                    /\ \A ts \in DOMAIN versions[k] : versions[k][ts] \in Value
  OBVIOUS
<1>1. PICK T \in SUBSET Timestamp : versions[k] \in [T -> Value]
  BY DEF Versions
<1> QED
  BY <1>1

(* The engines stay well typed.                                             *)
LEMMA ApplyTyped ==
  ASSUME Types, NEW e \in Entry,
         ApplyPrepare(e) \/ ApplyCommit(e) \/ ApplyAbort(e) \/ ApplyOneShot(e)
  PROVE  /\ versions' \in [Key -> Versions]
         /\ intents' \in [Key -> Engine!Intent \cup {NoLock}]
         /\ disturbed' \subseteq Txn
<1> DEFINE Good == /\ versions' \in [Key -> Versions]
                   /\ intents' \in [Key -> Engine!Intent \cup {NoLock}]
<1>1. /\ versions \in [Key -> Versions]
      /\ intents \in [Key -> Engine!Intent \cup {NoLock}]
      /\ disturbed \subseteq Txn
  BY DEF Types, TypeOK
<1>2. disturbed' \subseteq Txn
  BY <1>1, EntryFields DEF ApplyPrepare, ApplyCommit, ApplyAbort, ApplyOneShot
<1>3. ASSUME UNCHANGED store PROVE Good
  BY <1>1, <1>3 DEF store
<1>4. ASSUME e.type = "PREPARE" /\ Engine!Prepare(e.key, e.value, e.txn) PROVE Good
  <2>1. [txn |-> e.txn, value |-> e.value] \in Engine!Intent
    BY <1>4, EntryFields DEF Engine!Intent
  <2> QED
    BY <1>1, <1>4, <2>1 DEF Engine!Prepare
<1>5. ASSUME e.type = "COMMIT" /\ Engine!Commit(e.key, e.txn, e.ts) PROVE Good
  <2>1. e.key \in Key /\ e.ts \in Timestamp /\ intents[e.key] \in Engine!Intent
    BY <1>1, <1>5, EntryFields DEF Engine!Commit, Engine!HoldsIntent
  <2>2. intents[e.key].value \in Value
    BY <2>1 DEF Engine!Intent
  <2>3. Engine!WithVersion(versions[e.key], e.ts, intents[e.key].value) \in Versions
    BY <1>1, <2>1, <2>2, WithVersionTyped
  <2> QED
    BY <1>1, <1>5, <2>1, <2>3 DEF Engine!Commit
<1>6. ASSUME e.type = "ABORT" /\ Engine!Abort(e.key, e.txn) PROVE Good
  BY <1>1, <1>6, EntryFields DEF Engine!Abort
<1>7. ASSUME e.type = "ONESHOT" /\ Engine!OnePhaseCommit(LastWrites(e.ops), e.txn, e.ts) PROVE Good
  <2>1. e.ops \in Seq(Write) /\ e.ts \in Timestamp
    BY <1>7, EntryFields
  <2>2. DOMAIN LastWrites(e.ops) = KeysOf(e.ops)
    BY DEF LastWrites, KeysOf
  <2>3. ASSUME NEW k \in DOMAIN LastWrites(e.ops) PROVE LastWrites(e.ops)[k] \in Value
    <3>1. PICK i \in DOMAIN e.ops : LastWrites(e.ops)[k] = e.ops[i].value
      BY <2>1, <2>2, LastWriteOf
    <3>2. e.ops[i] \in Write
      BY <2>1, SeqSteps
    <3> QED
      BY <3>1, <3>2 DEF Write
  <2>4. \A k \in Key : k \in DOMAIN LastWrites(e.ops) =>
          Engine!WithVersion(versions[k], e.ts, LastWrites(e.ops)[k]) \in Versions
    BY <1>1, <2>1, <2>3, WithVersionTyped
  <2>5. versions' \in [Key -> Versions]
    BY <1>1, <1>7, <2>4 DEF Engine!OnePhaseCommit
  <2>6. intents' \in [Key -> Engine!Intent \cup {NoLock}]
    BY <1>1, <1>7 DEF Engine!OnePhaseCommit
  <2> QED
    BY <2>5, <2>6
<1>8. Good
  BY <1>3, <1>4, <1>5, <1>6, <1>7 DEF ApplyPrepare, ApplyCommit, ApplyAbort, ApplyOneShot, store
<1> QED
  BY <1>2, <1>8

(* The rest of the state, apart from the engines.                           *)
LEMMA RequestTyped ==
  ASSUME TypeOK, NEW e \in Entry, NEW out, Request(e, out)
  PROVE  /\ log' \in [Shard -> Seq(Entry)] /\ DOMAIN net' \subseteq Entry
         /\ faults' \in 0 .. MaxFaults /\ disturbed' \subseteq Txn
<1>1. log \in [Shard -> Seq(Entry)] /\ DOMAIN net \subseteq Entry
      /\ faults \in 0 .. MaxFaults /\ disturbed \subseteq Txn
  BY DEF TypeOK
<1>2. log' \in [Shard -> Seq(Entry)]
  BY <1>1, ProposeTyped DEF Request
<1>3. DOMAIN net' \subseteq Entry
  <2>1. DOMAIN BagAdd(net, e) = DOMAIN net \cup {e}
    BY BagAddDomain, Zenon
  <2>2. net' = BagAdd(net, e) \/ net' = net
    BY DEF Request
  <2> QED
    BY <1>1, <2>1, <2>2
<1>4. faults' \in 0 .. MaxFaults
  BY <1>1, BoundAssumption DEF Request
<1>5. disturbed' \subseteq Txn
  BY <1>1, EntryFields DEF Request
<1> QED
  BY <1>2, <1>3, <1>4, <1>5

(* Only commits that were sent out lack an answer.                          *)
LEMMA UnansweredStep ==
  ASSUME unanswered \subseteq issued, [Next]_vars
  PROVE  unanswered' \subseteq issued'
<1>1. ASSUME NEW c \in Caller, CallStep(c) PROVE unanswered' \subseteq issued'
  BY <1>1 DEF CallStep, SendPrepare, TakeTimestamp, Decide, SendOneShot, MarkCommitted, AbortCall,
              history
<1>2. CASE UNCHANGED <<issued, unanswered>>
  BY <1>2
<1> QED
  BY <1>1, <1>2 DEF Next, vars, history, Begin, AddWrite, StartCommit, Rollback, Deliver, Lose,
                    Repeat, Fault, Apply

(* Every step keeps the types.                                              *)
LEMMA TypesStep ==
  ASSUME Types, [Next]_vars
  PROVE  Types'
<1>1. /\ txns \in [Txn -> [state : {"none", "active", "committed", "aborted"}, writes : Seq(Write)]]
      /\ call \in [Caller -> {Idle} \cup CallRecord]
      /\ clock \in Timestamp /\ DOMAIN net \subseteq Entry /\ log \in [Shard -> Seq(Entry)]
      /\ intents \in [Key -> Engine!Intent \cup {NoLock}]
      /\ faults \in 0 .. MaxFaults /\ rollbacks \in 0 .. MaxRollbacks
      /\ issued \subseteq [txn : Txn, ts : Timestamp, writes : Seq(Write)]
      /\ disturbed \subseteq Txn /\ versions \in [Key -> Versions] /\ TypeOK
  BY DEF Types, TypeOK, CallRecord
<1> DEFINE Kept ==
             /\ txns' \in [Txn -> [state : {"none", "active", "committed", "aborted"},
                                   writes : Seq(Write)]]
             /\ call' \in [Caller -> {Idle} \cup CallRecord]
             /\ clock' \in Timestamp /\ DOMAIN net' \subseteq Entry /\ log' \in [Shard -> Seq(Entry)]
             /\ intents' \in [Key -> Engine!Intent \cup {NoLock}]
             /\ faults' \in 0 .. MaxFaults /\ rollbacks' \in 0 .. MaxRollbacks
             /\ issued' \subseteq [txn : Txn, ts : Timestamp, writes : Seq(Write)]
             /\ disturbed' \subseteq Txn /\ versions' \in [Key -> Versions]
<1>2. SUFFICES Kept
  <2>1. versions' \in [Key -> Versions] =>
          \A k \in Key : /\ DOMAIN versions'[k] \subseteq Timestamp
                        /\ \A ts \in DOMAIN versions'[k] : versions'[k][ts] \in Value
    <3> SUFFICES ASSUME versions' \in [Key -> Versions], NEW k \in Key
                 PROVE  /\ DOMAIN versions'[k] \subseteq Timestamp
                        /\ \A ts \in DOMAIN versions'[k] : versions'[k][ts] \in Value
      OBVIOUS
    <3>1. PICK T \in SUBSET Timestamp : versions'[k] \in [T -> Value]
      BY DEF Versions
    <3> QED
      BY <3>1
  <2>2. unanswered' \subseteq issued'
    BY <1>1, UnansweredStep DEF TypeOK
  <2> QED
    BY <2>1, <2>2 DEF Types, TypeOK, CallRecord
<1>3. ASSUME NEW t \in Txn, Begin(t) PROVE Kept
  BY <1>1, <1>3, EmptySeq DEF Begin, store, history
<1>4. ASSUME NEW t \in Txn, NEW w \in Offers(t), AddWrite(t, w) PROVE Kept
  <2>1. txns[t].writes \in Seq(Write) /\ w \in Write
    BY <1>1, OffersAssumption
  <2>2. Append(txns[t].writes, w) \in Seq(Write)
    BY <2>1
  <2> QED
    BY <1>1, <1>4, <2>2 DEF AddWrite, store, history
<1>5. ASSUME NEW t \in Txn, txns' = [txns EXCEPT ![t].state = "aborted"],
             net' = net (+) Requests([i \in DOMAIN txns[t].writes |-> AbortEntry(txns[t].writes[i], t)])
      PROVE  /\ txns' \in [Txn -> [state : {"none", "active", "committed", "aborted"},
                                   writes : Seq(Write)]]
             /\ DOMAIN net' \subseteq Entry
  <2> DEFINE es == [i \in DOMAIN txns[t].writes |-> AbortEntry(txns[t].writes[i], t)]
  <2>1. \A i \in DOMAIN txns[t].writes : txns[t].writes[i] \in Write
    BY <1>1
  <2>2. \A i \in DOMAIN es : es[i] \in Entry
    BY <2>1 DEF AbortEntry, Entry, Write
  <2>3. DOMAIN net' = DOMAIN net \cup {es[i] : i \in DOMAIN es}
    BY <1>5, RequestsDomain
  <2> QED
    BY <1>1, <1>5, <2>2, <2>3
<1>6. ASSUME NEW t \in Txn, Rollback(t) PROVE Kept
  <2>1. rollbacks' \in 0 .. MaxRollbacks
    BY <1>1, <1>6, BoundAssumption DEF Rollback
  <2> QED
    BY <1>1, <1>5, <1>6, <2>1 DEF Rollback, Abort, store
<1>7. ASSUME NEW c \in Caller, NEW t \in Txn, NEW p \in Orders(txns[t].writes), StartCommit(c, t, p)
      PROVE  Kept
  <2> DEFINE w == txns[t].writes
             q == [i \in DOMAIN w |-> w[p[i]]]
  <2>1. w \in Seq(Write) /\ Len(w) \in Nat /\ DOMAIN w = 1 .. Len(w)
        /\ \A i \in DOMAIN w : w[i] \in Write
    BY <1>1, SeqSteps
  <2>2. \A i \in DOMAIN w : p[i] \in DOMAIN w
    BY DEF Orders
  <2>3. q \in Seq(Write)
    <3>1. \A i \in 1 .. Len(w) : w[p[i]] \in Write
      BY <2>1, <2>2
    <3>2. q = [i \in 1 .. Len(w) |-> w[p[i]]]
      BY <2>1
    <3> HIDE DEF w, q
    <3> QED
      BY <2>1, <3>1, <3>2
  <2>4. 0 \in Timestamp
    BY BoundAssumption DEF Timestamp
  <2>5. [pc |-> IF Cardinality(ShardsOf(w)) = 1 THEN "oneshot" ELSE "prepare",
         txn |-> t, writes |-> w, todo |-> q, ts |-> 0] \in CallRecord
    BY <2>1, <2>3, <2>4 DEF CallRecord
  <2> HIDE DEF q
  <2>6. call' \in [Caller -> {Idle} \cup CallRecord]
    BY <1>1, <1>7, <2>5 DEF StartCommit, q
  <2> QED
    BY <1>1, <1>7, <2>6 DEF StartCommit, store
<1>8. ASSUME NEW c \in Caller, NEW out \in Outcome, SendPrepare(c, out) PROVE Kept
  <2>1. call[c] \in CallRecord /\ call[c].txn \in Txn /\ call[c].todo \in Seq(Write)
        /\ call[c].todo # <<>>
    BY <1>1, <1>8, CallFields DEF SendPrepare
  <2>2. Head(call[c].todo) \in Write /\ Tail(call[c].todo) \in Seq(Write)
    BY <2>1, HeadTailProperties
  <2>3. PrepareEntry(Head(call[c].todo), call[c].txn) \in Entry
    BY <2>1, <2>2 DEF PrepareEntry, Entry, Write
  <2>4. /\ log' \in [Shard -> Seq(Entry)] /\ DOMAIN net' \subseteq Entry
        /\ faults' \in 0 .. MaxFaults /\ disturbed' \subseteq Txn
    BY <1>1, <1>8, <2>3, RequestTyped DEF SendPrepare
  <2>5. call' \in [Caller -> {Idle} \cup CallRecord]
    BY <1>1, <1>8, <2>1, <2>2 DEF SendPrepare, CallRecord
  <2> QED
    BY <1>1, <1>8, <2>4, <2>5 DEF SendPrepare, store
<1>9. ASSUME NEW c \in Caller, NEW out \in Outcome, SendOneShot(c, out) PROVE Kept
  <2>1. call[c] \in CallRecord /\ call[c].txn \in Txn /\ call[c].writes \in Seq(Write)
        /\ call[c].ts \in Timestamp
    BY <1>1, <1>9, CallFields DEF SendOneShot
  <2>2. OneShotEntry(call[c].writes, call[c].txn, call[c].ts) \in Entry
    BY <2>1 DEF OneShotEntry, Entry
  <2>3. /\ log' \in [Shard -> Seq(Entry)] /\ DOMAIN net' \subseteq Entry
        /\ faults' \in 0 .. MaxFaults /\ disturbed' \subseteq Txn
    BY <1>1, <1>9, <2>2, RequestTyped DEF SendOneShot
  <2>4. call' \in [Caller -> {Idle} \cup CallRecord]
    BY <1>1, <1>9, <2>1 DEF SendOneShot, CallRecord
  <2>5. issued' \subseteq [txn : Txn, ts : Timestamp, writes : Seq(Write)]
    BY <1>1, <1>9, <2>1 DEF SendOneShot
  <2> QED
    BY <1>1, <1>9, <2>3, <2>4, <2>5 DEF SendOneShot, store
<1>10. ASSUME NEW c \in Caller, TakeTimestamp(c) PROVE Kept
  <2>1. call[c] \in CallRecord
    BY <1>1, <1>10, CallFields DEF TakeTimestamp
  <2>2. clock + 1 \in Timestamp
    BY <1>1, <1>10, BoundAssumption DEF TakeTimestamp, Timestamp
  <2>3. call' \in [Caller -> {Idle} \cup CallRecord]
    BY <1>1, <1>10, <2>1, <2>2 DEF TakeTimestamp, CallRecord
  <2> QED
    BY <1>1, <1>10, <2>2, <2>3 DEF TakeTimestamp, store, history
<1>11. ASSUME NEW c \in Caller, Decide(c) PROVE Kept
  <2> DEFINE w == call[c].writes
             es == [i \in DOMAIN w |-> CommitEntry(w[i], call[c].txn, call[c].ts)]
  <2>1. call[c].txn \in Txn /\ w \in Seq(Write) /\ call[c].ts \in Timestamp
    BY <1>1, <1>11, CallFields DEF Decide
  <2>2. \A i \in DOMAIN es : es[i] \in Entry
    <3>1. \A i \in DOMAIN w : w[i] \in Write
      BY <2>1, SeqSteps
    <3> HIDE DEF w
    <3> QED
      BY <2>1, <3>1, EntriesMade
  <2>3. DOMAIN net' = DOMAIN net \cup {es[i] : i \in DOMAIN es}
    BY <1>11, RequestsDomain DEF Decide
  <2>4. issued' \subseteq [txn : Txn, ts : Timestamp, writes : Seq(Write)]
    BY <1>1, <1>11, <2>1 DEF Decide
  <2>5. txns' \in [Txn -> [state : {"none", "active", "committed", "aborted"}, writes : Seq(Write)]]
    BY <1>1, <1>11, <2>1 DEF Decide
  <2> HIDE DEF es
  <2>6. DOMAIN net' \subseteq Entry
    BY <1>1, <2>2, <2>3
  <2>7. call' \in [Caller -> {Idle} \cup CallRecord]
    BY <1>1, <1>11 DEF Decide
  <2> QED
    BY <1>1, <1>11, <2>4, <2>5, <2>6, <2>7 DEF Decide, store
<1>12. ASSUME NEW c \in Caller, MarkCommitted(c) PROVE Kept
  <2>1. call[c].txn \in Txn
    BY <1>1, <1>12, CallFields DEF MarkCommitted
  <2> QED
    BY <1>1, <1>12, <2>1 DEF MarkCommitted, store, history
<1>13. ASSUME NEW c \in Caller, AbortCall(c) PROVE Kept
  <2>1. call[c].txn \in Txn
    BY <1>1, <1>13, CallFields DEF AbortCall
  <2> QED
    BY <1>1, <1>5, <1>13, <2>1 DEF AbortCall, Abort, store, history
<1>14. ASSUME NEW e \in BagToSet(net), Deliver(e) \/ Lose(e) \/ Repeat(e) PROVE Kept
  <2>1. e \in Entry /\ e.txn \in Txn
    BY <1>1, BagElements, EntryFields
  <2>2. DOMAIN BagRemove(net, e) \subseteq Entry
    BY <1>1, BagRemoveDomain
  <2>3. DOMAIN net' \subseteq Entry
    BY <1>1, <1>14, <2>2 DEF Deliver, Lose, Repeat
  <2>4. log' \in [Shard -> Seq(Entry)]
    BY <1>1, <1>14, <2>1, ProposeTyped DEF Deliver, Lose, Repeat
  <2>5. faults' \in 0 .. MaxFaults /\ disturbed' \subseteq Txn
    BY <1>1, <1>14, <2>1, BoundAssumption DEF Deliver, Lose, Repeat, Fault, history
  <2> QED
    BY <1>1, <1>14, <2>3, <2>4, <2>5 DEF Deliver, Lose, Repeat, Fault, store, history
<1>15. ASSUME NEW s \in Shard, Apply(s) PROVE Kept
  <2>1. log[s] \in Seq(Entry) /\ log[s] # <<>>
    BY <1>1, <1>15 DEF Apply
  <2>2. Head(log[s]) \in Entry /\ Tail(log[s]) \in Seq(Entry)
    BY <2>1, HeadTailProperties
  <2>3. /\ versions' \in [Key -> Versions]
        /\ intents' \in [Key -> Engine!Intent \cup {NoLock}]
        /\ disturbed' \subseteq Txn
    BY <1>15, <2>2, ApplyTyped DEF Apply
  <2>4. log' \in [Shard -> Seq(Entry)]
    BY <1>1, <1>15, <2>2 DEF Apply
  <2> QED
    BY <1>1, <1>15, <2>3, <2>4 DEF Apply
<1>16. CASE UNCHANGED vars
  BY <1>1, <1>16 DEF vars
<1> QED
  BY <1>3, <1>4, <1>6, <1>7, <1>8, <1>9, <1>10, <1>11, <1>12, <1>13, <1>14, <1>15, <1>16,
     ServesAssumption DEF Next, CallStep

-----------------------------------------------------------------------------
(* Where entries, intents and versions come from.                           *)

Grown ==
  /\ issued \subseteq issued'
  /\ \A t \in Txn : WritesOf(t) \subseteq WritesOf(t)'

InLogs(x) == \E s \in Shard : \E i \in DOMAIN log[s] : log[s][i] = x

(* Buffered writes and decisions are never taken back.                      *)
LEMMA GrownStep ==
  ASSUME Types, BufferedFirst, [Next]_vars
  PROVE  Grown
<1>1. /\ txns \in [Txn -> [state : {"none", "active", "committed", "aborted"}, writes : Seq(Write)]]
      /\ \A t \in Txn : txns[t].writes \in Seq(Write)
  BY DEF Types, TypeOK
<1>2. issued \subseteq issued'
  BY DEF Next, vars, CallStep, history, Begin, AddWrite, StartCommit, SendPrepare, TakeTimestamp,
         Decide, SendOneShot, MarkCommitted, AbortCall, Rollback, Deliver, Lose, Repeat, Fault, Apply
<1>3. ASSUME NEW t \in Txn, \A u \in Txn : txns'[u].writes = txns[u].writes
      PROVE  WritesOf(t) \subseteq WritesOf(t)'
  BY <1>3 DEF WritesOf
<1>4. ASSUME NEW t \in Txn, Begin(t), NEW u \in Txn PROVE WritesOf(u) \subseteq WritesOf(u)'
  <2>1. txns[t].writes = <<>> /\ txns'[t].writes = <<>>
    BY <1>1, <1>4 DEF Begin, BufferedFirst
  <2>2. u # t => txns'[u] = txns[u]
    BY <1>1, <1>4 DEF Begin
  <2> QED
    BY <2>1, <2>2 DEF WritesOf
<1>5. ASSUME NEW t \in Txn, NEW w \in Offers(t), AddWrite(t, w), NEW u \in Txn
      PROVE  WritesOf(u) \subseteq WritesOf(u)'
  <2>1. txns[t].writes \in Seq(Write) /\ w \in Write
    BY <1>1, OffersAssumption
  <2>2. txns'[t].writes = Append(txns[t].writes, w)
    BY <1>1, <1>5 DEF AddWrite
  <2>3. u # t => txns'[u] = txns[u]
    BY <1>1, <1>5 DEF AddWrite
  <2>4. ToSet(txns[t].writes) \subseteq ToSet(Append(txns[t].writes, w))
    BY <2>1 DEF ToSet
  <2> QED
    BY <2>2, <2>3, <2>4 DEF WritesOf
<1>6. ASSUME NEW t \in Txn, Rollback(t) PROVE \A u \in Txn : txns'[u].writes = txns[u].writes
  BY <1>1, <1>6 DEF Rollback, Abort
<1>7. ASSUME NEW c \in Caller, CallStep(c) PROVE \A u \in Txn : txns'[u].writes = txns[u].writes
  BY <1>1, <1>7 DEF CallStep, SendPrepare, TakeTimestamp, Decide, SendOneShot, MarkCommitted,
                    AbortCall, Abort
<1>8. CASE UNCHANGED txns
  BY <1>2, <1>8 DEF Grown, WritesOf
<1> QED
  BY <1>2, <1>3, <1>4, <1>5, <1>6, <1>7, <1>8
     DEF Grown, Next, vars, StartCommit, Deliver, Lose, Repeat, Fault, Apply

(* What was backed stays backed.                                            *)
LEMMA BackedKept ==
  ASSUME Grown, NEW e \in Entry, Backed(e)
  PROVE  Backed(e)'
  BY EntryFields DEF Grown, Backed

(* What a proposal does to the logs.                                        *)
LEMMA ProposeLogs ==
  ASSUME TypeOK, NEW e \in Entry, Propose(e), NEW s \in Shard
  PROVE  /\ s # ShardOf(e) => log'[s] = log[s]
         /\ s = ShardOf(e) => /\ log'[s] = Append(log[s], e)
                              /\ DOMAIN log'[s] = 1 .. Len(log[s]) + 1
                              /\ log'[s][Len(log[s]) + 1] = e
         /\ Len(log[s]) \in Nat /\ DOMAIN log[s] = 1 .. Len(log[s])
         /\ \A i \in DOMAIN log[s] : i \in DOMAIN log'[s] /\ log'[s][i] = log[s][i]
         /\ \A i \in DOMAIN log'[s] : log'[s][i] = e \/ (i \in DOMAIN log[s] /\ log'[s][i] = log[s][i])
<1>1. log \in [Shard -> Seq(Entry)]
  BY DEF TypeOK
<1>2. s # ShardOf(e) => log'[s] = log[s]
  BY <1>1 DEF Propose
<1>3. s = ShardOf(e) => log'[s] = Append(log[s], e)
  BY <1>1 DEF Propose
<1>4. Len(log[s]) \in Nat /\ DOMAIN log[s] = 1 .. Len(log[s])
  BY <1>1, SeqSteps
<1>5. /\ DOMAIN Append(log[s], e) = 1 .. Len(log[s]) + 1
      /\ \A i \in DOMAIN log[s] : Append(log[s], e)[i] = log[s][i]
      /\ Append(log[s], e)[Len(log[s]) + 1] = e
  BY <1>1, SeqSteps
<1>6. \A i \in 1 .. Len(log[s]) + 1 : i \in 1 .. Len(log[s]) \/ i = Len(log[s]) + 1
  BY <1>4
<1>7. \A i \in 1 .. Len(log[s]) : i \in 1 .. Len(log[s]) + 1
  BY <1>4
<1> QED
  BY <1>2, <1>3, <1>4, <1>5, <1>6, <1>7

(* What taking the first entry off a log does to it.                        *)
LEMMA TailLogs ==
  ASSUME TypeOK, NEW s \in Shard, log[s] # <<>>, log' = [log EXCEPT ![s] = Tail(@)], NEW r \in Shard
  PROVE  /\ r # s => log'[r] = log[r]
         /\ r = s => /\ Head(log[s]) = log[s][1] /\ Head(log[s]) \in Entry
                     /\ DOMAIN log'[r] = 1 .. Len(log[r]) - 1
                     /\ \A i \in DOMAIN log'[r] : i + 1 \in DOMAIN log[r] /\ log'[r][i] = log[r][i + 1]
         /\ Len(log[r]) \in Nat /\ DOMAIN log[r] = 1 .. Len(log[r])
         /\ \A i \in DOMAIN log'[r] : \E j \in DOMAIN log[r] : log'[r][i] = log[r][j]
<1>1. log \in [Shard -> Seq(Entry)]
  BY DEF TypeOK
<1>2. Len(log[r]) \in Nat /\ DOMAIN log[r] = 1 .. Len(log[r])
  BY <1>1, SeqSteps
<1>3. r # s => log'[r] = log[r]
  BY <1>1
<1>4. log'[s] = Tail(log[s])
  BY <1>1
<1>5. /\ Head(log[s]) = log[s][1] /\ 1 \in DOMAIN log[s]
      /\ DOMAIN Tail(log[s]) = 1 .. Len(log[s]) - 1
      /\ \A i \in DOMAIN Tail(log[s]) : i + 1 \in DOMAIN log[s] /\ Tail(log[s])[i] = log[s][i + 1]
  BY <1>1, SeqSteps
<1>6. log[s][1] \in Entry
  BY <1>1, <1>5, SeqSteps
<1> QED
  BY <1>2, <1>3, <1>4, <1>5, <1>6

(* The entries after a step that were not there before.                     *)
LEMMA RequestUnderway ==
  ASSUME TypeOK, NEW e \in Entry, NEW out, Request(e, out), NEW x, Underway(x)'
  PROVE  Underway(x) \/ x = e
<1>1. ASSUME x \in DOMAIN net' PROVE Underway(x) \/ x = e
  <2>1. DOMAIN BagAdd(net, e) = DOMAIN net \cup {e}
    BY BagAddDomain, Zenon
  <2>2. net' = BagAdd(net, e) \/ net' = net
    BY DEF Request
  <2> QED
    BY <1>1, <2>1, <2>2 DEF Underway
<1>2. ASSUME NEW s \in Shard, NEW i \in DOMAIN log'[s], log'[s][i] = x
      PROVE  Underway(x) \/ x = e
  <2>1. CASE UNCHANGED log
    BY <1>2, <2>1 DEF Underway
  <2>2. CASE Propose(e)
    BY <1>2, <2>2, ProposeLogs DEF Underway
  <2> QED
    BY <2>1, <2>2 DEF Request
<1> QED
  BY <1>1, <1>2 DEF Underway

LEMMA NetworkUnderway ==
  ASSUME TypeOK, NEW e \in BagToSet(net), Deliver(e) \/ Lose(e) \/ Repeat(e), NEW x, Underway(x)'
  PROVE  Underway(x)
<1>1. e \in DOMAIN net /\ e \in Entry
  BY BagElements, Zenon DEF TypeOK
<1>2. DOMAIN net' \subseteq DOMAIN net
  <2>1. DOMAIN BagRemove(net, e) \subseteq DOMAIN net
    BY BagRemoveDomain, Zenon
  <2> QED
    BY <2>1 DEF Deliver, Lose, Repeat
<1>3. ASSUME NEW s \in Shard, NEW i \in DOMAIN log'[s], log'[s][i] = x
      PROVE  Underway(x)
  <2>1. CASE UNCHANGED log
    BY <1>3, <2>1 DEF Underway
  <2>2. CASE Propose(e)
    BY <1>1, <1>3, <2>2, ProposeLogs DEF Underway
  <2> QED
    BY <2>1, <2>2 DEF Deliver, Lose, Repeat
<1> QED
  BY <1>2, <1>3 DEF Underway

LEMMA ApplyUnderway ==
  ASSUME TypeOK, NEW s \in Shard, Apply(s), NEW x, Underway(x)'
  PROVE  Underway(x)
<1>1. log[s] # <<>> /\ log' = [log EXCEPT ![s] = Tail(@)] /\ net' = net
  BY DEF Apply
<1>2. ASSUME NEW r \in Shard, NEW i \in DOMAIN log'[r], log'[r][i] = x PROVE Underway(x)
  BY <1>1, <1>2, TailLogs DEF Underway
<1> QED
  BY <1>1, <1>2 DEF Underway

LEMMA SentUnderway ==
  ASSUME NEW es, net' = net (+) Requests(es), UNCHANGED log
  PROVE  \A x : Underway(x)' <=> Underway(x) \/ \E i \in DOMAIN es : x = es[i]
<1>1. DOMAIN net' = DOMAIN net \cup {es[i] : i \in DOMAIN es}
  BY RequestsDomain
<1> QED
  BY <1>1 DEF Underway

(* Entries stay backed when the new ones are.                               *)
LEMMA EntriesKept ==
  ASSUME Types, Types', Grown, EntriesBacked,
         \A x \in Entry : Underway(x)' => (Underway(x) \/ Backed(x)')
  PROVE  EntriesBacked'
<1>1. \A x \in Entry : Underway(x)' => Backed(x)'
  <2> SUFFICES ASSUME NEW x \in Entry, Underway(x) PROVE Backed(x)'
    OBVIOUS
  <2>1. Backed(x)
    BY DEF Underway, EntriesBacked
  <2> QED
    BY <2>1, BackedKept
<1>2. /\ \A x \in DOMAIN net' : x \in Entry /\ Underway(x)'
      /\ \A s \in Shard : \A i \in DOMAIN log'[s] : log'[s][i] \in Entry
  BY DEF Types, TypeOK, Underway
<1>3. \A x \in DOMAIN net' : Backed(x)'
  BY <1>1, <1>2
<1>4. ASSUME NEW s \in Shard, NEW i \in DOMAIN log'[s] PROVE Backed(log[s][i])'
  <2>1. PICK x \in Entry : x = log'[s][i]
    BY <1>2
  <2>2. Underway(x)'
    BY <2>1 DEF Underway
  <2>3. Backed(x)'
    BY <1>1, <2>2
  <2> QED
    BY <2>1, <2>3 DEF Backed
<1> QED
  BY <1>3, <1>4 DEF EntriesBacked

(* Intents and versions stay backed while the engines do not change.        *)
LEMMA StoreKept ==
  ASSUME Types, Grown, IntentsBacked, VersionsIssued, UNCHANGED store
  PROVE  IntentsBacked' /\ VersionsIssued'
<1>1. intents' = intents /\ versions' = versions
  BY DEF store
<1>2. \A k \in Key : intents[k] # NoLock => intents[k].txn \in Txn
  BY DEF Types, TypeOK, Engine!Intent
<1>3. \A d \in issued : d.txn \in Txn /\ d \in issued'
  BY DEF Types, TypeOK, Grown
<1>4. IntentsBacked'
  BY <1>1, <1>2 DEF IntentsBacked, Grown
<1>5. VersionsIssued'
  BY <1>1, <1>3 DEF VersionsIssued, Grown, WritesOf
<1> QED
  BY <1>4, <1>5

(* An entry that is applied leaves intents and versions backed.             *)
LEMMA AppliedBacked ==
  ASSUME Types, NEW e \in Entry, Backed(e), IntentsBacked, VersionsIssued, UNCHANGED <<txns, issued>>,
         ApplyPrepare(e) \/ ApplyCommit(e) \/ ApplyAbort(e) \/ ApplyOneShot(e)
  PROVE  IntentsBacked' /\ VersionsIssued'
<1> DEFINE Good == IntentsBacked' /\ VersionsIssued'
<1>1. /\ versions \in [Key -> Versions] /\ intents \in [Key -> Engine!Intent \cup {NoLock}]
      /\ issued' = issued /\ txns' = txns
  BY DEF Types, TypeOK
<1>2. ASSUME UNCHANGED store PROVE Good
  <2>1. Grown
    BY <1>1 DEF Grown, WritesOf
  <2> QED
    BY <1>2, <2>1, StoreKept
<1>3. ASSUME e.type = "PREPARE", Engine!Prepare(e.key, e.value, e.txn) PROVE Good
  <2>1. e.key \in Key /\ [key |-> e.key, value |-> e.value] \in WritesOf(e.txn)
    BY <1>3, EntryFields DEF Backed
  <2>2. versions' = versions
    BY <1>3 DEF Engine!Prepare
  <2>3. intents'[e.key] = [txn |-> e.txn, value |-> e.value]
        /\ \A k \in Key \ {e.key} : intents'[k] = intents[k]
    BY <1>1, <1>3, <2>1 DEF Engine!Prepare
  <2>4. IntentsBacked'
    BY <1>1, <2>1, <2>3 DEF IntentsBacked, WritesOf
  <2>5. VersionsIssued'
    BY <1>1, <2>2 DEF VersionsIssued
  <2> QED
    BY <2>4, <2>5
<1>4. ASSUME e.type = "COMMIT", Engine!Commit(e.key, e.txn, e.ts) PROVE Good
  <2>1. e.key \in Key /\ e.ts \in Timestamp /\ intents[e.key] # NoLock /\ intents[e.key].txn = e.txn
        /\ intents[e.key] \in Engine!Intent
    BY <1>1, <1>4, EntryFields DEF Engine!Commit, Engine!HoldsIntent
  <2>2. intents[e.key].value \in Value
    BY <2>1 DEF Engine!Intent
  <2>3. intents'[e.key] = NoLock /\ \A k \in Key \ {e.key} : intents'[k] = intents[k]
    BY <1>1, <1>4, <2>1 DEF Engine!Commit
  <2>4. IntentsBacked'
    BY <1>1, <2>3 DEF IntentsBacked, WritesOf
  <2>5. versions'[e.key] = Engine!WithVersion(versions[e.key], e.ts, intents[e.key].value)
        /\ \A k \in Key \ {e.key} : versions'[k] = versions[k]
    BY <1>1, <1>4, <2>1 DEF Engine!Commit
  <2>6. /\ DOMAIN versions'[e.key] = DOMAIN versions[e.key] \cup {e.ts}
        /\ versions'[e.key][e.ts] = intents[e.key].value
        /\ \A u \in DOMAIN versions[e.key] : u # e.ts => versions'[e.key][u] = versions[e.key][u]
    BY <2>5 DEF Engine!WithVersion
  <2>7. PICK d \in issued : d.txn = e.txn /\ d.ts = e.ts /\ e.key \in KeysOf(d.writes)
    BY <1>4 DEF Backed
  <2>8. [key |-> e.key, value |-> intents[e.key].value] \in ToSet(txns[d.txn].writes)
    BY <2>1, <2>7 DEF IntentsBacked, WritesOf
  <2>9. VersionsIssued'
    <3> SUFFICES ASSUME NEW k \in Key, NEW ts \in DOMAIN versions'[k]
                 PROVE  \E f \in issued :
                          /\ f.ts = ts /\ k \in {f.writes[i].key : i \in DOMAIN f.writes}
                          /\ [key |-> k, value |-> versions'[k][ts]] \in ToSet(txns[f.txn].writes)
      BY <1>1 DEF VersionsIssued
    <3>1. CASE k = e.key /\ ts = e.ts
      BY <2>6, <2>7, <2>8, <3>1 DEF KeysOf
    <3>2. CASE ~(k = e.key /\ ts = e.ts)
      <4>1. ts \in DOMAIN versions[k] /\ versions'[k][ts] = versions[k][ts]
        BY <2>5, <2>6, <3>2
      <4> QED
        BY <4>1 DEF VersionsIssued
    <3> QED
      BY <3>1, <3>2
  <2> QED
    BY <2>4, <2>9
<1>5. ASSUME e.type = "ABORT", Engine!Abort(e.key, e.txn) PROVE Good
  <2>1. versions' = versions /\ \A k \in Key : intents'[k] = NoLock \/ intents'[k] = intents[k]
    BY <1>1, <1>5 DEF Engine!Abort
  <2>2. IntentsBacked'
    BY <1>1, <2>1 DEF IntentsBacked, WritesOf
  <2>3. VersionsIssued'
    BY <1>1, <2>1 DEF VersionsIssued
  <2> QED
    BY <2>2, <2>3
<1>6. ASSUME e.type = "ONESHOT", Engine!OnePhaseCommit(LastWrites(e.ops), e.txn, e.ts) PROVE Good
  <2> DEFINE d == [txn |-> e.txn, ts |-> e.ts, writes |-> e.ops]
  <2>1. e.ops \in Seq(Write) /\ e.ts \in Timestamp /\ d \in issued
        /\ ToSet(e.ops) \subseteq WritesOf(e.txn)
    BY <1>6, EntryFields DEF Backed
  <2>2. DOMAIN LastWrites(e.ops) = KeysOf(e.ops)
    BY DEF LastWrites, KeysOf
  <2>3. ASSUME NEW k \in KeysOf(e.ops)
        PROVE  /\ LastWrites(e.ops)[k] \in Value
               /\ [key |-> k, value |-> LastWrites(e.ops)[k]] \in ToSet(e.ops)
    <3>1. PICK i \in DOMAIN e.ops : e.ops[i].key = k /\ LastWrites(e.ops)[k] = e.ops[i].value
      BY <2>1, LastWriteOf
    <3>2. e.ops[i] \in Write
      BY <2>1, SeqSteps
    <3>3. e.ops[i] = [key |-> k, value |-> LastWrites(e.ops)[k]]
      BY <3>1, <3>2 DEF Write
    <3> QED
      BY <3>1, <3>2, <3>3 DEF Write, ToSet
  <2>4. IntentsBacked'
    <3>1. \A k \in Key : intents'[k] = NoLock \/ intents'[k] = intents[k]
      BY <1>1, <1>6 DEF Engine!OnePhaseCommit
    <3> QED
      BY <1>1, <3>1 DEF IntentsBacked, WritesOf
  <2>5. \A k \in Key : versions'[k] = IF k \in KeysOf(e.ops)
                                      THEN Engine!WithVersion(versions[k], e.ts, LastWrites(e.ops)[k])
                                      ELSE versions[k]
    BY <1>6, <2>2 DEF Engine!OnePhaseCommit
  <2>6. VersionsIssued'
    <3> SUFFICES ASSUME NEW k \in Key, NEW ts \in DOMAIN versions'[k]
                 PROVE  \E f \in issued :
                          /\ f.ts = ts /\ k \in {f.writes[i].key : i \in DOMAIN f.writes}
                          /\ [key |-> k, value |-> versions'[k][ts]] \in ToSet(txns[f.txn].writes)
      BY <1>1 DEF VersionsIssued
    <3>1. CASE k \in KeysOf(e.ops) /\ ts = e.ts
      <4>1. versions'[k][ts] = LastWrites(e.ops)[k]
        BY <2>5, <3>1 DEF Engine!WithVersion
      <4>2. [key |-> k, value |-> versions'[k][ts]] \in ToSet(txns[d.txn].writes)
        BY <2>1, <2>3, <3>1, <4>1 DEF WritesOf
      <4>3. d.ts = ts /\ k \in {d.writes[i].key : i \in DOMAIN d.writes}
        BY <3>1 DEF KeysOf
      <4> QED
        BY <2>1, <4>2, <4>3
    <3>2. CASE ~(k \in KeysOf(e.ops) /\ ts = e.ts)
      <4>1. ts \in DOMAIN versions[k] /\ versions'[k][ts] = versions[k][ts]
        BY <2>5, <3>2 DEF Engine!WithVersion
      <4> QED
        BY <4>1 DEF VersionsIssued
    <3> QED
      BY <3>1, <3>2
  <2> QED
    BY <2>4, <2>6
<1>7. Good
  BY <1>2, <1>3, <1>4, <1>5, <1>6 DEF ApplyPrepare, ApplyCommit, ApplyAbort, ApplyOneShot, store
<1> QED
  BY <1>7

(* Callers and buffers: what is copied was buffered first.                  *)
LEMMA BufferedStep ==
  ASSUME Types, BufferedFirst, Grown, [Next]_vars
  PROVE  BufferedFirst'
<1>1. /\ txns \in [Txn -> [state : {"none", "active", "committed", "aborted"}, writes : Seq(Write)]]
      /\ call \in [Caller -> {Idle} \cup CallRecord]
      /\ TypeOK /\ Idle.pc = "idle"
  BY DEF Types, TypeOK, CallRecord, Idle
<1> DEFINE Fresh == \A t \in Txn : txns'[t].state = "none" => txns'[t].writes = <<>>
           Copied(c) == call'[c].pc # "idle" =>
                          /\ call'[c].writes # <<>>
                          /\ ToSet(call'[c].writes) \subseteq ToSet(txns'[call'[c].txn].writes)
                          /\ ToSet(call'[c].todo) \subseteq ToSet(call'[c].writes)
<1>2. SUFFICES Fresh /\ \A c \in Caller : Copied(c)
  BY DEF BufferedFirst, WritesOf
<1>3. ASSUME NEW c \in Caller, call'[c] = call[c] PROVE Copied(c)
  <2>1. CASE call[c].pc = "idle"
    BY <1>3, <2>1
  <2>2. CASE call[c].pc # "idle"
    <3>1. call[c].txn \in Txn
      BY <1>1, <2>2, CallFields
    <3> QED
      BY <1>3, <2>2, <3>1 DEF BufferedFirst, Grown, WritesOf
  <2> QED
    BY <2>1, <2>2
<1>4. ASSUME NEW c \in Caller, call'[c] = Idle PROVE Copied(c)
  BY <1>1, <1>4
<1>5. ASSUME NEW c \in Caller, call[c].pc # "idle", call'[c].writes = call[c].writes,
             call'[c].txn = call[c].txn, ToSet(call'[c].todo) \subseteq ToSet(call[c].todo)
      PROVE  Copied(c)
  <2>1. call[c].txn \in Txn
    BY <1>1, <1>5, CallFields
  <2> QED
    BY <1>5, <2>1 DEF BufferedFirst, Grown, WritesOf
<1>6. ASSUME UNCHANGED txns PROVE Fresh
  BY <1>6 DEF BufferedFirst
<1>7. ASSUME NEW t \in Txn, Begin(t) \/ Rollback(t) \/ \E w \in Offers(t) : AddWrite(t, w)
      PROVE  Fresh /\ \A c \in Caller : Copied(c)
  <2>1. Fresh
    BY <1>1, <1>7 DEF Begin, Rollback, Abort, AddWrite, BufferedFirst
  <2>2. \A c \in Caller : call'[c] = call[c]
    BY <1>7 DEF Begin, Rollback, AddWrite
  <2> QED
    BY <1>3, <2>1, <2>2
<1>8. ASSUME NEW c \in Caller, NEW t \in Txn, NEW p \in Orders(txns[t].writes), StartCommit(c, t, p)
      PROVE  Fresh /\ \A b \in Caller : Copied(b)
  <2> DEFINE w == txns[t].writes
  <2>1. Fresh
    BY <1>6, <1>8 DEF StartCommit
  <2>2. \A b \in Caller : b # c => call'[b] = call[b]
    BY <1>1, <1>8 DEF StartCommit
  <2>3. call'[c].writes = w /\ call'[c].txn = t /\ call'[c].todo = [i \in DOMAIN w |-> w[p[i]]]
        /\ w # <<>> /\ txns' = txns
    BY <1>1, <1>8 DEF StartCommit
  <2>4. ToSet([i \in DOMAIN w |-> w[p[i]]]) \subseteq ToSet(w)
    BY DEF ToSet, Orders
  <2>5. Copied(c)
    BY <2>3, <2>4
  <2> QED
    BY <1>3, <2>1, <2>2, <2>5
<1>9. ASSUME NEW c \in Caller, CallStep(c) PROVE Fresh /\ \A b \in Caller : Copied(b)
  <2>1. \A b \in Caller : b # c => call'[b] = call[b]
    BY <1>1, <1>9 DEF CallStep, SendPrepare, SendOneShot, TakeTimestamp, Decide, MarkCommitted, AbortCall
  <2>2. call[c].pc # "idle"
    BY <1>9 DEF CallStep, SendPrepare, SendOneShot, TakeTimestamp, Decide, MarkCommitted, AbortCall
  <2>3. call[c] \in CallRecord /\ call[c].todo \in Seq(Write) /\ call[c].txn \in Txn
    BY <1>1, <2>2, CallFields
  <2>4. Fresh
    BY <1>1, <1>9, <2>3 DEF CallStep, SendPrepare, SendOneShot, TakeTimestamp, Decide, MarkCommitted,
                            AbortCall, Abort, BufferedFirst
  <2>5. CASE \E out \in Outcome : SendPrepare(c, out)
    <3>1. call[c].todo # <<>> => ToSet(Tail(call[c].todo)) \subseteq ToSet(call[c].todo)
      BY <2>3, SeqSteps DEF ToSet
    <3>2. /\ call'[c].writes = call[c].writes /\ call'[c].txn = call[c].txn /\ call[c].todo # <<>>
          /\ call'[c].todo = call[c].todo \/ call'[c].todo = Tail(call[c].todo)
      BY <1>1, <2>3, <2>5 DEF SendPrepare, CallRecord
    <3> QED
      BY <1>3, <1>5, <2>1, <2>2, <2>4, <3>1, <3>2
  <2>6. CASE TakeTimestamp(c) \/ \E out \in Outcome : SendOneShot(c, out)
    <3>1. /\ call'[c].writes = call[c].writes /\ call'[c].txn = call[c].txn
          /\ call'[c].todo = call[c].todo
      BY <1>1, <2>3, <2>6 DEF TakeTimestamp, SendOneShot, CallRecord
    <3> QED
      BY <1>3, <1>5, <2>1, <2>2, <2>4, <3>1
  <2>7. CASE Decide(c) \/ MarkCommitted(c) \/ AbortCall(c)
    <3>1. call'[c] = Idle
      BY <1>1, <2>7 DEF Decide, MarkCommitted, AbortCall
    <3> QED
      BY <1>3, <1>4, <2>1, <2>4, <3>1
  <2> QED
    BY <1>9, <2>5, <2>6, <2>7 DEF CallStep
<1>10. ASSUME UNCHANGED <<txns, call>> PROVE Fresh /\ \A c \in Caller : Copied(c)
  BY <1>3, <1>6, <1>10
<1> QED
  BY <1>7, <1>8, <1>9, <1>10, ServesAssumption DEF Next, vars, Deliver, Lose, Repeat, Fault, Apply

(* Every step keeps what is under way, held and committed backed.           *)
LEMMA CInvStep ==
  ASSUME CInv, [Next]_vars
  PROVE  CInv'
<1>1. Types' /\ Grown /\ BufferedFirst'
  BY TypesStep, GrownStep, BufferedStep DEF CInv
<1>2. Types /\ TypeOK /\ BufferedFirst /\ EntriesBacked /\ IntentsBacked /\ VersionsIssued
  BY DEF CInv, Types
<1> DEFINE NewBacked == \A x \in Entry : Underway(x)' => (Underway(x) \/ Backed(x)')
<1>3. SUFFICES NewBacked /\ IntentsBacked' /\ VersionsIssued'
  BY <1>1, <1>2, EntriesKept DEF CInv
<1>4. ASSUME UNCHANGED store PROVE IntentsBacked' /\ VersionsIssued'
  BY <1>1, <1>2, <1>4, StoreKept
<1>5. ASSUME UNCHANGED <<net, log>> PROVE NewBacked
  BY <1>5 DEF Underway
<1>6. CASE \E t \in Txn : Begin(t) \/ \E w \in Offers(t) : AddWrite(t, w)
  BY <1>4, <1>5, <1>6 DEF Begin, AddWrite, store
<1>7. ASSUME NEW t \in Txn, Abort(t), UNCHANGED log PROVE NewBacked
  <2> DEFINE es == [i \in DOMAIN txns[t].writes |-> AbortEntry(txns[t].writes[i], t)]
  <2>1. \A x : Underway(x)' <=> Underway(x) \/ \E i \in DOMAIN es : x = es[i]
    BY <1>7, SentUnderway DEF Abort
  <2>2. \A i \in DOMAIN es : es[i].type = "ABORT"
    BY DEF AbortEntry
  <2> HIDE DEF es
  <2> QED
    BY <2>1, <2>2 DEF Backed
<1>8. CASE \E t \in Txn : Rollback(t)
  BY <1>4, <1>7, <1>8 DEF Rollback, store
<1>9. CASE \E c \in Caller : \E t \in Serves(c) : \E p \in Orders(txns[t].writes) : StartCommit(c, t, p)
  BY <1>4, <1>5, <1>9 DEF StartCommit, store
<1>10. ASSUME NEW c \in Caller, CallStep(c) PROVE NewBacked /\ IntentsBacked' /\ VersionsIssued'
  <2>1. call[c].pc # "idle" /\ UNCHANGED store
    BY <1>10 DEF CallStep, SendPrepare, SendOneShot, TakeTimestamp, Decide, MarkCommitted, AbortCall, store
  <2>2. /\ call[c].txn \in Txn /\ call[c].writes \in Seq(Write) /\ call[c].todo \in Seq(Write)
        /\ call[c].ts \in Timestamp /\ call[c].writes # <<>>
        /\ ToSet(call[c].writes) \subseteq WritesOf(call[c].txn)
        /\ ToSet(call[c].todo) \subseteq ToSet(call[c].writes)
    BY <1>2, <2>1, CallFields DEF BufferedFirst
  <2>3. IntentsBacked' /\ VersionsIssued'
    BY <1>4, <2>1
  <2>4. ASSUME NEW out \in Outcome, SendPrepare(c, out) PROVE NewBacked
    <3> DEFINE w == Head(call[c].todo)
               e == PrepareEntry(w, call[c].txn)
    <3>1. w \in Write /\ w \in ToSet(call[c].todo)
      BY <2>2, <2>4, SeqSteps DEF SendPrepare, ToSet
    <3>3. w = [key |-> w.key, value |-> w.value]
      BY <3>1 DEF Write
    <3> HIDE DEF w
    <3>4. \A x \in Entry : x = e => Backed(x)'
      <4>1. e.type = "PREPARE" /\ e.key = w.key /\ e.value = w.value /\ e.txn = call[c].txn
        BY DEF PrepareEntry
      <4>2. [key |-> e.key, value |-> e.value] \in ToSet(txns'[e.txn].writes)
        <5>1. txns'[call[c].txn].writes = txns[call[c].txn].writes
          BY <2>4 DEF SendPrepare
        <5> QED
          BY <2>2, <3>1, <3>3, <4>1, <5>1 DEF WritesOf
      <4> QED
        BY <4>1, <4>2 DEF Backed, WritesOf
    <3>5. e \in Entry /\ Request(e, out)
      BY <2>2, <2>4, <3>1, EntriesMade DEF SendPrepare, w
    <3>6. \A x \in Entry : Underway(x)' => Underway(x) \/ x = e
      BY <1>2, <3>5, RequestUnderway
    <3> QED
      BY <3>4, <3>6
  <2>5. ASSUME NEW out \in Outcome, SendOneShot(c, out) PROVE NewBacked
    <3> DEFINE e == OneShotEntry(call[c].writes, call[c].txn, call[c].ts)
    <3>1. e \in Entry /\ Request(e, out)
      BY <2>2, <2>5 DEF SendOneShot, OneShotEntry, Entry
    <3>2. \A x \in Entry : Underway(x)' => Underway(x) \/ x = e
      BY <1>2, <3>1, RequestUnderway
    <3>3. txns' = txns
          /\ [txn |-> call[c].txn, ts |-> call[c].ts, writes |-> call[c].writes] \in issued'
      BY <2>5 DEF SendOneShot
    <3>4. \A x \in Entry : x = e => Backed(x)'
      BY <2>2, <3>3 DEF Backed, OneShotEntry, WritesOf
    <3> QED
      BY <3>2, <3>4
  <2>6. ASSUME Decide(c) PROVE NewBacked
    <3> DEFINE w == call[c].writes
               es == [i \in DOMAIN w |-> CommitEntry(w[i], call[c].txn, call[c].ts)]
               d == [txn |-> call[c].txn, ts |-> call[c].ts, writes |-> w]
    <3>1. \A x : Underway(x)' <=> Underway(x) \/ \E i \in DOMAIN es : x = es[i]
      BY <2>6, SentUnderway DEF Decide
    <3>2. d \in issued' /\ d.txn = call[c].txn /\ d.ts = call[c].ts /\ d.writes = w
      BY <2>6 DEF Decide
    <3> HIDE DEF d
    <3>3. ASSUME NEW i \in DOMAIN es, NEW x \in Entry, x = es[i] PROVE Backed(x)'
      <4>1. x.type = "COMMIT" /\ x.key = w[i].key /\ x.txn = d.txn /\ x.ts = d.ts
        BY <3>2, <3>3 DEF CommitEntry
      <4>2. x.key \in KeysOf(d.writes)
        BY <3>2, <4>1 DEF KeysOf
      <4> QED
        BY <3>2, <4>1, <4>2 DEF Backed
    <3> QED
      BY <3>1, <3>3
  <2>7. ASSUME AbortCall(c) PROVE NewBacked
    BY <1>7, <2>2, <2>7 DEF AbortCall
  <2>8. ASSUME TakeTimestamp(c) \/ MarkCommitted(c) PROVE NewBacked
    BY <1>5, <2>8 DEF TakeTimestamp, MarkCommitted
  <2> QED
    BY <1>10, <2>3, <2>4, <2>5, <2>6, <2>7, <2>8 DEF CallStep
<1>11. CASE \E e \in BagToSet(net) : Deliver(e) \/ Lose(e) \/ Repeat(e)
  BY <1>2, <1>4, <1>11, NetworkUnderway DEF Deliver, Lose, Repeat, Fault, store
<1>12. ASSUME NEW s \in Shard, Apply(s) PROVE NewBacked /\ IntentsBacked' /\ VersionsIssued'
  <2>1. NewBacked
    BY <1>2, <1>12, ApplyUnderway
  <2>2. Head(log[s]) \in Entry /\ Backed(Head(log[s]))
    <3>1. log \in [Shard -> Seq(Entry)] /\ log[s] # <<>>
      BY <1>2, <1>12 DEF TypeOK, Apply
    <3>2. Head(log[s]) = log[s][1] /\ 1 \in DOMAIN log[s] /\ log[s][1] \in Entry
      BY <3>1, SeqSteps
    <3> QED
      BY <1>2, <3>2 DEF EntriesBacked
  <2>3. IntentsBacked' /\ VersionsIssued'
    BY <1>2, <1>12, <2>2, AppliedBacked DEF Apply
  <2> QED
    BY <2>1, <2>3
<1>13. CASE UNCHANGED vars
  BY <1>4, <1>5, <1>13 DEF vars, store
<1> QED
  BY <1>6, <1>8, <1>9, <1>10, <1>11, <1>12, <1>13 DEF Next

LEMMA CInvInit ==
  ASSUME Init
  PROVE  CInv
<1>1. /\ txns = [t \in Txn |-> [state |-> "none", writes |-> <<>>]]
      /\ call = [c \in Caller |-> Idle] /\ Idle.pc = "idle"
      /\ clock = 0 /\ net = EmptyBag /\ DOMAIN net = {} /\ log = [s \in Shard |-> <<>>]
      /\ faults = 0 /\ rollbacks = 0 /\ issued = {} /\ unanswered = {} /\ disturbed = {}
  BY BagElements DEF Init, Idle
<1>2. versions = [k \in Key |-> [ts \in {} |-> ts]] /\ intents = [k \in Key |-> NoLock]
  BY DEF Init, Engine!Init
<1>3. [ts \in {} |-> ts] \in [{} -> Value] /\ {} \in SUBSET Timestamp
  OBVIOUS
<1>4. versions \in [Key -> Versions]
  BY <1>2, <1>3 DEF Versions
<1>5. Types
  <2>1. \A k \in Key : DOMAIN versions[k] = {}
    BY <1>2
  <2>2. clock \in Timestamp /\ faults \in 0 .. MaxFaults /\ rollbacks \in 0 .. MaxRollbacks
    BY <1>1, BoundAssumption DEF Timestamp
  <2>3. txns \in [Txn -> [state : {"none", "active", "committed", "aborted"}, writes : Seq(Write)]]
    BY <1>1
  <2>4. log \in [Shard -> Seq(Entry)]
    BY <1>1
  <2> QED
    BY <1>1, <1>2, <1>4, <2>1, <2>2, <2>3, <2>4 DEF Types, TypeOK
<1>6. BufferedFirst
  BY <1>1 DEF BufferedFirst
<1>7. EntriesBacked
  BY <1>1 DEF EntriesBacked
<1>8. IntentsBacked /\ VersionsIssued
  BY <1>2 DEF IntentsBacked, VersionsIssued
<1> QED
  BY <1>5, <1>6, <1>7, <1>8 DEF CInv

(* Values are traced from the statement that buffered them to the version   *)
(* they become, under every interleaving and every fault the model allows.  *)
THEOREM Traced == Spec => []CInv
<1>1. Init => CInv
  BY CInvInit
<1>2. CInv /\ [Next]_vars => CInv'
  BY CInvStep
<1> QED
  BY <1>1, <1>2, PTL DEF Spec

(* The coordinator, the requests and the shards stay well typed.            *)
THEOREM TypeCorrect == Spec => []TypeOK
<1>1. CInv => TypeOK
  BY DEF CInv, Types
<1> QED
  BY <1>1, Traced, PTL

(* Every committed version on every shard stems from a commit decision and  *)
(* carries a value the deciding transaction buffered for that key, whatever *)
(* requests are lost, late or repeated, whoever rolls back or competes.     *)
THEOREM OnlyCommittedVisible == Spec => []CommittedOnly
<1>1. CInv => CommittedOnly
  BY DEF CInv, Types, TypeOK, VersionsIssued, CommittedOnly, Decided
<1> QED
  BY <1>1, Traced, PTL

-----------------------------------------------------------------------------
(* Routing and timestamps.                                                  *)

LEMMA RoutedStep ==
  ASSUME CInv, LogsRouted, [Next]_vars
  PROVE  LogsRouted'
<1>1. TypeOK /\ log \in [Shard -> Seq(Entry)]
  BY DEF CInv, Types, TypeOK
<1>2. ASSUME NEW e \in Entry, Propose(e) PROVE LogsRouted'
  <2> SUFFICES ASSUME NEW s \in Shard, NEW i \in DOMAIN log'[s], log'[s][i].type # "ONESHOT"
               PROVE  Locate(log'[s][i].key) = s
    BY DEF LogsRouted
  <2>1. CASE i \in DOMAIN log[s] /\ log'[s][i] = log[s][i]
    BY <2>1 DEF LogsRouted
  <2>2. CASE ~(i \in DOMAIN log[s] /\ log'[s][i] = log[s][i])
    <3>1. log'[s][i] = e /\ s = ShardOf(e)
      BY <1>1, <1>2, <2>2, ProposeLogs
    <3> QED
      BY <3>1, EntryFields
  <2> QED
    BY <2>1, <2>2
<1>3. ASSUME NEW s \in Shard, Apply(s) PROVE LogsRouted'
  <2>1. log[s] # <<>> /\ log' = [log EXCEPT ![s] = Tail(@)]
    BY <1>3 DEF Apply
  <2>2. \A r \in Shard : \A i \in DOMAIN log'[r] : \E j \in DOMAIN log[r] : log'[r][i] = log[r][j]
    BY <1>1, <2>1, TailLogs
  <2> QED
    BY <2>2 DEF LogsRouted
<1>4. CASE UNCHANGED log
  BY <1>4 DEF LogsRouted
<1>5. ASSUME NEW c \in Caller, CallStep(c) PROVE UNCHANGED log \/ \E e \in Entry : Propose(e)
  <2>1. ASSUME NEW out \in Outcome, SendPrepare(c, out) PROVE UNCHANGED log \/ \E e \in Entry : Propose(e)
    <3>1. call[c].txn \in Txn /\ call[c].todo \in Seq(Write) /\ call[c].todo # <<>>
      BY <1>1, <2>1, CallFields DEF SendPrepare
    <3>2. Head(call[c].todo) \in Write
      BY <3>1, SeqSteps
    <3>3. PrepareEntry(Head(call[c].todo), call[c].txn) \in Entry
      BY <3>1, <3>2 DEF PrepareEntry, Entry, Write
    <3> QED
      BY <2>1, <3>3 DEF SendPrepare, Request
  <2>2. ASSUME NEW out \in Outcome, SendOneShot(c, out) PROVE UNCHANGED log \/ \E e \in Entry : Propose(e)
    <3>1. call[c].txn \in Txn /\ call[c].writes \in Seq(Write) /\ call[c].ts \in Timestamp
      BY <1>1, <2>2, CallFields DEF SendOneShot
    <3>2. OneShotEntry(call[c].writes, call[c].txn, call[c].ts) \in Entry
      BY <3>1 DEF OneShotEntry, Entry
    <3> QED
      BY <2>2, <3>2 DEF SendOneShot, Request
  <2> QED
    BY <1>5, <2>1, <2>2 DEF CallStep, TakeTimestamp, Decide, MarkCommitted, AbortCall
<1>6. ASSUME NEW e \in BagToSet(net), Deliver(e) \/ Lose(e) \/ Repeat(e)
      PROVE  UNCHANGED log \/ \E x \in Entry : Propose(x)
  <2>1. e \in Entry
    BY <1>1, BagElements, Zenon DEF TypeOK
  <2> QED
    BY <1>6, <2>1 DEF Deliver, Lose, Repeat
<1>7. ASSUME NEW t \in Txn, Begin(t) \/ Rollback(t) \/ \E w \in Offers(t) : AddWrite(t, w)
      PROVE  UNCHANGED log
  BY <1>7 DEF Begin, Rollback, AddWrite
<1>8. ASSUME NEW c \in Caller, NEW t, NEW p, StartCommit(c, t, p) PROVE UNCHANGED log
  BY <1>8 DEF StartCommit
<1> QED
  BY <1>2, <1>3, <1>4, <1>5, <1>6, <1>7, <1>8 DEF Next, vars

LEMMA TimestampsStep ==
  ASSUME CInv, TimestampsUnique, [Next]_vars
  PROVE  TimestampsUnique'
<1>1. /\ call \in [Caller -> {Idle} \cup CallRecord] /\ Idle.pc = "idle"
      /\ clock \in Nat /\ TypeOK
      /\ \A d \in issued : d.ts \in Nat
      /\ \A c \in Caller : Deciding(c) => call[c].ts \in Nat
  <2>1. TypeOK /\ \A t \in Timestamp : t \in Nat
    BY BoundAssumption DEF CInv, Types, Timestamp
  <2>2. \A c \in Caller : Deciding(c) => call[c].ts \in Timestamp
    BY <2>1, CallFields DEF Deciding
  <2>3. clock \in Timestamp /\ \A d \in issued : d.ts \in Timestamp
    BY <2>1 DEF TypeOK
  <2>4. call \in [Caller -> {Idle} \cup CallRecord] /\ Idle.pc = "idle"
    BY <2>1 DEF TypeOK, CallRecord, Idle
  <2> QED
    BY <2>1, <2>2, <2>3, <2>4
<1>2. ASSUME issued' = issued, clock' = clock,
             \A c \in Caller : Deciding(c)' => Deciding(c) /\ call'[c].ts = call[c].ts
      PROVE  TimestampsUnique'
  BY <1>2 DEF TimestampsUnique, Deciding
<1>3. ASSUME NEW c \in Caller, Deciding(c), clock' = clock, ~Deciding(c)',
             \A b \in Caller \ {c} : call'[b] = call[b],
             issued' = issued \cup {[txn |-> call[c].txn, ts |-> call[c].ts, writes |-> call[c].writes]}
      PROVE  TimestampsUnique'
  <2> DEFINE new == [txn |-> call[c].txn, ts |-> call[c].ts, writes |-> call[c].writes]
  <2>1. new.ts = call[c].ts /\ new.ts <= clock /\ \A d \in issued : d.ts # new.ts
    BY <1>3 DEF TimestampsUnique
  <2>2. \A b \in Caller : Deciding(b)' => b # c /\ Deciding(b) /\ call'[b].ts = call[b].ts
    BY <1>3 DEF Deciding
  <2> HIDE DEF new
  <2>3. issued' = issued \cup {new}
    BY <1>3 DEF new
  <2>4. \A b \in Caller \ {c} : Deciding(b) => call[b].ts # new.ts
    BY <1>3, <2>1 DEF TimestampsUnique
  <2>5. (\A d \in issued' : d.ts <= clock) /\ (\A d1, d2 \in issued' : d1.ts = d2.ts => d1 = d2)
    BY <2>1, <2>3 DEF TimestampsUnique
  <2>6. \A b \in Caller : Deciding(b)' =>
          /\ call'[b].ts <= clock
          /\ \A d \in issued' : d.ts # call'[b].ts
          /\ \A c2 \in Caller \ {b} : Deciding(c2)' => call'[c2].ts # call'[b].ts
    BY <2>2, <2>3, <2>4 DEF TimestampsUnique
  <2> QED
    BY <1>3, <2>5, <2>6 DEF TimestampsUnique, Deciding
<1>4. ASSUME NEW c \in Caller, TakeTimestamp(c) PROVE TimestampsUnique'
  <2>1. call[c].pc # "idle" /\ clock' = clock + 1 /\ issued' = issued
    BY <1>4 DEF TakeTimestamp, history
  <2>2. call[c] \in CallRecord
    BY <1>1, <2>1, CallFields
  <2>3. call'[c].ts = clock + 1 /\ \A b \in Caller \ {c} : call'[b] = call[b]
    BY <1>1, <1>4, <2>2 DEF TakeTimestamp, CallRecord
  <2>4. \A d \in issued : d.ts < clock + 1
    BY <1>1 DEF TimestampsUnique
  <2>5. \A b \in Caller \ {c} : Deciding(b)' => Deciding(b) /\ call[b].ts <= clock /\ call[b].ts \in Nat
    BY <1>1, <2>3 DEF Deciding, TimestampsUnique
  <2>6. \A b \in Caller : Deciding(b)' =>
          /\ call'[b].ts <= clock + 1
          /\ \A d \in issued : d.ts # call'[b].ts
          /\ \A c2 \in Caller \ {b} : Deciding(c2)' => call'[c2].ts # call'[b].ts
    BY <1>1, <2>3, <2>4, <2>5 DEF TimestampsUnique
  <2> QED
    BY <1>1, <2>1, <2>4, <2>6 DEF TimestampsUnique, Deciding
<1>5. ASSUME NEW c \in Caller, Decide(c) PROVE TimestampsUnique'
  <2>1. call'[c] = Idle /\ \A b \in Caller \ {c} : call'[b] = call[b]
    BY <1>1, <1>5 DEF Decide
  <2> QED
    BY <1>1, <1>3, <1>5, <2>1 DEF Decide, Deciding
<1>6. ASSUME NEW c \in Caller, NEW out \in Outcome, SendOneShot(c, out) PROVE TimestampsUnique'
  <2>1. call[c] \in CallRecord
    BY <1>1, <1>6, CallFields DEF SendOneShot
  <2>2. call'[c].pc \in {"mark", "abort"} /\ \A b \in Caller \ {c} : call'[b] = call[b]
    BY <1>1, <1>6, <2>1 DEF SendOneShot, CallRecord
  <2> QED
    BY <1>1, <1>3, <1>6, <2>2 DEF SendOneShot, Deciding
<1>7. ASSUME NEW c \in Caller, NEW out \in Outcome, SendPrepare(c, out) PROVE TimestampsUnique'
  <2>1. call[c] \in CallRecord
    BY <1>1, <1>7, CallFields DEF SendPrepare
  <2>2. call'[c].pc \in {"prepare", "abort"} /\ \A b \in Caller \ {c} : call'[b] = call[b]
    BY <1>1, <1>7, <2>1 DEF SendPrepare, CallRecord
  <2> QED
    BY <1>2, <1>7, <2>2 DEF SendPrepare, Deciding
<1>8. ASSUME NEW c \in Caller, MarkCommitted(c) \/ AbortCall(c) PROVE TimestampsUnique'
  <2>1. call'[c] = Idle /\ \A b \in Caller \ {c} : call'[b] = call[b]
    BY <1>1, <1>8 DEF MarkCommitted, AbortCall
  <2> QED
    BY <1>1, <1>2, <1>8, <2>1 DEF MarkCommitted, AbortCall, Deciding, history
<1>9. ASSUME NEW c \in Caller, NEW t, NEW p, StartCommit(c, t, p) PROVE TimestampsUnique'
  <2>1. call'[c].pc \in {"oneshot", "prepare"} /\ \A b \in Caller \ {c} : call'[b] = call[b]
    BY <1>1, <1>9 DEF StartCommit
  <2> QED
    BY <1>2, <1>9, <2>1 DEF StartCommit, Deciding
<1>10. CASE UNCHANGED <<issued, clock, call>>
  BY <1>2, <1>10 DEF Deciding
<1>11. ASSUME NEW c \in Caller, CallStep(c) PROVE TimestampsUnique'
  BY <1>4, <1>5, <1>6, <1>7, <1>8, <1>11 DEF CallStep
<1> QED
  BY <1>9, <1>10, <1>11 DEF Next, vars, history, Begin, Rollback, AddWrite, Deliver, Lose, Repeat, Fault,
                            Apply

-----------------------------------------------------------------------------
(* What the steps do to one key of one transaction.                         *)

LEMMA ProposeKeeps ==
  ASSUME TypeOK, NEW e \in Entry, Propose(e), UNCHANGED intents, NEW t, NEW k \in Key, ~IsPrepare(e, t, k)
  PROVE  /\ NoPrepare(t, k) => NoPrepare(t, k)'
         /\ \A v : Holding(t, k, v) => Holding(t, k, v)'
         /\ Released(t, k) => Released(t, k)'
<1> DEFINE s == Locate(k)
<1>1. s \in Shard
  BY LocateAssumption
<1>2. /\ \A i \in DOMAIN log[s] : i \in DOMAIN log'[s] /\ log'[s][i] = log[s][i]
      /\ \A i \in DOMAIN log'[s] : log'[s][i] = e \/ (i \in DOMAIN log[s] /\ log'[s][i] = log[s][i])
  BY <1>1, ProposeLogs
<1>3. NoPrepare(t, k) => NoPrepare(t, k)'
  BY <1>2 DEF NoPrepare, IsPrepare
<1>4. \A v : LastPrepare(t, k, v) => LastPrepare(t, k, v)'
  BY <1>2 DEF LastPrepare, IsPrepare
<1> QED
  BY <1>3, <1>4 DEF Holding, Released, Engine!HoldsIntent

(* A new prepare is the last one.                                           *)
LEMMA ProposePrepares ==
  ASSUME TypeOK, NEW e \in Entry, Propose(e), NEW t, NEW k \in Key, IsPrepare(e, t, k)
  PROVE  Holding(t, k, e.value)'
<1> DEFINE s == Locate(k)
           n == Len(log[s]) + 1
<1>1. s \in Shard /\ s = ShardOf(e)
  BY LocateAssumption DEF IsPrepare, ShardOf
<1>2. DOMAIN log'[s] = 1 .. n /\ log'[s][n] = e /\ Len(log[s]) \in Nat
  BY <1>1, ProposeLogs
<1>3. n \in DOMAIN log'[s] /\ \A j \in DOMAIN log'[s] : ~(j > n)
  BY <1>2
<1> HIDE DEF n
<1> QED
  BY <1>2, <1>3 DEF Holding, LastPrepare, IsPrepare

(* Taking the first entry off a log.                                        *)
LEMMA TailKeeps ==
  ASSUME TypeOK, NEW s \in Shard, log[s] # <<>>, log' = [log EXCEPT ![s] = Tail(@)],
         NEW t, NEW k \in Key, NEW v
  PROVE  /\ NoPrepare(t, k) => NoPrepare(t, k)'
         /\ LastPrepare(t, k, v) =>
              \/ LastPrepare(t, k, v)'
              \/ /\ s = Locate(k) /\ IsPrepare(Head(log[s]), t, k) /\ Head(log[s]).value = v
                 /\ NoPrepare(t, k)'
<1> DEFINE r == Locate(k)
<1>1. r \in Shard
  BY LocateAssumption
<1>2. CASE r # s
  <2>1. log'[r] = log[r]
    BY <1>1, <1>2, TailLogs
  <2>2. NoPrepare(t, k) => NoPrepare(t, k)'
    BY <2>1 DEF NoPrepare, IsPrepare
  <2>3. ASSUME LastPrepare(t, k, v) PROVE LastPrepare(t, k, v)'
    <3>1. PICK i \in DOMAIN log[r] :
                 /\ IsPrepare(log[r][i], t, k) /\ log[r][i].value = v
                 /\ \A j \in DOMAIN log[r] : j > i => ~IsPrepare(log[r][j], t, k)
      BY <2>3 DEF LastPrepare
    <3>2. /\ i \in DOMAIN log'[r] /\ IsPrepare(log'[r][i], t, k) /\ log'[r][i].value = v
          /\ \A j \in DOMAIN log'[r] : j > i => ~IsPrepare(log'[r][j], t, k)
      BY <2>1, <3>1
    <3> QED
      BY <3>2 DEF LastPrepare, IsPrepare
  <2> QED
    BY <2>2, <2>3
<1>3. CASE r = s
  <2>1. /\ Head(log[s]) = log[s][1]
        /\ DOMAIN log'[r] = 1 .. Len(log[r]) - 1
        /\ \A i \in DOMAIN log'[r] : i + 1 \in DOMAIN log[r] /\ log'[r][i] = log[r][i + 1]
        /\ Len(log[r]) \in Nat /\ DOMAIN log[r] = 1 .. Len(log[r])
    BY <1>1, <1>3, TailLogs
  <2>2. NoPrepare(t, k) => NoPrepare(t, k)'
    BY <2>1 DEF NoPrepare, IsPrepare
  <2>3. ASSUME LastPrepare(t, k, v)
        PROVE  \/ LastPrepare(t, k, v)'
               \/ /\ s = Locate(k) /\ IsPrepare(Head(log[s]), t, k) /\ Head(log[s]).value = v
                  /\ NoPrepare(t, k)'
    <3>1. PICK i \in DOMAIN log[r] :
                 /\ IsPrepare(log[r][i], t, k) /\ log[r][i].value = v
                 /\ \A j \in DOMAIN log[r] : j > i => ~IsPrepare(log[r][j], t, k)
      BY <2>3 DEF LastPrepare
    <3>2. i \in Nat /\ \A j \in DOMAIN log'[r] : j \in Nat
      BY <2>1
    <3>3. CASE i = 1
      <4>1. \A j \in DOMAIN log'[r] : ~IsPrepare(log'[r][j], t, k)
        BY <2>1, <3>1, <3>2, <3>3
      <4>2. NoPrepare(t, k)'
        BY <4>1 DEF NoPrepare, IsPrepare
      <4> QED
        BY <1>3, <2>1, <3>1, <3>3, <4>2
    <3>4. CASE i # 1
      <4>1. i - 1 \in DOMAIN log'[r] /\ log'[r][i - 1] = log[r][i]
        BY <2>1, <3>2, <3>4
      <4>2. \A j \in DOMAIN log'[r] : j > i - 1 => ~IsPrepare(log'[r][j], t, k)
        BY <2>1, <3>1, <3>2
      <4>3. \E m \in DOMAIN log'[r] :
               /\ IsPrepare(log'[r][m], t, k) /\ log'[r][m].value = v
               /\ \A j \in DOMAIN log'[r] : j > m => ~IsPrepare(log'[r][j], t, k)
        BY <3>1, <4>1, <4>2
      <4> QED
        BY <4>3 DEF LastPrepare, IsPrepare
    <3> QED
      BY <3>3, <3>4
  <2> QED
    BY <2>2, <2>3
<1> QED
  BY <1>2, <1>3

(* What applying entry e does to key k.                                     *)
PreparedBy(e, k) ==
  /\ e.type = "PREPARE" /\ e.key = k /\ ~Engine!LockedByOther(k, e.txn)
  /\ intents'[k] = [txn |-> e.txn, value |-> e.value] /\ versions'[k] = versions[k]

CommittedBy(e, k) ==
  /\ e.type = "COMMIT" /\ e.key = k /\ Engine!HoldsIntent(k, e.txn)
  /\ intents'[k] = NoLock
  /\ versions'[k] = Engine!WithVersion(versions[k], e.ts, intents[k].value)

AbortedBy(e, k) ==
  /\ e.type = "ABORT" /\ e.key = k /\ Engine!HoldsIntent(k, e.txn)
  /\ intents'[k] = NoLock /\ versions'[k] = versions[k]

WrittenBy(e, k) ==
  /\ e.type = "ONESHOT" /\ k \in KeysOf(e.ops) /\ ~Engine!LockedByOther(k, e.txn)
  /\ intents'[k] = NoLock
  /\ versions'[k] = Engine!WithVersion(versions[k], e.ts, LastWrites(e.ops)[k])

LEMMA ApplyOnKey ==
  ASSUME Types, NEW e \in Entry, NEW k \in Key,
         ApplyPrepare(e) \/ ApplyCommit(e) \/ ApplyAbort(e) \/ ApplyOneShot(e)
  PROVE  /\ disturbed \subseteq disturbed'
         /\ \/ intents'[k] = intents[k] /\ versions'[k] = versions[k]
            \/ PreparedBy(e, k) \/ CommittedBy(e, k) \/ AbortedBy(e, k) \/ WrittenBy(e, k)
         /\ e.txn \notin disturbed' /\ e.type = "PREPARE" /\ e.key = k => PreparedBy(e, k)
         /\ e.type = "COMMIT" /\ e.key = k /\ Engine!HoldsIntent(k, e.txn) => CommittedBy(e, k)
         /\ e.txn \notin disturbed' /\ e.type = "ONESHOT" /\ k \in KeysOf(e.ops) => WrittenBy(e, k)
<1>1. /\ versions \in [Key -> Versions] /\ intents \in [Key -> Engine!Intent \cup {NoLock}]
  BY DEF Types, TypeOK
<1>2. disturbed \subseteq disturbed'
  BY DEF ApplyPrepare, ApplyCommit, ApplyAbort, ApplyOneShot
<1>3. CASE e.type = "PREPARE"
  BY <1>1, <1>2, <1>3, EntryFields DEF ApplyPrepare, ApplyCommit, ApplyAbort, ApplyOneShot, store, PreparedBy,
       Engine!Prepare
<1>4. CASE e.type = "COMMIT"
  BY <1>1, <1>2, <1>4, EntryFields DEF ApplyPrepare, ApplyCommit, ApplyAbort, ApplyOneShot, store, CommittedBy,
       Engine!Commit
<1>5. CASE e.type = "ABORT"
  BY <1>1, <1>2, <1>5, EntryFields DEF ApplyPrepare, ApplyCommit, ApplyAbort, ApplyOneShot, store, AbortedBy,
       Engine!Abort
<1>6. CASE e.type = "ONESHOT"
  <2>1. DOMAIN LastWrites(e.ops) = KeysOf(e.ops)
    BY DEF LastWrites, KeysOf
  <2>2. ApplyOneShot(e)
    BY <1>6 DEF ApplyPrepare, ApplyCommit, ApplyAbort
  <2>3. CASE Engine!OnePhaseCommit(LastWrites(e.ops), e.txn, e.ts)
    BY <1>2, <1>6, <2>1, <2>3 DEF WrittenBy, Engine!OnePhaseCommit
  <2>4. CASE disturbed' = disturbed \cup {e.txn} /\ UNCHANGED store
    BY <1>2, <1>6, <2>4 DEF store
  <2> QED
    BY <2>2, <2>3, <2>4 DEF ApplyOneShot
<1> QED
  BY <1>3, <1>4, <1>5, <1>6, EntryFields

-----------------------------------------------------------------------------
(* Steps that are not a caller's work on t keep how far t has come.         *)

Kept(t) ==
  /\ Orderly(t)'
  /\ Quiet(t) => Quiet(t)'
  /\ Preparing(t) =>
       Preparing(t)' /\ \A k \in Key, v \in Value : Holding(t, k, v) => Holding(t, k, v)'
  /\ \A d \in issued : d.txn = t => \A k \in KeysOf(d.writes) : KeyDecided(d, k)'
  /\ \A d \in issued' : d.txn = t => d \in issued

(* A decision is about keys.                                                *)
LEMMA DecisionKeys ==
  ASSUME Types, NEW d \in issued, NEW k \in KeysOf(d.writes)
  PROVE  k \in Key /\ LastWrites(d.writes)[k] \in Value
<1>1. d.writes \in Seq(Write)
  BY DEF Types, TypeOK
<1>2. PICK i \in DOMAIN d.writes : d.writes[i].key = k /\ LastWrites(d.writes)[k] = d.writes[i].value
  BY <1>1, LastWriteOf
<1>3. d.writes[i] \in Write
  BY <1>1, SeqSteps
<1> QED
  BY <1>2, <1>3 DEF Write

(* Steps of callers on other transactions, and requests of others.          *)
LEMMA FrameElsewhere ==
  ASSUME Types, Types', NEW t \in Txn, Undisturbed(t), UNCHANGED store,
         UNCHANGED log \/ \E e \in Entry : e.txn # t /\ Propose(e),
         \A x \in Entry : x.txn = t => (x \in DOMAIN net' <=> x \in DOMAIN net),
         \A d \in issued' : d.txn = t => d \in issued
  PROVE  Kept(t)
<1>1. TypeOK /\ DOMAIN net \subseteq Entry /\ DOMAIN net' \subseteq Entry
      /\ intents' = intents /\ versions' = versions
      /\ \A s \in Shard : \A i \in DOMAIN log[s] : log[s][i] \in Entry
  BY DEF Types, TypeOK, store
<1>2. \A s \in Shard : /\ \A i \in DOMAIN log[s] : i \in DOMAIN log'[s] /\ log'[s][i] = log[s][i]
                       /\ \A i \in DOMAIN log'[s] : log'[s][i].txn = t =>
                            i \in DOMAIN log[s] /\ log'[s][i] = log[s][i]
  <2>1. CASE UNCHANGED log
    BY <2>1
  <2>2. CASE \E e \in Entry : e.txn # t /\ Propose(e)
    BY <1>1, <2>2, ProposeLogs
  <2> QED
    BY <2>1, <2>2
<1>3. ASSUME NEW k \in Key
      PROVE  /\ \A v : Holding(t, k, v) => Holding(t, k, v)'
             /\ Released(t, k) => Released(t, k)'
  <2>1. CASE UNCHANGED log
    BY <1>1, <2>1 DEF Holding, Released, NoPrepare, LastPrepare, IsPrepare, Engine!HoldsIntent
  <2>2. CASE \E e \in Entry : e.txn # t /\ Propose(e)
    <3>1. PICK e \in Entry : e.txn # t /\ Propose(e)
      BY <2>2
    <3>2. ~IsPrepare(e, t, k)
      BY <3>1 DEF IsPrepare
    <3> QED
      BY <1>1, <3>1, <3>2, ProposeKeeps
  <2> QED
    BY <2>1, <2>2
<1>4. Orderly(t)'
  BY <1>1, <1>2 DEF Undisturbed, Orderly
<1>5. Undecided(t) => Undecided(t)'
  BY DEF Undecided
<1>6. Quiet(t) => Quiet(t)'
  BY <1>1, <1>2, <1>5 DEF Quiet, Engine!HoldsIntent
<1>7. Preparing(t) => Preparing(t)'
  BY <1>1, <1>2, <1>5 DEF Preparing
<1>8. \A x \in Entry : x.txn = t /\ Underway(x) => Underway(x)'
  BY <1>2 DEF Underway
<1>9. ASSUME NEW d \in issued, d.txn = t, NEW k \in KeysOf(d.writes) PROVE KeyDecided(d, k)'
  <2>1. KeyDecided(d, k) /\ k \in Key /\ d.ts \in Timestamp /\ d.writes \in Seq(Write)
    BY <1>9, DecisionKeys DEF Undisturbed, Types, TypeOK
  <2>2. VisibleOn(d, k) => VisibleOn(d, k)'
    BY <1>1 DEF VisibleOn
  <2>3. /\ [type |-> "COMMIT", key |-> k, txn |-> t, ts |-> d.ts] \in Entry
        /\ OneShotEntry(d.writes, t, d.ts) \in Entry /\ OneShotEntry(d.writes, t, d.ts).txn = t
    BY <2>1 DEF Entry, OneShotEntry
  <2>4. /\ Underway([type |-> "COMMIT", key |-> k, txn |-> t, ts |-> d.ts]) =>
             Underway([type |-> "COMMIT", key |-> k, txn |-> t, ts |-> d.ts])'
        /\ Underway(OneShotEntry(d.writes, t, d.ts)) => Underway(OneShotEntry(d.writes, t, d.ts))'
    BY <1>8, <2>3
  <2> QED
    BY <1>3, <1>9, <2>1, <2>2, <2>4 DEF KeyDecided
<1> QED
  BY <1>3, <1>4, <1>6, <1>7, <1>9 DEF Kept

(* A commit of t arrives.                                                   *)
LEMMA FrameDeliver ==
  ASSUME Types, NEW t \in Txn, Undisturbed(t), NEW e \in BagToSet(net), e.txn = t, Deliver(e)
  PROVE  Kept(t)
<1>1. TypeOK /\ e \in DOMAIN net /\ e \in Entry /\ Propose(e) /\ intents' = intents /\ versions' = versions
      /\ issued' = issued
  <2>1. e \in DOMAIN net
    BY BagElements, Zenon
  <2> QED
    BY <2>1 DEF Types, TypeOK, Deliver, store, history
<1>2. e.type = "COMMIT"
  BY <1>1 DEF Undisturbed, Orderly
<1>3. DOMAIN net' \subseteq DOMAIN net /\ DOMAIN net \subseteq DOMAIN net' \cup {e}
  <2>1. /\ DOMAIN BagRemove(net, e) \subseteq DOMAIN net
        /\ DOMAIN net \subseteq DOMAIN BagRemove(net, e) \cup {e}
    BY BagRemoveDomain, Zenon
  <2> QED
    BY <2>1 DEF Deliver
<1>4. ShardOf(e) \in Shard /\ ShardOf(e) = Locate(e.key)
  BY <1>1, <1>2, EntryFields, LocateAssumption
<1>5. ASSUME NEW s \in Shard
      PROVE  /\ s # ShardOf(e) => log'[s] = log[s]
             /\ s = ShardOf(e) => DOMAIN log'[s] = 1 .. Len(log[s]) + 1 /\ log'[s][Len(log[s]) + 1] = e
             /\ Len(log[s]) \in Nat /\ DOMAIN log[s] = 1 .. Len(log[s])
             /\ \A i \in DOMAIN log[s] : i \in DOMAIN log'[s] /\ log'[s][i] = log[s][i]
             /\ \A i \in DOMAIN log'[s] : log'[s][i] = e \/ (i \in DOMAIN log[s] /\ log'[s][i] = log[s][i])
  BY <1>1, ProposeLogs
<1>6. Orderly(t)'
  <2>1. \A x \in DOMAIN net' : x.txn = t => x.type = "COMMIT"
    BY <1>3 DEF Undisturbed, Orderly
  <2>2. \A s \in Shard : \A i \in DOMAIN log'[s] : log'[s][i].txn = t => log'[s][i].type # "ABORT"
    BY <1>2, <1>5 DEF Undisturbed, Orderly
  <2>3. ASSUME NEW s \in Shard, NEW i \in DOMAIN log'[s], NEW j \in DOMAIN log'[s],
               log'[s][i].txn = t, log'[s][i].type = "PREPARE",
               log'[s][j].txn = t, log'[s][j].type = "COMMIT"
        PROVE  i < j
    <3>1. i \in DOMAIN log[s] /\ log'[s][i] = log[s][i]
      BY <1>2, <1>5, <2>3
    <3>2. CASE j \in DOMAIN log[s]
      <4>1. log'[s][j] = log[s][j]
        BY <1>5, <3>2
      <4> QED
        BY <2>3, <3>1, <3>2, <4>1 DEF Undisturbed, Orderly
    <3>3. CASE j \notin DOMAIN log[s]
      <4>1. s = ShardOf(e)
        BY <1>5, <3>3
      <4>2. j \in 1 .. Len(log[s]) + 1 /\ j \notin 1 .. Len(log[s]) /\ i \in 1 .. Len(log[s])
            /\ Len(log[s]) \in Nat
        BY <1>5, <3>1, <3>3, <4>1
      <4> QED
        BY <4>2
    <3> QED
      BY <3>2, <3>3
  <2> QED
    BY <2>1, <2>2, <2>3 DEF Orderly
<1>7. ~Quiet(t) /\ ~Preparing(t)
  BY <1>1 DEF Quiet, Preparing
<1>8. \A x : Underway(x) => Underway(x)'
  <2>1. \A x \in DOMAIN net : x \in DOMAIN net' \/ x = e
    BY <1>3
  <2>2. \E i \in DOMAIN log'[ShardOf(e)] : log'[ShardOf(e)][i] = e
    BY <1>4, <1>5
  <2> QED
    BY <1>4, <1>5, <2>1, <2>2 DEF Underway
<1>9. ASSUME NEW d \in issued, d.txn = t, NEW k \in KeysOf(d.writes) PROVE KeyDecided(d, k)'
  <2>1. KeyDecided(d, k) /\ k \in Key
    BY <1>9, DecisionKeys DEF Undisturbed
  <2>2. VisibleOn(d, k) => VisibleOn(d, k)'
    BY <1>1 DEF VisibleOn
  <2>3. ~IsPrepare(e, t, k)
    BY <1>2 DEF IsPrepare
  <2>4. /\ \A v : Holding(t, k, v) => Holding(t, k, v)'
        /\ Released(t, k) => Released(t, k)'
    BY <1>1, <2>1, <2>3, ProposeKeeps
  <2> QED
    BY <1>8, <1>9, <2>1, <2>2, <2>4 DEF KeyDecided
<1> QED
  BY <1>1, <1>6, <1>7, <1>9 DEF Kept

(* A shard applies an entry.                                                *)
LEMMA FrameApply ==
  ASSUME CInv, LogsRouted, TimestampsUnique, NEW t \in Txn, Undisturbed(t), t \notin disturbed',
         NEW s \in Shard, Apply(s)
  PROVE  Kept(t)
<1> DEFINE e == Head(log[s])
<1>1. /\ Types /\ TypeOK /\ log[s] # <<>> /\ log' = [log EXCEPT ![s] = Tail(@)]
      /\ net' = net /\ issued' = issued
      /\ ApplyPrepare(e) \/ ApplyCommit(e) \/ ApplyAbort(e) \/ ApplyOneShot(e)
      /\ intents \in [Key -> Engine!Intent \cup {NoLock}]
  BY DEF CInv, Types, TypeOK, Apply
<1>2. ASSUME NEW r \in Shard
      PROVE  /\ r # s => log'[r] = log[r]
             /\ r = s => /\ e = log[s][1] /\ e \in Entry
                         /\ DOMAIN log'[r] = 1 .. Len(log[r]) - 1
                         /\ \A i \in DOMAIN log'[r] : i + 1 \in DOMAIN log[r] /\ log'[r][i] = log[r][i + 1]
             /\ Len(log[r]) \in Nat /\ DOMAIN log[r] = 1 .. Len(log[r])
             /\ \A i \in DOMAIN log'[r] : \E j \in DOMAIN log[r] : log'[r][i] = log[r][j]
  BY <1>1, TailLogs
<1>3. e = log[s][1] /\ 1 \in DOMAIN log[s] /\ e \in Entry
  <2>1. log[s] \in Seq(Entry)
    BY <1>1 DEF TypeOK
  <2> QED
    BY <1>1, <2>1, SeqSteps
<1> HIDE DEF e
<1>4. Backed(e) /\ (e.type # "ONESHOT" => Locate(e.key) = s)
  BY <1>3 DEF CInv, EntriesBacked, LogsRouted
<1>5. ASSUME NEW k \in Key
      PROVE  /\ \/ intents'[k] = intents[k] /\ versions'[k] = versions[k]
                \/ PreparedBy(e, k) \/ CommittedBy(e, k) \/ AbortedBy(e, k) \/ WrittenBy(e, k)
             /\ e.txn = t /\ e.type = "PREPARE" /\ e.key = k => PreparedBy(e, k)
             /\ e.type = "COMMIT" /\ e.key = k /\ Engine!HoldsIntent(k, e.txn) => CommittedBy(e, k)
             /\ e.txn = t /\ e.type = "ONESHOT" /\ k \in KeysOf(e.ops) => WrittenBy(e, k)
  BY <1>1, <1>3, ApplyOnKey
<1>6. Orderly(t)'
  <2>1. ASSUME NEW r \in Shard, NEW i \in DOMAIN log'[r], NEW j \in DOMAIN log'[r],
               log'[r][i].txn = t, log'[r][i].type = "PREPARE",
               log'[r][j].txn = t, log'[r][j].type = "COMMIT"
        PROVE  i < j
    <3>1. CASE r # s
      BY <1>2, <2>1, <3>1 DEF Undisturbed, Orderly
    <3>2. CASE r = s
      <4>1. /\ i + 1 \in DOMAIN log[r] /\ log'[r][i] = log[r][i + 1]
            /\ j + 1 \in DOMAIN log[r] /\ log'[r][j] = log[r][j + 1]
            /\ i \in 1 .. Len(log[r]) - 1 /\ j \in 1 .. Len(log[r]) - 1 /\ Len(log[r]) \in Nat
        BY <1>2, <3>2
      <4>2. i + 1 < j + 1
        BY <2>1, <4>1 DEF Undisturbed, Orderly
      <4> QED
        BY <4>1, <4>2
    <3> QED
      BY <3>1, <3>2
  <2>2. \A r \in Shard : \A i \in DOMAIN log'[r] : log'[r][i].txn = t => log'[r][i].type # "ABORT"
    BY <1>2 DEF Undisturbed, Orderly
  <2> QED
    BY <1>1, <2>1, <2>2 DEF Undisturbed, Orderly
<1>7. ASSUME Quiet(t) PROVE Quiet(t)'
  <2>1. e.txn # t
    BY <1>3, <1>7 DEF Quiet
  <2>2. \A k \in Key : ~(intents'[k] # NoLock /\ intents'[k].txn = t)
    <3> SUFFICES ASSUME NEW k \in Key PROVE ~(intents'[k] # NoLock /\ intents'[k].txn = t)
      OBVIOUS
    <3>1. ~Engine!HoldsIntent(k, t)
      BY <1>7 DEF Quiet
    <3> QED
      BY <1>5, <2>1, <3>1 DEF PreparedBy, CommittedBy, AbortedBy, WrittenBy, Engine!HoldsIntent
  <2>3. \A r \in Shard : \A i \in DOMAIN log'[r] : log'[r][i].txn # t
    BY <1>2, <1>7 DEF Quiet
  <2> QED
    BY <1>1, <1>7, <2>2, <2>3 DEF Quiet, Undecided, Engine!HoldsIntent
<1>8. ASSUME NEW k \in Key, Released(t, k) PROVE Released(t, k)'
  <2>1. NoPrepare(t, k)'
    BY <1>1, <1>8, TailKeeps DEF Released
  <2>2. ~(PreparedBy(e, k) /\ e.txn = t)
    BY <1>3, <1>4, <1>8 DEF PreparedBy, Released, NoPrepare, IsPrepare
  <2>3. ~(intents'[k] # NoLock /\ intents'[k].txn = t)
    BY <1>5, <1>8, <2>2 DEF PreparedBy, CommittedBy, AbortedBy, WrittenBy, Released, Engine!HoldsIntent
  <2> QED
    BY <2>1, <2>3 DEF Released, Engine!HoldsIntent
<1>9. ASSUME NEW k \in Key, NEW v \in Value, Holding(t, k, v),
             e.txn = t => (e.type = "PREPARE" \/ (e.type = "COMMIT" /\ e.key # k))
      PROVE  Holding(t, k, v)'
  <2>1. CASE LastPrepare(t, k, v)
    <3>1. CASE LastPrepare(t, k, v)'
      BY <3>1 DEF Holding
    <3>2. CASE /\ s = Locate(k) /\ IsPrepare(e, t, k) /\ e.value = v
               /\ NoPrepare(t, k)'
      <4>1. PreparedBy(e, k)
        BY <1>5, <3>2 DEF IsPrepare
      <4> QED
        BY <3>2, <4>1 DEF PreparedBy, IsPrepare, Holding
    <3> QED
      BY <1>1, <2>1, <3>1, <3>2, TailKeeps DEF e
  <2>2. CASE NoPrepare(t, k) /\ intents[k] = [txn |-> t, value |-> v]
    <3>1. NoPrepare(t, k)'
      BY <1>1, <2>2, TailKeeps
    <3>2. intents[k] # NoLock /\ intents[k].txn = t
      BY <2>2, NoLockAssumption
    <3>3. ~PreparedBy(e, k)
      BY <1>3, <1>4, <2>2, <3>2 DEF PreparedBy, NoPrepare, IsPrepare, Engine!LockedByOther
    <3>4. ~CommittedBy(e, k) /\ ~AbortedBy(e, k) /\ ~WrittenBy(e, k)
      BY <1>9, <3>2 DEF CommittedBy, AbortedBy, WrittenBy, Engine!HoldsIntent, Engine!LockedByOther
    <3> QED
      BY <1>5, <2>2, <3>1, <3>3, <3>4 DEF Holding
  <2> QED
    BY <1>9, <2>1, <2>2 DEF Holding
<1>10. ASSUME Preparing(t)
       PROVE  Preparing(t)' /\ \A k \in Key, v \in Value : Holding(t, k, v) => Holding(t, k, v)'
  <2>1. e.txn = t => e.type = "PREPARE"
    BY <1>3, <1>10 DEF Preparing
  <2>2. Preparing(t)'
    BY <1>1, <1>2, <1>10 DEF Preparing, Undecided
  <2> QED
    BY <1>9, <2>1, <2>2
<1>11. ASSUME NEW x, Underway(x), x # e PROVE Underway(x)'
  <2>1. CASE x \in DOMAIN net
    BY <1>1, <2>1 DEF Underway
  <2>2. ASSUME NEW r \in Shard, NEW i \in DOMAIN log[r], log[r][i] = x PROVE Underway(x)'
    <3>1. CASE r # s
      BY <1>2, <2>2, <3>1 DEF Underway
    <3>2. CASE r = s
      <4>1. i # 1 /\ i \in 1 .. Len(log[r]) /\ Len(log[r]) \in Nat
        BY <1>2, <1>3, <1>11, <2>2, <3>2
      <4>2. i - 1 \in 1 .. Len(log[r]) - 1 /\ (i - 1) + 1 = i
        BY <4>1
      <4>3. i - 1 \in DOMAIN log'[r] /\ log'[r][i - 1] = x
        BY <1>2, <2>2, <3>2, <4>2
      <4> QED
        BY <4>3 DEF Underway
    <3> QED
      BY <3>1, <3>2
  <2> QED
    BY <1>11, <2>1, <2>2 DEF Underway
<1>12. ASSUME NEW d \in issued, d.txn = t, NEW k \in KeysOf(d.writes) PROVE KeyDecided(d, k)'
  <2> DEFINE v == LastWrites(d.writes)[k]
             C == [type |-> "COMMIT", key |-> k, txn |-> t, ts |-> d.ts]
             O == OneShotEntry(d.writes, t, d.ts)
  <2>1. KeyDecided(d, k) /\ k \in Key /\ v \in Value
    BY <1>1, <1>12, DecisionKeys DEF Undisturbed
  <2>2. \A f \in issued : (f.txn = t \/ f.ts = d.ts) => f = d
    BY <1>12 DEF Undisturbed, DecidedOnce, TimestampsUnique
  <2> HIDE DEF v
  <2>3. ASSUME e.type = "ONESHOT", e.txn = t \/ e.ts = d.ts PROVE e = O
    <3>1. [txn |-> e.txn, ts |-> e.ts, writes |-> e.ops] = d
      BY <1>4, <2>2, <2>3 DEF Backed
    <3>2. e.txn = t /\ e.ts = d.ts /\ e.ops = d.writes
      BY <1>12, <3>1
    <3>3. e \in [type : {"ONESHOT"}, ops : Seq(Write), txn : Txn, ts : Timestamp]
      BY <1>3, <2>3 DEF Entry
    <3> QED
      BY <3>2, <3>3 DEF OneShotEntry
  <2>4. ASSUME e.type = "COMMIT", e.txn = t \/ e.ts = d.ts PROVE e.txn = t /\ e.ts = d.ts
    BY <1>4, <1>12, <2>2, <2>4 DEF Backed
  <2>5. O.txn = t /\ O.type = "ONESHOT" /\ O.ops = d.writes /\ O.ts = d.ts
    BY DEF OneShotEntry
  <2>6. ASSUME WrittenBy(e, k), e = O PROVE VisibleOn(d, k)'
    BY <2>5, <2>6 DEF WrittenBy, VisibleOn, Engine!WithVersion
  <2>7. CASE VisibleOn(d, k) /\ Released(t, k)
    <3>1. Released(t, k)'
      BY <1>8, <2>1, <2>7
    <3>2. VisibleOn(d, k)'
      <4>1. CASE versions'[k] = versions[k]
        BY <2>7, <4>1 DEF VisibleOn
      <4>2. CASE CommittedBy(e, k)
        <5>1. e.txn # t
          BY <2>7, <4>2 DEF CommittedBy, Released
        <5>2. e.ts # d.ts
          BY <2>4, <4>2, <5>1 DEF CommittedBy
        <5> QED
          BY <2>7, <4>2, <5>2 DEF CommittedBy, VisibleOn, Engine!WithVersion
      <4>3. CASE WrittenBy(e, k)
        <5>1. CASE e.ts = d.ts
          BY <2>3, <2>6, <4>3, <5>1 DEF WrittenBy
        <5>2. CASE e.ts # d.ts
          BY <2>7, <4>3, <5>2 DEF WrittenBy, VisibleOn, Engine!WithVersion
        <5> QED
          BY <5>1, <5>2
      <4> QED
        BY <1>5, <2>1, <4>1, <4>2, <4>3 DEF PreparedBy, AbortedBy
    <3> QED
      BY <1>12, <3>1, <3>2 DEF KeyDecided
  <2>8. CASE Holding(t, k, v) /\ Underway(C)
    <3>1. CASE e.type = "COMMIT" /\ e.txn = t /\ e.key = k
      <4>1. s = Locate(k) /\ NoPrepare(t, k)
        <5>1. s = Locate(k)
          BY <1>4, <3>1
        <5>2. ASSUME NEW i \in DOMAIN log[s], IsPrepare(log[s][i], t, k) PROVE FALSE
          <6>1. i < 1
            BY <1>3, <3>1, <5>2 DEF Undisturbed, Orderly, IsPrepare
          <6>2. i \in 1 .. Len(log[s]) /\ Len(log[s]) \in Nat
            BY <1>2
          <6> QED
            BY <6>1, <6>2
        <5> QED
          BY <5>1, <5>2 DEF NoPrepare
      <4>2. intents[k] = [txn |-> t, value |-> v]
        BY <2>8, <4>1 DEF Holding, LastPrepare, NoPrepare
      <4>3. CommittedBy(e, k)
        BY <1>5, <2>1, <3>1, <4>2, NoLockAssumption DEF Engine!HoldsIntent
      <4>4. VisibleOn(d, k)'
        BY <2>4, <3>1, <4>2, <4>3 DEF CommittedBy, VisibleOn, Engine!WithVersion, v
      <4>5. Released(t, k)'
        <5>1. NoPrepare(t, k)'
          BY <1>1, <2>1, <4>1, TailKeeps
        <5> QED
          BY <4>3, <5>1 DEF CommittedBy, Released, Engine!HoldsIntent
      <4> QED
        BY <1>12, <4>4, <4>5 DEF KeyDecided
    <3>2. CASE e.type = "ONESHOT" /\ e.txn = t
      <4>1. WrittenBy(e, k) /\ e = O
        BY <1>5, <2>1, <2>3, <2>5, <3>2
      <4>2. CASE NoPrepare(t, k)
        <5>1. NoPrepare(t, k)'
          BY <1>1, <2>1, <4>2, TailKeeps
        <5>2. Released(t, k)'
          BY <4>1, <5>1 DEF WrittenBy, Released, Engine!HoldsIntent
        <5> QED
          BY <1>12, <2>6, <4>1, <5>2 DEF KeyDecided
      <4>3. CASE LastPrepare(t, k, v)
        <5>1. ~IsPrepare(e, t, k)
          BY <3>2 DEF IsPrepare
        <5>2. LastPrepare(t, k, v)'
          BY <1>1, <2>1, <4>3, <5>1, TailKeeps DEF e
        <5>3. Underway(C)'
          BY <1>11, <2>8, <3>2
        <5> QED
          BY <1>12, <5>2, <5>3 DEF KeyDecided, Holding, v
      <4> QED
        BY <2>8, <4>2, <4>3 DEF Holding
    <3>3. CASE ~(e.type = "COMMIT" /\ e.txn = t /\ e.key = k) /\ ~(e.type = "ONESHOT" /\ e.txn = t)
      <4>1. e.txn = t => (e.type = "PREPARE" \/ (e.type = "COMMIT" /\ e.key # k))
        BY <1>3, <3>3, EntryFields DEF Undisturbed, Orderly
      <4>2. Holding(t, k, v)'
        BY <1>9, <2>1, <2>8, <4>1
      <4>3. Underway(C)'
        BY <1>11, <2>8, <3>3
      <4> QED
        BY <1>12, <4>2, <4>3 DEF KeyDecided, v
    <3> QED
      BY <3>1, <3>2, <3>3
  <2>9. CASE Released(t, k) /\ Underway(O)
    <3>1. Released(t, k)'
      BY <1>8, <2>1, <2>9
    <3>2. CASE e = O
      <4>1. WrittenBy(e, k)
        BY <1>5, <2>1, <2>5, <3>2
      <4> QED
        BY <1>12, <2>6, <3>1, <3>2, <4>1 DEF KeyDecided
    <3>3. CASE e # O
      <4>1. Underway(O)'
        BY <1>11, <2>9, <3>3
      <4> QED
        BY <1>12, <3>1, <4>1 DEF KeyDecided
    <3> QED
      BY <3>2, <3>3
  <2> QED
    BY <1>12, <2>1, <2>7, <2>8, <2>9 DEF KeyDecided, v
<1> QED
  BY <1>1, <1>6, <1>7, <1>10, <1>12 DEF Kept

(* The values a caller is about to write.                                   *)
LEMMA CallKeys ==
  ASSUME TypeOK, NEW c \in Caller, call[c].pc # "idle", NEW k \in KeysOf(call[c].writes)
  PROVE  k \in Key /\ LastWrites(call[c].writes)[k] \in Value
<1>1. call[c].writes \in Seq(Write)
  BY CallFields
<1>2. PICK i \in DOMAIN call[c].writes :
             call[c].writes[i].key = k /\ LastWrites(call[c].writes)[k] = call[c].writes[i].value
  BY <1>1, LastWriteOf
<1>3. call[c].writes[i] \in Write
  BY <1>1, SeqSteps
<1> QED
  BY <1>2, <1>3 DEF Write

(* Nothing changes for the callers that work on t.                          *)
LEMMA FrameCalls ==
  ASSUME CInv, NEW t \in Txn, Undisturbed(t), Kept(t),
         txns'[t].state # "aborted",
         txns'[t].state \in {"none", "active"} => txns[t].state \in {"none", "active"},
         \A c \in Caller : (Working(c, t) \/ Working(c, t)') => call'[c] = call[c]
  PROVE  Undisturbed(t)'
<1>1. TypeOK
  BY DEF CInv, Types
<1>2. \A c \in Caller : Working(c, t)' <=> Working(c, t)
  BY DEF Working
<1>3. DecidedOnce(t)'
  BY DEF Undisturbed, DecidedOnce, Kept
<1>4. ASSUME txns'[t].state \in {"none", "active"}, \A c \in Caller : ~Working(c, t)' PROVE Quiet(t)'
  BY <1>2, <1>4 DEF Undisturbed, Kept
<1>5. ASSUME NEW c \in Caller, Working(c, t)' PROVE CallUndisturbed(c)'
  <2>1. call'[c] = call[c] /\ call[c].txn = t /\ call[c].pc # "idle" /\ CallUndisturbed(c)
    BY <1>2, <1>5 DEF Working, Undisturbed
  <2>2. call[c].pc # "abort" /\ (call[c].pc = "decide" => call[c].todo = <<>>)
    BY <2>1 DEF CallUndisturbed
  <2>3. \A c2 \in Caller : Working(c2, t)' => c2 = c
    BY <1>2, <2>1 DEF CallUndisturbed
  <2>4. call[c].pc \in {"oneshot", "send"} => Quiet(t)'
    BY <2>1 DEF CallUndisturbed, Kept
  <2>5. ASSUME call[c].pc \in {"prepare", "decide"} PROVE Preparing(t)'
    BY <2>1, <2>5 DEF CallUndisturbed, Kept
  <2>6. ASSUME call[c].pc \in {"prepare", "decide"}, NEW k \in KeysOf(call[c].writes)
        PROVE  KeyPrepared(c, k)'
    <3>1. PICK v \in Value : k \in Key /\ v = LastWrites(call[c].writes)[k]
      BY <1>1, <2>1, CallKeys
    <3>2. KeyPrepared(c, k) /\ Preparing(t)
      BY <2>1, <2>6 DEF CallUndisturbed
    <3>3. Holding(t, k, v) => Holding(t, k, v)'
      BY <3>1, <3>2 DEF Kept
    <3>4. Holding(t, k, v)' <=> Holding(call[c].txn, k, LastWrites(call[c].writes)[k])'
      BY <2>1, <3>1 DEF Holding, NoPrepare, LastPrepare
    <3> QED
      BY <2>1, <3>1, <3>2, <3>3, <3>4 DEF KeyPrepared
  <2> QED
    BY <2>1, <2>2, <2>3, <2>4, <2>5, <2>6 DEF CallUndisturbed, Working
<1> QED
  BY <1>3, <1>4, <1>5 DEF Undisturbed, Kept

(* In the order in which prepares are sent, the last write of a key comes   *)
(* last among those of the key.                                             *)
LEMMA OrderLast ==
  ASSUME NEW w \in Seq(Write), NEW p \in Orders(w), NEW k \in KeysOf(w)
  PROVE  LET todo == [i \in DOMAIN w |-> w[p[i]]] IN
         k \in KeysOf(todo) /\ LastInTodo(todo, k, LastWrites(w)[k])
<1> DEFINE todo == [i \in DOMAIN w |-> w[p[i]]]
<1>1. Len(w) \in Nat /\ DOMAIN w = 1 .. Len(w) /\ DOMAIN todo = DOMAIN w
  BY SeqSteps
<1>2. /\ \A i \in DOMAIN w : p[i] \in DOMAIN w
      /\ \A i \in DOMAIN w : \E j \in DOMAIN w : p[j] = i
      /\ \A i, j \in DOMAIN w : i < j /\ Locate(w[p[i]].key) = Locate(w[p[j]].key) => p[i] < p[j]
  BY DEF Orders
<1>3. PICK m \in DOMAIN w : /\ w[m].key = k /\ LastWrites(w)[k] = w[m].value
                            /\ \A j \in DOMAIN w : w[j].key = k => j <= m
  BY LastWriteOf
<1>4. PICK n \in DOMAIN w : p[n] = m
  BY <1>2
<1>5. k \in KeysOf(todo)
  BY <1>3, <1>4 DEF KeysOf
<1>6. ASSUME NEW i \in DOMAIN todo, todo[i].key = k, \A j \in DOMAIN todo : j > i => todo[j].key # k
      PROVE  todo[i].value = LastWrites(w)[k]
  <2>1. i \in DOMAIN w /\ w[p[i]].key = k /\ p[i] \in DOMAIN w /\ p[i] <= m
    BY <1>2, <1>3, <1>6
  <2>2. ~(n > i)
    BY <1>3, <1>4, <1>6
  <2>3. n \in Nat /\ i \in Nat /\ p[i] \in Nat /\ m \in Nat
    BY <1>1, <2>1
  <2>4. n < i => m < p[i]
    BY <1>2, <1>3, <1>4, <2>1
  <2>5. n = i
    BY <2>1, <2>2, <2>3, <2>4
  <2> QED
    BY <1>3, <1>4, <2>5
<1> QED
  BY <1>5, <1>6 DEF LastInTodo

-----------------------------------------------------------------------------
(* A caller's work on t.                                                    *)

(* Commit starts, and nobody else commits t.                                *)
LEMMA OwnStart ==
  ASSUME CInv, NEW t \in Txn, Undisturbed(t), t \notin disturbed',
         NEW c \in Caller, NEW p \in Orders(txns[t].writes), StartCommit(c, t, p)
  PROVE  Undisturbed(t)'
<1> DEFINE w == txns[t].writes
           todo == [i \in DOMAIN w |-> w[p[i]]]
<1>1. TypeOK /\ w \in Seq(Write) /\ call \in [Caller -> {Idle} \cup CallRecord]
  BY DEF CInv, Types, TypeOK, CallRecord
<1>2. /\ txns' = txns /\ net' = net /\ log' = log /\ intents' = intents /\ versions' = versions
      /\ issued' = issued /\ txns[t].state = "active" /\ call[c].pc = "idle"
  BY DEF StartCommit, store
<1>3. /\ call'[c].pc \in {"oneshot", "prepare"} /\ call'[c].txn = t
      /\ call'[c].writes = w /\ call'[c].todo = todo
      /\ \A b \in Caller \ {c} : call'[b] = call[b]
  BY <1>1 DEF StartCommit
<1>4. \A b \in Caller : ~Working(b, t)
  BY <1>2 DEF StartCommit, Working
<1>5. Quiet(t)
  BY <1>2, <1>4 DEF Undisturbed
<1>6. Quiet(t)' /\ Undecided(t)'
  BY <1>2, <1>5 DEF Quiet, Undecided, Engine!HoldsIntent
<1>7. Preparing(t)'
  BY <1>6 DEF Quiet, Preparing
<1>8. Orderly(t)'
  BY <1>6 DEF Quiet, Orderly
<1>9. \A b \in Caller : Working(b, t)' => b = c
  BY <1>3, <1>4 DEF Working
<1>10. ASSUME NEW k \in KeysOf(w) PROVE KeyPrepared(c, k)'
  <2>1. k \in KeysOf(todo) /\ LastInTodo(todo, k, LastWrites(w)[k])
    BY <1>1, OrderLast
  <2> HIDE DEF w, todo
  <2>2. call'[c].todo = todo /\ call'[c].writes = w
    BY <1>3
  <2> QED
    BY <2>1, <2>2 DEF KeyPrepared
<1> HIDE DEF w, todo
<1>11. CallUndisturbed(c)'
  BY <1>3, <1>6, <1>7, <1>9, <1>10 DEF CallUndisturbed
<1>12. Working(c, t)'
  BY <1>3 DEF Working
<1> QED
  BY <1>2, <1>6, <1>8, <1>9, <1>11, <1>12 DEF Undisturbed, Undecided, DecidedOnce

(* The next prepare is sent.                                                *)
LEMMA OwnPrepare ==
  ASSUME CInv, NEW t \in Txn, Undisturbed(t), t \notin disturbed',
         NEW c \in Caller, NEW out \in Outcome, SendPrepare(c, out), call[c].txn = t
  PROVE  Undisturbed(t)'
<1> DEFINE todo == call[c].todo
           h == Head(todo)
           e == PrepareEntry(h, t)
<1>1. /\ TypeOK /\ call \in [Caller -> {Idle} \cup CallRecord] /\ call[c] \in CallRecord
      /\ todo \in Seq(Write) /\ todo # <<>> /\ call[c].pc = "prepare"
  BY CallFields DEF CInv, Types, TypeOK, CallRecord, SendPrepare
<1>2. e \in Entry /\ e.txn = t /\ e.type = "PREPARE" /\ e.key = h.key /\ e.value = h.value /\ h.key \in Key
  <2>1. h \in Write
    BY <1>1, SeqSteps
  <2> HIDE DEF h
  <2> QED
    BY <2>1 DEF PrepareEntry, Entry, Write
<1>3. out = Reliable
  BY <1>2 DEF SendPrepare, Request
<1>4. /\ Propose(e) /\ net' = net /\ txns' = txns /\ issued' = issued
      /\ intents' = intents /\ versions' = versions
      /\ call' = [call EXCEPT ![c].todo = Tail(@)]
  BY <1>3 DEF SendPrepare, Request, Reliable, store
<1>5. /\ call'[c].pc = "prepare" /\ call'[c].txn = t /\ call'[c].writes = call[c].writes
      /\ call'[c].todo = Tail(todo)
      /\ \A b \in Caller \ {c} : call'[b] = call[b]
  BY <1>1, <1>4 DEF CallRecord
<1>6. CallUndisturbed(c) /\ Preparing(t) /\ (\A k \in KeysOf(call[c].writes) : KeyPrepared(c, k))
      /\ \A b \in Caller : Working(b, t) => b = c
  BY <1>1 DEF Undisturbed, CallUndisturbed, Working
<1>7. \A b \in Caller : Working(b, t)' => b = c
  BY <1>5, <1>6 DEF Working
<1> HIDE DEF e, h, todo
<1>8. \A s \in Shard : \A i \in DOMAIN log'[s] : log'[s][i].txn = t => log'[s][i].type = "PREPARE"
  <2> SUFFICES ASSUME NEW s \in Shard, NEW i \in DOMAIN log'[s], log'[s][i].txn = t
               PROVE  log'[s][i].type = "PREPARE"
    OBVIOUS
  <2>1. log'[s][i] = e \/ (i \in DOMAIN log[s] /\ log'[s][i] = log[s][i])
    BY <1>1, <1>2, <1>4, ProposeLogs
  <2> QED
    BY <1>2, <1>6, <2>1 DEF Preparing
<1>9. Preparing(t)' /\ Orderly(t)' /\ Undecided(t)'
  BY <1>4, <1>6, <1>8 DEF Preparing, Undecided, Orderly
<1>10. /\ Len(todo) \in Nat /\ DOMAIN todo = 1 .. Len(todo) /\ h = todo[1] /\ 1 \in DOMAIN todo
       /\ DOMAIN Tail(todo) = 1 .. Len(todo) - 1
       /\ \A i \in DOMAIN Tail(todo) : i + 1 \in DOMAIN todo /\ Tail(todo)[i] = todo[i + 1]
  BY <1>1, SeqSteps DEF h
<1>11. \A k : k \in KeysOf(todo) <=> (k = h.key \/ k \in KeysOf(Tail(todo)))
  <2>1. \A i \in DOMAIN todo : i = 1 \/ (i - 1 \in DOMAIN Tail(todo) /\ (i - 1) + 1 = i)
    BY <1>10
  <2> QED
    BY <1>10, <2>1 DEF KeysOf
<1>12. ASSUME NEW k \in KeysOf(call[c].writes) PROVE KeyPrepared(c, k)'
  <2>1. PICK v \in Value : k \in Key /\ v = LastWrites(call[c].writes)[k]
    BY <1>1, CallKeys
  <2>2. IF k \in KeysOf(todo) THEN LastInTodo(todo, k, v) ELSE Holding(t, k, v)
    BY <1>6, <2>1 DEF KeyPrepared, todo
  <2>3. SUFFICES IF k \in KeysOf(Tail(todo)) THEN LastInTodo(Tail(todo), k, v) ELSE Holding(t, k, v)'
    <3>1. Holding(t, k, v)' <=> Holding(call[c].txn, k, LastWrites(call[c].writes)[k])'
      BY <1>5, <2>1 DEF Holding, NoPrepare, LastPrepare
    <3> QED
      BY <1>5, <2>1, <3>1 DEF KeyPrepared, KeysOf, LastInTodo
  <2>4. CASE k \in KeysOf(Tail(todo))
    <3>1. LastInTodo(todo, k, v)
      BY <1>11, <2>2, <2>4
    <3> SUFFICES ASSUME NEW i \in DOMAIN Tail(todo), Tail(todo)[i].key = k,
                        \A j \in DOMAIN Tail(todo) : j > i => Tail(todo)[j].key # k
                 PROVE  Tail(todo)[i].value = v
      BY <2>4 DEF LastInTodo
    <3>2. i + 1 \in DOMAIN todo /\ todo[i + 1].key = k /\ todo[i + 1] = Tail(todo)[i] /\ i \in Nat /\ i > 0
      BY <1>10
    <3>3. ASSUME NEW j \in DOMAIN todo, j > i + 1 PROVE todo[j].key # k
      <4>1. j - 1 \in DOMAIN Tail(todo) /\ j - 1 > i /\ (j - 1) + 1 = j
        BY <1>10, <3>2, <3>3
      <4> QED
        BY <1>10, <4>1
    <3> QED
      BY <3>1, <3>2, <3>3 DEF LastInTodo
  <2>5. CASE k \notin KeysOf(Tail(todo)) /\ k = h.key
    <3>1. LastInTodo(todo, k, v)
      BY <1>11, <2>2, <2>5
    <3>2. ASSUME NEW j \in DOMAIN todo, j > 1 PROVE todo[j].key # k
      <4>1. j - 1 \in DOMAIN Tail(todo) /\ (j - 1) + 1 = j
        BY <1>10, <3>2
      <4>2. Tail(todo)[j - 1].key # k
        BY <2>5, <4>1 DEF KeysOf
      <4> QED
        BY <1>10, <4>1, <4>2
    <3>3. h.value = v
      BY <1>10, <2>5, <3>1, <3>2 DEF LastInTodo
    <3>4. IsPrepare(e, t, k)
      BY <1>2, <2>5 DEF IsPrepare
    <3>5. e.value = v
      BY <1>2, <3>3
    <3>6. PICK x \in Entry : x = e
      BY <1>2
    <3>7. Holding(t, k, x.value)'
      BY <1>1, <1>4, <2>1, <3>4, <3>6, ProposePrepares
    <3> QED
      BY <2>5, <3>5, <3>6, <3>7
  <2>6. CASE k \notin KeysOf(Tail(todo)) /\ k # h.key
    <3>1. Holding(t, k, v) /\ ~IsPrepare(e, t, k)
      BY <1>2, <1>11, <2>2, <2>6 DEF IsPrepare
    <3>2. Holding(t, k, v)'
      BY <1>1, <1>2, <1>4, <2>1, <3>1, ProposeKeeps
    <3> QED
      BY <2>6, <3>2
  <2> QED
    BY <2>4, <2>5, <2>6
<1>13. CallUndisturbed(c)' /\ Working(c, t)'
  BY <1>5, <1>7, <1>9, <1>12 DEF CallUndisturbed, Working
<1> QED
  BY <1>4, <1>7, <1>9, <1>13 DEF Undisturbed, Undecided, DecidedOnce

(* The commit timestamp is taken, or the state is marked at last.           *)
LEMMA OwnTimestamp ==
  ASSUME CInv, NEW t \in Txn, Undisturbed(t), NEW c \in Caller, TakeTimestamp(c), call[c].txn = t
  PROVE  Undisturbed(t)'
<1>1. /\ TypeOK /\ call \in [Caller -> {Idle} \cup CallRecord] /\ call[c] \in CallRecord
      /\ call[c].pc # "idle"
  BY CallFields DEF CInv, Types, TypeOK, CallRecord, TakeTimestamp
<1>2. /\ net' = net /\ log' = log /\ intents' = intents /\ versions' = versions
      /\ issued' = issued /\ txns' = txns
  BY DEF TakeTimestamp, store, history
<1>3. /\ call'[c].txn = t /\ call'[c].writes = call[c].writes /\ call'[c].todo = call[c].todo
      /\ \A b \in Caller \ {c} : call'[b] = call[b]
      /\ \/ call[c].pc = "oneshot" /\ call'[c].pc = "send"
         \/ call[c].pc = "prepare" /\ call'[c].pc = "decide" /\ call[c].todo = <<>>
  BY <1>1 DEF TakeTimestamp, CallRecord
<1>4. CallUndisturbed(c) /\ \A b \in Caller : Working(b, t) => b = c
  BY <1>1 DEF Undisturbed, CallUndisturbed, Working
<1>5. \A b \in Caller : Working(b, t)' => b = c
  BY <1>3, <1>4 DEF Working
<1>6. /\ Quiet(t) => Quiet(t)'
      /\ Preparing(t) => Preparing(t)'
      /\ Orderly(t)' /\ DecidedOnce(t)'
      /\ \A k, v : Holding(t, k, v) => Holding(t, k, v)'
  <2>1. Quiet(t) => Quiet(t)'
    BY <1>2 DEF Quiet, Undecided, Engine!HoldsIntent
  <2>2. (Preparing(t) => Preparing(t)') /\ Orderly(t)' /\ DecidedOnce(t)'
    BY <1>2 DEF Undisturbed, Preparing, Orderly, DecidedOnce, Undecided
  <2>3. \A k, v : Holding(t, k, v) => Holding(t, k, v)'
    BY <1>2 DEF Holding, LastPrepare, NoPrepare
  <2> QED
    BY <2>1, <2>2, <2>3
<1>7. ASSUME call[c].pc = "prepare", NEW k \in KeysOf(call[c].writes) PROVE KeyPrepared(c, k)'
  <2>1. PICK v : v = LastWrites(call[c].writes)[k]
    OBVIOUS
  <2>2. KeyPrepared(c, k)
    BY <1>4, <1>7 DEF CallUndisturbed
  <2>3. Holding(t, k, v)' <=> Holding(call[c].txn, k, LastWrites(call[c].writes)[k])'
    BY <1>3, <2>1 DEF Holding, NoPrepare, LastPrepare
  <2>4. Holding(t, k, v) => Holding(t, k, v)'
    BY <1>6
  <2> QED
    BY <1>3, <2>1, <2>2, <2>3, <2>4 DEF KeyPrepared
<1>8. CallUndisturbed(c)' /\ Working(c, t)'
  BY <1>3, <1>4, <1>5, <1>6, <1>7 DEF CallUndisturbed, Working
<1>9. \A d \in issued : d.txn # t
  BY <1>3, <1>4 DEF CallUndisturbed, Quiet, Preparing, Undecided
<1> QED
  BY <1>2, <1>5, <1>6, <1>8, <1>9 DEF Undisturbed

LEMMA OwnMark ==
  ASSUME CInv, NEW t \in Txn, Undisturbed(t), NEW c \in Caller, MarkCommitted(c), call[c].txn = t
  PROVE  Undisturbed(t)'
<1>1. /\ TypeOK /\ call \in [Caller -> {Idle} \cup CallRecord] /\ call[c].pc # "idle" /\ Idle.pc = "idle"
      /\ txns \in [Txn -> [state : {"none", "active", "committed", "aborted"}, writes : Seq(Write)]]
  BY DEF CInv, Types, TypeOK, CallRecord, MarkCommitted, Idle
<1>2. /\ net' = net /\ log' = log /\ intents' = intents /\ versions' = versions
      /\ issued' = issued /\ txns'[t].state = "committed"
  BY <1>1 DEF MarkCommitted, store, history
<1>3. call'[c].pc = "idle" /\ \A b \in Caller \ {c} : call'[b] = call[b]
  BY <1>1 DEF MarkCommitted
<1>4. \A b \in Caller : Working(b, t) => b = c
  BY <1>1 DEF Undisturbed, CallUndisturbed, Working
<1>5. \A b \in Caller : ~Working(b, t)'
  BY <1>3, <1>4 DEF Working
<1>6. Orderly(t)' /\ DecidedOnce(t)'
  BY <1>2 DEF Undisturbed, Orderly, DecidedOnce
<1>7. ASSUME NEW d \in issued, d.txn = t, NEW k \in KeysOf(d.writes) PROVE KeyDecided(d, k)'
  <2>1. KeyDecided(d, k)
    BY <1>7 DEF Undisturbed
  <2> QED
    BY <1>2, <2>1 DEF KeyDecided, VisibleOn, Released, Holding, NoPrepare, LastPrepare, Underway,
                      Engine!HoldsIntent
<1> QED
  BY <1>2, <1>5, <1>6, <1>7 DEF Undisturbed

(* Every key is held: the decision falls, and the commits are sent.         *)
LEMMA OwnDecide ==
  ASSUME CInv, NEW t \in Txn, Undisturbed(t), NEW c \in Caller, Decide(c), call[c].txn = t
  PROVE  Undisturbed(t)'
<1> DEFINE w == call[c].writes
           es == [i \in DOMAIN w |-> CommitEntry(w[i], t, call[c].ts)]
<1>1. /\ TypeOK /\ call \in [Caller -> {Idle} \cup CallRecord] /\ call[c].pc = "decide" /\ Idle.pc = "idle"
      /\ txns \in [Txn -> [state : {"none", "active", "committed", "aborted"}, writes : Seq(Write)]]
  BY DEF CInv, Types, TypeOK, CallRecord, Decide, Idle
<1>2. /\ log' = log /\ intents' = intents /\ versions' = versions
      /\ net' = net (+) Requests(es)
      /\ issued' = issued \cup {[txn |-> t, ts |-> call[c].ts, writes |-> w]}
      /\ txns'[t].state = "committed"
  BY <1>1 DEF Decide, store
<1>3. call'[c].pc = "idle" /\ \A b \in Caller \ {c} : call'[b] = call[b]
  BY <1>1 DEF Decide
<1>4. CallUndisturbed(c) /\ (\A b \in Caller : Working(b, t) => b = c)
      /\ Preparing(t) /\ call[c].todo = <<>> /\ \A k \in KeysOf(w) : KeyPrepared(c, k)
  BY <1>1 DEF Undisturbed, CallUndisturbed, Working
<1>5. \A b \in Caller : ~Working(b, t)'
  BY <1>3, <1>4 DEF Working
<1>6. PICK d : d = [txn |-> t, ts |-> call[c].ts, writes |-> w]
  OBVIOUS
<1>7. DOMAIN net' = DOMAIN net \cup {es[i] : i \in DOMAIN es}
  BY <1>2, RequestsDomain
<1>8. Orderly(t)'
  <2>1. \A x \in DOMAIN net' : x.txn = t => x.type = "COMMIT"
    <3>1. \A i \in DOMAIN es : es[i].type = "COMMIT"
      BY DEF CommitEntry
    <3> HIDE DEF es
    <3> QED
      BY <1>4, <1>7, <3>1 DEF Preparing
  <2> QED
    BY <1>2, <1>4, <2>1 DEF Preparing, Orderly
<1>9. \A f \in issued' : f.txn = t => f = d
  BY <1>2, <1>4, <1>6 DEF Preparing, Undecided
<1>10. ASSUME NEW k \in KeysOf(w) PROVE KeyDecided(d, k)'
  <2>1. PICK v : v = LastWrites(w)[k]
    OBVIOUS
  <2>2. k \notin KeysOf(call[c].todo)
    BY <1>4 DEF KeysOf
  <2>3. Holding(t, k, v)
    BY <1>4, <2>1, <2>2 DEF KeyPrepared
  <2>4. Holding(t, k, v)'
    BY <1>2, <2>3 DEF Holding, NoPrepare, LastPrepare
  <2>5. PICK i \in DOMAIN w : w[i].key = k
    BY DEF KeysOf
  <2>6. PICK x : x = es[i] /\ x = [type |-> "COMMIT", key |-> k, txn |-> t, ts |-> call[c].ts]
    BY <2>5 DEF CommitEntry
  <2>7. x \in DOMAIN net'
    BY <1>7, <2>5, <2>6
  <2>8. Underway([type |-> "COMMIT", key |-> k, txn |-> d.txn, ts |-> d.ts])'
    BY <1>6, <2>6, <2>7 DEF Underway
  <2>9. d.txn = t /\ v = LastWrites(d.writes)[k]
    BY <1>6, <2>1
  <2> QED
    BY <2>4, <2>8, <2>9 DEF KeyDecided
<1> QED
  BY <1>2, <1>5, <1>6, <1>8, <1>9, <1>10 DEF Undisturbed, DecidedOnce

(* All the writes go out in one entry, which is the decision.               *)
LEMMA OwnOneShot ==
  ASSUME CInv, NEW t \in Txn, Undisturbed(t), t \notin disturbed',
         NEW c \in Caller, NEW out \in Outcome, SendOneShot(c, out), call[c].txn = t
  PROVE  Undisturbed(t)'
<1> DEFINE w == call[c].writes
<1>1. /\ TypeOK /\ call \in [Caller -> {Idle} \cup CallRecord] /\ call[c] \in CallRecord
      /\ w \in Seq(Write) /\ call[c].ts \in Timestamp /\ w # <<>> /\ call[c].pc = "send"
  BY CallFields DEF CInv, Types, TypeOK, CallRecord, SendOneShot, BufferedFirst
<1>2. PICK e \in Entry : e = OneShotEntry(w, t, call[c].ts)
  BY <1>1 DEF OneShotEntry, Entry
<1>3. e.txn = t /\ e.type = "ONESHOT" /\ e.ops = w /\ e.ts = call[c].ts
  BY <1>2 DEF OneShotEntry
<1>4. out = Reliable
  BY <1>2, <1>3 DEF SendOneShot, Request
<1>5. /\ Propose(e) /\ net' = net /\ txns' = txns /\ intents' = intents /\ versions' = versions
      /\ issued' = issued \cup {[txn |-> t, ts |-> call[c].ts, writes |-> w]}
  BY <1>2, <1>4 DEF SendOneShot, Request, Reliable, store
<1>6. /\ call'[c].pc = "mark" /\ call'[c].txn = t
      /\ \A b \in Caller \ {c} : call'[b] = call[b]
  BY <1>1, <1>4 DEF SendOneShot, Reliable, CallRecord
<1>7. Quiet(t) /\ \A b \in Caller : Working(b, t) => b = c
  BY <1>1 DEF Undisturbed, CallUndisturbed, Working
<1>8. CallUndisturbed(c)' /\ Working(c, t)' /\ \A b \in Caller : Working(b, t)' => b = c
  BY <1>6, <1>7 DEF CallUndisturbed, Working
<1>9. \A s \in Shard : \A i \in DOMAIN log'[s] : log'[s][i].txn = t => log'[s][i] = e
  BY <1>1, <1>5, <1>7, ProposeLogs DEF Quiet
<1>10. Orderly(t)'
  BY <1>3, <1>5, <1>7, <1>9 DEF Orderly, Quiet
<1>11. PICK d : d = [txn |-> t, ts |-> call[c].ts, writes |-> w]
  OBVIOUS
<1>12. d.txn = t /\ d.ts = call[c].ts /\ d.writes = w /\ e = OneShotEntry(d.writes, d.txn, d.ts)
  BY <1>2, <1>11
<1>13. \A f \in issued' : f.txn = t => f = d
  BY <1>5, <1>7, <1>11 DEF Quiet, Undecided
<1>14. Underway(e)'
  <2>1. w[1] \in Write
    BY <1>1, SeqSteps
  <2>2. ShardOf(e) \in Shard
    BY <1>3, <2>1, LocateAssumption DEF ShardOf, Write
  <2>3. /\ DOMAIN log'[ShardOf(e)] = 1 .. Len(log[ShardOf(e)]) + 1
        /\ log'[ShardOf(e)][Len(log[ShardOf(e)]) + 1] = e /\ Len(log[ShardOf(e)]) \in Nat
    BY <1>1, <1>5, <2>2, ProposeLogs
  <2> QED
    BY <2>2, <2>3 DEF Underway
<1>15. ASSUME NEW k \in KeysOf(w) PROVE KeyDecided(d, k)'
  <2>1. k \in Key
    BY <1>1, LastWriteOf
  <2>2. Released(t, k)'
    <3>1. Locate(k) \in Shard /\ ~Engine!HoldsIntent(k, t)
      BY <1>7, <2>1, LocateAssumption DEF Quiet
    <3> QED
      BY <1>3, <1>5, <1>9, <3>1 DEF Released, NoPrepare, IsPrepare, Engine!HoldsIntent
  <2> QED
    BY <1>12, <1>14, <2>2 DEF KeyDecided
<1> QED
  BY <1>5, <1>8, <1>10, <1>12, <1>13, <1>15 DEF Undisturbed, DecidedOnce

(* Every step keeps an undisturbed transaction on its way.                  *)
LEMMA UndisturbedStep ==
  ASSUME CInv, LogsRouted, TimestampsUnique, Next, NEW t \in Txn, Undisturbed(t), t \notin disturbed'
  PROVE  Undisturbed(t)'
<1>1. /\ Types /\ Types' /\ TypeOK
      /\ txns \in [Txn -> [state : {"none", "active", "committed", "aborted"}, writes : Seq(Write)]]
      /\ call \in [Caller -> {Idle} \cup CallRecord] /\ Idle.pc = "idle"
      /\ DOMAIN net \subseteq Entry
  BY TypesStep DEF CInv, Types, TypeOK, CallRecord, Idle
<1> DEFINE SameState == /\ txns'[t].state # "aborted"
                        /\ txns'[t].state \in {"none", "active"} => txns[t].state \in {"none", "active"}
           SameCalls == \A c \in Caller : (Working(c, t) \/ Working(c, t)') => call'[c] = call[c]
           SameNet == \A x \in Entry : x.txn = t => (x \in DOMAIN net' <=> x \in DOMAIN net)
           SameDecided == \A d \in issued' : d.txn = t => d \in issued
           SameLog == UNCHANGED log \/ \E e \in Entry : e.txn # t /\ Propose(e)
<1>2. ASSUME SameState, SameCalls, SameNet, SameDecided, SameLog, UNCHANGED store PROVE Undisturbed(t)'
  <2>1. Kept(t)
    BY <1>1, <1>2, FrameElsewhere
  <2> QED
    BY <1>2, <2>1, FrameCalls
<1>3. txns[t].state # "aborted"
  BY DEF Undisturbed
<1>4. ASSUME NEW u \in Txn, Begin(u) \/ \E w \in Offers(u) : AddWrite(u, w) PROVE Undisturbed(t)'
  <2>1. SameState
    <3>1. txns'[t].state = txns[t].state \/ (txns[t].state = "none" /\ txns'[t].state = "active")
      BY <1>1, <1>4 DEF Begin, AddWrite
    <3> QED
      BY <1>3, <3>1
  <2>2. SameCalls /\ SameNet /\ SameDecided /\ SameLog /\ UNCHANGED store
    BY <1>4 DEF Begin, AddWrite, history
  <2> QED
    BY <1>2, <2>1, <2>2
<1>5. ASSUME NEW u \in Txn, u # t, Abort(u) PROVE SameState /\ SameNet
  <2> DEFINE es == [i \in DOMAIN txns[u].writes |-> AbortEntry(txns[u].writes[i], u)]
  <2>1. DOMAIN net' = DOMAIN net \cup {es[i] : i \in DOMAIN es}
    BY <1>5, RequestsDomain DEF Abort
  <2>2. \A i \in DOMAIN es : es[i].txn # t
    BY <1>5 DEF AbortEntry
  <2> HIDE DEF es
  <2>3. txns'[t] = txns[t]
    BY <1>1, <1>5 DEF Abort
  <2> QED
    BY <1>3, <2>1, <2>2, <2>3
<1>6. ASSUME NEW u \in Txn, Rollback(u) PROVE Undisturbed(t)'
  <2>1. u # t
    BY <1>6 DEF Rollback
  <2>2. SameState /\ SameNet
    BY <1>5, <1>6, <2>1 DEF Rollback
  <2>3. SameCalls /\ SameDecided /\ SameLog /\ UNCHANGED store
    BY <1>6 DEF Rollback
  <2> QED
    BY <1>2, <2>2, <2>3
<1>7. ASSUME NEW c \in Caller, NEW u \in Txn, NEW p \in Orders(txns[u].writes), StartCommit(c, u, p)
      PROVE  Undisturbed(t)'
  <2>1. CASE u = t
    BY <1>7, <2>1, OwnStart
  <2>2. CASE u # t
    <3>1. call[c].pc = "idle" /\ call'[c].txn = u /\ \A b \in Caller \ {c} : call'[b] = call[b]
      BY <1>1, <1>7 DEF StartCommit
    <3>2. SameCalls
      BY <2>2, <3>1 DEF Working
    <3>3. SameState /\ SameNet /\ SameDecided /\ SameLog /\ UNCHANGED store
      BY <1>3, <1>7 DEF StartCommit
    <3> QED
      BY <1>2, <3>2, <3>3
  <2> QED
    BY <2>1, <2>2
<1>8. ASSUME NEW c \in Caller, CallStep(c), call[c].txn = t PROVE Undisturbed(t)'
  <2>1. ~AbortCall(c)
    <3>1. call[c].pc = "abort" => Working(c, t)
      BY <1>8 DEF Working
    <3> QED
      BY <3>1 DEF AbortCall, Undisturbed, CallUndisturbed
  <2> QED
    BY <1>8, <2>1, OwnPrepare, OwnTimestamp, OwnDecide, OwnOneShot, OwnMark DEF CallStep
<1>9. ASSUME NEW c \in Caller, CallStep(c), call[c].txn # t PROVE Undisturbed(t)'
  <2>1. /\ call[c].pc # "idle" /\ UNCHANGED store
        /\ \A b \in Caller \ {c} : call'[b] = call[b]
    BY <1>1, <1>9 DEF CallStep, SendPrepare, SendOneShot, TakeTimestamp, Decide, MarkCommitted, AbortCall
  <2>2. /\ call[c] \in CallRecord /\ call[c].txn \in Txn /\ call[c].todo \in Seq(Write)
        /\ call[c].writes \in Seq(Write) /\ call[c].ts \in Timestamp
    BY <1>1, <2>1, CallFields
  <2>3. SameCalls
    <3>1. call'[c] = Idle \/ call'[c].txn = call[c].txn
      BY <1>1, <1>9, <2>2 DEF CallStep, SendPrepare, SendOneShot, TakeTimestamp, Decide, MarkCommitted,
                              AbortCall, CallRecord
    <3> QED
      BY <1>1, <1>9, <2>1, <3>1 DEF Working
  <2>4. ASSUME NEW e \in Entry, NEW out, e.txn # t, Request(e, out) PROVE SameNet /\ SameLog
    <3>1. DOMAIN BagAdd(net, e) = DOMAIN net \cup {e}
      BY BagAddDomain, Zenon
    <3>2. net' = BagAdd(net, e) \/ net' = net
      BY <2>4 DEF Request
    <3>3. SameNet
      BY <2>4, <3>1, <3>2
    <3> QED
      BY <2>4, <3>3 DEF Request
  <2>5. ASSUME NEW out \in Outcome, SendPrepare(c, out) PROVE Undisturbed(t)'
    <3>1. Head(call[c].todo) \in Write
      BY <2>2, <2>5, SeqSteps DEF SendPrepare
    <3>2. PICK e \in Entry : e = PrepareEntry(Head(call[c].todo), call[c].txn)
      BY <2>2, <3>1, EntriesMade
    <3>3. e.txn # t
      BY <1>9, <3>2 DEF PrepareEntry
    <3>4. SameNet /\ SameLog
      BY <2>4, <2>5, <3>2, <3>3 DEF SendPrepare
    <3>5. SameState /\ SameDecided
      BY <1>3, <2>5 DEF SendPrepare
    <3> QED
      BY <1>2, <2>1, <2>3, <3>4, <3>5
  <2>6. ASSUME NEW out \in Outcome, SendOneShot(c, out) PROVE Undisturbed(t)'
    <3>1. PICK e \in Entry : e = OneShotEntry(call[c].writes, call[c].txn, call[c].ts)
      BY <2>2 DEF OneShotEntry, Entry
    <3>2. e.txn # t
      BY <1>9, <3>1 DEF OneShotEntry
    <3>3. SameNet /\ SameLog
      BY <2>4, <2>6, <3>1, <3>2 DEF SendOneShot
    <3>4. SameState /\ SameDecided
      BY <1>3, <1>9, <2>6 DEF SendOneShot
    <3> QED
      BY <1>2, <2>1, <2>3, <3>3, <3>4
  <2>7. ASSUME TakeTimestamp(c) \/ MarkCommitted(c) PROVE Undisturbed(t)'
    <3>1. SameState /\ SameNet /\ SameDecided /\ SameLog
      BY <1>1, <1>3, <1>9, <2>7 DEF TakeTimestamp, MarkCommitted, history
    <3> QED
      BY <1>2, <2>1, <2>3, <3>1
  <2>8. ASSUME Decide(c) PROVE Undisturbed(t)'
    <3> DEFINE w == call[c].writes
               es == [i \in DOMAIN w |-> CommitEntry(w[i], call[c].txn, call[c].ts)]
    <3>1. net' = net (+) Requests(es)
      BY <2>8 DEF Decide
    <3>2. DOMAIN net' = DOMAIN net \cup {es[i] : i \in DOMAIN es}
      BY <3>1, RequestsDomain
    <3>3. \A i \in DOMAIN es : es[i].txn # t
      BY <1>9 DEF CommitEntry
    <3> HIDE DEF es
    <3>4. SameNet
      BY <3>2, <3>3
    <3>5. SameState /\ SameDecided /\ SameLog
      BY <1>1, <1>3, <1>9, <2>8 DEF Decide
    <3> QED
      BY <1>2, <2>1, <2>3, <3>4, <3>5
  <2>9. ASSUME AbortCall(c) PROVE Undisturbed(t)'
    <3>1. SameState /\ SameNet
      BY <1>5, <1>9, <2>2, <2>9 DEF AbortCall
    <3>2. SameDecided /\ SameLog
      BY <2>9 DEF AbortCall, history
    <3> QED
      BY <1>2, <2>1, <2>3, <3>1, <3>2
  <2> QED
    BY <1>9, <2>5, <2>6, <2>7, <2>8, <2>9 DEF CallStep
<1>10. ASSUME NEW e \in BagToSet(net), Deliver(e) \/ Lose(e) \/ Repeat(e) PROVE Undisturbed(t)'
  <2>1. e \in DOMAIN net /\ e \in Entry
    BY <1>1, BagElements, Zenon
  <2>2. SameState /\ SameCalls /\ SameDecided /\ UNCHANGED store
    BY <1>3, <1>10 DEF Deliver, Lose, Repeat, Fault, history
  <2>3. CASE e.txn = t
    <3>1. Deliver(e)
      BY <1>10, <2>3 DEF Lose, Repeat, Fault
    <3>2. Kept(t)
      BY <1>1, <2>3, <3>1, FrameDeliver
    <3> QED
      BY <2>2, <3>2, FrameCalls
  <2>4. CASE e.txn # t
    <3>1. /\ DOMAIN BagRemove(net, e) \subseteq DOMAIN net
          /\ DOMAIN net \subseteq DOMAIN BagRemove(net, e) \cup {e}
      BY BagRemoveDomain, Zenon
    <3>2. net' = net \/ net' = BagRemove(net, e)
      BY <1>10 DEF Deliver, Lose, Repeat
    <3>3. SameNet
      BY <2>4, <3>1, <3>2
    <3>4. SameLog
      BY <1>10, <2>1, <2>4 DEF Deliver, Lose, Repeat
    <3> QED
      BY <1>2, <2>2, <3>3, <3>4
  <2> QED
    BY <2>3, <2>4
<1>11. ASSUME NEW s \in Shard, Apply(s) PROVE Undisturbed(t)'
  <2>1. Kept(t)
    BY <1>11, FrameApply
  <2>2. SameState /\ SameCalls
    BY <1>3, <1>11 DEF Apply
  <2> QED
    BY <2>1, <2>2, FrameCalls
<1> QED
  BY <1>4, <1>6, <1>7, <1>8, <1>9, <1>10, <1>11, ServesAssumption DEF Next

(* A transaction that is disturbed stays so.                                *)
LEMMA DisturbedGrows ==
  ASSUME Next
  PROVE  disturbed \subseteq disturbed'
  BY DEF Next, CallStep, history, Begin, AddWrite, StartCommit, SendPrepare, TakeTimestamp, Request,
         Decide, SendOneShot, MarkCommitted, AbortCall, Rollback, Deliver, Lose, Repeat, Fault, Apply,
         ApplyPrepare, ApplyCommit, ApplyAbort, ApplyOneShot

LEMMA AInvInit ==
  ASSUME Init
  PROVE  AInv
<1>1. /\ call = [c \in Caller |-> Idle] /\ Idle.pc = "idle"
      /\ txns = [t \in Txn |-> [state |-> "none", writes |-> <<>>]]
      /\ DOMAIN net = {} /\ log = [s \in Shard |-> <<>>] /\ issued = {}
      /\ intents = [k \in Key |-> NoLock]
  BY BagElements DEF Init, Idle, Engine!Init
<1>2. \A s \in Shard : DOMAIN log[s] = {}
  BY <1>1
<1>3. LogsRouted
  BY <1>2 DEF LogsRouted
<1>4. TimestampsUnique
  BY <1>1 DEF TimestampsUnique, Deciding
<1>5. ASSUME NEW t \in Txn PROVE Undisturbed(t)
  <2>1. Quiet(t)
    BY <1>1, <1>2 DEF Quiet, Undecided, Engine!HoldsIntent
  <2>2. \A c \in Caller : ~Working(c, t)
    BY <1>1 DEF Working
  <2> QED
    BY <1>1, <1>2, <2>1, <2>2 DEF Undisturbed, Orderly, DecidedOnce
<1> QED
  BY <1>3, <1>4, <1>5, CInvInit DEF AInv

(* How far each transaction that nothing disturbed has come, key by key.    *)
THEOREM Progressing == Spec => []AInv
<1>1. Init => AInv
  BY AInvInit
<1>2. ASSUME AInv, [Next]_vars PROVE AInv'
  <2>1. CInv' /\ LogsRouted' /\ TimestampsUnique'
    BY <1>2, CInvStep, RoutedStep, TimestampsStep DEF AInv
  <2>2. CASE Next
    <3>1. \A t \in Txn \ disturbed' : Undisturbed(t)'
      BY <1>2, <2>2, DisturbedGrows, UndisturbedStep DEF AInv
    <3> QED
      BY <2>1, <3>1 DEF AInv
  <2>3. CASE UNCHANGED vars
    <3>1. ASSUME NEW t \in Txn, Undisturbed(t) PROVE Undisturbed(t)'
      BY <2>3, <3>1 DEF vars, Undisturbed, Orderly, DecidedOnce, Working, CallUndisturbed, Quiet, Undecided,
           Preparing, KeyPrepared, KeyDecided, Holding, Released, NoPrepare, LastPrepare, VisibleOn, Underway,
           Engine!HoldsIntent
    <3> QED
      BY <1>2, <2>1, <2>3, <3>1 DEF AInv, vars
  <2> QED
    BY <1>2, <2>2, <2>3
<1> QED
  BY <1>1, <1>2, PTL DEF Spec

(* A transaction that met no fault, no rollback, no second COMMIT, no       *)
(* rival's lock and no skipped prepare is atomic across shards: once it     *)
(* settled, each of its keys carries its last write at the one commit       *)
(* timestamp, however the requests and the shards interleave.               *)
THEOREM UndisturbedAtomic == Spec => []AtomicUnlessDisturbed
<1>1. ASSUME AInv PROVE AtomicUnlessDisturbed
  <2> SUFFICES ASSUME NEW d \in issued, d.txn \notin disturbed, Settled(d.txn),
                      NEW k \in DOMAIN LastWrites(d.writes)
               PROVE  VisibleOn(d, k)
    BY DEF AtomicUnlessDisturbed, Decided
  <2>1. d.txn \in Txn /\ Types
    BY <1>1 DEF AInv, CInv, Types, TypeOK
  <2>2. k \in KeysOf(d.writes)
    BY DEF LastWrites, KeysOf
  <2>3. KeyDecided(d, k)
    BY <1>1, <2>1, <2>2 DEF AInv, Undisturbed
  <2>4. ASSUME NEW x, x.txn = d.txn PROVE ~Underway(x)
    BY <2>4 DEF Settled, Underway
  <2>5. ~Underway([type |-> "COMMIT", key |-> k, txn |-> d.txn, ts |-> d.ts])
    BY <2>4
  <2>6. ~Underway(OneShotEntry(d.writes, d.txn, d.ts))
    BY <2>4 DEF OneShotEntry
  <2> QED
    BY <2>3, <2>5, <2>6 DEF KeyDecided
<1> QED
  BY <1>1, Progressing, PTL
=============================================================================
