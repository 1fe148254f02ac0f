---------------------------- MODULE Coordinator ----------------------------
(* Distributed transactions: the coordinator of the proxy                   *)
(* (internal/txn/coordinator.go), the /txn/ handlers and the apply loop of  *)
(* the shard nodes (cmd/shard-node/main.go), and the shards' engines, by    *)
(* what they promise (VersionStore).                                        *)
(*                                                                          *)
(* A caller is a goroutine of the proxy that serves COMMIT.  A request in   *)
(* `net` is a goroutine or a connection of the proxy that has not reached   *)
(* its shard; log[s] is what shard s has accepted into its Raft log and not *)
(* applied yet.  Handlers answer 200 once they have called Propose, so an   *)
(* answer says nothing of how the entry will apply.                         *)
EXTENDS Naturals, Sequences, SequencesExt, BagsExt

CONSTANTS Key, Value, Txn, Shard,
          Caller,       \* goroutines serving COMMIT
          Offers(_),    \* the writes a client may buffer in a transaction
          Serves(_),    \* the transactions whose COMMIT a caller may serve
          Locate(_),    \* the router's map from keys to shards
          Spaced,       \* the values that contain a blank
          NoLock,
          Outcomes,     \* what may become of a synchronous request: see Outcome
          Lossy,        \* whether asynchronous requests may be lost or repeated
          MaxWrites,    \* bound: writes buffered per transaction
          MaxTs,        \* bound: commit timestamps handed out
          MaxFaults,    \* bound: lost, delayed, repeated or failed requests
          MaxRollbacks  \* bound: ROLLBACK statements

Write == [key : Key, value : Value]
Timestamp == 0 .. MaxTs

ASSUME LocateAssumption == \A k \in Key : Locate(k) \in Shard
ASSUME OffersAssumption == \A t \in Txn : Offers(t) \subseteq Write
ASSUME ServesAssumption == \A c \in Caller : Serves(c) \subseteq Txn
ASSUME SpacedAssumption == Spaced \subseteq Value
ASSUME BoundAssumption ==
  MaxWrites \in Nat /\ MaxTs \in Nat /\ MaxFaults \in Nat /\ MaxRollbacks \in Nat
ASSUME FaultAssumption ==
  Outcomes \subseteq [ok : BOOLEAN, proposed : BOOLEAN, late : BOOLEAN] /\ Lossy \in BOOLEAN
ASSUME NoLockAssumption == NoLock \notin [txn : Txn, value : Value]

VARIABLES txns,       \* the coordinator's map: state and buffered writes
          call,       \* caller -> its progress through Commit
          clock,      \* the last timestamp handed out
          net,        \* bag of requests on their way to a shard
          log,        \* shard -> entries proposed and not yet applied
          versions,   \* committed versions of the shards' engines
          intents,    \* lock tables of the shards' engines
          faults, rollbacks,
          issued,     \* history: [txn, ts, writes] of every commit sent out
          unanswered, \* history: the one-shots of these that got no 200
          disturbed   \* history: transactions that met a fault, a rival or a blank

store == <<versions, intents>>
commits == <<issued, unanswered>>
history == <<issued, unanswered, disturbed>>
vars == <<txns, call, clock, net, log, versions, intents, faults, rollbacks,
          issued, unanswered, disturbed>>

Engine == INSTANCE VersionStore WITH Owner <- Txn, Imports <- {}

-----------------------------------------------------------------------------
(* Requests: the Raft entries the /txn/ handlers make of them.              *)

(* Plausible bug: key and value trade places in the entry.                  *)
PrepareEntrySwapped(w, t) ==
  [type |-> "PREPARE", key |-> w.value, value |-> w.key, txn |-> t]

PrepareEntry(w, t) == [type |-> "PREPARE", key |-> w.key, value |-> w.value, txn |-> t]
CommitEntry(w, t, ts) == [type |-> "COMMIT", key |-> w.key, txn |-> t, ts |-> ts]
AbortEntry(w, t) == [type |-> "ABORT", key |-> w.key, txn |-> t]
OneShotEntry(ops, t, ts) == [type |-> "ONESHOT", ops |-> ops, txn |-> t, ts |-> ts]

ShardOf(e) == IF e.type = "ONESHOT" THEN Locate(e.ops[1].key) ELSE Locate(e.key)

(* The requests a goroutine per write sends, as a bag.                      *)
Requests(es) == [e \in ToSet(es) |-> Cardinality({i \in DOMAIN es : es[i] = e})]

(* A handler: node.Propose, whose error nobody looks at.                    *)
Propose(e) == log' = [log EXCEPT ![ShardOf(e)] = Append(@, e)]

ShardsOf(writes) == {Locate(writes[i].key) : i \in DOMAIN writes}

(* The orders in which the range over the shardWrites map may come to the   *)
(* writes: shard by shard, those of one shard as they were buffered.        *)
Orders(writes) ==
  LET at(i) == Locate(writes[i].key) IN
  {p \in [DOMAIN writes -> DOMAIN writes] :
     /\ \A i \in DOMAIN writes : \E j \in DOMAIN writes : p[j] = i
     /\ \A i, j \in DOMAIN writes : i < j /\ at(p[i]) = at(p[j]) =>
          p[i] < p[j] /\ \A m \in i .. j : at(p[m]) = at(p[i])}

(* The writes of a list by key, a later one replacing an earlier one.       *)
LastWrites(writes) ==
  [k \in {writes[i].key : i \in DOMAIN writes} |->
     writes[CHOOSE i \in DOMAIN writes :
              /\ writes[i].key = k
              /\ \A j \in DOMAIN writes : writes[j].key = k => j <= i].value]

-----------------------------------------------------------------------------
(* The coordinator.                                                         *)

Idle == [pc |-> "idle"]

Begin(t) ==
  /\ txns[t].state = "none"
  /\ txns' = [txns EXCEPT ![t] = [state |-> "active", writes |-> <<>>]]
  /\ UNCHANGED <<call, clock, net, log, store, faults, rollbacks, history>>

AddWrite(t, w) ==
  /\ txns[t].state = "active"
  /\ Len(txns[t].writes) < MaxWrites
  /\ txns' = [txns EXCEPT ![t].writes = Append(@, w)]
  /\ UNCHANGED <<call, clock, net, log, store, faults, rollbacks, history>>

(* Commit, up to the first network call: the state is checked and the       *)
(* writes are copied under the mutex, which is then released.  A second     *)
(* COMMIT of the same transaction passes the same check.  (A transaction    *)
(* without writes returns here and stays active.)                           *)
StartCommit(c, t, p) ==
  /\ call[c].pc = "idle"
  /\ txns[t].state = "active" /\ txns[t].writes # <<>>
  /\ LET writes == txns[t].writes IN
     call' = [call EXCEPT ![c] =
                [pc |-> IF Cardinality(ShardsOf(writes)) = 1 THEN "oneshot" ELSE "prepare",
                 txn |-> t, writes |-> writes,
                 todo |-> [i \in DOMAIN writes |-> writes[p[i]]], ts |-> 0]]
  /\ disturbed' = IF \E d \in Caller \ {c} : call[d].pc # "idle" /\ call[d].txn = t
                  THEN disturbed \cup {t} ELSE disturbed
  /\ UNCHANGED <<txns, clock, net, log, store, faults, rollbacks, commits>>

(* A synchronous request: whether the caller gets a 200, whether the shard  *)
(* has proposed the entry by then, and whether a copy is still under way (a *)
(* handler that outlives its connection, a proposal a follower forwards, a  *)
(* request net/http retries).                                               *)
Reliable == [ok |-> TRUE, proposed |-> TRUE, late |-> FALSE]
Outcome == Outcomes \cup {Reliable}

Request(e, out) ==
  /\ IF out = Reliable THEN UNCHANGED <<faults, disturbed>>
     ELSE /\ faults < MaxFaults /\ faults' = faults + 1
          /\ disturbed' = disturbed \cup {e.txn}
  /\ IF out.proposed THEN Propose(e) ELSE UNCHANGED log
  /\ net' = IF out.late THEN BagAdd(net, e) ELSE net

(* sendPrepare, one write after the other; an error leads to Abort.         *)
SendPrepare(c, out) ==
  /\ call[c].pc = "prepare" /\ call[c].todo # <<>>
  /\ Request(PrepareEntry(Head(call[c].todo), call[c].txn), out)
  /\ call' = IF out.ok THEN [call EXCEPT ![c].todo = Tail(@)]
             ELSE [call EXCEPT ![c].pc = "abort"]
  /\ UNCHANGED <<txns, clock, store, rollbacks, commits>>

(* time.Now().UnixNano(): taken when every prepare was answered, or before  *)
(* the single request of a one-shard transaction.                           *)
TakeTimestamp(c) ==
  /\ \/ call[c].pc = "prepare" /\ call[c].todo = <<>>
     \/ call[c].pc = "oneshot"
  /\ clock < MaxTs
  /\ clock' = clock + 1
  /\ call' = [call EXCEPT ![c].ts = clock + 1,
                          ![c].pc = IF @ = "oneshot" THEN "send" ELSE "decide"]
  /\ UNCHANGED <<txns, net, log, store, faults, rollbacks, history>>

(* Plausible bug: the commit of the last write is never sent.               *)
DecideSkipsOne(c) ==
  /\ call[c].pc = "decide"
  /\ LET t == call[c].txn
         w == call[c].writes IN
     /\ txns' = [txns EXCEPT ![t].state = "committed"]
     /\ net' = net (+) Requests([i \in 1 .. (Len(w) - 1) |-> CommitEntry(w[i], t, call[c].ts)])
     /\ issued' = issued \cup {[txn |-> t, ts |-> call[c].ts, writes |-> w]}
  /\ call' = [call EXCEPT ![c] = Idle]
  /\ UNCHANGED <<clock, log, store, faults, rollbacks, unanswered, disturbed>>

(* Plausible bug: the time is read once more when the commits are sent.     *)
DecideReadsClock(c) ==
  /\ call[c].pc = "decide"
  /\ LET t == call[c].txn
         w == call[c].writes IN
     /\ txns' = [txns EXCEPT ![t].state = "committed"]
     /\ net' = net (+) Requests([i \in DOMAIN w |-> CommitEntry(w[i], t, clock)])
     /\ issued' = issued \cup {[txn |-> t, ts |-> call[c].ts, writes |-> w]}
  /\ call' = [call EXCEPT ![c] = Idle]
  /\ UNCHANGED <<clock, log, store, faults, rollbacks, unanswered, disturbed>>

(* The decision: the state is set without another look at it, and one       *)
(* goroutine per write sends the commit.                                    *)
Decide(c) ==
  /\ call[c].pc = "decide"
  /\ LET t == call[c].txn
         w == call[c].writes IN
     /\ txns' = [txns EXCEPT ![t].state = "committed"]
     /\ net' = net (+) Requests([i \in DOMAIN w |-> CommitEntry(w[i], t, call[c].ts)])
     /\ issued' = issued \cup {[txn |-> t, ts |-> call[c].ts, writes |-> w]}
  /\ call' = [call EXCEPT ![c] = Idle]
  /\ UNCHANGED <<clock, log, store, faults, rollbacks, unanswered, disturbed>>

(* sendOneShot: all the writes in one request.  An error leads to Abort,    *)
(* whatever has become of the request.                                      *)
SendOneShot(c, out) ==
  /\ call[c].pc = "send"
  /\ Request(OneShotEntry(call[c].writes, call[c].txn, call[c].ts), out)
  /\ call' = [call EXCEPT ![c].pc = IF out.ok THEN "mark" ELSE "abort"]
  /\ LET d == [txn |-> call[c].txn, ts |-> call[c].ts, writes |-> call[c].writes] IN
     /\ issued' = issued \cup {d}
     /\ unanswered' = IF out.ok THEN unanswered ELSE unanswered \cup {d}
  /\ UNCHANGED <<txns, clock, store, rollbacks>>

MarkCommitted(c) ==
  /\ call[c].pc = "mark"
  /\ txns' = [txns EXCEPT ![call[c].txn].state = "committed"]
  /\ call' = [call EXCEPT ![c] = Idle]
  /\ UNCHANGED <<clock, net, log, store, faults, rollbacks, history>>

(* Abort: whatever the state, aborted it is, and one goroutine per buffered *)
(* write sends the abort.                                                   *)
Abort(t) ==
  LET w == txns[t].writes IN
  /\ txns' = [txns EXCEPT ![t].state = "aborted"]
  /\ net' = net (+) Requests([i \in DOMAIN w |-> AbortEntry(w[i], t)])

AbortCall(c) ==
  /\ call[c].pc = "abort"
  /\ Abort(call[c].txn)
  /\ call' = [call EXCEPT ![c] = Idle]
  /\ UNCHANGED <<clock, log, store, faults, rollbacks, history>>

(* ROLLBACK of a client, at any time.                                       *)
Rollback(t) ==
  /\ txns[t].state # "none"
  /\ rollbacks < MaxRollbacks /\ rollbacks' = rollbacks + 1
  /\ Abort(t)
  /\ disturbed' = disturbed \cup {t}
  /\ UNCHANGED <<call, clock, log, store, faults, commits>>

-----------------------------------------------------------------------------
(* The network and the shards.                                              *)

Deliver(e) ==
  /\ Propose(e)
  /\ net' = BagRemove(net, e)
  /\ UNCHANGED <<txns, call, clock, store, faults, rollbacks, history>>

Fault(e) ==
  /\ Lossy
  /\ faults < MaxFaults /\ faults' = faults + 1
  /\ disturbed' = disturbed \cup {e.txn}
  /\ UNCHANGED <<txns, call, clock, store, rollbacks, commits>>

(* Nobody retries: the goroutine drops the error, the handler drops the one *)
(* of Propose.                                                              *)
Lose(e) == Fault(e) /\ net' = BagRemove(net, e) /\ UNCHANGED log

Repeat(e) == Fault(e) /\ Propose(e) /\ UNCHANGED net

(* Plausible bug: an intent already there is replaced whoever placed it.    *)
ApplyPrepareSteals(e) ==
  /\ e.type = "PREPARE"
  /\ intents' = [intents EXCEPT ![e.key] = [txn |-> e.txn, value |-> e.value]]
  /\ UNCHANGED <<versions, disturbed>>

(* ApplierAdapter.Apply: errors of the engine are logged and forgotten.  A  *)
(* PREPARE whose value contains a blank does not split into four parts and  *)
(* is skipped.                                                              *)
ApplyPrepare(e) ==
  /\ e.type = "PREPARE"
  /\ \/ e.value \notin Spaced /\ Engine!Prepare(e.key, e.value, e.txn) /\ UNCHANGED disturbed
     \/ /\ e.value \notin Spaced /\ Engine!LockedByOther(e.key, e.txn)
        /\ disturbed' = disturbed \cup {e.txn}
        /\ UNCHANGED store
     \/ e.value \in Spaced /\ disturbed' = disturbed \cup {e.txn} /\ UNCHANGED store

(* Plausible bug: a commit applies to whatever intent is there.             *)
ApplyCommitAny(e) ==
  /\ e.type = "COMMIT"
  /\ IF intents[e.key] # NoLock
     THEN Engine!Commit(e.key, intents[e.key].txn, e.ts) ELSE UNCHANGED store
  /\ UNCHANGED disturbed

ApplyCommit(e) ==
  /\ e.type = "COMMIT"
  /\ \/ Engine!Commit(e.key, e.txn, e.ts)
     \/ ~Engine!HoldsIntent(e.key, e.txn) /\ UNCHANGED store
  /\ UNCHANGED disturbed

(* Plausible bug: an abort leaves the intent.                               *)
ApplyAbortIgnored(e) ==
  e.type = "ABORT" /\ UNCHANGED <<store, disturbed>>

ApplyAbort(e) ==
  /\ e.type = "ABORT"
  /\ \/ Engine!Abort(e.key, e.txn)
     \/ ~Engine!HoldsIntent(e.key, e.txn) /\ UNCHANGED store
  /\ UNCHANGED disturbed

ApplyOneShot(e) ==
  /\ e.type = "ONESHOT"
  /\ \/ Engine!OnePhaseCommit(LastWrites(e.ops), e.txn, e.ts) /\ UNCHANGED disturbed
     \/ /\ \E i \in DOMAIN e.ops : Engine!LockedByOther(e.ops[i].key, e.txn)
        /\ disturbed' = disturbed \cup {e.txn}
        /\ UNCHANGED store

(* The Raft log of a shard is applied in order.                             *)
Apply(s) ==
  /\ log[s] # <<>>
  /\ log' = [log EXCEPT ![s] = Tail(@)]
  /\ LET e == Head(log[s]) IN
       ApplyPrepare(e) \/ ApplyCommit(e) \/ ApplyAbort(e) \/ ApplyOneShot(e)
  /\ UNCHANGED <<txns, call, clock, net, faults, rollbacks, commits>>

-----------------------------------------------------------------------------
Init ==
  /\ txns = [t \in Txn |-> [state |-> "none", writes |-> <<>>]]
  /\ call = [c \in Caller |-> Idle]
  /\ clock = 0
  /\ net = EmptyBag
  /\ log = [s \in Shard |-> <<>>]
  /\ Engine!Init
  /\ faults = 0 /\ rollbacks = 0
  /\ issued = {} /\ unanswered = {} /\ disturbed = {}

(* What a caller's goroutine does on its own.                               *)
CallStep(c) ==
  \/ \E out \in Outcome : SendPrepare(c, out) \/ SendOneShot(c, out)
  \/ TakeTimestamp(c) \/ Decide(c) \/ MarkCommitted(c) \/ AbortCall(c)

Next ==
  \/ \E t \in Txn : Begin(t) \/ Rollback(t) \/ \E w \in Offers(t) : AddWrite(t, w)
  \/ \E c \in Caller : \E t \in Serves(c) : \E p \in Orders(txns[t].writes) :
       StartCommit(c, t, p)
  \/ \E c \in Caller : CallStep(c)
  \/ \E e \in BagToSet(net) : Deliver(e) \/ Lose(e) \/ Repeat(e)
  \/ \E s \in Shard : Apply(s)

Spec == Init /\ [][Next]_vars

(* Goroutines of the proxy run, requests arrive, and the shards' Raft       *)
(* groups, with a stable leader, apply what they accepted.                  *)
FairSpec ==
  /\ Spec
  /\ \A c \in Caller : WF_vars(CallStep(c))
  /\ WF_vars(\E e \in BagToSet(net) : Deliver(e))
  /\ \A s \in Shard : WF_vars(Apply(s))

-----------------------------------------------------------------------------
(* Properties.                                                              *)

Entry ==
  [type : {"PREPARE"}, key : Key, value : Value, txn : Txn]
    \cup [type : {"COMMIT"}, key : Key, txn : Txn, ts : Timestamp]
    \cup [type : {"ABORT"}, key : Key, txn : Txn]
    \cup [type : {"ONESHOT"}, ops : Seq(Write), txn : Txn, ts : Timestamp]

(* Types of the coordinator's, the network's and the shards' state.         *)
TypeOK ==
  /\ txns \in [Txn -> [state : {"none", "active", "committed", "aborted"}, writes : Seq(Write)]]
  /\ call \in [Caller -> {Idle} \cup
                 [pc : {"prepare", "decide", "oneshot", "send", "mark", "abort"}, txn : Txn,
                  writes : Seq(Write), todo : Seq(Write), ts : Timestamp]]
  /\ clock \in Timestamp
  /\ DOMAIN net \subseteq Entry
  /\ log \in [Shard -> Seq(Entry)]
  /\ \A k \in Key : /\ DOMAIN versions[k] \subseteq Timestamp
                    /\ \A ts \in DOMAIN versions[k] : versions[k][ts] \in Value
  /\ intents \in [Key -> Engine!Intent \cup {NoLock}]
  /\ faults \in 0 .. MaxFaults /\ rollbacks \in 0 .. MaxRollbacks
  /\ issued \subseteq [txn : Txn, ts : Timestamp, writes : Seq(Write)]
  /\ unanswered \subseteq issued
  /\ disturbed \subseteq Txn

(* No request or entry of transaction t is under way, and no caller works   *)
(* on it.                                                                   *)
Settled(t) ==
  /\ \A e \in DOMAIN net : e.txn # t
  /\ \A s \in Shard : \A i \in DOMAIN log[s] : log[s][i].txn # t
  /\ \A c \in Caller : call[c].pc # "idle" => call[c].txn # t

(* The effect of decision d on key k.                                       *)
VisibleOn(d, k) == d.ts \in DOMAIN versions[k] /\ versions[k][d.ts] = LastWrites(d.writes)[k]

(* The commits the coordinator has decided: all prepares answered with 200, *)
(* or the one-shot.  It aborts the others.                                  *)
Decided == issued \ unanswered

(* Every committed version stems from a commit decision: at the decision's  *)
(* timestamp, on a key the decision covers, with a value the transaction    *)
(* wrote.  No interleaving, late or repeated request, rollback or rival     *)
(* makes an undecided write or another transaction's value visible, but for *)
(* one case: a one-shot whose request failed for the proxy, which aborts it *)
(* (coordinator.go:108) although the shard may have it.                     *)
CommittedOnly ==
  \A k \in Key : \A ts \in DOMAIN versions[k] :
    \E d \in Decided \cup unanswered :
      /\ d.ts = ts
      /\ k \in {d.writes[i].key : i \in DOMAIN d.writes}
      /\ [key |-> k, value |-> versions[k][ts]] \in ToSet(txns[d.txn].writes)

(* A transaction that met no fault, no rollback, no second COMMIT, no       *)
(* rival's lock and no skipped prepare is atomic across shards: once it     *)
(* settled, each of its keys carries its last write at the one commit       *)
(* timestamp.                                                               *)
AtomicUnlessDisturbed ==
  \A d \in Decided : d.txn \notin disturbed /\ Settled(d.txn) =>
    \A k \in DOMAIN LastWrites(d.writes) : VisibleOn(d, k)

(* Every write intent is released, whatever rivals, second COMMITs,         *)
(* rollbacks and refused prepares do: nobody waits for a lock for ever.     *)
(* (Under FairSpec, as long as no request is lost or late.)                 *)
IntentsReleased ==
  \A k \in Key, t \in Txn :
    Engine!HoldsIntent(k, t) ~> ~Engine!HoldsIntent(k, t)

(* A decided transaction is visible on all of its keys or on none, rivals   *)
(* or not (docs/implementation_plan.md: "Atomic Transactions across         *)
(* shards").                                                                *)
AllOrNothing ==
  \A d \in Decided : Settled(d.txn) =>
    \/ \A k \in DOMAIN LastWrites(d.writes) : VisibleOn(d, k)
    \/ \A k \in DOMAIN LastWrites(d.writes) : d.ts \notin DOMAIN versions[k]
=============================================================================
