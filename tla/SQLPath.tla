------------------------------ MODULE SQLPath ------------------------------
(* Statements outside transactions, from the proxy to the rows: /execute of *)
(* cmd/proxy/main.go with internal/planner and internal/router, /execute    *)
(* and the migration endpoints of cmd/shard-node/main.go, and the replicas  *)
(* (Applier) fed by the Raft log of their group.                            *)
(*                                                                          *)
(* start_cluster.ps1 makes the "shards" 1, 2 and 3 of the router the three  *)
(* replicas of one Raft group, and so does this module.  Raft itself is     *)
(* here what it does to a proposal: it is committed, in some order, or not. *)
(* Proposals of SELECTs, which change nothing, are left out.                *)
EXTENDS Applier

CONSTANTS Client,          \* connections to the proxy
          Node,            \* the replicas, by their shard ids
          ScatterIDs,      \* 1, 2, 3 in the code
          GetShardID(_),   \* the router: with its seeded range, always 1
          Hints,           \* routing_key parameters, NoHint for none
          NoHint,
          Default,         \* the routing key "default"
          Statements(_),   \* what a client may send
          TxnEntries,      \* entries the transaction coordinator proposes
          ExportKeys,      \* what /debug/export walks over: the keys of its
                           \* range, and those that its start extends
          ExportBeyond,    \* the keys at or beyond its end
          NoExport,
          MaxLog,          \* bound: proposals
          MaxFaults,       \* bound: failed requests and lost leaders
          MaxIngests       \* bound: ingests

ASSUME PathNodes == ScatterIDs \subseteq Node /\ ExportKeys \subseteq Key
ASSUME PathLonger ==
  /\ \A k \in Key : Longer(k) \subseteq Key \ {k}
  /\ ExportBeyond \subseteq Key \ ExportKeys
ASSUME PathBounds == {MaxLog, MaxFaults, MaxIngests} \subseteq Nat
ASSUME PathAutoTs == AutoTs \in Nat

(* The router seeds one range: every key goes to the same shard.            *)
ASSUME PathRouting ==
  LET Routed == Key \cup (Hints \ {NoHint}) \cup {Default} IN
  \A a, b \in Routed : GetShardID(a) \in Node /\ GetShardID(a) = GetShardID(b)

(* What the parser makes of a text; the first literal of a row is its key.  *)
ASSUME PathStatements ==
  \A c \in Client : \A stmt \in Statements(c) :
    \/ /\ stmt.kind = "insert"
       /\ stmt.rows = <<>> \/ stmt.rows[1] = <<>> \/ stmt.rows[1][1] \in Key
    \/ stmt.kind = "select" /\ stmt.key \in Key
ASSUME PathNoLock ==
  \A c \in Client : \A stmt \in Statements(c) :
    stmt.kind = "insert" /\ stmt.rows # <<>>
      => NoLock # [txn |-> AutoTxn, value |-> stmt.rows[1]]

(* What the coordinator proposes (Coordinator).  Its timestamps are unique: *)
(* one entry writes a key at a timestamp, and the clock is past AutoTs.     *)
ASSUME PathEntries ==
  \A e \in TxnEntries :
    \/ e.type \in {"PREPARE", "ABORT"} /\ e.key \in Key
    \/ e.type = "COMMIT" /\ e.key \in Key /\ e.ts \in Nat
    \/ e.type = "ONESHOT" /\ DOMAIN e.ops \subseteq Key /\ e.ts \in Nat
KeysWritten(e) ==
  CASE e.type = "COMMIT" -> {e.key} [] e.type = "ONESHOT" -> DOMAIN e.ops [] OTHER -> {}
ASSUME PathTimestamps ==
  \A e, f \in TxnEntries : KeysWritten(e) \cap KeysWritten(f) # {} =>
    e.ts # AutoTs /\ (e.ts = f.ts => e = f)

VARIABLES req,        \* client -> its request in the proxy
          proposed,   \* entries proposed and not yet committed or lost
          log,        \* the group's log, committed
          applied,    \* node -> entries applied
          store,      \* node -> its engine, between two entries
          inserting,  \* nodes between Prepare and Commit of an INSERT
          led,        \* nodes whose Raft knows a leader
          exported,   \* the answer of the last /debug/export
          faults, ingests,
          seen,       \* history: client -> place in the log of its point reads
          ingested    \* history: nodes that took an ingest

replicas == <<log, applied, store, inserting, led>>
vars == <<req, proposed, replicas, exported, faults, ingests, seen, ingested>>

-----------------------------------------------------------------------------
(* The planner.                                                             *)

Single(key) == [type |-> "single", key |-> key]
Broadcast == [type |-> "broadcast"]

analyzeInsert(stmt) ==
  IF stmt.rows = <<>> \/ stmt.rows[1] = <<>> THEN Broadcast   \* an error, see Route
  ELSE Single(stmt.rows[1][1])

(* Mutation: only an equality that is the whole condition is looked for,    *)
(* and never found.                                                         *)
analyzeSelectBroadcasts(stmt) == Broadcast

(* Any equality with a literal, however deep, is taken for the key.         *)
analyzeSelect(stmt) ==
  IF stmt.where \in {"equal", "nested"} THEN Single(stmt.key) ELSE Broadcast

Analyze(stmt) ==
  IF stmt.kind = "insert" THEN analyzeInsert(stmt)
  ELSE IF stmt.kind = "select" THEN analyzeSelect(stmt) ELSE Single(Default)

(* Where the proxy sends a statement: an error of the planner is a          *)
(* broadcast, a hint comes before the plan.                                 *)
Route(stmt, hint) ==
  LET plan == IF hint # NoHint THEN Single(hint) ELSE Analyze(stmt) IN
  IF plan.type = "broadcast" THEN ScatterIDs ELSE {GetShardID(plan.key)}

-----------------------------------------------------------------------------
(* The proxy.                                                               *)

Free == [busy |-> FALSE]

(* An INSERT of a key and a value inside a transaction is buffered by the   *)
(* coordinator and goes no further; a shorter one is like any other INSERT. *)
Buffered(stmt) ==
  stmt.kind = "insert" /\ stmt.txn /\ Len(ParseToPlan(stmt).values) >= 2

(* The bound MaxLog leaves room for one more proposal.                      *)
Room ==
  Len(log) + Cardinality(proposed)
    + Cardinality({c \in Client : req[c].busy /\ req[c].stmt.kind = "insert"}) < MaxLog

(* The newest timestamps a replica has to show.                             *)
Newest(s) == [k \in Key |-> Max({0} \cup DOMAIN s.versions[k])]

(* /execute; what fails to parse is answered at once.                       *)
Submit(c, stmt, hint) ==
  /\ ~req[c].busy
  /\ ParseToPlan(stmt) # NoPlan /\ ~Buffered(stmt)
  /\ stmt.kind = "insert" => Room
  /\ req' = [req EXCEPT ![c] =
       [busy |-> TRUE, stmt |-> stmt, asked |-> Route(stmt, hint), todo |-> Route(stmt, hint),
        rows |-> {}, failed |-> {}, start |-> [n \in Route(stmt, hint) |-> Newest(store[n])]]]
  /\ UNCHANGED <<proposed, replicas, exported, faults, ingests, seen, ingested>>

(* The engine readers meet: an INSERT under way holds its lock.             *)
EngineOf(n) ==
  IF n \in inserting
  THEN LET values == log[applied[n] + 1].stmt.rows[1] IN
       Prepare(store[n], values[1], values, AutoTxn)
  ELSE store[n]

(* The engine after the first i entries of a log.                           *)
EngineAfter(entries, i) ==
  LET engine[j \in 0 .. i] ==
        IF j = 0 THEN NewEngine ELSE Apply(engine[j - 1], entries[j])
  IN  engine[i]

(* The handler of shard n: INSERTs are proposed and answered before they    *)
(* are applied; SELECTs read the replica's own engine.                      *)
Shows(stmt) == stmt.kind = "select" /\ ~stmt.padded
RowsAt(n, stmt) ==
  IF Shows(stmt)
  THEN {[from |-> n, row |-> r] : r \in Execute(ParseToPlan(stmt), EngineOf(n))}
  ELSE {}
Proposal(stmt) ==
  IF stmt.kind = "insert" THEN {[type |-> "SQL", stmt |-> stmt]} ELSE {}

(* Shards whose answer is null: the error of a locked key is dropped.       *)
Nulls(n, stmt) ==
  IF Shows(stmt) /\ Refuses(ParseToPlan(stmt), EngineOf(n)) THEN {n} ELSE {}

(* The places of the log, from the last one on, where a point read would    *)
(* have got the answer it gets at n.  Past the bound: there is none.        *)
Places(c, n, k) ==
  {i \in seen[c] .. Len(log) :
     \E s \in {EngineAfter(log, i)} :
       s.locks[k] = NoLock /\ executePointGet(s, k) = executePointGet(EngineOf(n), k)}
PointRead(c, n, k) == Min({MaxLog + 1} \cup Places(c, n, k))

(* Mutation: the rows of the last shard replace those of the others.        *)
AskKeepsLast(c, n) ==
  /\ req[c].busy /\ n \in req[c].todo /\ n \in led
  /\ req' = [req EXCEPT ![c].todo = @ \ {n}, ![c].rows = RowsAt(n, req[c].stmt)]
  /\ proposed' = proposed \cup Proposal(req[c].stmt)
  /\ UNCHANGED <<replicas, exported, faults, ingests, seen, ingested>>

(* ForwardRequest reaches shard n and its answer comes back.  The handler   *)
(* proposes first, a SELECT too, and waits in Propose for a leader.         *)
Ask(c, n) ==
  LET stmt == req[c].stmt IN
  /\ req[c].busy /\ n \in req[c].todo
  /\ n \in led
  /\ UNCHANGED <<replicas, exported, faults, ingests, ingested>>
  /\ req' = [req EXCEPT ![c].todo = @ \ {n}, ![c].rows = @ \cup RowsAt(n, stmt),
                        ![c].failed = @ \cup Nulls(n, stmt)]
  /\ proposed' = proposed \cup Proposal(stmt)
  /\ seen' = IF Shows(stmt) /\ stmt.where = "equal" /\ Nulls(n, stmt) = {}
             THEN [seen EXCEPT ![c] = PointRead(c, n, stmt.key)] ELSE seen

(* Mutation: the goroutine of a failed request returns without wg.Done; 0   *)
(* stands for what wg.Wait is still waiting for.                            *)
FailSilently(c, n, reached) ==
  /\ req[c].busy /\ n \in req[c].todo
  /\ faults < MaxFaults /\ faults' = faults + 1
  /\ req' = [req EXCEPT ![c].todo = (@ \ {n}) \cup {0}, ![c].failed = @ \cup {n}]
  /\ UNCHANGED <<proposed, replicas, exported, ingests, seen, ingested>>

(* ForwardRequest fails, before or after the shard has had the request,     *)
(* whose handler may propose it even later: the shard is dropped from the   *)
(* answer.                                                                  *)
Fail(c, n, reached) ==
  /\ req[c].busy /\ n \in req[c].todo
  /\ faults < MaxFaults /\ faults' = faults + 1
  /\ req' = [req EXCEPT ![c].todo = @ \ {n}, ![c].failed = @ \cup {n}]
  /\ proposed' = IF reached THEN proposed \cup Proposal(req[c].stmt) ELSE proposed
  /\ UNCHANGED <<replicas, exported, ingests, seen, ingested>>

(* wg.Wait is over and the rows go to the client.                           *)
Answered(c) == req[c].busy /\ req[c].todo = {}

Answer(c) ==
  /\ Answered(c)
  /\ req' = [req EXCEPT ![c] = Free]
  /\ UNCHANGED <<proposed, replicas, exported, faults, ingests, seen, ingested>>

-----------------------------------------------------------------------------
(* The Raft group and the transactions.                                     *)

(* A /txn/ handler, for the coordinator.                                    *)
ProposeTxn(e) ==
  /\ Room /\ e \notin proposed /\ e \notin ToSet(log)
  /\ proposed' = proposed \cup {e}
  /\ UNCHANGED <<req, replicas, exported, faults, ingests, seen, ingested>>

(* Raft commits a proposal.  One that a leader lost, or never got, stays in *)
(* proposed for ever: nobody hears of it.                                   *)
CommitEntry(e) ==
  /\ e \in proposed
  /\ proposed' = proposed \ {e}
  /\ log' = Append(log, e)
  /\ UNCHANGED <<req, applied, store, inserting, led, exported, faults, ingests, seen, ingested>>

(* The next entry of n is an INSERT that meets no foreign lock.             *)
InsertNext(n) ==
  /\ applied[n] < Len(log) /\ log[applied[n] + 1].type = "SQL"
  /\ LET values == log[applied[n] + 1].stmt.rows[1] IN
     values # <<>> /\ ~LockedByOther(store[n], values[1], AutoTxn)

(* engine.Prepare of executeInsert: readers may come before engine.Commit.  *)
InsertPrepare(n) ==
  /\ InsertNext(n) /\ n \notin inserting
  /\ inserting' = inserting \cup {n}
  /\ UNCHANGED <<req, proposed, log, applied, store, led, exported, faults, ingests, seen, ingested>>

(* Mutation: the cursor runs ahead of what was applied.                     *)
ApplyNextSkips(n) ==
  /\ applied[n] < Len(log) /\ (InsertNext(n) => n \in inserting)
  /\ applied' = [applied EXCEPT ![n] = @ + 2]
  /\ store' = [store EXCEPT ![n] = Apply(@, log[applied[n] + 1])]
  /\ inserting' = inserting \ {n}
  /\ UNCHANGED <<req, proposed, log, led, exported, faults, ingests, seen, ingested>>

(* The entry is applied; of such an INSERT this is engine.Commit.           *)
ApplyNext(n) ==
  /\ applied[n] < Len(log) /\ (InsertNext(n) => n \in inserting)
  /\ applied' = [applied EXCEPT ![n] = @ + 1]
  /\ store' = [store EXCEPT ![n] = Apply(@, log[applied[n] + 1])]
  /\ inserting' = inserting \ {n}
  /\ UNCHANGED <<req, proposed, log, led, exported, faults, ingests, seen, ingested>>

(* The leader is lost, for n, and found again.                              *)
LoseLeader(n) ==
  /\ n \in led
  /\ faults < MaxFaults /\ faults' = faults + 1
  /\ led' = led \ {n}
  /\ UNCHANGED <<req, proposed, log, applied, store, inserting, exported, ingests, seen, ingested>>

FindLeader(n) ==
  /\ n \notin led
  /\ led' = led \cup {n}
  /\ UNCHANGED <<req, proposed, log, applied, store, inserting, exported, faults, ingests, seen,
                 ingested>>

-----------------------------------------------------------------------------
(* Migration: a range copied from one engine to another, outside the log.   *)

DebugExport(n) ==
  /\ ingests < MaxIngests
  /\ exported' = Export(store[n], ExportKeys, ExportBeyond)
  /\ UNCHANGED <<req, proposed, replicas, faults, ingests, seen, ingested>>

DebugIngest(n) ==
  /\ exported # NoExport
  /\ ingests < MaxIngests /\ ingests' = ingests + 1
  /\ store' = [store EXCEPT ![n] = Ingest(@, exported)]
  /\ ingested' = ingested \cup {n}
  /\ UNCHANGED <<req, proposed, log, applied, inserting, led, exported, faults, seen>>

-----------------------------------------------------------------------------
Init ==
  /\ req = [c \in Client |-> Free]
  /\ proposed = {} /\ log = <<>>
  /\ applied = [n \in Node |-> 0] /\ store = [n \in Node |-> NewEngine]
  /\ inserting = {} /\ led = Node
  /\ exported = NoExport /\ faults = 0 /\ ingests = 0
  /\ seen = [c \in Client |-> 0]
  /\ ingested = {}

Serve(c) == (\E n \in Node : Ask(c, n)) \/ Answer(c)

Next ==
  \/ \E c \in Client : \E stmt \in Statements(c), hint \in Hints : Submit(c, stmt, hint)
  \/ \E c \in Client : Serve(c)
  \/ \E c \in Client, n \in Node, reached \in BOOLEAN : Fail(c, n, reached)
  \/ \E e \in TxnEntries : ProposeTxn(e)
  \/ \E e \in proposed : CommitEntry(e)
  \/ \E n \in Node : InsertPrepare(n) \/ ApplyNext(n) \/ LoseLeader(n) \/ FindLeader(n)
  \/ \E n \in Node : DebugExport(n) \/ DebugIngest(n)

(* The goroutines of a request run, and a handler that need not wait for a  *)
(* leader answers.  Nothing says that a leader is found, or that a request  *)
(* without one ever fails: the proxy has no timeout.                        *)
Spec ==
  /\ Init /\ [][Next]_vars
  /\ \A c \in Client : WF_vars(Serve(c))

-----------------------------------------------------------------------------
(* Properties.                                                              *)

(* Types of the requests, the log and the replicas.                         *)
TypeOK ==
  /\ \A c \in Client : req[c].busy =>
       /\ req[c].todo \subseteq req[c].asked /\ req[c].asked \subseteq Node
       /\ req[c].failed \subseteq req[c].asked
       /\ \A r \in req[c].rows : r.from \in req[c].asked /\ r.row.key \in Key
  /\ \A n \in Node : applied[n] \in 0 .. Len(log)
  /\ inserting \subseteq Node /\ led \subseteq Node
  /\ \A n \in Node, k \in Key : store[n].locks[k] = NoLock
       \/ DOMAIN store[n].locks[k] = {"txn", "value"}
  /\ faults \in 0 .. MaxFaults /\ ingests \in 0 .. MaxIngests

(* The entry of the log commits value to key k at ts.                       *)
Writes(e, k, ts, value) ==
  \/ e.type = "SQL" /\ e.stmt.rows[1] = value /\ value[1] = k /\ ts = AutoTs
  \/ e.type = "COMMIT" /\ e.key = k /\ e.ts = ts
       /\ \E i \in 1 .. Len(log) : log[i].type = "PREPARE" /\ log[i].key = k
            /\ log[i].txn = e.txn /\ log[i].value = value
  \/ e.type = "ONESHOT" /\ e.ts = ts /\ k \in DOMAIN e.ops /\ e.ops[k] = value

(* shard-node/main.go:177-182, executor.go:101-143: a row a client gets was *)
(* committed by an entry of the log, at its timestamp and with its value: a *)
(* scan, which ignores locks, never shows an intent, and no lost or still   *)
(* uncommitted INSERT is ever seen.                                         *)
RowsCommitted ==
  \A c \in Client : req[c].busy => \A r \in req[c].rows :
    \E i \in 1 .. Len(log) : Writes(log[i], r.row.key, r.row.ts, r.row.value)

(* proxy/main.go:126-200: the answer of a scatter-gather in which no shard  *)
(* failed has, for each shard asked, each key that shard showed when the    *)
(* request began, no older than then, and a key at most once per shard.     *)
ScatterComplete ==
  \A c \in Client :
    Answered(c) /\ Shows(req[c].stmt) /\ req[c].stmt.where # "equal" /\ req[c].failed = {} =>
      \A n \in req[c].asked, k \in Key :
        LET mine == {r \in req[c].rows : r.from = n /\ r.row.key = k} IN
        /\ Cardinality(mine) <= 1
        /\ req[c].start[n][k] > 0 => \E r \in mine : r.row.ts >= req[c].start[n][k]

(* The INSERTs of k that landed on n.                                       *)
Inserts(n, k) ==
  {i \in 1 .. applied[n] :
     /\ log[i].type = "SQL" /\ log[i].stmt.rows[1] # <<>> /\ log[i].stmt.rows[1][1] = k
     /\ ~LockedByOther(EngineAfter(log, i - 1), k, AutoTxn)}

(* shard-node/main.go:101, executor.go:28-61: on a replica, the version at  *)
(* AutoTs of a key is the first row of the last INSERT of that key in the   *)
(* applied log that met no lock, unless an ingest wrote there: an INSERT    *)
(* answered OK is dropped only for a lock or overwritten by a later one.    *)
LastInsertStands ==
  \A n \in Node \ ingested, k \in Key :
    IF Inserts(n, k) = {} THEN AutoTs \notin DOMAIN store[n].versions[k]
    ELSE /\ AutoTs \in DOMAIN store[n].versions[k]
         /\ store[n].versions[k][AutoTs] = log[Max(Inserts(n, k))].stmt.rows[1]

(* planner.go:70-111, router.go:50, executor.go:63-77: the point reads of a *)
(* client, of one key or of several, never go back in time, though replicas *)
(* lag behind each other: one after the other their answers are those of    *)
(* later and later places of the log, none beyond what the replica that     *)
(* gets them has applied.  (A null is no answer.  A replica that took an    *)
(* ingest, which may bring back an overwritten row, promises nothing.)      *)
Home == GetShardID(Default)
MonotonicPointReads ==
  Home \notin ingested => \A c \in Client : seen[c] <= applied[Home]

(* memory.go:67-94,343-351: versions are never removed, and outside AutoTs  *)
(* never rewritten: only INSERTs overwrite in place.                        *)
VersionsKept ==
  [][\A n \in Node, k \in Key : \A ts \in DOMAIN store[n].versions[k] :
       /\ ts \in DOMAIN store'[n].versions[k]
       /\ ts # AutoTs => store'[n].versions[k][ts] = store[n].versions[k][ts]]_store

(* proxy/main.go:153-183, shard-node/main.go:168, router.go:107: every      *)
(* request is answered, whichever shards fail, as long as the shards know a *)
(* leader from some time on.                                                *)
RequestsAnswered ==
  (\A n \in Node : <>[](n \in led)) =>
    \A c \in Client : []<>(~req[c].busy)
=============================================================================
