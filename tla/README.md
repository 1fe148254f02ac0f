# ShardDB: TLA+ models, checks and proofs

ShardDB is a sharded key-value store in Go. A proxy parses SQL, routes by key and
coordinates transactions; each shard is a Raft group whose replicas apply a log to an
in-memory MVCC engine; a meta node, a Raft group of its own, keeps the map from key
ranges to shards. This directory models the engine, the transaction protocol, the range
map, a Raft node with its files, and the path of SQL statements from the proxy to the
replicas; it checks them with TLC and proves with TLAPS, for every value of the
constants, properties of each of them.

## 1. Inventory

| Part | State | Operations | Interacts with |
|---|---|---|---|
| `internal/storage` engine | B-tree of raw keys (user key + inverted timestamp), lock table of write intents | Prepare, Commit, Abort, OnePhaseCommit, Put, GetTxn, Get, Scan, ScanRange, RunGC, Ingest, snapshot and restore | called by the apply loop, `/execute`, `/debug/` handlers; one mutex per call |
| `internal/txn` coordinator | map of transactions: state and buffered writes | Begin, AddWrite, Commit, Abort | called by concurrent proxy handlers; HTTP to the shards, one goroutine per commit or abort |
| `cmd/shard-node` | engine, Raft node | `/txn/*` handlers propose text entries; `Apply` parses and runs them; `/execute`; `/debug/export`, `/debug/ingest` | answers before the entry is applied; engine errors are only logged |
| `internal/meta` | sorted list of ranges, map of shards | REGISTER_SHARD, SPLIT_RANGE, snapshot and restore, GetShard | Raft applier of the meta node |
| `internal/router` | cached ranges, shard addresses | GetShardID, Locate; Refresh is a no-op | proxy and coordinator |
| `internal/raft` | Raft state, log and snapshot; WAL; peers of the transport | Run loop: save, send, apply, snapshot, advance; replay on start; a goroutine per message | etcd/raft (external), applier, other nodes over HTTP |
| `internal/storage/wal` | a file of length, data, checksum records | Append, Iterate | DiskStorage |
| `internal/sql`, `internal/planner`, `cmd/proxy` | requests in flight | parse, plan, execute on the engine; single-shard or scatter-gather routing | router, coordinator, shards |

What is hard here, with the line it bites, is in `hazards` of `PROJECT.json`. The
important ones:

* a shard answers a prepare before it knows whether the lock can be taken, so the vote
  of phase one means little; what survives of atomicity has to be stated with care;
* the coordinator releases its mutex during network calls and does not look at the
  state again, so a second COMMIT or a ROLLBACK slips in between;
* commits and aborts travel in goroutines, unordered, unacknowledged, never retried;
* the engine finds versions by the order of raw keys, which is the order of user keys
  and descending timestamps only as long as no key is a prefix of another;
* Put and INSERT take the mutex twice; a batch must check all keys before it writes one;
* snapshots go through JSON, which cannot carry arbitrary bytes as object keys;
* splits insert into a slice in place, and two different searches read it;
* a crash may come between any two steps of the Ready loop and inside a WAL record, and
  replay has to bring back what messages have promised;
* reads ask one replica's engine, INSERTs are answered before they are applied and all
  carry the timestamp 100, and migrations write to one replica behind Raft's back;
* a handler waits for a leader without a deadline, and the proxy for the handler.

What makes each part correct: the engine's reads return the newest visible version,
intents are exclusive to their owner, a refused call has no effect, collection is
invisible above its bound; the coordinator makes visible only what was decided, all of
it where nobody interferes, and leaves no lock behind; the ranges partition the keys
and both lookups agree; a Raft node keeps its promises and its vote over a crash and
gives its applier every committed command once, in order; a SELECT shows committed rows
only, all a shard had when it was asked, and no client's point reads go back.

## 2. Modules

| Module | Models | State |
|---|---|---|
| `MVCC` | `mvcc.go`: EncodeKey, DecodeKey, without MVCCGet; `bytes.Compare` | none: operators over byte strings |
| `VersionStore` | what the engine promises: per key a map from timestamps to values and at most one intent | `versions`, `intents` |
| `MemoryStore` | `memory.go`: the engine itself | `tree` (raw key to value), `locks`, `putting` (the calls of Put between their two critical sections), `resp` (owner and success of the last call) |
| `Coordinator` | `coordinator.go`, the `/txn/` handlers and the apply loop of `cmd/shard-node`, BEGIN, COMMIT, ROLLBACK and INSERT of the proxy | `txns`, `call` (a goroutine's progress through Commit), `clock`, `net`, `log`, the shards' `versions` and `intents`; history variables `issued`, `unanswered` and `disturbed` |
| `MetaStore` | `meta/store.go` and the lookup of `router.go` | `ranges`, `shards`, `snapshot` |
| `DiskStorage` | `wal.go` and `raft/storage.go`: the file, its records and their replay; the MemoryStorage of etcd/raft (external) | none: operators over a file and a storage |
| `RaftNode` | `raft/node.go` and `raft/transport.go`: NewNode, the Ready loop, crash and restart | `status`, `file`, `mem`, `raft` and `voters` (etcd/raft's), `pc`, `rd` and `todo` (the loop), `state` (the applier); histories `covered`, `promise`, `granted`, `harm`, `crashes` |
| `Applier` | `ApplierAdapter.Apply`, `sql/parser.go`, `sql/executor.go`: what an entry does to a replica and what a SELECT reads from it | none: operators over an engine |
| `SQLPath` | `/execute` of the proxy with planner and router, `/execute` and `/debug/` of the shard nodes, the replicas of one Raft group | `req`, `proposed`, `log`, `applied`, `store`, `inserting` (replicas between the two critical sections of an INSERT), `led` (replicas that know a leader), `exported`; histories `seen`, `ingested` |
| `MemoryStoreProofs` | theorems about `MemoryStore` | |
| `MemoryReadProofs` | theorems about the engine's reads and scans | |
| `MemoryStoreRefinement` | proof that `MemoryStore` implements `VersionStore` | |
| `SetLemmas` | least and greatest elements of sets of naturals and of finite sets | |
| `MetaStoreProofs`, `CoordinatorProofs`, `SQLPathProofs`, `RaftNodeProofs` | theorems about `MetaStore`, `Coordinator`, `SQLPath`, `RaftNode` | |
| `MCMemoryStore`, `MCCoordinator`, `MCMetaStore`, `MCRaftNode`, `MCSQLPath` | instances for TLC | |

`Coordinator` composes the protocol with the engines by their abstract specification
(`INSTANCE VersionStore`); `MemoryStore` is checked and proved to implement that specification, so
the composition rests on the engine that is in the code. Definitions with the comment
"Plausible bug" or "Mutation" are faulty variants of the definition that follows them; no
specification uses them, they exist to show that the properties notice such bugs.

### The engine

Every method runs under `s.mu` and is one action; a refused call is the action's second
disjunct, which only sets `resp`. `Put` is two actions, `PutPrepare` and `PutCommit`.
Puts may cross, though only the engine's tests call Put, one call after the other: they
share the id "legacy", so that a Put's Prepare replaces the intent of another, its
Commit writes whatever value it finds, and the Commit that comes second fails (the second
disjunct of `PutCommit`). The history flag `alone` of a call says that no other Put
has touched the entry of its key since. Reads are
operators: `Seek` is the item `AscendGreaterOrEqual` visits first, `Scan` the walk that
ends at the first item beyond `end`. The traversal of `RunGC` is stated by its effect:
an item is collected if it follows, in an unbroken run of items of the same user key,
another one that is also at or below `safeTs`.

A byte string is a sequence of naturals. The proofs know of `BigEndian` only that it
gives `Width` bytes, preserves order and makes zero bytes of zero (`BigEndianWidth`,
`BigEndianOrder`, `BigEndianZero`); TLC
uses one byte. The bytes of the instance are chosen so that, as in the program, an
inverted commit timestamp begins with a byte above ASCII and the inverted `MaxUint64`
of a read is zero. `Coerce` is what `encoding/json` does to an object key: bytes that
are not valid UTF-8 become U+FFFD, and of keys that collide the last survives.

`MVCCGet` of `mvcc.go` is left out: no code calls it, and it changes nothing. Its comment
(`mvcc.go:39`, `:42`) promises the newest version with "commitTS <= readTs", "(inclusive)";
it hands the encoded start key (`:61`) to `Scan`, which encodes it once more, and so skips
the version at `readTs` itself. `GetTxn`, which the program uses, does not (`ReadsNewest`).

`EngineSpec` has all operations but `RestoreSnapshot`; `Spec` adds it, as the snapshot
of a replica that has applied the same operations.

### The coordinator

`Commit` is split where the code releases the mutex or waits: `StartCommit` (state
check, copy of the writes, grouped by shard: any of `Orders`, for Go walks the map of
shards in any order and keeps the writes of one shard in theirs), `SendPrepare` per
write, `TakeTimestamp`, `Decide` (sets the state and starts the commit goroutines), or
`SendOneShot` and `MarkCommitted` when all keys live on one shard; `AbortCall` after an
error. `Abort` neither checks the state nor waits, in the model as in the code. A
request is an `Outcome`: answered or not, proposed or not, a copy still under way or
not; `Outcomes` says which of them an instance allows, and every one but the reliable
outcome costs one of `MaxFaults`. `net` holds the
requests of goroutines (`Requests`, one per write, equal ones counted), which may also
be lost or repeated if `Lossy`. The log of a shard is one
ordered log, as a Raft group with a stable leader gives it; leader changes show as late
or lost requests. `Apply` runs an entry as the apply loop does, errors included: they
are dropped. `Spaced` are the values that contain a blank, whose PREPARE entry does
not split into four fields and is skipped; its transaction counts as disturbed.

`issued` records each commit sent out, `unanswered` those of them that are one-shots whose
request got no 200: the coordinator aborts these, although the shard may have got them
and then applies them. `Decided` is `issued` without them, what the coordinator itself takes for
committed. `disturbed` has the transactions that met a fault, a
rollback, a second COMMIT or a rival's lock.

The router that ships starts with a single range and never refreshes it, so all keys
live on shard 1 and only the one-shot path runs; the two-phase path needs a router with
more ranges. The instances use keys on two shards, so that both paths occur.

### The range map

Keys are naturals in the order of `bytes.Compare`, 0 the empty string; `Nil` is the nil
slice, unbounded where the code tests for nil and the empty string where it compares.
`GetShard` is the binary search of the meta node, `GetShardID` the linear search of the
router. A SPLIT_RANGE command without a split key is among the commands: it passes the
validation of an unbounded range and leaves a range without a start behind another one
(`SplitKeysGiven` fails), after which two ranges cover the same keys and the two lookups
disagree. The properties say what still holds then, and that restoring an older
snapshot repairs it.

### The Raft node

`RaftNode` is one node; the leaders it hears from are constants, `LeaderLog[t]` the log
of the leader of term t, the last of them the log the group commits. Messages are taken
between two rounds of the loop only: one that arrives during a round changes nothing
but the next Ready. They may be lost, repeated and reordered, since any message a
leader could ever have sent may arrive at any time. etcd/raft is external: `StartNode`
and `RestartNode` give its first state, the `Recv` actions what a message does to it,
`TakeReady` what its next Ready holds, with committed entries in pages of any length,
and `ReadyPanic` and `RecvHeartbeatPanic` where it panics: on a commit index beyond its
log, which a node has that lost entries to an install or a replay. `LeaderLogs`,
`LeadersAgree` and `LogMatching` assume of the leaders' logs what etcd/raft guarantees:
the entry at i has the index i, every log begins with the bootstrap entries, and logs
that agree on an entry agree on all before it.

One round is one action per step of `Run`, in its order: `TakeReady`, `WriteRecord`
(each record Save writes), `Save` (the memory), `Send`, `Apply`, `CreateSnapshot` and
`Compact` when a snapshot is due, `Install` and `Restore` when one was received,
`Advance`. `Crash` may come between any two of them, and inside the Append of the record
that is next (`TornAppend`, after one or two of its three writes; a write cut in its
middle fails Iterate in the same way). It is the process that dies: what was written
stays written. `FailToStart` is a file Iterate refuses, a replay that panics or a
commit index etcd/raft refuses. The applier is a sequence of commands, the one that
forgets least; the values of `harm` are

* `"wiped"`: a snapshot was recorded while the log had entries beyond it. Replay calls
  MemoryStorage.ApplySnapshot, which drops them;
* `"mixed"`: a Ready carried a snapshot and entries, which Save appends to a storage
  that does not have the snapshot yet;
* `"install"`: a crash after the hard state with a received snapshot's commit index was
  written and before the snapshot was recorded (`InstallPending`). A crash before Save has
  written its last record is none.

`PromisedDurable`, `ReplayFaithful`, `DeadOnlyIf`, `AppliedInOrder` and `AppliedCursor`
hold as long as none of the harms they name happened, and TLC reaches each of them: they
are the exact list of what breaks durability in this loop. Two more facts the module
carries: configuration changes are never applied, so a node restarted without a
snapshot has no voters and never stands for election; and snapshots name the voters 1,
2, 3, so a meta node, id 10, is not among them. The second is a disjunct of
`ElectableUnlessRestarted` that the runs, whose node is 1, do not reach; the theorem
covers it.

### The SQL path

`start_cluster.ps1` makes the router's shards 1, 2 and 3 the replicas of one Raft group,
and so does `SQLPath`; the instance has two of them. Raft is what it does to a proposal:
it is committed, in any order, or stays in `proposed` for ever, when the leader loses it.
Equal proposals outstanding at the same time count once, and proposals of SELECTs, which
change nothing, are left out. A statement is a syntax tree; `Submit` is the proxy's
handler up to the requests, with the transactional INSERTs that are buffered left to
`Coordinator`; `Ask` and `Fail` are one ForwardRequest each, a failed one having reached
the shard or not; `Answer` ends the request. The handler of a shard proposes every
statement first, SELECTs too, and waits in Propose while its node knows no leader: `Ask`
is enabled only for the nodes in `led`, which `LoseLeader` and `FindLeader` change. `TxnEntries` are the entries a
transaction's coordinator proposes. `Applier` writes a row as the code does: only the
first row of an INSERT, the key among the joined values, under the id `auto-100` at
timestamp 100 (`AutoTs`, 1 in the instance, below the timestamps of transactions). A
SELECT with an equality as its whole condition is a point get, which sees locks; every
other one is a scan, which does not, and whose condition filters nothing.

`executeInsert` takes the engine's mutex twice. `InsertPrepare` is the first critical
section, `ApplyNext` the second; in between (`inserting`) readers meet the engine with the
INSERT's own lock (`EngineOf`). A point get of a locked key is an error that the handler
drops: its answer is `null`, no answer for the properties (`Nulls`: the shard counts as
failed). A point get also finds nothing when a longer key that begins with the key is
stored (`Shadowed`): the longer key's items stand before those of the key, since text has no
byte as great as the first of an inverted timestamp, and `mvccGetLocked` stops at the first
item. `Export` is the walk of ScanRange for such keys: it begins with the keys that the
start of the range extends, and ends at the first key beyond the end, so that it misses a
key in the range that such a key extends.

`seen` is the place in the log of a client's point reads: each read moves it to the first
place, from the last one on, whose engine would have given the same answer (`PointRead`).
`MonotonicPointReads` says that there always is one, within what the replica has applied.
It is about values as well as timestamps, all INSERTs having the same. A replica that took
an ingest is excepted: the ingest may bring back a row that an INSERT overwrote.

The assumptions of the module say what its constants stand for: `PathRouting`, every
key is routed to the first node, as the one seeded range of the router gives it;
`PathTimestamps`, no two entries of transactions write one key at one timestamp, and
none at timestamp 100, which the clock of the coordinator is past; `PathNoLock`, the
intent of an INSERT is a lock; `PathStatements`, `PathEntries` and `PathAutoTs`, the types
of statements, entries and timestamps; `PathLonger`, a key is not longer than itself, and no
key is both exported and beyond the end. Engines are maps of versions, as `VersionStore`
promises; `ReadsNewestUnlessShadowed` and `TableScanNewest` confirm what point gets and
scans make of them, keys that are prefixes of one another included. A replica here never
installs a Raft snapshot, which would rewrite its raw keys (`RestoreKeepsReads`): `VersionsKept`
and the others are about replicas fed by the log.

## 3. Runs

| Run | Checks | Shows | Distinct states |
|---|---|---|---|
| `memory_locks` | TypeOK, PutHoldsIntent, PutLeavesNoIntent, ReadsNewestUnlessShadowed, TableScanNewest, IntentOwner, RefusalChangesNothing | locks and reads under every operation, two Puts that cross and restores included, with keys that are prefixes of each other | 234 000 |
| `memory_reads` | ReadsNewest, ScanRangeExact, GCComplete, GCPreservesReads, ImplementsVersionStore | with prefix-free keys, reads in encoded order are reads of versions, and the engine refines `VersionStore` | 12 000 |
| `memory_restore` | RestoreKeepsReads, violated | a restored snapshot does not answer as before | |
| `coordinator_contention` | TypeOK, CommittedOnly, AtomicUnlessDisturbed, IntentsReleased | two rivals, one request that may fail before or after it was proposed | 200 000 |
| `coordinator_faults` | CommittedOnly, AtomicUnlessDisturbed | two rivals, one lost, late, repeated or failed request | 1 600 000 |
| `coordinator_double` | CommittedOnly, IntentsReleased | two COMMITs and a ROLLBACK of one transaction, a value that cannot be prepared | 395 000 |
| `coordinator_rivals` | AllOrNothing, violated | two rivals each commit half | |
| `meta_store` | TypeOK, CoveredOnce, LookupsAgree, SplitMovesOnlyTarget | splits, with a missing split key too, and restores keep the keys covered and the partition where it can be kept | 57 000 |
| `raft_node` | TypeOK, PromisedDurable, OneVotePerTerm, ReplayFaithful, DeadOnlyIf, AppliedInOrder, AppliedCursor, ElectableUnlessRestarted | a node under conflicting leaders, snapshots and a crash anywhere | 2 050 000 |
| `raft_pages` | AppliedInOrder | a longer log: several pages of entries after a compaction, a Ready with a snapshot and entries | 192 000 |
| `raft_restart` | StateRestored, violated | a restart after a snapshot starts the applier empty | |
| `sql_path` | TypeOK, RowsCommitted, ScatterComplete, LastInsertStands, MonotonicPointReads, VersionsKept, RequestsAnswered | INSERTs and SELECTs beside two transactions, on replicas that lag, with a key that is a prefix of the other, an export, an ingest, and a failed request or a lost leader | 419 000 |

The violated properties say what a comment or document of the repository says; the
findings in `PROJECT.json` quote it. Several passing properties describe behaviour a
reader would not expect, as exactly as it can be said: `PutHoldsIntent` (a Put may
write the value of another), `CommittedOnly` (an aborted one-shot may be there), `ReadsNewestUnlessShadowed`
(with keys such as `u1` and `u10` a point read may find nothing, but never an older
version, where a table scan is right), `CoveredOnce` (see above), `LastInsertStands` (an
INSERT answered OK is lost to a lock, a transaction's version, always newer than
timestamp 100, hides it, and an INSERT of one value escapes the transaction it is in).

Bounds. Two keys, two transactions, two values and two commit timestamps (with
imports at a further one) reach every conflict of the engine: own and foreign intents,
a key written twice by a batch, two Puts of one key, versions on both sides of a read or of `safeTs`. The
protocol needs two keys on two shards, two writes per transaction (two keys, or one key
twice), two timestamps, as many as there are decisions, and one fault, since each
property of the fault run protects the transactions without one. Rivals write values
of their own so that a value shows whose it is. Five keys, four ranges and two shard
numbers let a split hit the first, a middle and the last range, at a boundary, at the
empty key, at no key, and after a restore of an older snapshot. The Raft node has two
leaders that disagree on the entry after the two of the bootstrap, and one entry more;
a snapshot is due two entries after the first index instead of fifty-one; seven records in the
file (`MaxRecords` stops the messages, not the loop) are enough for a snapshot, entries
after it, and a heartbeat beyond what a replay kept. One crash, wherever it comes, is
what these messages leave room for. `raft_pages` has two entries and three records more,
and no crash: a snapshot is taken, and entries committed after it come in one page or in
two, beside a received snapshot too. The SQL path has a client that
writes one key, with one value or with a row too many, and reads it, another key that extends
it, or the table; a transaction that prepares and commits and one in a single entry, two
proposals in the log, one fault (a failed request or a lost leader) and one ingest: an INSERT
meets a lock or a newer version, a read a half-done INSERT, a scan an intent, an ingest an
entry not yet applied.
What longer logs and the other statements could add is left to the theorems, which hold
for all of them. Transactions of the engine are
interchangeable (`TxnSymmetry`); liveness runs use no symmetry. `CHECK_DEADLOCK` is off
for the coordinator, the Raft node and the SQL path, whose behaviours end when all
transactions are through, the node is dead, or the bounds are used up.

Fairness. `FairSpec` assumes that a goroutine serving a COMMIT goes on, that requests
under way arrive, and that a shard applies what is in its log: the Go scheduler, a
working network and a Raft group with a stable leader. It assumes nothing of clients,
and the liveness runs allow a request to fail but none to be lost or late, because a
lost commit or abort is never retried, and a prepare that arrives after the abort is
never undone: both really leave a lock for ever. `SQLPath` assumes that the goroutines
of a request run and that the handler of a shard that knows a leader answers (`Serve`).
Nothing is assumed of failures: `http.DefaultClient` has no timeout, so that a request whose
handler waits in Propose may never fail and keeps the client waiting. Nor is it assumed
that a leader is ever found: `RequestsAnswered` has this as its condition, every shard
knows a leader from some time on. Without it the property does not hold.

## 4. Proofs

`MemoryStoreProofs` proves, for all keys, values, transactions, batches, imports and
timestamp widths that satisfy the named assumptions of `MVCC` and `MemoryStore`:

* `TypeCorrect`: `Spec => []TypeOK`. `TypeOK` is inductive. The interesting part is the
  tree: it only ever holds raw keys that decode; a batch writes the last value given
  for each key (`WrittenType`, by `BoundedMax`).
* `IntentOwnership`: `Spec => IntentOwner`, from `OwnerStep`, one case per operation.
* `PutSafe`: `Spec => []PutHoldsIntent`, for any number of Puts under way. Inductive with
  `TypeOK`: a step that changed the intent of a Put would be a step of its owner, no client
  has the id "legacy", and a Put of the same key ends `alone`.
* `PutsRelease`: `Spec => []PutLeavesNoIntent`: the intent is always that of the Put whose
  Prepare came last, and that Put goes only with it or when it is gone.
* `Refusals`: `Spec => RefusalChangesNothing`.
* `GCSafe`: `Spec => GCPreservesReads`, also for keys that are prefixes of one another.
  `DecodeEncode` shows that a raw key determines its key and timestamp, `NewerFirst`
  that among versions of one key encoded order is descending timestamp order, from
  `BigEndianOrder`; so what `RunGC` collects is hidden by a version that is newer and
  still at or below `safeTs` (`GarbageIsHidden`), and the newest version visible at any
  timestamp from `safeTs` up stays (`GCKeepsNewest`).

`MemoryReadProofs` proves what the engine's reads return. It first shows that
`bytes.Compare` is a strict total order (`LexAsymmetric`, `LexTransitive`, `LexTotal`),
that what lies between two strings with a common prefix has that prefix (`Between`), and
that the order of user keys is the order of their raw keys unless the smaller one is a
prefix of the larger (`KeyOrder`). Then, for all keys, imports and restores:

* `ReadsNewestOrNothing` (`ReadsNewestUnlessShadowed`): the first item at or after the
  encoded key is the newest visible version if it belongs to the key (`FirstIsNewest`);
  if it does not, an item stands before that version whose key extends the key read or
  is a prefix of it (`FirstOrShadow`). The second case was found by the proof: with
  timestamps of more than one byte a shorter key whose timestamp begins with the rest of
  the longer key also shadows it.
* `TableScansExact` (`TableScanNewest`): no item with the table's prefix is before the
  start, since zero is all zero bytes (`ScanStart`, `BigEndianZero`), or after a stop,
  since keys are text and have no byte 0xFF (`ScanEnd`, `TextAssumption`).

And for `EngineSpec` and keys, imported ones included, none of which is a prefix of
another (`PrefixFree`, true of the instance of `memory_reads`): `PointReadsNewest`
(`ReadsNewest`), `ExportsExact` (`ScanRangeExact`) and `CollectsAll` (`GCComplete`). They rest on the invariant that
the tree holds versions of those keys only (`StoredOnly`), which a restore breaks: JSON
makes longer keys.

`MemoryStoreRefinement` proves `EngineImplementsStore`: `EngineSpec =>
ImplementsVersionStore`. The mapping sends the tree to, for each key, the versions
whose encoding it holds. `EncodeInjective` (from `DecodeEncode`) is what makes it work:
a write at one key touches the versions of no other, prefixes included
(`InsertVersions`, `WriteVersions`), and what a collection drops is hidden by a version
it keeps (`CollectVersions`). `RefinementStep` then has one case per operation; a
refused call is a stutter. `RestoreSnapshot` is outside `EngineSpec`: the abstract store
has no step that brings back old versions while it keeps the intents.

Assumptions worth knowing: every raw key in a tree, imported or restored ones included,
is long enough to carry a timestamp (`RawKeyAssumption`); user keys are text, with no byte
0xFF (`TextAssumption`); `NoLock` is no lock; the id
"legacy" is no client's.

`MetaStoreProofs`, for any number of ranges, keys and shards: `TypeCorrect`,
`EveryKeyCovered` (`CoveredOnce`), `SameAnswers` (`LookupsAgree`) and `SplitLocal`
(`SplitMovesOnlyTarget`). The inductive invariant (`Inductive`) is that the ranges in
force, and those of the last snapshot, are a chain: the first starts at nil, each ends
where the next starts, the last ends at nil; and sorted: ranges without a start come
first, the starts of the others increase. None of the properties is inductive without
it: the split of one range in an arbitrary list could cover keys twice. A split with no
key keeps both parts and adds a range without a start, so every key stays covered; with
one such range only, the order is what makes the binary search find the only range that
contains a key (`FoundOnly`).

`CoordinatorProofs`, for any transactions, keys, shards, callers, faults and bounds:

* `Traced`, the inductive invariant `CInv`: what a call carries was buffered before by
  its transaction (`BufferedFirst`); every entry in a log or under way carries such a
  write, and every COMMIT or one-shot entry a commit that was issued (`EntriesBacked`); every intent
  holds a buffered value (`IntentsBacked`). `TypeCorrect` and `OnlyCommittedVisible`
  (`CommittedOnly`) follow. They hold whatever is lost, late, repeated or rolled back:
  an entry that is applied out of turn still stems from somewhere.
* `Progressing`, the inductive invariant `AInv`: beyond `CInv`, a log holds entries of
  its own keys, a commit timestamp belongs to one decision, and for every transaction
  that nothing disturbed, how far each of its keys has come. Before the decision: no
  COMMIT or ABORT of it anywhere, its prepares sent so far are in the log in their
  order or applied to an intent that holds its latest value. After it: the key's commit is
  under way, or in the log behind the prepares, or applied, and then the version is
  there. `UndisturbedAtomic` (`AtomicUnlessDisturbed`) is what this says of a transaction
  with nothing left under way.

`SQLPathProofs`, for any clients, replicas, statements, transactions' entries and
bounds:

* `TypeCorrect`, from the stronger `Typed`, which knows the shape of requests, rows,
  engines and exports.
* `ReadsMonotonic` (`MonotonicPointReads`): the replica that all point reads reach, as long as
  it took no ingest, is the log replayed up to its place (`ReplicasReplay`), so that place
  itself answers as it does; a read between the halves of an INSERT either meets its lock,
  and is no answer, or finds what the place before has (`PointReadIs`, `PlaceFits`). The
  place a client has seen is thus never beyond the replica's (`SeenStep`, `ReadsStep`). This
  rests on `PathRouting`: if point reads of
  one key could reach two replicas, one of them may lag behind what the other showed.
* `RowsFromLog` (`RowsCommitted`): every version of every replica and of the last export
  is written by an entry of the log, every lock was prepared by one (`StoreStems`).
* `ScatterMissesNothing` (`ScatterComplete`): by induction over the shards that have
  answered, the gathered rows have what each showed at the start, once (`Gathered`);
  shards not yet asked have only grown.
* `VersionsStay` (`VersionsKept`), from `ReplicasFollowLog`: there is one history of locks,
  the state of the lock table after each entry of the log, such that every replica has
  the locks of its place in it, and every version outside `AutoTs`, also one that came
  by an ingest from a replica ahead, is what one entry writes under the locks of that
  entry's place. Two replicas that apply an entry therefore write the same value, and an
  entry that meets its own version, ingested before, rewrites it with itself. Neither
  the versions of a replica nor its locks alone would be an inductive invariant.
* `ReplicasReplay`: a replica that took no ingest is the log replayed up to its place,
  versions and locks; replicas at one place are equal. `EngineAfter` is a recursive
  function over the places of the log; that it exists, and is `Apply` of its value one
  place before (`EngineAfterIs`), is proved by least counterexamples, and so is what
  `InsertsStand` (`LastInsertStands`) says of it (`LogStands`): an INSERT that meets no
  lock writes its row (`InsertLands`), any other entry leaves the version at `AutoTs`
  alone (`InsertMisses`).

`RaftNodeProofs`, for any leaders' logs that begin with the bootstrap entries, any peers,
candidates, snapshot distance and bounds:

* What a file replays to. `ReplayFirst` is a recursive function over the records; that
  it exists, depends on the records before its place only and takes one step per record
  (`ReplayFirstIs`, `ReplayAppend`) is proved by least counterexamples. A file with a
  torn record at its end is refused by Iterate, and stays refused (`TornUnread`).
* `Invariance`, the inductive invariant `Inv`: the shapes of memory, Ready and etcd/raft's
  state (`Shapes`); what is left to write of the Ready in hand (`InRound`); while the
  node runs, the replay of its file has the term and the vote of the last Ready, or the
  record that will give it both is still to be written (`Running`); and whatever the
  replay finds stands by the votes sent (`Stored`). The last needs one fact that is far
  from obvious: NewNode starts a node anew, vote forgotten, when the replayed log is
  empty, whatever the hard state says. `IsStored` has it that a file which replays to no
  log has no hard state, or one whose commit index makes etcd/raft refuse to start.
* `TypeCorrect`, and `VotesUnique` (`OneVotePerTerm`): whatever crashes, torn writes,
  panics and restarts there are, no term sees two votes of this node.
* `CursorStays`, and from it `NothingPassedOver` (`AppliedCursor`): the applier's place,
  stage by stage of the round (`Cursor`), is what etcd/raft counts as applied when the
  round ends.
* `Electable` (`ElectableUnlessRestarted`), for instances that count crashes at all
  (`MaxCrashes # 0`; the history variable stops at its bound).
* `Pacing`, an invariant on top of `Inv` that holds after the harm `"wiped"` too: the memory
  beside etcd/raft's state at every stage of a round (`Paced`), with the same hard state, a
  commit index inside the log (`Level` before the Save, `Settled` after it) and a compaction
  that stays behind the applied index.
* `Mirroring`, on top of the two: while no harm has happened, the replay of the file and the
  memory are related at every stage of the round (`Filed`). Until the Save is done the file
  is ahead by the w records already written, and its replay is the memory with the first w
  entries appended (`Partly`): Save appends them together, a replay one by one, and that
  comes to the same (`AppendOne`). Around a snapshot the memory is ahead by the one record
  in `todo`. In between they are equal, so that every file a stopped node leaves can be
  started from (`LeavesStartable`), a pending install excepted. `RestartFindsAll`
  (`ReplayFaithful`) and `DeadForAReason` (`DeadOnlyIf`) follow.
* `FileBehind`: after `"wiped"` the replay is no longer the memory, but as far as it reads it
  has the same entries, hard state and compaction (`Trails`), or it fails. Appending one
  record to both keeps it so (`TrailsEntry`), which is why a node restarted from such a
  file runs with a shorter log and not with a different one.
* `AgreedStays`: that the log is right is not inductive by itself, since a heartbeat commits
  what was acknowledged to one leader and an entry of another replaces a tail. `Agreed` says
  that the log etcd/raft sees (`View`) is one a leader had, is the group's up to the commit
  index, and nowhere contradicts what was acknowledged; that the memory's is so with the
  commit index of the last Ready until the Save, and is the view after it, a snapshot still
  to be installed excepted; and that a stopped node leaves such a log. With `LogMatching`,
  an entry that matches a leader's makes the log before it that leader's (`SameLine`). None
  of this says how long the log is, so it survives `"wiped"`.
* `AckedStays` adds the length, while no harm has happened, and `PromisesKept`
  (`PromisedDurable`) follows: the view reaches as far as what was acknowledged, until the
  Save the memory does already, since the entries to be saved begin behind it, and so does
  what a stopped node leaves, a node that died between two records of a Save included.
* `AppliesInOrder` (`AppliedInOrder`), from `Pacing`, `CursorStays` and `AgreedStays`. `Ordered`
  says that the applier's state is the commands of the group's log from where it began to
  where it is, that the committed entries in hand are the group's that follow the applied
  index (`NextPage`: they come from a log that is the group's up to the commit index), and
  that a leader's snapshot has the state of the entries it stands for (`TrueSnapshot`).
  `Commands` is a recursive function over the entries; that it exists and has one value
  (`TallyExists`, `TalliesAgree`), and that the commands of two pieces of a log put together
  are those of the whole (`CommandsConcat`), is proved by least counterexamples.

`SetLemmas` has what the proofs share: a nonempty set of naturals has a least element, a
bounded or finite one a greatest.

Only model-checked:

* liveness, `IntentsReleased` and `RequestsAnswered`: the prover does not handle
  fairness. They are the only properties of the passing runs that no theorem states.

## 5. Plan

Done: `MVCC`, `VersionStore`, `MemoryStore`, `Coordinator`, `MetaStore`, `DiskStorage`,
`RaftNode`, `Applier` and `SQLPath`, and a theorem for each safety property of the passing
runs. Open are the hazards that `PROJECT.json` lists with a note and without a property.

## 6. Not modelled

* The text of SQL and its parser (vendored), result formatting, metrics, command-line
  tools, flags and process wiring: no state the properties depend on.
* etcd/raft, the B-tree, JSON and HTTP are external, modelled by what the code relies
  on. The protocol between several nodes is etcd/raft's; `RaftNode` has one node and the
  messages it may get, `SQLPath` the replicas and the log they agree on.
* The storage wrapper for nodes without a WAL: both programs set a WAL path.
* Errors of the disk: Save ends the process on one, which is a crash; CreateSnapshot and
  ApplySnapshot log it and go on.
* Lock tables across a snapshot between replicas: a restored replica keeps the locks of
  its past. It needs engine and Raft node in one model, beyond what TLC can enumerate.
* Wall-clock timestamps are distinct and increasing; clocks that repeat or step back are
  listed as a hazard.
* `MVCCGet`, which nothing calls (section 2, the engine).
* The background collection loop, which only logs; `RunGC` itself is modelled.
