----------------------------- MODULE RaftNode -----------------------------
(* One node of a Raft group: internal/raft/node.go, the Ready loop over the *)
(* DiskStorage, with internal/raft/transport.go at its edge and crashes and *)
(* restarts of the process.                                                 *)
(*                                                                          *)
(* The protocol is etcd/raft's (external): the variable raft is the part of *)
(* its state that decides what the next Ready holds, and the Recv actions   *)
(* are the messages the leaders of LeaderLog may send; they may be lost,    *)
(* repeated or late.  The applier keeps the commands it was given, in their *)
(* order: of all deterministic appliers it forgets least.                   *)
EXTENDS DiskStorage, FiniteSets, FiniteSetsExt

CONSTANTS ID,            \* this node
          Peers,         \* cfg.Peers
          Known,         \* ids in the transport's peer map
          LeaderLog,     \* LeaderLog[t]: what the leader of term t has
          NoOp,          \* the command of a configuration change
          SnapshotGap,   \* 50 in the code
          Candidates,    \* peers that ask for votes, this one perhaps
          MaxRecords,    \* bound: records in a file that still gets messages
          MaxCrashes     \* bound: crashes

Term == 1 .. Len(LeaderLog)
GroupLog == LeaderLog[Len(LeaderLog)]
Index == 1 .. Len(GroupLog)
Entry == UNION {ToSet(LeaderLog[t]) : t \in Term}
DefaultVoters == {1, 2, 3}

ASSUME NodeBounds == {SnapshotGap, MaxRecords, MaxCrashes} \subseteq Nat
ASSUME NodeID == ID \in Peers /\ IsFiniteSet(Peers) /\ Candidates \subseteq Peers /\ None \notin Peers
ASSUME LeaderLogs ==
  /\ LeaderLog \in Seq(Seq(Entry)) /\ LeaderLog # <<>>
  /\ \A t \in Term : /\ Cardinality(Peers) <= Len(LeaderLog[t])
                     /\ \A i \in 1 .. Len(LeaderLog[t]) : LeaderLog[t][i].index = i
ASSUME LeadersAgree ==
  \A t \in Term, i \in 1 .. Cardinality(Peers) :
    LeaderLog[t][i] = [index |-> i, term |-> 1, cmd |-> NoOp]
ASSUME LogMatching ==
  \A t, u \in Term : \A i \in Index :
    /\ i <= Len(LeaderLog[t]) /\ i <= Len(LeaderLog[u])
    /\ LeaderLog[t][i] = LeaderLog[u][i]
    => \A j \in 1 .. i : LeaderLog[t][j] = LeaderLog[u][j]

VARIABLES status,     \* "up", "down", or "dead": it cannot start any more
          file,       \* the WAL file
          mem,        \* the MemoryStorage
          raft,       \* etcd/raft's volatile state
          voters,     \* the configuration etcd/raft works with
          pc,         \* where the Ready loop is
          rd,         \* the Ready in hand
          todo,       \* records to write before the next step of the loop
          state,      \* the applier's state: commands, in order
          covered,    \* history: the indexes that state stands for
          promise,    \* history: the log acknowledged last, to which leader
          granted,    \* history: votes sent, as <<term, candidate>>
          harm,       \* history: what happened that durability cannot survive
          crashes     \* history: crashes so far, up to MaxCrashes

disk == <<file, mem, todo>>
history == <<covered, promise, granted, harm, crashes>>
vars == <<status, file, mem, raft, voters, pc, rd, todo, state,
          covered, promise, granted, harm, crashes>>

-----------------------------------------------------------------------------
(* The log etcd/raft sees: the storage, a pending snapshot, the entries not *)
(* yet handed to a Ready.                                                   *)

LastOf(r, m) ==
  IF r.unst # <<>> THEN Last(r.unst).index
  ELSE IF r.snap # NoSnapshot THEN r.snap.index ELSE LastIndex(m)

FirstOf(r, m) == 1 + IF r.snap # NoSnapshot THEN r.snap.index ELSE m.offset

(* The entry at i; a compacted one is the group's.                          *)
EntryAt(r, m, i) ==
  IF r.unst # <<>> /\ i >= r.unst[1].index THEN r.unst[i - r.unst[1].index + 1]
  ELSE IF i < FirstOf(r, m) THEN GroupLog[i] ELSE m.ents[i - m.offset]

LogView == [i \in 1 .. LastOf(raft, mem) |-> EntryAt(raft, mem, i)]

(* raftLog.matchTerm, for the entry a leader has at i.                      *)
Matches(t, i) ==
  i > 0 => i <= LastOf(raft, mem) /\ EntryAt(raft, mem, i) = LeaderLog[t][i]

(* The entries of leader t that the group commits.                          *)
Committable(t) ==
  {i \in Index : i <= Len(LeaderLog[t])
                   /\ SubSeq(LeaderLog[t], 1, i) = SubSeq(GroupLog, 1, i)}

Commands(es) ==
  LET cmds[i \in 0 .. Len(es)] ==
        IF i = 0 THEN <<>>
        ELSE IF es[i].cmd = NoOp THEN cmds[i - 1] ELSE Append(cmds[i - 1], es[i].cmd)
  IN  cmds[Len(es)]

(* The part of a log that still stands beside another one.                  *)
CommonPrefix(log, other) ==
  SubSeq(log, 1, Max({0} \cup {i \in 1 .. Len(log) :
    i <= Len(other) /\ SubSeq(log, 1, i) = SubSeq(other, 1, i)}))

-----------------------------------------------------------------------------
(* Start and restart.                                                       *)

Idle == [ents |-> <<>>, hs |-> NoHardState, commits |-> <<>>,
         snap |-> NoSnapshot, ack |-> FALSE, grants |-> {}]

(* raft.StartNode: one committed configuration change per peer.             *)
StartNode ==
  [term |-> 1, vote |-> None, unst |-> SubSeq(GroupLog, 1, Cardinality(Peers)),
   snap |-> NoSnapshot, committed |-> Cardinality(Peers), applied |-> 0,
   hs |-> NoHardState, ack |-> FALSE, grants |-> {}]

(* raft.RestartNode: everything from the storage, applied at its snapshot.  *)
RestartNode(m) ==
  [term |-> m.hs.term, vote |-> m.hs.vote, unst |-> <<>>, snap |-> NoSnapshot,
   committed |-> Max({m.hs.commit, m.offset}), applied |-> m.offset,
   hs |-> m.hs, ack |-> FALSE, grants |-> {}]

(* RestartNode panics on a commit index outside the log.                    *)
CommitInLog(m) ==
  m.hs = NoHardState \/ m.hs.commit \in m.offset .. LastIndex(m)

Starts(f) == Iterate(f).ok /\ Replay(f).ok /\ CommitInLog(Replay(f))

Init ==
  /\ status = "up" /\ file = <<>> /\ mem = NewMemoryStorage
  /\ raft = StartNode /\ voters = Peers
  /\ pc = "ready" /\ rd = Idle /\ todo = <<>> /\ state = <<>>
  /\ covered = [from |-> 0, to |-> 0]
  /\ promise = [log |-> <<>>, term |-> 0]
  /\ granted = {} /\ harm = {} /\ crashes = 0

(* NewNode fails, or the process dies of a panic: log.Fatalf in main.       *)
FailToStart ==
  /\ status = "down" /\ ~Starts(file)
  /\ status' = "dead"
  /\ UNCHANGED <<disk, raft, voters, pc, rd, state, history>>

(* Mutation: the configuration in the snapshot is not read.                 *)
RestartUnconfigured ==
  /\ status = "down" /\ Starts(file)
  /\ status' = "up"
  /\ mem' = Replay(file)
  /\ raft' = RestartNode(mem') /\ voters' = {}
  /\ covered' = [from |-> mem'.offset, to |-> mem'.offset]
  /\ UNCHANGED <<file, pc, rd, todo, state, promise, granted, harm, crashes>>

(* NewNode.  The applier is new; a stored snapshot is not handed to it.     *)
Restart ==
  /\ status = "down" /\ Starts(file)
  /\ status' = "up"
  /\ mem' = Replay(file)
  /\ IF LastIndex(mem') > 0
     THEN raft' = RestartNode(mem') /\ voters' = mem'.snap.voters
     ELSE raft' = StartNode /\ voters' = Peers
  /\ covered' = [from |-> mem'.offset, to |-> mem'.offset]
  /\ UNCHANGED <<file, pc, rd, todo, state, promise, granted, harm, crashes>>

(* The hard state that counts on a snapshot from the leader is in the WAL,  *)
(* and the snapshot is not yet.                                             *)
InstallPending ==
  /\ rd.snap # NoSnapshot /\ pc \notin {"ready", "advance"}
  /\ ~(pc = "save" /\ todo # <<>>)

(* What is left when the process ends: the file.                            *)
Stop(f) ==
  /\ status' = "down" /\ file' = f
  /\ mem' = NewMemoryStorage /\ raft' = StartNode /\ voters' = {}
  /\ pc' = "ready" /\ rd' = Idle /\ todo' = <<>> /\ state' = <<>>
  /\ covered' = [from |-> 0, to |-> 0]
  /\ harm' = harm \cup IF InstallPending THEN {"install"} ELSE {}
  /\ crashes' = Min({crashes + 1, MaxCrashes})
  /\ UNCHANGED <<promise, granted>>

(* The process is killed, between two writes or inside an Append.           *)
Crash ==
  /\ status = "up" /\ crashes < MaxCrashes
  /\ \E n \in 0 .. 2 :
       /\ n > 0 => todo # <<>>
       /\ Stop(IF n = 0 THEN file ELSE TornAppend(file, Head(todo), n))

-----------------------------------------------------------------------------
(* HTTPTransport.Handler and Node.Step: messages reach etcd/raft.  They are *)
(* taken between two rounds of the loop; one that arrives during a round    *)
(* changes only what the next Ready holds.                                  *)

Receive ==
  status = "up" /\ pc = "ready" /\ Len(Iterate(file).records) < MaxRecords

Received(r) ==
  /\ raft' = r
  /\ UNCHANGED <<status, disk, pc, rd, state, covered, granted, harm, crashes>>

(* A message of term t: a later term forgets the vote.                      *)
AtTerm(t) == IF t > raft.term THEN [raft EXCEPT !.term = t, !.vote = None] ELSE raft

(* The entries of es, which have successive indexes, before index i.        *)
Before(es, i) == IF es = <<>> THEN <<>> ELSE SubSeq(es, 1, i - es[1].index)

(* Leader t sends its entry i, with a commit index: the entry replaces a    *)
(* conflicting tail.                                                        *)
RecvEntry(t, i, commit) ==
  LET e == LeaderLog[t][i]
      r == AtTerm(t)
      appended == IF Matches(t, i) THEN r ELSE [r EXCEPT !.unst = Before(@, i) \o <<e>>]
  IN
  /\ Receive
  /\ t >= raft.term /\ i <= Len(LeaderLog[t]) /\ i > raft.committed
  /\ Matches(t, i - 1)
  /\ commit = i => i \in Committable(t)
  /\ Received([appended EXCEPT !.committed = Max({@, commit}), !.ack = TRUE])
  /\ promise' = [promise EXCEPT !.log = IF Matches(t, i) THEN @
                   ELSE SubSeq(@, 1, Min({Len(@), i - 1}))]
  /\ UNCHANGED voters

(* A heartbeat of leader t, which counts on what was acknowledged to it.    *)
HeartbeatCommit(t, c) ==
  /\ Receive
  /\ t >= raft.term /\ t = promise.term
  /\ c > raft.committed /\ c <= Len(promise.log)
  /\ c \in Committable(t) /\ promise.log[c] = LeaderLog[t][c]

RecvHeartbeat(t, c) ==
  /\ HeartbeatCommit(t, c) /\ c <= LastOf(raft, mem)
  /\ Received([AtTerm(t) EXCEPT !.committed = c])
  /\ UNCHANGED <<promise, voters>>

(* The commit index is beyond the log: etcd/raft panics.                    *)
RecvHeartbeatPanic(t, c) ==
  /\ HeartbeatCommit(t, c) /\ c > LastOf(raft, mem)
  /\ Stop(file)

(* Leader t sends a snapshot of the first i entries.                        *)
RecvSnapshot(t, i) ==
  LET s == [index |-> i, term |-> GroupLog[i].term, voters |-> DefaultVoters,
            data |-> Commands(SubSeq(GroupLog, 1, i))] IN
  /\ Receive
  /\ t >= raft.term /\ i \in Committable(t) /\ i > raft.committed
  /\ i - 1 > SnapshotGap
  /\ ID \in s.voters /\ ~Matches(t, i)
  /\ Received([AtTerm(t) EXCEPT !.unst = <<>>, !.snap = s, !.committed = i,
                                !.ack = TRUE])
  /\ voters' = s.voters
  /\ promise' = [promise EXCEPT !.log = CommonPrefix(@, GroupLog)]

(* A candidate asks for the vote of term t, or this node campaigns.         *)
RecvVote(t, c) ==
  LET r == AtTerm(t) IN
  /\ Receive
  /\ t >= raft.term /\ r.vote \in {None, c}
  /\ c = ID => t > raft.term /\ ID \in voters
  /\ Received([r EXCEPT !.vote = c, !.grants = @ \cup {<<t, c>>}])
  /\ UNCHANGED <<promise, voters>>

-----------------------------------------------------------------------------
(* The Ready loop of Node.Run.                                              *)

At(stage) == status = "up" /\ pc = stage
InLoop == UNCHANGED <<status, raft, voters, crashes>>

HardState == [term |-> raft.term, vote |-> raft.vote, commit |-> raft.committed]

(* raft.Ready: committed entries come in pages of limited size.             *)
NextToApply == Max({raft.applied + 1, FirstOf(raft, mem)})

(* A commit index beyond the log: etcd/raft panics.                         *)
CommitBeyondLog ==
  NextToApply <= raft.committed /\ LastOf(raft, mem) < raft.committed

TakeReady ==
  LET lo == NextToApply
      hs == IF HardState = raft.hs THEN NoHardState ELSE HardState
      Page(hi) == [ents |-> raft.unst, hs |-> hs, snap |-> raft.snap,
                   commits |-> [i \in 1 .. hi - lo + 1 |-> EntryAt(raft, mem, lo + i - 1)],
                   ack |-> raft.ack, grants |-> raft.grants]
  IN
  /\ At("ready") /\ ~CommitBeyondLog
  /\ IF lo > raft.committed THEN rd' = Page(lo - 1)
     ELSE \E hi \in lo .. raft.committed : rd' = Page(hi)
  /\ rd' # Idle
  /\ todo' = SaveRecords(rd'.ents, rd'.hs)
  /\ pc' = "save"
  /\ harm' = harm \cup IF rd'.snap # NoSnapshot /\ rd'.ents # <<>> THEN {"mixed"} ELSE {}
  /\ InLoop /\ UNCHANGED <<file, mem, state, covered, promise, granted>>

ReadyPanic == At("ready") /\ CommitBeyondLog /\ Stop(file)

(* Storage.Save, one record at a time ...                                   *)
WriteRecord ==
  /\ At("save") /\ todo # <<>>
  /\ file' = WALAppend(file, Head(todo))
  /\ todo' = Tail(todo)
  /\ InLoop /\ UNCHANGED <<mem, pc, rd, state, covered, promise, granted, harm>>

(* ... and then the memory.                                                 *)
Save ==
  /\ At("save") /\ todo = <<>>
  /\ SaveMemory(mem, rd.ents, rd.hs).ok
  /\ mem' = SaveMemory(mem, rd.ents, rd.hs)
  /\ pc' = "send"
  /\ InLoop /\ UNCHANGED <<file, rd, todo, state, covered, promise, granted, harm>>

SavePanic ==
  /\ At("save") /\ todo = <<>>
  /\ ~SaveMemory(mem, rd.ents, rd.hs).ok
  /\ Stop(file)

(* HTTPTransport.Send: a goroutine per message, unknown peers skipped.      *)
Sent(tos) == tos \cap Known

Send ==
  /\ At("send")
  /\ promise' = IF rd.ack /\ Sent(Peers \ {ID}) # {}
                THEN [log |-> LogView, term |-> raft.term] ELSE promise
  /\ granted' = granted \cup {g \in rd.grants : g[2] = ID \/ Sent({g[2]}) # {}}
  /\ pc' = "apply"
  /\ InLoop /\ UNCHANGED <<disk, rd, state, covered, harm>>

SnapshotDue ==
  /\ rd.commits # <<>>
  /\ LET lastApplied == Last(rd.commits).index  fi == FirstIndex(mem) IN
     /\ lastApplied > fi /\ lastApplied - fi > SnapshotGap
     /\ ~SnapOutOfDate(mem, lastApplied)

(* The stages of the round that have something to do.                       *)
AfterSnapshot == IF rd.snap # NoSnapshot THEN "install" ELSE "advance"
AfterApply == IF SnapshotDue THEN "snapshot" ELSE AfterSnapshot

(* Mutation: the new entries are applied, committed or not.                 *)
ApplyNewEntries ==
  /\ At("apply")
  /\ state' = state \o Commands(rd.ents)
  /\ covered' = [covered EXCEPT !.to = IF rd.ents = <<>> THEN @ ELSE Last(rd.ents).index]
  /\ pc' = AfterApply
  /\ InLoop /\ UNCHANGED <<disk, rd, promise, granted, harm>>

(* Applier.Apply on the normal entries of the Ready.                        *)
Apply ==
  /\ At("apply")
  /\ state' = state \o Commands(rd.commits)
  /\ covered' = [covered EXCEPT !.to = IF rd.commits = <<>> THEN @ ELSE Last(rd.commits).index]
  /\ pc' = AfterApply
  /\ InLoop /\ UNCHANGED <<disk, rd, promise, granted, harm>>

(* CreateSnapshot: first the memory, then the record, then the compaction.  *)
CreateSnapshot ==
  LET last == Last(rd.commits)
      snap == [index |-> last.index, term |-> last.term,
               voters |-> DefaultVoters, data |-> state] IN
  /\ At("snapshot")
  /\ mem' = MemCreateSnapshot(mem, snap)
  /\ todo' = <<RecordSnapshot(snap)>>
  /\ pc' = "compact"
  /\ InLoop /\ UNCHANGED <<file, rd, state, covered, promise, granted, harm>>

(* Mutation: the compaction moves the offset and keeps the entries.         *)
CompactKeepsEntries ==
  /\ At("compact")
  /\ file' = WALAppend(file, Head(todo))
  /\ todo' = <<>>
  /\ mem' = [mem EXCEPT !.offset = mem.snap.index]
  /\ pc' = AfterSnapshot
  /\ InLoop /\ UNCHANGED <<rd, state, covered, promise, granted, harm>>

Compact ==
  /\ At("compact")
  /\ file' = WALAppend(file, Head(todo))
  /\ todo' = <<>>
  /\ mem' = MemCompact(mem, mem.snap.index)
  /\ harm' = harm \cup IF LastIndex(mem) > mem.snap.index THEN {"wiped"} ELSE {}
  /\ pc' = AfterSnapshot
  /\ InLoop /\ UNCHANGED <<rd, state, covered, promise, granted>>

(* Mutation: the snapshot goes to the memory only.                          *)
InstallUnrecorded ==
  /\ At("install")
  /\ mem' = MemApplySnapshot(mem, rd.snap)
  /\ pc' = "restore"
  /\ InLoop /\ UNCHANGED <<file, todo, rd, state, covered, promise, granted, harm>>

(* DiskStorage.ApplySnapshot: first the memory, then the record.            *)
Install ==
  /\ At("install")
  /\ IF SnapOutOfDate(mem, rd.snap.index)
     THEN UNCHANGED <<mem, todo>>
     ELSE mem' = MemApplySnapshot(mem, rd.snap) /\ todo' = <<RecordSnapshot(rd.snap)>>
  /\ pc' = "restore"
  /\ InLoop /\ UNCHANGED <<file, rd, state, covered, promise, granted, harm>>

Restore ==
  /\ At("restore")
  /\ file' = IF todo = <<>> THEN file ELSE WALAppend(file, Head(todo))
  /\ todo' = <<>>
  /\ state' = rd.snap.data
  /\ covered' = [from |-> 0, to |-> rd.snap.index]
  /\ pc' = "advance"
  /\ InLoop /\ UNCHANGED <<mem, rd, promise, granted, harm>>

(* Mutation: the rest of the committed entries is passed over.              *)
AdvanceToCommit ==
  /\ At("advance")
  /\ raft' = [raft EXCEPT !.unst = <<>>, !.snap = NoSnapshot, !.hs = HardState,
                !.ack = FALSE, !.grants = {}, !.applied = raft.committed]
  /\ pc' = "ready" /\ rd' = Idle
  /\ UNCHANGED <<status, disk, voters, state, history>>

(* RaftNode.Advance: the Ready is stable and applied.                       *)
Advance ==
  /\ At("advance")
  /\ raft' = [raft EXCEPT !.unst = <<>>, !.snap = NoSnapshot, !.hs = HardState,
                !.ack = FALSE, !.grants = {},
                !.applied = IF rd.commits # <<>> THEN Last(rd.commits).index
                            ELSE Max({@, rd.snap.index})]
  /\ pc' = "ready" /\ rd' = Idle
  /\ UNCHANGED <<status, disk, voters, state, history>>

-----------------------------------------------------------------------------
ReadyLoop ==
  \/ TakeReady \/ ReadyPanic \/ WriteRecord \/ Save \/ SavePanic \/ Send \/ Apply
  \/ CreateSnapshot \/ Compact \/ Install \/ Restore \/ Advance

Messages ==
  \E t \in Term :
    \/ \E i \in Index : \E c \in {0, i} : RecvEntry(t, i, c)
    \/ \E i \in Index : RecvSnapshot(t, i)
    \/ \E c \in Index : RecvHeartbeat(t, c)
    \/ \E c \in Index : RecvHeartbeatPanic(t, c)
    \/ \E c \in Candidates : RecvVote(t, c)

Next == ReadyLoop \/ Messages \/ Crash \/ Restart \/ FailToStart

Spec == Init /\ [][Next]_vars

-----------------------------------------------------------------------------
(* Properties.                                                              *)

(* Every variable has the shape the code gives it.                          *)
TypeOK ==
  /\ status \in {"up", "down", "dead"}
  /\ mem.ok /\ mem.offset \in Nat /\ \A i \in 1 .. Len(mem.ents) :
       mem.ents[i] \in Entry /\ mem.ents[i].index = mem.offset + i
  /\ \A i \in 1 .. Len(raft.unst) :
       raft.unst[i] \in Entry /\ raft.unst[i].index = raft.unst[1].index + i - 1
  /\ raft.term \in Term \cup {0} /\ raft.vote \in Peers \cup {None}
  /\ raft.committed \in 0 .. Len(GroupLog) /\ raft.applied \in 0 .. raft.committed
  /\ pc \in {"ready", "save", "send", "apply", "snapshot", "compact",
             "install", "restore", "advance"}
  /\ voters \subseteq Peers \cup DefaultVoters
  /\ harm \subseteq {"mixed", "wiped", "install"}

(* The file can be read and nothing happened that its replay forgets.       *)
Sound == Iterate(file).ok /\ harm = {} /\ ~InstallPending

(* node.go:131-136, storage.go:77: what this node has acknowledged to a     *)
(* leader, entries and term, is in the replay of its file at every moment,  *)
(* so also after a crash inside a Save: a snapshot record never takes an    *)
(* acknowledged entry with it, unless one of the recorded harms came first. *)
PromisedDurable ==
  Sound =>
    LET m == Replay(file) IN
    /\ promise.term <= m.hs.term
    /\ \A i \in 1 .. Len(promise.log) :
         \/ i <= m.offset /\ promise.log[i] = GroupLog[i]
         \/ i \in FirstIndex(m) .. LastIndex(m) /\ promise.log[i] = m.ents[i - m.offset]

(* node.go:131-136: over crashes and restarts the node never sends its vote *)
(* in one term to two candidates.                                           *)
OneVotePerTerm == \A g, h \in granted : g[1] = h[1] => g = h

(* storage.go:17-63: between two rounds of the loop a restart would find    *)
(* exactly the storage the node runs with.                                  *)
ReplayFaithful == At("ready") /\ Sound => Replay(file) = mem

(* storage.go:53,135,152, wal.go:82: the only ways a node becomes unable to *)
(* start: a torn record, a snapshot record written after entries beyond its *)
(* index, a Ready that mixed a snapshot with entries, and a crash before    *)
(* the record of a received snapshot.                                       *)
DeadOnlyIf == status = "dead" => ~Iterate(file).ok \/ harm # {}

(* node.go:139-143,164-172: the applier has been given each committed       *)
(* command exactly once, in the order of the log, from the index where it   *)
(* began up to the last applied one.  A crash before the record of a        *)
(* received snapshot, whose commit index is already saved, breaks it: the   *)
(* node then takes its own overwritten entries for committed ones.          *)
AppliedInOrder ==
  status = "up" /\ harm \cap {"mixed", "install"} = {} =>
    state = Commands(SubSeq(GroupLog, covered.from + 1, covered.to))

(* node.go:86,153: a running node that may not stand for election has been  *)
(* restarted from a file without a snapshot, or with one whose fixed voters *)
(* leave it out.                                                            *)
ElectableUnlessRestarted ==
  status = "up" /\ ID \notin voters =>
    crashes > 0 /\ (covered.from = 0 \/ ID \notin DefaultVoters)

(* node.go:139-175: between two rounds the applier has been given all that  *)
(* etcd/raft counts as applied, whatever pages the committed entries came   *)
(* in: none is passed over, so a node that stays up catches up with the     *)
(* commit index.                                                            *)
AppliedCursor ==
  At("ready") /\ harm \cap {"mixed", "install"} = {} => covered.to = raft.applied

(* README "Durability & Persistence": after a restart the applier's state   *)
(* is that of all the commands committed before.                            *)
StateRestored == status = "up" => state = Commands(SubSeq(GroupLog, 1, covered.to))
=============================================================================
