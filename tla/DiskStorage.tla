---------------------------- MODULE DiskStorage ----------------------------
(* What a Raft node keeps: internal/storage/wal/wal.go, the log file, and   *)
(* internal/raft/storage.go, the records in it and their replay into the    *)
(* MemoryStorage of etcd/raft (external), which serves every read.          *)
(*                                                                          *)
(* An entry is [index, term, cmd], a hard state [term, vote, commit] and a  *)
(* snapshot [index, term, voters, data].  The file is the sequence of the   *)
(* writes made to it.  Encodings keep their content, and are left out.      *)
EXTENDS Integers, Sequences, SequencesExt

CONSTANT None   \* no vote

NoHardState == [term |-> 0, vote |-> None, commit |-> 0]
NoSnapshot == [index |-> 0, term |-> 0, voters |-> {}, data |-> <<>>]

-----------------------------------------------------------------------------
(* The WAL.                                                                 *)

(* The three writes of one Append: length, data, checksum.                  *)
Writes(r) == <<[part |-> "len", of |-> r], [part |-> "data", of |-> r],
               [part |-> "crc", of |-> r]>>

WALAppend(file, r) == file \o Writes(r)

(* A process that dies inside Append leaves n of the writes.                *)
TornAppend(file, r, n) == file \o SubSeq(Writes(r), 1, n)

(* WAL.Iterate: it stops with an error where a record is incomplete or its  *)
(* checksum is not the data's.                                              *)
Iterate(file) ==
  LET n == Len(file) \div 3 IN
  [ok |-> /\ Len(file) % 3 = 0
          /\ \A i \in 1 .. n : file[3 * i].of = file[3 * i - 1].of,
   records |-> [i \in 1 .. n |-> file[3 * i - 1].of]]

-----------------------------------------------------------------------------
(* raft.MemoryStorage: ents follow the compacted prefix of length offset;   *)
(* ok is FALSE once it has panicked.                                        *)

NewMemoryStorage == [ok |-> TRUE, offset |-> 0, ents |-> <<>>,
                     snap |-> NoSnapshot, hs |-> NoHardState]

FirstIndex(m) == m.offset + 1
LastIndex(m) == m.offset + Len(m.ents)

(* Compacted entries are dropped, conflicting ones replaced; a gap panics.  *)
MemAppend(m, es) ==
  LET known == IF es[1].index < FirstIndex(m) THEN FirstIndex(m) - es[1].index ELSE 0
      new == SubSeq(es, known + 1, Len(es)) IN
  IF es = <<>> \/ new = <<>> THEN m
  ELSE IF new[1].index > LastIndex(m) + 1 THEN [m EXCEPT !.ok = FALSE]
  ELSE [m EXCEPT !.ents = SubSeq(@, 1, new[1].index - FirstIndex(m)) \o new]

MemSetHardState(m, hs) == [m EXCEPT !.hs = hs]

SnapOutOfDate(m, index) == index <= m.snap.index

(* Every entry goes, those beyond the snapshot too.                         *)
MemApplySnapshot(m, s) ==
  [m EXCEPT !.snap = s, !.offset = s.index, !.ents = <<>>]

MemCreateSnapshot(m, s) == [m EXCEPT !.snap = s]

MemCompact(m, index) ==
  IF index <= m.offset THEN m
  ELSE [m EXCEPT !.offset = index,
                 !.ents = SubSeq(@, index - m.offset + 1, Len(@))]

-----------------------------------------------------------------------------
(* DiskStorage.                                                             *)

RecordEntry(e) == [type |-> "entry", data |-> e]
RecordHardState(hs) == [type |-> "hardstate", data |-> hs]
RecordSnapshot(s) == [type |-> "snapshot", data |-> s]

(* The handler NewDiskStorage gives to Iterate; the error of an outdated    *)
(* snapshot is dropped.                                                     *)
ReplayRecord(m, r) ==
  CASE ~m.ok -> m
    [] r.type = "entry" /\ m.ok -> MemAppend(m, <<r.data>>)
    [] r.type = "hardstate" /\ m.ok -> MemSetHardState(m, r.data)
    [] r.type = "snapshot" /\ m.ok ->
         IF SnapOutOfDate(m, r.data.index) THEN m ELSE MemApplySnapshot(m, r.data)

(* The memory NewDiskStorage builds from the first n records, and from a    *)
(* file that Iterate accepts.                                               *)
ReplayFirst(records, n) ==
  LET m[i \in 0 .. n] ==
        IF i = 0 THEN NewMemoryStorage ELSE ReplayRecord(m[i - 1], records[i])
  IN  m[n]

Replay(file) == ReplayFirst(Iterate(file).records, Len(Iterate(file).records))

(* Mutations of SaveRecords: hard state first; only beside entries; never   *)
(* beside entries.                                                          *)
SaveRecordsStateFirst(es, hs) ==
  (IF hs = NoHardState THEN <<>> ELSE <<RecordHardState(hs)>>)
    \o [i \in 1 .. Len(es) |-> RecordEntry(es[i])]
SaveRecordsStateBesideEntries(es, hs) ==
  [i \in 1 .. Len(es) |-> RecordEntry(es[i])]
    \o IF hs = NoHardState \/ es = <<>> THEN <<>> ELSE <<RecordHardState(hs)>>
SaveRecordsStateAlone(es, hs) ==
  IF es = <<>> /\ hs # NoHardState THEN <<RecordHardState(hs)>>
  ELSE [i \in 1 .. Len(es) |-> RecordEntry(es[i])]

(* The records Save writes before it updates the memory, in their order.    *)
SaveRecords(es, hs) ==
  [i \in 1 .. Len(es) |-> RecordEntry(es[i])]
    \o IF hs = NoHardState THEN <<>> ELSE <<RecordHardState(hs)>>

SaveMemory(m, es, hs) ==
  LET appended == MemAppend(m, es) IN
  IF hs = NoHardState \/ ~appended.ok THEN appended
  ELSE MemSetHardState(appended, hs)
=============================================================================
