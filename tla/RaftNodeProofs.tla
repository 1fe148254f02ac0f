--------------------------- MODULE RaftNodeProofs ---------------------------
(* Proofs about RaftNode, for any group, logs of its leaders, snapshot gap  *)
(* and number of crashes: the types, that a node never sends two votes in   *)
(* one term, over crashes and restarts, that what etcd/raft counts as       *)
(* applied is what the applier was given, that the applier was given each   *)
(* committed command once and in order, that a restart finds the storage    *)
(* the node ran with, and in it all that the node acknowledged.             *)
EXTENDS RaftNode, SetLemmas, FiniteSetTheorems, SequenceTheorems

-----------------------------------------------------------------------------
(* The WAL file.                                                            *)

IsSeq(s) == \E S : s \in Seq(S)

(* A whole record more.                                                     *)
LEMMA AppendRead ==
  ASSUME NEW f, IsSeq(f), NEW r, Iterate(f).ok
  PROVE  /\ IsSeq(WALAppend(f, r)) /\ Iterate(WALAppend(f, r)).ok
         /\ Len(Iterate(f).records) \in Nat
         /\ Len(Iterate(WALAppend(f, r)).records) = Len(Iterate(f).records) + 1
         /\ Iterate(WALAppend(f, r)).records[Len(Iterate(f).records) + 1] = r
         /\ \A i \in 1 .. Len(Iterate(f).records) :
              Iterate(WALAppend(f, r)).records[i] = Iterate(f).records[i]
<1>1. PICK S : f \in Seq(S)
  BY DEF IsSeq
<1> DEFINE w == Writes(r)
           T == S \cup {[part |-> "len", of |-> r], [part |-> "data", of |-> r],
                        [part |-> "crc", of |-> r]}
<1>2. /\ w \in Seq(T) /\ Len(w) = 3
      /\ w[2].of = r /\ w[3].of = r
  BY DEF Writes
<1>3. f \in Seq(T) /\ Len(f) \in Nat
  BY <1>1
<1> HIDE DEF w, T
<1>4. PICK g : g = f \o w
  OBVIOUS
<1>5. /\ g \in Seq(T) /\ Len(g) = Len(f) + 3
      /\ \A i \in 1 .. Len(f) : g[i] = f[i]
      /\ g[Len(f) + 2] = w[2] /\ g[Len(f) + 3] = w[3]
  <2>1. /\ f \o w \in Seq(T)
        /\ Len(f \o w) = Len(f) + Len(w)
        /\ \A i \in 1 .. Len(f) + Len(w) :
             (f \o w)[i] = IF i <= Len(f) THEN f[i] ELSE w[i - Len(f)]
    BY <1>2, <1>3, ConcatProperties
  <2>2. \A i \in 1 .. Len(f) : g[i] = f[i]
    BY <1>2, <1>3, <1>4, <2>1
  <2>3. g[Len(f) + 2] = w[2] /\ g[Len(f) + 3] = w[3]
    BY <1>2, <1>3, <1>4, <2>1
  <2> QED
    BY <1>2, <1>4, <2>1, <2>2, <2>3
<1>6. PICK n \in Nat : n = Len(f) \div 3
  BY <1>3
<1>7. Len(f) = 3 * n /\ \A i \in 1 .. n : f[3 * i].of = f[3 * i - 1].of
  BY <1>3, <1>6 DEF Iterate
<1>8. Len(g) \div 3 = n + 1 /\ Len(g) % 3 = 0
  BY <1>5, <1>7
<1>9. \A i \in 1 .. n : /\ 3 * i \in 1 .. Len(f) /\ 3 * i - 1 \in 1 .. Len(f)
                        /\ g[3 * i] = f[3 * i] /\ g[3 * i - 1] = f[3 * i - 1]
  <2> SUFFICES ASSUME NEW i \in 1 .. n
               PROVE  3 * i \in 1 .. Len(f) /\ 3 * i - 1 \in 1 .. Len(f)
    BY <1>5
  <2> QED
    BY <1>7
<1>10. g[3 * (n + 1)].of = r /\ g[3 * (n + 1) - 1].of = r
  <2>1. 3 * (n + 1) = Len(f) + 3 /\ 3 * (n + 1) - 1 = Len(f) + 2
    BY <1>7
  <2> QED
    BY <1>2, <1>5, <2>1
<1>11. \A i \in 1 .. n + 1 : g[3 * i].of = g[3 * i - 1].of
  <2> SUFFICES ASSUME NEW i \in 1 .. n + 1 PROVE g[3 * i].of = g[3 * i - 1].of
    OBVIOUS
  <2>1. i = n + 1 \/ i \in 1 .. n
    OBVIOUS
  <2> QED
    BY <1>7, <1>9, <1>10, <2>1
<1>12. /\ Iterate(f).records = [i \in 1 .. n |-> f[3 * i - 1].of]
       /\ Iterate(g).records = [i \in 1 .. n + 1 |-> g[3 * i - 1].of]
       /\ Iterate(g).ok
  BY <1>6, <1>8, <1>11 DEF Iterate
<1>13. /\ Len(Iterate(f).records) = n
       /\ Len(Iterate(g).records) = n + 1
  BY <1>12
<1>14. \A i \in 1 .. n : Iterate(g).records[i] = Iterate(f).records[i]
  BY <1>9, <1>12
<1>15. Iterate(g).records[n + 1] = r
  BY <1>10, <1>12
<1>16. WALAppend(f, r) = g /\ IsSeq(g)
  BY <1>4, <1>5 DEF WALAppend, w, IsSeq
<1> QED
  BY <1>12, <1>13, <1>14, <1>15, <1>16

(* A record cut short.                                                      *)
LEMMA TornUnread ==
  ASSUME NEW f, IsSeq(f), NEW r, Iterate(f).ok, NEW n \in 1 .. 2
  PROVE  ~Iterate(TornAppend(f, r, n)).ok
<1>1. PICK S : f \in Seq(S)
  BY DEF IsSeq
<1> DEFINE w == SubSeq(Writes(r), 1, n)
           T == S \cup {[part |-> "len", of |-> r], [part |-> "data", of |-> r],
                        [part |-> "crc", of |-> r]}
<1>2. Writes(r) \in Seq(T) /\ Len(Writes(r)) = 3
  BY DEF Writes
<1>3. w \in Seq(T) /\ Len(w) = n
  <2>1. PICK all : all = Writes(r)
    OBVIOUS
  <2>2. all \in Seq(T) /\ Len(all) = 3
    BY <1>2, <2>1
  <2> HIDE DEF T
  <2>3. SubSeq(all, 1, n) \in Seq(T) /\ Len(SubSeq(all, 1, n)) = n
    BY <2>2
  <2> QED
    BY <2>1, <2>3
<1>4. f \in Seq(T) /\ Len(f) \in Nat
  BY <1>1
<1> HIDE DEF w, T
<1>5. Len(f \o w) = Len(f) + n
  BY <1>3, <1>4
<1>6. Len(f) % 3 = 0
  BY DEF Iterate
<1>7. Len(f \o w) % 3 # 0
  BY <1>4, <1>5, <1>6
<1> QED
  BY <1>7 DEF Iterate, TornAppend, w

-----------------------------------------------------------------------------
(* Replay is a recursive function; here is that it exists, and what one     *)
(* more record does to it.                                                  *)
IsRun(f, records, n) ==
  f = [j \in 0 .. n |-> IF j = 0 THEN NewMemoryStorage ELSE ReplayRecord(f[j - 1], records[j])]

LEMMA RunIs ==
  ASSUME NEW f, NEW records, NEW n \in Nat, IsRun(f, records, n)
  PROVE  /\ DOMAIN f = 0 .. n /\ f[0] = NewMemoryStorage
         /\ \A j \in 1 .. n : f[j] = ReplayRecord(f[j - 1], records[j])
<1>1. DOMAIN f = 0 .. n
  BY DEF IsRun
<1>2. \A j \in 0 .. n :
        f[j] = IF j = 0 THEN NewMemoryStorage ELSE ReplayRecord(f[j - 1], records[j])
  BY DEF IsRun
<1> QED
  BY <1>1, <1>2

LEMMA RunExists ==
  ASSUME NEW records
  PROVE  \A n \in Nat : \E f : IsRun(f, records, n)
<1> DEFINE Missing == {n \in Nat : ~ \E f : IsRun(f, records, n)}
<1> SUFFICES ASSUME Missing # {} PROVE FALSE
  OBVIOUS
<1>1. PICK m \in Missing : \A i \in Missing : m <= i
  <2>1. Missing \in SUBSET Nat
    OBVIOUS
  <2> QED
    BY <2>1, LeastElement
<1>2. CASE m = 0
  <2> DEFINE f == [j \in 0 .. 0 |-> NewMemoryStorage]
  <2>1. IsRun(f, records, 0)
    BY DEF IsRun
  <2> QED
    BY <1>2, <2>1
<1>3. CASE m # 0
  <2>1. m - 1 \in Nat /\ m - 1 \notin Missing /\ m \in Nat
    BY <1>1, <1>3
  <2>2. PICK f : IsRun(f, records, m - 1)
    BY <2>1
  <2>3. PICK last : last = ReplayRecord(f[m - 1], records[m])
    OBVIOUS
  <2> DEFINE g == [j \in 0 .. m |-> IF j = m THEN last ELSE f[j]]
  <2>4. /\ f[0] = NewMemoryStorage
        /\ \A j \in 1 .. m - 1 : f[j] = ReplayRecord(f[j - 1], records[j])
    BY <2>1, <2>2, RunIs
  <2>5. ASSUME NEW j \in 0 .. m
        PROVE  g[j] = IF j = 0 THEN NewMemoryStorage ELSE ReplayRecord(g[j - 1], records[j])
    <3>1. CASE j = 0
      BY <1>3, <2>1, <2>4, <3>1
    <3>2. CASE j # 0 /\ j # m
      <4>1. j \in 1 .. m - 1 /\ j - 1 \in 0 .. m /\ j - 1 # m
        BY <2>1, <3>2
      <4>2. g[j] = f[j] /\ g[j - 1] = f[j - 1]
        BY <3>2, <4>1
      <4> QED
        BY <2>4, <3>2, <4>1, <4>2
    <3>3. CASE j = m
      <4>1. m - 1 \in 0 .. m /\ m - 1 # m
        BY <2>1
      <4>2. g[m - 1] = f[m - 1] /\ g[m] = last
        BY <2>1, <4>1
      <4> QED
        BY <1>3, <2>3, <3>3, <4>2
    <3> QED
      BY <3>1, <3>2, <3>3
  <2>6. g = [j \in 0 .. m |-> g[j]]
    OBVIOUS
  <2> HIDE DEF g
  <2>7. IsRun(g, records, m)
    BY <2>5, <2>6 DEF IsRun
  <2> QED
    BY <1>1, <2>7
<1> QED
  BY <1>2, <1>3

(* Runs over logs that agree are the same as far as they go.                *)
Alike(records, others, i) == \A j \in 1 .. i : records[j] = others[j]

LEMMA RunsAgree ==
  ASSUME NEW records, NEW others, NEW m \in Nat, NEW n \in Nat, NEW i \in Nat,
         i <= m, i <= n, Alike(records, others, i),
         NEW f, IsRun(f, records, m), NEW g, IsRun(g, others, n)
  PROVE  f[i] = g[i]
<1> DEFINE Apart == {j \in 0 .. i : f[j] # g[j]}
<1>1. /\ f[0] = NewMemoryStorage /\ \A j \in 1 .. m : f[j] = ReplayRecord(f[j - 1], records[j])
      /\ g[0] = NewMemoryStorage /\ \A j \in 1 .. n : g[j] = ReplayRecord(g[j - 1], others[j])
  BY RunIs
<1> SUFFICES ASSUME Apart # {} PROVE FALSE
  OBVIOUS
<1>2. PICK j \in Apart : \A l \in Apart : j <= l
  <2>1. Apart \in SUBSET Nat
    OBVIOUS
  <2> QED
    BY <2>1, LeastElement
<1>3. j # 0
  BY <1>1
<1>4. j \in 1 .. i /\ j \in 1 .. m /\ j \in 1 .. n /\ j - 1 \in 0 .. i /\ ~(j <= j - 1)
  BY <1>3
<1>5. f[j - 1] = g[j - 1]
  BY <1>2, <1>4
<1>6. f[j] = g[j]
  BY <1>1, <1>4, <1>5 DEF Alike
<1> QED
  BY <1>6

LEMMA ReplayFirstRun ==
  ASSUME NEW records, NEW i \in Nat
  PROVE  \E f : IsRun(f, records, i) /\ ReplayFirst(records, i) = f[i]
<1> DEFINE Fun(f) == f = [j \in 0 .. i |-> IF j = 0 THEN NewMemoryStorage
                                           ELSE ReplayRecord(f[j - 1], records[j])]
<1>1. \E f : Fun(f)
  BY RunExists DEF IsRun
<1>2. Fun(CHOOSE f : Fun(f))
  BY <1>1
<1>3. ReplayFirst(records, i) = (CHOOSE f : Fun(f))[i]
  BY DEF ReplayFirst
<1> QED
  BY <1>2, <1>3 DEF IsRun

LEMMA ReplayFirstIs ==
  ASSUME NEW records
  PROVE  /\ ReplayFirst(records, 0) = NewMemoryStorage
         /\ \A i \in Nat \ {0} :
              ReplayFirst(records, i) = ReplayRecord(ReplayFirst(records, i - 1), records[i])
<1>1. ReplayFirst(records, 0) = NewMemoryStorage
  <2>1. PICK f : IsRun(f, records, 0) /\ ReplayFirst(records, 0) = f[0]
    BY ReplayFirstRun
  <2> QED
    BY <2>1, RunIs
<1>2. ASSUME NEW i \in Nat \ {0}
      PROVE  ReplayFirst(records, i) = ReplayRecord(ReplayFirst(records, i - 1), records[i])
  <2>1. i - 1 \in Nat /\ i \in Nat /\ i \in 1 .. i /\ i - 1 <= i
    OBVIOUS
  <2>2. PICK f : IsRun(f, records, i) /\ ReplayFirst(records, i) = f[i]
    BY <2>1, ReplayFirstRun
  <2>3. PICK g : IsRun(g, records, i - 1) /\ ReplayFirst(records, i - 1) = g[i - 1]
    BY <2>1, ReplayFirstRun
  <2>4. f[i] = ReplayRecord(f[i - 1], records[i])
    BY <2>1, <2>2, RunIs
  <2>5. f[i - 1] = g[i - 1]
    <3>1. PICK l \in Nat : l = i - 1
      BY <2>1
    <3>2. IsRun(f, records, i) /\ IsRun(g, records, l)
      BY <2>2, <2>3, <3>1
    <3>3. i \in Nat /\ l <= i /\ l <= l /\ Alike(records, records, l)
      BY <2>1, <3>1 DEF Alike
    <3>4. f[l] = g[l]
      BY ONLY l \in Nat, <3>2, <3>3, RunsAgree
    <3> QED
      BY <3>1, <3>4
  <2> QED
    BY <2>2, <2>3, <2>4, <2>5
<1> QED
  BY <1>1, <1>2

LEMMA ReplayFirstAgrees ==
  ASSUME NEW records, NEW others, NEW i \in Nat, \A j \in 1 .. i : records[j] = others[j]
  PROVE  ReplayFirst(records, i) = ReplayFirst(others, i)
<1>1. PICK f : IsRun(f, records, i) /\ ReplayFirst(records, i) = f[i]
  BY ReplayFirstRun
<1>2. PICK g : IsRun(g, others, i) /\ ReplayFirst(others, i) = g[i]
  BY ReplayFirstRun
<1>3. f[i] = g[i]
  <2>1. IsRun(f, records, i) /\ IsRun(g, others, i) /\ i <= i
    BY <1>1, <1>2
  <2>2. i \in Nat /\ Alike(records, others, i)
    BY DEF Alike
  <2> QED
    BY ONLY <2>1, <2>2, RunsAgree
<1> QED
  BY <1>1, <1>2, <1>3

LEMMA ReplayEmpty == Iterate(<<>>).ok /\ IsSeq(<<>>) /\ Replay(<<>>) = NewMemoryStorage
<1>1. Len(<<>>) = 0 /\ 0 \div 3 = 0 /\ 0 % 3 = 0
  OBVIOUS
<1>2. Iterate(<<>>).ok
  BY <1>1 DEF Iterate
<1>3. Iterate(<<>>).records = <<>>
  BY <1>1 DEF Iterate
<1>4. Replay(<<>>) = ReplayFirst(<<>>, 0)
  BY <1>1, <1>3 DEF Replay
<1>5. ReplayFirst(<<>>, 0) = NewMemoryStorage
  BY ReplayFirstIs
<1>6. IsSeq(<<>>)
  <2>1. <<>> \in Seq({})
    OBVIOUS
  <2> QED
    BY <2>1 DEF IsSeq
<1> QED
  BY <1>2, <1>4, <1>5, <1>6

LEMMA ReplayAppend ==
  ASSUME NEW f, IsSeq(f), Iterate(f).ok, NEW r
  PROVE  Replay(WALAppend(f, r)) = ReplayRecord(Replay(f), r)
<1>1. PICK old, new : old = Iterate(f).records /\ new = Iterate(WALAppend(f, r)).records
  OBVIOUS
<1>2. /\ Len(old) \in Nat /\ Len(new) = Len(old) + 1 /\ new[Len(old) + 1] = r
      /\ \A i \in 1 .. Len(old) : new[i] = old[i]
  BY <1>1, AppendRead
<1>3. PICK n \in Nat : n = Len(old)
  BY <1>2
<1>4. n + 1 \in Nat \ {0} /\ (n + 1) - 1 = n
  OBVIOUS
<1>5. ReplayFirst(new, n + 1) = ReplayRecord(ReplayFirst(new, n), new[n + 1])
  BY <1>4, ReplayFirstIs
<1>6. ReplayFirst(new, n) = ReplayFirst(old, n)
  BY <1>2, <1>3, ReplayFirstAgrees
<1> QED
  BY <1>1, <1>2, <1>3, <1>5, <1>6 DEF Replay

-----------------------------------------------------------------------------
(* Logs, snapshots, hard states, memories and records.                      *)

Successive(es, first) ==
  es \in Seq(Entry) /\ \A i \in 1 .. Len(es) : es[i].index = first + i - 1

IsSnapshot(s) == s.index \in Index /\ s.voters = DefaultVoters

IsHardState(hs) ==
  /\ hs \in [term : Term \cup {0}, vote : Peers \cup {None}, commit : 0 .. Len(GroupLog)]
  /\ hs.term = 0 => hs.vote = None

IsMemory(m) ==
  /\ DOMAIN m = {"ok", "offset", "ents", "snap", "hs"}
  /\ m.offset \in 0 .. Len(GroupLog)
  /\ Successive(m.ents, m.offset + 1)
  /\ m.snap = NoSnapshot \/ IsSnapshot(m.snap)
  /\ IsHardState(m.hs)

IsRecord(r) ==
  \/ r.type = "entry" /\ r.data \in Entry
  \/ r.type = "hardstate" /\ IsHardState(r.data)
  \/ r.type = "snapshot" /\ IsSnapshot(r.data)

LEMMA LogFacts ==
  /\ Len(LeaderLog) \in Nat \ {0} /\ Len(LeaderLog) \in Term
  /\ \A t \in Term : t \in Nat \ {0} /\ LeaderLog[t] \in Seq(Entry)
  /\ \A e \in Entry : e.index \in Nat \ {0}
  /\ GroupLog \in Seq(Entry) /\ Len(GroupLog) \in Nat
  /\ Cardinality(Peers) \in Nat \ {0} /\ Cardinality(Peers) \in Index
<1>1. Len(LeaderLog) \in Nat \ {0} /\ Len(LeaderLog) \in Term
  BY LeaderLogs DEF Term
<1>2. \A t \in Term : t \in Nat \ {0} /\ LeaderLog[t] \in Seq(Entry)
  BY LeaderLogs DEF Term
<1>3. ASSUME NEW e \in Entry PROVE e.index \in Nat \ {0}
  <2>1. PICK t \in Term : e \in ToSet(LeaderLog[t])
    BY DEF Entry
  <2>2. PICK i \in DOMAIN LeaderLog[t] : e = LeaderLog[t][i]
    BY <2>1 DEF ToSet
  <2>3. i \in 1 .. Len(LeaderLog[t])
    BY <1>2
  <2> QED
    BY <2>2, <2>3, LeaderLogs
<1>4. GroupLog \in Seq(Entry) /\ Len(GroupLog) \in Nat
  BY <1>1, <1>2 DEF GroupLog
<1>5. Cardinality(Peers) \in Nat \ {0}
  <2>1. Cardinality(Peers) \in Nat /\ (Cardinality(Peers) = 0 <=> Peers = {})
    BY NodeID, FS_CardinalityType, FS_EmptySet
  <2> QED
    BY <2>1, NodeID
<1>6. Cardinality(Peers) \in Index
  BY <1>1, <1>4, <1>5, LeaderLogs DEF Index, GroupLog
<1> QED
  BY <1>1, <1>2, <1>3, <1>4, <1>5, <1>6

LEMMA CutBefore ==
  ASSUME NEW first \in Nat, NEW es, Successive(es, first), NEW n \in Int, n <= Len(es)
  PROVE  /\ Successive(SubSeq(es, 1, n), first)
         /\ Len(SubSeq(es, 1, n)) = IF n >= 1 THEN n ELSE 0
<1>1. es \in Seq(Entry) /\ Len(es) \in Nat
  BY DEF Successive
<1>2. \A i \in 1 .. n : es[i] \in Entry /\ es[i].index = first + i - 1
  BY <1>1 DEF Successive
<1>3. /\ SubSeq(es, 1, n) \in Seq(Entry)
      /\ Len(SubSeq(es, 1, n)) = IF 1 <= n THEN n - 1 + 1 ELSE 0
      /\ \A i \in 1 .. n - 1 + 1 : SubSeq(es, 1, n)[i] = es[1 + i - 1]
  BY <1>2, SubSeqProperties
<1>4. \A i \in 1 .. Len(SubSeq(es, 1, n)) :
        i \in 1 .. n /\ i \in 1 .. n - 1 + 1 /\ 1 + i - 1 = i
  BY <1>3
<1>5. \A i \in 1 .. Len(SubSeq(es, 1, n)) : SubSeq(es, 1, n)[i].index = first + i - 1
  BY <1>2, <1>3, <1>4
<1> QED
  BY <1>3, <1>5 DEF Successive

LEMMA CutAfter ==
  ASSUME NEW first \in Nat, NEW es, Successive(es, first), NEW k \in Nat
  PROVE  /\ Successive(SubSeq(es, k + 1, Len(es)), first + k)
         /\ Len(SubSeq(es, k + 1, Len(es))) = IF k < Len(es) THEN Len(es) - k ELSE 0
<1>1. es \in Seq(Entry) /\ Len(es) \in Nat
  BY DEF Successive
<1>2. PICK n \in Nat : n = Len(es)
  BY <1>1
<1>3. PICK l \in Nat : l = k + 1
  OBVIOUS
<1>4. \A i \in l .. n : es[i] \in Entry
  BY <1>1, <1>2, <1>3
<1>5. /\ SubSeq(es, l, n) \in Seq(Entry)
      /\ Len(SubSeq(es, l, n)) = IF l <= n THEN n - l + 1 ELSE 0
      /\ \A i \in 1 .. n - l + 1 : SubSeq(es, l, n)[i] = es[l + i - 1]
  BY <1>4, SubSeqProperties
<1>6. ASSUME NEW i \in 1 .. Len(SubSeq(es, l, n))
      PROVE  SubSeq(es, l, n)[i].index = (first + k) + i - 1
  <2>1. i \in 1 .. n - l + 1 /\ l + i - 1 \in 1 .. n
    BY <1>3, <1>5
  <2>2. es[l + i - 1].index = first + (l + i - 1) - 1
    BY <1>2, <2>1 DEF Successive
  <2> QED
    BY <1>3, <1>5, <2>1, <2>2
<1>7. Len(SubSeq(es, l, n)) = IF k < n THEN n - k ELSE 0
  BY <1>3, <1>5
<1> QED
  BY <1>2, <1>3, <1>5, <1>6, <1>7 DEF Successive

LEMMA Join ==
  ASSUME NEW first \in Nat, NEW a, Successive(a, first),
         NEW b, Successive(b, first + Len(a))
  PROVE  Successive(a \o b, first) /\ Len(a \o b) = Len(a) + Len(b)
<1>1. a \in Seq(Entry) /\ b \in Seq(Entry) /\ Len(a) \in Nat /\ Len(b) \in Nat
  BY DEF Successive
<1>2. /\ a \o b \in Seq(Entry)
      /\ Len(a \o b) = Len(a) + Len(b)
      /\ \A i \in 1 .. Len(a) + Len(b) :
           (a \o b)[i] = IF i <= Len(a) THEN a[i] ELSE b[i - Len(a)]
  BY <1>1, ConcatProperties
<1>3. ASSUME NEW i \in 1 .. Len(a) + Len(b) PROVE (a \o b)[i].index = first + i - 1
  <2>1. CASE i <= Len(a)
    <3>1. i \in 1 .. Len(a)
      BY <1>1, <2>1
    <3> QED
      BY <1>2, <2>1, <3>1 DEF Successive
  <2>2. CASE ~(i <= Len(a))
    <3>1. i - Len(a) \in 1 .. Len(b)
      BY <1>1, <2>2
    <3>2. b[i - Len(a)].index = (first + Len(a)) + (i - Len(a)) - 1
      BY <3>1 DEF Successive
    <3> QED
      BY <1>1, <1>2, <2>2, <3>2
  <2> QED
    BY <2>1, <2>2
<1> QED
  BY <1>2, <1>3 DEF Successive

(* Appending to a memory without a gap.                                     *)
LEMMA AppendMemory ==
  ASSUME NEW m, IsMemory(m), NEW first \in Nat, NEW es, Successive(es, first),
         MemAppend(m, es).ok
  PROVE  /\ IsMemory(MemAppend(m, es)) /\ m.ok
         /\ MemAppend(m, es).offset = m.offset /\ MemAppend(m, es).snap = m.snap
         /\ MemAppend(m, es).hs = m.hs
         /\ es # <<>> => LastIndex(MemAppend(m, es)) >= first
<1> DEFINE known == IF es[1].index < FirstIndex(m) THEN FirstIndex(m) - es[1].index ELSE 0
           new == SubSeq(es, known + 1, Len(es))
<1>0. m.offset \in Nat /\ FirstIndex(m) = m.offset + 1 /\ FirstIndex(m) \in Nat
  BY LogFacts DEF IsMemory, FirstIndex
<1>1. CASE es = <<>> \/ new = <<>>
  <2>1. MemAppend(m, es) = m
    BY <1>1 DEF MemAppend
  <2>2. ASSUME es # <<>> PROVE LastIndex(m) >= first
    <3>1. es \in Seq(Entry) /\ Len(es) \in Nat \ {0} /\ es[1].index = first
      BY <2>2 DEF Successive
    <3>2. known \in Nat
      BY <1>0, <3>1
    <3>3. Len(new) = IF known < Len(es) THEN Len(es) - known ELSE 0
      BY <3>2, CutAfter
    <3>4. Len(new) = 0
      BY <1>1, <2>2
    <3> HIDE DEF new
    <3>5. known >= 1
      <4> HIDE DEF known
      <4> QED
        BY <3>1, <3>2, <3>3, <3>4
    <3>6. Len(m.ents) \in Nat
      BY DEF IsMemory, Successive
    <3> QED
      BY <1>0, <3>1, <3>5, <3>6 DEF LastIndex
  <2> QED
    BY <2>1, <2>2
<1>2. CASE ~(es = <<>> \/ new = <<>>)
  <2>1. es \in Seq(Entry) /\ Len(es) \in Nat \ {0} /\ es[1].index = first
    BY <1>2 DEF Successive
  <2>2. known \in Nat
    BY <1>0, <2>1
  <2>3. Successive(new, first + known)
    BY <2>2, CutAfter
  <2> HIDE DEF known, new
  <2>4. Len(new) \in Nat \ {0} /\ new[1].index = first + known
    BY <1>2, <2>2, <2>3 DEF Successive
  <2>5. first + known >= FirstIndex(m)
    BY <1>0, <2>1 DEF known
  <2>6. CASE new[1].index > LastIndex(m) + 1
    <3>1. MemAppend(m, es) = [m EXCEPT !.ok = FALSE]
      BY <1>2, <2>6 DEF MemAppend, new, known
    <3>2. [m EXCEPT !.ok = FALSE].ok = FALSE
      BY DEF IsMemory
    <3> QED
      BY <3>1, <3>2
  <2>7. CASE ~(new[1].index > LastIndex(m) + 1)
    <3> DEFINE kept == SubSeq(m.ents, 1, new[1].index - FirstIndex(m))
               q == [m EXCEPT !.ents = kept \o new]
    <3>1. MemAppend(m, es) = q
      BY <1>2, <2>7 DEF MemAppend, new, known
    <3>2. /\ DOMAIN q = DOMAIN m /\ q.ents = kept \o new
          /\ q.ok = m.ok /\ q.offset = m.offset /\ q.snap = m.snap /\ q.hs = m.hs
      BY DEF IsMemory
    <3>3. PICK n \in Nat : n = new[1].index - FirstIndex(m)
      BY <1>0, <2>2, <2>4, <2>5
    <3>4. Len(m.ents) \in Nat /\ Successive(m.ents, m.offset + 1)
      BY DEF IsMemory, Successive
    <3>5. n <= Len(m.ents)
      BY <1>0, <2>2, <2>4, <2>7, <3>3, <3>4 DEF LastIndex
    <3>6. Successive(kept, m.offset + 1) /\ Len(kept) = n
      BY <1>0, <3>3, <3>4, <3>5, CutBefore
    <3>7. (m.offset + 1) + Len(kept) = first + known
      BY <1>0, <2>2, <2>4, <3>3, <3>6
    <3> HIDE DEF kept
    <3>8. Successive(kept \o new, m.offset + 1) /\ Len(kept \o new) = Len(kept) + Len(new)
      <4>1. Successive(new, (m.offset + 1) + Len(kept))
        BY <2>3, <3>7
      <4>2. m.offset + 1 \in Nat
        BY <1>0
      <4> QED
        BY <3>6, <4>1, <4>2, Join
    <3>10. LastIndex(q) >= first
      <4> HIDE DEF q
      <4> QED
        BY <1>0, <2>2, <2>4, <3>2, <3>6, <3>7, <3>8 DEF LastIndex
    <3>9. IsMemory(q)
      <4> HIDE DEF q
      <4> QED
        BY <3>2, <3>8 DEF IsMemory
    <3> QED
      BY <3>1, <3>2, <3>9, <3>10
  <2> QED
    BY <2>6, <2>7
<1> QED
  BY <1>1, <1>2

(* One more record: what is read stays well typed, and holds something,     *)
(* unless it is a hard state that found nothing.                            *)
LEMMA ReplayRecordIs ==
  ASSUME NEW m, IsMemory(m), m.offset = m.snap.index, NEW r, IsRecord(r),
         ReplayRecord(m, r).ok
  PROVE  /\ IsMemory(ReplayRecord(m, r)) /\ m.ok
         /\ ReplayRecord(m, r).offset = ReplayRecord(m, r).snap.index
         /\ ReplayRecord(m, r).hs = IF r.type = "hardstate" THEN r.data ELSE m.hs
         /\ IF r.type = "hardstate" THEN LastIndex(ReplayRecord(m, r)) = LastIndex(m)
            ELSE LastIndex(ReplayRecord(m, r)) > 0
<1>1. m.ok
  BY DEF ReplayRecord
<1>2. m.offset \in Nat /\ Len(m.ents) \in Nat
  BY LogFacts DEF IsMemory, Successive
<1>3. CASE r.type = "entry"
  <2>1. PICK e \in Entry : e = r.data
    BY <1>3 DEF IsRecord
  <2>2. ReplayRecord(m, r) = MemAppend(m, <<e>>)
    BY <1>1, <1>3, <2>1 DEF ReplayRecord
  <2>3. e.index \in Nat \ {0}
    BY LogFacts
  <2>4. PICK q : q = MemAppend(m, <<e>>)
    OBVIOUS
  <2>5. Successive(<<e>>, e.index)
    BY <2>3 DEF Successive
  <2>6. /\ IsMemory(MemAppend(m, <<e>>)) /\ m.ok
        /\ MemAppend(m, <<e>>).offset = m.offset /\ MemAppend(m, <<e>>).snap = m.snap
        /\ MemAppend(m, <<e>>).hs = m.hs
        /\ <<e>> # <<>> => LastIndex(MemAppend(m, <<e>>)) >= e.index
    <3>1. MemAppend(m, <<e>>).ok
      BY <2>2
    <3> QED
      BY <2>3, <2>5, <3>1, AppendMemory
  <2>7. LastIndex(q) > 0
    <3>1. q.offset \in Nat /\ Len(q.ents) \in Nat
      BY <2>4, <2>6, LogFacts DEF IsMemory, Successive
    <3> QED
      BY <2>3, <2>4, <2>6, <3>1 DEF LastIndex
  <2> QED
    BY <1>3, <2>2, <2>4, <2>6, <2>7
<1>4. CASE r.type = "hardstate"
  <2>1. IsHardState(r.data)
    BY <1>4 DEF IsRecord
  <2> DEFINE q == [m EXCEPT !.hs = r.data]
  <2>2. ReplayRecord(m, r) = q
    BY <1>1, <1>4 DEF ReplayRecord, MemSetHardState
  <2>3. /\ DOMAIN q = DOMAIN m /\ q.hs = r.data
        /\ q.offset = m.offset /\ q.ents = m.ents /\ q.snap = m.snap
    BY DEF IsMemory
  <2> HIDE DEF q
  <2> QED
    BY <1>1, <1>4, <2>1, <2>2, <2>3 DEF IsMemory, LastIndex
<1>5. CASE r.type = "snapshot"
  <2>1. IsSnapshot(r.data) /\ r.data.index \in Nat \ {0}
    BY <1>5, LogFacts DEF IsRecord, IsSnapshot, Index
  <2>2. CASE SnapOutOfDate(m, r.data.index)
    <3>1. ReplayRecord(m, r) = m
      BY <1>1, <1>5, <2>2 DEF ReplayRecord
    <3>2. LastIndex(m) > 0
      <4>1. r.data.index <= m.offset
        BY <2>2 DEF SnapOutOfDate
      <4>2. PICK i \in Nat \ {0} : i = r.data.index
        BY <2>1
      <4>3. PICK a \in Nat, b \in Nat : a = m.offset /\ b = Len(m.ents)
        BY <1>2
      <4>4. i <= a
        BY ONLY <4>1, <4>2, <4>3
      <4>5. a + b > 0
        BY ONLY <4>4, i \in Nat \ {0}, a \in Nat, b \in Nat
      <4> QED
        BY <4>3, <4>5 DEF LastIndex
    <3> QED
      BY <1>1, <1>5, <3>1, <3>2
  <2>3. CASE ~SnapOutOfDate(m, r.data.index)
    <3> DEFINE q == [m EXCEPT !.snap = r.data, !.offset = r.data.index, !.ents = <<>>]
    <3>1. ReplayRecord(m, r) = q
      BY <1>1, <1>5, <2>3 DEF ReplayRecord, MemApplySnapshot
    <3>2. /\ DOMAIN q = DOMAIN m /\ q.hs = m.hs
          /\ q.offset = r.data.index /\ q.ents = <<>> /\ q.snap = r.data
      BY DEF IsMemory
    <3> HIDE DEF q
    <3>3. IsMemory(q)
      BY <2>1, <3>2 DEF IsMemory, IsSnapshot, Successive, Index
    <3>4. LastIndex(q) > 0
      BY <2>1, <3>2 DEF LastIndex
    <3> QED
      BY <1>1, <1>5, <3>1, <3>2, <3>3, <3>4
  <2> QED
    BY <2>2, <2>3
<1> QED
  BY <1>3, <1>4, <1>5 DEF IsRecord

-----------------------------------------------------------------------------
(* The invariant.                                                           *)

(* A vote sent that a node which is in the term, with the vote, stands by.  *)
Kept(g, term, vote) == g[1] < term \/ (g[1] = term /\ g[2] = vote)

OneEach(votes) == \A g, h \in votes : g[1] = h[1] => g = h

IsRaft(r) ==
  /\ DOMAIN r = {"term", "vote", "unst", "snap", "committed", "applied", "hs", "ack", "grants"}
  /\ r.term \in Term \cup {0} /\ r.vote \in Peers \cup {None}
  /\ r.term = 0 => r.vote = None
  /\ Successive(r.unst, r.unst[1].index)
  /\ r.committed \in 0 .. Len(GroupLog) /\ r.applied \in 0 .. r.committed
  /\ \/ r.snap = NoSnapshot
     \/ IsSnapshot(r.snap) /\ r.snap.index <= r.committed /\ r.applied < r.snap.index
  /\ IsHardState(r.hs) /\ r.hs.term <= r.term
  /\ r.grants \subseteq Term \X Peers
  /\ \A g \in r.grants : Kept(g, r.term, r.vote)

(* The entries not yet handed to a Ready follow the rest of the log.        *)
Follows(r, m) ==
  r.unst # <<>> =>
    IF r.snap # NoSnapshot THEN r.unst[1].index = r.snap.index + 1
    ELSE r.unst[1].index <= LastIndex(m) + 1

(* What a restart would find: it stands by the votes sent, and if it finds  *)
(* no log, so that it would start anew, it has no hard state either, or one *)
(* it cannot start with.                                                    *)
IsStored(m, votes) ==
  /\ IsMemory(m) /\ m.offset = m.snap.index
  /\ \A g \in votes : Kept(g, m.hs.term, m.hs.vote)
  /\ LastIndex(m) = 0 => m.hs = NoHardState \/ m.hs.commit >= 1

Stored == Iterate(file).ok => IsSeq(file) /\ (Replay(file).ok => IsStored(Replay(file), granted))

(* The file has the term and the vote.                                      *)
Has(m, term, vote) == m.ok => m.hs.term = term /\ m.hs.vote = vote

Saving(records) ==
  /\ IsSeq(records)
  /\ \A i \in 1 .. Len(records) :
       \/ records[i].type = "entry" /\ records[i].data \in Entry
       \/ i = Len(records) /\ records[i] = RecordHardState(HardState)

SavesState(records) == records # <<>> /\ records[Len(records)] = RecordHardState(HardState)

Running ==
  status = "up" =>
    /\ Iterate(file).ok
    /\ \A g \in granted : Kept(g, raft.term, raft.vote)
    /\ Replay(file).ok => raft.committed >= 1 \/ LastIndex(Replay(file)) > 0
    /\ pc = "ready" => Follows(raft, mem) /\ Has(Replay(file), raft.hs.term, raft.hs.vote)
    /\ pc = "save" => Saving(todo) /\ (Has(Replay(file), raft.term, raft.vote) \/ SavesState(todo))
    /\ pc \notin {"ready", "save"} => Has(Replay(file), raft.term, raft.vote)

(* The Ready in hand, and what is still to be written of it.                *)
InRound ==
  /\ pc = "ready" => rd = Idle
  /\ pc # "ready" =>
       /\ rd.ents = raft.unst /\ rd.snap = raft.snap /\ rd.grants = raft.grants
       /\ rd.hs \in {NoHardState, HardState}
       /\ rd.commits # <<>> => Last(rd.commits).index \in 1 .. raft.committed
  /\ pc \in {"snapshot", "compact"} => rd.commits # <<>>
  /\ pc \in {"install", "restore"} => rd.snap # NoSnapshot
  /\ pc = "compact" => IsSnapshot(mem.snap) /\ todo = <<RecordSnapshot(mem.snap)>>
  /\ pc = "restore" => todo = <<>> \/ todo = <<RecordSnapshot(rd.snap)>>
  /\ pc \notin {"save", "compact", "restore"} => todo = <<>>

Shapes ==
  /\ status \in {"up", "down", "dead"}
  /\ pc \in {"ready", "save", "send", "apply", "snapshot", "compact",
             "install", "restore", "advance"}
  /\ status # "up" => pc = "ready"
  /\ IsMemory(mem) /\ mem.ok
  /\ IsRaft(raft)
  /\ voters \subseteq Peers \cup DefaultVoters
  /\ harm \subseteq {"mixed", "wiped", "install"}
  /\ granted \subseteq Term \X Peers /\ OneEach(granted \cup raft.grants)

Inv == Shapes /\ Stored /\ Running /\ InRound

LEMMA Empties ==
  /\ IsMemory(NewMemoryStorage) /\ NewMemoryStorage.ok
  /\ NewMemoryStorage.offset = NewMemoryStorage.snap.index
  /\ LastIndex(NewMemoryStorage) = 0 /\ NewMemoryStorage.hs = NoHardState
  /\ IsHardState(NoHardState) /\ NoHardState.term = 0 /\ NoHardState.vote = None
  /\ NoSnapshot.index = 0
<1>1. IsHardState(NoHardState) /\ NoHardState.term = 0 /\ NoHardState.vote = None
  BY LogFacts DEF IsHardState, NoHardState
<1>2. NoSnapshot.index = 0
  BY DEF NoSnapshot
<1>3. Successive(<<>>, 1) /\ Len(<<>>) = 0
  BY DEF Successive
<1> QED
  BY <1>1, <1>2, <1>3, LogFacts DEF NewMemoryStorage, IsMemory, LastIndex

LEMMA StartIs ==
  /\ IsRaft(StartNode) /\ StartNode.grants = {} /\ StartNode.committed >= 1
  /\ StartNode.hs = NoHardState /\ StartNode.snap = NoSnapshot /\ StartNode.applied = 0
  /\ StartNode.unst # <<>> => StartNode.unst[1].index = 1
<1>1. PICK n \in Nat \ {0} : n = Cardinality(Peers) /\ n <= Len(GroupLog)
  BY LogFacts DEF Index
<1>2. Successive(GroupLog, 1)
  BY LogFacts, LeaderLogs DEF Successive, GroupLog
<1>3. Successive(SubSeq(GroupLog, 1, n), 1) /\ Len(SubSeq(GroupLog, 1, n)) = n
  BY <1>1, <1>2, CutBefore
<1>4. PICK es : es = SubSeq(GroupLog, 1, n)
  OBVIOUS
<1>5. Successive(es, es[1].index) /\ es[1].index = 1
  BY <1>1, <1>3, <1>4 DEF Successive
<1>6. 1 \in Term
  BY LogFacts DEF Term
<1>7. /\ StartNode.term = 1 /\ StartNode.vote = None /\ StartNode.unst = es
      /\ StartNode.snap = NoSnapshot /\ StartNode.committed = n /\ StartNode.applied = 0
      /\ StartNode.hs = NoHardState /\ StartNode.grants = {}
      /\ DOMAIN StartNode = {"term", "vote", "unst", "snap", "committed", "applied", "hs",
                             "ack", "grants"}
  BY <1>1, <1>4 DEF StartNode
<1> QED
  BY <1>1, <1>5, <1>6, <1>7, Empties, LogFacts DEF IsRaft

LEMMA InvInit == Init => Inv
<1> SUFFICES ASSUME Init PROVE Inv
  OBVIOUS
<1>1. Shapes
  BY Empties, StartIs DEF Init, Shapes, OneEach
<1>2. IsStored(NewMemoryStorage, {})
  BY Empties DEF IsStored
<1>3. Stored
  BY <1>2, ReplayEmpty DEF Init, Stored
<1>4. Running
  <2>1. Follows(raft, mem)
    BY StartIs, Empties DEF Follows, Init
  <2>2. Has(Replay(file), raft.hs.term, raft.hs.vote)
    BY StartIs, Empties, ReplayEmpty DEF Has, Init
  <2> QED
    BY <2>1, <2>2, StartIs, ReplayEmpty DEF Running, Init
<1>5. InRound
  BY DEF InRound, Init
<1> QED
  BY <1>1, <1>3, <1>4, <1>5 DEF Inv

-----------------------------------------------------------------------------
(* Messages.                                                                *)

LEMMA AtTermIs ==
  ASSUME IsRaft(raft), NEW t \in Term, t >= raft.term
  PROVE  /\ IsRaft(AtTerm(t)) /\ AtTerm(t).term = t
         /\ t = raft.term => AtTerm(t) = raft
         /\ t > raft.term => AtTerm(t).vote = None
         /\ AtTerm(t).unst = raft.unst /\ AtTerm(t).snap = raft.snap
         /\ AtTerm(t).committed = raft.committed /\ AtTerm(t).applied = raft.applied
         /\ AtTerm(t).hs = raft.hs /\ AtTerm(t).grants = raft.grants
         /\ \A g \in Term \X Peers :
              Kept(g, raft.term, raft.vote) => Kept(g, AtTerm(t).term, AtTerm(t).vote)
<1>1. t \in Nat \ {0} /\ raft.term \in Nat
  BY LogFacts DEF IsRaft
<1>2. CASE t = raft.term
  <2>1. AtTerm(t) = raft
    BY <1>1, <1>2 DEF AtTerm
  <2> QED
    BY <1>1, <1>2, <2>1
<1>3. CASE t > raft.term
  <2>1. PICK r : r = AtTerm(t)
    OBVIOUS
  <2>2. r = [raft EXCEPT !.term = t, !.vote = None]
    BY <1>3, <2>1 DEF AtTerm
  <2>3. /\ DOMAIN r = DOMAIN raft /\ r.term = t /\ r.vote = None
        /\ r.unst = raft.unst /\ r.snap = raft.snap
        /\ r.committed = raft.committed /\ r.applied = raft.applied
        /\ r.hs = raft.hs /\ r.grants = raft.grants
    BY <2>2 DEF IsRaft
  <2>4. \A g \in Term \X Peers : Kept(g, raft.term, raft.vote) => Kept(g, r.term, r.vote)
    <3> SUFFICES ASSUME NEW g \in Term \X Peers, Kept(g, raft.term, raft.vote)
                 PROVE  g[1] < t
      BY <2>3 DEF Kept
    <3>0. PICK i \in Term : i = g[1]
      OBVIOUS
    <3>1. g[1] \in Nat /\ g[1] <= raft.term
      <4>1. i \in Nat
        BY LogFacts
      <4> QED
        BY <1>1, <3>0, <4>1 DEF Kept
    <3> QED
      BY <1>1, <1>3, <3>1
  <2>5. r.hs.term <= r.term
    <3>1. raft.hs.term <= raft.term /\ raft.hs.term \in Nat
      BY LogFacts DEF IsRaft, IsHardState
    <3> QED
      BY <1>1, <1>3, <2>3, <3>1
  <2>6. IsRaft(r)
    BY <1>1, <2>3, <2>4, <2>5 DEF IsRaft
  <2> QED
    BY <1>1, <1>3, <2>1, <2>3, <2>4, <2>6
<1> QED
  BY <1>1, <1>2, <1>3

LEMMA ReceivedKeeps ==
  ASSUME Inv, NEW r, Receive, Received(r), IsRaft(r), r.hs = raft.hs,
         r.committed >= raft.committed, Follows(r, mem),
         \A g \in granted : Kept(g, r.term, r.vote), OneEach(granted \cup r.grants),
         voters' \subseteq Peers \cup DefaultVoters
  PROVE  Inv'
<1>1. /\ raft' = r /\ file' = file /\ mem' = mem /\ todo' = todo /\ status' = status
      /\ pc' = pc /\ rd' = rd /\ granted' = granted /\ harm' = harm
      /\ status = "up" /\ pc = "ready"
  BY DEF Received, Receive, disk
<1>2. Shapes'
  BY <1>1 DEF Inv, Shapes
<1>3. Stored'
  BY <1>1 DEF Inv, Stored
<1>4. Running'
  <2>1. Has(Replay(file), r.hs.term, r.hs.vote) /\ Iterate(file).ok
    BY <1>1 DEF Inv, Running
  <2>2. Replay(file).ok => r.committed >= 1 \/ LastIndex(Replay(file)) > 0
    <3>1. raft.committed \in Nat /\ r.committed \in Nat
      BY LogFacts DEF Inv, Shapes, IsRaft
    <3>2. Replay(file).ok => raft.committed >= 1 \/ LastIndex(Replay(file)) > 0
      BY <1>1 DEF Inv, Running
    <3> QED
      BY <3>1, <3>2
  <2> QED
    BY <1>1, <2>1, <2>2 DEF Running
<1>5. InRound'
  BY <1>1 DEF Inv, InRound
<1> QED
  BY <1>2, <1>3, <1>4, <1>5 DEF Inv

LEMMA VoteKeeps ==
  ASSUME Inv, NEW t \in Term, NEW c \in Candidates, RecvVote(t, c)
  PROVE  Inv'
<1> DEFINE r == AtTerm(t)
           v == [r EXCEPT !.vote = c, !.grants = @ \cup {<<t, c>>}]
<1>1. /\ Receive /\ t >= raft.term /\ r.vote \in {None, c} /\ Received(v)
      /\ UNCHANGED voters /\ IsRaft(raft) /\ c \in Peers
  BY NodeID DEF RecvVote, Inv, Shapes
<1>2. /\ IsRaft(r) /\ r.term = t
      /\ r.unst = raft.unst /\ r.snap = raft.snap
      /\ r.committed = raft.committed /\ r.applied = raft.applied
      /\ r.hs = raft.hs /\ r.grants = raft.grants
      /\ \A g \in Term \X Peers :
           Kept(g, raft.term, raft.vote) => Kept(g, r.term, r.vote)
  BY <1>1, AtTermIs
<1> HIDE DEF r
<1>3. /\ DOMAIN v = DOMAIN r /\ v.term = t /\ v.vote = c
      /\ v.unst = r.unst /\ v.snap = r.snap /\ v.committed = r.committed
      /\ v.applied = r.applied /\ v.hs = r.hs /\ v.grants = r.grants \cup {<<t, c>>}
  BY <1>2 DEF IsRaft
<1> HIDE DEF v
<1>4. \A g \in Term \X Peers : Kept(g, t, r.vote) => Kept(g, t, c) /\ (g[1] = t => g = <<t, c>>)
  BY <1>1, NodeID, LogFacts DEF Kept
<1>5. \A g \in granted \cup raft.grants : g \in Term \X Peers /\ Kept(g, t, r.vote)
  <2>1. \A g \in granted \cup raft.grants : g \in Term \X Peers /\ Kept(g, raft.term, raft.vote)
    BY <1>1 DEF Inv, Shapes, Running, IsRaft, Receive
  <2> QED
    BY <1>2, <2>1
<1>6. t \in Nat \ {0}
  BY LogFacts
<1>7. IsRaft(v)
  <2>1. v.grants \subseteq Term \X Peers
    BY <1>1, <1>2, <1>3, <1>5
  <2>2. \A g \in v.grants : Kept(g, v.term, v.vote)
    BY <1>2, <1>3, <1>4, <1>5, <1>6 DEF Kept
  <2> QED
    BY <1>1, <1>2, <1>3, <1>6, <2>1, <2>2 DEF IsRaft
<1>8. OneEach(granted \cup v.grants)
  <2>1. OneEach(granted \cup raft.grants)
    BY DEF Inv, Shapes
  <2>2. \A g \in granted \cup raft.grants : g[1] = t => g = <<t, c>>
    BY <1>4, <1>5
  <2> QED
    BY <1>2, <1>3, <2>1, <2>2 DEF OneEach
<1>9. \A g \in granted : Kept(g, v.term, v.vote)
  BY <1>3, <1>4, <1>5
<1>10. Follows(v, mem)
  BY <1>1, <1>2, <1>3 DEF Inv, Running, Receive, Follows
<1>11. voters' \subseteq Peers \cup DefaultVoters
  BY <1>1 DEF Inv, Shapes
<1>12. v.hs = raft.hs /\ v.committed >= raft.committed
  BY <1>2, <1>3, LogFacts DEF IsRaft
<1> QED
  BY <1>1, <1>7, <1>8, <1>9, <1>10, <1>11, <1>12, ReceivedKeeps

LEMMA MaxTwo ==
  ASSUME NEW a \in Int, NEW b \in Int
  PROVE  Max({a, b}) = IF a >= b THEN a ELSE b
<1> DEFINE m == IF a >= b THEN a ELSE b
<1>1. m \in {a, b} /\ \A y \in {a, b} : m >= y
  OBVIOUS
<1>2. \A x \in {a, b} : (\A y \in {a, b} : x >= y) => x = m
  OBVIOUS
<1>3. Max({a, b}) \in {a, b} /\ \A y \in {a, b} : Max({a, b}) >= y
  BY <1>1 DEF Max
<1> QED
  BY <1>2, <1>3

LEMMA HeartbeatKeeps ==
  ASSUME Inv, NEW t \in Term, NEW c \in Index, RecvHeartbeat(t, c)
  PROVE  Inv'
<1> DEFINE r == AtTerm(t)
           v == [r EXCEPT !.committed = c]
<1>1. /\ Receive /\ t >= raft.term /\ c > raft.committed /\ Received(v)
      /\ UNCHANGED voters /\ IsRaft(raft)
  BY DEF RecvHeartbeat, HeartbeatCommit, Inv, Shapes
<1>2. /\ IsRaft(r)
      /\ r.unst = raft.unst /\ r.snap = raft.snap
      /\ r.committed = raft.committed
      /\ r.hs = raft.hs /\ r.grants = raft.grants
      /\ \A g \in Term \X Peers :
           Kept(g, raft.term, raft.vote) => Kept(g, r.term, r.vote)
  BY <1>1, AtTermIs
<1> HIDE DEF r
<1>3. /\ DOMAIN v = DOMAIN r /\ v.term = r.term /\ v.vote = r.vote
      /\ v.unst = r.unst /\ v.snap = r.snap /\ v.committed = c
      /\ v.applied = r.applied /\ v.hs = r.hs /\ v.grants = r.grants
  BY <1>2 DEF IsRaft
<1> HIDE DEF v
<1>4. /\ c \in Nat /\ c <= Len(GroupLog) /\ Len(GroupLog) \in Nat
      /\ r.committed \in Nat /\ c > r.committed
  BY <1>1, <1>2, LogFacts DEF Index, IsRaft
<1>5. IsRaft(v)
  <2>1. v.committed \in 0 .. Len(GroupLog) /\ v.applied \in 0 .. v.committed
    BY <1>2, <1>3, <1>4 DEF IsRaft
  <2>2. \/ v.snap = NoSnapshot
        \/ IsSnapshot(v.snap) /\ v.snap.index <= v.committed /\ v.applied < v.snap.index
    <3>1. IsSnapshot(r.snap) => r.snap.index \in Nat
      BY <1>4 DEF IsSnapshot, Index
    <3> QED
      BY <1>2, <1>3, <1>4, <3>1 DEF IsRaft
  <2> QED
    BY <1>2, <1>3, <2>1, <2>2 DEF IsRaft
<1>6. \A g \in granted : Kept(g, v.term, v.vote)
  <2>1. \A g \in granted : g \in Term \X Peers /\ Kept(g, raft.term, raft.vote)
    BY <1>1 DEF Inv, Shapes, Running, Receive
  <2> QED
    BY <1>2, <1>3, <2>1
<1>7. OneEach(granted \cup v.grants)
  BY <1>2, <1>3 DEF Inv, Shapes
<1>8. Follows(v, mem)
  BY <1>1, <1>2, <1>3 DEF Inv, Running, Receive, Follows
<1>9. voters' \subseteq Peers \cup DefaultVoters
  BY <1>1 DEF Inv, Shapes
<1>10. v.hs = raft.hs /\ v.committed >= raft.committed
  BY <1>2, <1>3, <1>4
<1> QED
  BY <1>1, <1>5, <1>6, <1>7, <1>8, <1>9, <1>10, ReceivedKeeps

LEMMA SnapshotKeeps ==
  ASSUME Inv, NEW t \in Term, NEW i \in Index, RecvSnapshot(t, i)
  PROVE  Inv'
<1> DEFINE s == [index |-> i, term |-> GroupLog[i].term, voters |-> DefaultVoters,
                 data |-> Commands(SubSeq(GroupLog, 1, i))]
           r == AtTerm(t)
           v == [r EXCEPT !.unst = <<>>, !.snap = s, !.committed = i, !.ack = TRUE]
<1>1. /\ Receive /\ t >= raft.term /\ i > raft.committed /\ Received(v)
      /\ voters' = s.voters /\ IsRaft(raft)
  BY DEF RecvSnapshot, Inv, Shapes
<1>2. s.index = i /\ s.voters = DefaultVoters
  OBVIOUS
<1> HIDE DEF s
<1>3. /\ IsRaft(r)
      /\ r.committed = raft.committed
      /\ r.hs = raft.hs /\ r.grants = raft.grants
      /\ \A g \in Term \X Peers :
           Kept(g, raft.term, raft.vote) => Kept(g, r.term, r.vote)
  BY <1>1, AtTermIs
<1> HIDE DEF r
<1>4. /\ DOMAIN v = DOMAIN r /\ v.term = r.term /\ v.vote = r.vote
      /\ v.unst = <<>> /\ v.snap = s /\ v.committed = i
      /\ v.applied = r.applied /\ v.hs = r.hs /\ v.grants = r.grants
  BY <1>3 DEF IsRaft
<1> HIDE DEF v
<1>5. /\ i \in Nat /\ i <= Len(GroupLog) /\ r.committed \in Nat /\ i > r.committed
      /\ r.applied \in Nat /\ r.applied <= r.committed /\ Len(GroupLog) \in Nat
  BY <1>1, <1>3, LogFacts DEF Index, IsRaft
<1>6. IsRaft(v)
  <2>1. v.committed \in 0 .. Len(GroupLog) /\ v.applied \in 0 .. v.committed
    BY <1>4, <1>5
  <2>2. IsSnapshot(v.snap) /\ v.snap.index <= v.committed /\ v.applied < v.snap.index
    BY <1>2, <1>4, <1>5 DEF IsSnapshot
  <2>3. Successive(v.unst, v.unst[1].index)
    BY <1>4 DEF Successive
  <2> QED
    BY <1>3, <1>4, <2>1, <2>2, <2>3 DEF IsRaft
<1>7. \A g \in granted : Kept(g, v.term, v.vote)
  <2>1. \A g \in granted : g \in Term \X Peers /\ Kept(g, raft.term, raft.vote)
    BY <1>1 DEF Inv, Shapes, Running, Receive
  <2> QED
    BY <1>3, <1>4, <2>1
<1>8. OneEach(granted \cup v.grants)
  BY <1>3, <1>4 DEF Inv, Shapes
<1>9. Follows(v, mem)
  BY <1>4 DEF Follows
<1>10. voters' \subseteq Peers \cup DefaultVoters
  BY <1>1, <1>2
<1>11. v.hs = raft.hs /\ v.committed >= raft.committed
  BY <1>3, <1>4, <1>5
<1> QED
  BY <1>1, <1>6, <1>7, <1>8, <1>9, <1>10, <1>11, ReceivedKeeps

(* An entry in place of the tail that begins at its index.                  *)
LEMMA Replaced ==
  ASSUME NEW es, Successive(es, es[1].index), NEW e \in Entry,
         es # <<>> => e.index <= es[1].index + Len(es),
         NEW u, u = Before(es, e.index) \o <<e>>
  PROVE  /\ u # <<>> /\ Successive(u, u[1].index)
         /\ u[1].index = IF es # <<>> /\ es[1].index < e.index THEN es[1].index ELSE e.index
<1>1. PICK i \in Nat \ {0} : i = e.index
  BY LogFacts
<1>2. Successive(<<e>>, i) /\ <<e>> \in Seq(Entry) /\ Len(<<e>>) = 1 /\ <<e>>[1] = e
  BY <1>1 DEF Successive
<1>3. CASE Before(es, i) = <<>> /\ ~(es # <<>> /\ es[1].index < i)
  <2>1. u = <<e>>
    BY <1>1, <1>3
  <2> QED
    BY <1>1, <1>2, <1>3, <2>1
<1>4. CASE es # <<>>
  <2>1. es \in Seq(Entry) /\ Len(es) \in Nat \ {0} /\ es[1] \in Entry
    BY <1>4 DEF Successive
  <2>2. PICK first \in Nat \ {0} : first = es[1].index
    BY <2>1, LogFacts
  <2>3. PICK n \in Int : n = i - first
    OBVIOUS
  <2>4. Before(es, i) = SubSeq(es, 1, n) /\ n <= Len(es)
    <3>1. Before(es, i) = SubSeq(es, 1, n)
      BY <1>4, <2>2, <2>3 DEF Before
    <3>2. i <= first + Len(es)
      BY <1>1, <1>4, <2>2
    <3> QED
      BY <2>1, <2>3, <3>1, <3>2
  <2>5. Successive(SubSeq(es, 1, n), first) /\ Len(SubSeq(es, 1, n)) = IF n >= 1 THEN n ELSE 0
    BY <2>2, <2>4, CutBefore
  <2>6. PICK b : b = SubSeq(es, 1, n)
    OBVIOUS
  <2>7. b \in Seq(Entry) /\ Successive(b, first) /\ Len(b) = IF n >= 1 THEN n ELSE 0
    BY <2>5, <2>6 DEF Successive
  <2>8. CASE n >= 1
    <3>1. Successive(<<e>>, first + Len(b))
      BY <1>2, <2>3, <2>7, <2>8
    <3>2. Successive(b \o <<e>>, first) /\ Len(b \o <<e>>) = Len(b) + Len(<<e>>)
      <4>1. PICK c : c = <<e>>
        OBVIOUS
      <4>2. first \in Nat /\ Successive(b, first) /\ Successive(c, first + Len(b))
        BY <2>7, <3>1, <4>1
      <4>3. Successive(b \o c, first) /\ Len(b \o c) = Len(b) + Len(c)
        BY ONLY <4>2, Join
      <4> QED
        BY <4>1, <4>3
    <3>3. u = b \o <<e>>
      BY <1>1, <2>4, <2>6
    <3>4. Successive(u, first) /\ Len(u) = n + 1
      BY <1>2, <2>7, <2>8, <3>2, <3>3
    <3>5. u # <<>> /\ u[1].index = first
      BY <2>2, <2>8, <3>4 DEF Successive
    <3> QED
      BY <1>1, <1>4, <2>2, <2>3, <2>8, <3>4, <3>5
  <2>9. CASE ~(n >= 1)
    <3>1. b = <<>>
      BY <2>7, <2>9
    <3>2. ~(es # <<>> /\ es[1].index < i)
      BY <2>2, <2>3, <2>9
    <3> QED
      BY <1>3, <2>4, <2>6, <3>1, <3>2
  <2> QED
    BY <2>8, <2>9
<1>5. CASE es = <<>>
  BY <1>3, <1>5 DEF Before
<1> QED
  BY <1>4, <1>5

LEMMA LastOfIs ==
  ASSUME NEW r, IsRaft(r), NEW m, IsMemory(m)
  PROVE  /\ LastOf(r, m) \in Nat
         /\ r.unst # <<>> =>
              /\ Len(r.unst) \in Nat \ {0} /\ r.unst[1].index \in Nat \ {0}
              /\ LastOf(r, m) = r.unst[1].index + Len(r.unst) - 1
         /\ r.unst = <<>> =>
              LastOf(r, m) = IF r.snap # NoSnapshot THEN r.snap.index ELSE LastIndex(m)
         /\ r.snap # NoSnapshot => r.snap.index \in Nat \ {0}
         /\ LastIndex(m) \in Nat
<1>1. r.snap # NoSnapshot => r.snap.index \in Nat \ {0}
  BY LogFacts DEF IsRaft, IsSnapshot, Index
<1>2. LastIndex(m) \in Nat
  BY LogFacts DEF IsMemory, Successive, LastIndex
<1>3. CASE r.unst # <<>>
  <2>1. r.unst \in Seq(Entry) /\ Len(r.unst) \in Nat \ {0} /\ r.unst[1] \in Entry
    BY <1>3 DEF IsRaft, Successive
  <2>2. r.unst[1].index \in Nat \ {0}
    BY <2>1, LogFacts
  <2>3. r.unst[Len(r.unst)].index = r.unst[1].index + Len(r.unst) - 1
    BY <2>1 DEF IsRaft, Successive
  <2>4. LastOf(r, m) = r.unst[Len(r.unst)].index
    BY <1>3 DEF LastOf, Last
  <2> QED
    BY <1>1, <1>2, <1>3, <2>1, <2>2, <2>3, <2>4
<1>4. CASE r.unst = <<>>
  BY <1>1, <1>2, <1>4 DEF LastOf
<1> QED
  BY <1>3, <1>4

LEMMA EntryKeeps ==
  ASSUME Inv, NEW t \in Term, NEW i \in Index, NEW c \in {0, i}, RecvEntry(t, i, c)
  PROVE  Inv'
<1> DEFINE e == LeaderLog[t][i]
           r == AtTerm(t)
           a == IF Matches(t, i) THEN r ELSE [r EXCEPT !.unst = Before(@, i) \o <<e>>]
           v == [a EXCEPT !.committed = Max({@, c}), !.ack = TRUE]
<1>1. /\ Receive /\ t >= raft.term /\ i <= Len(LeaderLog[t]) /\ i > raft.committed
      /\ Matches(t, i - 1) /\ Received(v) /\ UNCHANGED voters
  BY DEF RecvEntry
<1>2. IsRaft(raft) /\ IsMemory(mem) /\ Follows(raft, mem)
  BY <1>1 DEF Inv, Shapes, Running, Receive
<1>3. /\ IsRaft(r) /\ r.term = t
      /\ r.unst = raft.unst /\ r.snap = raft.snap
      /\ r.committed = raft.committed /\ r.applied = raft.applied
      /\ r.hs = raft.hs /\ r.grants = raft.grants
      /\ \A g \in Term \X Peers :
           Kept(g, raft.term, raft.vote) => Kept(g, r.term, r.vote)
  BY <1>1, <1>2, AtTermIs
<1>4. i \in Nat \ {0} /\ i <= Len(GroupLog) /\ Len(GroupLog) \in Nat
  BY LogFacts DEF Index
<1>5. e \in Entry /\ e.index = i
  <2>1. LeaderLog[t] \in Seq(Entry) /\ i \in 1 .. Len(LeaderLog[t])
    BY <1>1, <1>4, LogFacts
  <2> QED
    BY <2>1, LeaderLogs
<1>6. PICK u : u = a.unst
  OBVIOUS
<1>7. i = 1 \/ i - 1 <= LastOf(raft, mem)
  BY <1>1, <1>4 DEF Matches
<1> HIDE DEF e, r
<1>8. /\ DOMAIN a = DOMAIN r /\ a.term = r.term /\ a.vote = r.vote /\ a.snap = r.snap
      /\ a.committed = r.committed /\ a.applied = r.applied
      /\ a.hs = r.hs /\ a.grants = r.grants
      /\ IF Matches(t, i) THEN u = r.unst ELSE u = Before(r.unst, i) \o <<e>>
  BY <1>3, <1>6 DEF IsRaft
<1> HIDE DEF a
<1>9. PICK k : k = Max({r.committed, c})
  OBVIOUS
<1>10. /\ DOMAIN v = DOMAIN r /\ v.term = r.term /\ v.vote = r.vote
       /\ v.unst = u /\ v.snap = r.snap /\ v.committed = k
       /\ v.applied = r.applied /\ v.hs = r.hs /\ v.grants = r.grants
  BY <1>3, <1>6, <1>8, <1>9 DEF IsRaft
<1> HIDE DEF v
<1>11. k \in 0 .. Len(GroupLog) /\ k >= r.committed
  <2>1. r.committed \in Int /\ c \in Int /\ r.committed \in 0 .. Len(GroupLog)
    BY <1>3, <1>4 DEF IsRaft
  <2>2. k = IF r.committed >= c THEN r.committed ELSE c
    BY <1>9, <2>1, MaxTwo
  <2> QED
    BY <1>4, <2>1, <2>2
<1>12. Successive(u, u[1].index) /\ Follows(v, mem)
  <2>1. CASE Matches(t, i)
    <3>1. u = raft.unst /\ v.unst = raft.unst /\ v.snap = raft.snap
      BY <1>3, <1>8, <1>10, <2>1
    <3> QED
      BY <1>2, <3>1 DEF IsRaft, Follows
  <2>2. CASE ~Matches(t, i)
    <3>1. PICK es : es = raft.unst
      OBVIOUS
    <3>2. /\ LastOf(raft, mem) \in Nat
          /\ es # <<>> =>
               /\ Len(es) \in Nat \ {0} /\ es[1].index \in Nat \ {0}
               /\ LastOf(raft, mem) = es[1].index + Len(es) - 1
          /\ es = <<>> =>
               LastOf(raft, mem) =
                 IF raft.snap # NoSnapshot THEN raft.snap.index ELSE LastIndex(mem)
          /\ raft.snap # NoSnapshot => raft.snap.index \in Nat \ {0}
          /\ LastIndex(mem) \in Nat
      BY <1>2, <3>1, LastOfIs
    <3>3. es # <<>> => e.index <= es[1].index + Len(es)
      BY <1>4, <1>5, <1>7, <3>2
    <3>4. u = Before(es, e.index) \o <<e>> /\ Successive(es, es[1].index)
      BY <1>2, <1>3, <1>5, <1>8, <2>2, <3>1 DEF IsRaft
    <3>5. /\ u # <<>> /\ Successive(u, u[1].index)
          /\ u[1].index = IF es # <<>> /\ es[1].index < e.index THEN es[1].index ELSE e.index
      BY <1>5, <3>3, <3>4, Replaced
    <3>6. CASE raft.snap # NoSnapshot
      <4>1. PICK s \in Nat \ {0} : s = raft.snap.index
        BY <3>2, <3>6
      <4>2. s < i
        BY <1>1, <1>2, <1>4, <3>6, <4>1 DEF IsRaft
      <4>3. es # <<>> => es[1].index = s + 1
        BY <1>2, <3>1, <3>6, <4>1 DEF Follows
      <4>4. es = <<>> => i <= s + 1
        BY <1>4, <1>7, <3>2, <3>6, <4>1
      <4>5. u[1].index = s + 1
        BY <1>4, <1>5, <3>5, <4>2, <4>3, <4>4
      <4> QED
        BY <1>3, <1>10, <3>5, <3>6, <4>1, <4>5 DEF Follows
    <3>7. CASE raft.snap = NoSnapshot
      <4>1. PICK n \in Nat : n = LastIndex(mem)
        BY <3>2
      <4>2. es # <<>> => es[1].index \in Nat /\ es[1].index <= n + 1
        BY <1>2, <3>1, <3>2, <3>7, <4>1 DEF Follows
      <4>3. es = <<>> => i <= n + 1
        BY <1>4, <1>7, <3>2, <3>7, <4>1
      <4>4. u[1].index <= n + 1
        BY <1>4, <1>5, <3>5, <4>2, <4>3
      <4> QED
        BY <1>3, <1>10, <3>5, <3>7, <4>1, <4>4 DEF Follows
    <3> QED
      BY <3>6, <3>7
  <2> QED
    BY <2>1, <2>2
<1>13. IsRaft(v)
  <2>1. v.committed \in 0 .. Len(GroupLog) /\ v.applied \in 0 .. v.committed
    BY <1>3, <1>4, <1>10, <1>11 DEF IsRaft
  <2>2. \/ v.snap = NoSnapshot
        \/ IsSnapshot(v.snap) /\ v.snap.index <= v.committed /\ v.applied < v.snap.index
    <3>1. IsSnapshot(r.snap) => r.snap.index \in Nat
      BY <1>4 DEF IsSnapshot, Index
    <3>2. r.committed \in Nat
      BY <1>3, <1>4 DEF IsRaft
    <3> QED
      BY <1>3, <1>4, <1>10, <1>11, <3>1, <3>2 DEF IsRaft
  <2> QED
    BY <1>3, <1>10, <1>12, <2>1, <2>2 DEF IsRaft
<1>14. \A g \in granted : Kept(g, v.term, v.vote)
  <2>1. \A g \in granted : g \in Term \X Peers /\ Kept(g, raft.term, raft.vote)
    BY <1>1 DEF Inv, Shapes, Running, Receive
  <2> QED
    BY <1>3, <1>10, <2>1
<1>15. OneEach(granted \cup v.grants)
  BY <1>3, <1>10 DEF Inv, Shapes
<1>16. voters' \subseteq Peers \cup DefaultVoters
  BY <1>1 DEF Inv, Shapes
<1>17. v.hs = raft.hs /\ v.committed >= raft.committed
  BY <1>3, <1>10, <1>11
<1> QED
  BY <1>1, <1>12, <1>13, <1>14, <1>15, <1>16, <1>17, ReceivedKeeps

-----------------------------------------------------------------------------
(* The end of the process.                                                  *)

LEMMA StopKeeps ==
  ASSUME Inv, NEW f, f = file \/ ~Iterate(f).ok, Stop(f)
  PROVE  Inv'
<1>1. /\ status' = "down" /\ file' = f /\ mem' = NewMemoryStorage /\ raft' = StartNode
      /\ voters' = {} /\ pc' = "ready" /\ rd' = Idle /\ todo' = <<>>
      /\ harm' \subseteq harm \cup {"install"} /\ granted' = granted
  BY DEF Stop
<1>2. Shapes'
  <2>1. OneEach(granted' \cup raft'.grants)
    BY <1>1, StartIs DEF Inv, Shapes, OneEach
  <2> QED
    BY <1>1, <2>1, Empties, StartIs DEF Inv, Shapes
<1>3. Stored'
  BY <1>1 DEF Inv, Stored
<1>4. Running'
  BY <1>1 DEF Running
<1>5. InRound'
  BY <1>1 DEF InRound
<1> QED
  BY <1>2, <1>3, <1>4, <1>5 DEF Inv

LEMMA CrashKeeps ==
  ASSUME Inv, Crash
  PROVE  Inv'
<1>1. PICK n \in 0 .. 2 : Stop(IF n = 0 THEN file ELSE TornAppend(file, Head(todo), n))
  BY DEF Crash
<1>2. CASE n = 0
  BY <1>1, <1>2, StopKeeps
<1>3. CASE n # 0
  <2>1. IsSeq(file) /\ Iterate(file).ok
    BY DEF Inv, Stored, Running, Crash
  <2>2. n \in 1 .. 2
    BY <1>3
  <2>3. ~Iterate(TornAppend(file, Head(todo), n)).ok
    BY <2>1, <2>2, TornUnread
  <2> QED
    BY <1>1, <1>3, <2>3, StopKeeps
<1> QED
  BY <1>2, <1>3

LEMMA FailKeeps ==
  ASSUME Inv, FailToStart
  PROVE  Inv'
<1>1. /\ UNCHANGED <<file, mem, todo, raft, voters, pc, rd, harm, granted>>
      /\ status = "down" /\ status' = "dead"
  BY DEF FailToStart, disk, history
<1>2. InRound'
  BY <1>1 DEF Inv, InRound, HardState
<1>3. Shapes' /\ Stored' /\ Running'
  BY <1>1 DEF Inv, Shapes, Stored, Running
<1> QED
  BY <1>2, <1>3 DEF Inv

-----------------------------------------------------------------------------
(* The start of a round.                                                    *)

LEMMA EntryAtIs ==
  ASSUME NEW r, IsRaft(r), NEW m, IsMemory(m), Follows(r, m),
         NEW i \in Nat \ {0}, i <= LastOf(r, m)
  PROVE  EntryAt(r, m, i).index = i
<1>1. PICK o \in Nat, k \in Nat : o = m.offset /\ k = Len(m.ents) /\ o <= Len(GroupLog)
  BY LogFacts DEF IsMemory, Successive
<1>2. LastIndex(m) = o + k
  BY <1>1 DEF LastIndex
<1>3. /\ LastOf(r, m) \in Nat
      /\ r.unst # <<>> =>
           /\ Len(r.unst) \in Nat \ {0} /\ r.unst[1].index \in Nat \ {0}
           /\ LastOf(r, m) = r.unst[1].index + Len(r.unst) - 1
      /\ r.unst = <<>> =>
           LastOf(r, m) = IF r.snap # NoSnapshot THEN r.snap.index ELSE LastIndex(m)
      /\ r.snap # NoSnapshot => r.snap.index \in Nat \ {0}
      /\ LastIndex(m) \in Nat
  BY LastOfIs
<1>4. CASE r.unst # <<>> /\ i >= r.unst[1].index
  <2>1. PICK first \in Nat \ {0} : first = r.unst[1].index
    BY <1>3, <1>4
  <2>2. i - first + 1 \in 1 .. Len(r.unst)
    <3>1. PICK n \in Nat \ {0} : n = Len(r.unst)
      BY <1>3, <1>4
    <3>2. i <= first + n - 1 /\ i >= first
      BY <1>3, <1>4, <2>1, <3>1
    <3> QED
      BY <3>1, <3>2
  <2>3. r.unst[i - first + 1].index = first + (i - first + 1) - 1
    BY <2>1, <2>2 DEF IsRaft, Successive
  <2>4. first + (i - first + 1) - 1 = i
    OBVIOUS
  <2> QED
    BY <1>4, <2>1, <2>3, <2>4 DEF EntryAt
<1>5. CASE ~(r.unst # <<>> /\ i >= r.unst[1].index) /\ i < FirstOf(r, m)
  <2>1. i \in 1 .. Len(GroupLog)
    <3>1. CASE r.snap # NoSnapshot
      <4>1. r.snap.index <= Len(GroupLog)
        BY <3>1, LogFacts DEF IsRaft, IsSnapshot, Index
      <4> QED
        BY <1>3, <1>5, <3>1, <4>1, LogFacts DEF FirstOf
    <3>2. CASE r.snap = NoSnapshot
      BY <1>1, <1>5, <3>2, LogFacts DEF FirstOf
    <3> QED
      BY <3>1, <3>2
  <2>2. GroupLog[i].index = i
    BY <2>1, LogFacts, LeaderLogs DEF GroupLog
  <2> QED
    BY <1>5, <2>2 DEF EntryAt
<1>6. CASE ~(r.unst # <<>> /\ i >= r.unst[1].index) /\ ~(i < FirstOf(r, m))
  <2>1. r.snap = NoSnapshot
    <3> SUFFICES ASSUME r.snap # NoSnapshot PROVE FALSE
      OBVIOUS
    <3>1. PICK s \in Nat \ {0} : s = r.snap.index
      BY <1>3
    <3>2. i > s
      BY <1>6, <3>1 DEF FirstOf
    <3>3. r.unst # <<>> => r.unst[1].index = s + 1
      BY <3>1 DEF Follows
    <3>4. r.unst = <<>> => i <= s
      BY <1>3, <3>1
    <3> QED
      BY <1>6, <3>2, <3>3, <3>4
  <2>2. i > o
    BY <1>1, <1>6, <2>1 DEF FirstOf
  <2>3. i <= o + k
    <3>1. r.unst # <<>> => r.unst[1].index <= (o + k) + 1 /\ r.unst[1].index \in Nat
      BY <1>2, <1>3, <2>1 DEF Follows
    <3> QED
      BY <1>2, <1>3, <1>6, <2>1, <3>1
  <2>4. i - o \in 1 .. k
    BY <2>2, <2>3
  <2>5. m.ents[i - o].index = (o + 1) + (i - o) - 1
    BY <1>1, <2>4 DEF IsMemory, Successive
  <2>6. (o + 1) + (i - o) - 1 = i
    OBVIOUS
  <2>7. EntryAt(r, m, i) = m.ents[i - o]
    BY <1>1, <1>6 DEF EntryAt
  <2> QED
    BY <2>5, <2>6, <2>7
<1> QED
  BY <1>4, <1>5, <1>6

LEMMA SaveRecordsAre ==
  ASSUME NEW es \in Seq(Entry), NEW hs, NEW records, records = SaveRecords(es, hs)
  PROVE  /\ IsSeq(records)
         /\ \A i \in 1 .. Len(records) :
              \/ records[i].type = "entry" /\ records[i].data \in Entry
              \/ hs # NoHardState /\ i = Len(records) /\ records[i] = RecordHardState(hs)
         /\ hs # NoHardState => records # <<>> /\ records[Len(records)] = RecordHardState(hs)
<1> DEFINE a == [i \in 1 .. Len(es) |-> RecordEntry(es[i])]
           b == IF hs = NoHardState THEN <<>> ELSE <<RecordHardState(hs)>>
           S == {RecordEntry(e) : e \in Entry} \cup {RecordHardState(hs)}
<1>1. PICK n \in Nat : n = Len(es)
  OBVIOUS
<1>2. a \in Seq(S) /\ Len(a) = n
  <2>1. \A i \in 1 .. n : a[i] \in S
    BY <1>1
  <2> QED
    BY <1>1, <2>1
<1>3. \A i \in 1 .. n : a[i].type = "entry" /\ a[i].data \in Entry
  BY <1>1 DEF RecordEntry
<1>4. b \in Seq(S) /\ Len(b) = (IF hs = NoHardState THEN 0 ELSE 1)
      /\ (hs # NoHardState => b[1] = RecordHardState(hs))
  <2>1. PICK r : r = RecordHardState(hs)
    OBVIOUS
  <2>2. r \in S
    BY <2>1
  <2>3. CASE hs = NoHardState
    <3>1. b = <<>>
      BY <2>3
    <3> HIDE DEF S, b
    <3> QED
      BY <2>3, <3>1
  <2>4. CASE hs # NoHardState
    <3>1. b = <<r>>
      BY <2>1, <2>4
    <3> HIDE DEF S, b
    <3> QED
      BY <2>1, <2>2, <2>4, <3>1
  <2> QED
    BY <2>3, <2>4
<1> HIDE DEF a, b, S
<1>5. /\ a \o b \in Seq(S)
      /\ Len(a \o b) = Len(a) + Len(b)
      /\ \A i \in 1 .. Len(a) + Len(b) :
           (a \o b)[i] = IF i <= Len(a) THEN a[i] ELSE b[i - Len(a)]
  BY <1>2, <1>4, ConcatProperties
<1>6. records = a \o b
  BY DEF SaveRecords, a, b
<1>7. CASE hs = NoHardState
  <2>1. Len(records) = n /\ \A i \in 1 .. n : records[i] = a[i]
    BY <1>2, <1>4, <1>5, <1>6, <1>7
  <2> QED
    BY <1>3, <1>5, <1>6, <1>7, <2>1 DEF IsSeq
<1>8. CASE hs # NoHardState
  <2>1. Len(records) = n + 1 /\ (\A i \in 1 .. n : records[i] = a[i])
    BY <1>2, <1>4, <1>5, <1>6, <1>8
  <2>2. records[n + 1] = b[1]
    <3>1. n + 1 \in 1 .. Len(a) + Len(b) /\ ~(n + 1 <= Len(a)) /\ (n + 1) - Len(a) = 1
      BY <1>2, <1>4, <1>8
    <3> QED
      BY <1>5, <1>6, <3>1
  <2>3. \A i \in 1 .. n + 1 : i \in 1 .. n \/ i = n + 1
    OBVIOUS
  <2>4. records # <<>>
    BY <2>1
  <2> QED
    BY <1>3, <1>4, <1>5, <1>6, <1>8, <2>1, <2>2, <2>3, <2>4 DEF IsSeq
<1> QED
  BY <1>7, <1>8

LEMMA TakeReadyKeeps ==
  ASSUME Inv, TakeReady
  PROVE  Inv'
<1> DEFINE hs == IF HardState = raft.hs THEN NoHardState ELSE HardState
<1>1. PICK lo : lo = NextToApply
  OBVIOUS
<1>2. PICK hi :
        /\ rd' = [ents |-> raft.unst, hs |-> hs, snap |-> raft.snap,
                  commits |-> [i \in 1 .. hi - lo + 1 |-> EntryAt(raft, mem, lo + i - 1)],
                  ack |-> raft.ack, grants |-> raft.grants]
        /\ (lo > raft.committed /\ hi = lo - 1) \/ hi \in lo .. raft.committed
  BY <1>1 DEF TakeReady
<1>3. /\ rd'.ents = raft.unst /\ rd'.hs = hs /\ rd'.snap = raft.snap /\ rd'.grants = raft.grants
      /\ rd'.commits = [i \in 1 .. hi - lo + 1 |-> EntryAt(raft, mem, lo + i - 1)]
  BY <1>2
<1>4. /\ status = "up" /\ pc = "ready" /\ ~CommitBeyondLog
      /\ todo' = SaveRecords(raft.unst, hs) /\ pc' = "save"
      /\ UNCHANGED <<status, raft, voters, file, mem, granted>>
      /\ harm' \subseteq harm \cup {"mixed"}
  BY <1>3 DEF TakeReady, At, InLoop
<1>5. IsRaft(raft) /\ IsMemory(mem) /\ Follows(raft, mem)
  BY <1>4 DEF Inv, Shapes, Running
<1>6. rd'.commits # <<>> => Last(rd'.commits).index \in 1 .. raft.committed
  <2> SUFFICES ASSUME rd'.commits # <<>>
               PROVE  Last(rd'.commits).index \in 1 .. raft.committed
    OBVIOUS
  <2>1. raft.applied \in Nat /\ raft.committed \in Nat /\ FirstOf(raft, mem) \in Nat \ {0}
    BY <1>5, LogFacts DEF IsRaft, IsMemory, IsSnapshot, Index, FirstOf
  <2>2. lo \in Nat \ {0}
    <3>1. raft.applied + 1 \in Int /\ FirstOf(raft, mem) \in Int
      BY <2>1
    <3>2. lo = IF raft.applied + 1 >= FirstOf(raft, mem) THEN raft.applied + 1
               ELSE FirstOf(raft, mem)
      BY <1>1, <3>1, MaxTwo DEF NextToApply
    <3> QED
      BY <2>1, <3>2
  <2>3. hi \in lo .. raft.committed
    <3>1. CASE lo > raft.committed /\ hi = lo - 1
      <4>1. hi - lo + 1 = 0
        BY <2>2, <3>1
      <4>2. rd'.commits = <<>>
        BY <1>3, <4>1
      <4> QED
        BY <4>2
    <3> QED
      BY <1>2, <3>1
  <2>4. LastOf(raft, mem) \in Nat /\ hi <= LastOf(raft, mem)
    <3>1. LastOf(raft, mem) \in Nat
      BY <1>5, LastOfIs
    <3> QED
      BY <1>1, <1>4, <2>1, <2>2, <2>3, <3>1 DEF CommitBeyondLog
  <2>5. EntryAt(raft, mem, hi).index = hi
    BY <1>5, <2>2, <2>3, <2>4, EntryAtIs
  <2>6. PICK n \in Nat \ {0} : n = hi - lo + 1
    BY <2>2, <2>3
  <2>7. Len(rd'.commits) = n /\ rd'.commits[n] = EntryAt(raft, mem, lo + n - 1)
    BY <1>3, <2>6
  <2>8. lo + n - 1 = hi
    BY <2>2, <2>3, <2>6
  <2> QED
    BY <2>1, <2>2, <2>3, <2>5, <2>7, <2>8 DEF Last
<1>7. InRound'
  <2>1. rd'.hs \in {NoHardState, HardState'}
    BY <1>3, <1>4 DEF HardState
  <2> QED
    BY <1>3, <1>4, <1>6, <2>1 DEF InRound
<1>8. Shapes' /\ Stored'
  BY <1>4 DEF Inv, Shapes, Stored
<1>9. raft.unst \in Seq(Entry)
  BY <1>5 DEF IsRaft, Successive
<1>10. PICK records : records = SaveRecords(raft.unst, hs)
  OBVIOUS
<1>11. /\ IsSeq(records)
       /\ \A i \in 1 .. Len(records) :
            \/ records[i].type = "entry" /\ records[i].data \in Entry
            \/ hs # NoHardState /\ i = Len(records) /\ records[i] = RecordHardState(hs)
       /\ hs # NoHardState => records # <<>> /\ records[Len(records)] = RecordHardState(hs)
  <2> HIDE DEF hs
  <2> QED
    BY <1>9, <1>10, SaveRecordsAre
<1>12. Saving(records) /\ (Has(Replay(file), raft.term, raft.vote) \/ SavesState(records))
  <2>1. CASE HardState # raft.hs /\ HardState # NoHardState
    BY <1>11, <2>1 DEF Saving, SavesState
  <2>2. CASE HardState = raft.hs \/ HardState = NoHardState
    <3>1. hs = NoHardState /\ raft.term = raft.hs.term /\ raft.vote = raft.hs.vote
      <4>1. HardState.term = raft.term /\ HardState.vote = raft.vote
        BY DEF HardState
      <4>2. CASE HardState = raft.hs
        BY <4>1, <4>2
      <4>3. CASE HardState = NoHardState
        <5>1. raft.term = 0 /\ raft.vote = None
          BY <4>1, <4>3, Empties
        <5>2. raft.hs.term \in Nat /\ raft.hs.term <= raft.term
          BY <1>5, LogFacts DEF IsRaft, IsHardState
        <5>3. raft.hs.term = 0
          BY <5>1, <5>2
        <5>4. raft.hs.vote = None
          BY <1>5, <5>3 DEF IsRaft, IsHardState
        <5> QED
          BY <4>3, <5>1, <5>3, <5>4
      <4> QED
        BY <2>2, <4>2, <4>3
    <3>2. Has(Replay(file), raft.term, raft.vote)
      BY <1>4, <3>1 DEF Inv, Running
    <3>3. Saving(records)
      BY <1>11, <3>1 DEF Saving
    <3> QED
      BY <3>2, <3>3
  <2> QED
    BY <2>1, <2>2
<1>13. Running'
  <2>1. HardState' = HardState /\ todo' = records
    BY <1>4, <1>10 DEF HardState
  <2>2. Saving(todo)' /\ (Has(Replay(file), raft.term, raft.vote)' \/ SavesState(todo)')
    BY <1>4, <1>12, <2>1 DEF Saving, SavesState
  <2> QED
    BY <1>4, <2>2 DEF Inv, Running
<1> QED
  BY <1>7, <1>8, <1>13 DEF Inv

-----------------------------------------------------------------------------
(* The rest of the round.                                                   *)

(* A record more in the file: an entry, a snapshot, or the hard state of    *)
(* the moment.                                                              *)
LEMMA AppendStored ==
  ASSUME Inv, status = "up", NEW r, IsRecord(r), r.type = "hardstate" => r.data = HardState,
         NEW f, f = WALAppend(file, r)
  PROVE  /\ IsSeq(f) /\ Iterate(f).ok
         /\ Replay(f).ok =>
              /\ Replay(file).ok /\ IsStored(Replay(f), granted)
              /\ Replay(f).hs = IF r.type = "hardstate" THEN r.data ELSE Replay(file).hs
              /\ raft.committed >= 1 \/ LastIndex(Replay(f)) > 0
<1>1. /\ Iterate(file).ok /\ IsSeq(file) /\ \A g \in granted : Kept(g, raft.term, raft.vote)
      /\ Replay(file).ok => raft.committed >= 1 \/ LastIndex(Replay(file)) > 0
      /\ Replay(file).ok => IsStored(Replay(file), granted)
  BY DEF Inv, Stored, Running
<1>2. IsSeq(f) /\ Iterate(f).ok
  BY <1>1, AppendRead
<1>3. PICK m : m = Replay(file)
  OBVIOUS
<1>4. Replay(f) = ReplayRecord(m, r)
  BY <1>1, <1>3, ReplayAppend
<1>5. ASSUME Replay(f).ok
      PROVE  /\ m.ok /\ IsStored(Replay(f), granted)
             /\ Replay(f).hs = IF r.type = "hardstate" THEN r.data ELSE m.hs
             /\ raft.committed >= 1 \/ LastIndex(Replay(f)) > 0
  <2>1. PICK q : q = ReplayRecord(m, r)
    OBVIOUS
  <2>2. q.ok
    BY <1>4, <1>5, <2>1
  <2>3. m.ok
    BY <2>1, <2>2 DEF ReplayRecord
  <2>4. IsStored(m, granted) /\ IsMemory(m) /\ m.offset = m.snap.index
    BY <1>1, <1>3, <2>3 DEF IsStored
  <2>5. /\ IsMemory(q) /\ m.ok
        /\ q.offset = q.snap.index
        /\ q.hs = IF r.type = "hardstate" THEN r.data ELSE m.hs
        /\ IF r.type = "hardstate" THEN LastIndex(q) = LastIndex(m) ELSE LastIndex(q) > 0
    <3>1. /\ IsMemory(ReplayRecord(m, r)) /\ m.ok
          /\ ReplayRecord(m, r).offset = ReplayRecord(m, r).snap.index
          /\ ReplayRecord(m, r).hs = IF r.type = "hardstate" THEN r.data ELSE m.hs
          /\ IF r.type = "hardstate" THEN LastIndex(ReplayRecord(m, r)) = LastIndex(m)
             ELSE LastIndex(ReplayRecord(m, r)) > 0
      BY <2>1, <2>2, <2>4, ReplayRecordIs
    <3> QED
      BY <2>1, <3>1
  <2>6. CASE r.type = "hardstate"
    <3>1. q.hs = HardState
      BY <2>5, <2>6
    <3>2. q.hs.term = raft.term /\ q.hs.vote = raft.vote /\ q.hs.commit = raft.committed
      BY <3>1 DEF HardState
    <3>3. raft.committed >= 1 \/ LastIndex(m) > 0
      BY <1>1, <1>3, <2>3
    <3>4. LastIndex(q) = 0 => q.hs.commit >= 1
      BY <2>5, <2>6, <3>2, <3>3
    <3>5. IsStored(q, granted)
      BY <1>1, <2>5, <3>2, <3>4 DEF IsStored
    <3> QED
      BY <1>4, <2>1, <2>3, <2>5, <2>6, <3>3, <3>5
  <2>7. CASE r.type # "hardstate"
    <3>1. LastIndex(q) > 0 /\ q.hs = m.hs
      BY <2>5, <2>7
    <3>2. LastIndex(q) # 0
      BY <3>1
    <3>3. IsStored(q, granted)
      BY <2>4, <2>5, <3>1, <3>2 DEF IsStored
    <3> QED
      BY <1>4, <2>1, <2>3, <2>7, <3>1, <3>3
  <2> QED
    BY <2>6, <2>7
<1> QED
  BY <1>2, <1>3, <1>5

LEMMA WriteRecordKeeps ==
  ASSUME Inv, WriteRecord
  PROVE  Inv'
<1>1. /\ status = "up" /\ pc = "save" /\ todo # <<>>
      /\ file' = WALAppend(file, Head(todo)) /\ todo' = Tail(todo)
      /\ UNCHANGED <<status, raft, voters, mem, pc, rd, granted, harm>>
  BY DEF WriteRecord, At, InLoop
<1>2. Saving(todo) /\ (Has(Replay(file), raft.term, raft.vote) \/ SavesState(todo))
  BY <1>1 DEF Inv, Running
<1>3. PICK S : todo \in Seq(S)
  BY <1>2 DEF Saving, IsSeq
<1>4. PICK n \in Nat \ {0} : n = Len(todo)
  BY <1>1, <1>3
<1>5. PICK h, rest : h = todo[1] /\ rest = Tail(todo)
  OBVIOUS
<1>6. /\ Head(todo) = h /\ rest \in Seq(S) /\ Len(rest) = n - 1
      /\ \A i \in 1 .. n - 1 : rest[i] = todo[i + 1]
  BY <1>1, <1>3, <1>4, <1>5
<1>7. \/ h.type = "entry" /\ h.data \in Entry
      \/ n = 1 /\ h = RecordHardState(HardState)
  BY <1>2, <1>4, <1>5 DEF Saving
<1>8. IsRecord(h) /\ (h.type = "hardstate" => h.data = HardState)
  <2>1. IsHardState(HardState)
    BY DEF Inv, Shapes, IsRaft, IsHardState, HardState
  <2> QED
    BY <1>7, <2>1 DEF IsRecord, RecordHardState
<1>9. PICK f : f = WALAppend(file, h)
  OBVIOUS
<1>10. /\ IsSeq(f) /\ Iterate(f).ok
       /\ Replay(f).ok =>
            /\ Replay(file).ok /\ IsStored(Replay(f), granted)
            /\ Replay(f).hs = IF h.type = "hardstate" THEN h.data ELSE Replay(file).hs
            /\ raft.committed >= 1 \/ LastIndex(Replay(f)) > 0
  BY <1>1, <1>8, <1>9, AppendStored
<1>11. file' = f
  BY <1>1, <1>6, <1>9
<1>12. Saving(rest)
  <2>1. ASSUME NEW i \in 1 .. n - 1
        PROVE  \/ rest[i].type = "entry" /\ rest[i].data \in Entry
               \/ i = n - 1 /\ rest[i] = RecordHardState(HardState)
    <3>1. i + 1 \in 1 .. n /\ rest[i] = todo[i + 1] /\ (i + 1 = n => i = n - 1)
      BY <1>4, <1>6
    <3> QED
      BY <1>2, <1>4, <3>1 DEF Saving
  <2> QED
    BY <1>6, <2>1 DEF Saving, IsSeq
<1>13. Has(Replay(f), raft.term, raft.vote) \/ SavesState(rest)
  <2>1. CASE h.type = "entry"
    <3>1. CASE Has(Replay(file), raft.term, raft.vote)
      BY <1>10, <2>1, <3>1 DEF Has
    <3>2. CASE SavesState(todo)
      <4>1. n # 1
        BY <1>4, <1>5, <2>1, <3>2 DEF SavesState, RecordHardState
      <4>2. n - 1 \in 1 .. n - 1 /\ (n - 1) + 1 = n
        BY <4>1
      <4>3. rest[n - 1] = todo[n]
        BY <1>6, <4>2
      <4>4. rest # <<>>
        BY <1>6, <4>1
      <4> QED
        BY <1>4, <1>6, <3>2, <4>3, <4>4 DEF SavesState
    <3> QED
      BY <1>2, <3>1, <3>2
  <2>2. CASE h.type # "entry"
    <3>1. h = RecordHardState(HardState)
      BY <1>7, <2>2
    <3>2. h.type = "hardstate" /\ h.data.term = raft.term /\ h.data.vote = raft.vote
      BY <3>1 DEF RecordHardState, HardState
    <3> QED
      BY <1>10, <3>2 DEF Has
  <2> QED
    BY <2>1, <2>2
<1>14. HardState' = HardState /\ todo' = rest
  BY <1>1, <1>5 DEF HardState
<1>15. Running'
  <2>1. Saving(todo)' /\ (Has(Replay(file), raft.term, raft.vote)' \/ SavesState(todo)')
    BY <1>1, <1>11, <1>12, <1>13, <1>14 DEF Saving, SavesState
  <2>2. \A g \in granted : Kept(g, raft.term, raft.vote)
    BY <1>1 DEF Inv, Running
  <2> QED
    BY <1>1, <1>10, <1>11, <2>1, <2>2 DEF Running
<1>16. Shapes'
  BY <1>1 DEF Inv, Shapes
<1>17. Stored'
  BY <1>1, <1>10, <1>11 DEF Stored
<1>18. InRound'
  BY <1>1, <1>14 DEF Inv, InRound
<1> QED
  BY <1>15, <1>16, <1>17, <1>18 DEF Inv

Rest == {"send", "apply", "snapshot", "compact", "install", "restore", "advance"}

(* A file from which a restart would have the term and the vote.            *)
Safe(f) ==
  /\ IsSeq(f) /\ Iterate(f).ok
  /\ Replay(f).ok =>
       /\ IsStored(Replay(f), granted)
       /\ Replay(f).hs.term = raft.term /\ Replay(f).hs.vote = raft.vote
       /\ raft.committed >= 1 \/ LastIndex(Replay(f)) > 0

LEMMA FileSafe ==
  ASSUME Inv, status = "up", pc \in Rest \/ (pc = "save" /\ todo = <<>>)
  PROVE  Safe(file)
<1>1. Has(Replay(file), raft.term, raft.vote)
  BY DEF Inv, Running, SavesState, Rest
<1> QED
  BY <1>1 DEF Inv, Stored, Running, Has, Safe

LEMMA SnapshotSafe ==
  ASSUME Inv, status = "up", pc \in Rest, NEW s, IsSnapshot(s)
  PROVE  Safe(WALAppend(file, RecordSnapshot(s)))
<1>1. PICK r, f : r = RecordSnapshot(s) /\ f = WALAppend(file, r)
  OBVIOUS
<1>2. IsRecord(r) /\ r.type # "hardstate"
  BY <1>1 DEF RecordSnapshot, IsRecord
<1>3. /\ IsSeq(f) /\ Iterate(f).ok
      /\ Replay(f).ok =>
           /\ Replay(file).ok /\ IsStored(Replay(f), granted)
           /\ Replay(f).hs = IF r.type = "hardstate" THEN r.data ELSE Replay(file).hs
           /\ raft.committed >= 1 \/ LastIndex(Replay(f)) > 0
  BY <1>1, <1>2, AppendStored
<1>4. Safe(f)
  BY <1>2, <1>3, FileSafe DEF Safe
<1> QED
  BY <1>1, <1>4

(* The steps between Save and Advance.                                      *)
LEMMA RoundKeeps ==
  ASSUME Inv, status = "up", InLoop, pc' \in Rest, IsMemory(mem'), mem'.ok,
         harm' \subseteq harm \cup {"wiped"}, granted' \subseteq granted \cup raft.grants,
         Safe(file'), InRound'
  PROVE  Inv'
<1>1. UNCHANGED <<status, raft, voters>>
  BY DEF InLoop
<1>2. \A g \in granted' : Kept(g, raft.term, raft.vote) /\ g \in Term \X Peers
  BY DEF Inv, Shapes, IsRaft, Running
<1>3. Shapes'
  <2>1. OneEach(granted' \cup raft'.grants)
    BY <1>1 DEF Inv, Shapes, OneEach
  <2>2. harm' \subseteq {"mixed", "wiped", "install"} /\ granted' \subseteq Term \X Peers
    BY <1>2 DEF Inv, Shapes
  <2> QED
    BY <1>1, <2>1, <2>2 DEF Inv, Shapes, Rest
<1>4. Stored'
  <2>1. Replay(file').ok => IsStored(Replay(file'), granted')
    BY <1>2 DEF Safe, IsStored
  <2> QED
    BY <2>1 DEF Stored, Safe
<1>5. Running'
  BY <1>1, <1>2 DEF Running, Safe, Has, Rest
<1> QED
  BY <1>3, <1>4, <1>5 DEF Inv

(* The memory after a Save.                                                 *)
LEMMA SavedMemory ==
  ASSUME Inv, pc = "save", NEW m, m = SaveMemory(mem, rd.ents, rd.hs), m.ok
  PROVE  IsMemory(m)
<1>1. /\ IsMemory(mem) /\ IsRaft(raft) /\ rd.ents = raft.unst
      /\ rd.hs \in {NoHardState, HardState}
  BY DEF Inv, Shapes, InRound
<1>2. PICK first \in Nat : Successive(rd.ents, first)
  <2>1. CASE rd.ents = <<>>
    <3>1. Successive(<<>>, 1)
      BY DEF Successive
    <3> QED
      BY <2>1, <3>1
  <2>2. CASE rd.ents # <<>>
    <3>1. Successive(rd.ents, rd.ents[1].index)
      BY <1>1 DEF IsRaft
    <3>2. rd.ents[1] \in Entry
      BY <2>2, <3>1 DEF Successive
    <3>3. rd.ents[1].index \in Nat
      BY <3>2, LogFacts
    <3> QED
      BY <3>1, <3>3
  <2> QED
    BY <2>1, <2>2
<1>3. PICK a : a = MemAppend(mem, rd.ents)
  OBVIOUS
<1>4. m = IF rd.hs = NoHardState \/ ~a.ok THEN a ELSE [a EXCEPT !.hs = rd.hs]
  BY <1>3 DEF SaveMemory, MemSetHardState
<1>5. a.ok
  BY <1>4
<1>6. IsMemory(a)
  BY <1>1, <1>2, <1>3, <1>5, AppendMemory
<1>7. IsMemory(m) /\ m.ok
  <2>1. CASE rd.hs = NoHardState
    BY <1>4, <1>5, <1>6, <2>1
  <2>2. CASE rd.hs # NoHardState
    <3>1. IsHardState(rd.hs)
      BY <1>1, <2>2 DEF IsRaft, IsHardState, HardState
    <3> DEFINE q == [a EXCEPT !.hs = rd.hs]
    <3>2. /\ DOMAIN q = DOMAIN a /\ q.hs = rd.hs /\ q.ok = a.ok
          /\ q.offset = a.offset /\ q.ents = a.ents /\ q.snap = a.snap
      BY <1>6 DEF IsMemory
    <3>3. m = q
      BY <1>4, <1>5, <2>2
    <3> HIDE DEF q
    <3> QED
      BY <1>5, <1>6, <3>1, <3>2, <3>3 DEF IsMemory
  <2> QED
    BY <2>1, <2>2
<1> QED
  BY <1>7

LEMMA SaveKeeps ==
  ASSUME Inv, Save
  PROVE  Inv'
<1>1. /\ status = "up" /\ pc = "save" /\ todo = <<>> /\ pc' = "send" /\ InLoop
      /\ mem' = SaveMemory(mem, rd.ents, rd.hs) /\ SaveMemory(mem, rd.ents, rd.hs).ok
      /\ UNCHANGED <<file, rd, todo, granted, harm>>
  BY DEF Save, At
<1>2. IsMemory(mem') /\ mem'.ok
  BY <1>1, SavedMemory
<1>3. HardState' = HardState /\ raft' = raft
  BY <1>1 DEF HardState, InLoop
<1>4. InRound'
  BY <1>1, <1>3 DEF Inv, InRound
<1>5. Safe(file')
  <2>1. Safe(file)
    BY <1>1, FileSafe
  <2> QED
    BY <1>1, <2>1
<1> QED
  BY <1>1, <1>2, <1>4, <1>5, RoundKeeps DEF Rest

LEMMA SendKeeps ==
  ASSUME Inv, Send
  PROVE  Inv'
<1>1. /\ status = "up" /\ pc = "send" /\ pc' = "apply" /\ InLoop
      /\ UNCHANGED <<file, mem, todo, rd, harm>>
      /\ granted' \subseteq granted \cup rd.grants
  BY DEF Send, At, disk
<1>2. rd.grants = raft.grants /\ IsMemory(mem) /\ mem.ok
  BY <1>1 DEF Inv, Shapes, InRound
<1>3. HardState' = HardState /\ raft' = raft
  BY <1>1 DEF HardState, InLoop
<1>4. InRound'
  BY <1>1, <1>3 DEF Inv, InRound
<1>5. Safe(file')
  <2>1. Safe(file)
    BY <1>1, FileSafe DEF Rest
  <2> QED
    BY <1>1, <2>1
<1> QED
  BY <1>1, <1>2, <1>4, <1>5, RoundKeeps DEF Rest

LEMMA ApplyKeeps ==
  ASSUME Inv, Apply
  PROVE  Inv'
<1>1. /\ status = "up" /\ pc = "apply" /\ pc' = AfterApply /\ InLoop
      /\ UNCHANGED <<file, mem, todo, rd, harm, granted>>
  BY DEF Apply, At, disk
<1>2. IsMemory(mem) /\ mem.ok
  BY DEF Inv, Shapes
<1>3. HardState' = HardState /\ raft' = raft
  BY <1>1 DEF HardState, InLoop
<1>4. InRound' /\ pc' \in Rest
  <2>1. \/ pc' = "snapshot" /\ rd.commits # <<>>
        \/ pc' = "install" /\ rd.snap # NoSnapshot
        \/ pc' = "advance"
    BY <1>1 DEF AfterApply, AfterSnapshot, SnapshotDue
  <2> QED
    BY <1>1, <1>3, <2>1 DEF Inv, InRound, Rest
<1>5. Safe(file')
  <2>1. Safe(file)
    BY <1>1, FileSafe DEF Rest
  <2> QED
    BY <1>1, <2>1
<1> QED
  BY <1>1, <1>2, <1>4, <1>5, RoundKeeps

LEMMA CreateSnapshotKeeps ==
  ASSUME Inv, CreateSnapshot
  PROVE  Inv'
<1>1. PICK s : /\ s.index = Last(rd.commits).index /\ s.voters = DefaultVoters
               /\ mem' = [mem EXCEPT !.snap = s] /\ todo' = <<RecordSnapshot(s)>>
  <2> DEFINE s == [index |-> Last(rd.commits).index, term |-> Last(rd.commits).term,
                   voters |-> DefaultVoters, data |-> state]
  <2>1. s.index = Last(rd.commits).index /\ s.voters = DefaultVoters
    OBVIOUS
  <2>2. mem' = [mem EXCEPT !.snap = s] /\ todo' = <<RecordSnapshot(s)>>
    BY DEF CreateSnapshot, MemCreateSnapshot
  <2> HIDE DEF s
  <2> QED
    BY <2>1, <2>2
<1>2. /\ status = "up" /\ pc = "snapshot" /\ pc' = "compact" /\ InLoop
      /\ UNCHANGED <<file, rd, granted, harm>>
  BY DEF CreateSnapshot, At
<1>3. /\ IsMemory(mem) /\ mem.ok /\ rd.commits # <<>> /\ IsRaft(raft)
      /\ Last(rd.commits).index \in 1 .. raft.committed
  BY <1>2 DEF Inv, Shapes, InRound
<1>4. IsSnapshot(s)
  BY <1>1, <1>3, LogFacts DEF IsSnapshot, IsRaft, Index
<1>5. /\ DOMAIN mem' = DOMAIN mem /\ mem'.snap = s /\ mem'.ok = mem.ok
      /\ mem'.offset = mem.offset /\ mem'.ents = mem.ents /\ mem'.hs = mem.hs
  BY <1>1, <1>3 DEF IsMemory
<1>6. IsMemory(mem') /\ mem'.ok
  BY <1>3, <1>4, <1>5 DEF IsMemory
<1>7. HardState' = HardState /\ raft' = raft
  BY <1>2 DEF HardState, InLoop
<1>8. InRound'
  BY <1>1, <1>2, <1>4, <1>5, <1>7 DEF Inv, InRound
<1>9. Safe(file')
  <2>1. Safe(file)
    BY <1>2, FileSafe DEF Rest
  <2> QED
    BY <1>2, <2>1
<1> QED
  BY <1>2, <1>6, <1>8, <1>9, RoundKeeps DEF Rest

LEMMA CompactIs ==
  ASSUME NEW m, IsMemory(m), NEW i \in Index
  PROVE  IsMemory(MemCompact(m, i)) /\ MemCompact(m, i).ok = m.ok
<1>1. CASE i <= m.offset
  BY <1>1 DEF MemCompact
<1>2. CASE ~(i <= m.offset)
  <2>1. PICK o \in Nat : o = m.offset
    BY LogFacts DEF IsMemory
  <2>2. PICK k \in Nat : k = i - o
    BY <1>2, <2>1, LogFacts DEF Index
  <2>3. PICK es : es = SubSeq(m.ents, k + 1, Len(m.ents))
    OBVIOUS
  <2> DEFINE q == [m EXCEPT !.offset = i, !.ents = es]
  <2>4. MemCompact(m, i) = q
    BY <1>2, <2>1, <2>2, <2>3 DEF MemCompact
  <2>5. /\ DOMAIN q = DOMAIN m /\ q.offset = i /\ q.ents = es
        /\ q.snap = m.snap /\ q.hs = m.hs /\ q.ok = m.ok
    BY DEF IsMemory
  <2> HIDE DEF q
  <2>6. Successive(es, i + 1)
    <3>1. Successive(m.ents, o + 1) /\ o + 1 \in Nat
      BY <2>1 DEF IsMemory
    <3>2. /\ Successive(SubSeq(m.ents, k + 1, Len(m.ents)), (o + 1) + k)
          /\ Len(SubSeq(m.ents, k + 1, Len(m.ents)))
               = IF k < Len(m.ents) THEN Len(m.ents) - k ELSE 0
      BY <3>1, CutAfter
    <3>3. (o + 1) + k = i + 1
      BY <2>2, LogFacts DEF Index
    <3> QED
      BY <2>3, <3>2, <3>3
  <2>7. i \in 0 .. Len(GroupLog)
    BY LogFacts DEF Index
  <2> QED
    BY <2>4, <2>5, <2>6, <2>7 DEF IsMemory
<1> QED
  BY <1>1, <1>2

LEMMA CompactKeeps ==
  ASSUME Inv, Compact
  PROVE  Inv'
<1>1. /\ status = "up" /\ pc = "compact" /\ pc' = AfterSnapshot /\ InLoop
      /\ file' = WALAppend(file, Head(todo)) /\ todo' = <<>>
      /\ mem' = MemCompact(mem, mem.snap.index)
      /\ harm' \subseteq harm \cup {"wiped"} /\ UNCHANGED <<rd, granted>>
  BY DEF Compact, At
<1>2. /\ IsMemory(mem) /\ mem.ok /\ IsSnapshot(mem.snap) /\ rd.commits # <<>>
      /\ todo = <<RecordSnapshot(mem.snap)>>
  BY <1>1 DEF Inv, Shapes, InRound
<1>3. IsMemory(mem') /\ mem'.ok
  BY <1>1, <1>2, CompactIs DEF IsSnapshot
<1>4. HardState' = HardState /\ raft' = raft
  BY <1>1 DEF HardState, InLoop
<1>5. InRound' /\ pc' \in Rest
  <2>1. \/ pc' = "install" /\ rd.snap # NoSnapshot
        \/ pc' = "advance"
    BY <1>1 DEF AfterSnapshot
  <2> QED
    BY <1>1, <1>4, <2>1 DEF Inv, InRound, Rest
<1>6. Safe(file')
  <2>1. Safe(WALAppend(file, RecordSnapshot(mem.snap)))
    BY <1>1, <1>2, SnapshotSafe DEF Rest
  <2>2. Head(todo) = RecordSnapshot(mem.snap)
    BY <1>2
  <2> QED
    BY <1>1, <2>1, <2>2
<1> QED
  BY <1>1, <1>3, <1>5, <1>6, RoundKeeps

LEMMA InstallKeeps ==
  ASSUME Inv, Install
  PROVE  Inv'
<1>1. /\ status = "up" /\ pc = "install" /\ pc' = "restore" /\ InLoop
      /\ UNCHANGED <<file, rd, granted, harm>>
      /\ \/ UNCHANGED <<mem, todo>>
         \/ mem' = MemApplySnapshot(mem, rd.snap) /\ todo' = <<RecordSnapshot(rd.snap)>>
  BY DEF Install, At
<1>2. /\ IsMemory(mem) /\ mem.ok /\ rd.snap # NoSnapshot /\ rd.snap = raft.snap
      /\ IsRaft(raft) /\ todo = <<>>
  BY <1>1 DEF Inv, Shapes, InRound
<1>3. IsSnapshot(rd.snap)
  BY <1>2 DEF IsRaft
<1>4. IsMemory(mem') /\ mem'.ok
  <2>1. CASE mem' = mem
    BY <1>2, <2>1
  <2>2. CASE mem' = MemApplySnapshot(mem, rd.snap)
    <3>1. /\ DOMAIN mem' = DOMAIN mem /\ mem'.hs = mem.hs /\ mem'.ok = mem.ok
          /\ mem'.offset = rd.snap.index /\ mem'.ents = <<>> /\ mem'.snap = rd.snap
      BY <1>2, <2>2 DEF IsMemory, MemApplySnapshot
    <3>2. Successive(<<>>, rd.snap.index + 1)
      BY DEF Successive
    <3>3. rd.snap.index \in 0 .. Len(GroupLog)
      BY <1>3, LogFacts DEF IsSnapshot, Index
    <3> QED
      BY <1>2, <1>3, <3>1, <3>2, <3>3 DEF IsMemory
  <2> QED
    BY <1>1, <2>1, <2>2
<1>5. HardState' = HardState /\ raft' = raft
  BY <1>1 DEF HardState, InLoop
<1>6. InRound'
  BY <1>1, <1>2, <1>5 DEF Inv, InRound
<1>7. Safe(file')
  <2>1. Safe(file)
    BY <1>1, FileSafe DEF Rest
  <2> QED
    BY <1>1, <2>1
<1> QED
  BY <1>1, <1>4, <1>6, <1>7, RoundKeeps DEF Rest

LEMMA RestoreKeeps ==
  ASSUME Inv, Restore
  PROVE  Inv'
<1>1. /\ status = "up" /\ pc = "restore" /\ pc' = "advance" /\ InLoop
      /\ file' = (IF todo = <<>> THEN file ELSE WALAppend(file, Head(todo)))
      /\ todo' = <<>> /\ UNCHANGED <<mem, rd, granted, harm>>
  BY DEF Restore, At
<1>2. /\ IsMemory(mem) /\ mem.ok /\ rd.snap # NoSnapshot /\ rd.snap = raft.snap
      /\ IsRaft(raft) /\ (todo = <<>> \/ todo = <<RecordSnapshot(rd.snap)>>)
  BY <1>1 DEF Inv, Shapes, InRound
<1>3. HardState' = HardState /\ raft' = raft
  BY <1>1 DEF HardState, InLoop
<1>4. InRound'
  BY <1>1, <1>3 DEF Inv, InRound
<1>5. Safe(file')
  <2>1. CASE todo = <<>>
    <3>1. Safe(file)
      BY <1>1, FileSafe DEF Rest
    <3> QED
      BY <1>1, <2>1, <3>1
  <2>2. CASE todo = <<RecordSnapshot(rd.snap)>>
    <3>1. IsSnapshot(rd.snap)
      BY <1>2 DEF IsRaft
    <3>2. Safe(WALAppend(file, RecordSnapshot(rd.snap)))
      BY <1>1, <3>1, SnapshotSafe DEF Rest
    <3>3. Head(todo) = RecordSnapshot(rd.snap) /\ todo # <<>>
      BY <2>2
    <3> QED
      BY <1>1, <3>2, <3>3
  <2> QED
    BY <1>2, <2>1, <2>2
<1> QED
  BY <1>1, <1>2, <1>4, <1>5, RoundKeeps DEF Rest

LEMMA AdvanceKeeps ==
  ASSUME Inv, Advance
  PROVE  Inv'
<1>1. PICK k : k = IF rd.commits # <<>> THEN Last(rd.commits).index
                   ELSE Max({raft.applied, rd.snap.index})
  OBVIOUS
<1>2. /\ status = "up" /\ pc = "advance" /\ pc' = "ready" /\ rd' = Idle
      /\ raft' = [raft EXCEPT !.unst = <<>>, !.snap = NoSnapshot, !.hs = HardState,
                    !.ack = FALSE, !.grants = {}, !.applied = k]
      /\ UNCHANGED <<status, file, mem, todo, voters, granted, harm>>
  BY <1>1 DEF Advance, At, disk, history
<1>3. IsRaft(raft) /\ IsMemory(mem) /\ mem.ok
  BY DEF Inv, Shapes
<1>4. /\ DOMAIN raft' = DOMAIN raft /\ raft'.term = raft.term /\ raft'.vote = raft.vote
      /\ raft'.unst = <<>> /\ raft'.snap = NoSnapshot /\ raft'.committed = raft.committed
      /\ raft'.applied = k /\ raft'.hs = HardState /\ raft'.grants = {}
  BY <1>2, <1>3 DEF IsRaft
<1>5. k \in 0 .. raft.committed
  <2>1. rd.snap = raft.snap /\ (rd.commits # <<>> => Last(rd.commits).index \in 1 .. raft.committed)
    BY <1>2 DEF Inv, InRound
  <2>2. raft.committed \in Nat /\ raft.applied \in Nat /\ raft.applied <= raft.committed
    BY <1>3, LogFacts DEF IsRaft
  <2>3. rd.snap.index \in Nat /\ rd.snap.index <= raft.committed
    BY <1>3, <2>1, <2>2, Empties, LogFacts DEF IsRaft, IsSnapshot, Index
  <2>4. Max({raft.applied, rd.snap.index})
          = IF raft.applied >= rd.snap.index THEN raft.applied ELSE rd.snap.index
    BY <2>2, <2>3, MaxTwo
  <2> QED
    BY <1>1, <2>1, <2>2, <2>3, <2>4
<1>6. /\ IsHardState(HardState) /\ HardState.term = raft.term /\ HardState.vote = raft.vote
      /\ raft.term <= raft.term
  BY <1>3, LogFacts DEF IsRaft, IsHardState, HardState
<1>7. IsRaft(raft')
  <2>1. Successive(raft'.unst, raft'.unst[1].index)
    BY <1>4 DEF Successive
  <2> QED
    BY <1>3, <1>4, <1>5, <1>6, <2>1 DEF IsRaft
<1>8. Shapes'
  <2>1. OneEach(granted' \cup raft'.grants)
    BY <1>2, <1>4 DEF Inv, Shapes, OneEach
  <2> QED
    BY <1>2, <1>7, <2>1 DEF Inv, Shapes
<1>9. Stored'
  BY <1>2 DEF Inv, Stored
<1>10. Running'
  <2>1. Safe(file)
    BY <1>2, FileSafe DEF Rest
  <2>2. Follows(raft', mem')
    BY <1>4 DEF Follows
  <2>3. Has(Replay(file'), raft'.hs.term, raft'.hs.vote)
    BY <1>2, <1>4, <1>6, <2>1 DEF Safe, Has
  <2>4. \A g \in granted : Kept(g, raft.term, raft.vote)
    BY <1>2 DEF Inv, Running
  <2> QED
    BY <1>2, <1>4, <2>1, <2>2, <2>3, <2>4 DEF Running, Safe
<1>11. InRound'
  <2>1. todo' = <<>>
    BY <1>2 DEF Inv, InRound
  <2> QED
    BY <1>2, <2>1 DEF InRound
<1> QED
  BY <1>8, <1>9, <1>10, <1>11 DEF Inv

LEMMA RestartKeeps ==
  ASSUME Inv, Restart
  PROVE  Inv'
<1>1. /\ status = "down" /\ status' = "up" /\ mem' = Replay(file)
      /\ Iterate(file).ok /\ Replay(file).ok /\ CommitInLog(Replay(file))
      /\ IF LastIndex(mem') > 0 THEN raft' = RestartNode(mem') /\ voters' = mem'.snap.voters
         ELSE raft' = StartNode /\ voters' = Peers
      /\ UNCHANGED <<file, pc, rd, todo, granted, harm>>
  BY DEF Restart, Starts
<1>2. PICK m : m = Replay(file)
  OBVIOUS
<1>3. /\ IsStored(m, granted) /\ IsMemory(m) /\ m.ok /\ CommitInLog(m) /\ mem' = m
      /\ IsSeq(file) /\ m.offset \in Nat /\ m.offset <= Len(GroupLog) /\ LastIndex(m) \in Nat
      /\ pc = "ready" /\ granted \subseteq Term \X Peers
  <2>1. IsStored(m, granted) /\ IsMemory(m)
    BY <1>1, <1>2 DEF Inv, Stored, IsStored
  <2>2. m.offset \in Nat /\ m.offset <= Len(GroupLog) /\ LastIndex(m) \in Nat
    BY <2>1, LogFacts DEF IsMemory, LastIndex, Successive
  <2> QED
    BY <1>1, <1>2, <2>1, <2>2 DEF Inv, Shapes, Stored
<1>4. /\ IsRaft(raft') /\ Follows(raft', m) /\ raft'.grants = {}
      /\ voters' \subseteq Peers \cup DefaultVoters
      /\ raft'.committed >= 1 \/ LastIndex(m) > 0
      /\ Has(m, raft'.hs.term, raft'.hs.vote)
      /\ \A g \in granted : Kept(g, raft'.term, raft'.vote)
  <2>1. CASE LastIndex(m) > 0
    <3>1. raft' = RestartNode(m) /\ voters' = m.snap.voters
      BY <1>1, <1>3, <2>1
    <3>2. PICK k : k = Max({m.hs.commit, m.offset})
      OBVIOUS
    <3>3. /\ DOMAIN raft' = {"term", "vote", "unst", "snap", "committed", "applied", "hs",
                             "ack", "grants"}
          /\ raft'.term = m.hs.term /\ raft'.vote = m.hs.vote /\ raft'.unst = <<>>
          /\ raft'.snap = NoSnapshot /\ raft'.committed = k /\ raft'.applied = m.offset
          /\ raft'.hs = m.hs /\ raft'.grants = {}
      BY <3>1, <3>2 DEF RestartNode
    <3>4. IsHardState(m.hs)
      BY <1>3 DEF IsMemory
    <3>5. k \in 0 .. Len(GroupLog) /\ m.offset <= k
      <4>1. m.hs.commit \in 0 .. Len(GroupLog) /\ m.hs.commit \in Int /\ m.offset \in Int
        BY <1>3, <3>4, LogFacts DEF IsHardState
      <4>2. k = IF m.hs.commit >= m.offset THEN m.hs.commit ELSE m.offset
        BY <3>2, <4>1, MaxTwo
      <4> QED
        BY <1>3, <4>1, <4>2, LogFacts
    <3>6. m.hs.term <= m.hs.term
      BY <3>4, LogFacts DEF IsHardState
    <3>7. Successive(raft'.unst, raft'.unst[1].index)
      BY <3>3 DEF Successive
    <3>8. raft'.applied \in 0 .. raft'.committed
      BY <1>3, <3>3, <3>5
    <3>9. IsRaft(raft')
      BY <3>3, <3>4, <3>5, <3>6, <3>7, <3>8 DEF IsRaft, IsHardState
    <3>10. voters' \subseteq Peers \cup DefaultVoters
      BY <1>3, <3>1 DEF IsMemory, IsSnapshot, NoSnapshot
    <3> QED
      BY <1>3, <2>1, <3>3, <3>9, <3>10 DEF Follows, Has, IsStored
  <2>2. CASE LastIndex(m) = 0
    <3>1. raft' = StartNode /\ voters' = Peers
      BY <1>1, <1>3, <2>2
    <3>2. m.hs = NoHardState
      <4> SUFFICES ASSUME m.hs # NoHardState PROVE FALSE
        OBVIOUS
      <4>1. m.hs.commit >= 1 /\ m.hs.commit \in m.offset .. LastIndex(m)
        BY <1>3, <2>2 DEF IsStored, CommitInLog
      <4> QED
        BY <1>3, <2>2, <4>1
    <3>3. granted = {}
      <4> SUFFICES ASSUME NEW g \in granted PROVE FALSE
        OBVIOUS
      <4>1. PICK i \in Term : i = g[1]
        BY <1>3
      <4>2. i \in Nat \ {0}
        BY LogFacts
      <4>3. i < 0 \/ i = 0
        BY <1>3, <3>2, <4>1, Empties DEF IsStored, Kept
      <4> QED
        BY <4>2, <4>3
    <3>4. Follows(StartNode, m)
      BY <2>2, StartIs DEF Follows
    <3>5. Has(m, StartNode.hs.term, StartNode.hs.vote)
      BY <3>2, StartIs DEF Has
    <3> QED
      BY <3>1, <3>3, <3>4, <3>5, StartIs
  <2> QED
    BY <1>3, <2>1, <2>2
<1>5. Shapes'
  <2>1. OneEach(granted' \cup raft'.grants)
    BY <1>1, <1>4 DEF Inv, Shapes, OneEach
  <2> QED
    BY <1>1, <1>3, <1>4, <2>1 DEF Inv, Shapes
<1>6. Stored'
  BY <1>1 DEF Inv, Stored
<1>7. Running'
  BY <1>1, <1>2, <1>3, <1>4 DEF Running
<1>8. InRound'
  BY <1>1, <1>3 DEF Inv, InRound
<1> QED
  BY <1>5, <1>6, <1>7, <1>8 DEF Inv

-----------------------------------------------------------------------------
LEMMA InvNext == Inv /\ [Next]_vars => Inv'
<1> SUFFICES ASSUME Inv, [Next]_vars PROVE Inv'
  OBVIOUS
<1>1. ASSUME ReadyLoop PROVE Inv'
  <2>1. CASE TakeReady
    BY <2>1, TakeReadyKeeps
  <2>2. CASE ReadyPanic
    BY <2>2, StopKeeps DEF ReadyPanic
  <2>3. CASE WriteRecord
    BY <2>3, WriteRecordKeeps
  <2>4. CASE Save
    BY <2>4, SaveKeeps
  <2>5. CASE SavePanic
    BY <2>5, StopKeeps DEF SavePanic
  <2>6. CASE Send
    BY <2>6, SendKeeps
  <2>7. CASE Apply
    BY <2>7, ApplyKeeps
  <2>8. CASE CreateSnapshot
    BY <2>8, CreateSnapshotKeeps
  <2>9. CASE Compact
    BY <2>9, CompactKeeps
  <2>10. CASE Install
    BY <2>10, InstallKeeps
  <2>11. CASE Restore
    BY <2>11, RestoreKeeps
  <2>12. CASE Advance
    BY <2>12, AdvanceKeeps
  <2> QED
    BY <1>1, <2>1, <2>2, <2>3, <2>4, <2>5, <2>6, <2>7, <2>8, <2>9, <2>10, <2>11, <2>12
       DEF ReadyLoop
<1>2. ASSUME Messages PROVE Inv'
  <2>1. PICK t \in Term :
          \/ \E i \in Index : \E c \in {0, i} : RecvEntry(t, i, c)
          \/ \E i \in Index : RecvSnapshot(t, i)
          \/ \E c \in Index : RecvHeartbeat(t, c)
          \/ \E c \in Index : RecvHeartbeatPanic(t, c)
          \/ \E c \in Candidates : RecvVote(t, c)
    BY <1>2 DEF Messages
  <2>2. ASSUME NEW i \in Index, NEW c \in {0, i}, RecvEntry(t, i, c) PROVE Inv'
    BY <2>2, EntryKeeps
  <2>3. ASSUME NEW i \in Index, RecvSnapshot(t, i) PROVE Inv'
    BY <2>3, SnapshotKeeps
  <2>4. ASSUME NEW c \in Index, RecvHeartbeat(t, c) PROVE Inv'
    BY <2>4, HeartbeatKeeps
  <2>5. ASSUME NEW c \in Index, RecvHeartbeatPanic(t, c) PROVE Inv'
    BY <2>5, StopKeeps DEF RecvHeartbeatPanic
  <2>6. ASSUME NEW c \in Candidates, RecvVote(t, c) PROVE Inv'
    BY <2>6, VoteKeeps
  <2> QED
    BY <2>1, <2>2, <2>3, <2>4, <2>5, <2>6
<1>3. CASE UNCHANGED vars
  <2>1. /\ UNCHANGED <<status, file, mem, raft, voters, pc, rd, todo, granted, harm>>
        /\ HardState' = HardState
    BY <1>3 DEF vars, HardState
  <2>2. Shapes' /\ Stored'
    BY <2>1 DEF Inv, Shapes, Stored
  <2>3. Running'
    BY <2>1 DEF Inv, Running, Saving, SavesState
  <2>4. InRound'
    BY <2>1 DEF Inv, InRound
  <2> QED
    BY <2>2, <2>3, <2>4 DEF Inv
<1> QED
  BY <1>1, <1>2, <1>3, CrashKeeps, RestartKeeps, FailKeeps DEF Next

THEOREM Invariance == Spec => []Inv
BY InvInit, InvNext, PTL DEF Spec

(* Every variable keeps the shape the code gives it: the logs in memory and *)
(* of the next Ready have successive indexes, the applied index is never    *)
(* ahead of the commit index, and neither is beyond the log of the group.   *)
THEOREM TypeCorrect == Spec => []TypeOK
<1>1. Inv => TypeOK
  <2> SUFFICES ASSUME Inv PROVE TypeOK
    OBVIOUS
  <2>1. IsMemory(mem) /\ mem.ok /\ IsRaft(raft)
    BY DEF Inv, Shapes
  <2>2. PICK o \in Nat : o = mem.offset
    BY <2>1, LogFacts DEF IsMemory
  <2>3. ASSUME NEW i \in 1 .. Len(mem.ents)
        PROVE  mem.ents[i] \in Entry /\ mem.ents[i].index = mem.offset + i
    <3>1. /\ mem.ents \in Seq(Entry) /\ mem.ents[i].index = (o + 1) + i - 1
          /\ Len(mem.ents) \in Nat
      BY <2>1, <2>2 DEF IsMemory, Successive
    <3>2. (o + 1) + i - 1 = o + i
      BY <3>1
    <3> QED
      BY <2>2, <3>1, <3>2
  <2>4. \A i \in 1 .. Len(raft.unst) :
          raft.unst[i] \in Entry /\ raft.unst[i].index = raft.unst[1].index + i - 1
    BY <2>1 DEF IsRaft, Successive
  <2>5. /\ raft.term \in Term \cup {0} /\ raft.vote \in Peers \cup {None}
        /\ raft.committed \in 0 .. Len(GroupLog) /\ raft.applied \in 0 .. raft.committed
    BY <2>1 DEF IsRaft
  <2> QED
    BY <2>1, <2>2, <2>3, <2>4, <2>5 DEF TypeOK, Inv, Shapes
<1> QED
  BY <1>1, Invariance, PTL

(* node.go:131-136: whatever the messages, crashes and torn writes, the     *)
(* node never sends its vote in one term to two candidates: the vote is in  *)
(* the file, and its replay has it or fails, before the answer is sent.     *)
THEOREM VotesUnique == Spec => []OneVotePerTerm
<1>1. Inv => OneVotePerTerm
  BY DEF Inv, Shapes, OneEach, OneVotePerTerm
<1> QED
  BY <1>1, Invariance, PTL

-----------------------------------------------------------------------------
(* What the applier was given, stage by stage.                              *)

Undisturbed == harm \cap {"mixed", "install"} = {}

Given == IF rd.commits # <<>> THEN Last(rd.commits).index ELSE raft.applied

Cursor ==
  status = "up" /\ Undisturbed =>
    /\ pc \in {"ready", "save", "send", "apply"} => covered.to = raft.applied
    /\ pc \in {"snapshot", "compact", "install", "restore"} => covered.to = Given
    /\ pc = "advance" =>
         covered.to = IF rd.commits # <<>> THEN Last(rd.commits).index
                      ELSE Max({raft.applied, rd.snap.index})
    /\ pc # "ready" /\ rd.snap # NoSnapshot => rd.commits = <<>>

Cover == DOMAIN covered = {"from", "to"}

(* A message stops the node or leaves the applier and the harms alone.      *)
LEMMA MessagesSpare ==
  ASSUME Messages
  PROVE  (UNCHANGED <<covered, harm>> \/ \E f : Stop(f)) /\ harm \subseteq harm'
<1>1. PICK t \in Term :
        \/ \E i \in Index : \E c \in {0, i} : RecvEntry(t, i, c)
        \/ \E i \in Index : RecvSnapshot(t, i)
        \/ \E c \in Index : RecvHeartbeat(t, c)
        \/ \E c \in Index : RecvHeartbeatPanic(t, c)
        \/ \E c \in Candidates : RecvVote(t, c)
  BY DEF Messages
<1>2. (\E r : Received(r)) \/ \E f : Stop(f)
  <2>1. ASSUME NEW i, NEW c, RecvEntry(t, i, c) PROVE \E r : Received(r)
    BY <2>1 DEF RecvEntry
  <2>2. ASSUME NEW i, RecvSnapshot(t, i) PROVE \E r : Received(r)
    BY <2>2 DEF RecvSnapshot
  <2>3. ASSUME NEW c, RecvHeartbeat(t, c) PROVE \E r : Received(r)
    BY <2>3 DEF RecvHeartbeat
  <2>4. ASSUME NEW c, RecvHeartbeatPanic(t, c) PROVE \E f : Stop(f)
    BY <2>4 DEF RecvHeartbeatPanic
  <2>5. ASSUME NEW c, RecvVote(t, c) PROVE \E r : Received(r)
    BY <2>5 DEF RecvVote
  <2> QED
    BY <1>1, <2>1, <2>2, <2>3, <2>4, <2>5
<1>3. ASSUME NEW r, Received(r) PROVE UNCHANGED <<covered, harm>>
  BY <1>3 DEF Received
<1>4. ASSUME NEW f, Stop(f) PROVE harm \subseteq harm'
  BY <1>4 DEF Stop
<1> QED
  BY <1>2, <1>3, <1>4

LEMMA CoverNext == Cover /\ [Next]_vars => Cover'
<1> SUFFICES ASSUME Cover, [Next]_vars PROVE Cover'
  OBVIOUS
<1>1. CASE UNCHANGED covered
  BY <1>1 DEF Cover
<1>2. CASE \E f : Stop(f)
  BY <1>2 DEF Stop, Cover
<1>3. CASE Restart \/ Restore \/ Apply
  BY <1>3 DEF Restart, Restore, Apply, Cover
<1>4. ASSUME ReadyLoop PROVE Cover'
  BY <1>1, <1>2, <1>3, <1>4
     DEF ReadyLoop, TakeReady, ReadyPanic, WriteRecord, Save, SavePanic, Send,
         CreateSnapshot, Compact, Install, Advance, history
<1>5. ASSUME Messages PROVE Cover'
  <2>1. UNCHANGED covered \/ \E f : Stop(f)
    BY <1>5, MessagesSpare
  <2> QED
    BY <1>1, <1>2, <2>1
<1>6. Crash => \E f : Stop(f)
  BY DEF Crash
<1>7. FailToStart => UNCHANGED covered
  BY DEF FailToStart, history
<1> QED
  BY <1>1, <1>2, <1>3, <1>4, <1>5, <1>6, <1>7 DEF Next, vars

(* Messages leave the applied index alone.                                  *)
LEMMA MessagesApplied ==
  ASSUME Inv, Messages
  PROVE  \/ \E f : Stop(f)
         \/ /\ UNCHANGED <<status, pc, rd, covered, harm>> /\ raft'.applied = raft.applied
            /\ status = "up" /\ pc = "ready"
<1>1. PICK t \in Term :
        \/ \E i \in Index : \E c \in {0, i} : RecvEntry(t, i, c)
        \/ \E i \in Index : RecvSnapshot(t, i)
        \/ \E c \in Index : RecvHeartbeat(t, c)
        \/ \E c \in Index : RecvHeartbeatPanic(t, c)
        \/ \E c \in Candidates : RecvVote(t, c)
  BY DEF Messages
<1>2. PICK r : r = AtTerm(t)
  OBVIOUS
<1>3. /\ r.applied = raft.applied
      /\ DOMAIN r = {"term", "vote", "unst", "snap", "committed", "applied", "hs", "ack", "grants"}
  BY <1>2 DEF AtTerm, Inv, Shapes, IsRaft
<1>4. ASSUME NEW v, Receive, Received(v), v.applied = raft.applied
      PROVE  /\ UNCHANGED <<status, pc, rd, covered, harm>> /\ raft'.applied = raft.applied
             /\ status = "up" /\ pc = "ready"
  BY <1>4 DEF Receive, Received
<1>5. ASSUME NEW i \in Index, NEW c \in {0, i}, RecvEntry(t, i, c)
      PROVE  \E v : Receive /\ Received(v) /\ v.applied = raft.applied
  <2> DEFINE a == IF Matches(t, i) THEN r
                  ELSE [r EXCEPT !.unst = Before(@, i) \o <<LeaderLog[t][i]>>]
             v == [a EXCEPT !.committed = Max({@, c}), !.ack = TRUE]
  <2>1. Receive /\ Received(v)
    BY <1>2, <1>5 DEF RecvEntry
  <2>2. v.applied = raft.applied
    BY <1>3
  <2> HIDE DEF v
  <2> QED
    BY <2>1, <2>2
<1>6. ASSUME NEW i \in Index, RecvSnapshot(t, i)
      PROVE  \E v : Receive /\ Received(v) /\ v.applied = raft.applied
  <2> DEFINE s == [index |-> i, term |-> GroupLog[i].term, voters |-> DefaultVoters,
                   data |-> Commands(SubSeq(GroupLog, 1, i))]
             v == [r EXCEPT !.unst = <<>>, !.snap = s, !.committed = i, !.ack = TRUE]
  <2>1. Receive /\ Received(v)
    BY <1>2, <1>6 DEF RecvSnapshot
  <2>2. v.applied = raft.applied
    BY <1>3
  <2> HIDE DEF v
  <2> QED
    BY <2>1, <2>2
<1>7. ASSUME NEW c \in Index, RecvHeartbeat(t, c)
      PROVE  \E v : Receive /\ Received(v) /\ v.applied = raft.applied
  BY <1>2, <1>3, <1>7 DEF RecvHeartbeat, HeartbeatCommit
<1>8. ASSUME NEW c \in Candidates, RecvVote(t, c)
      PROVE  \E v : Receive /\ Received(v) /\ v.applied = raft.applied
  <2> DEFINE v == [r EXCEPT !.vote = c, !.grants = @ \cup {<<t, c>>}]
  <2>1. Receive /\ Received(v)
    BY <1>2, <1>8 DEF RecvVote
  <2>2. v.applied = raft.applied
    BY <1>3
  <2> HIDE DEF v
  <2> QED
    BY <2>1, <2>2
<1>9. ASSUME NEW c \in Index, RecvHeartbeatPanic(t, c) PROVE \E f : Stop(f)
  BY <1>9 DEF RecvHeartbeatPanic
<1> QED
  BY <1>1, <1>4, <1>5, <1>6, <1>7, <1>8, <1>9

(* A Ready with a snapshot alone has nothing to apply beside it.            *)
LEMMA SnapshotAlone ==
  ASSUME Inv, TakeReady, "mixed" \notin harm', rd'.snap # NoSnapshot
  PROVE  rd'.commits = <<>>
<1>1. PICK lo : lo = NextToApply
  OBVIOUS
<1>2. PICK hi :
        /\ rd'.snap = raft.snap /\ rd'.ents = raft.unst
        /\ rd'.commits = [i \in 1 .. hi - lo + 1 |-> EntryAt(raft, mem, lo + i - 1)]
        /\ (lo > raft.committed /\ hi = lo - 1) \/ hi \in lo .. raft.committed
  <2>1. PICK hi, hs :
          /\ rd' = [ents |-> raft.unst, hs |-> hs, snap |-> raft.snap,
                    commits |-> [i \in 1 .. hi - lo + 1 |-> EntryAt(raft, mem, lo + i - 1)],
                    ack |-> raft.ack, grants |-> raft.grants]
          /\ (lo > raft.committed /\ hi = lo - 1) \/ hi \in lo .. raft.committed
    BY <1>1 DEF TakeReady
  <2>2. /\ rd'.snap = raft.snap /\ rd'.ents = raft.unst
        /\ rd'.commits = [i \in 1 .. hi - lo + 1 |-> EntryAt(raft, mem, lo + i - 1)]
    BY <2>1
  <2> QED
    BY <2>1, <2>2
<1>3. /\ ~CommitBeyondLog /\ status = "up" /\ pc = "ready"
      /\ rd'.ents = <<>>
  BY DEF TakeReady, At
<1>4. IsRaft(raft) /\ raft.snap # NoSnapshot /\ raft.unst = <<>> /\ IsMemory(mem)
  BY <1>2, <1>3 DEF Inv, Shapes
<1>5. PICK s \in Nat \ {0} : s = raft.snap.index
  BY <1>4, LogFacts DEF IsRaft, IsSnapshot, Index
<1>6. raft.applied \in Nat /\ raft.applied < s /\ raft.committed \in Nat
  BY <1>4, <1>5, LogFacts DEF IsRaft
<1>7. LastOf(raft, mem) = s /\ FirstOf(raft, mem) = 1 + s
  BY <1>4, <1>5 DEF LastOf, FirstOf
<1>8. lo = s + 1
  <2>1. lo = Max({raft.applied + 1, 1 + s}) /\ raft.applied + 1 \in Int /\ 1 + s \in Int
    BY <1>1, <1>6, <1>7 DEF NextToApply
  <2>2. lo = IF raft.applied + 1 >= 1 + s THEN raft.applied + 1 ELSE 1 + s
    BY <2>1, MaxTwo
  <2> QED
    BY <1>6, <2>2
<1>9. lo > raft.committed
  <2>1. ~(lo <= raft.committed /\ s < raft.committed)
    BY <1>1, <1>3, <1>7 DEF CommitBeyondLog
  <2> QED
    BY <1>6, <1>8, <2>1
<1>10. hi = lo - 1
  BY <1>2, <1>6, <1>8, <1>9
<1>11. hi - lo + 1 = 0
  BY <1>8, <1>10
<1> QED
  BY <1>2, <1>11

LEMMA CursorNext == Inv /\ Cover /\ Cursor /\ [Next]_vars => Cursor'
<1> SUFFICES ASSUME Inv, Cover, Cursor, [Next]_vars, status' = "up", Undisturbed'
             PROVE  Cursor'
  BY DEF Cursor
<1>1. ASSUME NEW f, Stop(f) PROVE FALSE
  BY <1>1 DEF Stop
<1>2. ASSUME UNCHANGED <<status, pc, rd, covered, harm>>, raft'.applied = raft.applied
      PROVE  Cursor'
  BY <1>2 DEF Cursor, Undisturbed, Given
<1>3. CASE TakeReady
  <2>1. harm \subseteq harm' /\ status = "up" /\ pc = "ready" /\ pc' = "save"
        /\ raft' = raft /\ covered' = covered
    BY <1>3 DEF TakeReady, At, InLoop
  <2>2. Undisturbed /\ "mixed" \notin harm'
    BY <2>1 DEF Undisturbed
  <2>3. rd'.snap # NoSnapshot => rd'.commits = <<>>
    BY <1>3, <2>2, SnapshotAlone
  <2> QED
    BY <2>1, <2>2, <2>3 DEF Cursor
<1>4. CASE WriteRecord
  BY <1>2, <1>4 DEF WriteRecord, InLoop
<1>5. CASE Save \/ Send
  <2>1. /\ status = "up" /\ pc \in {"save", "send"} /\ pc' \in {"send", "apply"}
        /\ UNCHANGED <<raft, rd, covered, harm>>
    BY <1>5 DEF Save, Send, At, InLoop
  <2> QED
    BY <2>1 DEF Cursor, Undisturbed
<1>6. CASE Apply
  <2>1. /\ status = "up" /\ pc = "apply" /\ UNCHANGED <<raft, rd, harm>>
        /\ covered' = [covered EXCEPT !.to = IF rd.commits = <<>> THEN @
                                             ELSE Last(rd.commits).index]
        /\ pc' = AfterApply
    BY <1>6 DEF Apply, At, InLoop
  <2>2. covered'.to = Given
    BY <2>1 DEF Cover, Cursor, Undisturbed, Given
  <2>3. \/ pc' \in {"snapshot", "install"}
        \/ pc' = "advance" /\ rd.snap = NoSnapshot
    BY <2>1 DEF AfterApply, AfterSnapshot
  <2>4. Max({raft.applied, 0}) = raft.applied
    <3>1. raft.applied \in Nat
      BY LogFacts DEF Inv, Shapes, IsRaft
    <3>2. Max({raft.applied, 0}) = IF raft.applied >= 0 THEN raft.applied ELSE 0
      BY <3>1, MaxTwo
    <3> QED
      BY <3>1, <3>2
  <2>5. rd.snap # NoSnapshot => rd.commits = <<>>
    BY <2>1 DEF Cursor, Undisturbed
  <2> QED
    BY <2>1, <2>2, <2>3, <2>4, <2>5, Empties DEF Cursor, Given
<1>7. CASE CreateSnapshot \/ Install
  <2>1. /\ status = "up" /\ pc \in {"snapshot", "install"} /\ pc' \in {"compact", "restore"}
        /\ UNCHANGED <<raft, rd, covered, harm>>
    BY <1>7 DEF CreateSnapshot, Install, At, InLoop
  <2> QED
    BY <2>1 DEF Cursor, Undisturbed, Given
<1>8. CASE Compact
  <2>1. /\ status = "up" /\ pc = "compact" /\ UNCHANGED <<raft, rd, covered>>
        /\ harm \subseteq harm' /\ pc' = AfterSnapshot
    BY <1>8 DEF Compact, At, InLoop
  <2>2. rd.commits # <<>> /\ Undisturbed
    BY <2>1 DEF Inv, InRound, Undisturbed
  <2>3. pc' \in {"install", "advance"}
    BY <2>1 DEF AfterSnapshot
  <2> QED
    BY <2>1, <2>2, <2>3 DEF Cursor, Given
<1>9. CASE Restore
  <2>1. /\ status = "up" /\ pc = "restore" /\ pc' = "advance" /\ UNCHANGED <<raft, rd, harm>>
        /\ covered'.to = rd.snap.index
    BY <1>9 DEF Restore, At, InLoop
  <2>2. rd.snap # NoSnapshot /\ rd.snap = raft.snap /\ rd.commits = <<>>
    BY <2>1 DEF Inv, InRound, Cursor, Undisturbed
  <2>3. raft.applied \in Nat /\ rd.snap.index \in Nat /\ raft.applied < rd.snap.index
    BY <2>2, LogFacts DEF Inv, Shapes, IsRaft, IsSnapshot, Index
  <2>4. Max({raft.applied, rd.snap.index}) = rd.snap.index
    <3>1. Max({raft.applied, rd.snap.index})
            = IF raft.applied >= rd.snap.index THEN raft.applied ELSE rd.snap.index
      BY <2>3, MaxTwo
    <3> QED
      BY <2>3, <3>1
  <2> QED
    BY <2>1, <2>2, <2>4 DEF Cursor
<1>10. CASE Advance
  <2>1. /\ status = "up" /\ pc = "advance" /\ pc' = "ready" /\ UNCHANGED <<covered, harm>>
        /\ raft'.applied = IF rd.commits # <<>> THEN Last(rd.commits).index
                           ELSE Max({raft.applied, rd.snap.index})
    BY <1>10 DEF Advance, At, history, Inv, Shapes, IsRaft
  <2> QED
    BY <2>1 DEF Cursor, Undisturbed
<1>11. CASE Restart
  <2>1. /\ pc' = pc /\ status = "down" /\ mem' = Replay(file) /\ covered'.to = mem'.offset
        /\ \/ raft' = RestartNode(mem')
           \/ raft' = StartNode /\ ~(LastIndex(mem') > 0)
    BY <1>11 DEF Restart
  <2>2. pc' = "ready"
    BY <2>1 DEF Inv, Shapes
  <2>3. IsMemory(mem')
    BY <1>11, RestartKeeps DEF Inv, Shapes
  <2>4. raft'.applied = mem'.offset
    <3>1. CASE raft' = RestartNode(mem')
      BY <3>1 DEF RestartNode
    <3>2. CASE raft' = StartNode /\ ~(LastIndex(mem') > 0)
      <4>1. mem'.offset \in Nat /\ Len(mem'.ents) \in Nat
        BY <2>3, LogFacts DEF IsMemory, Successive
      <4>2. mem'.offset = 0
        BY <3>2, <4>1 DEF LastIndex
      <4> QED
        BY <3>2, <4>2, StartIs
    <3> QED
      BY <2>1, <3>1, <3>2
  <2> QED
    BY <2>1, <2>2, <2>4 DEF Cursor
<1>12. CASE FailToStart
  BY <1>12 DEF FailToStart
<1>13. CASE Messages
  BY <1>1, <1>2, <1>13, MessagesApplied
<1>14. CASE ReadyPanic \/ SavePanic \/ Crash
  BY <1>1, <1>14 DEF ReadyPanic, SavePanic, Crash
<1>15. CASE UNCHANGED vars
  BY <1>2, <1>15 DEF vars
<1> QED
  BY <1>3, <1>4, <1>5, <1>6, <1>7, <1>8, <1>9, <1>10, <1>11, <1>12, <1>13, <1>14, <1>15
     DEF Next, ReadyLoop

(* node.go:139-175: at every stage of a round what the applier was given    *)
(* ends where etcd/raft's applied index is, or where it will be after the   *)
(* round.                                                                   *)
THEOREM CursorStays == Spec => [](Cover /\ Cursor)
<1>1. Init => Cover /\ Cursor
  BY StartIs DEF Init, Cover, Cursor
<1>2. Inv /\ (Cover /\ Cursor) /\ [Next]_vars => (Cover /\ Cursor)'
  BY CoverNext, CursorNext
<1> QED
  BY <1>1, <1>2, Invariance, PTL DEF Spec

(* node.go:139-175: between two rounds the applier has been given exactly   *)
(* what etcd/raft counts as applied, whatever pages, snapshots, crashes and *)
(* restarts there were: no committed entry is passed over.                  *)
THEOREM NothingPassedOver == Spec => []AppliedCursor
<1>1. Cursor => AppliedCursor
  BY DEF Cursor, Undisturbed, AppliedCursor, At
<1> QED
  BY <1>1, CursorStays, PTL

-----------------------------------------------------------------------------
(* A node that may not stand for election has been restarted.               *)
Elect == crashes \in Nat /\ (status # "up" => crashes > 0) /\ ElectableUnlessRestarted

LEMMA MinTwo ==
  ASSUME NEW a \in Int, NEW b \in Int
  PROVE  Min({a, b}) = IF a <= b THEN a ELSE b
<1> DEFINE m == IF a <= b THEN a ELSE b
<1>1. m \in {a, b} /\ \A y \in {a, b} : m <= y
  OBVIOUS
<1>2. \A x \in {a, b} : (\A y \in {a, b} : x <= y) => x = m
  OBVIOUS
<1>3. Min({a, b}) \in {a, b} /\ \A y \in {a, b} : Min({a, b}) <= y
  BY <1>1 DEF Min
<1> QED
  BY <1>2, <1>3

LEMMA ElectNext ==
  ASSUME MaxCrashes # 0
  PROVE  Inv /\ Cover /\ Elect /\ [Next]_vars => Elect'
<1> SUFFICES ASSUME Inv, Cover, Elect, [Next]_vars PROVE Elect'
  OBVIOUS
<1>1. ASSUME NEW f, Stop(f) PROVE Elect'
  <2>1. status' = "down" /\ crashes' = Min({crashes + 1, MaxCrashes})
    BY <1>1 DEF Stop
  <2>2. crashes \in Nat /\ MaxCrashes \in Nat \ {0}
    BY NodeBounds DEF Elect
  <2>3. crashes' = IF crashes + 1 <= MaxCrashes THEN crashes + 1 ELSE MaxCrashes
    BY <2>1, <2>2, MinTwo
  <2>4. crashes' \in Nat /\ crashes' > 0
    BY <2>2, <2>3
  <2> QED
    BY <2>1, <2>4 DEF Elect, ElectableUnlessRestarted
<1>2. ASSUME UNCHANGED <<status, crashes>>, UNCHANGED voters \/ ID \in voters',
             covered'.from \in {covered.from, 0}
      PROVE  Elect'
  BY <1>2 DEF Elect, ElectableUnlessRestarted
<1>3. CASE ReadyPanic \/ SavePanic \/ Crash
  BY <1>1, <1>3 DEF ReadyPanic, SavePanic, Crash
<1>4. CASE TakeReady \/ WriteRecord \/ Save \/ Send \/ CreateSnapshot \/ Compact \/ Install
             \/ Advance
  <2>1. UNCHANGED <<status, crashes, voters, covered>>
    BY <1>4 DEF TakeReady, WriteRecord, Save, Send, CreateSnapshot, Compact, Install, Advance,
                InLoop, history
  <2> QED
    BY <1>2, <2>1
<1>5. CASE Apply
  <2>1. UNCHANGED <<status, crashes, voters>> /\ covered'.from = covered.from
    BY <1>5 DEF Apply, InLoop, Cover
  <2> QED
    BY <1>2, <2>1
<1>6. CASE Restore
  <2>1. UNCHANGED <<status, crashes, voters>> /\ covered'.from = 0
    BY <1>6 DEF Restore, InLoop
  <2> QED
    BY <1>2, <2>1
<1>7. CASE Messages
  <2>1. \/ UNCHANGED <<status, crashes, covered>> /\ (UNCHANGED voters \/ ID \in voters')
        \/ \E f : Stop(f)
    <3>1. ASSUME NEW t \in Term, NEW i \in Index, NEW c, RecvEntry(t, i, c)
          PROVE  UNCHANGED <<status, crashes, covered, voters>>
      BY <3>1 DEF RecvEntry, Received
    <3>2. ASSUME NEW t \in Term, NEW i \in Index, RecvSnapshot(t, i)
          PROVE  UNCHANGED <<status, crashes, covered>> /\ ID \in voters'
      BY <3>2 DEF RecvSnapshot, Received
    <3>3. ASSUME NEW t \in Term, NEW c, RecvHeartbeat(t, c) \/ RecvVote(t, c)
          PROVE  UNCHANGED <<status, crashes, covered, voters>>
      BY <3>3 DEF RecvHeartbeat, RecvVote, Received
    <3>4. ASSUME NEW t \in Term, NEW c, RecvHeartbeatPanic(t, c) PROVE \E f : Stop(f)
      BY <3>4 DEF RecvHeartbeatPanic
    <3> QED
      BY <1>7, <3>1, <3>2, <3>3, <3>4 DEF Messages
  <2> QED
    BY <1>1, <1>2, <2>1
<1>8. CASE Restart
  <2>1. /\ status = "down" /\ status' = "up" /\ crashes' = crashes
        /\ mem' = Replay(file) /\ covered'.from = mem'.offset
        /\ voters' = mem'.snap.voters \/ voters' = Peers
    BY <1>8 DEF Restart
  <2>2. IsStored(mem', granted)
    BY <1>8 DEF Restart, Starts, Inv, Stored
  <2>3. \/ mem'.snap.voters = DefaultVoters
        \/ mem'.offset = 0
    BY <2>2, Empties DEF IsStored, IsMemory, IsSnapshot
  <2> QED
    BY <2>1, <2>3, NodeID DEF Elect, ElectableUnlessRestarted
<1>9. CASE FailToStart
  BY <1>9 DEF FailToStart, history, Elect, ElectableUnlessRestarted
<1>10. CASE UNCHANGED vars
  BY <1>10 DEF vars, Elect, ElectableUnlessRestarted
<1> QED
  BY <1>3, <1>4, <1>5, <1>6, <1>7, <1>8, <1>9, <1>10 DEF Next, ReadyLoop

(* node.go:86,153: a running node that is not among its own voters has been *)
(* restarted, from a file without a snapshot or with one whose fixed voters *)
(* leave it out; in an instance that counts its crashes.                    *)
THEOREM Electable == MaxCrashes # 0 => (Spec => []ElectableUnlessRestarted)
<1> SUFFICES ASSUME MaxCrashes # 0 PROVE Spec => []ElectableUnlessRestarted
  OBVIOUS
<1>1. Init => Cover /\ Elect
  BY NodeID DEF Init, Cover, Elect, ElectableUnlessRestarted
<1>2. Inv /\ (Cover /\ Elect) /\ [Next]_vars => (Cover /\ Elect)'
  BY CoverNext, ElectNext
<1>3. Elect => ElectableUnlessRestarted
  BY DEF Elect
<1> QED
  BY <1>1, <1>2, <1>3, Invariance, PTL DEF Spec

-----------------------------------------------------------------------------
(* The file and the memory.                                                 *)

(* Appending entries that are new to the memory and leave no gap.           *)
LEMMA PlainAppend ==
  ASSUME NEW m, IsMemory(m), NEW first \in Nat, NEW es, Successive(es, first), es # <<>>,
         m.offset < first, first <= LastIndex(m) + 1
  PROVE  MemAppend(m, es) = [m EXCEPT !.ents = SubSeq(m.ents, 1, first - FirstIndex(m)) \o es]
<1>1. es \in Seq(Entry) /\ Len(es) \in Nat \ {0} /\ es[1].index = first
  BY DEF Successive
<1>2. PICK o \in Nat : o = m.offset
  BY LogFacts DEF IsMemory
<1>3. FirstIndex(m) = o + 1 /\ ~(es[1].index < FirstIndex(m))
  BY <1>1, <1>2 DEF FirstIndex
<1>4. SubSeq(es, 0 + 1, Len(es)) = es
  BY <1>1, SubSeqFull
<1>5. ~(es[1].index > LastIndex(m) + 1)
  <2>1. LastIndex(m) \in Nat
    BY LogFacts DEF IsMemory, LastIndex, Successive
  <2> QED
    BY <1>1, <2>1
<1> QED
  BY <1>1, <1>3, <1>4, <1>5 DEF MemAppend

(* Save appends the entries together, a replay one by one.                  *)
LEMMA AppendOne ==
  ASSUME NEW m, IsMemory(m), NEW first \in Nat, NEW es, Successive(es, first),
         m.offset < first, first <= LastIndex(m) + 1, NEW w \in Nat, w < Len(es)
  PROVE  MemAppend(MemAppend(m, SubSeq(es, 1, w)), <<es[w + 1]>>)
           = MemAppend(m, SubSeq(es, 1, w + 1))
<1>1. es \in Seq(Entry) /\ Len(es) \in Nat
  BY DEF Successive
<1>2. PICK o \in Nat, k \in Nat : o = m.offset /\ k = first - (o + 1)
  BY LogFacts DEF IsMemory
<1>3. FirstIndex(m) = o + 1 /\ first = o + k + 1
  <2>1. FirstIndex(m) = o + 1
    BY <1>2 DEF FirstIndex
  <2>2. k = first - (o + 1)
    BY <1>2
  <2>3. first = o + k + 1
    BY ONLY <2>2, o \in Nat, k \in Nat, first \in Nat
  <2> QED
    BY <2>1, <2>3
<1>4. PICK kept, part, all : /\ kept = SubSeq(m.ents, 1, k)
                             /\ part = SubSeq(es, 1, w) /\ all = SubSeq(es, 1, w + 1)
  OBVIOUS
<1>5. Successive(part, first) /\ Len(part) = w
  BY <1>1, <1>4, CutBefore
<1>6. Successive(all, first) /\ Len(all) = w + 1
  BY <1>1, <1>4, CutBefore
<1>7. PICK e, one : e = es[w + 1] /\ one = <<e>>
  OBVIOUS
<1>8. e \in Entry /\ e.index = first + w /\ Successive(one, first + w) /\ one # <<>>
  <2>1. w + 1 \in 1 .. Len(es)
    BY <1>1
  <2>2. es[w + 1].index = first + (w + 1) - 1 /\ es[w + 1] \in Entry
    BY <1>1, <2>1 DEF Successive
  <2>3. e \in Entry /\ e.index = first + w
    BY <1>7, <2>2
  <2> QED
    BY <1>7, <2>3 DEF Successive
<1>9. all = part \o one
  <2>1. 1 \in 1 .. Len(es) /\ w + 1 \in 1 .. Len(es) /\ (w + 1) - 1 = w
    BY <1>1
  <2>2. SubSeq(es, 1, w + 1) = SubSeq(es, 1, (w + 1) - 1) \o <<es[w + 1]>>
    BY <1>1, <2>1, SubSeqRecursiveSecond
  <2> QED
    BY <1>4, <1>7, <2>1, <2>2
<1>10. Successive(kept, o + 1) /\ kept \in Seq(Entry) /\ Len(kept) = k
  <2>1. Successive(m.ents, o + 1) /\ Len(m.ents) \in Nat /\ k <= Len(m.ents)
    <3>1. Successive(m.ents, o + 1)
      BY <1>2 DEF IsMemory
    <3>2. PICK n \in Nat : n = Len(m.ents)
      BY <3>1 DEF Successive
    <3>3. first <= (o + n) + 1
      BY <1>2, <3>2 DEF LastIndex
    <3>4. k <= n
      BY ONLY <1>3, <3>3, o \in Nat, k \in Nat, n \in Nat
    <3> QED
      BY <3>1, <3>2, <3>4
  <2>2. /\ Successive(SubSeq(m.ents, 1, k), o + 1)
        /\ Len(SubSeq(m.ents, 1, k)) = IF k >= 1 THEN k ELSE 0
    BY <2>1, CutBefore
  <2> QED
    BY <1>4, <2>2 DEF Successive
<1>11. MemAppend(m, all) = [m EXCEPT !.ents = kept \o all]
  <2>1. all # <<>>
    BY <1>6
  <2>2. MemAppend(m, all) = [m EXCEPT !.ents = SubSeq(m.ents, 1, first - FirstIndex(m)) \o all]
    BY <1>6, <2>1, PlainAppend
  <2> QED
    BY <1>2, <1>3, <1>4, <2>2
<1>12. CASE w = 0
  <2>1. part = <<>> /\ all = one
    <3>1. part = <<>>
      BY <1>5, <1>12 DEF Successive
    <3>2. <<>> \o <<e>> = <<e>>
      OBVIOUS
    <3> QED
      BY <1>7, <1>9, <3>1, <3>2
  <2>2. MemAppend(m, part) = m
    BY <2>1 DEF MemAppend
  <2> QED
    BY <1>4, <1>7, <2>1, <2>2
<1>13. CASE w # 0
  <2>1. part # <<>> /\ part \in Seq(Entry)
    BY <1>5, <1>13 DEF Successive
  <2> DEFINE a == [m EXCEPT !.ents = kept \o part]
  <2>2. MemAppend(m, part) = a
    <3>1. MemAppend(m, part)
            = [m EXCEPT !.ents = SubSeq(m.ents, 1, first - FirstIndex(m)) \o part]
      BY <1>5, <2>1, PlainAppend
    <3> QED
      BY <1>2, <1>3, <1>4, <3>1
  <2>3. /\ DOMAIN a = DOMAIN m /\ a.ents = kept \o part /\ a.ok = m.ok
        /\ a.offset = m.offset /\ a.snap = m.snap /\ a.hs = m.hs
    BY DEF IsMemory
  <2>4. kept \o part \in Seq(Entry) /\ Len(kept \o part) = k + w
    BY <1>5, <1>10, <2>1
  <2>5. IsMemory(a)
    <3>2. Successive(part, (o + 1) + Len(kept))
      <4>1. first = (o + 1) + Len(kept)
        BY <1>3, <1>10
      <4> QED
        BY <1>5, <4>1
    <3>3. Successive(kept \o part, o + 1) /\ Len(kept \o part) = Len(kept) + Len(part)
      BY <1>10, <3>2, Join
    <3> HIDE DEF a
    <3> QED
      BY <1>2, <2>3, <3>3 DEF IsMemory
  <2> HIDE DEF a
  <2>6. MemAppend(a, one) = [a EXCEPT !.ents = a.ents \o one]
    <3>1. FirstIndex(a) = o + 1 /\ LastIndex(a) = o + (k + w)
      BY <1>2, <2>3, <2>4 DEF FirstIndex, LastIndex
    <3>2. a.offset < first + w /\ first + w <= LastIndex(a) + 1 /\ first + w \in Nat
      <4>1. a.offset = o /\ first = o + k + 1 /\ LastIndex(a) = o + (k + w)
        BY <1>2, <1>3, <2>3, <3>1
      <4> QED
        BY ONLY <4>1, o \in Nat, k \in Nat, w \in Nat
    <3>3. MemAppend(a, one)
            = [a EXCEPT !.ents = SubSeq(a.ents, 1, (first + w) - FirstIndex(a)) \o one]
      BY <1>8, <2>5, <3>2, PlainAppend
    <3>4. (first + w) - FirstIndex(a) = Len(a.ents)
      BY <1>3, <2>3, <2>4, <3>1
    <3>5. SubSeq(a.ents, 1, Len(a.ents)) = a.ents
      BY <2>3, <2>4, SubSeqFull
    <3> QED
      BY <3>3, <3>4, <3>5
  <2>7. a.ents \o one = kept \o all
    <3>1. one \in Seq(Entry)
      BY <1>8 DEF Successive
    <3>2. (kept \o part) \o one = kept \o (part \o one)
      <4>1. kept \in Seq(Entry) /\ part \in Seq(Entry)
        BY <1>10, <2>1
      <4> QED
        BY ONLY <3>1, <4>1, ConcatAssociative
    <3> QED
      BY <1>9, <2>3, <3>2
  <2>8. [a EXCEPT !.ents = kept \o all] = [m EXCEPT !.ents = kept \o all]
    BY DEF a, IsMemory
  <2> QED
    BY <1>4, <1>7, <1>11, <2>2, <2>6, <2>7, <2>8
<1> QED
  BY <1>12, <1>13

LEMMA AppendFits ==
  ASSUME NEW m, IsMemory(m), m.ok, NEW first \in Nat, NEW es, Successive(es, first),
         es # <<>> => m.offset < first /\ first <= LastIndex(m) + 1
  PROVE  /\ IsMemory(MemAppend(m, es)) /\ MemAppend(m, es).ok
         /\ MemAppend(m, es).offset = m.offset /\ MemAppend(m, es).snap = m.snap
         /\ MemAppend(m, es).hs = m.hs
         /\ es = <<>> => MemAppend(m, es) = m
         /\ es # <<>> => LastIndex(MemAppend(m, es)) = first + Len(es) - 1
<1>1. CASE es = <<>>
  <2>1. MemAppend(m, es) = m
    BY <1>1 DEF MemAppend
  <2> QED
    BY <1>1, <2>1
<1>2. CASE es # <<>>
  <2>1. PICK k : k = first - FirstIndex(m)
    OBVIOUS
  <2>2. PICK kept : kept = SubSeq(m.ents, 1, k)
    OBVIOUS
  <2> DEFINE q == [m EXCEPT !.ents = kept \o es]
  <2>3. MemAppend(m, es) = q
    <3>1. MemAppend(m, es) = [m EXCEPT !.ents = SubSeq(m.ents, 1, first - FirstIndex(m)) \o es]
      BY <1>2, PlainAppend
    <3> QED
      BY <2>1, <2>2, <3>1
  <2>4. /\ q.ok = m.ok /\ q.ents = kept \o es /\ q.offset = m.offset
    BY DEF IsMemory
  <2> HIDE DEF q
  <2>5. /\ IsMemory(MemAppend(m, es)) /\ m.ok
        /\ MemAppend(m, es).offset = m.offset /\ MemAppend(m, es).snap = m.snap
        /\ MemAppend(m, es).hs = m.hs
        /\ es # <<>> => LastIndex(MemAppend(m, es)) >= first
    <3>1. MemAppend(m, es).ok
      BY <2>3, <2>4
    <3> QED
      BY <3>1, AppendMemory
  <2>6. PICK o \in Nat, n \in Nat : o = m.offset /\ n = Len(m.ents)
    BY LogFacts DEF IsMemory, Successive
  <2>7. k \in Nat /\ k <= n /\ o + k + 1 = first
    <3>1. o < first /\ first <= (o + n) + 1 /\ k = first - (o + 1)
      BY <1>2, <2>1, <2>6 DEF LastIndex, FirstIndex
    <3> QED
      BY ONLY <3>1, o \in Nat, n \in Nat, first \in Nat
  <2>8. kept \in Seq(Entry) /\ Len(kept) = k
    <3>1. Successive(m.ents, o + 1) /\ o + 1 \in Nat
      BY <2>6 DEF IsMemory
    <3>2. /\ Successive(SubSeq(m.ents, 1, k), o + 1)
          /\ Len(SubSeq(m.ents, 1, k)) = IF k >= 1 THEN k ELSE 0
      BY <2>6, <2>7, <3>1, CutBefore
    <3> QED
      BY <2>2, <2>7, <3>2 DEF Successive
  <2>9. PICK l \in Nat : l = Len(es) /\ es \in Seq(Entry)
    BY DEF Successive
  <2>10. Len(kept \o es) = k + l
    BY <2>8, <2>9
  <2>11. LastIndex(q) = first + l - 1
    <3>1. LastIndex(q) = o + (k + l)
      BY <2>4, <2>6, <2>10 DEF LastIndex
    <3> QED
      BY <2>7, <3>1
  <2> QED
    BY <1>2, <2>3, <2>4, <2>5, <2>9, <2>11
<1> QED
  BY <1>1, <1>2

LEMMA SaveRecordsList ==
  ASSUME NEW es \in Seq(Entry), NEW hs, NEW records, records = SaveRecords(es, hs)
  PROVE  /\ IsSeq(records)
         /\ Len(records) = Len(es) + (IF hs = NoHardState THEN 0 ELSE 1)
         /\ \A i \in 1 .. Len(es) : records[i] = RecordEntry(es[i])
         /\ hs # NoHardState => records[Len(es) + 1] = RecordHardState(hs)
<1> DEFINE a == [i \in 1 .. Len(es) |-> RecordEntry(es[i])]
           b == IF hs = NoHardState THEN <<>> ELSE <<RecordHardState(hs)>>
           S == {RecordEntry(e) : e \in Entry} \cup {RecordHardState(hs)}
<1>1. PICK n \in Nat : n = Len(es)
  OBVIOUS
<1>2. a \in Seq(S) /\ Len(a) = n /\ \A i \in 1 .. n : a[i] = RecordEntry(es[i])
  <2>1. \A i \in 1 .. n : a[i] \in S
    BY <1>1
  <2> QED
    BY <1>1, <2>1
<1>3. b \in Seq(S) /\ Len(b) = (IF hs = NoHardState THEN 0 ELSE 1)
      /\ (hs # NoHardState => b[1] = RecordHardState(hs))
  <2>1. PICK r : r = RecordHardState(hs)
    OBVIOUS
  <2>2. r \in S
    BY <2>1
  <2>3. CASE hs = NoHardState
    <3>1. b = <<>>
      BY <2>3
    <3> HIDE DEF S, b
    <3> QED
      BY <2>3, <3>1
  <2>4. CASE hs # NoHardState
    <3>1. b = <<r>>
      BY <2>1, <2>4
    <3> HIDE DEF S, b
    <3> QED
      BY <2>1, <2>2, <2>4, <3>1
  <2> QED
    BY <2>3, <2>4
<1> HIDE DEF a, b, S
<1>4. /\ a \o b \in Seq(S)
      /\ Len(a \o b) = Len(a) + Len(b)
      /\ \A i \in 1 .. Len(a) + Len(b) :
           (a \o b)[i] = IF i <= Len(a) THEN a[i] ELSE b[i - Len(a)]
  BY <1>2, <1>3, ConcatProperties
<1>5. records = a \o b
  BY DEF SaveRecords, a, b
<1>6. \A i \in 1 .. n : records[i] = RecordEntry(es[i])
  <2> SUFFICES ASSUME NEW i \in 1 .. n PROVE records[i] = a[i]
    BY <1>2
  <2>1. i \in 1 .. Len(a) + Len(b) /\ i <= Len(a)
    BY <1>2, <1>3
  <2> QED
    BY <1>4, <1>5, <2>1
<1>7. hs # NoHardState => records[n + 1] = RecordHardState(hs)
  <2> SUFFICES ASSUME hs # NoHardState PROVE records[n + 1] = b[1]
    BY <1>3
  <2>1. n + 1 \in 1 .. Len(a) + Len(b) /\ ~(n + 1 <= Len(a)) /\ (n + 1) - Len(a) = 1
    BY <1>2, <1>3
  <2> QED
    BY <1>4, <1>5, <2>1
<1> QED
  BY <1>1, <1>2, <1>3, <1>4, <1>5, <1>6, <1>7 DEF IsSeq

(* Between two rounds, and until the Ready in hand is saved: the memory has *)
(* the hard state of the last Ready and the log up to the entries that are  *)
(* not stable yet.                                                          *)
Level(r, m) ==
  /\ m.hs = r.hs /\ CommitInLog(m) /\ Follows(r, m)
  /\ m.offset <= r.applied /\ r.committed <= LastOf(r, m) /\ r.hs.commit <= r.committed
  /\ r.unst # <<>> => m.offset < r.unst[1].index /\ r.hs.commit < r.unst[1].index

(* After w of the records of a Save.                                        *)
Partly(w) ==
  IF w <= Len(rd.ents) THEN MemAppend(mem, SubSeq(rd.ents, 1, w))
  ELSE SaveMemory(mem, rd.ents, rd.hs)

Written(w) ==
  LET records == SaveRecords(rd.ents, rd.hs) IN
  /\ w <= Len(records) /\ todo = SubSeq(records, w + 1, Len(records))
  /\ Replay(file) = Partly(w)

(* After the Save.                                                          *)
Settled(m) ==
  /\ m.hs = HardState /\ m.offset <= raft.applied
  /\ rd.snap = NoSnapshot => raft.committed <= LastIndex(m)

InHand ==
  /\ rd.snap # NoSnapshot =>
       rd.ents = <<>> /\ rd.commits = <<>> /\ raft.committed = rd.snap.index
  /\ rd.commits # <<>> => raft.applied < Last(rd.commits).index

NextApplied ==
  IF rd.commits # <<>> THEN Last(rd.commits).index ELSE Max({raft.applied, rd.snap.index})

(* The memory beside etcd/raft's state, stage by stage of a round.          *)
Paced ==
  /\ pc # "ready" => InHand
  /\ pc \in {"ready", "save"} => Level(raft, mem)
  /\ pc = "save" => (rd.hs = NoHardState => raft.hs = HardState)
  /\ pc # "compact" => mem.offset = mem.snap.index
  /\ pc \in {"send", "apply", "snapshot", "compact", "install"} => Settled(mem)
  /\ pc = "snapshot" => mem.snap.index < Last(rd.commits).index
  /\ pc = "compact" => mem.offset < mem.snap.index /\ mem.snap.index = Last(rd.commits).index
  /\ pc = "restore" =>
       /\ todo # <<>> /\ mem.hs = HardState
       /\ mem.offset = rd.snap.index /\ mem.ents = <<>>
  /\ pc = "advance" =>
       /\ mem.hs = HardState /\ raft.committed <= LastIndex(mem)
       /\ mem.offset <= NextApplied

Pace == status = "up" /\ Undisturbed => Paced

(* The file beside the memory.                                              *)
Filed ==
  /\ pc = "save" => \E w \in Nat : Written(w)
  /\ pc \notin {"save", "compact", "restore"} => Replay(file) = mem
  /\ pc = "compact" => Replay(file).ok /\ mem = MemCreateSnapshot(Replay(file), mem.snap)
  /\ pc = "restore" =>
       /\ Replay(file).ok /\ Settled(Replay(file))
       /\ mem = MemApplySnapshot(Replay(file), rd.snap)

Mirrored == Paced /\ Filed

Mirror ==
  /\ status = "up" /\ harm = {} => Mirrored
  /\ status # "up" /\ Iterate(file).ok /\ harm = {} => status = "down" /\ Starts(file)

(* The numbers in them.                                                     *)
LEMMA Numbers ==
  ASSUME Inv
  PROVE  /\ mem.offset \in Nat /\ LastIndex(mem) \in Nat /\ LastOf(raft, mem) \in Nat
         /\ raft.committed \in Nat /\ raft.applied \in Nat /\ raft.applied <= raft.committed
         /\ raft.hs.commit \in Nat /\ IsMemory(mem) /\ mem.ok /\ IsRaft(raft)
<1>1. IsMemory(mem) /\ mem.ok /\ IsRaft(raft)
  BY DEF Inv, Shapes
<1>2. LastOf(raft, mem) \in Nat /\ LastIndex(mem) \in Nat
  BY <1>1, LastOfIs
<1>3. mem.offset \in Nat
  BY <1>1, LogFacts DEF IsMemory
<1>4. raft.committed \in Nat /\ raft.applied \in Nat /\ raft.applied <= raft.committed
  BY <1>1, LogFacts DEF IsRaft
<1>5. raft.hs.commit \in Nat
  BY <1>1, LogFacts DEF IsRaft, IsHardState
<1> QED
  BY <1>1, <1>2, <1>3, <1>4, <1>5

LEMMA LevelStart ==
  ASSUME NEW m, IsMemory(m), LastIndex(m) = 0, m.hs = NoHardState
  PROVE  Level(StartNode, m)
<1>1. m.offset = 0
  <2>1. m.offset \in Nat /\ Len(m.ents) \in Nat
    BY LogFacts DEF IsMemory, Successive
  <2> QED
    BY <2>1 DEF LastIndex
<1>2. PICK n \in Nat \ {0} : n = Cardinality(Peers) /\ n <= Len(GroupLog)
  BY LogFacts DEF Index
<1>3. Successive(GroupLog, 1)
  BY LogFacts, LeaderLogs DEF Successive, GroupLog
<1>4. Successive(SubSeq(GroupLog, 1, n), 1) /\ Len(SubSeq(GroupLog, 1, n)) = n
  BY <1>2, <1>3, CutBefore
<1>5. /\ StartNode.unst = SubSeq(GroupLog, 1, n) /\ StartNode.committed = n
      /\ StartNode.snap = NoSnapshot /\ StartNode.applied = 0 /\ StartNode.hs = NoHardState
  BY <1>2 DEF StartNode
<1>6. IsRaft(StartNode) /\ (StartNode.unst # <<>> => StartNode.unst[1].index = 1)
  BY StartIs
<1>7. StartNode.unst # <<>>
  <2>1. Len(StartNode.unst) = n /\ Len(<<>>) = 0
    BY <1>4, <1>5
  <2>2. n # 0
    OBVIOUS
  <2> QED
    BY <2>1, <2>2, Zenon
<1>8. LastOf(StartNode, m) = 1 + n - 1
  BY <1>4, <1>5, <1>6, <1>7, LastOfIs
<1>9. NoHardState.commit = 0
  BY DEF NoHardState
<1>10. CommitInLog(m)
  BY DEF CommitInLog
<1>11. Follows(StartNode, m)
  BY <1>5, <1>6 DEF Follows
<1> QED
  BY <1>1, <1>2, <1>5, <1>6, <1>8, <1>9, <1>10, <1>11 DEF Level

LEMMA LevelRestart ==
  ASSUME NEW m, IsMemory(m), CommitInLog(m)
  PROVE  Level(RestartNode(m), m)
<1>1. PICK o \in Nat, c \in Nat, l \in Nat : o = m.offset /\ c = m.hs.commit /\ l = LastIndex(m)
  BY LogFacts DEF IsMemory, IsHardState, Successive, LastIndex
<1>2. /\ RestartNode(m).unst = <<>> /\ RestartNode(m).snap = NoSnapshot
      /\ RestartNode(m).committed = Max({c, o}) /\ RestartNode(m).applied = o
      /\ RestartNode(m).hs = m.hs
  BY <1>1 DEF RestartNode
<1>3. Max({c, o}) = IF c >= o THEN c ELSE o
  BY MaxTwo
<1>4. o <= l
  BY <1>1, LogFacts DEF IsMemory, Successive, LastIndex
<1>5. c <= l
  <2>1. CASE m.hs = NoHardState
    <3>1. c = 0
      BY <1>1, <2>1 DEF NoHardState
    <3> QED
      BY <3>1
  <2>2. CASE m.hs # NoHardState
    BY <1>1, <2>2 DEF CommitInLog
  <2> QED
    BY <2>1, <2>2
<1>6. LastOf(RestartNode(m), m) = l
  BY <1>1, <1>2 DEF LastOf
<1>7. Follows(RestartNode(m), m)
  BY <1>2 DEF Follows
<1> QED
  BY <1>1, <1>2, <1>3, <1>4, <1>5, <1>6, <1>7 DEF Level

LEMMA PaceInit == Init => Pace
<1> SUFFICES ASSUME Init PROVE Pace
  OBVIOUS
<1>1. pc = "ready" /\ raft = StartNode /\ mem = NewMemoryStorage
  BY DEF Init
<1>2. Level(raft, mem)
  BY <1>1, Empties, LevelStart
<1>3. mem.offset = mem.snap.index
  BY <1>1, Empties
<1> QED
  BY <1>1, <1>2, <1>3 DEF Pace, Paced

LEMMA MirrorInit == Init => Mirror
<1> SUFFICES ASSUME Init PROVE Mirror
  OBVIOUS
<1>1. status = "up" /\ pc = "ready" /\ mem = NewMemoryStorage /\ file = <<>> /\ harm = {}
  BY DEF Init
<1>2. Paced
  BY <1>1, PaceInit DEF Pace, Undisturbed
<1>3. Replay(file) = mem
  BY <1>1, ReplayEmpty
<1> QED
  BY <1>1, <1>2, <1>3 DEF Mirror, Mirrored, Filed

-----------------------------------------------------------------------------
(* Messages change only what is not stable yet.                             *)

LEMMA LevelKeeps ==
  ASSUME Inv, Level(raft, mem), NEW v, Follows(v, mem), v.hs = raft.hs,
         v.applied = raft.applied, v.committed \in Nat, v.committed >= raft.committed,
         v.committed <= LastOf(v, mem),
         v.unst # <<>> =>
           /\ v.unst[1].index \in Nat
           /\ \/ raft.committed < v.unst[1].index
              \/ raft.unst # <<>> /\ v.unst[1].index = raft.unst[1].index
  PROVE  Level(v, mem)
<1>1. /\ mem.offset \in Nat /\ LastIndex(mem) \in Nat /\ LastOf(raft, mem) \in Nat
      /\ raft.committed \in Nat /\ raft.applied \in Nat /\ raft.applied <= raft.committed
      /\ raft.hs.commit \in Nat /\ IsMemory(mem) /\ mem.ok /\ IsRaft(raft)
  BY Numbers
<1>2. v.unst # <<>> => mem.offset < v.unst[1].index /\ raft.hs.commit < v.unst[1].index
  BY <1>1 DEF Level
<1>3. raft.hs.commit <= v.committed
  BY <1>1 DEF Level
<1> QED
  BY <1>2, <1>3 DEF Level

LEMMA LastAppended ==
  ASSUME NEW S, NEW p \in Seq(S), NEW e \in S
  PROVE  Last(p \o <<e>>) = e
<1>1. Len(p \o <<e>>) = Len(p) + 1 /\ (p \o <<e>>)[Len(p) + 1] = e
  OBVIOUS
<1> QED
  BY <1>1 DEF Last

LEMMA LevelEntry ==
  ASSUME Inv, Inv', Level(raft, mem),
         NEW t \in Term, NEW i \in Index, NEW c \in {0, i}, RecvEntry(t, i, c)
  PROVE  Level(raft', mem)
<1> DEFINE e == LeaderLog[t][i]
           r == AtTerm(t)
           a == IF Matches(t, i) THEN r ELSE [r EXCEPT !.unst = Before(@, i) \o <<e>>]
           v == [a EXCEPT !.committed = Max({@, c}), !.ack = TRUE]
<1>1. /\ Receive /\ t >= raft.term /\ i <= Len(LeaderLog[t]) /\ i > raft.committed
      /\ Matches(t, i - 1) /\ Received(v)
  BY DEF RecvEntry
<1>2. /\ mem.offset \in Nat /\ LastIndex(mem) \in Nat /\ LastOf(raft, mem) \in Nat
      /\ raft.committed \in Nat /\ raft.applied \in Nat /\ raft.applied <= raft.committed
      /\ raft.hs.commit \in Nat /\ IsMemory(mem) /\ mem.ok /\ IsRaft(raft)
  BY Numbers
<1>3. /\ IsRaft(r) /\ r.unst = raft.unst /\ r.snap = raft.snap
      /\ r.committed = raft.committed /\ r.applied = raft.applied /\ r.hs = raft.hs
  BY <1>1, <1>2, AtTermIs
<1>4. i \in Nat \ {0} /\ c \in Nat /\ c <= i
  BY LogFacts DEF Index
<1>5. e \in Entry /\ e.index = i
  <2>1. LeaderLog[t] \in Seq(Entry) /\ i \in 1 .. Len(LeaderLog[t])
    BY <1>1, <1>4, LogFacts
  <2> QED
    BY <2>1, LeaderLogs
<1>6. PICK u : u = a.unst
  OBVIOUS
<1>7. i = 1 \/ i - 1 <= LastOf(raft, mem)
  BY <1>1, <1>4 DEF Matches
<1>8. Matches(t, i) => i <= LastOf(raft, mem)
  BY <1>4 DEF Matches
<1> HIDE DEF e, r
<1>9. /\ DOMAIN a = DOMAIN r /\ a.snap = r.snap
      /\ a.committed = r.committed /\ a.applied = r.applied /\ a.hs = r.hs
      /\ IF Matches(t, i) THEN u = r.unst ELSE u = Before(r.unst, i) \o <<e>>
  BY <1>3, <1>6 DEF IsRaft
<1> HIDE DEF a
<1>10. PICK k : k = Max({r.committed, c})
  OBVIOUS
<1>11. /\ v.unst = u /\ v.snap = r.snap /\ v.committed = k
       /\ v.applied = r.applied /\ v.hs = r.hs
  BY <1>3, <1>6, <1>9, <1>10 DEF IsRaft
<1>12. raft' = v /\ mem' = mem /\ status' = "up" /\ pc' = "ready"
  BY <1>1 DEF Received, Receive, disk
<1> HIDE DEF v
<1>13. IsRaft(v) /\ Follows(v, mem)
  BY <1>12 DEF Inv, Shapes, Running
<1>14. k \in Nat /\ k >= raft.committed /\ k <= i
  <2>1. k = IF raft.committed >= c THEN raft.committed ELSE c
    BY <1>2, <1>3, <1>4, <1>10, MaxTwo
  <2> QED
    BY <1>1, <1>2, <1>4, <2>1
<1>15. CASE Matches(t, i)
  <2>1. u = raft.unst /\ v.unst = raft.unst /\ v.snap = raft.snap
    BY <1>3, <1>9, <1>11, <1>15
  <2>2. LastOf(v, mem) = LastOf(raft, mem)
    BY <2>1 DEF LastOf
  <2>3. v.committed <= LastOf(v, mem)
    BY <1>2, <1>4, <1>8, <1>11, <1>14, <1>15, <2>2
  <2>4. v.unst # <<>> => v.unst[1].index \in Nat
    BY <1>2, <1>13, LastOfIs
  <2> QED
    BY <1>3, <1>11, <1>12, <1>13, <1>14, <2>1, <2>3, <2>4, LevelKeeps
<1>16. CASE ~Matches(t, i)
  <2>1. PICK es : es = raft.unst
    OBVIOUS
  <2>2. /\ LastOf(raft, mem) \in Nat
        /\ es # <<>> =>
             /\ Len(es) \in Nat \ {0} /\ es[1].index \in Nat \ {0}
             /\ LastOf(raft, mem) = es[1].index + Len(es) - 1
        /\ es = <<>> =>
             LastOf(raft, mem) =
               IF raft.snap # NoSnapshot THEN raft.snap.index ELSE LastIndex(mem)
        /\ raft.snap # NoSnapshot => raft.snap.index \in Nat \ {0}
        /\ LastIndex(mem) \in Nat
    BY <1>2, <2>1, LastOfIs
  <2>3. es # <<>> => e.index <= es[1].index + Len(es)
    BY <1>4, <1>5, <1>7, <2>2
  <2>4. u = Before(es, e.index) \o <<e>> /\ Successive(es, es[1].index)
    BY <1>2, <1>3, <1>5, <1>9, <1>16, <2>1 DEF IsRaft
  <2>5. /\ u # <<>> /\ Successive(u, u[1].index)
        /\ u[1].index = IF es # <<>> /\ es[1].index < e.index THEN es[1].index ELSE e.index
    BY <1>5, <2>3, <2>4, Replaced
  <2>6. PICK p : p = Before(es, e.index)
    OBVIOUS
  <2>7. p \in Seq(Entry)
    <3>1. es \in Seq(Entry)
      BY <2>4 DEF Successive
    <3>2. CASE es = <<>>
      BY <2>6, <3>2 DEF Before
    <3>3. CASE es # <<>>
      <4>1. p = SubSeq(es, 1, i - es[1].index)
        BY <1>5, <2>6, <3>3 DEF Before
      <4>2. i - es[1].index \in Int /\ i - es[1].index <= Len(es)
        BY <1>4, <1>5, <2>2, <2>3, <3>3
      <4> QED
        BY <2>2, <3>1, <3>3, <4>1, <4>2
    <3> QED
      BY <3>2, <3>3
  <2>8. Last(u) = e
    BY <1>5, <2>4, <2>6, <2>7, LastAppended
  <2>9. LastOf(v, mem) = i
    BY <1>5, <1>11, <2>5, <2>8 DEF LastOf
  <2>10. v.unst # <<>> =>
           /\ v.unst[1].index \in Nat
           /\ \/ raft.committed < v.unst[1].index
              \/ raft.unst # <<>> /\ v.unst[1].index = raft.unst[1].index
    BY <1>1, <1>4, <1>5, <1>11, <2>1, <2>2, <2>5
  <2> QED
    BY <1>3, <1>11, <1>12, <1>13, <1>14, <2>9, <2>10, LevelKeeps
<1> QED
  BY <1>15, <1>16

LEMMA LevelMessages ==
  ASSUME Inv, Inv', Messages, Level(raft, mem)
  PROVE  \/ Stop(file)
         \/ /\ UNCHANGED <<status, disk, pc, rd, harm>> /\ Level(raft', mem)
            /\ status = "up" /\ pc = "ready"
<1>1. PICK t \in Term :
        \/ \E i \in Index : \E c \in {0, i} : RecvEntry(t, i, c)
        \/ \E i \in Index : RecvSnapshot(t, i)
        \/ \E c \in Index : RecvHeartbeat(t, c)
        \/ \E c \in Index : RecvHeartbeatPanic(t, c)
        \/ \E c \in Candidates : RecvVote(t, c)
  BY DEF Messages
<1>2. /\ mem.offset \in Nat /\ LastIndex(mem) \in Nat /\ LastOf(raft, mem) \in Nat
      /\ raft.committed \in Nat /\ raft.applied \in Nat /\ raft.applied <= raft.committed
      /\ raft.hs.commit \in Nat /\ IsMemory(mem) /\ mem.ok /\ IsRaft(raft)
  BY Numbers
<1>3. ASSUME NEW v, Receive, Received(v)
      PROVE  /\ UNCHANGED <<status, disk, pc, rd, harm>> /\ raft' = v
             /\ status = "up" /\ pc = "ready" /\ IsRaft(v) /\ Follows(v, mem)
  <2>1. /\ UNCHANGED <<status, disk, pc, rd, harm>> /\ raft' = v /\ mem' = mem
        /\ status = "up" /\ pc = "ready"
    BY <1>3 DEF Receive, Received, disk
  <2>2. IsRaft(v) /\ Follows(v, mem)
    BY <2>1 DEF Inv, Shapes, Running
  <2> QED
    BY <2>1, <2>2
<1>4. ASSUME NEW i \in Index, NEW c \in {0, i}, RecvEntry(t, i, c)
      PROVE  /\ UNCHANGED <<status, disk, pc, rd, harm>> /\ Level(raft', mem)
             /\ status = "up" /\ pc = "ready"
  <2>1. Level(raft', mem)
    BY <1>4, LevelEntry
  <2>2. /\ UNCHANGED <<status, disk, pc, rd, harm>> /\ status = "up" /\ pc = "ready"
    BY <1>4 DEF RecvEntry, Received, Receive
  <2> QED
    BY <2>1, <2>2
<1>5. PICK r : r = AtTerm(t)
  OBVIOUS
<1>6. t >= raft.term =>
        /\ IsRaft(r) /\ r.unst = raft.unst /\ r.snap = raft.snap
        /\ r.committed = raft.committed /\ r.applied = raft.applied /\ r.hs = raft.hs
  BY <1>2, <1>5, AtTermIs
<1>7. raft.unst # <<>> => raft.unst[1].index \in Nat
  BY <1>2, LastOfIs
<1>8. ASSUME NEW i \in Index, RecvSnapshot(t, i)
      PROVE  /\ UNCHANGED <<status, disk, pc, rd, harm>> /\ Level(raft', mem)
             /\ status = "up" /\ pc = "ready"
  <2> DEFINE s == [index |-> i, term |-> GroupLog[i].term, voters |-> DefaultVoters,
                   data |-> Commands(SubSeq(GroupLog, 1, i))]
             v == [r EXCEPT !.unst = <<>>, !.snap = s, !.committed = i, !.ack = TRUE]
  <2>1. Receive /\ Received(v) /\ t >= raft.term /\ i > raft.committed /\ i \in Nat \ {0}
    BY <1>5, <1>8, LogFacts DEF RecvSnapshot, Index
  <2>2. /\ v.unst = <<>> /\ v.snap.index = i /\ v.committed = i
        /\ v.hs = raft.hs /\ v.applied = raft.applied
    BY <1>6, <2>1 DEF IsRaft
  <2> HIDE DEF s, v
  <2>3. v.snap # NoSnapshot
    BY <2>1, <2>2, Empties
  <2>4. LastOf(v, mem) = i
    BY <2>2, <2>3 DEF LastOf
  <2>5. /\ UNCHANGED <<status, disk, pc, rd, harm>> /\ raft' = v
        /\ status = "up" /\ pc = "ready" /\ IsRaft(v) /\ Follows(v, mem)
    BY <1>3, <2>1
  <2>6. Level(v, mem)
    BY <1>2, <2>1, <2>2, <2>4, <2>5, LevelKeeps
  <2> QED
    BY <2>5, <2>6
<1>9. ASSUME NEW c \in Index, RecvHeartbeat(t, c)
      PROVE  /\ UNCHANGED <<status, disk, pc, rd, harm>> /\ Level(raft', mem)
             /\ status = "up" /\ pc = "ready"
  <2> DEFINE v == [r EXCEPT !.committed = c]
  <2>1. /\ Receive /\ Received(v) /\ t >= raft.term /\ c > raft.committed
        /\ c <= LastOf(raft, mem) /\ c \in Nat
    BY <1>5, <1>9, LogFacts DEF RecvHeartbeat, HeartbeatCommit, Index
  <2>2. /\ v.unst = raft.unst /\ v.snap = raft.snap /\ v.committed = c
        /\ v.hs = raft.hs /\ v.applied = raft.applied
    BY <1>6, <2>1 DEF IsRaft
  <2> HIDE DEF v
  <2>3. LastOf(v, mem) = LastOf(raft, mem)
    BY <2>2 DEF LastOf
  <2>4. /\ UNCHANGED <<status, disk, pc, rd, harm>> /\ raft' = v
        /\ status = "up" /\ pc = "ready" /\ IsRaft(v) /\ Follows(v, mem)
    BY <1>3, <2>1
  <2>5. Level(v, mem)
    BY <1>2, <1>7, <2>1, <2>2, <2>3, <2>4, LevelKeeps
  <2> QED
    BY <2>4, <2>5
<1>10. ASSUME NEW c \in Candidates, RecvVote(t, c)
       PROVE  /\ UNCHANGED <<status, disk, pc, rd, harm>> /\ Level(raft', mem)
              /\ status = "up" /\ pc = "ready"
  <2> DEFINE v == [r EXCEPT !.vote = c, !.grants = @ \cup {<<t, c>>}]
  <2>1. Receive /\ Received(v) /\ t >= raft.term
    BY <1>5, <1>10 DEF RecvVote
  <2>2. /\ v.unst = raft.unst /\ v.snap = raft.snap /\ v.committed = raft.committed
        /\ v.hs = raft.hs /\ v.applied = raft.applied
    BY <1>6, <2>1 DEF IsRaft
  <2> HIDE DEF v
  <2>3. LastOf(v, mem) = LastOf(raft, mem)
    BY <2>2 DEF LastOf
  <2>4. /\ UNCHANGED <<status, disk, pc, rd, harm>> /\ raft' = v
        /\ status = "up" /\ pc = "ready" /\ IsRaft(v) /\ Follows(v, mem)
    BY <1>3, <2>1
  <2>5. v.committed <= LastOf(v, mem)
    BY <2>2, <2>3 DEF Level
  <2>6. Level(v, mem)
    BY <1>2, <1>7, <2>2, <2>4, <2>5, LevelKeeps
  <2> QED
    BY <2>4, <2>6
<1>11. ASSUME NEW c \in Index, RecvHeartbeatPanic(t, c) PROVE Stop(file)
  BY <1>11 DEF RecvHeartbeatPanic
<1> QED
  BY <1>1, <1>4, <1>8, <1>9, <1>10, <1>11

LEMMA NextAppliedIs ==
  ASSUME Inv, pc # "ready"
  PROVE  NextApplied \in Nat /\ NextApplied <= raft.committed
<1>1. /\ IsRaft(raft) /\ rd.snap = raft.snap
      /\ rd.commits # <<>> => Last(rd.commits).index \in 1 .. raft.committed
  BY DEF Inv, Shapes, InRound
<1>2. raft.committed \in Nat /\ raft.applied \in Nat /\ raft.applied <= raft.committed
  BY Numbers
<1>3. CASE rd.commits # <<>>
  BY <1>1, <1>2, <1>3 DEF NextApplied
<1>4. CASE rd.commits = <<>>
  <2>1. NextApplied = Max({raft.applied, rd.snap.index})
    BY <1>4 DEF NextApplied
  <2>2. rd.snap.index \in Nat /\ rd.snap.index <= raft.committed
    BY <1>1, <1>2, Empties, LogFacts DEF IsRaft, IsSnapshot, Index
  <2>3. NextApplied = IF raft.applied >= rd.snap.index THEN raft.applied ELSE rd.snap.index
    BY <1>2, <2>1, <2>2, MaxTwo
  <2> QED
    BY <1>2, <2>2, <2>3
<1> QED
  BY <1>3, <1>4

-----------------------------------------------------------------------------
(* The records of a Save, one after the other.                              *)

LEMMA Saveable ==
  ASSUME Inv, Paced, pc = "save"
  PROVE  \E first \in Nat :
           /\ Successive(rd.ents, first) /\ Len(rd.ents) \in Nat
           /\ rd.ents # <<>> =>
                /\ mem.offset < first /\ first <= LastIndex(mem) + 1
                /\ raft.hs.commit < first /\ LastOf(raft, mem) = first + Len(rd.ents) - 1
           /\ rd.ents = <<>> /\ rd.snap = NoSnapshot => LastOf(raft, mem) = LastIndex(mem)
<1>1. /\ mem.offset \in Nat /\ LastIndex(mem) \in Nat /\ LastOf(raft, mem) \in Nat
      /\ raft.committed \in Nat /\ raft.applied \in Nat /\ raft.applied <= raft.committed
      /\ raft.hs.commit \in Nat /\ IsMemory(mem) /\ mem.ok /\ IsRaft(raft)
  BY Numbers
<1>2. rd.ents = raft.unst /\ rd.snap = raft.snap
  BY DEF Inv, InRound
<1>3. Level(raft, mem) /\ InHand
  BY DEF Paced
<1>4. Successive(raft.unst, raft.unst[1].index) /\ Len(raft.unst) \in Nat
  BY <1>1 DEF IsRaft, Successive
<1>5. /\ raft.unst # <<>> =>
           /\ raft.unst[1].index \in Nat \ {0}
           /\ LastOf(raft, mem) = raft.unst[1].index + Len(raft.unst) - 1
      /\ raft.unst = <<>> =>
           LastOf(raft, mem) = IF raft.snap # NoSnapshot THEN raft.snap.index ELSE LastIndex(mem)
  BY <1>1, LastOfIs
<1>6. CASE raft.unst = <<>>
  <2>1. Successive(raft.unst, 1)
    BY <1>6 DEF Successive
  <2> QED
    BY <1>2, <1>4, <1>5, <1>6, <2>1
<1>7. CASE raft.unst # <<>>
  <2>1. raft.snap = NoSnapshot
    BY <1>2, <1>3, <1>7 DEF InHand
  <2>2. raft.unst[1].index <= LastIndex(mem) + 1
    BY <1>3, <1>7, <2>1 DEF Level, Follows
  <2>3. mem.offset < raft.unst[1].index /\ raft.hs.commit < raft.unst[1].index
    BY <1>3, <1>7 DEF Level
  <2> QED
    BY <1>2, <1>4, <1>5, <1>7, <2>2, <2>3
<1> QED
  BY <1>6, <1>7

(* Some of the entries: the memory can still be started with.               *)
LEMMA PartFits ==
  ASSUME Inv, Paced, pc = "save", NEW w \in Nat, w <= Len(rd.ents),
         NEW a, a = MemAppend(mem, SubSeq(rd.ents, 1, w))
  PROVE  a.ok /\ CommitInLog(a)
<1>1. PICK first \in Nat :
           /\ Successive(rd.ents, first) /\ Len(rd.ents) \in Nat
           /\ rd.ents # <<>> =>
                /\ mem.offset < first /\ first <= LastIndex(mem) + 1
                /\ raft.hs.commit < first /\ LastOf(raft, mem) = first + Len(rd.ents) - 1
  BY Saveable
<1>2. /\ mem.offset \in Nat /\ LastIndex(mem) \in Nat /\ LastOf(raft, mem) \in Nat
      /\ raft.committed \in Nat /\ raft.applied \in Nat /\ raft.applied <= raft.committed
      /\ raft.hs.commit \in Nat /\ IsMemory(mem) /\ mem.ok /\ IsRaft(raft)
  BY Numbers
<1>3. mem.hs = raft.hs /\ CommitInLog(mem)
  BY DEF Paced, Level
<1>4. PICK es : es = SubSeq(rd.ents, 1, w)
  OBVIOUS
<1>5. Successive(es, first) /\ Len(es) = w
  BY <1>1, <1>4, CutBefore
<1>6. es # <<>> => mem.offset < first /\ first <= LastIndex(mem) + 1 /\ raft.hs.commit < first
  BY <1>1, <1>5
<1>7. /\ IsMemory(a) /\ a.ok /\ a.offset = mem.offset /\ a.snap = mem.snap /\ a.hs = mem.hs
      /\ es = <<>> => a = mem
      /\ es # <<>> => LastIndex(a) = first + Len(es) - 1
  <2>1. es # <<>> => mem.offset < first /\ first <= LastIndex(mem) + 1
    BY <1>6
  <2>2. /\ IsMemory(MemAppend(mem, es)) /\ MemAppend(mem, es).ok
        /\ MemAppend(mem, es).offset = mem.offset /\ MemAppend(mem, es).snap = mem.snap
        /\ MemAppend(mem, es).hs = mem.hs
        /\ es = <<>> => MemAppend(mem, es) = mem
        /\ es # <<>> => LastIndex(MemAppend(mem, es)) = first + Len(es) - 1
    <3>1. IsMemory(mem) /\ mem.ok /\ Successive(es, first)
      BY <1>2, <1>5
    <3> QED
      BY ONLY <2>1, <3>1, first \in Nat, AppendFits, ZenonT(60)
  <2> QED
    BY <1>4, <2>2, Zenon
<1>8. CASE es = <<>>
  BY <1>3, <1>7, <1>8
<1>9. CASE es # <<>>
  <2>1. w \in Nat \ {0} /\ LastIndex(a) = first + w - 1
    BY <1>5, <1>7, <1>9 DEF Successive
  <2>2. raft.hs.commit <= LastIndex(a) /\ LastIndex(a) \in Nat
    BY <1>2, <1>6, <1>9, <2>1
  <2>3. CASE mem.hs = NoHardState
    BY <1>7, <2>3 DEF CommitInLog
  <2>4. CASE mem.hs # NoHardState
    <3>1. mem.hs.commit \in mem.offset .. LastIndex(mem)
      BY <1>3, <2>4 DEF CommitInLog
    <3>2. a.hs.commit \in a.offset .. LastIndex(a)
      BY <1>2, <1>3, <1>7, <2>2, <3>1
    <3> QED
      BY <1>7, <3>2 DEF CommitInLog
  <2> QED
    BY <1>7, <2>3, <2>4
<1> QED
  BY <1>8, <1>9

(* All of them: the memory after the Save.                                  *)
LEMMA WholeFits ==
  ASSUME Inv, Paced, pc = "save", NEW a, a = SaveMemory(mem, rd.ents, rd.hs)
  PROVE  a.ok /\ Settled(a) /\ a.snap = mem.snap /\ a.offset = mem.offset
<1>1. PICK first \in Nat :
           /\ Successive(rd.ents, first) /\ Len(rd.ents) \in Nat
           /\ rd.ents # <<>> =>
                /\ mem.offset < first /\ first <= LastIndex(mem) + 1
                /\ raft.hs.commit < first /\ LastOf(raft, mem) = first + Len(rd.ents) - 1
           /\ rd.ents = <<>> /\ rd.snap = NoSnapshot => LastOf(raft, mem) = LastIndex(mem)
  BY Saveable
<1>2. /\ mem.offset \in Nat /\ LastIndex(mem) \in Nat /\ LastOf(raft, mem) \in Nat
      /\ raft.committed \in Nat /\ raft.applied \in Nat /\ raft.applied <= raft.committed
      /\ raft.hs.commit \in Nat /\ IsMemory(mem) /\ mem.ok /\ IsRaft(raft)
  BY Numbers
<1>3. PICK b : b = MemAppend(mem, rd.ents)
  OBVIOUS
<1>4. /\ IsMemory(b) /\ b.ok /\ b.offset = mem.offset /\ b.snap = mem.snap /\ b.hs = mem.hs
      /\ rd.ents = <<>> => b = mem
      /\ rd.ents # <<>> => LastIndex(b) = first + Len(rd.ents) - 1
  <2>1. PICK es : es = rd.ents
    OBVIOUS
  <2>2. Successive(es, first) /\ (es # <<>> => mem.offset < first /\ first <= LastIndex(mem) + 1)
    BY <1>1, <2>1, Zenon
  <2>3. /\ IsMemory(MemAppend(mem, es)) /\ MemAppend(mem, es).ok
        /\ MemAppend(mem, es).offset = mem.offset /\ MemAppend(mem, es).snap = mem.snap
        /\ MemAppend(mem, es).hs = mem.hs
        /\ es = <<>> => MemAppend(mem, es) = mem
        /\ es # <<>> => LastIndex(MemAppend(mem, es)) = first + Len(es) - 1
    BY <1>2, <2>2, AppendFits, Zenon
  <2> QED
    BY <1>3, <2>1, <2>3, Zenon
<1>5. /\ mem.hs = raft.hs /\ mem.offset <= raft.applied /\ raft.committed <= LastOf(raft, mem)
      /\ rd.hs = NoHardState => raft.hs = HardState
  BY DEF Paced, Level
<1>6. rd.hs \in {NoHardState, HardState}
  BY DEF Inv, InRound
<1>7. a.ok /\ a.offset = b.offset /\ a.ents = b.ents /\ a.hs = HardState /\ a.snap = b.snap
  <2>1. CASE rd.hs = NoHardState
    <3>1. a = b
      BY <1>3, <2>1 DEF SaveMemory
    <3> QED
      BY <1>4, <1>5, <2>1, <3>1
  <2>2. CASE rd.hs # NoHardState
    <3>1. a = [b EXCEPT !.hs = rd.hs] /\ rd.hs = HardState
      BY <1>3, <1>4, <1>6, <2>2 DEF SaveMemory, MemSetHardState
    <3> QED
      BY <1>4, <3>1 DEF IsMemory
  <2> QED
    BY <2>1, <2>2
<1>8. LastIndex(a) = LastIndex(b)
  BY <1>7 DEF LastIndex
<1>9. rd.snap = NoSnapshot => LastIndex(b) = LastOf(raft, mem)
  BY <1>1, <1>4
<1> QED
  BY <1>4, <1>5, <1>7, <1>8, <1>9 DEF Settled

-----------------------------------------------------------------------------
(* The memory, step by step of a round.                                     *)

LEMMA TakeReadyPaces ==
  ASSUME Inv, Inv', Paced, TakeReady, Undisturbed'
  PROVE  Paced'
<1>1. PICK lo : lo = NextToApply
  OBVIOUS
<1> DEFINE h == IF HardState = raft.hs THEN NoHardState ELSE HardState
<1>2. PICK hi :
        /\ rd'.snap = raft.snap /\ rd'.ents = raft.unst /\ rd'.hs = h
        /\ rd'.commits = [i \in 1 .. hi - lo + 1 |-> EntryAt(raft, mem, lo + i - 1)]
        /\ (lo > raft.committed /\ hi = lo - 1) \/ hi \in lo .. raft.committed
  <2>1. PICK hi :
          /\ rd' = [ents |-> raft.unst, hs |-> h, snap |-> raft.snap,
                    commits |-> [i \in 1 .. hi - lo + 1 |-> EntryAt(raft, mem, lo + i - 1)],
                    ack |-> raft.ack, grants |-> raft.grants]
          /\ (lo > raft.committed /\ hi = lo - 1) \/ hi \in lo .. raft.committed
    BY <1>1 DEF TakeReady
  <2> HIDE DEF h
  <2>2. /\ rd'.snap = raft.snap /\ rd'.ents = raft.unst /\ rd'.hs = h
        /\ rd'.commits = [i \in 1 .. hi - lo + 1 |-> EntryAt(raft, mem, lo + i - 1)]
    BY <2>1
  <2> QED
    BY <2>1, <2>2
<1>3. /\ ~CommitBeyondLog /\ status = "up" /\ pc = "ready" /\ pc' = "save"
      /\ todo' = SaveRecords(rd'.ents, rd'.hs) /\ UNCHANGED <<file, mem, raft>>
      /\ rd'.snap # NoSnapshot => rd'.ents = <<>>
      /\ "mixed" \notin harm'
  BY DEF TakeReady, At, InLoop, Undisturbed
<1>4. /\ mem.offset \in Nat /\ LastIndex(mem) \in Nat /\ LastOf(raft, mem) \in Nat
      /\ raft.committed \in Nat /\ raft.applied \in Nat /\ raft.applied <= raft.committed
      /\ raft.hs.commit \in Nat /\ IsMemory(mem) /\ mem.ok /\ IsRaft(raft)
  BY Numbers
<1>5. Level(raft, mem) /\ mem.offset = mem.snap.index
  BY <1>3 DEF Paced
<1>6. rd'.snap # NoSnapshot => rd'.commits = <<>> /\ raft.committed = rd'.snap.index
  <2> SUFFICES ASSUME rd'.snap # NoSnapshot
               PROVE  rd'.commits = <<>> /\ raft.committed = rd'.snap.index
    OBVIOUS
  <2>1. rd'.commits = <<>>
    BY <1>3, SnapshotAlone
  <2>2. raft.unst = <<>> /\ raft.snap # NoSnapshot
    BY <1>2, <1>3
  <2>3. LastOf(raft, mem) = raft.snap.index
    BY <2>2 DEF LastOf
  <2>4. raft.snap.index <= raft.committed /\ raft.snap.index \in Nat
    BY <1>4, <2>2, LogFacts DEF IsRaft, IsSnapshot, Index
  <2>5. raft.committed <= LastOf(raft, mem)
    BY <1>5 DEF Level
  <2>6. raft.committed = raft.snap.index
    BY <1>4, <2>3, <2>4, <2>5
  <2> QED
    BY <1>2, <2>1, <2>6
<1>7. rd'.commits # <<>> => raft.applied < Last(rd'.commits).index
  <2> SUFFICES ASSUME rd'.commits # <<>> PROVE raft.applied < Last(rd'.commits).index
    OBVIOUS
  <2>1. lo \in Nat \ {0} /\ lo >= raft.applied + 1
    <3>1. FirstOf(raft, mem) \in Nat
      BY <1>4, LogFacts DEF FirstOf, IsRaft, IsSnapshot, Index
    <3>2. lo = IF raft.applied + 1 >= FirstOf(raft, mem) THEN raft.applied + 1
               ELSE FirstOf(raft, mem)
      <4>1. raft.applied + 1 \in Int /\ FirstOf(raft, mem) \in Int
        BY <1>4, <3>1
      <4> QED
        BY <1>1, <4>1, MaxTwo DEF NextToApply
    <3> QED
      BY <1>4, <3>1, <3>2
  <2>2. hi \in lo .. raft.committed
    <3>1. ASSUME hi = lo - 1 PROVE FALSE
      <4>1. hi - lo + 1 = 0
        BY <2>1, <3>1
      <4> QED
        BY <1>2, <4>1
    <3> QED
      BY <1>2, <3>1
  <2>3. hi \in Nat \ {0} /\ hi <= LastOf(raft, mem) /\ hi > raft.applied
    BY <1>4, <1>5, <2>1, <2>2 DEF Level
  <2>4. EntryAt(raft, mem, hi).index = hi
    <3>1. Follows(raft, mem)
      BY <1>5 DEF Level
    <3> QED
      BY <1>4, <2>3, <3>1, EntryAtIs
  <2>5. PICK n \in Nat \ {0} : n = hi - lo + 1
    BY <2>1, <2>2
  <2>6. Len(rd'.commits) = n /\ rd'.commits[n] = EntryAt(raft, mem, lo + n - 1)
    BY <1>2, <2>5
  <2>7. lo + n - 1 = hi
    BY <2>1, <2>3, <2>5
  <2> QED
    BY <2>3, <2>4, <2>6, <2>7 DEF Last
<1>8. rd'.hs = NoHardState => raft.hs = HardState
  <2>1. CASE HardState = raft.hs
    BY <2>1
  <2>2. CASE HardState # raft.hs
    <3> SUFFICES ASSUME HardState = NoHardState PROVE FALSE
      BY <1>2, <2>2
    <3>1. raft.term = 0 /\ raft.vote = None /\ raft.committed = 0
      BY DEF HardState, NoHardState
    <3>2. raft.hs.term \in Nat /\ raft.hs.term <= raft.term /\ raft.hs.commit <= raft.committed
      BY <1>4, <1>5, LogFacts DEF IsRaft, IsHardState, Level
    <3>3. raft.hs.term = 0 /\ raft.hs.commit = 0
      BY <1>4, <3>1, <3>2
    <3>4. raft.hs.vote = None
      BY <1>4, <3>3 DEF IsRaft, IsHardState
    <3>5. raft.hs \in [term : Term \cup {0}, vote : Peers \cup {None}, commit : 0 .. Len(GroupLog)]
      BY <1>4 DEF IsRaft, IsHardState
    <3>6. raft.hs = [term |-> 0, vote |-> None, commit |-> 0]
      BY <3>3, <3>4, <3>5
    <3> QED
      BY <2>2, <3>6 DEF NoHardState
  <2> QED
    BY <2>1, <2>2
<1> HIDE DEF h
<1>9. InHand'
  BY <1>3, <1>6, <1>7 DEF InHand
<1>10. HardState' = HardState
  BY <1>3 DEF HardState
<1> QED
  BY <1>3, <1>5, <1>8, <1>9, <1>10 DEF Paced

LEMMA SavePaces ==
  ASSUME Inv, Paced, Save
  PROVE  Paced'
<1>1. /\ pc = "save" /\ pc' = "send" /\ mem' = SaveMemory(mem, rd.ents, rd.hs)
      /\ UNCHANGED <<raft, rd>>
  BY DEF Save, At, InLoop
<1>2. PICK a : a = SaveMemory(mem, rd.ents, rd.hs)
  OBVIOUS
<1>3. a.ok /\ Settled(a) /\ a.snap = mem.snap /\ a.offset = mem.offset
  BY <1>1, <1>2, WholeFits
<1>4. InHand /\ mem.offset = mem.snap.index
  BY <1>1 DEF Paced
<1>5. HardState' = HardState
  BY <1>1 DEF HardState
<1>6. Settled(mem)' /\ InHand'
  BY <1>1, <1>2, <1>3, <1>4, <1>5 DEF Settled, InHand
<1> QED
  BY <1>1, <1>2, <1>3, <1>4, <1>6 DEF Paced

LEMMA SendPaces ==
  ASSUME Inv, Paced, Send \/ Apply
  PROVE  Paced'
<1>1. /\ status = "up" /\ UNCHANGED <<file, mem, raft, rd, todo>>
      /\ \/ pc = "send" /\ pc' = "apply"
         \/ pc = "apply" /\ pc' = AfterApply
  BY DEF Send, Apply, At, InLoop, disk
<1>2. InHand /\ Settled(mem) /\ mem.offset = mem.snap.index
  BY <1>1 DEF Paced
<1>3. HardState' = HardState /\ InHand' /\ Settled(mem)' /\ mem'.offset = mem'.snap.index
  BY <1>1, <1>2 DEF HardState, InHand, Settled
<1>4. CASE pc' = "apply"
  BY <1>3, <1>4 DEF Paced
<1>5. CASE pc = "apply" /\ pc' = AfterApply
  <2>1. CASE SnapshotDue
    <3>1. PICK k : k = Last(rd.commits).index
      OBVIOUS
    <3>2. pc' = "snapshot" /\ ~(k <= mem.snap.index)
      BY <1>5, <2>1, <3>1 DEF AfterApply, SnapshotDue, SnapOutOfDate
    <3>3. mem.snap.index \in Nat
      BY Empties, LogFacts DEF Inv, Shapes, IsMemory, IsSnapshot, Index
    <3>4. k \in Nat
      BY <1>5, <2>1, <3>1, LogFacts DEF SnapshotDue, Inv, Shapes, InRound, IsRaft
    <3>5. mem.snap.index < k
      BY <3>2, <3>3, <3>4
    <3> QED
      BY <1>1, <1>3, <3>1, <3>2, <3>5 DEF Paced
  <2>2. CASE ~SnapshotDue /\ rd.snap # NoSnapshot
    <3>1. pc' = "install"
      BY <1>5, <2>2 DEF AfterApply, AfterSnapshot
    <3> QED
      BY <1>3, <3>1 DEF Paced
  <2>3. CASE ~SnapshotDue /\ rd.snap = NoSnapshot
    <3>1. pc' = "advance"
      BY <1>5, <2>3 DEF AfterApply, AfterSnapshot
    <3>2. raft.committed <= LastIndex(mem) /\ mem.hs = HardState /\ mem.offset <= raft.applied
      BY <1>2, <2>3 DEF Settled
    <3>3. raft.applied \in Nat /\ mem.offset \in Nat
      BY Numbers
    <3>4. mem.offset <= NextApplied
      <4>1. CASE rd.commits # <<>>
        <5>1. raft.applied < Last(rd.commits).index
          BY <1>2, <4>1 DEF InHand
        <5>2. Last(rd.commits).index \in Nat
          BY <1>5, <4>1, LogFacts DEF Inv, Shapes, InRound, IsRaft
        <5> QED
          BY <3>2, <3>3, <4>1, <5>1, <5>2 DEF NextApplied
      <4>2. CASE rd.commits = <<>>
        <5>1. NextApplied = Max({raft.applied, 0})
          BY <2>3, <4>2, Empties DEF NextApplied
        <5>2. Max({raft.applied, 0}) = IF raft.applied >= 0 THEN raft.applied ELSE 0
          BY <3>3, MaxTwo
        <5> QED
          BY <3>2, <3>3, <5>1, <5>2
      <4> QED
        BY <4>1, <4>2
    <3>5. NextApplied' = NextApplied
      BY <1>1 DEF NextApplied
    <3> QED
      BY <1>1, <1>3, <3>1, <3>2, <3>4, <3>5 DEF Paced
  <2> QED
    BY <2>1, <2>2, <2>3
<1> QED
  BY <1>1, <1>4, <1>5

LEMMA CreateSnapshotPaces ==
  ASSUME Inv, Paced, CreateSnapshot
  PROVE  Paced'
<1> DEFINE last == Last(rd.commits)
           s == [index |-> last.index, term |-> last.term,
                 voters |-> DefaultVoters, data |-> state]
<1>1. /\ status = "up" /\ pc = "snapshot" /\ pc' = "compact" /\ mem' = MemCreateSnapshot(mem, s)
      /\ UNCHANGED <<file, raft, rd>>
  BY DEF CreateSnapshot, At, InLoop
<1>2. InHand /\ Settled(mem) /\ mem.offset = mem.snap.index /\ mem.snap.index < last.index
  BY <1>1 DEF Paced
<1>3. IsMemory(mem)
  BY DEF Inv, Shapes
<1>4. s.index = last.index
  OBVIOUS
<1> HIDE DEF s
<1>5. mem'.snap = s /\ mem'.offset = mem.offset /\ mem'.ents = mem.ents /\ mem'.hs = mem.hs
  BY <1>1, <1>3 DEF MemCreateSnapshot, IsMemory
<1>6. LastIndex(mem)' = LastIndex(mem)
  BY <1>5 DEF LastIndex
<1>7. HardState' = HardState /\ InHand'
  BY <1>1, <1>2 DEF HardState, InHand
<1>8. Settled(mem)'
  BY <1>1, <1>2, <1>5, <1>6, <1>7 DEF Settled
<1> QED
  BY <1>1, <1>2, <1>4, <1>5, <1>7, <1>8 DEF Paced

(* The memory after the compaction.                                         *)
LEMMA CompactedIs ==
  ASSUME Inv, Paced, pc = "compact", NEW c, c = MemCompact(mem, mem.snap.index)
  PROVE  /\ c.ok = mem.ok /\ c.offset = mem.snap.index /\ c.snap = mem.snap /\ c.hs = mem.hs
         /\ c.ents = SubSeq(mem.ents, mem.snap.index - mem.offset + 1, Len(mem.ents))
         /\ LastIndex(c) = IF LastIndex(mem) > mem.snap.index THEN LastIndex(mem)
                           ELSE mem.snap.index
<1>1. IsMemory(mem) /\ IsSnapshot(mem.snap) /\ mem.offset < mem.snap.index
  BY DEF Inv, Shapes, InRound, Paced
<1>2. mem.snap.index \in Nat \ {0} /\ mem.offset \in Nat /\ mem.ents \in Seq(Entry)
  BY <1>1, LogFacts DEF IsSnapshot, Index, IsMemory, Successive
<1> DEFINE i == mem.snap.index
           o == mem.offset
           n == Len(mem.ents)
           es == SubSeq(mem.ents, i - o + 1, n)
<1>3. i \in Nat \ {0} /\ o \in Nat /\ n \in Nat /\ o < i
  BY <1>1, <1>2
<1>4. c = [mem EXCEPT !.offset = i, !.ents = es]
  <2>1. ~(i <= o)
    BY <1>3
  <2> QED
    BY <2>1, Zenon DEF MemCompact
<1>5. Len(es) = IF n > i - o THEN n - (i - o) ELSE 0
  <2>1. i - o + 1 \in 1 .. n + 1 \/ i - o + 1 > n
    BY <1>3
  <2> HIDE DEF i, o
  <2> QED
    BY <1>2, <1>3, <2>1
<1> HIDE DEF es
<1>6. c.ok = mem.ok /\ c.offset = i /\ c.ents = es /\ c.snap = mem.snap /\ c.hs = mem.hs
  BY <1>1, <1>4 DEF IsMemory
<1>7. LastIndex(c) = i + Len(es) /\ LastIndex(mem) = o + n
  BY <1>6 DEF LastIndex
<1>8. LastIndex(c) = IF LastIndex(mem) > i THEN LastIndex(mem) ELSE i
  <2> HIDE DEF i, o, n
  <2> QED
    BY <1>3, <1>5, <1>7
<1> QED
  BY <1>6, <1>8 DEF es

LEMMA CompactPaces ==
  ASSUME Inv, Paced, Compact
  PROVE  Paced'
<1>1. /\ pc = "compact" /\ pc' = AfterSnapshot /\ mem' = MemCompact(mem, mem.snap.index)
      /\ UNCHANGED <<raft, rd>>
  BY DEF Compact, At, InLoop
<1>2. /\ InHand /\ Settled(mem) /\ mem.offset < mem.snap.index
      /\ mem.snap.index = Last(rd.commits).index /\ rd.commits # <<>>
  BY <1>1 DEF Paced, Inv, InRound
<1>3. rd.snap = NoSnapshot
  BY <1>2 DEF InHand
<1>4. pc' = "advance"
  BY <1>1, <1>3 DEF AfterSnapshot
<1>5. PICK c : c = MemCompact(mem, mem.snap.index)
  OBVIOUS
<1>6. /\ c.ok = mem.ok /\ c.offset = mem.snap.index /\ c.snap = mem.snap /\ c.hs = mem.hs
      /\ c.ents = SubSeq(mem.ents, mem.snap.index - mem.offset + 1, Len(mem.ents))
      /\ LastIndex(c) = IF LastIndex(mem) > mem.snap.index THEN LastIndex(mem)
                        ELSE mem.snap.index
  BY <1>1, <1>5, CompactedIs
<1>7. /\ LastIndex(mem) \in Nat /\ raft.committed \in Nat /\ mem.snap.index \in Nat
      /\ raft.committed <= LastIndex(mem)
  BY <1>1, <1>2, <1>3, Numbers, LogFacts DEF Settled, Inv, InRound, IsSnapshot, Index
<1>8. raft.committed <= LastIndex(c)
  BY <1>6, <1>7
<1>9. HardState' = HardState /\ InHand' /\ NextApplied' = mem.snap.index
  BY <1>1, <1>2 DEF HardState, InHand, NextApplied
<1>10. c.hs = HardState /\ c.offset <= mem.snap.index
  BY <1>2, <1>6, <1>7 DEF Settled
<1> QED
  BY <1>1, <1>4, <1>5, <1>6, <1>8, <1>9, <1>10 DEF Paced

LEMMA InstallPaces ==
  ASSUME Inv, Paced, Install
  PROVE  Paced' /\ mem' = MemApplySnapshot(mem, rd.snap)
<1>1. /\ pc = "install" /\ pc' = "restore" /\ UNCHANGED <<raft, rd>>
      /\ IF SnapOutOfDate(mem, rd.snap.index) THEN UNCHANGED <<mem, todo>>
         ELSE mem' = MemApplySnapshot(mem, rd.snap) /\ todo' = <<RecordSnapshot(rd.snap)>>
  BY DEF Install, At, InLoop
<1>2. InHand /\ Settled(mem) /\ mem.offset = mem.snap.index
  BY <1>1 DEF Paced
<1>3. mem.offset \in Nat /\ raft.applied \in Nat /\ IsMemory(mem) /\ IsRaft(raft)
  BY Numbers
<1>4. rd.snap # NoSnapshot /\ rd.snap = raft.snap
  BY <1>1 DEF Inv, InRound
<1>5. rd.snap.index \in Nat /\ raft.applied < rd.snap.index
  BY <1>3, <1>4, LogFacts DEF IsRaft, IsSnapshot, Index
<1>6. ~SnapOutOfDate(mem, rd.snap.index)
  BY <1>2, <1>3, <1>5 DEF SnapOutOfDate, Settled
<1>7. mem' = MemApplySnapshot(mem, rd.snap) /\ todo' # <<>>
  BY <1>1, <1>6
<1>8. /\ mem'.offset = rd.snap.index /\ mem'.snap = rd.snap
      /\ mem'.ents = <<>> /\ mem'.hs = mem.hs
  BY <1>3, <1>7 DEF MemApplySnapshot, IsMemory
<1>9. HardState' = HardState /\ InHand' /\ mem.hs = HardState
  BY <1>1, <1>2 DEF HardState, InHand, Settled
<1> QED
  BY <1>1, <1>7, <1>8, <1>9 DEF Paced

LEMMA RestorePaces ==
  ASSUME Inv, Paced, Restore
  PROVE  Paced'
<1>1. pc = "restore" /\ pc' = "advance" /\ UNCHANGED <<mem, raft, rd>>
  BY DEF Restore, At, InLoop
<1>2. /\ InHand /\ mem.hs = HardState /\ mem.offset = rd.snap.index /\ mem.ents = <<>>
      /\ mem.offset = mem.snap.index
  BY <1>1 DEF Paced
<1>3. PICK i : i = rd.snap.index
  OBVIOUS
<1>4. rd.snap # NoSnapshot /\ rd.snap = raft.snap
  BY <1>1 DEF Inv, InRound
<1>5. raft.committed \in Nat /\ raft.applied \in Nat /\ IsRaft(raft)
  BY Numbers
<1>6. i \in Nat /\ raft.applied < i
  BY <1>3, <1>4, <1>5, LogFacts DEF IsRaft, IsSnapshot, Index
<1>7. LastIndex(mem) = i /\ mem.offset = i
  <2>1. mem.offset = i /\ mem.ents = <<>>
    BY <1>2, <1>3
  <2> QED
    BY ONLY <1>6, <2>1 DEF LastIndex
<1>8. raft.committed = i /\ rd.commits = <<>>
  BY <1>2, <1>3, <1>4 DEF InHand
<1>9. NextApplied = i
  <2>1. Max({raft.applied, i}) = IF raft.applied >= i THEN raft.applied ELSE i
    BY <1>5, <1>6, MaxTwo
  <2> QED
    BY <1>3, <1>5, <1>6, <1>8, <2>1 DEF NextApplied
<1>10. HardState' = HardState /\ InHand' /\ NextApplied' = NextApplied
  BY <1>1, <1>2 DEF HardState, InHand, NextApplied
<1>11. mem.offset <= NextApplied /\ raft.committed <= LastIndex(mem)
  BY ONLY <1>6, <1>7, <1>8, <1>9
<1> QED
  BY <1>1, <1>2, <1>10, <1>11 DEF Paced

LEMMA AdvancePaces ==
  ASSUME Inv, Paced, Advance
  PROVE  Paced'
<1>1. /\ status = "up" /\ pc = "advance" /\ pc' = "ready" /\ UNCHANGED <<file, mem>>
      /\ raft' = [raft EXCEPT !.unst = <<>>, !.snap = NoSnapshot, !.hs = HardState,
                    !.ack = FALSE, !.grants = {},
                    !.applied = IF rd.commits # <<>> THEN Last(rd.commits).index
                                ELSE Max({@, rd.snap.index})]
  BY DEF Advance, At, disk
<1>2. PICK q : q = raft'
  OBVIOUS
<1>3. /\ q.unst = <<>> /\ q.snap = NoSnapshot /\ q.hs = HardState /\ q.applied = NextApplied
      /\ q.committed = raft.committed
  BY <1>1, <1>2 DEF NextApplied, Inv, Shapes, IsRaft
<1>4. /\ mem.offset = mem.snap.index /\ mem.hs = HardState /\ raft.committed <= LastIndex(mem)
      /\ mem.offset <= NextApplied
  BY <1>1 DEF Paced
<1>5. NextApplied \in Nat /\ NextApplied <= raft.committed
  BY <1>1, NextAppliedIs
<1>6. raft.committed \in Nat /\ mem.offset \in Nat /\ LastIndex(mem) \in Nat
  BY Numbers
<1>7. HardState.commit = raft.committed
  BY DEF HardState
<1>8. CommitInLog(mem)
  BY <1>4, <1>5, <1>6, <1>7 DEF CommitInLog
<1>9. LastOf(q, mem) = LastIndex(mem) /\ Follows(q, mem)
  BY <1>3 DEF LastOf, Follows
<1>10. Level(q, mem)
  BY <1>3, <1>4, <1>6, <1>7, <1>8, <1>9 DEF Level
<1> QED
  BY <1>1, <1>2, <1>4, <1>10 DEF Paced


LEMMA RestartPaces ==
  ASSUME Inv, Inv', Restart
  PROVE  Paced'
<1>1. /\ status = "down" /\ Starts(file) /\ mem' = Replay(file) /\ UNCHANGED <<file, pc>>
      /\ IF LastIndex(mem') > 0 THEN raft' = RestartNode(mem') ELSE raft' = StartNode
  BY DEF Restart
<1>2. pc = "ready"
  BY <1>1 DEF Inv, Shapes
<1>3. PICK m : m = Replay(file)
  OBVIOUS
<1>4. IsStored(m, granted) /\ CommitInLog(m)
  BY <1>1, <1>3 DEF Starts, Inv, Stored
<1>5. IsMemory(m) /\ LastIndex(m) \in Nat /\ m.offset \in Nat
  BY <1>4, LogFacts DEF IsStored, IsMemory, Successive, LastIndex
<1>6. Level(raft', m)
  <2>1. CASE LastIndex(m) > 0
    BY <1>1, <1>3, <1>4, <1>5, <2>1, LevelRestart
  <2>2. CASE ~(LastIndex(m) > 0)
    <3>1. LastIndex(m) = 0
      BY <1>5, <2>2
    <3>2. m.hs = NoHardState
      <4> SUFFICES ASSUME m.hs # NoHardState PROVE FALSE
        OBVIOUS
      <4>1. m.hs.commit >= 1 /\ m.hs.commit \in m.offset .. LastIndex(m)
        BY <1>4, <3>1 DEF IsStored, CommitInLog
      <4> QED
        BY <1>5, <3>1, <4>1
    <3> QED
      BY <1>1, <1>3, <1>5, <2>2, <3>1, <3>2, LevelStart
  <2> QED
    BY <2>1, <2>2
<1>7. m.offset = m.snap.index
  BY <1>4 DEF IsStored
<1> QED
  BY <1>1, <1>2, <1>3, <1>6, <1>7 DEF Paced

LEMMA PaceNext == Inv /\ Inv' /\ Pace /\ [Next]_vars => Pace'
<1> SUFFICES ASSUME Inv, Inv', Pace, [Next]_vars PROVE Pace'
  OBVIOUS
<1>1. ASSUME NEW f, Stop(f) PROVE Pace'
  BY <1>1 DEF Stop, Pace
<1>2. ASSUME status = "up", status' = "up", harm \subseteq harm',
             Paced /\ Undisturbed' => Paced'
      PROVE  Pace'
  BY <1>2 DEF Pace, Undisturbed
<1>3. CASE TakeReady
  <2>1. status = "up" /\ status' = "up" /\ harm \subseteq harm'
    BY <1>3 DEF TakeReady, At, InLoop
  <2> QED
    BY <1>2, <1>3, <2>1, TakeReadyPaces
<1>4. CASE WriteRecord
  <2>1. status = "up" /\ status' = "up" /\ harm \subseteq harm'
    BY <1>4 DEF WriteRecord, At, InLoop
  <2>2. pc = "save" /\ UNCHANGED <<pc, rd, mem, raft, HardState, InHand>>
    BY <1>4 DEF WriteRecord, At, InLoop, HardState, InHand
  <2> QED
    BY <1>2, <1>4, <2>1, <2>2 DEF Paced
<1>5. CASE Save
  <2>1. status = "up" /\ status' = "up" /\ harm \subseteq harm'
    BY <1>5 DEF Save, At, InLoop
  <2> QED
    BY <1>2, <1>5, <2>1, SavePaces
<1>6. CASE Send \/ Apply
  <2>1. status = "up" /\ status' = "up" /\ harm \subseteq harm'
    BY <1>6 DEF Send, Apply, At, InLoop
  <2> QED
    BY <1>2, <1>6, <2>1, SendPaces
<1>7. CASE CreateSnapshot
  <2>1. status = "up" /\ status' = "up" /\ harm \subseteq harm'
    BY <1>7 DEF CreateSnapshot, At, InLoop
  <2> QED
    BY <1>2, <1>7, <2>1, CreateSnapshotPaces
<1>8. CASE Compact
  <2>1. status = "up" /\ status' = "up" /\ harm \subseteq harm'
    BY <1>8 DEF Compact, At, InLoop
  <2> QED
    BY <1>2, <1>8, <2>1, CompactPaces
<1>9. CASE Install
  <2>1. status = "up" /\ status' = "up" /\ harm \subseteq harm'
    BY <1>9 DEF Install, At, InLoop
  <2> QED
    BY <1>2, <1>9, <2>1, InstallPaces
<1>10. CASE Restore
  <2>1. status = "up" /\ status' = "up" /\ harm \subseteq harm'
    BY <1>10 DEF Restore, At, InLoop
  <2> QED
    BY <1>2, <1>10, <2>1, RestorePaces
<1>11. CASE Advance
  <2>1. status = "up" /\ status' = "up" /\ harm \subseteq harm'
    BY <1>11 DEF Advance, At, history
  <2> QED
    BY <1>2, <1>11, <2>1, AdvancePaces
<1>12. CASE ReadyPanic \/ SavePanic \/ Crash
  BY <1>1, <1>12 DEF ReadyPanic, SavePanic, Crash
<1>13. CASE Messages
  <2>1. status = "up" /\ pc = "ready"
    <3>1. Receive
      BY <1>13 DEF Messages, RecvEntry, RecvSnapshot, RecvHeartbeat, RecvHeartbeatPanic,
                   HeartbeatCommit, RecvVote
    <3> QED
      BY <3>1 DEF Receive
  <2>2. CASE Undisturbed
    <3>1. Level(raft, mem) /\ mem.offset = mem.snap.index
      BY <2>1, <2>2 DEF Pace, Paced
    <3>2. \/ Stop(file)
          \/ /\ UNCHANGED <<status, disk, pc, rd, harm>> /\ Level(raft', mem)
             /\ status = "up" /\ pc = "ready"
      BY <1>13, <3>1, LevelMessages
    <3>3. CASE Stop(file)
      BY <1>1, <3>3
    <3>4. CASE UNCHANGED <<status, disk, pc, rd, harm>> /\ Level(raft', mem)
      BY <2>1, <3>1, <3>4 DEF Pace, Paced, disk
    <3> QED
      BY <3>2, <3>3, <3>4
  <2>3. CASE ~Undisturbed
    <3>1. harm \subseteq harm'
      BY <1>13, MessagesSpare
    <3> QED
      BY <2>3, <3>1 DEF Pace, Undisturbed
  <2> QED
    BY <2>2, <2>3
<1>14. CASE Restart
  <2>1. Paced' /\ status' = "up"
    BY <1>14, RestartPaces DEF Restart
  <2> QED
    BY <2>1 DEF Pace
<1>15. CASE FailToStart
  BY <1>15 DEF FailToStart, Pace
<1>16. CASE UNCHANGED vars
  <2>1. UNCHANGED <<status, file, mem, raft, pc, rd, todo, harm>>
    BY <1>16 DEF vars
  <2>2. HardState' = HardState /\ InHand' = InHand /\ NextApplied' = NextApplied
    BY <2>1 DEF HardState, InHand, NextApplied
  <2>3. Settled(mem)' = Settled(mem)
    BY <2>1, <2>2 DEF Settled
  <2> QED
    BY <2>1, <2>2, <2>3 DEF Pace, Paced, Undisturbed
<1> QED
  BY <1>3, <1>4, <1>5, <1>6, <1>7, <1>8, <1>9, <1>10, <1>11, <1>12, <1>13, <1>14, <1>15,
     <1>16 DEF Next, ReadyLoop

(* node.go:119-177: at every stage of a round the memory has the hard state *)
(* and the log that etcd/raft counts on, up to what the Ready in hand still *)
(* brings: the commit index is inside the log and the compaction stays      *)
(* behind the applied index, also after a compaction that leaves the file   *)
(* short, unless a Ready mixed a snapshot with entries or a crash cut an    *)
(* install.                                                                 *)
THEOREM Pacing == Spec => []Pace
<1>1. Init => Pace
  BY PaceInit
<1>2. Inv /\ Inv' /\ Pace /\ [Next]_vars => Pace'
  BY PaceNext
<1> QED
  BY <1>1, <1>2, Invariance, PTL DEF Spec

-----------------------------------------------------------------------------
(* What a stopped node leaves.                                              *)

(* The memory between two records, as a restart would find it.              *)
LEMMA StoredMemory ==
  ASSUME Inv, status = "up", Replay(file).ok
  PROVE  /\ IsSeq(file) /\ Iterate(file).ok
         /\ IsMemory(Replay(file)) /\ Replay(file).offset = Replay(file).snap.index
         /\ Replay(file).offset \in Nat
<1>1. Iterate(file).ok /\ IsSeq(file) /\ IsStored(Replay(file), granted)
  BY DEF Inv, Stored, Running
<1> QED
  BY <1>1, LogFacts DEF IsStored, IsMemory

(* A created snapshot is in the memory only, until its record is written.   *)
LEMMA Unrecorded ==
  ASSUME Inv, Mirrored, status = "up", pc = "compact", NEW m, m = Replay(file)
  PROVE  /\ m.ok /\ IsMemory(m) /\ Settled(m) /\ mem = [m EXCEPT !.snap = mem.snap]
         /\ mem.offset = m.offset /\ mem.ents = m.ents /\ mem.hs = m.hs
<1>1. m.ok /\ mem = [m EXCEPT !.snap = mem.snap]
  BY DEF Mirrored, Filed, MemCreateSnapshot
<1>2. IsMemory(m)
  BY <1>1, StoredMemory
<1>3. mem.offset = m.offset /\ mem.ents = m.ents /\ mem.hs = m.hs
  BY <1>1, <1>2 DEF IsMemory
<1>4. LastIndex(m) = LastIndex(mem)
  BY <1>3 DEF LastIndex
<1>5. Settled(mem)
  BY DEF Mirrored, Paced
<1>6. Settled(m)
  BY <1>3, <1>4, <1>5 DEF Settled
<1> QED
  BY <1>1, <1>2, <1>3, <1>6

LEMMA SettledStarts ==
  ASSUME Inv, NEW m, Settled(m), m.offset \in Nat, LastIndex(m) \in Nat, rd.snap = NoSnapshot
  PROVE  CommitInLog(m)
<1>1. raft.committed \in Nat /\ raft.applied \in Nat /\ raft.applied <= raft.committed
  BY Numbers
<1>2. m.hs.commit = raft.committed /\ m.offset <= raft.applied /\ raft.committed <= LastIndex(m)
  BY DEF Settled, HardState
<1> QED
  BY <1>1, <1>2 DEF CommitInLog

(* A received snapshot comes without entries, so as long as a record of its *)
(* Ready is to be written none has been: the file is that of the memory.    *)
LEMMA NothingWritten ==
  ASSUME Paced, pc = "save", rd.snap # NoSnapshot, todo # <<>>, NEW w \in Nat,
         NEW records, records = SaveRecords(rd.ents, rd.hs),
         w <= Len(records), todo = SubSeq(records, w + 1, Len(records))
  PROVE  w <= Len(rd.ents) /\ Partly(w) = mem
<1>1. rd.ents = <<>>
  BY DEF Paced, InHand
<1>2. PICK es, hs : es = rd.ents /\ hs = rd.hs
  OBVIOUS
<1>3. es \in Seq(Entry) /\ Len(es) = 0
  BY <1>1, <1>2
<1>4. Len(records) \in {0, 1}
  <2>1. records = [i \in 1 .. 0 |-> RecordEntry(es[i])]
                    \o IF hs = NoHardState THEN <<>> ELSE <<RecordHardState(hs)>>
    BY <1>2, <1>3 DEF SaveRecords
  <2>2. [i \in 1 .. 0 |-> RecordEntry(es[i])] = <<>>
    OBVIOUS
  <2> QED
    BY <2>1, <2>2
<1>5. w = 0
  <2>1. CASE w # 0
    <3>1. w + 1 > Len(records)
      BY <1>4, <2>1
    <3>2. todo = <<>>
      BY <1>4, <3>1
    <3> QED
      BY <3>2
  <2> QED
    BY <2>1
<1>6. Partly(w) = MemAppend(mem, SubSeq(rd.ents, 1, 0))
  BY <1>1, <1>5 DEF Partly
<1>7. SubSeq(rd.ents, 1, 0) = <<>>
  BY <1>1
<1> QED
  BY <1>1, <1>5, <1>6, <1>7 DEF MemAppend

(* What a node that is stopped leaves behind, a pending install excepted,   *)
(* can be started with.                                                     *)
LEMMA LeavesStartable ==
  ASSUME Inv, Mirrored, status = "up", ~InstallPending
  PROVE  Starts(file)
<1>1. /\ mem.offset \in Nat /\ LastIndex(mem) \in Nat /\ LastOf(raft, mem) \in Nat
      /\ raft.committed \in Nat /\ raft.applied \in Nat /\ raft.applied <= raft.committed
      /\ raft.hs.commit \in Nat /\ IsMemory(mem) /\ mem.ok /\ IsRaft(raft)
  BY Numbers
<1>2. Iterate(file).ok
  BY DEF Inv, Running
<1>3. rd.snap = NoSnapshot \/ pc \in {"ready", "advance"} \/ (pc = "save" /\ todo # <<>>)
  BY DEF InstallPending
<1>4. PICK m : m = Replay(file)
  OBVIOUS
<1>5. m.ok => IsMemory(m)
  BY <1>2, <1>4 DEF Inv, Stored, IsStored
<1>6. IsMemory(m) => m.offset \in Nat /\ LastIndex(m) \in Nat
  BY LogFacts DEF IsMemory, Successive, LastIndex
<1>7. m.ok /\ CommitInLog(m)
  <2>1. CASE pc = "ready"
    BY <1>1, <1>4, <2>1 DEF Mirrored, Paced, Filed, Level
  <2>2. CASE pc = "save"
    <3>1. PICK w \in Nat : Written(w)
      BY <2>2 DEF Mirrored, Filed
    <3>2. m = Partly(w)
      BY <1>4, <3>1 DEF Written
    <3>3. CASE w <= Len(rd.ents)
      <4>1. m = MemAppend(mem, SubSeq(rd.ents, 1, w))
        BY <3>2, <3>3 DEF Partly
      <4> QED
        BY <2>2, <3>3, <4>1, PartFits DEF Mirrored
    <3>4. CASE ~(w <= Len(rd.ents))
      <4>1. m = SaveMemory(mem, rd.ents, rd.hs)
        BY <3>2, <3>4 DEF Partly
      <4>2. m.ok /\ Settled(m)
        BY <2>2, <4>1, WholeFits DEF Mirrored
      <4>3. rd.snap = NoSnapshot
        BY <1>3, <2>2, <3>1, <3>4, NothingWritten DEF Mirrored, Written
      <4> QED
        BY <1>5, <1>6, <2>2, <4>2, <4>3, SettledStarts
    <3> QED
      BY <3>3, <3>4
  <2>3. CASE pc \in {"send", "apply", "snapshot", "install"}
    <3>1. m = mem /\ Settled(mem)
      BY <1>4, <2>3 DEF Mirrored, Paced, Filed
    <3> QED
      BY <1>1, <1>3, <2>3, <3>1, SettledStarts
  <2>4. CASE pc = "compact"
    <3>1. m.ok /\ Settled(m)
      BY <1>4, <2>4, Unrecorded
    <3> QED
      BY <1>3, <1>5, <1>6, <2>4, <3>1, SettledStarts
  <2>5. CASE pc = "restore"
    BY <1>3, <2>5 DEF Inv, InRound
  <2>6. CASE pc = "advance"
    <3>1. /\ m = mem /\ mem.hs = HardState /\ raft.committed <= LastIndex(mem)
          /\ mem.offset <= NextApplied
      BY <1>4, <2>6 DEF Mirrored, Paced, Filed
    <3>2. NextApplied \in Nat /\ NextApplied <= raft.committed
      BY <2>6, NextAppliedIs
    <3>3. mem.hs.commit = raft.committed
      BY <3>1 DEF HardState
    <3> QED
      BY <1>1, <3>1, <3>2, <3>3 DEF CommitInLog
  <2> QED
    BY <2>1, <2>2, <2>3, <2>4, <2>5, <2>6 DEF Inv, Shapes
<1> QED
  BY <1>2, <1>4, <1>7 DEF Starts

LEMMA MirrorStop ==
  ASSUME Inv, Mirror, status = "up", NEW f, Stop(f), f = file \/ ~Iterate(f).ok
  PROVE  Mirror'
<1>1. /\ status' = "down" /\ file' = f
      /\ harm' = harm \cup IF InstallPending THEN {"install"} ELSE {}
  BY DEF Stop
<1>2. ASSUME Iterate(f).ok, harm' = {} PROVE Starts(f)
  <2>1. f = file /\ harm = {} /\ ~InstallPending
    BY <1>1, <1>2
  <2>2. Mirrored
    BY <2>1 DEF Mirror
  <2> QED
    BY <2>1, <2>2, LeavesStartable
<1> QED
  BY <1>1, <1>2 DEF Mirror

-----------------------------------------------------------------------------
(* The file, step by step of a round.                                       *)

LEMMA TakeReadyMirrors ==
  ASSUME Inv, Mirrored, TakeReady
  PROVE  Filed'
<1>1. /\ status = "up" /\ pc = "ready" /\ pc' = "save" /\ rd'.ents = raft.unst
      /\ todo' = SaveRecords(rd'.ents, rd'.hs) /\ UNCHANGED <<file, mem, raft>>
  BY DEF TakeReady, At, InLoop
<1>2. Replay(file) = mem /\ IsRaft(raft)
  BY <1>1 DEF Mirrored, Filed, Inv, Shapes
<1>3. Written(0)'
  <2>1. PICK es : es = rd'.ents
    OBVIOUS
  <2>2. es \in Seq(Entry) /\ Len(es) \in Nat
    BY <1>1, <1>2, <2>1 DEF IsRaft, Successive
  <2>3. PICK records : records = SaveRecords(es, rd'.hs)
    OBVIOUS
  <2>4. IsSeq(records)
    BY <2>2, <2>3, SaveRecordsList
  <2>5. PICK S : records \in Seq(S)
    BY <2>4 DEF IsSeq
  <2>6. SubSeq(records, 0 + 1, Len(records)) = records /\ 0 <= Len(records)
    BY <2>5, SubSeqFull
  <2>7. SubSeq(es, 1, 0) = <<>>
    BY <2>2
  <2>8. MemAppend(mem, <<>>) = mem
    BY DEF MemAppend
  <2>9. Partly(0)' = mem
    <3>1. Partly(0)' = IF 0 <= Len(rd'.ents) THEN MemAppend(mem', SubSeq(rd'.ents, 1, 0))
                       ELSE SaveMemory(mem', rd'.ents, rd'.hs)
      BY DEF Partly
    <3>2. 0 <= Len(es) /\ mem' = mem
      BY <1>1, <2>2
    <3> QED
      BY <2>1, <2>7, <2>8, <3>1, <3>2, Zenon
  <2> QED
    BY <1>1, <1>2, <2>1, <2>3, <2>6, <2>9 DEF Written
<1>4. \E w \in Nat : Written(w)'
  BY <1>3
<1> QED
  BY <1>1, <1>4 DEF Filed

LEMMA WriteRecordMirrors ==
  ASSUME Inv, Mirrored, WriteRecord
  PROVE  Filed'
<1>1. /\ status = "up" /\ pc = "save" /\ todo # <<>>
      /\ file' = WALAppend(file, Head(todo)) /\ todo' = Tail(todo)
      /\ UNCHANGED <<status, raft, mem, pc, rd>>
  BY DEF WriteRecord, At, InLoop
<1>2. PICK es, h, records : es = rd.ents /\ h = rd.hs /\ records = SaveRecords(es, h)
  OBVIOUS
<1>3. PICK first \in Nat :
           /\ Successive(rd.ents, first) /\ Len(rd.ents) \in Nat
           /\ rd.ents # <<>> =>
                /\ mem.offset < first /\ first <= LastIndex(mem) + 1
                /\ raft.hs.commit < first /\ LastOf(raft, mem) = first + Len(rd.ents) - 1
  BY <1>1, Saveable DEF Mirrored
<1>4. es \in Seq(Entry)
  BY <1>2, <1>3 DEF Successive
<1>5. /\ IsSeq(records) /\ Len(records) = Len(es) + (IF h = NoHardState THEN 0 ELSE 1)
      /\ \A i \in 1 .. Len(es) : records[i] = RecordEntry(es[i])
      /\ h # NoHardState => records[Len(es) + 1] = RecordHardState(h)
  <2>1. records = SaveRecords(es, h)
    BY <1>2
  <2> QED
    BY ONLY <1>4, <2>1, SaveRecordsList
<1>6. PICK S : records \in Seq(S)
  BY <1>5 DEF IsSeq
<1>7. PICK n \in Nat, l \in Nat : n = Len(es) /\ l = Len(records)
  BY <1>2, <1>3, <1>6
<1>8. PICK w \in Nat : Written(w)
  BY <1>1 DEF Mirrored, Filed
<1>9. w <= l /\ todo = SubSeq(records, w + 1, l) /\ Replay(file) = Partly(w)
  BY <1>2, <1>7, <1>8 DEF Written
<1>10. w < l
  <2> SUFFICES ASSUME w = l PROVE todo = <<>>
    BY <1>1, <1>9
  <2> QED
    BY <1>6, <1>7, <1>9
<1>11. Head(todo) = records[w + 1] /\ Tail(todo) = SubSeq(records, (w + 1) + 1, l)
  <2>1. w + 1 \in Nat \ {0} /\ w + 1 <= l /\ w + 1 \in 1 .. Len(records) + 1 /\ l \in (w + 1) .. Len(records)
    BY <1>7, <1>10
  <2> QED
    BY <1>6, <1>7, <1>9, <2>1
<1>12. PICK x, m : x = records[w + 1] /\ m = Replay(file)
  OBVIOUS
<1>13. Replay(file') = ReplayRecord(m, x)
  <2>1. IsSeq(file) /\ Iterate(file).ok
    BY <1>1 DEF Inv, Stored, Running
  <2> QED
    BY <1>1, <1>11, <1>12, <2>1, ReplayAppend
<1>14. Replay(file') = IF w + 1 <= n THEN MemAppend(mem, SubSeq(es, 1, w + 1))
                       ELSE SaveMemory(mem, es, h)
  <2>1. w <= n
    BY <1>5, <1>7, <1>10
  <2>2. m = MemAppend(mem, SubSeq(es, 1, w))
    BY <1>2, <1>7, <1>9, <1>12, <2>1 DEF Partly
  <2>3. m.ok
    BY <1>1, <1>2, <1>7, <2>1, <2>2, PartFits DEF Mirrored
  <2>4. CASE w < n
    <3>1. w + 1 \in 1 .. Len(es) /\ w + 1 <= n
      BY <1>7, <2>4
    <3>2. x = RecordEntry(es[w + 1])
      BY <1>5, <1>12, <3>1
    <3>3. ReplayRecord(m, x) = MemAppend(m, <<es[w + 1]>>)
      BY <2>3, <3>2 DEF ReplayRecord, RecordEntry
    <3>4. IsMemory(mem) /\ es # <<>>
      BY <1>7, <2>4 DEF Inv, Shapes
    <3>5. MemAppend(MemAppend(mem, SubSeq(es, 1, w)), <<es[w + 1]>>)
            = MemAppend(mem, SubSeq(es, 1, w + 1))
      BY <1>2, <1>3, <1>7, <2>4, <3>4, AppendOne
    <3> QED
      BY <1>13, <2>2, <3>1, <3>3, <3>5
  <2>5. CASE w = n
    <3>1. h # NoHardState /\ w + 1 = Len(es) + 1
      BY <1>5, <1>7, <1>10, <2>5
    <3>2. x = RecordHardState(h)
      BY <1>5, <1>12, <3>1
    <3>3. ReplayRecord(m, x) = MemSetHardState(m, h)
      BY <2>3, <3>2 DEF ReplayRecord, RecordHardState
    <3>4. SubSeq(es, 1, w) = es
      BY <1>4, <1>7, <2>5, SubSeqFull
    <3>5. SaveMemory(mem, es, h) = MemSetHardState(m, h)
      BY <2>2, <2>3, <3>1, <3>4 DEF SaveMemory
    <3>6. ~(w + 1 <= n)
      BY <2>5
    <3> QED
      BY <1>13, <3>3, <3>5, <3>6
  <2> QED
    BY <2>1, <2>4, <2>5
<1>15. Written(w + 1)'
  <2>1. Partly(w + 1)' = Replay(file')
    BY <1>1, <1>2, <1>7, <1>14 DEF Partly
  <2> QED
    BY <1>1, <1>2, <1>7, <1>10, <1>11, <2>1 DEF Written
<1>16. \E k \in Nat : Written(k)'
  BY <1>15
<1> QED
  BY <1>1, <1>16 DEF Filed

LEMMA SaveMirrors ==
  ASSUME Inv, Mirrored, Save
  PROVE  Filed'
<1>1. /\ status = "up" /\ pc = "save" /\ todo = <<>> /\ pc' = "send"
      /\ mem' = SaveMemory(mem, rd.ents, rd.hs) /\ UNCHANGED <<file, raft, rd>>
  BY DEF Save, At, InLoop
<1>2. PICK es, h, records : es = rd.ents /\ h = rd.hs /\ records = SaveRecords(es, h)
  OBVIOUS
<1>3. PICK first \in Nat : Successive(es, first) /\ Len(es) \in Nat
  BY <1>1, <1>2, Saveable DEF Mirrored
<1>4. es \in Seq(Entry)
  BY <1>3 DEF Successive
<1>5. /\ IsSeq(records) /\ Len(records) = Len(es) + (IF h = NoHardState THEN 0 ELSE 1)
      /\ \A i \in 1 .. Len(es) : records[i] = RecordEntry(es[i])
      /\ h # NoHardState => records[Len(es) + 1] = RecordHardState(h)
  <2>1. records = SaveRecords(es, h)
    BY <1>2
  <2> QED
    BY ONLY <1>4, <2>1, SaveRecordsList
<1>6. PICK S : records \in Seq(S)
  BY <1>5 DEF IsSeq
<1>7. PICK n \in Nat, l \in Nat : n = Len(es) /\ l = Len(records)
  BY <1>3, <1>6
<1>8. PICK w \in Nat : Written(w)
  BY <1>1 DEF Mirrored, Filed
<1>9. w <= l /\ todo = SubSeq(records, w + 1, l) /\ Replay(file) = Partly(w)
  BY <1>2, <1>7, <1>8 DEF Written
<1>10. w = l
  <2> SUFFICES ASSUME w < l PROVE FALSE
    BY <1>9
  <2>1. Len(SubSeq(records, w + 1, l)) = l - w
    BY <1>6, <1>7
  <2> QED
    BY <1>1, <1>9, <2>1
<1>11. Replay(file) = SaveMemory(mem, es, h)
  <2>1. CASE h = NoHardState
    <3>1. w = n
      BY <1>5, <1>7, <1>10, <2>1
    <3>2. SubSeq(es, 1, w) = es
      BY <1>4, <1>7, <3>1, SubSeqFull
    <3>3. Replay(file) = MemAppend(mem, es)
      <4>1. w <= Len(rd.ents)
        BY <1>2, <1>7, <3>1
      <4> QED
        BY <1>2, <1>9, <3>2, <4>1, Zenon DEF Partly
    <3> QED
      BY <2>1, <3>3 DEF SaveMemory
  <2>2. CASE h # NoHardState
    <3>1. ~(w <= n)
      BY <1>5, <1>7, <1>10, <2>2
    <3> QED
      BY <1>2, <1>7, <1>9, <3>1 DEF Partly
  <2> QED
    BY <2>1, <2>2
<1> QED
  BY <1>1, <1>2, <1>11 DEF Filed

LEMMA SendMirrors ==
  ASSUME Inv, Mirrored, Send \/ Apply
  PROVE  Filed'
<1>1. /\ pc \in {"send", "apply"} /\ UNCHANGED <<file, mem>>
      /\ pc' \in {"apply", "snapshot", "install", "advance"}
  BY DEF Send, Apply, At, disk, AfterApply, AfterSnapshot
<1> QED
  BY <1>1 DEF Mirrored, Filed

LEMMA CreateSnapshotMirrors ==
  ASSUME Inv, Mirrored, CreateSnapshot
  PROVE  Filed'
<1>1. PICK s : /\ pc = "snapshot" /\ pc' = "compact" /\ mem' = MemCreateSnapshot(mem, s)
               /\ UNCHANGED file
  BY DEF CreateSnapshot, At
<1>2. Replay(file) = mem /\ IsMemory(mem) /\ mem.ok
  BY <1>1 DEF Mirrored, Filed, Inv, Shapes
<1>3. mem'.snap = s
  BY <1>1, <1>2 DEF MemCreateSnapshot, IsMemory
<1> QED
  BY <1>1, <1>2, <1>3 DEF Filed

LEMMA CompactMirrors ==
  ASSUME Inv, Mirrored, Compact, harm' = {}
  PROVE  Filed'
<1>1. /\ status = "up" /\ pc = "compact" /\ pc' = AfterSnapshot
      /\ file' = WALAppend(file, Head(todo)) /\ mem' = MemCompact(mem, mem.snap.index)
      /\ ~(LastIndex(mem) > mem.snap.index) /\ UNCHANGED <<raft, rd>>
  BY DEF Compact, At, InLoop
<1>2. PICK m, s : m = Replay(file) /\ s = mem.snap
  OBVIOUS
<1>3. /\ InHand /\ m.ok /\ mem = [m EXCEPT !.snap = s]
      /\ m.offset < s.index /\ s.index = Last(rd.commits).index
  <2>1. m.ok /\ mem = [m EXCEPT !.snap = s] /\ mem.offset = m.offset
    BY <1>1, <1>2, Unrecorded
  <2> QED
    BY <1>1, <1>2, <2>1 DEF Mirrored, Paced
<1>4. /\ IsSeq(file) /\ Iterate(file).ok
      /\ IsMemory(m) /\ m.offset = m.snap.index /\ m.offset \in Nat
  BY <1>1, <1>2, <1>3, StoredMemory
<1>5. rd.commits # <<>> /\ IsSnapshot(s) /\ todo = <<RecordSnapshot(s)>>
  BY <1>1, <1>2 DEF Inv, InRound
<1>6. PICK i \in Nat \ {0}, o \in Nat, n \in Nat :
        i = s.index /\ o = m.offset /\ n = Len(m.ents)
  BY <1>4, <1>5, LogFacts DEF IsSnapshot, Index, IsMemory, Successive
<1>7. /\ mem.offset = o /\ mem.ents = m.ents /\ mem.ok = m.ok /\ mem.hs = m.hs
      /\ DOMAIN mem = DOMAIN m
  BY <1>3, <1>4, <1>6 DEF IsMemory
<1>8. o < i /\ o + n <= i
  <2>1. LastIndex(mem) = o + n
    BY <1>6, <1>7 DEF LastIndex
  <2> QED
    BY <1>1, <1>2, <1>3, <1>6, <2>1
<1>9. Replay(file') = [m EXCEPT !.snap = s, !.offset = i, !.ents = <<>>]
  <2>1. PICK x : x = RecordSnapshot(s)
    OBVIOUS
  <2>2. Head(todo) = x
    BY <1>5, <2>1
  <2>3. Replay(file') = ReplayRecord(m, x)
    BY <1>1, <1>2, <1>4, <2>2, ReplayAppend
  <2>4. x.type = "snapshot" /\ x.data = s
    BY <2>1 DEF RecordSnapshot
  <2>5. ~SnapOutOfDate(m, s.index)
    BY <1>4, <1>6, <1>8 DEF SnapOutOfDate
  <2>6. ReplayRecord(m, x) = MemApplySnapshot(m, s)
    BY <1>3, <2>4, <2>5 DEF ReplayRecord
  <2> QED
    BY <1>6, <2>3, <2>6 DEF MemApplySnapshot
<1>10. mem' = [m EXCEPT !.snap = s, !.offset = i, !.ents = <<>>]
  <2>1. SubSeq(mem.ents, i - o + 1, Len(mem.ents)) = <<>>
    <3>1. mem.ents \in Seq(Entry) /\ Len(mem.ents) = n /\ i - o + 1 > n /\ i - o + 1 \in Nat
      BY <1>4, <1>6, <1>7, <1>8 DEF IsMemory, Successive
    <3> QED
      BY <3>1
  <2>2. mem' = [mem EXCEPT !.offset = i, !.ents = <<>>]
    <3>1. mem.snap.index = i /\ mem.offset = o /\ ~(i <= o)
      BY <1>2, <1>6, <1>7, <1>8
    <3> QED
      BY <1>1, <2>1, <3>1, Zenon DEF MemCompact
  <2>3. [mem EXCEPT !.offset = i, !.ents = <<>>] = [m EXCEPT !.snap = s, !.offset = i, !.ents = <<>>]
    BY <1>3, <1>4 DEF IsMemory
  <2> QED
    BY <2>2, <2>3
<1>11. rd.snap = NoSnapshot
  BY <1>3, <1>5 DEF InHand
<1>12. pc' = "advance"
  BY <1>1, <1>11 DEF AfterSnapshot
<1> QED
  BY <1>9, <1>10, <1>12 DEF Filed

LEMMA InstallMirrors ==
  ASSUME Inv, Mirrored, Install
  PROVE  Filed'
<1>1. /\ pc = "install" /\ pc' = "restore" /\ UNCHANGED <<file, raft, rd>>
  BY DEF Install, At, InLoop
<1>2. Settled(mem) /\ Replay(file) = mem /\ mem.ok
  BY <1>1 DEF Mirrored, Paced, Filed, Inv, Shapes
<1>3. mem' = MemApplySnapshot(mem, rd.snap)
  BY InstallPaces DEF Mirrored
<1>4. HardState' = HardState
  BY <1>1 DEF HardState
<1>5. Settled(Replay(file))'
  BY <1>1, <1>2, <1>4 DEF Settled
<1> QED
  BY <1>1, <1>2, <1>3, <1>5 DEF Filed

LEMMA RestoreMirrors ==
  ASSUME Inv, Mirrored, Restore
  PROVE  Filed'
<1>1. /\ status = "up" /\ pc = "restore" /\ pc' = "advance" /\ UNCHANGED <<mem, raft, rd>>
      /\ file' = IF todo = <<>> THEN file ELSE WALAppend(file, Head(todo))
  BY DEF Restore, At, InLoop
<1>2. PICK m, s : m = Replay(file) /\ s = rd.snap
  OBVIOUS
<1>3. /\ InHand /\ todo # <<>> /\ m.ok /\ Settled(m) /\ mem = MemApplySnapshot(m, s)
  BY <1>1, <1>2 DEF Mirrored, Paced, Filed
<1>4. /\ IsSeq(file) /\ Iterate(file).ok
      /\ IsMemory(m) /\ m.offset = m.snap.index /\ m.offset \in Nat
  BY <1>1, <1>2, <1>3, StoredMemory
<1>5. /\ s # NoSnapshot /\ s = raft.snap /\ todo = <<RecordSnapshot(s)>>
      /\ s = rd.snap
  BY <1>1, <1>2, <1>3 DEF Inv, InRound
<1>6. raft.committed \in Nat /\ raft.applied \in Nat /\ IsRaft(raft)
  BY Numbers
<1>7. s.index \in Nat /\ raft.applied < s.index /\ m.offset <= raft.applied
  BY <1>3, <1>5, <1>6, LogFacts DEF IsRaft, IsSnapshot, Index, Settled
<1>8. Replay(file') = mem
  <2>1. PICK x : x = RecordSnapshot(s)
    OBVIOUS
  <2>2. Head(todo) = x
    BY <1>5, <2>1
  <2>3. Replay(file') = ReplayRecord(m, x)
    BY <1>1, <1>2, <1>3, <1>4, <2>2, ReplayAppend
  <2>4. x.type = "snapshot" /\ x.data = s
    BY <2>1 DEF RecordSnapshot
  <2>5. ~SnapOutOfDate(m, s.index)
    BY <1>4, <1>6, <1>7 DEF SnapOutOfDate
  <2>6. ReplayRecord(m, x) = MemApplySnapshot(m, s)
    BY <1>3, <2>4, <2>5 DEF ReplayRecord
  <2> QED
    BY <1>3, <2>3, <2>6
<1> QED
  BY <1>1, <1>8 DEF Filed

LEMMA AdvanceMirrors ==
  ASSUME Mirrored, Advance
  PROVE  Filed'
<1>1. pc = "advance" /\ pc' = "ready" /\ UNCHANGED <<file, mem>>
  BY DEF Advance, At, disk
<1> QED
  BY <1>1 DEF Mirrored, Filed

LEMMA RestartMirrors ==
  ASSUME Inv, Restart
  PROVE  Filed'
<1>1. status = "down" /\ mem' = Replay(file) /\ UNCHANGED <<file, pc>>
  BY DEF Restart
<1>2. pc = "ready"
  BY <1>1 DEF Inv, Shapes
<1> QED
  BY <1>1, <1>2 DEF Filed

LEMMA MirrorNext == Inv /\ Inv' /\ Pace' /\ Mirror /\ [Next]_vars => Mirror'
<1> SUFFICES ASSUME Inv, Inv', Pace', Mirror, [Next]_vars PROVE Mirror'
  OBVIOUS
<1>1. ASSUME NEW f, Stop(f), status = "up", f = file \/ ~Iterate(f).ok PROVE Mirror'
  BY <1>1, MirrorStop
<1>2. ASSUME status = "up", status' = "up", harm \subseteq harm',
             Mirrored /\ harm' = {} => Filed'
      PROVE  Mirror'
  <2>1. status' = "up" /\ harm' = {} => Paced'
    BY DEF Pace, Undisturbed
  <2> QED
    BY <1>2, <2>1 DEF Mirror, Mirrored
<1>3. CASE TakeReady
  <2>1. status = "up" /\ status' = "up" /\ harm \subseteq harm'
    BY <1>3 DEF TakeReady, At, InLoop
  <2> QED
    BY <1>2, <1>3, <2>1, TakeReadyMirrors
<1>4. CASE WriteRecord
  <2>1. status = "up" /\ status' = "up" /\ harm \subseteq harm'
    BY <1>4 DEF WriteRecord, At, InLoop
  <2> QED
    BY <1>2, <1>4, <2>1, WriteRecordMirrors
<1>5. CASE Save
  <2>1. status = "up" /\ status' = "up" /\ harm \subseteq harm'
    BY <1>5 DEF Save, At, InLoop
  <2> QED
    BY <1>2, <1>5, <2>1, SaveMirrors
<1>6. CASE Send \/ Apply
  <2>1. status = "up" /\ status' = "up" /\ harm \subseteq harm'
    BY <1>6 DEF Send, Apply, At, InLoop
  <2> QED
    BY <1>2, <1>6, <2>1, SendMirrors
<1>7. CASE CreateSnapshot
  <2>1. status = "up" /\ status' = "up" /\ harm \subseteq harm'
    BY <1>7 DEF CreateSnapshot, At, InLoop
  <2> QED
    BY <1>2, <1>7, <2>1, CreateSnapshotMirrors
<1>8. CASE Compact
  <2>1. status = "up" /\ status' = "up" /\ harm \subseteq harm'
    BY <1>8 DEF Compact, At, InLoop
  <2> QED
    BY <1>2, <1>8, <2>1, CompactMirrors
<1>9. CASE Install
  <2>1. status = "up" /\ status' = "up" /\ harm \subseteq harm'
    BY <1>9 DEF Install, At, InLoop
  <2> QED
    BY <1>2, <1>9, <2>1, InstallMirrors
<1>10. CASE Restore
  <2>1. status = "up" /\ status' = "up" /\ harm \subseteq harm'
    BY <1>10 DEF Restore, At, InLoop
  <2> QED
    BY <1>2, <1>10, <2>1, RestoreMirrors
<1>11. CASE Advance
  <2>1. status = "up" /\ status' = "up" /\ harm \subseteq harm'
    BY <1>11 DEF Advance, At, history
  <2> QED
    BY <1>2, <1>11, <2>1, AdvanceMirrors
<1>12. CASE ReadyPanic \/ SavePanic
  <2>1. Stop(file) /\ status = "up"
    BY <1>12 DEF ReadyPanic, SavePanic, At
  <2> QED
    BY <1>1, <2>1
<1>13. CASE Crash
  <2>1. PICK n \in 0 .. 2 : Stop(IF n = 0 THEN file ELSE TornAppend(file, Head(todo), n))
    BY <1>13 DEF Crash
  <2>2. status = "up" /\ Iterate(file).ok /\ IsSeq(file)
    BY <1>13 DEF Crash, Inv, Stored, Running
  <2>3. CASE n = 0
    BY <1>1, <2>1, <2>2, <2>3
  <2>4. CASE n # 0
    <3>1. n \in 1 .. 2
      BY <2>4
    <3>2. ~Iterate(TornAppend(file, Head(todo), n)).ok
      BY <2>2, <3>1, TornUnread
    <3> QED
      BY <1>1, <2>1, <2>2, <2>4, <3>2
  <2> QED
    BY <2>3, <2>4
<1>14. CASE Messages
  <2>1. status = "up" /\ pc = "ready"
    <3>1. Receive
      BY <1>14 DEF Messages, RecvEntry, RecvSnapshot, RecvHeartbeat, RecvHeartbeatPanic,
                   HeartbeatCommit, RecvVote
    <3> QED
      BY <3>1 DEF Receive
  <2>2. CASE harm = {}
    <3>1. Mirrored
      BY <2>1, <2>2 DEF Mirror
    <3>2. Level(raft, mem) /\ Replay(file) = mem
      BY <2>1, <3>1 DEF Mirrored, Paced, Filed
    <3>3. \/ Stop(file)
          \/ /\ UNCHANGED <<status, disk, pc, rd, harm>> /\ Level(raft', mem)
             /\ status = "up" /\ pc = "ready"
      BY <1>14, <3>2, LevelMessages
    <3>4. CASE Stop(file)
      BY <1>1, <2>1, <3>4
    <3>5. CASE UNCHANGED <<status, disk, pc, rd, harm>> /\ Level(raft', mem)
      BY <1>2, <2>1, <3>2, <3>5 DEF Filed, disk
    <3> QED
      BY <3>3, <3>4, <3>5
  <2>3. CASE harm # {}
    <3>1. harm \subseteq harm'
      BY <1>14, MessagesSpare
    <3> QED
      BY <2>3, <3>1 DEF Mirror
  <2> QED
    BY <2>2, <2>3
<1>15. CASE Restart
  <2>1. Filed' /\ status' = "up"
    BY <1>15, RestartMirrors DEF Restart
  <2>2. harm' = {} => Paced'
    BY <2>1 DEF Pace, Undisturbed
  <2> QED
    BY <2>1, <2>2 DEF Mirror, Mirrored
<1>16. CASE FailToStart
  <2>1. status = "down" /\ ~Starts(file) /\ UNCHANGED <<file, harm>> /\ status' = "dead"
    BY <1>16 DEF FailToStart, disk, history
  <2> QED
    BY <2>1 DEF Mirror
<1>17. CASE UNCHANGED vars
  <2>1. UNCHANGED <<status, file, mem, raft, pc, rd, todo, harm>>
    BY <1>17 DEF vars
  <2>2. HardState' = HardState
    BY <2>1 DEF HardState
  <2>3. \A w : Written(w)' = Written(w)
    BY <2>1 DEF Written, Partly
  <2>4. \A m : Settled(m)' = Settled(m)
    BY <2>1, <2>2 DEF Settled
  <2>5. Filed' = Filed
    BY <2>1, <2>3, <2>4 DEF Filed
  <2>6. status' = "up" /\ harm' = {} => Paced'
    BY DEF Pace, Undisturbed
  <2> QED
    BY <2>1, <2>5, <2>6 DEF Mirror, Mirrored
<1> QED
  BY <1>3, <1>4, <1>5, <1>6, <1>7, <1>8, <1>9, <1>10, <1>11, <1>12, <1>13, <1>14, <1>15,
     <1>16, <1>17 DEF Next, ReadyLoop

(* storage.go:76-157, node.go:119-177: at every stage of a round the replay *)
(* of the file is the memory up to the records that are still to be         *)
(* written, and a stopped node leaves a file it can start from, as long as  *)
(* the file can be read and none of the recorded harms happened.            *)
THEOREM Mirroring == Spec => []Mirror
<1>1. Init => Mirror
  BY MirrorInit
<1>2. Inv /\ Inv' /\ Pace' /\ Mirror /\ [Next]_vars => Mirror'
  BY MirrorNext
<1> QED
  BY <1>1, <1>2, Invariance, Pacing, PTL DEF Spec

(* storage.go:17-63: between two rounds of the loop a restart would find    *)
(* exactly the storage the node runs with, as long as none of the recorded  *)
(* harms happened.                                                          *)
THEOREM RestartFindsAll == Spec => []ReplayFaithful
<1>1. Mirror => ReplayFaithful
  BY DEF Mirror, Mirrored, Paced, Filed, ReplayFaithful, At, Sound
<1> QED
  BY <1>1, Mirroring, PTL

(* storage.go:53,135,152, wal.go:82: a node that cannot start any more has  *)
(* a torn record in its file or suffered one of the recorded harms.         *)
THEOREM DeadForAReason == Spec => []DeadOnlyIf
<1>1. Mirror => DeadOnlyIf
  BY DEF Mirror, DeadOnlyIf
<1> QED
  BY <1>1, Mirroring, PTL
-----------------------------------------------------------------------------
(* The log, and what was acknowledged of it.                                *)

(* The log etcd/raft sees, and the one a memory stands for: the compacted   *)
(* part is the group's.                                                     *)
View(r, m) == [i \in 1 .. LastOf(r, m) |-> EntryAt(r, m, i)]
Held(m) ==
  [i \in 1 .. LastIndex(m) |-> IF i <= m.offset THEN GroupLog[i] ELSE m.ents[i - m.offset]]

(* A log that some leader has, or a prefix of it.                           *)
OneLine(log) ==
  \E u \in Term : /\ Len(log) <= Len(LeaderLog[u])
                  /\ \A i \in 1 .. Len(log) : log[i] = LeaderLog[u][i]

(* A log of a leader, as far as it goes the group's up to c, and with what  *)
(* was acknowledged.                                                        *)
Agrees(log, c, acked) ==
  /\ OneLine(log)
  /\ \A i \in 1 .. Len(log) : i <= c => log[i] = GroupLog[i]
  /\ \A i \in 1 .. Len(log) : i <= Len(acked) => log[i] = acked[i]

(* Until the Save the memory has the log of the last round.  After it the   *)
(* memory has the log that etcd/raft sees, but for a snapshot that is not   *)
(* installed.                                                               *)
AgreedInRound ==
  /\ Agrees(View(raft, mem), raft.committed, promise.log)
  /\ pc \in {"ready", "save"} => Agrees(Held(mem), raft.hs.commit, promise.log)
  /\ pc \notin {"ready", "save"} /\ (rd.snap = NoSnapshot \/ pc \in {"restore", "advance"}) =>
       Held(mem) = View(raft, mem)

FileAgrees(f) ==
  Iterate(f).ok /\ Replay(f).ok =>
    Agrees(Held(Replay(f)), Replay(f).hs.commit, promise.log)

Agreed ==
  /\ DOMAIN promise = {"log", "term"} /\ IsSeq(promise.log)
  /\ Undisturbed => OneLine(promise.log)
  /\ status = "up" /\ Undisturbed => AgreedInRound
  /\ status # "up" /\ Undisturbed => FileAgrees(file)

LEMMA FunctionSeq ==
  ASSUME NEW n \in Nat, NEW s, DOMAIN s = 1 .. n, s = [i \in 1 .. n |-> s[i]]
  PROVE  IsSeq(s) /\ Len(s) = n
<1> DEFINE S == {s[i] : i \in 1 .. n}
<1>1. \A i \in 1 .. n : s[i] \in S
  OBVIOUS
<1> HIDE DEF S
<1>2. s \in [1 .. n -> S]
  BY <1>1
<1>3. s \in Seq(S) /\ Len(s) = n
  BY <1>2
<1> QED
  BY <1>3 DEF IsSeq

LEMMA ViewIs ==
  ASSUME NEW r, IsRaft(r), NEW m, IsMemory(m)
  PROVE  /\ LastOf(r, m) \in Nat /\ IsSeq(View(r, m)) /\ Len(View(r, m)) = LastOf(r, m)
         /\ \A i \in 1 .. LastOf(r, m) : View(r, m)[i] = EntryAt(r, m, i)
<1>1. PICK n \in Nat : n = LastOf(r, m)
  BY LastOfIs
<1>2. PICK s : s = View(r, m)
  OBVIOUS
<1>3. s = [i \in 1 .. n |-> EntryAt(r, m, i)]
  BY <1>1, <1>2 DEF View
<1>4. DOMAIN s = 1 .. n /\ s = [i \in 1 .. n |-> s[i]] /\ \A i \in 1 .. n : s[i] = EntryAt(r, m, i)
  BY <1>3
<1>5. IsSeq(s) /\ Len(s) = n
  BY <1>4, FunctionSeq
<1> QED
  BY <1>1, <1>2, <1>4, <1>5

LEMMA HeldIs ==
  ASSUME NEW m, IsMemory(m)
  PROVE  /\ LastIndex(m) \in Nat /\ IsSeq(Held(m)) /\ Len(Held(m)) = LastIndex(m)
         /\ m.offset \in Nat /\ m.offset <= LastIndex(m) /\ m.offset <= Len(GroupLog)
         /\ \A i \in 1 .. LastIndex(m) :
              Held(m)[i] = IF i <= m.offset THEN GroupLog[i] ELSE m.ents[i - m.offset]
<1>1. /\ m.offset \in Nat /\ LastIndex(m) \in Nat /\ m.offset <= LastIndex(m)
      /\ m.offset <= Len(GroupLog)
  BY LogFacts DEF IsMemory, Successive, LastIndex
<1>2. PICK n \in Nat : n = LastIndex(m)
  BY <1>1
<1>3. PICK s : s = Held(m)
  OBVIOUS
<1>4. s = [i \in 1 .. n |-> IF i <= m.offset THEN GroupLog[i] ELSE m.ents[i - m.offset]]
  BY <1>2, <1>3 DEF Held
<1>5. /\ DOMAIN s = 1 .. n /\ s = [i \in 1 .. n |-> s[i]]
      /\ \A i \in 1 .. n : s[i] = IF i <= m.offset THEN GroupLog[i] ELSE m.ents[i - m.offset]
  BY <1>4
<1>6. IsSeq(s) /\ Len(s) = n
  BY <1>5, FunctionSeq
<1> QED
  BY <1>1, <1>2, <1>3, <1>5, <1>6

(* Logs of the same length with the same entries.                           *)
LEMMA SameHeld ==
  ASSUME NEW r, IsRaft(r), NEW m, IsMemory(m), NEW h, IsMemory(h),
         LastIndex(h) = LastOf(r, m),
         \A i \in 1 .. LastOf(r, m) : Held(h)[i] = View(r, m)[i]
  PROVE  Held(h) = View(r, m)
<1>1. PICK n \in Nat : n = LastOf(r, m)
  BY LastOfIs
<1>2. PICK f, g : f = Held(h) /\ g = View(r, m)
  OBVIOUS
<1>3. f = [i \in 1 .. n |-> f[i]] /\ g = [i \in 1 .. n |-> g[i]]
  BY <1>1, <1>2 DEF Held, View
<1>4. \A i \in 1 .. n : f[i] = g[i]
  BY <1>1, <1>2
<1> QED
  BY <1>2, <1>3, <1>4

LEMMA SameView ==
  ASSUME NEW r, NEW m, NEW q, NEW h, LastOf(q, h) = LastOf(r, m),
         \A i \in 1 .. LastOf(r, m) : EntryAt(q, h, i) = EntryAt(r, m, i)
  PROVE  View(q, h) = View(r, m)
BY DEF View

(* With nothing unstable, and with a snapshot that is not installed.        *)
LEMMA ViewStable ==
  ASSUME NEW r, r.unst = <<>>, r.snap = NoSnapshot, NEW m, IsMemory(m)
  PROVE  View(r, m) = Held(m)
<1>1. LastOf(r, m) = LastIndex(m) /\ FirstOf(r, m) = 1 + m.offset
  BY DEF LastOf, FirstOf
<1>2. m.offset \in Nat /\ LastIndex(m) \in Nat
  BY HeldIs
<1>3. \A i \in 1 .. LastIndex(m) :
        EntryAt(r, m, i) = IF i <= m.offset THEN GroupLog[i] ELSE m.ents[i - m.offset]
  BY <1>1, <1>2 DEF EntryAt
<1> QED
  BY <1>1, <1>3 DEF View, Held

LEMMA ViewSnapshot ==
  ASSUME NEW r, r.unst = <<>>, r.snap # NoSnapshot, r.snap.index \in Nat, NEW m
  PROVE  View(r, m) = [i \in 1 .. r.snap.index |-> GroupLog[i]]
<1>1. LastOf(r, m) = r.snap.index /\ FirstOf(r, m) = 1 + r.snap.index
  BY DEF LastOf, FirstOf
<1>2. \A i \in 1 .. r.snap.index : EntryAt(r, m, i) = GroupLog[i]
  BY <1>1 DEF EntryAt
<1> QED
  BY <1>1, <1>2 DEF View

LEMMA HeldCompacted ==
  ASSUME NEW m, m.ents = <<>>, m.offset \in Nat
  PROVE  LastIndex(m) = m.offset /\ Held(m) = [i \in 1 .. m.offset |-> GroupLog[i]]
<1>1. LastIndex(m) = m.offset
  BY DEF LastIndex
<1> QED
  BY <1>1 DEF Held

(* The leaders' logs.                                                       *)
LEMMA SameLine ==
  ASSUME NEW log, OneLine(log), Len(log) \in Nat, NEW t \in Term, NEW i \in Index,
         i <= Len(log), i <= Len(LeaderLog[t]), log[i] = LeaderLog[t][i]
  PROVE  \A j \in 1 .. i : log[j] = LeaderLog[t][j]
<1>1. PICK u \in Term : /\ Len(log) <= Len(LeaderLog[u])
                        /\ \A j \in 1 .. Len(log) : log[j] = LeaderLog[u][j]
  BY DEF OneLine
<1>2. i \in Nat \ {0} /\ Len(LeaderLog[u]) \in Nat
  BY LogFacts DEF Index
<1>3. i <= Len(LeaderLog[u]) /\ LeaderLog[u][i] = LeaderLog[t][i]
  BY <1>1, <1>2
<1>4. \A j \in 1 .. i : LeaderLog[u][j] = LeaderLog[t][j]
  BY <1>3, LogMatching
<1>5. \A j \in 1 .. i : j \in 1 .. Len(log)
  BY <1>2
<1> QED
  BY <1>1, <1>4, <1>5

LEMMA CommittableIs ==
  ASSUME NEW t \in Term, NEW c \in Committable(t)
  PROVE  /\ c \in Index /\ c \in Nat \ {0} /\ c <= Len(LeaderLog[t]) /\ c <= Len(GroupLog)
         /\ \A j \in 1 .. c : LeaderLog[t][j] = GroupLog[j]
<1>1. /\ c \in Index /\ c <= Len(LeaderLog[t])
      /\ SubSeq(LeaderLog[t], 1, c) = SubSeq(GroupLog, 1, c)
  BY DEF Committable
<1>2. c \in Nat \ {0} /\ c <= Len(GroupLog)
  BY <1>1, LogFacts DEF Index
<1>3. LeaderLog[t] \in Seq(Entry) /\ GroupLog \in Seq(Entry)
  BY LogFacts
<1>4. ASSUME NEW s \in Seq(Entry), c <= Len(s)
      PROVE  \A j \in 1 .. c : SubSeq(s, 1, c)[j] = s[j]
  BY <1>2, <1>4
<1> QED
  BY <1>1, <1>2, <1>3, <1>4

LEMMA GroupLine ==
  ASSUME NEW log, Len(log) \in Nat, Len(log) <= Len(GroupLog),
         \A i \in 1 .. Len(log) : log[i] = GroupLog[i]
  PROVE  OneLine(log)
BY LogFacts DEF OneLine, GroupLog

LEMMA LineShorter ==
  ASSUME NEW log, OneLine(log), Len(log) \in Nat, NEW part, Len(part) \in Nat,
         Len(part) <= Len(log), \A i \in 1 .. Len(part) : part[i] = log[i]
  PROVE  OneLine(part)
<1>1. PICK u \in Term : /\ Len(log) <= Len(LeaderLog[u])
                        /\ \A i \in 1 .. Len(log) : log[i] = LeaderLog[u][i]
  BY DEF OneLine
<1>2. Len(LeaderLog[u]) \in Nat
  BY LogFacts
<1>3. Len(part) <= Len(LeaderLog[u]) /\ \A i \in 1 .. Len(part) : part[i] = LeaderLog[u][i]
  BY <1>1, <1>2
<1> QED
  BY <1>3 DEF OneLine

(* A shorter log, with a smaller commit index and less acknowledged.        *)
LEMMA AgreesShorter ==
  ASSUME NEW log, NEW c \in Nat, NEW acked, Agrees(log, c, acked), Len(log) \in Nat,
         NEW part, Len(part) \in Nat, Len(part) <= Len(log),
         \A i \in 1 .. Len(part) : part[i] = log[i],
         NEW k \in Nat, k <= c,
         NEW a, Len(a) \in Nat, Len(acked) \in Nat, Len(a) <= Len(acked),
         \A i \in 1 .. Len(a) : a[i] = acked[i]
  PROVE  Agrees(part, k, a)
<1>1. OneLine(part)
  BY LineShorter DEF Agrees
<1>2. ASSUME NEW i \in 1 .. Len(part), i <= k PROVE part[i] = GroupLog[i]
  <2>1. i \in 1 .. Len(log) /\ i <= c
    BY <1>2
  <2> QED
    BY <2>1 DEF Agrees
<1>3. ASSUME NEW i \in 1 .. Len(part), i <= Len(a) PROVE part[i] = a[i]
  <2>1. i \in 1 .. Len(log) /\ i <= Len(acked) /\ i \in 1 .. Len(a)
    BY <1>3
  <2> QED
    BY <2>1 DEF Agrees
<1> QED
  BY <1>1, <1>2, <1>3 DEF Agrees

-----------------------------------------------------------------------------
(* Messages.                                                                *)

(* u has e, and before it what es has.                                      *)
Spliced(es, e, u) ==
  /\ u[e.index - u[1].index + 1] = e /\ e.index >= u[1].index
  /\ \A j \in Nat \ {0} : j < e.index =>
       IF j >= u[1].index
       THEN /\ es # <<>> /\ j >= es[1].index
            /\ u[j - u[1].index + 1] = es[j - es[1].index + 1]
       ELSE ~(es # <<>> /\ j >= es[1].index)

LEMMA ReplacedAt ==
  ASSUME NEW es, Successive(es, es[1].index), NEW e \in Entry,
         es # <<>> => e.index <= es[1].index + Len(es),
         NEW u, u = Before(es, e.index) \o <<e>>
  PROVE  Spliced(es, e, u)
<1>1. PICK i \in Nat \ {0} : i = e.index
  BY LogFacts
<1>2. /\ u # <<>> /\ Successive(u, u[1].index)
      /\ u[1].index = IF es # <<>> /\ es[1].index < e.index THEN es[1].index ELSE e.index
  BY Replaced
<1>3. PICK p, one : p = Before(es, i) /\ one = <<e>>
  OBVIOUS
<1>4. u = p \o one
  BY <1>1, <1>3, Zenon
<1>5. one \in Seq(Entry) /\ Len(one) = 1 /\ one[1] = e
  BY ONLY <1>3, e \in Entry
<1>6. es \in Seq(Entry) /\ (es # <<>> => es[1] \in Entry /\ Len(es) \in Nat)
  BY ONLY Successive(es, es[1].index) DEF Successive
<1>7. CASE ~(es # <<>> /\ es[1].index < i)
  <2>1. es # <<>> => es[1].index \in Nat \ {0} /\ ~(es[1].index < i)
    BY <1>6, <1>7, LogFacts
  <2>2. p = <<>>
    <3>1. CASE es = <<>>
      BY ONLY <1>3, <3>1 DEF Before
    <3>2. CASE es # <<>>
      <4>1. PICK first \in Nat \ {0} : first = es[1].index
        BY <2>1, <3>2
      <4>2. i - first \in Int /\ i - first < 1
        BY <2>1, <3>2, <4>1
      <4>3. p = SubSeq(es, 1, i - first)
        BY ONLY <1>3, <3>2, <4>1 DEF Before
      <4> QED
        BY ONLY <1>6, <4>2, <4>3
    <3> QED
      BY <3>1, <3>2
  <2>3. u = one
    BY ONLY <1>4, <1>5, <2>2
  <2>4. u[1].index = i
    BY <1>1, <1>2, <1>7, Zenon
  <2>5. u[i - i + 1] = e
    BY ONLY <1>5, <2>3, i \in Nat \ {0}
  <2>6. ASSUME NEW j \in Nat \ {0}, j < i
        PROVE  ~(j >= i) /\ ~(es # <<>> /\ j >= es[1].index)
    BY <2>1, <2>6
  <2>7. i >= i
    OBVIOUS
  <2> QED
    BY ONLY <1>1, <2>4, <2>5, <2>6, <2>7 DEF Spliced
<1>8. CASE es # <<>> /\ es[1].index < i
  <2>1. PICK first \in Nat \ {0} : first = es[1].index /\ first < i
    BY <1>6, <1>8, LogFacts
  <2>2. PICK k \in Nat \ {0} : k = i - first /\ k <= Len(es)
    BY <1>1, <1>6, <1>8, <2>1
  <2>3. p = SubSeq(es, 1, k)
    BY ONLY <1>3, <1>8, <2>1, <2>2 DEF Before
  <2>4. p \in Seq(Entry) /\ Len(p) = k /\ \A j \in 1 .. k : p[j] = es[j]
    BY ONLY <1>6, <1>8, <2>2, <2>3, k \in Nat \ {0}
  <2>5. u[k + 1] = e /\ \A j \in 1 .. k : u[j] = es[j]
    <3>1. /\ p \o one \in Seq(Entry)
          /\ Len(p \o one) = Len(p) + Len(one)
          /\ \A j \in 1 .. Len(p) + Len(one) :
               (p \o one)[j] = IF j <= Len(p) THEN p[j] ELSE one[j - Len(p)]
      BY <1>5, <2>4, ConcatProperties
    <3>2. k + 1 \in 1 .. k + 1 /\ ~(k + 1 <= k) /\ (k + 1) - k = 1
      BY ONLY k \in Nat \ {0}
    <3>3. u[k + 1] = e
      BY ONLY <1>4, <1>5, <2>4, <3>1, <3>2
    <3>4. \A j \in 1 .. k : j \in 1 .. k + 1 /\ j <= k
      BY ONLY k \in Nat \ {0}
    <3>5. \A j \in 1 .. k : u[j] = es[j]
      BY ONLY <1>4, <1>5, <2>4, <3>1, <3>4
    <3> QED
      BY <3>3, <3>5
  <2>6. u[1].index = first
    BY <1>1, <1>2, <1>8, <2>1, Zenon
  <2>7. u[i - first + 1] = e /\ i >= first
    <3>1. i - first + 1 = k + 1 /\ i >= first
      BY ONLY <2>1, <2>2, first \in Nat \ {0}, i \in Nat \ {0}, k \in Nat \ {0}
    <3> QED
      BY <2>5, <3>1
  <2>8. ASSUME NEW j \in Nat \ {0}, j < i, j >= first
        PROVE  u[j - first + 1] = es[j - first + 1]
    <3>1. j - first + 1 \in 1 .. k
      BY ONLY <2>2, <2>8, first \in Nat \ {0}, i \in Nat \ {0}, k \in Nat \ {0}, j \in Nat \ {0}
    <3> QED
      BY <2>5, <3>1
  <2> QED
    BY ONLY <1>1, <1>8, <2>1, <2>6, <2>7, <2>8 DEF Spliced
<1> QED
  BY <1>7, <1>8

(* The log agrees with a leader's up to an entry that matches it.           *)
LEMMA MatchesLine ==
  ASSUME Inv, OneLine(View(raft, mem)), NEW t \in Term, NEW i \in Index,
         i <= Len(LeaderLog[t]), Matches(t, i)
  PROVE  i <= LastOf(raft, mem) /\ \A j \in 1 .. i : View(raft, mem)[j] = LeaderLog[t][j]
<1>1. /\ LastOf(raft, mem) \in Nat /\ IsSeq(View(raft, mem))
      /\ Len(View(raft, mem)) = LastOf(raft, mem)
      /\ \A j \in 1 .. LastOf(raft, mem) : View(raft, mem)[j] = EntryAt(raft, mem, j)
  BY ViewIs DEF Inv, Shapes
<1>2. i \in Nat \ {0}
  BY LogFacts DEF Index
<1>3. i <= LastOf(raft, mem) /\ EntryAt(raft, mem, i) = LeaderLog[t][i]
  BY <1>2 DEF Matches
<1>4. View(raft, mem)[i] = LeaderLog[t][i]
  BY <1>1, <1>2, <1>3
<1>5. \A j \in 1 .. i : View(raft, mem)[j] = LeaderLog[t][j]
  BY <1>1, <1>3, <1>4, SameLine
<1> QED
  BY <1>3, <1>5

(* What the state between two rounds is, after a message.                   *)
LEMMA AgreedReady ==
  ASSUME Inv, Agreed, AgreedInRound, pc = "ready", NEW v, v.hs = raft.hs, NEW p,
         IsSeq(p.log), Len(p.log) <= Len(promise.log),
         \A i \in 1 .. Len(p.log) : p.log[i] = promise.log[i],
         Agrees(View(v, mem), v.committed, p.log),
         raft' = v, promise' = p, UNCHANGED <<mem, rd, pc>>
  PROVE  AgreedInRound'
<1>1. Agrees(Held(mem), raft.hs.commit, promise.log)
  BY DEF AgreedInRound
<1>2. /\ LastIndex(mem) \in Nat /\ Len(Held(mem)) = LastIndex(mem)
      /\ raft.hs.commit \in Nat
  BY Numbers, HeldIs
<1>3. PICK log : log = Held(mem) /\ Len(log) \in Nat
  BY <1>2
<1>4. PICK a, b : a = p.log /\ b = promise.log /\ Len(a) \in Nat /\ Len(b) \in Nat
  BY DEF Agreed, IsSeq
<1>5. Agrees(log, raft.hs.commit, b)
  BY <1>1, <1>3, <1>4
<1>6. Len(a) <= Len(b) /\ \A i \in 1 .. Len(a) : a[i] = b[i]
  BY <1>4
<1>7. Agrees(log, raft.hs.commit, a)
  <2>1. Len(log) <= Len(log) /\ raft.hs.commit <= raft.hs.commit
    BY <1>2, <1>3
  <2> QED
    BY <1>2, <1>3, <1>4, <1>5, <1>6, <2>1, AgreesShorter
<1>8. Held(mem)' = Held(mem) /\ View(raft, mem)' = View(v, mem)
  OBVIOUS
<1> QED
  BY <1>3, <1>4, <1>7, <1>8 DEF AgreedInRound

LEMMA EntryAgreed ==
  ASSUME Inv, Agreed, Undisturbed, AgreedInRound, pc = "ready",
         NEW t \in Term, NEW i \in Index, NEW c \in {0, i}, RecvEntry(t, i, c)
  PROVE  AgreedInRound' /\ OneLine(promise'.log)
<1> DEFINE e == LeaderLog[t][i]
           r == AtTerm(t)
           a == IF Matches(t, i) THEN r ELSE [r EXCEPT !.unst = Before(@, i) \o <<e>>]
           v == [a EXCEPT !.committed = Max({@, c}), !.ack = TRUE]
           l == IF Matches(t, i) THEN promise.log
                ELSE SubSeq(promise.log, 1, Min({Len(promise.log), i - 1}))
           p == [promise EXCEPT !.log = l]
<1>1. /\ Receive /\ t >= raft.term /\ i <= Len(LeaderLog[t]) /\ i > raft.committed
      /\ Matches(t, i - 1) /\ Received(v) /\ promise' = p
      /\ c = i => i \in Committable(t)
  BY DEF RecvEntry
<1>2. /\ mem.offset \in Nat /\ LastIndex(mem) \in Nat /\ LastOf(raft, mem) \in Nat
      /\ raft.committed \in Nat /\ raft.applied \in Nat /\ raft.applied <= raft.committed
      /\ raft.hs.commit \in Nat /\ IsMemory(mem) /\ mem.ok /\ IsRaft(raft)
  BY Numbers
<1>3. /\ IsRaft(r) /\ r.unst = raft.unst /\ r.snap = raft.snap
      /\ r.committed = raft.committed /\ r.applied = raft.applied /\ r.hs = raft.hs
  BY <1>1, <1>2, AtTermIs
<1>4. i \in Nat \ {0} /\ c \in Nat /\ c <= i
  BY LogFacts DEF Index
<1>5. e \in Entry /\ e.index = i
  <2>1. LeaderLog[t] \in Seq(Entry) /\ i \in 1 .. Len(LeaderLog[t])
    BY <1>1, <1>4, LogFacts
  <2> QED
    BY <2>1, LeaderLogs
<1>6. PICK u : u = a.unst
  OBVIOUS
<1> HIDE DEF r
<1>7. /\ DOMAIN a = DOMAIN r /\ a.snap = r.snap
      /\ a.committed = r.committed /\ a.hs = r.hs
      /\ IF Matches(t, i) THEN u = r.unst ELSE u = Before(r.unst, i) \o <<e>>
  BY <1>3, <1>6 DEF IsRaft
<1> HIDE DEF a
<1>8. PICK k : k = Max({r.committed, c})
  OBVIOUS
<1>9. v.unst = u /\ v.snap = raft.snap /\ v.committed = k /\ v.hs = raft.hs
  BY <1>3, <1>6, <1>7, <1>8 DEF IsRaft
<1>10. raft' = v /\ UNCHANGED <<mem, rd, pc>>
  BY <1>1 DEF Received, disk
<1> HIDE DEF v
<1>11. k \in Nat /\ k = IF raft.committed >= c THEN raft.committed ELSE c
  <2>1. k = IF raft.committed >= c THEN raft.committed ELSE c
    BY <1>2, <1>3, <1>4, <1>8, MaxTwo
  <2> QED
    BY <1>2, <1>4, <2>1
<1>12. PICK log, q : log = View(raft, mem) /\ q = promise.log
  OBVIOUS
<1>13. /\ Len(log) = LastOf(raft, mem) /\ Len(log) \in Nat
       /\ \A j \in 1 .. Len(log) : log[j] = EntryAt(raft, mem, j)
  <2>1. /\ LastOf(raft, mem) \in Nat /\ IsSeq(View(raft, mem))
        /\ Len(View(raft, mem)) = LastOf(raft, mem)
        /\ \A j \in 1 .. LastOf(raft, mem) : View(raft, mem)[j] = EntryAt(raft, mem, j)
    BY <1>2, ViewIs
  <2> QED
    BY <1>12, <2>1
<1>14. Agrees(log, raft.committed, q)
  BY <1>12 DEF AgreedInRound
<1>15. DOMAIN promise = {"log", "term"} /\ IsSeq(q) /\ Len(q) \in Nat
  BY <1>12 DEF Agreed, IsSeq
<1>16. DOMAIN p = {"log", "term"} /\ p.log = l /\ p.term = promise.term
  BY <1>15
<1> HIDE DEF p
<1>17. c = i => \A j \in 1 .. i : LeaderLog[t][j] = GroupLog[j]
  BY <1>1, CommittableIs
<1>18. OneLine(log)
  BY <1>14 DEF Agrees
<1>19. OneLine(q)
  BY <1>12 DEF Agreed
<1>20. CASE Matches(t, i)
  <2>1. l = q /\ u = raft.unst
    BY <1>3, <1>7, <1>12, <1>20
  <2>2. i <= LastOf(raft, mem) /\ \A j \in 1 .. i : log[j] = LeaderLog[t][j]
    BY <1>1, <1>12, <1>18, <1>20, MatchesLine
  <2>3. \A j \in 1 .. Len(log) : j <= k => log[j] = GroupLog[j]
    <3>1. CASE k = raft.committed
      BY <1>14, <3>1 DEF Agrees
    <3>2. CASE k # raft.committed
      <4>1. k = i /\ c = i
        BY <1>2, <1>4, <1>11, <3>2
      <4>2. \A j \in 1 .. Len(log) : j <= k => j \in 1 .. i
        BY <1>4, <1>13, <4>1
      <4> QED
        BY <1>17, <2>2, <4>1, <4>2
    <3> QED
      BY <3>1, <3>2
  <2>5. Agrees(log, k, q)
    BY <1>14, <2>3 DEF Agrees
  <2>6. View(v, mem) = log
    <3>1. LastOf(v, mem) = LastOf(raft, mem)
      BY <1>9, <2>1 DEF LastOf
    <3>2. \A j \in 1 .. LastOf(raft, mem) : EntryAt(v, mem, j) = EntryAt(raft, mem, j)
      BY <1>9, <2>1 DEF EntryAt, FirstOf
    <3> QED
      BY <1>12, <3>1, <3>2, SameView
  <2>8. p.log = promise.log
    BY <1>12, <1>16, <2>1
  <2>9. Agrees(View(v, mem), v.committed, p.log) /\ Len(p.log) \in Nat /\ IsSeq(p.log)
    BY <1>9, <1>12, <1>15, <2>5, <2>6, <2>8
  <2>10. Len(p.log) <= Len(promise.log) /\ \A j \in 1 .. Len(p.log) : p.log[j] = promise.log[j]
    BY <2>8, <2>9
  <2>12. AgreedInRound'
    BY <1>1, <1>9, <1>10, <1>16, <2>9, <2>10, AgreedReady
  <2>13. OneLine(promise'.log)
    BY <1>1, <1>12, <1>19, <2>8
  <2> QED
    BY <2>12, <2>13
<1>21. CASE ~Matches(t, i)
  <2>1. PICK n \in Nat : n = IF Len(q) <= i - 1 THEN Len(q) ELSE i - 1
    BY <1>4, <1>15
  <2>2. l = SubSeq(q, 1, n) /\ n <= Len(q) /\ n < i
    <3>1. Min({Len(q), i - 1}) = n
      BY <1>4, <1>15, <2>1, MinTwo
    <3>2. l = SubSeq(q, 1, n)
      BY <1>12, <1>21, <3>1, Zenon
    <3>3. n <= Len(q) /\ n < i
      BY <1>4, <1>15, <2>1
    <3> QED
      BY <3>2, <3>3, Zenon
  <2> HIDE DEF l
  <2>3. IsSeq(l) /\ Len(l) = n /\ \A j \in 1 .. n : l[j] = q[j]
    <3>1. PICK S : q \in Seq(S)
      BY <1>15 DEF IsSeq
    <3>2. l \in Seq(S) /\ Len(l) = n /\ \A j \in 1 .. n : l[j] = q[j]
      BY <2>2, <3>1
    <3> QED
      BY <3>2 DEF IsSeq
  <2>4. PICK es : es = raft.unst
    OBVIOUS
  <2>5. /\ LastOf(raft, mem) \in Nat
        /\ es # <<>> =>
             /\ Len(es) \in Nat \ {0} /\ es[1].index \in Nat \ {0}
             /\ LastOf(raft, mem) = es[1].index + Len(es) - 1
        /\ es = <<>> =>
             LastOf(raft, mem) =
               IF raft.snap # NoSnapshot THEN raft.snap.index ELSE LastIndex(mem)
        /\ raft.snap # NoSnapshot => raft.snap.index \in Nat \ {0}
        /\ LastIndex(mem) \in Nat
    BY <1>2, <2>4, LastOfIs
  <2>6. i = 1 \/ i - 1 <= LastOf(raft, mem)
    BY <1>1, <1>4 DEF Matches
  <2>7. es # <<>> => e.index <= es[1].index + Len(es)
    BY <1>4, <1>5, <2>5, <2>6
  <2>8. u = Before(es, e.index) \o <<e>> /\ Successive(es, es[1].index)
    BY <1>2, <1>3, <1>5, <1>7, <1>21, <2>4 DEF IsRaft
  <2>9. /\ EntryAt(v, mem, e.index) = e
        /\ \A j \in Nat \ {0} : j < e.index => EntryAt(v, mem, j) = EntryAt(raft, mem, j)
    <3>1. v.unst = u /\ FirstOf(v, mem) = FirstOf(raft, mem) /\ raft.unst = es
      BY <1>9, <2>4 DEF FirstOf
    <3>2. /\ u # <<>> /\ Successive(u, u[1].index)
          /\ u[1].index = IF es # <<>> /\ es[1].index < e.index THEN es[1].index ELSE e.index
      BY <1>5, <2>7, <2>8, Replaced
    <3>3. Spliced(es, e, u)
      BY <1>5, <2>7, <2>8, ReplacedAt
    <3> HIDE DEF e
    <3>4. EntryAt(v, mem, e.index) = e
      BY <3>1, <3>2, <3>3 DEF EntryAt, Spliced
    <3>5. ASSUME NEW j \in Nat \ {0}, j < e.index
          PROVE  EntryAt(v, mem, j) = EntryAt(raft, mem, j)
      BY <3>1, <3>2, <3>3, <3>5 DEF EntryAt, Spliced
    <3> QED
      BY <3>4, <3>5
  <2>10. /\ u # <<>> /\ Successive(u, u[1].index)
         /\ u[1].index = IF es # <<>> /\ es[1].index < e.index THEN es[1].index ELSE e.index
    BY <1>5, <2>7, <2>8, Replaced
  <2>11. LastOf(v, mem) = i
    <3>1. PICK b : b = Before(es, e.index)
      OBVIOUS
    <3>2. b \in Seq(Entry)
      <4>1. es \in Seq(Entry)
        BY <2>8 DEF Successive
      <4>2. CASE es = <<>>
        BY <3>1, <4>2 DEF Before
      <4>3. CASE es # <<>>
        <5>1. b = SubSeq(es, 1, i - es[1].index)
          BY <1>5, <3>1, <4>3 DEF Before
        <5>2. i - es[1].index \in Int /\ i - es[1].index <= Len(es)
          BY <1>4, <1>5, <2>5, <2>7, <4>3
        <5> QED
          BY <2>5, <4>1, <4>3, <5>1, <5>2
      <4> QED
        BY <4>2, <4>3
    <3>3. Last(u) = e
      BY <1>5, <2>8, <3>1, <3>2, LastAppended
    <3> QED
      BY <1>5, <1>9, <2>10, <3>3 DEF LastOf
  <2>12. PICK new : new = View(v, mem)
    OBVIOUS
  <2>13. /\ Len(new) = i /\ new[i] = e /\ i - 1 <= Len(log)
         /\ \A j \in 1 .. i - 1 : new[j] = log[j]
    <3>1. new = [j \in 1 .. i |-> EntryAt(v, mem, j)]
      BY <2>11, <2>12 DEF View
    <3>2. DOMAIN new = 1 .. i /\ new = [j \in 1 .. i |-> new[j]]
          /\ \A j \in 1 .. i : new[j] = EntryAt(v, mem, j)
      BY <3>1
    <3>3. Len(new) = i
      BY <1>4, <3>2, FunctionSeq
    <3>4. i - 1 <= Len(log)
      BY <1>4, <1>13, <2>6
    <3>5. ASSUME NEW j \in 1 .. i - 1 PROVE new[j] = log[j]
      <4>1. j \in 1 .. i /\ j \in Nat \ {0} /\ j < i /\ j \in 1 .. Len(log)
        BY <1>4, <1>13, <3>4
      <4> QED
        BY <1>5, <1>13, <2>9, <3>2, <4>1
    <3>6. new[i] = e
      BY <1>4, <1>5, <2>9, <3>2
    <3> QED
      BY <3>3, <3>4, <3>5, <3>6
  <2>14. \A j \in 1 .. i - 1 : log[j] = LeaderLog[t][j]
    <3>1. CASE i = 1
      BY <3>1
    <3>2. CASE i # 1
      <4>1. i - 1 \in Index /\ i - 1 <= Len(LeaderLog[t])
        BY <1>1, <1>4, <3>2, LogFacts DEF Index
      <4>2. \A j \in 1 .. i - 1 : View(raft, mem)[j] = LeaderLog[t][j]
        BY <1>1, <1>12, <1>18, <4>1, MatchesLine
      <4> QED
        BY <1>12, <4>2
    <3> QED
      BY <3>1, <3>2
  <2>15. \A j \in 1 .. i : new[j] = LeaderLog[t][j]
    <3> SUFFICES ASSUME NEW j \in 1 .. i PROVE new[j] = LeaderLog[t][j]
      OBVIOUS
    <3>1. CASE j = i
      BY <2>13, <3>1
    <3>2. CASE j # i
      <4>1. j \in 1 .. i - 1
        BY <1>4, <3>2
      <4> QED
        BY <2>13, <2>14, <4>1
    <3> QED
      BY <3>1, <3>2
  <2>16. OneLine(new)
    BY <1>1, <2>13, <2>15 DEF OneLine
  <2>17. \A j \in 1 .. Len(new) : j <= k => new[j] = GroupLog[j]
    <3>1. CASE k = raft.committed
      <4>1. \A j \in 1 .. i : j <= k => j \in 1 .. i - 1 /\ j \in 1 .. Len(log)
        BY <1>1, <1>2, <1>4, <1>13, <2>13, <3>1
      <4> QED
        BY <1>14, <2>13, <3>1, <4>1 DEF Agrees
    <3>2. CASE k # raft.committed
      <4>1. k = i /\ c = i
        BY <1>2, <1>4, <1>11, <3>2
      <4> QED
        BY <1>17, <2>13, <2>15, <4>1
    <3> QED
      BY <3>1, <3>2
  <2>18. ASSUME NEW j \in 1 .. n PROVE new[j] = l[j]
    <3>1. j \in 1 .. i - 1 /\ j \in 1 .. Len(q) /\ j \in 1 .. Len(log) /\ j <= Len(q)
      BY <1>4, <1>13, <1>15, <2>2, <2>13
    <3>2. log[j] = q[j]
      BY <1>14, <3>1 DEF Agrees
    <3> QED
      BY <2>3, <2>13, <3>1, <3>2
  <2>19. Agrees(new, k, l)
    <3>1. \A j \in 1 .. Len(new) : j <= Len(l) => j \in 1 .. n
      BY <1>4, <2>3, <2>13
    <3> QED
      BY <2>16, <2>17, <2>18, <3>1 DEF Agrees
  <2>20. OneLine(l)
    BY <1>15, <1>19, <2>2, <2>3, LineShorter
  <2>21. /\ IsSeq(p.log) /\ Len(p.log) <= Len(promise.log)
         /\ \A j \in 1 .. Len(p.log) : p.log[j] = promise.log[j]
         /\ Agrees(View(v, mem), v.committed, p.log)
    BY <1>9, <1>12, <1>16, <2>2, <2>3, <2>12, <2>19
  <2>22. AgreedInRound'
    BY <1>1, <1>9, <1>10, <1>16, <2>21, AgreedReady
  <2> QED
    BY <1>1, <1>16, <2>20, <2>22
<1> QED
  BY <1>20, <1>21

LEMMA CommonPrefixIs ==
  ASSUME NEW log, IsSeq(log), NEW other, IsSeq(other), NEW l, l = CommonPrefix(log, other)
  PROVE  /\ IsSeq(l) /\ Len(l) \in Nat /\ Len(l) <= Len(log) /\ Len(l) <= Len(other)
         /\ \A i \in 1 .. Len(l) : l[i] = log[i] /\ l[i] = other[i]
<1>1. PICK S, T : log \in Seq(S) /\ other \in Seq(T)
  BY DEF IsSeq
<1>2. PICK n \in Nat, o \in Nat : n = Len(log) /\ o = Len(other)
  BY <1>1
<1> DEFINE K == {0} \cup {i \in 1 .. Len(log) :
                            i <= Len(other) /\ SubSeq(log, 1, i) = SubSeq(other, 1, i)}
<1>3. K \in SUBSET (0 .. n) /\ K # {}
  BY <1>2
<1>4. PICK k : k = Max(K)
  OBVIOUS
<1>5. k \in K
  <2>1. \E m \in K : \A i \in K : i <= m
    <3> HIDE DEF K
    <3> QED
      BY <1>3, BoundedMax
  <2>2. \A i \in K : i \in Nat
    BY <1>3
  <2>3. \E m \in K : \A i \in K : m >= i
    <3> HIDE DEF K
    <3> QED
      BY <2>1, <2>2
  <2> HIDE DEF K
  <2> QED
    BY <1>4, <2>3 DEF Max
<1>6. k \in Nat /\ k <= n /\ k <= o
      /\ (k # 0 => SubSeq(log, 1, k) = SubSeq(other, 1, k))
  BY <1>2, <1>5
<1>7. l = SubSeq(log, 1, k)
  BY <1>4 DEF CommonPrefix
<1> HIDE DEF K
<1>8. l \in Seq(S) /\ Len(l) = k /\ \A i \in 1 .. k : l[i] = log[i]
  BY <1>1, <1>2, <1>6, <1>7
<1>9. \A i \in 1 .. k : SubSeq(other, 1, k)[i] = other[i]
  BY <1>1, <1>2, <1>6
<1>10. \A i \in 1 .. k : l[i] = other[i]
  <2> SUFFICES ASSUME NEW i \in 1 .. k PROVE l[i] = other[i]
    OBVIOUS
  <2>1. k # 0
    BY <1>6
  <2>2. l = SubSeq(other, 1, k)
    BY <1>6, <1>7, <2>1
  <2> QED
    BY <1>9, <2>2
<1> QED
  BY <1>2, <1>6, <1>8, <1>10 DEF IsSeq

LEMMA SnapshotAgreed ==
  ASSUME Inv, Agreed, Undisturbed, AgreedInRound, pc = "ready", NEW t \in Term, NEW i \in Index,
         RecvSnapshot(t, i)
  PROVE  AgreedInRound' /\ OneLine(promise'.log)
<1>1. PICK r : r = AtTerm(t)
  OBVIOUS
<1> DEFINE s == [index |-> i, term |-> GroupLog[i].term, voters |-> DefaultVoters,
                 data |-> Commands(SubSeq(GroupLog, 1, i))]
           v == [r EXCEPT !.unst = <<>>, !.snap = s, !.committed = i, !.ack = TRUE]
           p == [promise EXCEPT !.log = CommonPrefix(promise.log, GroupLog)]
<1>2. /\ Received(v) /\ t >= raft.term /\ i \in Committable(t) /\ ~Matches(t, i)
      /\ promise' = p
  BY <1>1 DEF RecvSnapshot
<1>3. /\ mem.offset \in Nat /\ LastIndex(mem) \in Nat /\ LastOf(raft, mem) \in Nat
      /\ raft.committed \in Nat /\ raft.applied \in Nat /\ raft.applied <= raft.committed
      /\ raft.hs.commit \in Nat /\ IsMemory(mem) /\ mem.ok /\ IsRaft(raft)
  BY Numbers
<1>4. IsRaft(r) /\ r.hs = raft.hs
  BY <1>1, <1>2, <1>3, AtTermIs
<1>5. /\ v.unst = <<>> /\ v.snap.index = i /\ v.committed = i /\ v.hs = raft.hs
  BY <1>4 DEF IsRaft
<1> HIDE DEF s, v
<1>6. /\ i \in Index /\ i \in Nat \ {0} /\ i <= Len(LeaderLog[t]) /\ i <= Len(GroupLog)
      /\ \A j \in 1 .. i : LeaderLog[t][j] = GroupLog[j]
  BY <1>2, CommittableIs
<1>7. raft' = v /\ UNCHANGED <<mem, rd, pc>>
  BY <1>2 DEF Received, disk
<1>8. PICK new : new = View(v, mem)
  OBVIOUS
<1>9. Len(new) = i /\ \A j \in 1 .. i : new[j] = GroupLog[j]
  <2>1. v.snap # NoSnapshot
    BY <1>5, <1>6, Empties
  <2>2. new = [j \in 1 .. i |-> GroupLog[j]]
    BY <1>5, <1>6, <1>8, <2>1, ViewSnapshot
  <2>3. DOMAIN new = 1 .. i /\ new = [j \in 1 .. i |-> new[j]]
        /\ \A j \in 1 .. i : new[j] = GroupLog[j]
    BY <2>2
  <2> QED
    BY <1>6, <2>3, FunctionSeq
<1>10. OneLine(new)
  BY <1>6, <1>9, GroupLine
<1>11. PICK q, l : q = promise.log /\ l = CommonPrefix(q, GroupLog)
  OBVIOUS
<1>12. DOMAIN promise = {"log", "term"} /\ IsSeq(q) /\ Len(q) \in Nat
  BY <1>11 DEF Agreed, IsSeq
<1>13. IsSeq(GroupLog)
  BY LogFacts DEF IsSeq
<1>14. /\ IsSeq(l) /\ Len(l) \in Nat /\ Len(l) <= Len(q) /\ Len(l) <= Len(GroupLog)
       /\ \A j \in 1 .. Len(l) : l[j] = q[j] /\ l[j] = GroupLog[j]
  BY <1>11, <1>12, <1>13, CommonPrefixIs
<1>15. DOMAIN p = {"log", "term"} /\ p.log = l /\ p.term = promise.term
  BY <1>11, <1>12
<1> HIDE DEF p
<1>16. Agrees(new, i, l)
  <2>1. ASSUME NEW j \in 1 .. Len(new), j <= Len(l) PROVE new[j] = l[j]
    <3>1. j \in 1 .. i /\ j \in 1 .. Len(l)
      BY <1>6, <1>9, <1>14, <2>1
    <3> QED
      BY <1>9, <1>14, <3>1
  <2> QED
    BY <1>9, <1>10, <2>1 DEF Agrees
<1>17. OneLine(l)
  <2>1. OneLine(q)
    BY <1>11 DEF Agreed
  <2> QED
    BY <1>12, <1>14, <2>1, LineShorter
<1>18. /\ Agrees(View(v, mem), v.committed, p.log) /\ IsSeq(p.log)
       /\ Len(p.log) <= Len(promise.log)
       /\ \A j \in 1 .. Len(p.log) : p.log[j] = promise.log[j]
  BY <1>5, <1>8, <1>11, <1>14, <1>15, <1>16
<1>19. AgreedInRound'
  BY <1>2, <1>5, <1>7, <1>15, <1>18, AgreedReady
<1> QED
  BY <1>2, <1>15, <1>17, <1>19

(* A heartbeat, and a vote.                                                 *)
LEMMA SameLogAgreed ==
  ASSUME Inv, Agreed, AgreedInRound, pc = "ready", NEW v,
         v.unst = raft.unst, v.snap = raft.snap, v.hs = raft.hs,
         \A j \in 1 .. LastOf(raft, mem) : j <= v.committed => View(raft, mem)[j] = GroupLog[j],
         raft' = v, UNCHANGED <<mem, rd, pc, promise>>
  PROVE  AgreedInRound'
<1>1. View(v, mem) = View(raft, mem)
  <2>1. LastOf(v, mem) = LastOf(raft, mem)
    BY DEF LastOf
  <2>2. \A j \in 1 .. LastOf(raft, mem) : EntryAt(v, mem, j) = EntryAt(raft, mem, j)
    BY DEF EntryAt, FirstOf
  <2> QED
    BY <2>1, <2>2, SameView
<1>2. Len(View(raft, mem)) = LastOf(raft, mem)
  BY ViewIs DEF Inv, Shapes
<1>3. Agrees(View(v, mem), v.committed, promise.log)
  BY <1>1, <1>2 DEF AgreedInRound, Agrees
<1>4. IsSeq(promise.log) /\ Len(promise.log) \in Nat
  BY DEF Agreed, IsSeq
<1>5. promise' = promise /\ Len(promise.log) <= Len(promise.log)
  BY <1>4
<1> QED
  BY <1>3, <1>4, <1>5, AgreedReady

LEMMA HeartbeatAgreed ==
  ASSUME Inv, Agreed, AgreedInRound, pc = "ready", NEW t \in Term, NEW c \in Index,
         RecvHeartbeat(t, c)
  PROVE  AgreedInRound'
<1>1. PICK r : r = AtTerm(t)
  OBVIOUS
<1> DEFINE v == [r EXCEPT !.committed = c]
<1>2. /\ Received(v) /\ t >= raft.term /\ c <= LastOf(raft, mem) /\ c \in Committable(t)
      /\ c <= Len(promise.log) /\ promise.log[c] = LeaderLog[t][c] /\ promise' = promise
  BY <1>1 DEF RecvHeartbeat, HeartbeatCommit
<1>3. IsRaft(r) /\ r.hs = raft.hs /\ r.unst = raft.unst /\ r.snap = raft.snap
  BY <1>1, <1>2, AtTermIs DEF Inv, Shapes
<1>4. v.unst = raft.unst /\ v.snap = raft.snap /\ v.hs = raft.hs /\ v.committed = c
  BY <1>3 DEF IsRaft
<1> HIDE DEF v
<1>5. raft' = v /\ UNCHANGED <<mem, rd, pc, promise>>
  BY <1>2 DEF Received, disk
<1>6. /\ c \in Index /\ c \in Nat \ {0} /\ c <= Len(LeaderLog[t]) /\ c <= Len(GroupLog)
      /\ \A j \in 1 .. c : LeaderLog[t][j] = GroupLog[j]
  BY <1>2, CommittableIs
<1>7. PICK log : log = View(raft, mem)
  OBVIOUS
<1>8. Len(log) = LastOf(raft, mem) /\ Len(log) \in Nat
  BY <1>7, ViewIs DEF Inv, Shapes
<1>9. OneLine(log) /\ \A j \in 1 .. Len(log) : j <= Len(promise.log) => log[j] = promise.log[j]
  BY <1>7 DEF AgreedInRound, Agrees
<1>10. log[c] = LeaderLog[t][c]
  <2>1. Len(promise.log) \in Nat
    BY DEF Agreed, IsSeq
  <2> QED
    BY <1>2, <1>6, <1>8, <1>9, <2>1
<1>11. \A j \in 1 .. c : log[j] = LeaderLog[t][j]
  BY <1>2, <1>6, <1>8, <1>9, <1>10, SameLine
<1>12. \A j \in 1 .. LastOf(raft, mem) : j <= v.committed => View(raft, mem)[j] = GroupLog[j]
  <2>1. \A j \in 1 .. LastOf(raft, mem) : j <= v.committed => j \in 1 .. c
    BY <1>4, <1>6, <1>8
  <2> QED
    BY <1>6, <1>7, <1>11, <2>1
<1> QED
  BY <1>4, <1>5, <1>12, SameLogAgreed

LEMMA VoteAgreed ==
  ASSUME Inv, Agreed, AgreedInRound, pc = "ready", NEW t \in Term, NEW c, RecvVote(t, c)
  PROVE  AgreedInRound' /\ promise' = promise
<1>1. PICK r : r = AtTerm(t)
  OBVIOUS
<1> DEFINE v == [r EXCEPT !.vote = c, !.grants = @ \cup {<<t, c>>}]
<1>2. Received(v) /\ t >= raft.term /\ promise' = promise
  BY <1>1 DEF RecvVote
<1>3. /\ IsRaft(r) /\ r.hs = raft.hs /\ r.unst = raft.unst /\ r.snap = raft.snap
      /\ r.committed = raft.committed
  BY <1>1, <1>2, AtTermIs DEF Inv, Shapes
<1>4. /\ v.unst = raft.unst /\ v.snap = raft.snap /\ v.hs = raft.hs
      /\ v.committed = raft.committed
  BY <1>3 DEF IsRaft
<1> HIDE DEF v
<1>5. raft' = v /\ UNCHANGED <<mem, rd, pc, promise>>
  BY <1>2 DEF Received, disk
<1>6. Len(View(raft, mem)) = LastOf(raft, mem)
  BY ViewIs DEF Inv, Shapes
<1>7. \A j \in 1 .. LastOf(raft, mem) : j <= v.committed => View(raft, mem)[j] = GroupLog[j]
  BY <1>4, <1>6 DEF AgreedInRound, Agrees
<1> QED
  BY <1>2, <1>4, <1>5, <1>7, SameLogAgreed

-----------------------------------------------------------------------------
(* The entries of a Save.                                                   *)

LEMMA HeldSame ==
  ASSUME NEW m, NEW h, m.offset = h.offset, m.ents = h.ents
  PROVE  Held(m) = Held(h) /\ LastIndex(m) = LastIndex(h)
<1>1. LastIndex(m) = LastIndex(h)
  BY DEF LastIndex
<1> QED
  BY <1>1 DEF Held

(* a holds what m holds before first, and from there on the entries es.     *)
Extended(a, m, es, first) ==
  /\ IsMemory(a) /\ LastIndex(a) = first + Len(es) - 1
  /\ \A i \in 1 .. LastIndex(a) :
       Held(a)[i] = IF i < first THEN Held(m)[i] ELSE es[i - first + 1]

LEMMA HeldAppended ==
  ASSUME NEW m, IsMemory(m), m.ok, NEW first \in Nat, NEW es, Successive(es, first), es # <<>>,
         m.offset < first, first <= LastIndex(m) + 1, NEW a, a = MemAppend(m, es)
  PROVE  Extended(a, m, es, first)
<1>1. /\ IsMemory(MemAppend(m, es)) /\ MemAppend(m, es).ok
      /\ MemAppend(m, es).offset = m.offset /\ MemAppend(m, es).snap = m.snap
      /\ MemAppend(m, es).hs = m.hs
      /\ es = <<>> => MemAppend(m, es) = m
      /\ es # <<>> => LastIndex(MemAppend(m, es)) = first + Len(es) - 1
  BY AppendFits
<1>2. IsMemory(a) /\ a.offset = m.offset /\ LastIndex(a) = first + Len(es) - 1
  BY <1>1
<1>3. PICK o \in Nat, n \in Nat, k \in Nat, l \in Nat \ {0} :
        o = m.offset /\ n = Len(m.ents) /\ k = first - (o + 1) /\ l = Len(es)
  <2>1. m.offset \in Nat /\ Len(m.ents) \in Nat
    BY LogFacts DEF IsMemory, Successive
  <2>2. Len(es) \in Nat \ {0}
    BY DEF Successive
  <2>3. first - (m.offset + 1) \in Nat
    BY <2>1
  <2> QED
    BY <2>1, <2>2, <2>3
<1>4. k <= n /\ first = o + k + 1
  <2>1. o < first /\ first <= o + n + 1
    BY <1>3 DEF LastIndex
  <2> QED
    <3>1. k = first - (o + 1)
      BY <1>3
    <3> QED
      BY ONLY <2>1, <3>1, o \in Nat, n \in Nat, k \in Nat, first \in Nat
<1>5. es \in Seq(Entry) /\ m.ents \in Seq(Entry)
  BY DEF Successive, IsMemory
<1>6. PICK kept : kept = SubSeq(m.ents, 1, k)
  OBVIOUS
<1>7. kept \in Seq(Entry) /\ Len(kept) = k /\ \A j \in 1 .. k : kept[j] = m.ents[j]
  <2>1. \A j \in 1 .. k : m.ents[j] \in Entry
    <3>1. \A j \in 1 .. Len(m.ents) : m.ents[j] \in Entry
      BY ONLY <1>5
    <3>2. \A j \in 1 .. k : j \in 1 .. n
      BY ONLY <1>4, k \in Nat, n \in Nat
    <3> QED
      BY ONLY <1>3, <3>1, <3>2
  <2>2. /\ SubSeq(m.ents, 1, k) \in Seq(Entry)
        /\ Len(SubSeq(m.ents, 1, k)) = IF 1 <= k THEN k - 1 + 1 ELSE 0
        /\ \A j \in 1 .. k - 1 + 1 : SubSeq(m.ents, 1, k)[j] = m.ents[1 + j - 1]
    BY <2>1, SubSeqProperties
  <2>3. Len(kept) = k /\ kept \in Seq(Entry)
    BY <1>6, <2>2
  <2>4. ASSUME NEW j \in 1 .. k PROVE kept[j] = m.ents[j]
    <3>1. j \in 1 .. k - 1 + 1 /\ 1 + j - 1 = j
      OBVIOUS
    <3> QED
      BY <1>6, <2>2, <3>1
  <2> QED
    BY <2>3, <2>4
<1>8. a.ents = kept \o es
  <2>1. MemAppend(m, es) = [m EXCEPT !.ents = SubSeq(m.ents, 1, first - FirstIndex(m)) \o es]
    BY PlainAppend
  <2>2. first - FirstIndex(m) = k
    BY <1>3 DEF FirstIndex
  <2> QED
    BY <1>6, <2>1, <2>2 DEF IsMemory
<1>9. \A j \in 1 .. k + l : a.ents[j] = IF j <= k THEN kept[j] ELSE es[j - k]
  <2>1. /\ kept \o es \in Seq(Entry)
        /\ Len(kept \o es) = Len(kept) + Len(es)
        /\ \A i \in 1 .. Len(kept) + Len(es) :
             (kept \o es)[i] = IF i <= Len(kept) THEN kept[i] ELSE es[i - Len(kept)]
    BY <1>5, <1>7, ConcatProperties
  <2> QED
    BY ONLY <1>3, <1>7, <1>8, <2>1
<1>10. /\ LastIndex(m) \in Nat /\ IsSeq(Held(m)) /\ Len(Held(m)) = LastIndex(m)
       /\ m.offset \in Nat /\ m.offset <= LastIndex(m) /\ m.offset <= Len(GroupLog)
       /\ \A i \in 1 .. LastIndex(m) :
            Held(m)[i] = IF i <= m.offset THEN GroupLog[i] ELSE m.ents[i - m.offset]
  BY HeldIs
<1>11. /\ LastIndex(a) \in Nat /\ IsSeq(Held(a)) /\ Len(Held(a)) = LastIndex(a)
       /\ a.offset \in Nat /\ a.offset <= LastIndex(a) /\ a.offset <= Len(GroupLog)
       /\ \A i \in 1 .. LastIndex(a) :
            Held(a)[i] = IF i <= a.offset THEN GroupLog[i] ELSE a.ents[i - a.offset]
  BY <1>2, HeldIs
<1>12. ASSUME NEW i \in 1 .. LastIndex(a)
       PROVE  Held(a)[i] = IF i < first THEN Held(m)[i] ELSE es[i - first + 1]
  <2>1. i \in Nat \ {0} /\ i <= first + l - 1
    BY <1>2, <1>3, <1>11
  <2>2. CASE i <= o
    <3>1. i < first /\ i \in 1 .. LastIndex(m)
      <4>1. PICK last \in Nat : last = LastIndex(m) /\ o <= last
        BY <1>3, <1>10
      <4>2. i < first /\ i \in 1 .. last
        BY ONLY <1>4, <2>1, <2>2, <4>1, o \in Nat, k \in Nat
      <4> QED
        BY <4>1, <4>2
    <3> QED
      BY <1>2, <1>3, <1>10, <1>11, <2>2, <3>1
  <2>3. CASE i > o /\ i < first
    <3>1. i - o \in 1 .. k /\ i - o \in 1 .. k + l /\ i \in 1 .. o + n /\ i - o <= k /\ ~(i <= o)
      BY ONLY <1>4, <2>1, <2>3, o \in Nat, k \in Nat, l \in Nat \ {0}, n \in Nat, first \in Nat
    <3>2. Held(m)[i] = m.ents[i - o]
      <4>1. LastIndex(m) = o + n
        BY <1>3 DEF LastIndex
      <4> QED
        BY <1>3, <1>10, <3>1, <4>1
    <3>3. Held(a)[i] = a.ents[i - o]
      BY <1>2, <1>3, <1>11, <3>1
    <3> QED
      BY <1>7, <1>9, <2>3, <3>1, <3>2, <3>3
  <2>4. CASE i >= first
    <3>1. i - o \in 1 .. k + l /\ ~(i - o <= k) /\ ~(i <= o) /\ (i - o) - k = i - first + 1 /\ ~(i < first)
      BY ONLY <1>4, <2>1, <2>4, o \in Nat, k \in Nat, l \in Nat \ {0}, first \in Nat
    <3>2. Held(a)[i] = a.ents[i - o]
      BY <1>2, <1>3, <1>11, <3>1
    <3> QED
      BY <1>9, <3>1, <3>2
  <2>5. i <= o \/ (i > o /\ i < first) \/ i >= first
    BY ONLY <2>1, o \in Nat, first \in Nat
  <2> QED
    BY <2>2, <2>3, <2>4, <2>5
<1> QED
  BY <1>2, <1>12 DEF Extended

LEMMA ViewUnstable ==
  ASSUME NEW r, IsRaft(r), r.unst # <<>>, r.snap = NoSnapshot, NEW m, IsMemory(m),
         NEW first \in Nat, first = r.unst[1].index, first <= LastIndex(m) + 1,
         m.offset < first
  PROVE  \A i \in 1 .. LastOf(r, m) :
           View(r, m)[i] = IF i < first THEN Held(m)[i] ELSE r.unst[i - first + 1]
<1>1. /\ LastOf(r, m) \in Nat /\ IsSeq(View(r, m)) /\ Len(View(r, m)) = LastOf(r, m)
      /\ \A i \in 1 .. LastOf(r, m) : View(r, m)[i] = EntryAt(r, m, i)
  BY ViewIs
<1>2. /\ LastIndex(m) \in Nat /\ IsSeq(Held(m)) /\ Len(Held(m)) = LastIndex(m)
      /\ m.offset \in Nat /\ m.offset <= LastIndex(m) /\ m.offset <= Len(GroupLog)
      /\ \A i \in 1 .. LastIndex(m) :
           Held(m)[i] = IF i <= m.offset THEN GroupLog[i] ELSE m.ents[i - m.offset]
  BY HeldIs
<1>3. FirstOf(r, m) = 1 + m.offset
  BY DEF FirstOf
<1> SUFFICES ASSUME NEW i \in 1 .. LastOf(r, m)
             PROVE  View(r, m)[i] = IF i < first THEN Held(m)[i] ELSE r.unst[i - first + 1]
  OBVIOUS
<1>4. i \in Nat \ {0}
  BY <1>1
<1>5. CASE i < first
  <2>1. i \in 1 .. LastIndex(m) /\ ~(i >= first)
    BY <1>2, <1>4, <1>5
  <2>2. EntryAt(r, m, i) = IF i < FirstOf(r, m) THEN GroupLog[i] ELSE m.ents[i - m.offset]
    BY <2>1 DEF EntryAt
  <2>3. i < FirstOf(r, m) <=> i <= m.offset
    BY <1>2, <1>3, <1>4
  <2> QED
    BY <1>1, <1>2, <1>5, <2>1, <2>2, <2>3
<1>6. CASE ~(i < first)
  <2>1. i >= first
    BY <1>4, <1>6
  <2>2. EntryAt(r, m, i) = r.unst[i - first + 1]
    BY <2>1 DEF EntryAt
  <2> QED
    BY <1>1, <1>6, <2>2
<1> QED
  BY <1>5, <1>6

(* a holds the log that etcd/raft sees, up to last.                         *)
Portion(a, r, m, last) ==
  /\ IsMemory(a) /\ LastIndex(a) = last /\ LastIndex(a) <= LastOf(r, m)
  /\ \A i \in 1 .. LastIndex(a) : Held(a)[i] = View(r, m)[i]

(* w of the entries.                                                        *)
LEMMA PartHeld ==
  ASSUME NEW r, IsRaft(r), r.unst # <<>>, r.snap = NoSnapshot, NEW m, IsMemory(m), m.ok,
         NEW first \in Nat, first = r.unst[1].index, first <= LastIndex(m) + 1,
         m.offset < first, NEW w \in 1 .. Len(r.unst),
         NEW a, a = MemAppend(m, SubSeq(r.unst, 1, w))
  PROVE  Portion(a, r, m, first + w - 1)
<1>0. PICK es : es = r.unst
  OBVIOUS
<1>1. es = r.unst /\ es # <<>> /\ Len(es) \in Nat
  BY <1>0, LastOfIs
<1>2. Successive(es, first) /\ w \in Nat \ {0} /\ w <= Len(es)
  BY <1>1 DEF IsRaft
<1>3. PICK p : p = SubSeq(es, 1, w)
  OBVIOUS
<1>4. /\ Successive(SubSeq(es, 1, w), first)
      /\ Len(SubSeq(es, 1, w)) = IF w >= 1 THEN w ELSE 0
  BY <1>1, <1>2, CutBefore
<1>5. Successive(p, first) /\ Len(p) = w
  BY <1>2, <1>3, <1>4
<1>6. \A j \in 1 .. w : p[j] = es[j]
  BY <1>1, <1>2, <1>3 DEF Successive
<1>7. p # <<>>
  BY <1>2, <1>5
<1>8. /\ IsMemory(a) /\ LastIndex(a) = first + Len(p) - 1
      /\ \A i \in 1 .. LastIndex(a) :
           Held(a)[i] = IF i < first THEN Held(m)[i] ELSE p[i - first + 1]
  <2>1. a = MemAppend(m, p)
    BY <1>1, <1>3
  <2>2. Extended(a, m, p, first)
    BY <1>5, <1>7, <2>1, HeldAppended
  <2> QED
    BY <2>2 DEF Extended
<1>9. LastOf(r, m) = first + Len(es) - 1
  <2>1. /\ r.unst # <<>> =>
             /\ r.unst[1].index \in Nat \ {0}
             /\ LastOf(r, m) = r.unst[1].index + Len(r.unst) - 1
        /\ r.unst = <<>> =>
             LastOf(r, m) = IF r.snap # NoSnapshot THEN r.snap.index ELSE LastIndex(m)
    BY LastOfIs
  <2> QED
    BY <1>1, <2>1
<1>10. LastIndex(a) = first + w - 1 /\ LastIndex(a) <= LastOf(r, m)
  BY <1>2, <1>5, <1>8, <1>9
<1>11. \A i \in 1 .. LastOf(r, m) :
         View(r, m)[i] = IF i < first THEN Held(m)[i] ELSE r.unst[i - first + 1]
  BY ViewUnstable
<1>12. ASSUME NEW i \in 1 .. LastIndex(a) PROVE Held(a)[i] = View(r, m)[i]
  <2>1. i \in Nat \ {0} /\ i <= first + w - 1 /\ i \in 1 .. LastOf(r, m)
    BY <1>2, <1>9, <1>10
  <2>2. CASE i < first
    BY <1>8, <1>11, <2>1, <2>2
  <2>3. CASE ~(i < first)
    <3>1. i - first + 1 \in 1 .. w
      BY ONLY <2>1, <2>3, first \in Nat, w \in Nat
    <3>2. Held(a)[i] = p[i - first + 1]
      BY <1>8, <2>3
    <3>3. View(r, m)[i] = r.unst[i - first + 1]
      BY <1>11, <2>1, <2>3
    <3>4. p[i - first + 1] = es[i - first + 1]
      BY <1>6, <3>1
    <3> QED
      BY <1>1, <3>2, <3>3, <3>4
  <2> QED
    BY <2>2, <2>3
<1> QED
  BY <1>8, <1>10, <1>12 DEF Portion

(* All of them.                                                             *)
LEMMA SavedHeld ==
  ASSUME Inv, Paced, pc = "save", rd.snap = NoSnapshot,
         NEW a, a = SaveMemory(mem, rd.ents, rd.hs)
  PROVE  a.offset = mem.offset /\ Held(a) = View(raft, mem)
<1>1. IsMemory(mem) /\ mem.ok /\ IsRaft(raft)
  BY Numbers
<1>2. rd.ents = raft.unst /\ raft.snap = NoSnapshot
  BY DEF Inv, InRound
<1>3. PICK b : b = MemAppend(mem, raft.unst)
  OBVIOUS
<1>4. b.ok /\ b.offset = mem.offset /\ Held(b) = View(raft, mem) /\ DOMAIN b = DOMAIN mem
  <2>1. CASE raft.unst = <<>>
    <3>1. b = mem
      BY <1>3, <2>1 DEF MemAppend
    <3> QED
      BY <1>1, <1>2, <2>1, <3>1, ViewStable
  <2>2. CASE raft.unst # <<>>
    <3>1. PICK first \in Nat : first = raft.unst[1].index
      BY <1>1, <2>2, LastOfIs
    <3>2. first <= LastIndex(mem) + 1 /\ mem.offset < first
      BY <1>2, <2>2, <3>1 DEF Paced, Level, Follows
    <3>3. PICK es : es = raft.unst
      OBVIOUS
    <3>4. es # <<>> /\ Len(es) \in Nat \ {0} /\ es \in Seq(Entry) /\ Successive(es, first)
          /\ LastOf(raft, mem) = first + Len(es) - 1
      <4>1. Len(es) \in Nat \ {0} /\ LastOf(raft, mem) = first + Len(es) - 1
        BY <1>1, <2>2, <3>1, <3>3, LastOfIs
      <4> QED
        BY <1>1, <2>2, <3>1, <3>3, <4>1 DEF IsRaft, Successive
    <3>5. SubSeq(es, 1, Len(es)) = es
      BY <3>4, SubSeqFull
    <3>6. b = MemAppend(mem, SubSeq(raft.unst, 1, Len(es))) /\ Len(es) \in 1 .. Len(raft.unst)
      <4>1. b = MemAppend(mem, SubSeq(raft.unst, 1, Len(es)))
        BY <1>3, <3>3, <3>5, Zenon
      <4>2. Len(es) \in 1 .. Len(es)
        BY <3>4
      <4> QED
        BY <3>3, <4>1, <4>2, Zenon
    <3>7. /\ IsMemory(b) /\ LastIndex(b) = first + Len(es) - 1 /\ LastIndex(b) <= LastOf(raft, mem)
          /\ \A i \in 1 .. LastIndex(b) : Held(b)[i] = View(raft, mem)[i]
      <4>1. PICK w \in 1 .. Len(raft.unst) : w = Len(es)
        BY <3>6
      <4>2. b = MemAppend(mem, SubSeq(raft.unst, 1, w))
        BY <3>6, <4>1
      <4>3. Portion(b, raft, mem, first + w - 1)
        BY <1>1, <1>2, <2>2, <3>1, <3>2, <4>2, PartHeld
      <4> QED
        BY <4>1, <4>3, Zenon DEF Portion
    <3>8. Held(b) = View(raft, mem)
      <4>1. LastIndex(b) = LastOf(raft, mem)
        BY <3>4, <3>7
      <4> QED
        BY <1>1, <3>7, <4>1, SameHeld
    <3>9. /\ IsMemory(MemAppend(mem, es)) /\ MemAppend(mem, es).ok
          /\ MemAppend(mem, es).offset = mem.offset /\ MemAppend(mem, es).snap = mem.snap
          /\ MemAppend(mem, es).hs = mem.hs
          /\ es = <<>> => MemAppend(mem, es) = mem
          /\ es # <<>> => LastIndex(MemAppend(mem, es)) = first + Len(es) - 1
      BY <1>1, <3>2, <3>4, AppendFits
    <3> QED
      BY <1>1, <1>3, <3>3, <3>7, <3>8, <3>9 DEF IsMemory
  <2> QED
    BY <2>1, <2>2
<1>5. a.offset = b.offset /\ a.ents = b.ents
  <2>1. a = b \/ a = [b EXCEPT !.hs = rd.hs]
    BY <1>2, <1>3 DEF SaveMemory, MemSetHardState
  <2>2. DOMAIN b = {"ok", "offset", "ents", "snap", "hs"}
    BY <1>1, <1>4 DEF IsMemory
  <2> QED
    BY <2>1, <2>2
<1> QED
  BY <1>4, <1>5, HeldSame

LEMMA SavedView ==
  ASSUME Inv, Paced, pc = "save",
         NEW a, IsMemory(a), a = SaveMemory(mem, rd.ents, rd.hs)
  PROVE  View(raft, a) = View(raft, mem)
<1>1. IsMemory(mem) /\ mem.ok /\ IsRaft(raft)
  BY Numbers
<1>2. rd.ents = raft.unst /\ rd.snap = raft.snap /\ InHand
  BY DEF Inv, InRound, Paced
<1>3. CASE rd.snap # NoSnapshot
  <2>1. raft.unst = <<>> /\ raft.snap # NoSnapshot /\ raft.snap.index \in Nat
    BY <1>1, <1>2, <1>3, LastOfIs DEF InHand
  <2>2. View(raft, mem) = [i \in 1 .. raft.snap.index |-> GroupLog[i]]
    BY <2>1, ViewSnapshot
  <2>3. View(raft, a) = [i \in 1 .. raft.snap.index |-> GroupLog[i]]
    BY <2>1, ViewSnapshot
  <2> QED
    BY <2>2, <2>3
<1>4. CASE rd.snap = NoSnapshot
  <2>1. a.offset = mem.offset /\ Held(a) = View(raft, mem)
    BY <1>4, SavedHeld
  <2>2. CASE raft.unst = <<>>
    BY <1>2, <1>4, <2>1, <2>2, ViewStable
  <2>3. CASE raft.unst # <<>>
    <3>1. PICK first \in Nat \ {0} : first = raft.unst[1].index
      BY <1>1, <2>3, LastOfIs
    <3>2. first <= LastIndex(mem) + 1 /\ mem.offset < first
      BY <1>2, <1>4, <2>3, <3>1 DEF Paced, Level, Follows
    <3>3. /\ LastOf(raft, mem) \in Nat /\ IsSeq(View(raft, mem))
          /\ Len(View(raft, mem)) = LastOf(raft, mem)
          /\ \A i \in 1 .. LastOf(raft, mem) : View(raft, mem)[i] = EntryAt(raft, mem, i)
      BY <1>1, ViewIs
    <3>4. /\ LastIndex(a) \in Nat /\ IsSeq(Held(a)) /\ Len(Held(a)) = LastIndex(a)
          /\ a.offset \in Nat /\ a.offset <= LastIndex(a) /\ a.offset <= Len(GroupLog)
          /\ \A i \in 1 .. LastIndex(a) :
               Held(a)[i] = IF i <= a.offset THEN GroupLog[i] ELSE a.ents[i - a.offset]
      BY HeldIs
    <3>5. LastIndex(a) = LastOf(raft, mem) /\ LastOf(raft, a) = LastOf(raft, mem)
      BY <2>1, <2>3, <3>3, <3>4 DEF LastOf
    <3>6. FirstOf(raft, a) = 1 + a.offset
      BY <1>2, <1>4 DEF FirstOf
    <3>7. ASSUME NEW i \in 1 .. LastOf(raft, mem)
          PROVE  EntryAt(raft, a, i) = EntryAt(raft, mem, i)
      <4>1. i \in Nat \ {0}
        BY <3>3
      <4>2. CASE i >= first
        BY <2>3, <3>1, <4>2 DEF EntryAt
      <4>3. CASE ~(i >= first)
        <5>1. EntryAt(raft, a, i) = IF i < FirstOf(raft, a) THEN GroupLog[i] ELSE a.ents[i - a.offset]
          BY <2>3, <3>1, <4>3 DEF EntryAt
        <5>2. i < FirstOf(raft, a) <=> i <= a.offset
          BY <3>4, <3>6, <4>1
        <5>3. Held(a)[i] = EntryAt(raft, a, i)
          BY <3>4, <3>5, <5>1, <5>2
        <5> QED
          BY <2>1, <3>3, <5>3
      <4> QED
        BY <4>2, <4>3
    <3> QED
      BY <3>5, <3>7, SameView
  <2> QED
    BY <2>2, <2>3
<1> QED
  BY <1>3, <1>4

-----------------------------------------------------------------------------
(* The file behind the memory.                                              *)

(* What m reads of the log is what g holds, as far as it reads: after a     *)
(* snapshot record that took entries with it, the replay of the file is     *)
(* shorter than the memory, or fails.                                       *)
Trails(m, g) ==
  m.ok =>
    /\ m.offset = g.offset /\ m.hs = g.hs /\ LastIndex(m) <= LastIndex(g)
    /\ \A i \in 1 .. LastIndex(m) : Held(m)[i] = Held(g)[i]

WrittenBehind(w) ==
  LET records == SaveRecords(rd.ents, rd.hs) IN
  /\ w <= Len(records) /\ todo = SubSeq(records, w + 1, Len(records))
  /\ Trails(Replay(file), Partly(w))

Trailing ==
  /\ pc = "save" => \E w \in Nat : WrittenBehind(w)
  /\ pc \notin {"save", "restore"} => Trails(Replay(file), mem)
  /\ pc = "restore" /\ Replay(file).ok =>
       Replay(file).offset <= raft.applied /\ Replay(file).hs = HardState

Trail == status = "up" /\ Undisturbed => Trailing

LEMMA TrailsItself ==
  ASSUME NEW m, IsMemory(m)
  PROVE  Trails(m, m)
<1>1. LastIndex(m) \in Nat
  BY HeldIs
<1> QED
  BY <1>1 DEF Trails

(* One more entry.                                                          *)
LEMMA TrailsEntry ==
  ASSUME NEW m, IsMemory(m), m.ok, NEW g, IsMemory(g), g.ok, Trails(m, g),
         NEW e \in Entry, g.offset < e.index, e.index <= LastIndex(g) + 1,
         NEW a, a = MemAppend(m, <<e>>), NEW b, b = MemAppend(g, <<e>>)
  PROVE  Trails(a, b)
<1>1. PICK first \in Nat \ {0} : first = e.index
  BY LogFacts
<1>2. PICK one : one = <<e>>
  OBVIOUS
<1>3. one \in Seq(Entry) /\ Len(one) = 1 /\ one[1] = e /\ one # <<>>
  BY ONLY <1>2, e \in Entry
<1>4. Successive(one, first)
  BY <1>1, <1>3 DEF Successive
<1>5. a = MemAppend(m, one) /\ b = MemAppend(g, one)
  BY <1>2, Zenon
<1> SUFFICES ASSUME a.ok
             PROVE  /\ a.offset = b.offset /\ a.hs = b.hs /\ LastIndex(a) <= LastIndex(b)
                    /\ \A i \in 1 .. LastIndex(a) : Held(a)[i] = Held(b)[i]
  BY DEF Trails
<1>6. /\ m.offset = g.offset /\ m.hs = g.hs /\ LastIndex(m) <= LastIndex(g)
      /\ \A i \in 1 .. LastIndex(m) : Held(m)[i] = Held(g)[i]
  BY DEF Trails
<1>7. LastIndex(m) \in Nat /\ LastIndex(g) \in Nat /\ m.offset \in Nat
  BY HeldIs
<1>8. m.offset < first /\ g.offset < first /\ first <= LastIndex(g) + 1
  BY <1>1, <1>6
<1>9. first <= LastIndex(m) + 1
  <2>1. SUFFICES ASSUME first > LastIndex(m) + 1 PROVE ~a.ok
    BY <1>7
  <2>2. ~(one[1].index < FirstIndex(m))
    BY <1>1, <1>3, <1>7, <1>8 DEF FirstIndex
  <2>3. SubSeq(one, 0 + 1, Len(one)) = one
    BY <1>3, SubSeqFull
  <2>4. one[1].index > LastIndex(m) + 1
    BY <1>1, <1>3, <2>1
  <2>5. a = [m EXCEPT !.ok = FALSE]
    BY <1>3, <1>5, <2>2, <2>3, <2>4, Zenon DEF MemAppend
  <2> QED
    BY <2>5 DEF IsMemory
<1>10. /\ IsMemory(MemAppend(m, one)) /\ MemAppend(m, one).ok
       /\ MemAppend(m, one).offset = m.offset /\ MemAppend(m, one).snap = m.snap
       /\ MemAppend(m, one).hs = m.hs
       /\ one = <<>> => MemAppend(m, one) = m
       /\ one # <<>> => LastIndex(MemAppend(m, one)) = first + Len(one) - 1
  BY <1>4, <1>8, <1>9, AppendFits
<1>11. /\ IsMemory(MemAppend(g, one)) /\ MemAppend(g, one).ok
       /\ MemAppend(g, one).offset = g.offset /\ MemAppend(g, one).snap = g.snap
       /\ MemAppend(g, one).hs = g.hs
       /\ one = <<>> => MemAppend(g, one) = g
       /\ one # <<>> => LastIndex(MemAppend(g, one)) = first + Len(one) - 1
  BY <1>4, <1>8, AppendFits
<1>12. Extended(a, m, one, first)
  BY <1>3, <1>4, <1>5, <1>8, <1>9, HeldAppended
<1>13. Extended(b, g, one, first)
  BY <1>3, <1>4, <1>5, <1>8, HeldAppended
<1>14. LastIndex(a) = first /\ LastIndex(b) = first
  BY <1>3, <1>12, <1>13 DEF Extended
<1>15. ASSUME NEW i \in 1 .. first PROVE Held(a)[i] = Held(b)[i]
  <2>1. /\ Held(a)[i] = IF i < first THEN Held(m)[i] ELSE one[i - first + 1]
        /\ Held(b)[i] = IF i < first THEN Held(g)[i] ELSE one[i - first + 1]
    BY <1>12, <1>13, <1>14 DEF Extended
  <2>2. i < first => i \in 1 .. LastIndex(m)
    BY <1>7, <1>9
  <2> QED
    BY <1>6, <2>1, <2>2
<1>16. a.offset = b.offset /\ a.hs = b.hs
  BY <1>5, <1>6, <1>10, <1>11, Zenon
<1>17. first <= first
  OBVIOUS
<1> QED
  BY <1>14, <1>15, <1>16, <1>17, Zenon

(* Another hard state, another snapshot beside the same entries.            *)
LEMMA TrailsBeside ==
  ASSUME NEW m, NEW g, Trails(m, g), NEW a, NEW b, a.ok => m.ok,
         a.offset = m.offset, a.ents = m.ents, b.offset = g.offset, b.ents = g.ents,
         (a.hs = m.hs /\ b.hs = g.hs) \/ a.hs = b.hs
  PROVE  Trails(a, b)
<1>1. Held(a) = Held(m) /\ LastIndex(a) = LastIndex(m)
  BY HeldSame
<1>2. Held(b) = Held(g) /\ LastIndex(b) = LastIndex(g)
  BY HeldSame
<1> QED
  BY <1>1, <1>2 DEF Trails

(* A snapshot in place of all entries, beside a log that goes on.           *)
LEMMA TrailsSnapshot ==
  ASSUME NEW m, m.ents = <<>>, NEW g, IsMemory(g), m.offset = g.offset, m.hs = g.hs
  PROVE  Trails(m, g)
<1>1. /\ LastIndex(g) \in Nat /\ IsSeq(Held(g)) /\ Len(Held(g)) = LastIndex(g)
      /\ g.offset \in Nat /\ g.offset <= LastIndex(g) /\ g.offset <= Len(GroupLog)
      /\ \A i \in 1 .. LastIndex(g) :
           Held(g)[i] = IF i <= g.offset THEN GroupLog[i] ELSE g.ents[i - g.offset]
  BY HeldIs
<1>2. LastIndex(m) = m.offset /\ Held(m) = [i \in 1 .. m.offset |-> GroupLog[i]]
  BY <1>1, HeldCompacted
<1>3. ASSUME NEW i \in 1 .. m.offset PROVE Held(m)[i] = Held(g)[i]
  <2>1. i \in 1 .. LastIndex(g) /\ i <= g.offset
    BY <1>1
  <2> QED
    BY <1>1, <1>2, <2>1
<1> QED
  BY <1>1, <1>2, <1>3 DEF Trails

(* A snapshot record: what is read then.                                    *)
LEMMA SnapshotRead ==
  ASSUME Inv, status = "up", NEW s, s.index \in Nat, NEW r, r = RecordSnapshot(s),
         NEW f, f = WALAppend(file, r), Replay(f).ok,
         Replay(file).ok => Replay(file).offset < s.index
  PROVE  /\ Replay(file).ok /\ Replay(f).offset = s.index /\ Replay(f).ents = <<>>
         /\ Replay(f).hs = Replay(file).hs
<1>1. IsSeq(file) /\ Iterate(file).ok
  BY DEF Inv, Stored, Running
<1>2. PICK m : m = Replay(file)
  OBVIOUS
<1>3. Replay(f) = ReplayRecord(m, r)
  BY <1>1, <1>2, ReplayAppend
<1>4. m.ok
  BY <1>3 DEF ReplayRecord
<1>5. IsMemory(m) /\ m.offset = m.snap.index /\ m.offset \in Nat
  BY <1>2, <1>4, StoredMemory
<1>6. r.type = "snapshot" /\ r.data = s
  BY DEF RecordSnapshot
<1>7. ~SnapOutOfDate(m, s.index)
  BY <1>2, <1>4, <1>5 DEF SnapOutOfDate
<1>8. Replay(f) = MemApplySnapshot(m, s)
  BY <1>3, <1>4, <1>6, <1>7 DEF ReplayRecord
<1> QED
  BY <1>2, <1>4, <1>5, <1>8 DEF MemApplySnapshot, IsMemory

LEMMA TakeReadyTrails ==
  ASSUME Inv, Trailing, TakeReady
  PROVE  Trailing'
<1>1. /\ status = "up" /\ pc = "ready" /\ pc' = "save" /\ rd'.ents = raft.unst
      /\ todo' = SaveRecords(rd'.ents, rd'.hs) /\ UNCHANGED <<file, mem, raft>>
  BY DEF TakeReady, At, InLoop
<1>2. Trails(Replay(file), mem) /\ IsRaft(raft)
  BY <1>1 DEF Trailing, Inv, Shapes
<1>3. WrittenBehind(0)'
  <2>1. PICK es : es = rd'.ents
    OBVIOUS
  <2>2. es \in Seq(Entry) /\ Len(es) \in Nat
    BY <1>1, <1>2, <2>1 DEF IsRaft, Successive
  <2>3. PICK records : records = SaveRecords(es, rd'.hs)
    OBVIOUS
  <2>4. IsSeq(records)
    BY <2>2, <2>3, SaveRecordsList
  <2>5. PICK S : records \in Seq(S)
    BY <2>4 DEF IsSeq
  <2>6. SubSeq(records, 0 + 1, Len(records)) = records /\ 0 <= Len(records)
    BY <2>5, SubSeqFull
  <2>7. SubSeq(es, 1, 0) = <<>>
    BY <2>2
  <2>8. MemAppend(mem, <<>>) = mem
    BY DEF MemAppend
  <2>9. Partly(0)' = mem
    <3>1. Partly(0)' = IF 0 <= Len(rd'.ents) THEN MemAppend(mem', SubSeq(rd'.ents, 1, 0))
                       ELSE SaveMemory(mem', rd'.ents, rd'.hs)
      BY DEF Partly
    <3>2. 0 <= Len(es) /\ mem' = mem
      BY <1>1, <2>2
    <3> QED
      BY <2>1, <2>7, <2>8, <3>1, <3>2, Zenon
  <2> QED
    BY <1>1, <1>2, <2>1, <2>3, <2>6, <2>9 DEF WrittenBehind
<1>4. \E w \in Nat : WrittenBehind(w)'
  BY <1>3
<1> QED
  BY <1>1, <1>4 DEF Trailing

LEMMA WriteRecordTrails ==
  ASSUME Inv, Paced, Trailing, WriteRecord
  PROVE  Trailing'
<1>1. /\ status = "up" /\ pc = "save" /\ todo # <<>>
      /\ file' = WALAppend(file, Head(todo)) /\ todo' = Tail(todo)
      /\ UNCHANGED <<status, raft, mem, pc, rd>>
  BY DEF WriteRecord, At, InLoop
<1>2. PICK es, h, records : es = rd.ents /\ h = rd.hs /\ records = SaveRecords(es, h)
  OBVIOUS
<1>3. PICK first \in Nat :
           /\ Successive(rd.ents, first) /\ Len(rd.ents) \in Nat
           /\ rd.ents # <<>> =>
                /\ mem.offset < first /\ first <= LastIndex(mem) + 1
                /\ raft.hs.commit < first /\ LastOf(raft, mem) = first + Len(rd.ents) - 1
  BY <1>1, Saveable
<1>4. es \in Seq(Entry)
  BY <1>2, <1>3 DEF Successive
<1>5. /\ IsSeq(records) /\ Len(records) = Len(es) + (IF h = NoHardState THEN 0 ELSE 1)
      /\ \A i \in 1 .. Len(es) : records[i] = RecordEntry(es[i])
      /\ h # NoHardState => records[Len(es) + 1] = RecordHardState(h)
  <2>1. records = SaveRecords(es, h)
    BY <1>2
  <2> QED
    BY ONLY <1>4, <2>1, SaveRecordsList
<1>6. PICK S : records \in Seq(S)
  BY <1>5 DEF IsSeq
<1>7. PICK n \in Nat, l \in Nat : n = Len(es) /\ l = Len(records)
  BY <1>2, <1>3, <1>6
<1>8. PICK w \in Nat : WrittenBehind(w)
  BY <1>1 DEF Trailing
<1>9. w <= l /\ todo = SubSeq(records, w + 1, l) /\ Trails(Replay(file), Partly(w))
  BY <1>2, <1>7, <1>8 DEF WrittenBehind
<1>10. w < l
  <2> SUFFICES ASSUME w = l PROVE todo = <<>>
    BY <1>1, <1>9
  <2> QED
    BY <1>6, <1>7, <1>9
<1>11. Head(todo) = records[w + 1] /\ Tail(todo) = SubSeq(records, (w + 1) + 1, l)
  <2>1. w + 1 \in Nat \ {0} /\ w + 1 <= l /\ w + 1 \in 1 .. Len(records) + 1 /\ l \in (w + 1) .. Len(records)
    BY <1>7, <1>10
  <2> QED
    BY <1>6, <1>7, <1>9, <2>1
<1>12. PICK x, m : x = records[w + 1] /\ m = Replay(file)
  OBVIOUS
<1>13. Replay(file') = ReplayRecord(m, x)
  <2>1. IsSeq(file) /\ Iterate(file).ok
    BY <1>1 DEF Inv, Stored, Running
  <2> QED
    BY <1>1, <1>11, <1>12, <2>1, ReplayAppend
<1>14. PICK g : g = MemAppend(mem, SubSeq(es, 1, w))
  OBVIOUS
<1>15. w <= n
  BY <1>5, <1>7, <1>10
<1>16. Trails(m, g)
  BY <1>2, <1>7, <1>9, <1>12, <1>14, <1>15 DEF Partly
<1>17. g.ok
  BY <1>1, <1>2, <1>7, <1>14, <1>15, PartFits
<1>18. PICK next : next = IF w + 1 <= n THEN MemAppend(mem, SubSeq(es, 1, w + 1))
                          ELSE SaveMemory(mem, es, h)
  OBVIOUS
<1>19. Trails(ReplayRecord(m, x), next)
  <2>1. CASE ~m.ok
    BY <2>1 DEF ReplayRecord, Trails
  <2>2. CASE m.ok /\ w < n
    <3>1. w + 1 \in 1 .. Len(es) /\ w + 1 <= n
      BY <1>7, <2>2
    <3>2. x = RecordEntry(es[w + 1])
      BY <1>5, <1>12, <3>1
    <3>3. PICK e : e = es[w + 1]
      OBVIOUS
    <3>4. ReplayRecord(m, x) = MemAppend(m, <<e>>)
      BY <2>2, <3>2, <3>3 DEF ReplayRecord, RecordEntry
    <3>5. IsMemory(mem) /\ mem.ok /\ es # <<>>
      BY <1>7, <2>2 DEF Inv, Shapes
    <3>6. MemAppend(MemAppend(mem, SubSeq(es, 1, w)), <<es[w + 1]>>)
            = MemAppend(mem, SubSeq(es, 1, w + 1))
      BY <1>2, <1>3, <1>7, <2>2, <3>5, AppendOne
    <3>7. next = MemAppend(g, <<e>>)
      BY <1>14, <1>18, <3>1, <3>3, <3>6, Zenon
    <3>8. e \in Entry /\ e.index = first + w
      BY <1>2, <1>3, <1>4, <3>1, <3>3 DEF Successive
    <3>9. mem.offset \in Nat /\ LastIndex(mem) \in Nat /\ mem.offset < first /\ first <= LastIndex(mem) + 1
      BY <1>2, <1>3, <3>5, Numbers
    <3>10. IsMemory(g) /\ g.offset = mem.offset
           /\ LastIndex(g) = IF w = 0 THEN LastIndex(mem) ELSE first + w - 1
      <4>1. PICK p : p = SubSeq(es, 1, w)
        OBVIOUS
      <4>2. Successive(p, first) /\ Len(p) = w
        <5>1. /\ Successive(SubSeq(es, 1, w), first)
              /\ Len(SubSeq(es, 1, w)) = IF w >= 1 THEN w ELSE 0
          BY <1>2, <1>3, <1>7, <1>15, CutBefore
        <5> QED
          BY <4>1, <5>1
      <4>3. /\ IsMemory(MemAppend(mem, p)) /\ MemAppend(mem, p).ok
            /\ MemAppend(mem, p).offset = mem.offset /\ MemAppend(mem, p).snap = mem.snap
            /\ MemAppend(mem, p).hs = mem.hs
            /\ p = <<>> => MemAppend(mem, p) = mem
            /\ p # <<>> => LastIndex(MemAppend(mem, p)) = first + Len(p) - 1
        BY <3>5, <3>9, <4>2, AppendFits
      <4>4. g = MemAppend(mem, p)
        BY <1>14, <4>1, Zenon
      <4>5. p = <<>> <=> w = 0
        BY <4>2 DEF Successive
      <4> QED
        BY <4>2, <4>3, <4>4, <4>5
    <3>11. g.offset < e.index /\ e.index <= LastIndex(g) + 1
      BY <3>8, <3>9, <3>10
    <3>12. IsMemory(m)
      BY <1>1, <1>12, <2>2, StoredMemory
    <3> QED
      BY <1>16, <1>17, <2>2, <3>4, <3>7, <3>8, <3>10, <3>11, <3>12, TrailsEntry
  <2>3. CASE m.ok /\ w = n
    <3>1. h # NoHardState /\ w + 1 = Len(es) + 1
      BY <1>5, <1>7, <1>10, <2>3
    <3>2. x = RecordHardState(h)
      BY <1>5, <1>12, <3>1
    <3>3. ReplayRecord(m, x) = [m EXCEPT !.hs = h]
      BY <2>3, <3>2 DEF ReplayRecord, RecordHardState, MemSetHardState
    <3>4. SubSeq(es, 1, w) = es
      BY <1>4, <1>7, <2>3, SubSeqFull
    <3>5. next = [g EXCEPT !.hs = h]
      <4>1. ~(w + 1 <= n)
        BY <2>3
      <4>2. SaveMemory(mem, es, h) = MemSetHardState(g, h)
        BY <1>14, <1>17, <3>1, <3>4 DEF SaveMemory
      <4> QED
        BY <1>18, <4>1, <4>2 DEF MemSetHardState
    <3>6. IsMemory(m)
      BY <1>1, <1>12, <2>3, StoredMemory
    <3>7. DOMAIN g = DOMAIN mem
      <4>1. g = MemAppend(mem, SubSeq(es, 1, w))
        BY <1>14
      <4> QED
        BY <4>1 DEF MemAppend
    <3>8. IsMemory(mem)
      BY DEF Inv, Shapes
    <3>9. PICK a, b : a = [m EXCEPT !.hs = h] /\ b = [g EXCEPT !.hs = h]
      OBVIOUS
    <3>10. a.ok = m.ok /\ a.offset = m.offset /\ a.ents = m.ents /\ a.hs = h
      BY <3>6, <3>9 DEF IsMemory
    <3>11. b.offset = g.offset /\ b.ents = g.ents /\ b.hs = h
      BY <3>7, <3>8, <3>9 DEF IsMemory
    <3>12. Trails(a, b)
      BY <1>16, <3>10, <3>11, TrailsBeside
    <3> QED
      BY <3>3, <3>5, <3>9, <3>12
  <2> QED
    BY <1>15, <2>1, <2>2, <2>3
<1>20. WrittenBehind(w + 1)'
  <2>1. Partly(w + 1)' = next
    BY <1>1, <1>2, <1>7, <1>18 DEF Partly
  <2> QED
    BY <1>1, <1>2, <1>7, <1>10, <1>11, <1>13, <1>19, <2>1 DEF WrittenBehind
<1>21. \E k \in Nat : WrittenBehind(k)'
  BY <1>20
<1> QED
  BY <1>1, <1>21 DEF Trailing

LEMMA AllWritten ==
  ASSUME Inv, Paced, Trailing, status = "up", pc = "save", todo = <<>>
  PROVE  Trails(Replay(file), SaveMemory(mem, rd.ents, rd.hs))
<1>2. PICK es, h, records : es = rd.ents /\ h = rd.hs /\ records = SaveRecords(es, h)
  OBVIOUS
<1>3. PICK first \in Nat : Successive(es, first) /\ Len(es) \in Nat
  BY <1>2, Saveable
<1>4. es \in Seq(Entry)
  BY <1>3 DEF Successive
<1>5. /\ IsSeq(records) /\ Len(records) = Len(es) + (IF h = NoHardState THEN 0 ELSE 1)
      /\ \A i \in 1 .. Len(es) : records[i] = RecordEntry(es[i])
      /\ h # NoHardState => records[Len(es) + 1] = RecordHardState(h)
  <2>1. records = SaveRecords(es, h)
    BY <1>2
  <2> QED
    BY ONLY <1>4, <2>1, SaveRecordsList
<1>6. PICK S : records \in Seq(S)
  BY <1>5 DEF IsSeq
<1>7. PICK n \in Nat, l \in Nat : n = Len(es) /\ l = Len(records)
  BY <1>3, <1>6
<1>8. PICK w \in Nat : WrittenBehind(w)
  BY DEF Trailing
<1>9. w <= l /\ todo = SubSeq(records, w + 1, l) /\ Trails(Replay(file), Partly(w))
  BY <1>2, <1>7, <1>8 DEF WrittenBehind
<1>10. w = l
  <2> SUFFICES ASSUME w < l PROVE FALSE
    BY <1>9
  <2>1. Len(SubSeq(records, w + 1, l)) = l - w
    BY <1>6, <1>7
  <2> QED
    BY <1>9, <2>1
<1>11. Partly(w) = SaveMemory(mem, es, h)
  <2>1. CASE h = NoHardState
    <3>1. w = n
      BY <1>5, <1>7, <1>10, <2>1
    <3>2. SubSeq(es, 1, w) = es
      BY <1>4, <1>7, <3>1, SubSeqFull
    <3>3. Partly(w) = MemAppend(mem, es)
      <4>1. w <= Len(rd.ents)
        BY <1>2, <1>7, <3>1
      <4> QED
        BY <1>2, <3>2, <4>1, Zenon DEF Partly
    <3> QED
      BY <2>1, <3>3 DEF SaveMemory
  <2>2. CASE h # NoHardState
    <3>1. ~(w <= n)
      BY <1>5, <1>7, <1>10, <2>2
    <3> QED
      BY <1>2, <1>7, <3>1 DEF Partly
  <2> QED
    BY <2>1, <2>2
<1> QED
  BY <1>2, <1>9, <1>11

LEMMA CreateSnapshotTrails ==
  ASSUME Inv, Trailing, CreateSnapshot
  PROVE  Trailing'
<1>1. PICK s : /\ pc = "snapshot" /\ pc' = "compact" /\ mem' = MemCreateSnapshot(mem, s)
               /\ UNCHANGED file
  BY DEF CreateSnapshot, At
<1>2. Trails(Replay(file), mem) /\ IsMemory(mem)
  BY <1>1 DEF Trailing, Inv, Shapes
<1>3. mem'.offset = mem.offset /\ mem'.ents = mem.ents /\ mem'.hs = mem.hs
  BY <1>1, <1>2 DEF MemCreateSnapshot, IsMemory
<1>4. Trails(Replay(file), mem')
  BY <1>2, <1>3, TrailsBeside
<1> QED
  BY <1>1, <1>4 DEF Trailing

LEMMA CompactTrails ==
  ASSUME Inv, Inv', Paced, Trailing, Compact
  PROVE  Trailing'
<1>1. /\ status = "up" /\ pc = "compact" /\ pc' \in {"install", "advance"}
      /\ file' = WALAppend(file, Head(todo)) /\ mem' = MemCompact(mem, mem.snap.index)
  BY DEF Compact, At, AfterSnapshot
<1>2. IsSnapshot(mem.snap) /\ todo = <<RecordSnapshot(mem.snap)>> /\ mem.offset < mem.snap.index
  BY <1>1 DEF Inv, InRound, Paced
<1>3. PICK s, x : s = mem.snap /\ x = RecordSnapshot(s)
  OBVIOUS
<1>4. Head(todo) = x /\ s.index \in Nat
  BY <1>2, <1>3, LogFacts DEF IsSnapshot, Index
<1>5. Trails(Replay(file), mem)
  BY <1>1 DEF Trailing
<1>6. PICK a : a = mem'
  OBVIOUS
<1>7. a.offset = s.index /\ a.hs = mem.hs /\ IsMemory(a)
  <2>1. a = MemCompact(mem, mem.snap.index)
    BY <1>1, <1>6
  <2>2. a.offset = mem.snap.index /\ a.hs = mem.hs
    BY <1>1, <2>1, CompactedIs
  <2> QED
    BY <1>3, <1>6, <2>2 DEF Inv, Shapes
<1>8. Trails(Replay(file'), a)
  <2> SUFFICES ASSUME Replay(file').ok PROVE Trails(Replay(file'), a)
    BY DEF Trails
  <2>1. Replay(file).ok => Replay(file).offset < s.index /\ Replay(file).hs = mem.hs
    BY <1>2, <1>3, <1>5 DEF Trails
  <2>2. PICK f : f = WALAppend(file, x)
    OBVIOUS
  <2>3. file' = f
    BY <1>1, <1>4, <2>2
  <2>4. /\ Replay(file).ok /\ Replay(f).offset = s.index /\ Replay(f).ents = <<>>
        /\ Replay(f).hs = Replay(file).hs
    BY <1>1, <1>3, <1>4, <2>1, <2>2, <2>3, SnapshotRead
  <2>5. Trails(Replay(f), a)
    BY <1>7, <2>1, <2>4, TrailsSnapshot
  <2> QED
    BY <2>3, <2>5
<1> QED
  BY <1>1, <1>6, <1>8 DEF Trailing

LEMMA InstallTrails ==
  ASSUME Inv, Paced, Trailing, Install
  PROVE  Trailing'
<1>1. /\ pc = "install" /\ pc' = "restore" /\ UNCHANGED <<file, raft, rd>>
  BY DEF Install, At, InLoop
<1>2. Settled(mem) /\ Trails(Replay(file), mem)
  BY <1>1 DEF Paced, Trailing
<1>3. HardState' = HardState
  BY <1>1 DEF HardState
<1> QED
  BY <1>1, <1>2, <1>3 DEF Trailing, Trails, Settled

LEMMA RestoreTrails ==
  ASSUME Inv, Paced, Trailing, Restore
  PROVE  Trailing'
<1>1. /\ status = "up" /\ pc = "restore" /\ pc' = "advance" /\ UNCHANGED mem
      /\ file' = IF todo = <<>> THEN file ELSE WALAppend(file, Head(todo))
  BY DEF Restore, At, InLoop
<1>2. PICK s, x : s = rd.snap /\ x = RecordSnapshot(s)
  OBVIOUS
<1>3. /\ todo # <<>> /\ mem.hs = HardState /\ mem.offset = s.index
      /\ s # NoSnapshot /\ s = raft.snap /\ todo = <<x>>
  BY <1>1, <1>2 DEF Inv, InRound, Paced
<1>4. IsMemory(mem) /\ IsRaft(raft) /\ raft.applied \in Nat
  BY Numbers
<1>5. s.index \in Nat /\ raft.applied < s.index
  BY <1>3, <1>4, LogFacts DEF IsRaft, IsSnapshot, Index
<1>6. Replay(file).ok => Replay(file).offset <= raft.applied /\ Replay(file).hs = HardState
  BY <1>1 DEF Trailing
<1>7. Replay(file).ok => Replay(file).offset < s.index
  BY <1>1, <1>4, <1>5, <1>6, StoredMemory
<1>8. Trails(Replay(file'), mem)
  <2> SUFFICES ASSUME Replay(file').ok PROVE Trails(Replay(file'), mem)
    BY DEF Trails
  <2>1. PICK f : f = WALAppend(file, x)
    OBVIOUS
  <2>2. file' = f
    BY <1>1, <1>3, <2>1
  <2>3. /\ Replay(file).ok /\ Replay(f).offset = s.index /\ Replay(f).ents = <<>>
        /\ Replay(f).hs = Replay(file).hs
    BY <1>1, <1>2, <1>5, <1>7, <2>1, <2>2, SnapshotRead
  <2>4. Trails(Replay(f), mem)
    BY <1>3, <1>4, <1>6, <2>3, TrailsSnapshot
  <2> QED
    BY <2>2, <2>4
<1> QED
  BY <1>1, <1>8 DEF Trailing

(* Messages leave the storage and the applier alone.                        *)
LEMMA MessagesLeave ==
  ASSUME Messages
  PROVE  /\ status = "up" /\ pc = "ready"
         /\ Stop(file) \/ UNCHANGED <<status, disk, pc, rd, state, covered, harm>>
<1>1. PICK t \in Term :
        \/ \E i \in Index : \E c \in {0, i} : RecvEntry(t, i, c)
        \/ \E i \in Index : RecvSnapshot(t, i)
        \/ \E c \in Index : RecvHeartbeat(t, c)
        \/ \E c \in Index : RecvHeartbeatPanic(t, c)
        \/ \E c \in Candidates : RecvVote(t, c)
  BY DEF Messages
<1>2. ASSUME NEW v, Receive, Received(v)
      PROVE  /\ status = "up" /\ pc = "ready"
             /\ UNCHANGED <<status, disk, pc, rd, state, covered, harm>>
  BY <1>2 DEF Receive, Received
<1>3. ASSUME NEW i \in Index, NEW c \in {0, i}, RecvEntry(t, i, c)
      PROVE  \E v : Receive /\ Received(v)
  BY <1>3 DEF RecvEntry
<1>4. ASSUME NEW i \in Index, RecvSnapshot(t, i) PROVE \E v : Receive /\ Received(v)
  BY <1>4 DEF RecvSnapshot
<1>5. ASSUME NEW c \in Index, RecvHeartbeat(t, c) PROVE \E v : Receive /\ Received(v)
  BY <1>5 DEF RecvHeartbeat, HeartbeatCommit
<1>6. ASSUME NEW c \in Candidates, RecvVote(t, c) PROVE \E v : Receive /\ Received(v)
  BY <1>6 DEF RecvVote
<1>7. ASSUME NEW c \in Index, RecvHeartbeatPanic(t, c)
      PROVE  status = "up" /\ pc = "ready" /\ Stop(file)
  BY <1>7 DEF RecvHeartbeatPanic, HeartbeatCommit, Receive
<1> QED
  BY <1>1, <1>2, <1>3, <1>4, <1>5, <1>6, <1>7

LEMMA TrailNext == Inv /\ Inv' /\ Pace /\ Trail /\ [Next]_vars => Trail'
<1> SUFFICES ASSUME Inv, Inv', Pace, Trail, [Next]_vars PROVE Trail'
  OBVIOUS
<1>1. ASSUME NEW f, Stop(f) PROVE Trail'
  BY <1>1 DEF Stop, Trail
<1>2. ASSUME status = "up", status' = "up", harm \subseteq harm',
             Paced /\ Trailing => Trailing'
      PROVE  Trail'
  BY <1>2 DEF Pace, Trail, Undisturbed
<1>3. CASE TakeReady
  <2>1. status = "up" /\ status' = "up" /\ harm \subseteq harm'
    BY <1>3 DEF TakeReady, At, InLoop
  <2> QED
    BY <1>2, <1>3, <2>1, TakeReadyTrails
<1>4. CASE WriteRecord
  <2>1. status = "up" /\ status' = "up" /\ harm \subseteq harm'
    BY <1>4 DEF WriteRecord, At, InLoop
  <2> QED
    BY <1>2, <1>4, <2>1, WriteRecordTrails
<1>5. CASE Save
  <2>1. status = "up" /\ status' = "up" /\ harm \subseteq harm'
    BY <1>5 DEF Save, At, InLoop
  <2>2. /\ pc = "save" /\ todo = <<>> /\ pc' = "send" /\ UNCHANGED file
        /\ mem' = SaveMemory(mem, rd.ents, rd.hs)
    BY <1>5 DEF Save, At
  <2>3. Paced /\ Trailing => Trailing'
    BY <2>1, <2>2, AllWritten DEF Trailing
  <2> QED
    BY <1>2, <2>1, <2>3
<1>6. CASE Send \/ Apply
  <2>1. status = "up" /\ status' = "up" /\ harm \subseteq harm'
    BY <1>6 DEF Send, Apply, At, InLoop
  <2>2. /\ pc \in {"send", "apply"} /\ UNCHANGED <<file, mem>>
        /\ pc' \in {"apply", "snapshot", "install", "advance"}
    BY <1>6 DEF Send, Apply, At, disk, AfterApply, AfterSnapshot
  <2>3. Paced /\ Trailing => Trailing'
    BY <2>2 DEF Trailing
  <2> QED
    BY <1>2, <2>1, <2>3
<1>7. CASE CreateSnapshot
  <2>1. status = "up" /\ status' = "up" /\ harm \subseteq harm'
    BY <1>7 DEF CreateSnapshot, At, InLoop
  <2> QED
    BY <1>2, <1>7, <2>1, CreateSnapshotTrails
<1>8. CASE Compact
  <2>1. status = "up" /\ status' = "up" /\ harm \subseteq harm'
    BY <1>8 DEF Compact, At, InLoop
  <2> QED
    BY <1>2, <1>8, <2>1, CompactTrails
<1>9. CASE Install
  <2>1. status = "up" /\ status' = "up" /\ harm \subseteq harm'
    BY <1>9 DEF Install, At, InLoop
  <2> QED
    BY <1>2, <1>9, <2>1, InstallTrails
<1>10. CASE Restore
  <2>1. status = "up" /\ status' = "up" /\ harm \subseteq harm'
    BY <1>10 DEF Restore, At, InLoop
  <2> QED
    BY <1>2, <1>10, <2>1, RestoreTrails
<1>11. CASE Advance
  <2>1. status = "up" /\ status' = "up" /\ harm \subseteq harm'
    BY <1>11 DEF Advance, At, history
  <2>2. pc = "advance" /\ pc' = "ready" /\ UNCHANGED <<file, mem>>
    BY <1>11 DEF Advance, At, disk
  <2>3. Paced /\ Trailing => Trailing'
    BY <2>2 DEF Trailing
  <2> QED
    BY <1>2, <2>1, <2>3
<1>12. CASE ReadyPanic \/ SavePanic \/ Crash
  BY <1>1, <1>12 DEF ReadyPanic, SavePanic, Crash
<1>13. CASE Messages
  <2>1. /\ status = "up" /\ pc = "ready"
        /\ Stop(file) \/ UNCHANGED <<status, disk, pc, rd, state, covered, harm>>
    BY <1>13, MessagesLeave
  <2> QED
    BY <1>1, <2>1 DEF Trail, Trailing, Undisturbed, disk
<1>14. CASE Restart
  <2>1. status = "down" /\ status' = "up" /\ mem' = Replay(file) /\ UNCHANGED <<file, pc>>
    BY <1>14 DEF Restart
  <2>2. pc = "ready" /\ IsMemory(mem')
    BY <2>1 DEF Inv, Shapes
  <2>3. IsMemory(Replay(file))
    BY <2>1, <2>2
  <2>4. Trails(Replay(file), Replay(file))
    BY <2>3, TrailsItself
  <2> QED
    BY <2>1, <2>2, <2>4 DEF Trail, Trailing
<1>15. CASE FailToStart
  BY <1>15 DEF FailToStart, Trail
<1>16. CASE UNCHANGED vars
  <2>1. UNCHANGED <<status, file, mem, raft, pc, rd, todo, harm>>
    BY <1>16 DEF vars
  <2>2. HardState' = HardState
    BY <2>1 DEF HardState
  <2>3. ASSUME NEW w \in Nat PROVE WrittenBehind(w)' = WrittenBehind(w)
    <3>1. Partly(w)' = Partly(w)
      BY <2>1 DEF Partly
    <3> QED
      BY <2>1, <3>1 DEF WrittenBehind
  <2> QED
    BY <2>1, <2>2, <2>3 DEF Trail, Trailing, Undisturbed
<1> QED
  BY <1>3, <1>4, <1>5, <1>6, <1>7, <1>8, <1>9, <1>10, <1>11, <1>12, <1>13, <1>14, <1>15,
     <1>16 DEF Next, ReadyLoop

LEMMA TrailInit == Init => Trail
<1> SUFFICES ASSUME Init PROVE Trail
  OBVIOUS
<1>1. file = <<>> /\ mem = NewMemoryStorage /\ pc = "ready"
  BY DEF Init
<1>2. Replay(file) = mem /\ IsMemory(mem)
  BY <1>1, ReplayEmpty, Empties
<1> QED
  BY <1>1, <1>2, TrailsItself DEF Trail, Trailing

(* storage.go:34-63,131-157: whatever a compaction took out of the file, as *)
(* long as the file can be replayed it has the hard state, the compaction   *)
(* and a prefix of the log that the node runs with; while a received        *)
(* snapshot is still to be recorded, the hard state.  A Ready that mixed a  *)
(* snapshot with entries and a crash that cut an install are excepted.      *)
THEOREM FileBehind == Spec => []Trail
<1>1. Init => Trail
  BY TrailInit
<1>2. Inv /\ Inv' /\ Pace /\ Trail /\ [Next]_vars => Trail'
  BY TrailNext
<1> QED
  BY <1>1, <1>2, Invariance, Pacing, PTL DEF Spec

-----------------------------------------------------------------------------
(* The log, step by step of a round.                                        *)

LEMMA ViewSame ==
  ASSUME NEW r, NEW m, NEW h, m.offset = h.offset, m.ents = h.ents
  PROVE  View(r, m) = View(r, h) /\ Held(m) = Held(h)
<1>1. LastOf(r, m) = LastOf(r, h) /\ FirstOf(r, m) = FirstOf(r, h)
  BY DEF LastOf, FirstOf, LastIndex
<1>2. \A i \in 1 .. LastOf(r, h) : EntryAt(r, m, i) = EntryAt(r, h, i)
  BY <1>1 DEF EntryAt
<1> QED
  BY <1>1, <1>2, SameView, HeldSame

LEMMA SaveAgreed ==
  ASSUME Inv, Inv', Paced, AgreedInRound, Save
  PROVE  AgreedInRound'
<1>1. /\ pc = "save" /\ pc' = "send" /\ mem' = SaveMemory(mem, rd.ents, rd.hs)
      /\ UNCHANGED <<raft, rd, promise>>
  BY DEF Save, At, InLoop
<1>2. PICK a : a = mem'
  OBVIOUS
<1>3. IsMemory(a) /\ a = SaveMemory(mem, rd.ents, rd.hs)
  BY <1>1, <1>2 DEF Inv, Shapes
<1>4. View(raft, a) = View(raft, mem)
  BY <1>1, <1>3, SavedView
<1>5. rd.snap = NoSnapshot => Held(a) = View(raft, mem)
  BY <1>1, <1>3, SavedHeld
<1>6. Agrees(View(raft, mem), raft.committed, promise.log)
  BY DEF AgreedInRound
<1>7. View(raft, mem)' = View(raft, a) /\ Held(mem)' = Held(a)
  BY <1>1, <1>2
<1> QED
  BY <1>1, <1>4, <1>5, <1>6, <1>7 DEF AgreedInRound

LEMMA SendAgreed ==
  ASSUME Inv, AgreedInRound, Send, IsSeq(promise.log), OneLine(promise.log)
  PROVE  AgreedInRound' /\ OneLine(promise'.log)
<1>1. /\ pc = "send" /\ pc' = "apply" /\ UNCHANGED <<raft, mem, rd>>
      /\ promise' = IF rd.ack /\ Sent(Peers \ {ID}) # {}
                    THEN [log |-> LogView, term |-> raft.term] ELSE promise
  BY DEF Send, At, InLoop, disk
<1>2. /\ Agrees(View(raft, mem), raft.committed, promise.log)
      /\ rd.snap = NoSnapshot => Held(mem) = View(raft, mem)
  BY <1>1 DEF AgreedInRound
<1>3. View(raft, mem)' = View(raft, mem) /\ Held(mem)' = Held(mem)
  BY <1>1
<1>4. CASE promise' = promise
  BY <1>1, <1>2, <1>3, <1>4 DEF AgreedInRound
<1>5. CASE promise' = [log |-> LogView, term |-> raft.term]
  <2>1. PICK log : log = View(raft, mem)
    OBVIOUS
  <2>2. IsSeq(log) /\ Len(log) \in Nat
    BY <2>1, ViewIs DEF Inv, Shapes
  <2>3. LogView = log
    BY <2>1 DEF LogView, View
  <2>4. promise'.log = log
    BY <1>5, <2>3
  <2>5. Agrees(log, raft.committed, log) /\ OneLine(log)
    BY <1>2, <2>1, <2>2 DEF Agrees
  <2> QED
    BY <1>1, <1>2, <1>3, <2>1, <2>4, <2>5 DEF AgreedInRound
<1> QED
  BY <1>1, <1>4, <1>5

LEMMA ApplyAgreed ==
  ASSUME Inv, AgreedInRound, Apply \/ Restore
  PROVE  AgreedInRound'
<1>1. /\ pc \in {"apply", "restore"} /\ UNCHANGED <<raft, mem, rd, promise>>
      /\ pc' \notin {"ready", "save"}
      /\ pc' \in {"restore", "advance"} => rd.snap = NoSnapshot \/ pc = "restore"
  BY DEF Apply, Restore, AfterApply, AfterSnapshot, At, InLoop, disk
<1>2. View(raft, mem)' = View(raft, mem) /\ Held(mem)' = Held(mem)
  BY <1>1
<1> QED
  BY <1>1, <1>2 DEF AgreedInRound

LEMMA CreateSnapshotAgreed ==
  ASSUME Inv, AgreedInRound, CreateSnapshot
  PROVE  AgreedInRound'
<1> DEFINE last == Last(rd.commits)
           snap == [index |-> last.index, term |-> last.term,
                    voters |-> DefaultVoters, data |-> state]
<1>1. /\ pc = "snapshot" /\ pc' = "compact" /\ UNCHANGED <<raft, rd, promise>>
      /\ mem' = [mem EXCEPT !.snap = snap]
  BY DEF CreateSnapshot, MemCreateSnapshot, At, InLoop
<1>2. PICK a : a = mem'
  OBVIOUS
<1>3. a.offset = mem.offset /\ a.ents = mem.ents
  BY <1>1, <1>2 DEF Inv, Shapes, IsMemory
<1>4. View(raft, a) = View(raft, mem) /\ Held(a) = Held(mem)
  BY <1>3, ViewSame
<1>5. View(raft, mem)' = View(raft, a) /\ Held(mem)' = Held(a)
  BY <1>1, <1>2
<1> QED
  BY <1>1, <1>4, <1>5 DEF AgreedInRound

(* A compaction leaves the log: what it drops is committed.                 *)
LEMMA CompactAgreed ==
  ASSUME Inv, Inv', Paced, AgreedInRound, Compact
  PROVE  AgreedInRound'
<1>1. /\ pc = "compact" /\ UNCHANGED <<raft, rd, promise>> /\ pc' = AfterSnapshot
      /\ mem' = MemCompact(mem, mem.snap.index)
  BY DEF Compact, At, InLoop
<1>2. /\ IsMemory(mem) /\ IsRaft(raft) /\ LastIndex(mem) \in Nat /\ mem.offset \in Nat
      /\ raft.committed \in Nat
  BY Numbers
<1>3. /\ InHand /\ Settled(mem) /\ mem.offset < mem.snap.index
      /\ mem.snap.index = Last(rd.commits).index
      /\ rd.commits # <<>> /\ Last(rd.commits).index \in 1 .. raft.committed
  BY <1>1 DEF Paced, Inv, InRound
<1>4. rd.snap = NoSnapshot /\ raft.snap = NoSnapshot /\ pc' = "advance"
  BY <1>1, <1>3 DEF InHand, AfterSnapshot, Inv, InRound
<1>5. PICK i \in Nat \ {0}, o \in Nat, n \in Nat, l \in Nat :
        i = mem.snap.index /\ o = mem.offset /\ n = Len(mem.ents) /\ l = LastIndex(mem)
  <2>1. mem.snap.index \in Nat \ {0} /\ Len(mem.ents) \in Nat
    BY <1>2, <1>3 DEF IsMemory, Successive
  <2> QED
    BY <1>2, <2>1
<1>6. i <= raft.committed /\ raft.committed <= l /\ o < i /\ l = o + n
  BY <1>2, <1>3, <1>4, <1>5 DEF Settled, LastIndex
<1>7. PICK c : c = mem'
  OBVIOUS
<1>8. c.offset = i /\ c.ents = SubSeq(mem.ents, i - o + 1, n) /\ LastIndex(c) = l
  <2>1. c = MemCompact(mem, mem.snap.index)
    BY <1>1, <1>7
  <2>2. /\ c.ok = mem.ok /\ c.offset = mem.snap.index /\ c.snap = mem.snap /\ c.hs = mem.hs
        /\ c.ents = SubSeq(mem.ents, mem.snap.index - mem.offset + 1, Len(mem.ents))
        /\ LastIndex(c) = IF LastIndex(mem) > mem.snap.index THEN LastIndex(mem)
                          ELSE mem.snap.index
    BY <1>1, <2>1, CompactedIs
  <2>3. i <= l
    BY <1>2, <1>6
  <2> QED
    BY <1>5, <2>2, <2>3
<1>9. ASSUME NEW j \in Nat, i < j, j <= l PROVE c.ents[j - i] = mem.ents[j - o]
  <2>1. mem.ents \in Seq(Entry)
    BY <1>2 DEF IsMemory, Successive
  <2>2. PICK from \in Nat \ {0}, k \in Nat \ {0} :
          from = i - o + 1 /\ k = j - i /\ from <= n /\ k <= n - from + 1 /\ from + k - 1 = j - o
    BY <1>6, <1>9
  <2>3. SubSeq(mem.ents, from, n)[k] = mem.ents[from + k - 1]
    <3>1. \A x \in from .. n : mem.ents[x] \in Entry
      BY <1>5, <2>1
    <3>2. /\ SubSeq(mem.ents, from, n) \in Seq(Entry)
          /\ Len(SubSeq(mem.ents, from, n)) = IF from <= n THEN n - from + 1 ELSE 0
          /\ \A x \in 1 .. n - from + 1 : SubSeq(mem.ents, from, n)[x] = mem.ents[from + x - 1]
      BY <3>1, SubSeqProperties
    <3>3. k \in 1 .. n - from + 1
      BY <2>2
    <3> QED
      BY <3>2, <3>3
  <2> QED
    BY <1>8, <2>2, <2>3
<1>10. /\ Held(mem) = View(raft, mem)
       /\ Agrees(View(raft, mem), raft.committed, promise.log)
  BY <1>1, <1>4 DEF AgreedInRound
<1>11. /\ LastOf(raft, mem) \in Nat /\ IsSeq(View(raft, mem))
       /\ Len(View(raft, mem)) = LastOf(raft, mem)
       /\ \A j \in 1 .. LastOf(raft, mem) : View(raft, mem)[j] = EntryAt(raft, mem, j)
  BY <1>2, ViewIs
<1>12. /\ LastIndex(mem) \in Nat /\ IsSeq(Held(mem)) /\ Len(Held(mem)) = LastIndex(mem)
       /\ mem.offset \in Nat /\ mem.offset <= LastIndex(mem) /\ mem.offset <= Len(GroupLog)
       /\ \A j \in 1 .. LastIndex(mem) :
            Held(mem)[j] = IF j <= mem.offset THEN GroupLog[j] ELSE mem.ents[j - mem.offset]
  BY <1>2, HeldIs
<1>13. LastOf(raft, mem) = l
  BY <1>5, <1>10, <1>11, <1>12
<1>14. ASSUME NEW j \in 1 .. l
       PROVE  EntryAt(raft, mem, j) = IF j <= i THEN GroupLog[j] ELSE c.ents[j - i]
  <2>1. EntryAt(raft, mem, j) = Held(mem)[j] /\ EntryAt(raft, mem, j) = View(raft, mem)[j]
    BY <1>10, <1>11, <1>13
  <2>2. CASE j <= i
    <3>1. j \in 1 .. Len(View(raft, mem)) /\ j <= raft.committed
      BY <1>2, <1>6, <1>11, <1>13, <2>2
    <3> QED
      BY <1>10, <2>1, <2>2, <3>1 DEF Agrees
  <2>3. CASE ~(j <= i)
    <3>1. ~(j <= o) /\ j \in Nat /\ i < j /\ j <= l
      BY <1>6, <2>3
    <3>2. Held(mem)[j] = mem.ents[j - o]
      BY <1>5, <1>12, <3>1
    <3> QED
      BY <1>9, <2>1, <2>3, <3>1, <3>2
  <2> QED
    BY <2>2, <2>3
<1>15. View(raft, c) = View(raft, mem)
  <2>1. LastOf(raft, c) = LastOf(raft, mem)
    BY <1>4, <1>5, <1>8 DEF LastOf
  <2>2. ASSUME NEW j \in 1 .. LastOf(raft, mem) PROVE EntryAt(raft, c, j) = EntryAt(raft, mem, j)
    <3>1. j \in 1 .. l /\ FirstOf(raft, c) = 1 + i /\ (j < 1 + i <=> j <= i)
      BY <1>4, <1>8, <1>13 DEF FirstOf
    <3>2. CASE raft.unst # <<>> /\ j >= raft.unst[1].index
      BY <3>2 DEF EntryAt
    <3>3. CASE ~(raft.unst # <<>> /\ j >= raft.unst[1].index)
      <4>1. EntryAt(raft, c, j) = IF j <= i THEN GroupLog[j] ELSE c.ents[j - i]
        BY <1>8, <3>1, <3>3 DEF EntryAt
      <4> QED
        BY <1>14, <3>1, <4>1
    <3> QED
      BY <3>2, <3>3
  <2> QED
    BY <2>1, <2>2, SameView
<1>16. Held(c) = View(raft, mem)
  <2>1. IsMemory(c)
    BY <1>7 DEF Inv, Shapes
  <2>2. /\ LastIndex(c) \in Nat /\ IsSeq(Held(c)) /\ Len(Held(c)) = LastIndex(c)
        /\ c.offset \in Nat /\ c.offset <= LastIndex(c) /\ c.offset <= Len(GroupLog)
        /\ \A j \in 1 .. LastIndex(c) :
             Held(c)[j] = IF j <= c.offset THEN GroupLog[j] ELSE c.ents[j - c.offset]
    BY <2>1, HeldIs
  <2>3. ASSUME NEW j \in 1 .. LastOf(raft, mem) PROVE Held(c)[j] = View(raft, mem)[j]
    BY <1>8, <1>11, <1>13, <1>14, <2>2
  <2>4. LastIndex(c) = LastOf(raft, mem)
    BY <1>8, <1>13
  <2> QED
    BY <1>2, <2>1, <2>3, <2>4, SameHeld
<1>17. View(raft, mem)' = View(raft, c) /\ Held(mem)' = Held(c)
  BY <1>1, <1>7
<1> QED
  BY <1>1, <1>4, <1>10, <1>15, <1>16, <1>17 DEF AgreedInRound

LEMMA InstallAgreed ==
  ASSUME Inv, Paced, AgreedInRound, Install
  PROVE  AgreedInRound'
<1>1. pc = "install" /\ pc' = "restore" /\ UNCHANGED <<raft, rd, promise>>
  BY DEF Install, At, InLoop
<1>2. InHand /\ IsMemory(mem) /\ IsRaft(raft)
  BY <1>1, Numbers DEF Paced
<1>3. mem' = MemApplySnapshot(mem, rd.snap)
  BY InstallPaces
<1>4. rd.snap # NoSnapshot /\ raft.snap = rd.snap /\ raft.unst = <<>>
  BY <1>1, <1>2 DEF Inv, InRound, InHand
<1>5. PICK i \in Nat : i = raft.snap.index
  BY <1>2, <1>4, LastOfIs
<1>6. PICK c : c = mem'
  OBVIOUS
<1>7. c.offset = i /\ c.ents = <<>>
  BY <1>2, <1>3, <1>4, <1>5, <1>6 DEF MemApplySnapshot, IsMemory
<1>8. Held(c) = [j \in 1 .. i |-> GroupLog[j]]
  BY <1>7, HeldCompacted
<1>9. View(raft, c) = [j \in 1 .. i |-> GroupLog[j]]
  BY <1>4, <1>5, ViewSnapshot
<1>10. View(raft, mem) = [j \in 1 .. i |-> GroupLog[j]]
  BY <1>4, <1>5, ViewSnapshot
<1>11. View(raft, mem)' = View(raft, c) /\ Held(mem)' = Held(c)
  BY <1>1, <1>6
<1> QED
  BY <1>1, <1>8, <1>9, <1>10, <1>11 DEF AgreedInRound

LEMMA AdvanceAgreed ==
  ASSUME Inv, AgreedInRound, Advance
  PROVE  AgreedInRound' /\ promise' = promise
<1>1. /\ pc = "advance" /\ pc' = "ready" /\ UNCHANGED <<mem, promise>>
      /\ raft' = [raft EXCEPT !.unst = <<>>, !.snap = NoSnapshot, !.hs = HardState,
                    !.ack = FALSE, !.grants = {},
                    !.applied = IF rd.commits # <<>> THEN Last(rd.commits).index
                                ELSE Max({@, rd.snap.index})]
  BY DEF Advance, At, disk, history
<1>2. PICK q : q = raft'
  OBVIOUS
<1>3. q.unst = <<>> /\ q.snap = NoSnapshot /\ q.hs = HardState /\ q.committed = raft.committed
  BY <1>1, <1>2 DEF Inv, Shapes, IsRaft
<1>4. q.hs.commit = raft.committed
  BY <1>3 DEF HardState
<1>5. /\ Held(mem) = View(raft, mem)
      /\ Agrees(View(raft, mem), raft.committed, promise.log)
  BY <1>1 DEF AgreedInRound
<1>6. View(q, mem) = Held(mem)
  BY <1>3, Numbers, ViewStable
<1>7. View(raft, mem)' = View(q, mem) /\ Held(mem)' = Held(mem)
  BY <1>1, <1>2
<1> QED
  BY <1>1, <1>2, <1>3, <1>4, <1>5, <1>6, <1>7 DEF AgreedInRound

-----------------------------------------------------------------------------
(* Stop and restart.                                                        *)

LEMMA StartAgrees ==
  ASSUME NEW m, IsMemory(m), LastIndex(m) = 0, NEW p, IsSeq(p), OneLine(p)
  PROVE  Agrees(View(StartNode, m), StartNode.committed, p) /\ Agrees(Held(m), 0, p)
<1>1. PICK n \in Nat \ {0} : n = Cardinality(Peers) /\ n <= Len(GroupLog)
  BY LogFacts DEF Index
<1>2. IsRaft(StartNode) /\ (StartNode.unst # <<>> => StartNode.unst[1].index = 1)
  BY StartIs
<1>3. GroupLog \in Seq(Entry) /\ Len(GroupLog) \in Nat
  BY LogFacts
<1>4. PICK es : es = StartNode.unst
  OBVIOUS
<1>5. es = SubSeq(GroupLog, 1, n) /\ StartNode.committed = n /\ StartNode.snap = NoSnapshot
  BY <1>1, <1>4 DEF StartNode
<1>6. Len(es) = n /\ \A i \in 1 .. n : es[i] = GroupLog[i]
  BY <1>1, <1>3, <1>5
<1>7. es # <<>> /\ StartNode.unst # <<>> /\ StartNode.unst[1].index = 1
  BY <1>2, <1>4, <1>6
<1>8. /\ LastOf(StartNode, m) \in Nat /\ IsSeq(View(StartNode, m))
      /\ Len(View(StartNode, m)) = LastOf(StartNode, m)
      /\ \A i \in 1 .. LastOf(StartNode, m) : View(StartNode, m)[i] = EntryAt(StartNode, m, i)
  BY <1>2, ViewIs
<1>9. LastOf(StartNode, m) = n
  <2>1. LastOf(StartNode, m) = StartNode.unst[1].index + Len(StartNode.unst) - 1
    BY <1>2, <1>7, LastOfIs
  <2> QED
    BY <1>4, <1>6, <1>7, <2>1
<1>10. ASSUME NEW i \in 1 .. n PROVE View(StartNode, m)[i] = GroupLog[i]
  <2>1. i >= 1 /\ i - 1 + 1 = i
    OBVIOUS
  <2>2. EntryAt(StartNode, m, i) = es[i]
    BY <1>4, <1>7, <2>1 DEF EntryAt
  <2> QED
    BY <1>6, <1>8, <1>9, <2>2
<1>11. PICK log : log = View(StartNode, m)
  OBVIOUS
<1>12. Len(log) = n /\ \A i \in 1 .. n : log[i] = GroupLog[i]
  BY <1>8, <1>9, <1>10, <1>11
<1>13. OneLine(log)
  BY <1>1, <1>12, GroupLine
<1>14. Agrees(log, n, p)
  <2>1. PICK u \in Term : /\ Len(p) <= Len(LeaderLog[u])
                          /\ \A i \in 1 .. Len(p) : p[i] = LeaderLog[u][i]
    BY DEF OneLine
  <2>2. Len(p) \in Nat /\ Len(LeaderLog) \in Term
    BY LogFacts DEF IsSeq
  <2>3. ASSUME NEW i \in 1 .. n, i <= Len(p) PROVE log[i] = p[i]
    <3>1. i \in 1 .. Len(p) /\ i \in 1 .. Cardinality(Peers)
      BY <1>1, <2>2, <2>3
    <3>2. /\ LeaderLog[u][i] = [index |-> i, term |-> 1, cmd |-> NoOp]
          /\ LeaderLog[Len(LeaderLog)][i] = [index |-> i, term |-> 1, cmd |-> NoOp]
      BY <2>2, <3>1, LeadersAgree
    <3> QED
      BY <1>12, <2>1, <3>1, <3>2 DEF GroupLog
  <2> QED
    BY <1>12, <1>13, <2>3 DEF Agrees
<1>15. Agrees(Held(m), 0, p)
  <2>1. Len(Held(m)) = 0
    BY HeldIs
  <2>2. OneLine(Held(m))
    BY <1>3, <2>1, GroupLine
  <2> QED
    BY <2>1, <2>2 DEF Agrees
<1> QED
  BY <1>5, <1>11, <1>14, <1>15

LEMMA RestartAgreed ==
  ASSUME Inv, Agreed, Restart, Undisturbed
  PROVE  AgreedInRound'
<1>1. /\ status = "down" /\ Starts(file) /\ mem' = Replay(file) /\ UNCHANGED <<promise, pc>>
      /\ IF LastIndex(mem') > 0 THEN raft' = RestartNode(mem') ELSE raft' = StartNode
  BY DEF Restart
<1>2. pc' = "ready"
  BY <1>1 DEF Inv, Shapes
<1>3. PICK m : m = Replay(file)
  OBVIOUS
<1>4. IsStored(m, granted) /\ CommitInLog(m)
  BY <1>1, <1>3 DEF Starts, Inv, Stored
<1>5. IsMemory(m)
  BY <1>4 DEF IsStored
<1>6. Agrees(Held(m), m.hs.commit, promise.log)
  BY <1>1, <1>3 DEF Agreed, FileAgrees, Starts
<1>7. PICK log : log = Held(m)
  OBVIOUS
<1>8. PICK o \in Nat, c \in Nat, l \in Nat :
        o = m.offset /\ c = m.hs.commit /\ l = LastIndex(m)
  BY <1>5, LogFacts DEF IsMemory, IsHardState, Successive, LastIndex
<1>9. Len(log) = l /\ o <= l /\ \A i \in 1 .. o : log[i] = GroupLog[i]
  <2>1. /\ LastIndex(m) \in Nat /\ IsSeq(Held(m)) /\ Len(Held(m)) = LastIndex(m)
        /\ m.offset \in Nat /\ m.offset <= LastIndex(m) /\ m.offset <= Len(GroupLog)
        /\ \A i \in 1 .. LastIndex(m) :
             Held(m)[i] = IF i <= m.offset THEN GroupLog[i] ELSE m.ents[i - m.offset]
    BY <1>5, HeldIs
  <2>2. Len(log) = l /\ o <= l
    BY <1>7, <1>8, <2>1
  <2>3. ASSUME NEW i \in 1 .. o PROVE log[i] = GroupLog[i]
    <3>1. i \in 1 .. l /\ i <= o
      BY <2>2
    <3> QED
      BY <1>7, <1>8, <2>1, <3>1
  <2> QED
    BY <2>2, <2>3
<1>10. Agrees(log, c, promise.log)
  BY <1>6, <1>7, <1>8
<1>11. Held(mem)' = log /\ View(raft, mem)' = View(raft', m)
  BY <1>1, <1>3, <1>7
<1>12. promise.log' = promise.log
  BY <1>1
<1>13. CASE l > 0
  <2>1. PICK q : q = RestartNode(m)
    OBVIOUS
  <2>2. /\ raft' = q /\ q.unst = <<>> /\ q.snap = NoSnapshot /\ q.hs = m.hs
        /\ q.committed = Max({c, o})
    BY <1>1, <1>3, <1>8, <1>13, <2>1 DEF RestartNode
  <2>3. Max({c, o}) = IF c >= o THEN c ELSE o
    BY MaxTwo
  <2>4. View(q, m) = log
    BY <1>5, <1>7, <2>2, ViewStable
  <2>5. Agrees(log, q.committed, promise.log)
    BY <1>9, <1>10, <2>2, <2>3 DEF Agrees
  <2>6. raft'.hs.commit = c
    BY <1>8, <2>2
  <2> QED
    BY <1>2, <1>10, <1>11, <1>12, <2>2, <2>4, <2>5, <2>6 DEF AgreedInRound
<1>14. CASE ~(l > 0)
  <2>1. LastIndex(m) = 0 /\ raft' = StartNode
    BY <1>1, <1>3, <1>8, <1>14
  <2>2. m.hs = NoHardState
    <3> SUFFICES ASSUME m.hs # NoHardState PROVE FALSE
      OBVIOUS
    <3>1. m.hs.commit >= 1 /\ m.hs.commit \in m.offset .. LastIndex(m)
      BY <1>4, <2>1 DEF IsStored, CommitInLog
    <3> QED
      BY <1>8, <2>1, <3>1
  <2>3. PICK p : p = promise.log
    OBVIOUS
  <2>4. IsSeq(p) /\ OneLine(p)
    BY <2>3 DEF Agreed
  <2>5. Agrees(View(StartNode, m), StartNode.committed, p) /\ Agrees(Held(m), 0, p)
    BY <1>5, <2>1, <2>4, StartAgrees
  <2>6. StartNode.hs = m.hs /\ m.hs.commit = 0
    BY <2>2, StartIs DEF NoHardState
  <2> QED
    BY <1>2, <1>7, <1>10, <1>11, <1>12, <2>1, <2>3, <2>5, <2>6 DEF AgreedInRound
<1> QED
  BY <1>13, <1>14

(* A replay that trails a memory agrees where that memory does.             *)
LEMMA TrailsAgree ==
  ASSUME NEW m, IsMemory(m), m.ok, NEW g, IsMemory(g), Trails(m, g), NEW p, IsSeq(p),
         Agrees(Held(g), g.hs.commit, p)
  PROVE  Agrees(Held(m), m.hs.commit, p)
<1>1. /\ m.hs = g.hs /\ LastIndex(m) <= LastIndex(g)
      /\ \A i \in 1 .. LastIndex(m) : Held(m)[i] = Held(g)[i]
  BY DEF Trails
<1>2. /\ LastIndex(m) \in Nat /\ Len(Held(m)) = LastIndex(m)
      /\ LastIndex(g) \in Nat /\ Len(Held(g)) = LastIndex(g)
  BY HeldIs
<1>3. PICK c \in Nat : c = m.hs.commit
  BY LogFacts DEF IsMemory, IsHardState
<1>4. PICK log, part : log = Held(g) /\ part = Held(m)
  OBVIOUS
<1>5. /\ Len(log) \in Nat /\ Len(part) \in Nat /\ Len(part) <= Len(log)
      /\ \A i \in 1 .. Len(part) : part[i] = log[i]
  BY <1>1, <1>2, <1>4
<1>6. Agrees(log, c, p)
  BY <1>1, <1>3, <1>4
<1>7. Len(p) \in Nat /\ Len(p) <= Len(p) /\ c <= c /\ \A i \in 1 .. Len(p) : p[i] = p[i]
  BY DEF IsSeq
<1>8. Agrees(part, c, p)
  BY <1>5, <1>6, <1>7, AgreesShorter
<1> QED
  BY <1>3, <1>4, <1>8

(* After w records of a Save.                                               *)
LEMMA PartAgrees ==
  ASSUME Inv, Paced, IsSeq(promise.log), AgreedInRound, pc = "save", rd.snap = NoSnapshot,
         NEW w \in Nat, w <= Len(rd.ents), NEW m, m = MemAppend(mem, SubSeq(rd.ents, 1, w))
  PROVE  IsMemory(m) /\ Agrees(Held(m), m.hs.commit, promise.log)
<1>1. IsMemory(mem) /\ mem.ok /\ IsRaft(raft) /\ raft.hs.commit \in Nat /\ raft.committed \in Nat
  BY Numbers
<1>2. rd.ents = raft.unst /\ raft.snap = NoSnapshot
  BY DEF Inv, InRound
<1>3. /\ Agrees(View(raft, mem), raft.committed, promise.log)
      /\ Agrees(Held(mem), raft.hs.commit, promise.log)
  BY DEF AgreedInRound
<1>4. /\ mem.hs = raft.hs /\ Follows(raft, mem) /\ raft.hs.commit <= raft.committed
      /\ raft.unst # <<>> => mem.offset < raft.unst[1].index /\ raft.hs.commit < raft.unst[1].index
  BY DEF Paced, Level
<1>5. raft.unst \in Seq(Entry) /\ Len(raft.unst) \in Nat
  BY <1>1 DEF IsRaft, Successive
<1>6. CASE w = 0
  <2>1. SubSeq(rd.ents, 1, w) = <<>>
    BY <1>2, <1>5, <1>6
  <2>2. m = mem
    BY <2>1 DEF MemAppend
  <2> QED
    BY <1>1, <1>3, <1>4, <2>2
<1>7. CASE w # 0
  <2>1. raft.unst # <<>> /\ w \in 1 .. Len(raft.unst)
    BY <1>2, <1>5, <1>7
  <2>2. PICK first \in Nat \ {0} : first = raft.unst[1].index
    BY <1>1, <2>1, LastOfIs
  <2>3. first <= LastIndex(mem) + 1 /\ mem.offset < first
    BY <1>2, <1>4, <2>1, <2>2 DEF Follows
  <2>4. m = MemAppend(mem, SubSeq(raft.unst, 1, w))
    BY <1>2
  <2>5. Portion(m, raft, mem, first + w - 1)
    BY <1>1, <1>2, <2>1, <2>2, <2>3, <2>4, PartHeld
  <2>6. m.hs = raft.hs
    <3>1. PICK es : es = SubSeq(raft.unst, 1, w)
      OBVIOUS
    <3>2. Successive(raft.unst, first)
      BY <1>1, <2>2 DEF IsRaft
    <3>3. Successive(es, first)
      BY <2>1, <3>1, <3>2, CutBefore
    <3>4. /\ IsMemory(MemAppend(mem, es)) /\ MemAppend(mem, es).ok
          /\ MemAppend(mem, es).offset = mem.offset /\ MemAppend(mem, es).snap = mem.snap
          /\ MemAppend(mem, es).hs = mem.hs
          /\ es = <<>> => MemAppend(mem, es) = mem
          /\ es # <<>> => LastIndex(MemAppend(mem, es)) = first + Len(es) - 1
      BY <1>1, <2>3, <3>3, AppendFits
    <3> QED
      BY <1>4, <2>4, <3>1, <3>4
  <2>7. PICK log, part : log = View(raft, mem) /\ part = Held(m)
    OBVIOUS
  <2>8. Len(log) = LastOf(raft, mem) /\ Len(log) \in Nat
    BY <1>1, <2>7, ViewIs
  <2>9. Len(part) = LastIndex(m) /\ Len(part) \in Nat
    BY <2>5, <2>7, HeldIs DEF Portion
  <2>10. Len(part) = first + w - 1 /\ Len(part) <= Len(log)
         /\ \A i \in 1 .. Len(part) : part[i] = log[i]
    BY <2>5, <2>7, <2>8, <2>9 DEF Portion
  <2>11. PICK a : a = promise.log /\ Len(a) \in Nat
    BY DEF IsSeq
  <2>12. Agrees(log, raft.committed, a)
    BY <1>3, <2>7, <2>11
  <2>13. Len(a) <= Len(a) /\ \A i \in 1 .. Len(a) : a[i] = a[i]
    BY <2>11
  <2>14. Agrees(part, raft.hs.commit, a)
    BY <1>1, <1>4, <2>8, <2>9, <2>10, <2>11, <2>12, <2>13, AgreesShorter
  <2> QED
    BY <2>5, <2>6, <2>7, <2>11, <2>14 DEF Portion
<1> QED
  BY <1>6, <1>7

(* What a node that is stopped leaves behind, a pending install excepted.   *)
LEMMA FileAgreed ==
  ASSUME Inv, Paced, Trailing, IsSeq(promise.log), AgreedInRound, status = "up", ~InstallPending
  PROVE  FileAgrees(file)
<1> SUFFICES ASSUME Replay(file).ok
             PROVE  Agrees(Held(Replay(file)), Replay(file).hs.commit, promise.log)
  BY DEF FileAgrees
<1>1. rd.snap = NoSnapshot \/ pc \in {"ready", "advance"} \/ (pc = "save" /\ todo # <<>>)
  BY DEF InstallPending
<1>2. PICK m, p : m = Replay(file) /\ p = promise.log
  OBVIOUS
<1>3. IsMemory(m) /\ m.ok /\ IsSeq(p)
  BY <1>2, StoredMemory
<1>4. ASSUME NEW g, IsMemory(g), Trails(m, g), Agrees(Held(g), g.hs.commit, p)
      PROVE  Agrees(Held(m), m.hs.commit, p)
  BY <1>3, <1>4, TrailsAgree
<1>5. Agrees(View(raft, mem), raft.committed, p) /\ IsMemory(mem)
  BY <1>2 DEF AgreedInRound, Inv, Shapes
<1>6. HardState.commit = raft.committed
  BY DEF HardState
<1>7. CASE pc = "ready"
  <2>1. Trails(m, mem) /\ mem.hs = raft.hs /\ Agrees(Held(mem), raft.hs.commit, p)
    BY <1>2, <1>7 DEF Trailing, Paced, Level, AgreedInRound
  <2> QED
    BY <1>2, <1>4, <1>5, <2>1
<1>8. CASE pc = "save"
  <2>1. PICK w \in Nat : WrittenBehind(w)
    BY <1>8 DEF Trailing
  <2>2. Trails(m, Partly(w))
    BY <1>2, <2>1 DEF WrittenBehind
  <2>3. PICK g : g = Partly(w)
    OBVIOUS
  <2>6. CASE rd.snap # NoSnapshot
    <3>1. Partly(w) = mem
      BY <1>1, <1>8, <2>1, <2>6, NothingWritten DEF WrittenBehind
    <3>2. mem.hs = raft.hs /\ Agrees(Held(mem), raft.hs.commit, p)
      BY <1>2, <1>8 DEF Paced, Level, AgreedInRound
    <3> QED
      BY <1>2, <1>4, <1>5, <2>2, <3>1, <3>2
  <2>4. CASE rd.snap = NoSnapshot /\ w <= Len(rd.ents)
    <3>1. g = MemAppend(mem, SubSeq(rd.ents, 1, w))
      BY <2>3, <2>4 DEF Partly
    <3>2. IsMemory(g) /\ Agrees(Held(g), g.hs.commit, promise.log)
      BY <1>8, <2>4, <3>1, PartAgrees
    <3> QED
      BY <1>2, <1>4, <2>2, <2>3, <3>2
  <2>5. CASE rd.snap = NoSnapshot /\ ~(w <= Len(rd.ents))
    <3>1. g = SaveMemory(mem, rd.ents, rd.hs)
      BY <2>3, <2>5 DEF Partly
    <3>2. Settled(g)
      BY <1>8, <3>1, WholeFits
    <3>3. Held(g) = View(raft, mem)
      BY <1>8, <2>5, <3>1, SavedHeld
    <3>4. IsMemory(g)
      BY <1>8, <3>1, SavedMemory, WholeFits
    <3> QED
      BY <1>2, <1>4, <1>5, <1>6, <2>2, <2>3, <3>2, <3>3, <3>4 DEF Settled
  <2> QED
    BY <2>4, <2>5, <2>6
<1>9. CASE pc \notin {"ready", "save"}
  <2>1. pc # "restore"
    BY <1>1, <1>9 DEF Inv, InRound
  <2>2. Trails(m, mem) /\ Held(mem) = View(raft, mem)
    BY <1>1, <1>2, <1>9, <2>1 DEF Trailing, AgreedInRound
  <2>3. mem.hs = HardState
    BY <1>9, <2>1 DEF Paced, Settled, Inv, Shapes
  <2> QED
    BY <1>2, <1>4, <1>5, <1>6, <2>2, <2>3
<1> QED
  BY <1>7, <1>8, <1>9

LEMMA StopAgreed ==
  ASSUME Inv, Pace, Trail, Agreed, status = "up", NEW f, Stop(f), f = file \/ ~Iterate(f).ok
  PROVE  Agreed'
<1>1. /\ status' = "down" /\ file' = f /\ promise' = promise
      /\ harm' = harm \cup IF InstallPending THEN {"install"} ELSE {}
  BY DEF Stop
<1>2. ASSUME Undisturbed' PROVE FileAgrees(f)
  <2>1. Undisturbed /\ ~InstallPending
    BY <1>1, <1>2 DEF Undisturbed
  <2>2. Paced /\ Trailing /\ AgreedInRound /\ IsSeq(promise.log)
    BY <2>1 DEF Pace, Trail, Agreed
  <2>3. FileAgrees(file)
    BY <2>1, <2>2, FileAgreed
  <2> QED
    BY <2>3 DEF FileAgrees
<1>3. FileAgrees(file)' = FileAgrees(f)
  BY <1>1 DEF FileAgrees
<1>4. Undisturbed' => Undisturbed
  BY <1>1 DEF Undisturbed
<1> QED
  BY <1>1, <1>2, <1>3, <1>4 DEF Agreed

LEMMA AgreedInit == Init => Agreed
<1> SUFFICES ASSUME Init PROVE Agreed
  OBVIOUS
<1>1. /\ status = "up" /\ pc = "ready" /\ raft = StartNode /\ mem = NewMemoryStorage
      /\ promise = [log |-> <<>>, term |-> 0]
  BY DEF Init
<1>2. IsMemory(mem) /\ LastIndex(mem) = 0
  BY <1>1, Empties
<1>3. PICK p : p = promise.log
  OBVIOUS
<1>4. /\ DOMAIN promise = {"log", "term"} /\ p = <<>> /\ promise.term = 0 /\ Len(p) = 0
      /\ IsSeq(p)
  <2>1. DOMAIN promise = {"log", "term"} /\ p = <<>> /\ promise.term = 0
    BY <1>1, <1>3
  <2> QED
    BY <2>1, ReplayEmpty
<1>5. OneLine(p)
  BY <1>4, LogFacts, GroupLine
<1>6. Agrees(View(StartNode, mem), StartNode.committed, p) /\ Agrees(Held(mem), 0, p)
  BY <1>2, <1>4, <1>5, StartAgrees
<1>7. raft.hs.commit = 0
  BY <1>1, StartIs DEF NoHardState
<1>8. AgreedInRound
  BY <1>1, <1>3, <1>6, <1>7 DEF AgreedInRound
<1> QED
  BY <1>1, <1>3, <1>4, <1>5, <1>8 DEF Agreed

(* A message shortens what counts as acknowledged, at most.                 *)
LEMMA PromiseCut ==
  ASSUME DOMAIN promise = {"log", "term"}, IsSeq(promise.log), NEW t \in Term, NEW i \in Index,
         NEW c, RecvEntry(t, i, c) \/ RecvSnapshot(t, i)
  PROVE  /\ DOMAIN promise' = {"log", "term"} /\ IsSeq(promise'.log)
         /\ promise'.term = promise.term
<1>1. PICK q : q = promise.log
  OBVIOUS
<1>2. PICK l : promise' = [promise EXCEPT !.log = l] /\ l \in
        {q, SubSeq(q, 1, Min({Len(q), i - 1})), CommonPrefix(q, GroupLog)}
  BY <1>1 DEF RecvEntry, RecvSnapshot
<1>3. PICK S : q \in Seq(S)
  BY <1>1 DEF IsSeq
<1>4. IsSeq(SubSeq(q, 1, Min({Len(q), i - 1})))
  <2>1. Len(q) \in Nat /\ i \in Nat \ {0}
    BY <1>3, LogFacts DEF Index
  <2>2. PICK n \in Nat, j \in Nat : n = Len(q) /\ j = i - 1
    BY <2>1
  <2>3. Min({n, j}) = IF n <= j THEN n ELSE j
    BY MinTwo
  <2>4. PICK k \in Nat : k = Min({Len(q), i - 1}) /\ k <= Len(q)
    BY <2>2, <2>3
  <2>5. SubSeq(q, 1, k) \in Seq(S)
    <3>1. \A x \in 1 .. k : q[x] \in S
      BY ONLY <1>3, <2>1, <2>4, k \in Nat
    <3>2. /\ SubSeq(q, 1, k) \in Seq(S)
          /\ Len(SubSeq(q, 1, k)) = IF 1 <= k THEN k - 1 + 1 ELSE 0
          /\ \A x \in 1 .. k - 1 + 1 : SubSeq(q, 1, k)[x] = q[1 + x - 1]
      BY <3>1, SubSeqProperties
    <3> QED
      BY <3>2
  <2> QED
    BY <2>4, <2>5 DEF IsSeq
<1>5. IsSeq(CommonPrefix(q, GroupLog))
  <2>1. IsSeq(q) /\ IsSeq(GroupLog)
    BY <1>3, LogFacts DEF IsSeq
  <2>2. PICK x : x = CommonPrefix(q, GroupLog)
    OBVIOUS
  <2>3. /\ IsSeq(x) /\ Len(x) \in Nat /\ Len(x) <= Len(q) /\ Len(x) <= Len(GroupLog)
        /\ \A j \in 1 .. Len(x) : x[j] = q[j] /\ x[j] = GroupLog[j]
    BY <2>1, <2>2, CommonPrefixIs
  <2> QED
    BY <2>2, <2>3
<1>6. IsSeq(l)
  BY <1>1, <1>2, <1>4, <1>5, Zenon
<1>7. DOMAIN promise' = {"log", "term"} /\ promise'.log = l /\ promise'.term = promise.term
  BY <1>2
<1> QED
  BY <1>6, <1>7

LEMMA AgreedMessages ==
  ASSUME Inv, Pace, Trail, Agreed, Messages
  PROVE  Agreed'
<1>1. /\ status = "up" /\ pc = "ready"
      /\ Stop(file) \/ UNCHANGED <<status, disk, pc, rd, state, covered, harm>>
  BY MessagesLeave
<1>2. DOMAIN promise = {"log", "term"} /\ IsSeq(promise.log)
  BY DEF Agreed
<1>3. CASE Stop(file)
  BY <1>1, <1>3, StopAgreed
<1>4. CASE UNCHANGED <<status, disk, pc, rd, state, covered, harm>>
  <2>1. ASSUME DOMAIN promise' = {"log", "term"}, IsSeq(promise'.log),
               Undisturbed => AgreedInRound' /\ OneLine(promise'.log)
        PROVE  Agreed'
    BY <1>1, <1>4, <2>1 DEF Agreed, Undisturbed
  <2>2. Undisturbed => AgreedInRound /\ OneLine(promise.log)
    BY <1>1 DEF Agreed
  <2>3. PICK t \in Term :
          \/ \E i \in Index : \E c \in {0, i} : RecvEntry(t, i, c)
          \/ \E i \in Index : RecvSnapshot(t, i)
          \/ \E c \in Index : RecvHeartbeat(t, c)
          \/ \E c \in Index : RecvHeartbeatPanic(t, c)
          \/ \E c \in Candidates : RecvVote(t, c)
    BY DEF Messages
  <2>4. CASE \E i \in Index : \E c \in {0, i} : RecvEntry(t, i, c)
    <3>0. PICK i \in Index : \E c \in {0, i} : RecvEntry(t, i, c)
      BY <2>4
    <3>1. PICK c \in {0, i} : RecvEntry(t, i, c)
      BY <3>0
    <3>2. DOMAIN promise' = {"log", "term"} /\ IsSeq(promise'.log) /\ promise'.term = promise.term
      BY <1>2, <3>1, PromiseCut
    <3>3. ASSUME Undisturbed PROVE AgreedInRound' /\ OneLine(promise'.log)
      BY <1>1, <2>2, <3>1, <3>3, EntryAgreed
    <3> QED
      BY <2>1, <3>2, <3>3
  <2>5. CASE \E i \in Index : RecvSnapshot(t, i)
    <3>1. PICK i \in Index : RecvSnapshot(t, i)
      BY <2>5
    <3>2. DOMAIN promise' = {"log", "term"} /\ IsSeq(promise'.log) /\ promise'.term = promise.term
      BY <1>2, <3>1, PromiseCut
    <3>3. ASSUME Undisturbed PROVE AgreedInRound' /\ OneLine(promise'.log)
      BY <1>1, <2>2, <3>1, <3>3, SnapshotAgreed
    <3> QED
      BY <2>1, <3>2, <3>3
  <2>6. CASE \E c \in Index : RecvHeartbeat(t, c)
    <3>1. PICK c \in Index : RecvHeartbeat(t, c)
      BY <2>6
    <3>2. promise' = promise
      BY <3>1 DEF RecvHeartbeat
    <3>3. Undisturbed => AgreedInRound'
      BY <1>1, <2>2, <3>1, HeartbeatAgreed
    <3> QED
      BY <1>2, <2>1, <2>2, <3>2, <3>3
  <2>7. CASE \E c \in Index : RecvHeartbeatPanic(t, c)
    BY <1>1, <2>7, StopAgreed DEF RecvHeartbeatPanic
  <2>8. CASE \E c \in Candidates : RecvVote(t, c)
    <3>1. PICK c \in Candidates : RecvVote(t, c)
      BY <2>8
    <3>2. promise' = promise
      BY <3>1 DEF RecvVote
    <3>3. Undisturbed => AgreedInRound'
      BY <1>1, <2>2, <3>1, VoteAgreed
    <3> QED
      BY <1>2, <2>1, <2>2, <3>2, <3>3
  <2> QED
    BY <2>3, <2>4, <2>5, <2>6, <2>7, <2>8
<1> QED
  BY <1>1, <1>3, <1>4

LEMMA AgreedNext == Inv /\ Inv' /\ Pace /\ Trail /\ Agreed /\ [Next]_vars => Agreed'
<1> SUFFICES ASSUME Inv, Inv', Pace, Trail, Agreed, [Next]_vars PROVE Agreed'
  OBVIOUS
<1>1. ASSUME NEW f, Stop(f), status = "up", f = file \/ ~Iterate(f).ok PROVE Agreed'
  BY <1>1, StopAgreed
<1>2. /\ DOMAIN promise = {"log", "term"} /\ IsSeq(promise.log)
      /\ Undisturbed => OneLine(promise.log)
  BY DEF Agreed
<1>3. ASSUME status = "up", status' = "up", harm \subseteq harm', promise' = promise,
             AgreedInRound /\ Paced => AgreedInRound'
      PROVE  Agreed'
  <2>1. Undisturbed' => Undisturbed
    BY <1>3 DEF Undisturbed
  <2>2. Undisturbed => AgreedInRound /\ Paced
    BY <1>3 DEF Agreed, Pace
  <2> QED
    BY <1>2, <1>3, <2>1, <2>2 DEF Agreed
<1>4. CASE TakeReady \/ WriteRecord
  <2>1. /\ status = "up" /\ status' = "up" /\ harm \subseteq harm'
        /\ UNCHANGED <<raft, mem, promise>> /\ pc \in {"ready", "save"} /\ pc' = "save"
    BY <1>4 DEF TakeReady, WriteRecord, At, InLoop
  <2>2. View(raft, mem)' = View(raft, mem) /\ Held(mem)' = Held(mem)
    BY <2>1
  <2>3. AgreedInRound => AgreedInRound'
    BY <2>1, <2>2 DEF AgreedInRound
  <2> QED
    BY <1>3, <2>1, <2>3
<1>5. CASE Save
  <2>1. status = "up" /\ status' = "up" /\ harm \subseteq harm' /\ promise' = promise
    BY <1>5 DEF Save, At, InLoop
  <2> QED
    BY <1>3, <1>5, <2>1, SaveAgreed
<1>6. CASE Send
  <2>1. status = "up" /\ status' = "up" /\ harm' = harm
    BY <1>6 DEF Send, At, InLoop
  <2>2. DOMAIN promise' = {"log", "term"} /\ IsSeq(promise'.log)
    <3>1. promise' = promise \/ promise' = [log |-> LogView, term |-> raft.term]
      BY <1>6 DEF Send
    <3>2. IsSeq(View(raft, mem))
      BY ViewIs DEF Inv, Shapes
    <3>3. PICK log : log = LogView /\ IsSeq(log)
      BY <3>2 DEF LogView, View
    <3>4. CASE promise' = promise
      BY <1>2, <3>4
    <3>5. CASE promise' = [log |-> LogView, term |-> raft.term]
      <4>1. DOMAIN promise' = {"log", "term"} /\ promise'.log = log
        BY <3>3, <3>5
      <4> QED
        BY <3>3, <4>1
    <3> QED
      BY <3>1, <3>4, <3>5
  <2>3. ASSUME Undisturbed PROVE AgreedInRound' /\ OneLine(promise'.log)
    <3>1. AgreedInRound
      BY <2>1, <2>3 DEF Agreed
    <3> QED
      BY <1>2, <1>6, <2>3, <3>1, SendAgreed
  <2> QED
    BY <2>1, <2>2, <2>3 DEF Agreed, Undisturbed
<1>7. CASE Apply \/ Restore
  <2>1. status = "up" /\ status' = "up" /\ harm \subseteq harm' /\ promise' = promise
    BY <1>7 DEF Apply, Restore, At, InLoop
  <2> QED
    BY <1>3, <1>7, <2>1, ApplyAgreed
<1>8. CASE CreateSnapshot
  <2>1. status = "up" /\ status' = "up" /\ harm \subseteq harm' /\ promise' = promise
    BY <1>8 DEF CreateSnapshot, At, InLoop
  <2> QED
    BY <1>3, <1>8, <2>1, CreateSnapshotAgreed
<1>9. CASE Compact
  <2>1. status = "up" /\ status' = "up" /\ harm \subseteq harm' /\ promise' = promise
    BY <1>9 DEF Compact, At, InLoop
  <2> QED
    BY <1>3, <1>9, <2>1, CompactAgreed
<1>10. CASE Install
  <2>1. status = "up" /\ status' = "up" /\ harm \subseteq harm' /\ promise' = promise
    BY <1>10 DEF Install, At, InLoop
  <2> QED
    BY <1>3, <1>10, <2>1, InstallAgreed
<1>11. CASE Advance
  <2>1. status = "up" /\ status' = "up" /\ harm \subseteq harm' /\ promise' = promise
    BY <1>11 DEF Advance, At, history
  <2> QED
    BY <1>3, <1>11, <2>1, AdvanceAgreed
<1>12. CASE ReadyPanic \/ SavePanic
  <2>1. Stop(file) /\ status = "up"
    BY <1>12 DEF ReadyPanic, SavePanic, At
  <2> QED
    BY <1>1, <2>1
<1>13. CASE Crash
  <2>1. PICK n \in 0 .. 2 : Stop(IF n = 0 THEN file ELSE TornAppend(file, Head(todo), n))
    BY <1>13 DEF Crash
  <2>2. status = "up" /\ Iterate(file).ok /\ IsSeq(file)
    BY <1>13 DEF Crash, Inv, Stored, Running
  <2>3. CASE n = 0
    BY <1>1, <2>1, <2>2, <2>3
  <2>4. CASE n # 0
    <3>1. n \in 1 .. 2
      BY <2>4
    <3>2. ~Iterate(TornAppend(file, Head(todo), n)).ok
      BY <2>2, <3>1, TornUnread
    <3> QED
      BY <1>1, <2>1, <2>2, <2>4, <3>2
  <2> QED
    BY <2>3, <2>4
<1>14. CASE Messages
  BY <1>14, AgreedMessages
<1>15. CASE Restart
  <2>1. status' = "up" /\ UNCHANGED <<harm, promise>>
    BY <1>15 DEF Restart
  <2>2. Undisturbed => AgreedInRound'
    BY <1>15, RestartAgreed
  <2> QED
    BY <1>2, <2>1, <2>2 DEF Agreed, Undisturbed
<1>16. CASE FailToStart
  <2>1. status = "down" /\ status' = "dead" /\ UNCHANGED <<file, promise, harm>>
    BY <1>16 DEF FailToStart, history, disk
  <2>2. FileAgrees(file)' = FileAgrees(file)
    BY <2>1 DEF FileAgrees
  <2> QED
    BY <1>2, <2>1, <2>2 DEF Agreed, Undisturbed
<1>17. CASE UNCHANGED vars
  <2>1. UNCHANGED <<status, file, mem, raft, pc, rd, promise, harm>>
    BY <1>17 DEF vars
  <2> QED
    BY <2>1 DEF Agreed, AgreedInRound, FileAgrees, Undisturbed
<1> QED
  BY <1>4, <1>5, <1>6, <1>7, <1>8, <1>9, <1>10, <1>11, <1>12, <1>13, <1>14, <1>15,
     <1>16, <1>17 DEF Next, ReadyLoop

(* node.go:119-177, storage.go:76-157: the log that etcd/raft sees is at    *)
(* every stage one that a leader had, the group's up to the commit index    *)
(* and nowhere at odds with what was acknowledged; so is the log a stopped  *)
(* node leaves.  A compaction that takes entries out of the file does not   *)
(* disturb it, the log is then shorter and still the same; a Ready that     *)
(* mixed a snapshot with entries and a crash that cut an install do.        *)
THEOREM AgreedStays == Spec => []Agreed
<1>1. Init => Agreed
  BY AgreedInit
<1>2. Inv /\ Inv' /\ Pace /\ Trail /\ Agreed /\ [Next]_vars => Agreed'
  BY AgreedNext
<1> QED
  BY <1>1, <1>2, Invariance, Pacing, FileBehind, PTL DEF Spec

-----------------------------------------------------------------------------
(* What was acknowledged is there.                                          *)

(* Until the Save what was acknowledged is below the entries of the next    *)
(* Ready, in the memory.                                                    *)
AckedInRound ==
  /\ Len(promise.log) <= LastOf(raft, mem)
  /\ pc \in {"ready", "save"} =>
       /\ Len(promise.log) <= LastIndex(mem) /\ promise.term <= raft.hs.term
       /\ raft.unst # <<>> => Len(promise.log) < raft.unst[1].index
  /\ pc \notin {"ready", "save"} => promise.term <= raft.term

AckedInFile(m) == Len(promise.log) <= LastIndex(m) /\ promise.term <= m.hs.term

Acked ==
  /\ promise.term \in Nat
  /\ status = "up" /\ harm = {} => AckedInRound
  /\ status # "up" /\ Iterate(file).ok /\ harm = {} => AckedInFile(Replay(file))

(* The numbers in it.                                                       *)
LEMMA AckedNumbers ==
  ASSUME Inv, Agreed, Acked
  PROVE  /\ Len(promise.log) \in Nat /\ promise.term \in Nat
         /\ raft.term \in Nat /\ raft.hs.term \in Nat /\ raft.hs.term <= raft.term
<1>1. Len(promise.log) \in Nat
  BY DEF Agreed, IsSeq
<1>2. raft.term \in Nat /\ raft.hs.term \in Nat /\ raft.hs.term <= raft.term
  BY LogFacts DEF Inv, Shapes, IsRaft, IsHardState, Term
<1> QED
  BY <1>1, <1>2 DEF Acked

LEMMA EntryAcked ==
  ASSUME Inv, Agreed, Acked, AckedInRound, pc = "ready",
         NEW t \in Term, NEW i \in Index, NEW c \in {0, i}, RecvEntry(t, i, c)
  PROVE  AckedInRound'
<1> DEFINE e == LeaderLog[t][i]
           r == AtTerm(t)
           a == IF Matches(t, i) THEN r ELSE [r EXCEPT !.unst = Before(@, i) \o <<e>>]
           v == [a EXCEPT !.committed = Max({@, c}), !.ack = TRUE]
<1>1. /\ t >= raft.term /\ i <= Len(LeaderLog[t]) /\ i > raft.committed /\ Matches(t, i - 1)
      /\ raft' = v /\ UNCHANGED <<mem, pc, rd>>
      /\ promise' = [promise EXCEPT !.log = IF Matches(t, i) THEN @
                       ELSE SubSeq(@, 1, Min({Len(@), i - 1}))]
  BY DEF RecvEntry, Received, disk
<1>2. IsRaft(raft) /\ IsMemory(mem) /\ LastOf(raft, mem) \in Nat /\ LastIndex(mem) \in Nat
  BY Numbers
<1>3. /\ r.unst = raft.unst /\ r.snap = raft.snap /\ r.hs = raft.hs
      /\ DOMAIN r = {"term", "vote", "unst", "snap", "committed", "applied", "hs", "ack", "grants"}
  <2>1. IsRaft(r) /\ r.unst = raft.unst /\ r.snap = raft.snap /\ r.hs = raft.hs
    BY <1>1, <1>2, AtTermIs
  <2> QED
    BY <2>1 DEF IsRaft
<1> HIDE DEF r
<1>4. DOMAIN promise = {"log", "term"} /\ promise'.term = promise.term
  <2>1. DOMAIN promise = {"log", "term"}
    BY DEF Agreed
  <2> QED
    BY <1>1, <2>1
<1>5. PICK p : p = promise.log
  OBVIOUS
<1>6. /\ Len(p) \in Nat /\ Len(p) <= LastOf(raft, mem) /\ Len(p) <= LastIndex(mem)
      /\ promise.term <= raft.hs.term /\ (raft.unst # <<>> => Len(p) < raft.unst[1].index)
  BY <1>5, AckedNumbers DEF AckedInRound
<1>7. CASE Matches(t, i)
  <2>1. v.unst = raft.unst /\ v.snap = raft.snap /\ v.hs = raft.hs
    BY <1>3, <1>7
  <2>2. promise'.log = p
    BY <1>1, <1>4, <1>5, <1>7
  <2> HIDE DEF v
  <2>3. LastOf(v, mem) = LastOf(raft, mem)
    BY <2>1 DEF LastOf
  <2> QED
    BY <1>1, <1>4, <1>6, <2>1, <2>2, <2>3 DEF AckedInRound
<1>8. CASE ~Matches(t, i)
  <2>1. PICK u : u = Before(raft.unst, i) \o <<e>>
    OBVIOUS
  <2>2. v.unst = u /\ v.snap = raft.snap /\ v.hs = raft.hs
    BY <1>3, <1>8, <2>1
  <2>3. e \in Entry /\ e.index = i /\ i \in Nat \ {0}
    <3>1. i \in Nat \ {0} /\ LeaderLog[t] \in Seq(Entry) /\ i \in 1 .. Len(LeaderLog[t])
      BY <1>1, LogFacts DEF Index
    <3>2. e.index = i
      BY <3>1, LeaderLogs
    <3>3. e \in Entry
      BY <3>1
    <3> QED
      BY <3>1, <3>2, <3>3
  <2>4. PICK q : q = promise'.log
    OBVIOUS
  <2>5. q = SubSeq(p, 1, Min({Len(p), i - 1}))
    BY <1>1, <1>4, <1>5, <1>8, <2>4
  <2> HIDE DEF v, e
  <2>6. Len(q) \in Nat /\ Len(q) <= Len(p) /\ Len(q) <= i - 1
    <3>1. PICK S : p \in Seq(S)
      BY <1>5 DEF Agreed, IsSeq
    <3>2. PICK n \in Nat, j \in Nat : n = Len(p) /\ j = i - 1
      BY <1>6, <2>3
    <3>3. Min({n, j}) = IF n <= j THEN n ELSE j
      BY MinTwo
    <3>4. PICK k \in Nat : k = Min({n, j}) /\ k <= n /\ k <= j
      BY <3>3
    <3>5. q = SubSeq(p, 1, k)
      BY <2>5, <3>2, <3>4, Zenon
    <3>6. Len(q) = k
      BY <3>1, <3>2, <3>4, <3>5
    <3> QED
      BY <3>2, <3>4, <3>6
  <2>0. raft.unst # <<>> => i <= raft.unst[1].index + Len(raft.unst)
    <3> SUFFICES ASSUME raft.unst # <<>> PROVE i <= raft.unst[1].index + Len(raft.unst)
      OBVIOUS
    <3>1. i - 1 > 0 => i - 1 <= LastOf(raft, mem)
      BY <1>1 DEF Matches
    <3>2. /\ Len(raft.unst) \in Nat \ {0} /\ raft.unst[1].index \in Nat \ {0}
          /\ LastOf(raft, mem) = raft.unst[1].index + Len(raft.unst) - 1
      BY <1>2, LastOfIs
    <3> QED
      BY <2>3, <3>1, <3>2
  <2>7. /\ u # <<>> /\ Successive(u, u[1].index)
        /\ u[1].index = IF raft.unst # <<>> /\ raft.unst[1].index < e.index
                        THEN raft.unst[1].index ELSE e.index
    <3>1. Successive(raft.unst, raft.unst[1].index)
      BY <1>2 DEF IsRaft
    <3>2. raft.unst # <<>> => e.index <= raft.unst[1].index + Len(raft.unst)
      BY <2>0, <2>3
    <3>3. u = Before(raft.unst, e.index) \o <<e>>
      BY <2>1, <2>3
    <3>4. e \in Entry
      BY <2>3
    <3> QED
      BY ONLY <3>1, <3>2, <3>3, <3>4, Replaced
  <2>8. LastOf(v, mem) = i
    <3>1. Last(u) = e
      <4>1. PICK b : b = Before(raft.unst, i)
        OBVIOUS
      <4>2. b \in Seq(Entry)
        <5>1. raft.unst \in Seq(Entry)
          BY <1>2 DEF IsRaft, Successive
        <5>2. CASE raft.unst = <<>>
          BY <4>1, <5>2 DEF Before
        <5>3. CASE raft.unst # <<>>
          <6>1. raft.unst[1].index \in Nat /\ Len(raft.unst) \in Nat
            BY <1>2, <5>3, LastOfIs
          <6>2. PICK n \in Int : n = i - raft.unst[1].index
            BY <2>3, <6>1
          <6>3. b = SubSeq(raft.unst, 1, n)
            BY <4>1, <5>3, <6>2 DEF Before
          <6>4. n <= Len(raft.unst)
            BY <2>0, <2>3, <5>3, <6>1, <6>2
          <6> QED
            BY <5>1, <6>1, <6>2, <6>3, <6>4
        <5> QED
          BY <5>2, <5>3
      <4>3. Last(b \o <<e>>) = e
        BY <2>3, <4>2, LastAppended
      <4> QED
        BY <2>1, <4>1, <4>3, Zenon
    <3> QED
      BY <2>2, <2>3, <2>7, <3>1 DEF LastOf
  <2>9. Len(q) < u[1].index
    <3>1. PICK n \in Nat : n = Len(q)
      BY <2>6
    <3>2. CASE raft.unst # <<>> /\ raft.unst[1].index < e.index
      <4>1. PICK f \in Nat, k \in Nat : f = raft.unst[1].index /\ k = Len(p)
        BY <1>2, <1>6, <3>2, LastOfIs
      <4>2. u[1].index = f /\ n <= k /\ k < f
        BY <1>6, <2>6, <2>7, <3>1, <3>2, <4>1
      <4> QED
        BY <3>1, <4>2
    <3>3. CASE ~(raft.unst # <<>> /\ raft.unst[1].index < e.index)
      BY <2>3, <2>6, <2>7, <3>3
    <3> QED
      BY <3>2, <3>3
  <2>10. Len(q) <= LastOf(v, mem) /\ Len(q) <= LastIndex(mem)
    BY <1>2, <1>6, <2>3, <2>6, <2>8
  <2> QED
    BY <1>1, <1>4, <1>6, <2>2, <2>4, <2>9, <2>10 DEF AckedInRound
<1> QED
  BY <1>7, <1>8

LEMMA SnapshotAcked ==
  ASSUME Inv, Agreed, Acked, AgreedInRound, AckedInRound, pc = "ready",
         NEW t \in Term, NEW i \in Index, RecvSnapshot(t, i)
  PROVE  AckedInRound'
<1>1. PICK r : r = AtTerm(t)
  OBVIOUS
<1> DEFINE s == [index |-> i, term |-> GroupLog[i].term, voters |-> DefaultVoters,
                 data |-> Commands(SubSeq(GroupLog, 1, i))]
           v == [r EXCEPT !.unst = <<>>, !.snap = s, !.committed = i, !.ack = TRUE]
           p == [promise EXCEPT !.log = CommonPrefix(promise.log, GroupLog)]
<1>2. /\ Received(v) /\ t >= raft.term /\ i \in Committable(t) /\ ~Matches(t, i)
      /\ promise' = p
  BY <1>1 DEF RecvSnapshot
<1>3. IsRaft(raft) /\ IsMemory(mem) /\ LastOf(raft, mem) \in Nat /\ LastIndex(mem) \in Nat
  BY Numbers
<1>4. IsRaft(r) /\ r.hs = raft.hs
  BY <1>1, <1>2, <1>3, AtTermIs
<1>5. v.unst = <<>> /\ v.snap.index = i /\ v.hs = raft.hs
  BY <1>4 DEF IsRaft
<1> HIDE DEF s, v
<1>6. /\ i \in Index /\ i \in Nat \ {0} /\ i <= Len(LeaderLog[t]) /\ i <= Len(GroupLog)
      /\ \A j \in 1 .. i : LeaderLog[t][j] = GroupLog[j]
  BY <1>2, CommittableIs
<1>7. raft' = v /\ UNCHANGED <<mem, pc>>
  BY <1>2 DEF Received, disk
<1>8. LastOf(v, mem) = i
  BY <1>5, <1>6, Empties DEF LastOf
<1>9. PICK q, l : q = promise.log /\ l = CommonPrefix(q, GroupLog)
  OBVIOUS
<1>10. DOMAIN promise = {"log", "term"} /\ IsSeq(q) /\ Len(q) \in Nat
  BY <1>9 DEF Agreed, IsSeq
<1>11. IsSeq(GroupLog)
  BY LogFacts DEF IsSeq
<1>12. /\ IsSeq(l) /\ Len(l) \in Nat /\ Len(l) <= Len(q) /\ Len(l) <= Len(GroupLog)
       /\ \A j \in 1 .. Len(l) : l[j] = q[j] /\ l[j] = GroupLog[j]
  BY <1>9, <1>10, <1>11, CommonPrefixIs
<1>13. p.log = l /\ p.term = promise.term
  BY <1>9, <1>10
<1> HIDE DEF p
<1>14. /\ Len(q) <= LastOf(raft, mem) /\ Len(q) <= LastIndex(mem)
       /\ promise.term <= raft.hs.term
  BY <1>9 DEF AckedInRound
<1>15. Len(l) <= i
  <2> SUFFICES ASSUME i < Len(l) PROVE FALSE
    BY <1>6, <1>12
  <2>1. i \in 1 .. Len(l) /\ i \in 1 .. Len(q) /\ i \in 1 .. LastOf(raft, mem)
    BY <1>3, <1>6, <1>10, <1>12, <1>14
  <2>2. q[i] = GroupLog[i] /\ GroupLog[i] = LeaderLog[t][i]
    BY <1>6, <1>12, <2>1
  <2>3. PICK log : log = View(raft, mem)
    OBVIOUS
  <2>4. Len(log) = LastOf(raft, mem) /\ log[i] = EntryAt(raft, mem, i)
    BY <1>3, <2>1, <2>3, ViewIs
  <2>5. log[i] = q[i]
    BY <1>9, <2>1, <2>3, <2>4 DEF AgreedInRound, Agrees
  <2> QED
    BY <1>2, <2>1, <2>2, <2>4, <2>5 DEF Matches
<1>16. Len(l) <= LastIndex(mem)
  BY <1>3, <1>10, <1>12, <1>14
<1> QED
  BY <1>2, <1>5, <1>7, <1>8, <1>13, <1>14, <1>15, <1>16 DEF AckedInRound

(* A heartbeat, and a vote.                                                 *)
LEMMA SameLogAcked ==
  ASSUME AckedInRound, pc = "ready", NEW v,
         v.unst = raft.unst, v.snap = raft.snap, v.hs = raft.hs,
         raft' = v, UNCHANGED <<mem, pc, promise>>
  PROVE  AckedInRound'
<1>1. LastOf(v, mem) = LastOf(raft, mem)
  BY DEF LastOf
<1> QED
  BY <1>1 DEF AckedInRound

LEMMA HeartbeatAcked ==
  ASSUME Inv, AckedInRound, pc = "ready", NEW t \in Term, NEW c \in Index, RecvHeartbeat(t, c)
  PROVE  AckedInRound'
<1>1. PICK r : r = AtTerm(t)
  OBVIOUS
<1> DEFINE v == [r EXCEPT !.committed = c]
<1>2. Received(v) /\ t >= raft.term /\ promise' = promise
  BY <1>1 DEF RecvHeartbeat, HeartbeatCommit
<1>3. IsRaft(r) /\ r.hs = raft.hs /\ r.unst = raft.unst /\ r.snap = raft.snap
  BY <1>1, <1>2, AtTermIs DEF Inv, Shapes
<1>4. v.unst = raft.unst /\ v.snap = raft.snap /\ v.hs = raft.hs
  BY <1>3 DEF IsRaft
<1> HIDE DEF v
<1>5. raft' = v /\ UNCHANGED <<mem, pc, promise>>
  BY <1>2 DEF Received, disk
<1> QED
  BY <1>4, <1>5, SameLogAcked

LEMMA VoteAcked ==
  ASSUME Inv, AckedInRound, pc = "ready", NEW t \in Term, NEW c, RecvVote(t, c)
  PROVE  AckedInRound'
<1>1. PICK r : r = AtTerm(t)
  OBVIOUS
<1> DEFINE v == [r EXCEPT !.vote = c, !.grants = @ \cup {<<t, c>>}]
<1>2. Received(v) /\ t >= raft.term /\ promise' = promise
  BY <1>1 DEF RecvVote
<1>3. IsRaft(r) /\ r.hs = raft.hs /\ r.unst = raft.unst /\ r.snap = raft.snap
  BY <1>1, <1>2, AtTermIs DEF Inv, Shapes
<1>4. v.unst = raft.unst /\ v.snap = raft.snap /\ v.hs = raft.hs
  BY <1>3 DEF IsRaft
<1> HIDE DEF v
<1>5. raft' = v /\ UNCHANGED <<mem, pc, promise>>
  BY <1>2 DEF Received, disk
<1> QED
  BY <1>4, <1>5, SameLogAcked

-----------------------------------------------------------------------------
(* What was acknowledged, step by step of a round.                          *)

(* From the Save on only the length of the log matters.                     *)
LEMMA RoundAcked ==
  ASSUME Inv, Agreed, Acked, AckedInRound, UNCHANGED <<raft, promise>>,
         NEW a, mem' = a, LastOf(raft, a) = LastOf(raft, mem), pc' \notin {"ready", "save"}
  PROVE  AckedInRound'
<1>1. promise.term <= raft.term
  <2>1. /\ Len(promise.log) \in Nat /\ promise.term \in Nat
        /\ raft.term \in Nat /\ raft.hs.term \in Nat /\ raft.hs.term <= raft.term
    BY AckedNumbers
  <2>2. promise.term <= raft.hs.term \/ promise.term <= raft.term
    BY DEF AckedInRound
  <2> QED
    BY <2>1, <2>2
<1>2. Len(promise.log) <= LastOf(raft, mem)
  BY DEF AckedInRound
<1> QED
  BY <1>1, <1>2 DEF AckedInRound

LEMMA SaveAcked ==
  ASSUME Inv, Inv', Paced, Agreed, Acked, AckedInRound, Save
  PROVE  AckedInRound'
<1>1. /\ pc = "save" /\ pc' = "send" /\ UNCHANGED <<raft, promise>>
      /\ mem' = SaveMemory(mem, rd.ents, rd.hs)
  BY DEF Save, At, InLoop
<1>2. PICK a : a = mem'
  OBVIOUS
<1>3. IsMemory(a) /\ IsMemory(mem) /\ IsRaft(raft)
  BY <1>2 DEF Inv, Shapes
<1>4. View(raft, a) = View(raft, mem)
  BY <1>1, <1>2, <1>3, SavedView
<1>5. Len(View(raft, a)) = LastOf(raft, a) /\ Len(View(raft, mem)) = LastOf(raft, mem)
  BY <1>3, ViewIs
<1>6. LastOf(raft, a) = LastOf(raft, mem)
  BY <1>4, <1>5
<1> QED
  BY <1>1, <1>2, <1>6, RoundAcked

LEMMA SendAcked ==
  ASSUME Inv, Agreed, Acked, AckedInRound, Send
  PROVE  AckedInRound' /\ promise'.term \in Nat
<1>1. /\ pc' = "apply" /\ UNCHANGED <<raft, mem>>
      /\ promise' = IF rd.ack /\ Sent(Peers \ {ID}) # {}
                    THEN [log |-> LogView, term |-> raft.term] ELSE promise
  BY DEF Send, At, InLoop, disk
<1>2. CASE promise' = promise
  <2>1. AckedInRound'
    BY <1>1, <1>2, RoundAcked
  <2> QED
    BY <1>2, <2>1 DEF Acked
<1>3. CASE promise' = [log |-> LogView, term |-> raft.term]
  <2>1. PICK log : log = LogView
    OBVIOUS
  <2>2. log = View(raft, mem)
    BY <2>1 DEF LogView, View
  <2>3. Len(log) = LastOf(raft, mem) /\ LastOf(raft, mem) \in Nat
    BY <2>2, ViewIs DEF Inv, Shapes
  <2>4. promise'.log = log /\ promise'.term = raft.term
    BY <1>3, <2>1
  <2>5. raft.term \in Nat
    BY AckedNumbers
  <2>6. LastOf(raft, mem)' = LastOf(raft, mem)
    BY <1>1
  <2>7. Len(log) <= LastOf(raft, mem) /\ raft.term <= raft.term
    BY <2>3, <2>5
  <2>8. (Len(promise.log) <= LastOf(raft, mem))' /\ (promise.term <= raft.term)'
    BY <1>1, <2>4, <2>6, <2>7
  <2>9. AckedInRound'
    BY <1>1, <2>8 DEF AckedInRound
  <2> QED
    BY <2>4, <2>5, <2>9
<1> QED
  BY <1>1, <1>2, <1>3

LEMMA ApplyAcked ==
  ASSUME Inv, Agreed, Acked, AckedInRound, Apply \/ Restore
  PROVE  AckedInRound'
<1>1. UNCHANGED <<raft, mem, promise>> /\ pc' \notin {"ready", "save"}
  BY DEF Apply, Restore, AfterApply, AfterSnapshot, At, InLoop, disk
<1> QED
  BY <1>1, RoundAcked

LEMMA CreateSnapshotAcked ==
  ASSUME Inv, Agreed, Acked, AckedInRound, CreateSnapshot
  PROVE  AckedInRound'
<1> DEFINE last == Last(rd.commits)
           snap == [index |-> last.index, term |-> last.term,
                    voters |-> DefaultVoters, data |-> state]
<1>1. pc' = "compact" /\ UNCHANGED <<raft, promise>> /\ mem' = [mem EXCEPT !.snap = snap]
  BY DEF CreateSnapshot, MemCreateSnapshot, At, InLoop
<1>2. PICK a : a = mem'
  OBVIOUS
<1>3. a.offset = mem.offset /\ a.ents = mem.ents
  BY <1>1, <1>2 DEF Inv, Shapes, IsMemory
<1>4. LastIndex(a) = LastIndex(mem)
  BY <1>3, HeldSame
<1>5. LastOf(raft, a) = LastOf(raft, mem)
  BY <1>4 DEF LastOf
<1> QED
  BY <1>1, <1>2, <1>5, RoundAcked

LEMMA CompactAcked ==
  ASSUME Inv, Paced, Agreed, Acked, AckedInRound, Compact
  PROVE  AckedInRound'
<1>1. /\ pc = "compact" /\ UNCHANGED <<raft, promise>> /\ pc' = AfterSnapshot
      /\ mem' = MemCompact(mem, mem.snap.index)
  BY DEF Compact, At, InLoop
<1>2. PICK c : c = mem'
  OBVIOUS
<1>3. /\ c.ok = mem.ok /\ c.offset = mem.snap.index /\ c.snap = mem.snap /\ c.hs = mem.hs
      /\ c.ents = SubSeq(mem.ents, mem.snap.index - mem.offset + 1, Len(mem.ents))
      /\ LastIndex(c) = IF LastIndex(mem) > mem.snap.index THEN LastIndex(mem)
                        ELSE mem.snap.index
  BY <1>1, <1>2, CompactedIs
<1>4. /\ InHand /\ Settled(mem) /\ mem.snap.index = Last(rd.commits).index
      /\ rd.commits # <<>> /\ Last(rd.commits).index \in 1 .. raft.committed
  BY <1>1 DEF Paced, Inv, InRound
<1>5. rd.snap = NoSnapshot
  BY <1>4 DEF InHand
<1>6. PICK i \in Nat, l \in Nat, k \in Nat :
        i = mem.snap.index /\ l = LastIndex(mem) /\ k = raft.committed
  BY <1>4, Numbers
<1>7. LastIndex(c) = LastIndex(mem)
  <2>1. i <= k /\ k <= l
    BY <1>4, <1>5, <1>6 DEF Settled
  <2>2. ~(l > i) => i = l
    BY <2>1
  <2> QED
    BY <1>3, <1>6, <2>2
<1>8. LastOf(raft, c) = LastOf(raft, mem)
  BY <1>7 DEF LastOf
<1>9. pc' \notin {"ready", "save"}
  BY <1>1 DEF AfterSnapshot
<1> QED
  BY <1>1, <1>2, <1>8, <1>9, RoundAcked

LEMMA InstallAcked ==
  ASSUME Inv, Agreed, Acked, AckedInRound, Install
  PROVE  AckedInRound'
<1>1. pc = "install" /\ pc' = "restore" /\ UNCHANGED <<raft, promise>>
  BY DEF Install, At, InLoop
<1>2. PICK a : a = mem'
  OBVIOUS
<1>3. raft.snap # NoSnapshot
  BY <1>1 DEF Inv, InRound
<1>4. LastOf(raft, a) = LastOf(raft, mem)
  BY <1>3 DEF LastOf
<1> QED
  BY <1>1, <1>2, <1>4, RoundAcked

LEMMA AdvanceAcked ==
  ASSUME Inv, AgreedInRound, AckedInRound, Advance
  PROVE  AckedInRound'
<1>1. /\ pc = "advance" /\ pc' = "ready" /\ UNCHANGED <<mem, promise>>
      /\ raft' = [raft EXCEPT !.unst = <<>>, !.snap = NoSnapshot, !.hs = HardState,
                    !.ack = FALSE, !.grants = {},
                    !.applied = IF rd.commits # <<>> THEN Last(rd.commits).index
                                ELSE Max({@, rd.snap.index})]
  BY DEF Advance, At, disk, history
<1>2. PICK q : q = raft'
  OBVIOUS
<1>3. q.unst = <<>> /\ q.snap = NoSnapshot /\ q.hs = HardState
  BY <1>1, <1>2 DEF Inv, Shapes, IsRaft
<1>4. q.hs.term = raft.term
  BY <1>3 DEF HardState
<1>5. Held(mem) = View(raft, mem)
  BY <1>1 DEF AgreedInRound
<1>6. LastIndex(mem) = LastOf(raft, mem)
  <2>1. Len(View(raft, mem)) = LastOf(raft, mem) /\ Len(Held(mem)) = LastIndex(mem)
    BY ViewIs, HeldIs DEF Inv, Shapes
  <2> QED
    BY <1>5, <2>1
<1>7. LastOf(q, mem) = LastIndex(mem)
  BY <1>3 DEF LastOf
<1>8. Len(promise.log) <= LastOf(raft, mem) /\ promise.term <= raft.term
  BY <1>1 DEF AckedInRound
<1> QED
  BY <1>1, <1>2, <1>3, <1>4, <1>6, <1>7, <1>8 DEF AckedInRound

LEMMA RestartAcked ==
  ASSUME Inv, Agreed, Acked, Restart, harm = {}
  PROVE  AckedInRound'
<1>1. /\ status = "down" /\ Starts(file) /\ mem' = Replay(file) /\ UNCHANGED <<promise, pc>>
      /\ IF LastIndex(mem') > 0 THEN raft' = RestartNode(mem') ELSE raft' = StartNode
  BY DEF Restart
<1>2. pc' = "ready"
  BY <1>1 DEF Inv, Shapes
<1>3. PICK m : m = Replay(file)
  OBVIOUS
<1>4. IsStored(m, granted) /\ CommitInLog(m)
  BY <1>1, <1>3 DEF Starts, Inv, Stored
<1>5. IsMemory(m)
  BY <1>4 DEF IsStored
<1>6. Len(promise.log) <= LastIndex(m) /\ promise.term <= m.hs.term
  BY <1>1, <1>3 DEF Acked, AckedInFile, Starts
<1>7. LastIndex(m) \in Nat /\ m.offset \in Nat /\ Len(promise.log) \in Nat
  BY <1>5, HeldIs DEF Agreed, IsSeq
<1>8. CASE LastIndex(m) > 0
  <2>1. PICK q : q = RestartNode(m)
    OBVIOUS
  <2>2. raft' = q /\ q.unst = <<>> /\ q.snap = NoSnapshot /\ q.hs = m.hs
    BY <1>1, <1>3, <1>8, <2>1 DEF RestartNode
  <2>3. LastOf(q, m) = LastIndex(m)
    BY <2>2 DEF LastOf
  <2> QED
    BY <1>1, <1>2, <1>3, <1>6, <2>2, <2>3 DEF AckedInRound
<1>9. CASE ~(LastIndex(m) > 0)
  <2>1. LastIndex(m) = 0 /\ raft' = StartNode
    BY <1>1, <1>3, <1>7, <1>9
  <2>2. m.hs = NoHardState
    <3> SUFFICES ASSUME m.hs # NoHardState PROVE FALSE
      OBVIOUS
    <3>1. m.hs.commit >= 1 /\ m.hs.commit \in m.offset .. LastIndex(m)
      BY <1>4, <2>1 DEF IsStored, CommitInLog
    <3> QED
      BY <1>7, <2>1, <3>1
  <2>3. StartNode.hs = m.hs /\ (StartNode.unst # <<>> => StartNode.unst[1].index = 1)
    BY <2>2, StartIs
  <2>4. LastOf(StartNode, m) \in Nat
    BY <1>5, StartIs, LastOfIs
  <2>5. Len(promise.log) = 0
    BY <1>6, <1>7, <2>1
  <2> QED
    BY <1>1, <1>2, <1>3, <1>6, <2>1, <2>3, <2>4, <2>5 DEF AckedInRound
<1> QED
  BY <1>8, <1>9

(* After w records of a Save the file has what was acknowledged.            *)
LEMMA PartAcked ==
  ASSUME Inv, Paced, Agreed, AckedInRound, pc = "save", rd.snap = NoSnapshot,
         NEW w \in Nat, w <= Len(rd.ents), NEW m, m = MemAppend(mem, SubSeq(rd.ents, 1, w))
  PROVE  AckedInFile(m)
<1>1. IsMemory(mem) /\ mem.ok /\ IsRaft(raft) /\ LastIndex(mem) \in Nat
  BY Numbers
<1>2. rd.ents = raft.unst /\ raft.snap = NoSnapshot
  BY DEF Inv, InRound
<1>3. /\ Len(promise.log) <= LastIndex(mem) /\ promise.term <= raft.hs.term
      /\ raft.unst # <<>> => Len(promise.log) < raft.unst[1].index
  BY DEF AckedInRound
<1>4. /\ mem.hs = raft.hs /\ Follows(raft, mem)
      /\ raft.unst # <<>> => mem.offset < raft.unst[1].index
  BY DEF Paced, Level
<1>5. raft.unst \in Seq(Entry) /\ Len(raft.unst) \in Nat
  BY <1>1 DEF IsRaft, Successive
<1>6. CASE w = 0
  <2>1. SubSeq(rd.ents, 1, w) = <<>>
    BY <1>2, <1>5, <1>6
  <2>2. m = mem
    BY <2>1 DEF MemAppend
  <2> QED
    BY <1>3, <1>4, <2>2 DEF AckedInFile
<1>7. CASE w # 0
  <2>1. raft.unst # <<>> /\ w \in 1 .. Len(raft.unst)
    BY <1>2, <1>5, <1>7
  <2>2. PICK first \in Nat \ {0} : first = raft.unst[1].index
    BY <1>1, <2>1, LastOfIs
  <2>3. first <= LastIndex(mem) + 1 /\ mem.offset < first
    BY <1>2, <1>4, <2>1, <2>2 DEF Follows
  <2>4. PICK es : es = SubSeq(raft.unst, 1, w)
    OBVIOUS
  <2>5. Successive(raft.unst, first)
    BY <1>1, <2>2 DEF IsRaft
  <2>6. Successive(es, first) /\ Len(es) = w /\ es # <<>>
    BY <1>7, <2>1, <2>4, <2>5, CutBefore
  <2>7. /\ IsMemory(MemAppend(mem, es)) /\ MemAppend(mem, es).ok
        /\ MemAppend(mem, es).offset = mem.offset /\ MemAppend(mem, es).snap = mem.snap
        /\ MemAppend(mem, es).hs = mem.hs
        /\ es = <<>> => MemAppend(mem, es) = mem
        /\ es # <<>> => LastIndex(MemAppend(mem, es)) = first + Len(es) - 1
    BY <1>1, <2>3, <2>6, AppendFits
  <2>8. m.hs = mem.hs /\ LastIndex(m) = first + w - 1
    BY <1>2, <2>4, <2>6, <2>7
  <2>9. PICK n \in Nat : n = Len(promise.log)
    BY DEF Agreed, IsSeq
  <2>10. n <= first + w - 1
    BY <1>3, <1>7, <2>1, <2>2, <2>9
  <2> QED
    BY <1>3, <1>4, <2>8, <2>9, <2>10 DEF AckedInFile
<1> QED
  BY <1>6, <1>7

(* What a node that is stopped leaves behind, a pending install excepted.   *)
LEMMA FileKeeps ==
  ASSUME Inv, Mirrored, Agreed, Acked, AgreedInRound, AckedInRound, status = "up",
         ~InstallPending
  PROVE  AckedInFile(Replay(file))
<1>1. rd.snap = NoSnapshot \/ pc \in {"ready", "advance"} \/ (pc = "save" /\ todo # <<>>)
  BY DEF InstallPending
<1>2. PICK m : m = Replay(file)
  OBVIOUS
<1>3. Paced /\ Filed /\ IsMemory(mem) /\ IsRaft(raft)
  BY DEF Mirrored, Inv, Shapes
<1>4. ASSUME NEW h, IsMemory(h), Held(h) = View(raft, mem), LastIndex(m) = LastIndex(h),
             m.hs = HardState
      PROVE  AckedInFile(m)
  <2>1. LastIndex(h) = LastOf(raft, mem)
    <3>1. Len(View(raft, mem)) = LastOf(raft, mem) /\ Len(Held(h)) = LastIndex(h)
      BY <1>3, <1>4, ViewIs, HeldIs
    <3> QED
      BY <1>4, <3>1
  <2>2. Len(promise.log) <= LastOf(raft, mem)
    BY DEF AckedInRound
  <2>3. promise.term <= raft.term
    <3>1. /\ Len(promise.log) \in Nat /\ promise.term \in Nat
          /\ raft.term \in Nat /\ raft.hs.term \in Nat /\ raft.hs.term <= raft.term
      BY AckedNumbers
    <3>2. promise.term <= raft.hs.term \/ promise.term <= raft.term
      BY DEF AckedInRound
    <3> QED
      BY <3>1, <3>2
  <2>4. m.hs.term = raft.term
    BY <1>4 DEF HardState
  <2> QED
    BY <1>4, <2>1, <2>2, <2>3, <2>4 DEF AckedInFile
<1>5. CASE pc = "ready"
  BY <1>2, <1>3, <1>5 DEF Paced, Filed, Level, AckedInRound, AckedInFile
<1>6. CASE pc = "save"
  <2>1. PICK w \in Nat : Written(w)
    BY <1>3, <1>6 DEF Filed
  <2>2. m = Partly(w)
    BY <1>2, <2>1 DEF Written
  <2>5. CASE rd.snap # NoSnapshot
    <3>1. Partly(w) = mem
      BY <1>1, <1>3, <1>6, <2>1, <2>5, NothingWritten DEF Written
    <3>2. /\ mem.hs = raft.hs /\ Len(promise.log) <= LastIndex(mem)
          /\ promise.term <= raft.hs.term
      BY <1>3, <1>6 DEF Paced, Level, AckedInRound
    <3> QED
      BY <1>2, <2>2, <3>1, <3>2 DEF AckedInFile
  <2>3. CASE rd.snap = NoSnapshot /\ w <= Len(rd.ents)
    <3>1. m = MemAppend(mem, SubSeq(rd.ents, 1, w))
      BY <2>2, <2>3 DEF Partly
    <3>2. AckedInFile(m)
      BY <1>3, <1>6, <2>3, <3>1, PartAcked
    <3> QED
      BY <1>2, <3>2
  <2>4. CASE rd.snap = NoSnapshot /\ ~(w <= Len(rd.ents))
    <3>1. m = SaveMemory(mem, rd.ents, rd.hs)
      BY <2>2, <2>4 DEF Partly
    <3>2. Settled(m)
      BY <1>3, <1>6, <3>1, WholeFits
    <3>3. Held(m) = View(raft, mem)
      BY <1>3, <1>6, <2>4, <3>1, SavedHeld
    <3>4. IsMemory(m)
      BY <1>3, <1>6, <3>1, SavedMemory, WholeFits
    <3>5. m.hs = HardState
      BY <3>2 DEF Settled
    <3> QED
      BY <1>2, <1>4, <3>3, <3>4, <3>5
  <2> QED
    BY <2>3, <2>4, <2>5
<1>7. CASE pc \notin {"ready", "save"}
  <2>1. Held(mem) = View(raft, mem)
    BY <1>1, <1>7 DEF AgreedInRound
  <2>2. LastIndex(m) = LastIndex(mem) /\ m.hs = HardState
    <3>1. CASE pc = "compact"
      <4>1. /\ m.ok /\ IsMemory(m) /\ Settled(m) /\ mem = [m EXCEPT !.snap = mem.snap]
            /\ mem.offset = m.offset /\ mem.ents = m.ents /\ mem.hs = m.hs
        BY <1>2, <3>1, Unrecorded
      <4> QED
        BY <4>1, HeldSame DEF Settled
    <3>2. CASE pc = "restore"
      BY <1>1, <3>2 DEF Inv, InRound
    <3>3. CASE pc \notin {"compact", "restore"}
      <4>1. m = mem /\ mem.hs = HardState
        BY <1>2, <1>3, <1>7, <3>3 DEF Paced, Filed, Settled, Inv, Shapes
      <4> QED
        BY <4>1
    <3> QED
      BY <3>1, <3>2, <3>3
  <2> QED
    BY <1>2, <1>3, <1>4, <2>1, <2>2
<1> QED
  BY <1>5, <1>6, <1>7

LEMMA StopAcked ==
  ASSUME Inv, Mirror, Agreed, Acked, status = "up", NEW f, Stop(f), f = file \/ ~Iterate(f).ok
  PROVE  Acked'
<1>1. /\ status' = "down" /\ file' = f /\ promise' = promise
      /\ harm' = harm \cup IF InstallPending THEN {"install"} ELSE {}
  BY DEF Stop
<1>2. ASSUME Iterate(f).ok, harm' = {} PROVE AckedInFile(Replay(f))
  <2>1. f = file /\ harm = {} /\ ~InstallPending
    BY <1>1, <1>2
  <2>2. Mirrored /\ AgreedInRound /\ AckedInRound
    BY <2>1 DEF Mirror, Agreed, Acked, Undisturbed
  <2> QED
    BY <2>1, <2>2, FileKeeps
<1>3. AckedInFile(Replay(file))' = AckedInFile(Replay(f))
  BY <1>1 DEF AckedInFile
<1> QED
  BY <1>1, <1>2, <1>3 DEF Acked

LEMMA AckedInit == Init => Acked
<1> SUFFICES ASSUME Init PROVE Acked
  OBVIOUS
<1>1. /\ status = "up" /\ pc = "ready" /\ raft = StartNode /\ mem = NewMemoryStorage
      /\ promise = [log |-> <<>>, term |-> 0]
  BY DEF Init
<1>2. IsMemory(mem) /\ LastIndex(mem) = 0
  BY <1>1, Empties
<1>3. Len(promise.log) = 0 /\ promise.term = 0
  BY <1>1
<1>4. /\ LastOf(raft, mem) \in Nat /\ raft.hs.term = 0
      /\ raft.unst # <<>> => raft.unst[1].index = 1
  BY <1>1, <1>2, StartIs, LastOfIs DEF NoHardState
<1>5. AckedInRound
  BY <1>1, <1>2, <1>3, <1>4 DEF AckedInRound
<1> QED
  BY <1>1, <1>3, <1>5 DEF Acked

LEMMA AckedMessages ==
  ASSUME Inv, Mirror, Agreed, Acked, Messages
  PROVE  Acked'
<1>1. /\ status = "up" /\ pc = "ready"
      /\ Stop(file) \/ UNCHANGED <<status, disk, pc, rd, state, covered, harm>>
  BY MessagesLeave
<1>2. DOMAIN promise = {"log", "term"} /\ IsSeq(promise.log) /\ promise.term \in Nat
  BY DEF Agreed, Acked
<1>3. CASE Stop(file)
  BY <1>1, <1>3, StopAcked
<1>4. CASE UNCHANGED <<status, disk, pc, rd, state, covered, harm>>
  <2>1. ASSUME promise'.term = promise.term, harm = {} => AckedInRound' PROVE Acked'
    BY <1>1, <1>2, <1>4, <2>1 DEF Acked
  <2>2. harm = {} => AckedInRound /\ AgreedInRound
    BY <1>1 DEF Agreed, Acked, Undisturbed
  <2>3. PICK t \in Term :
          \/ \E i \in Index : \E c \in {0, i} : RecvEntry(t, i, c)
          \/ \E i \in Index : RecvSnapshot(t, i)
          \/ \E c \in Index : RecvHeartbeat(t, c)
          \/ \E c \in Index : RecvHeartbeatPanic(t, c)
          \/ \E c \in Candidates : RecvVote(t, c)
    BY DEF Messages
  <2>4. CASE \E i \in Index : \E c \in {0, i} : RecvEntry(t, i, c)
    <3>0. PICK i \in Index : \E c \in {0, i} : RecvEntry(t, i, c)
      BY <2>4
    <3>1. PICK c \in {0, i} : RecvEntry(t, i, c)
      BY <3>0
    <3>2. DOMAIN promise' = {"log", "term"} /\ IsSeq(promise'.log) /\ promise'.term = promise.term
      BY <1>2, <3>1, PromiseCut
    <3>3. harm = {} => AckedInRound'
      BY <1>1, <2>2, <3>1, EntryAcked
    <3> QED
      BY <2>1, <3>2, <3>3
  <2>5. CASE \E i \in Index : RecvSnapshot(t, i)
    <3>1. PICK i \in Index : RecvSnapshot(t, i)
      BY <2>5
    <3>2. DOMAIN promise' = {"log", "term"} /\ IsSeq(promise'.log) /\ promise'.term = promise.term
      BY <1>2, <3>1, PromiseCut
    <3>3. harm = {} => AckedInRound'
      BY <1>1, <2>2, <3>1, SnapshotAcked
    <3> QED
      BY <2>1, <3>2, <3>3
  <2>6. CASE \E c \in Index : RecvHeartbeat(t, c)
    <3>1. PICK c \in Index : RecvHeartbeat(t, c)
      BY <2>6
    <3>2. promise' = promise
      BY <3>1 DEF RecvHeartbeat
    <3>3. harm = {} => AckedInRound'
      BY <1>1, <2>2, <3>1, HeartbeatAcked
    <3> QED
      BY <2>1, <3>2, <3>3
  <2>7. CASE \E c \in Index : RecvHeartbeatPanic(t, c)
    BY <1>1, <2>7, StopAcked DEF RecvHeartbeatPanic
  <2>8. CASE \E c \in Candidates : RecvVote(t, c)
    <3>1. PICK c \in Candidates : RecvVote(t, c)
      BY <2>8
    <3>2. promise' = promise
      BY <3>1 DEF RecvVote
    <3>3. harm = {} => AckedInRound'
      BY <1>1, <2>2, <3>1, VoteAcked
    <3> QED
      BY <2>1, <3>2, <3>3
  <2> QED
    BY <2>3, <2>4, <2>5, <2>6, <2>7, <2>8
<1> QED
  BY <1>1, <1>3, <1>4

LEMMA AckedNext == Inv /\ Inv' /\ Mirror /\ Agreed /\ Acked /\ [Next]_vars => Acked'
<1> SUFFICES ASSUME Inv, Inv', Mirror, Agreed, Acked, [Next]_vars PROVE Acked'
  OBVIOUS
<1>1. ASSUME NEW f, Stop(f), status = "up", f = file \/ ~Iterate(f).ok PROVE Acked'
  BY <1>1, StopAcked
<1>2. promise.term \in Nat
  BY DEF Acked
<1>3. ASSUME status = "up", status' = "up", harm \subseteq harm', promise' = promise,
             Paced /\ AgreedInRound /\ AckedInRound => AckedInRound'
      PROVE  Acked'
  <2>1. harm' = {} => Paced /\ AgreedInRound /\ AckedInRound
    BY <1>3 DEF Mirror, Mirrored, Agreed, Acked, Undisturbed
  <2> QED
    BY <1>2, <1>3, <2>1 DEF Acked
<1>4. CASE TakeReady \/ WriteRecord
  <2>1. /\ status = "up" /\ status' = "up" /\ harm \subseteq harm'
        /\ UNCHANGED <<raft, mem, promise>> /\ pc \in {"ready", "save"} /\ pc' = "save"
    BY <1>4 DEF TakeReady, WriteRecord, At, InLoop
  <2>2. LastOf(raft, mem)' = LastOf(raft, mem) /\ LastIndex(mem)' = LastIndex(mem)
    BY <2>1
  <2>3. AckedInRound => AckedInRound'
    BY <2>1, <2>2 DEF AckedInRound
  <2> QED
    BY <1>3, <2>1, <2>3
<1>5. CASE Save
  <2>1. status = "up" /\ status' = "up" /\ harm \subseteq harm' /\ promise' = promise
    BY <1>5 DEF Save, At, InLoop
  <2> QED
    BY <1>3, <1>5, <2>1, SaveAcked
<1>6. CASE Send
  <2>1. status = "up" /\ status' = "up" /\ harm' = harm
    BY <1>6 DEF Send, At, InLoop
  <2>2. harm = {} => AckedInRound' /\ promise'.term \in Nat
    <3> SUFFICES ASSUME harm = {} PROVE AckedInRound' /\ promise'.term \in Nat
      OBVIOUS
    <3>1. AckedInRound
      BY <2>1 DEF Acked
    <3> QED
      BY <1>6, <3>1, SendAcked
  <2>3. promise'.term \in Nat
    <3>1. promise' = promise \/ promise'.term = raft.term
      BY <1>6 DEF Send
    <3> QED
      BY <1>2, <3>1, AckedNumbers
  <2> QED
    BY <2>1, <2>2, <2>3 DEF Acked
<1>7. CASE Apply \/ Restore
  <2>1. status = "up" /\ status' = "up" /\ harm \subseteq harm' /\ promise' = promise
    BY <1>7 DEF Apply, Restore, At, InLoop
  <2> QED
    BY <1>3, <1>7, <2>1, ApplyAcked
<1>8. CASE CreateSnapshot
  <2>1. status = "up" /\ status' = "up" /\ harm \subseteq harm' /\ promise' = promise
    BY <1>8 DEF CreateSnapshot, At, InLoop
  <2> QED
    BY <1>3, <1>8, <2>1, CreateSnapshotAcked
<1>9. CASE Compact
  <2>1. status = "up" /\ status' = "up" /\ harm \subseteq harm' /\ promise' = promise
    BY <1>9 DEF Compact, At, InLoop
  <2> QED
    BY <1>3, <1>9, <2>1, CompactAcked
<1>10. CASE Install
  <2>1. status = "up" /\ status' = "up" /\ harm \subseteq harm' /\ promise' = promise
    BY <1>10 DEF Install, At, InLoop
  <2> QED
    BY <1>3, <1>10, <2>1, InstallAcked
<1>11. CASE Advance
  <2>1. status = "up" /\ status' = "up" /\ harm \subseteq harm' /\ promise' = promise
    BY <1>11 DEF Advance, At, history
  <2> QED
    BY <1>3, <1>11, <2>1, AdvanceAcked
<1>12. CASE ReadyPanic \/ SavePanic
  <2>1. Stop(file) /\ status = "up"
    BY <1>12 DEF ReadyPanic, SavePanic, At
  <2> QED
    BY <1>1, <2>1
<1>13. CASE Crash
  <2>1. PICK n \in 0 .. 2 : Stop(IF n = 0 THEN file ELSE TornAppend(file, Head(todo), n))
    BY <1>13 DEF Crash
  <2>2. status = "up" /\ Iterate(file).ok /\ IsSeq(file)
    BY <1>13 DEF Crash, Inv, Stored, Running
  <2>3. CASE n = 0
    BY <1>1, <2>1, <2>2, <2>3
  <2>4. CASE n # 0
    <3>1. n \in 1 .. 2
      BY <2>4
    <3>2. ~Iterate(TornAppend(file, Head(todo), n)).ok
      BY <2>2, <3>1, TornUnread
    <3> QED
      BY <1>1, <2>1, <2>2, <2>4, <3>2
  <2> QED
    BY <2>3, <2>4
<1>14. CASE Messages
  BY <1>14, AckedMessages
<1>15. CASE Restart
  <2>1. status' = "up" /\ UNCHANGED <<harm, promise>>
    BY <1>15 DEF Restart
  <2>2. harm = {} => AckedInRound'
    BY <1>15, RestartAcked
  <2> QED
    BY <1>2, <2>1, <2>2 DEF Acked
<1>16. CASE FailToStart
  <2>1. status = "down" /\ status' = "dead" /\ UNCHANGED <<file, promise, harm>>
    BY <1>16 DEF FailToStart, history, disk
  <2>2. AckedInFile(Replay(file))' = AckedInFile(Replay(file))
    BY <2>1 DEF AckedInFile
  <2> QED
    BY <1>2, <2>1, <2>2 DEF Acked
<1>17. CASE UNCHANGED vars
  <2>1. UNCHANGED <<status, file, mem, raft, pc, rd, promise, harm>>
    BY <1>17 DEF vars
  <2> QED
    BY <2>1 DEF Acked, AckedInRound, AckedInFile
<1> QED
  BY <1>4, <1>5, <1>6, <1>7, <1>8, <1>9, <1>10, <1>11, <1>12, <1>13, <1>14, <1>15,
     <1>16, <1>17 DEF Next, ReadyLoop

(* node.go:131-136, storage.go:76-157: what was acknowledged is in the log  *)
(* that etcd/raft sees, until the Save that follows also in the memory,     *)
(* below the entries of the Ready, and in what a stopped node leaves, as    *)
(* long as its file can be read and none of the recorded harms happened.    *)
THEOREM AckedStays == Spec => []Acked
<1>1. Init => Acked
  BY AckedInit
<1>2. Inv /\ Inv' /\ Mirror /\ Agreed /\ Acked /\ [Next]_vars => Acked'
  BY AckedNext
<1> QED
  BY <1>1, <1>2, Invariance, Mirroring, AgreedStays, PTL DEF Spec

(* node.go:131-136, storage.go:77: what a node has acknowledged, entries    *)
(* and term, is in the replay of its file at every moment, so also in the   *)
(* middle of a Save, unless one of the recorded harms came first.           *)
THEOREM PromisesKept == Spec => []PromisedDurable
<1>1. Inv /\ Mirror /\ Trail /\ Agreed /\ Acked => PromisedDurable
  <2> SUFFICES ASSUME Inv, Mirror, Trail, Agreed, Acked, Sound PROVE PromisedDurable
    BY DEF PromisedDurable
  <2>1. Iterate(file).ok /\ harm = {} /\ ~InstallPending
    BY DEF Sound
  <2>2. PICK m : m = Replay(file)
    OBVIOUS
  <2>3. Starts(file) /\ AckedInFile(m) /\ FileAgrees(file)
    <3>1. CASE status = "up"
      <4>1. /\ Mirrored /\ Paced /\ Trailing /\ AgreedInRound /\ AckedInRound
            /\ IsSeq(promise.log)
        BY <2>1, <3>1 DEF Mirror, Mirrored, Trail, Agreed, Acked, Undisturbed
      <4>2. Starts(file)
        BY <2>1, <3>1, <4>1, LeavesStartable
      <4>3. AckedInFile(m)
        BY <2>1, <2>2, <3>1, <4>1, FileKeeps
      <4>4. FileAgrees(file)
        BY <2>1, <3>1, <4>1, FileAgreed
      <4> QED
        BY <4>2, <4>3, <4>4
    <3>2. CASE status # "up"
      BY <2>1, <2>2, <3>2 DEF Mirror, Agreed, Acked, Undisturbed
    <3> QED
      BY <3>1, <3>2
  <2>4. IsMemory(m)
    BY <2>1, <2>2, <2>3 DEF Starts, Inv, Stored, IsStored
  <2>5. /\ LastIndex(m) \in Nat /\ IsSeq(Held(m)) /\ Len(Held(m)) = LastIndex(m)
        /\ m.offset \in Nat /\ m.offset <= LastIndex(m) /\ m.offset <= Len(GroupLog)
        /\ \A i \in 1 .. LastIndex(m) :
             Held(m)[i] = IF i <= m.offset THEN GroupLog[i] ELSE m.ents[i - m.offset]
    BY <2>4, HeldIs
  <2>6. PICK a : a = promise.log /\ Len(a) \in Nat
    BY DEF Agreed, IsSeq
  <2>7. /\ promise.term <= m.hs.term /\ Len(a) <= LastIndex(m)
        /\ \A i \in 1 .. Len(a) : Held(m)[i] = a[i]
    <3>1. promise.term <= m.hs.term /\ Len(a) <= LastIndex(m)
      BY <2>3, <2>6 DEF AckedInFile
    <3>2. Agrees(Held(m), m.hs.commit, a)
      BY <2>1, <2>2, <2>3, <2>6 DEF FileAgrees, Starts
    <3>3. ASSUME NEW i \in 1 .. Len(a) PROVE Held(m)[i] = a[i]
      <4>1. i \in 1 .. Len(Held(m)) /\ i <= Len(a)
        BY <2>5, <2>6, <3>1
      <4> QED
        BY <3>2, <4>1 DEF Agrees
    <3> QED
      BY <3>1, <3>3
  <2>8. ASSUME NEW i \in 1 .. Len(a)
        PROVE  \/ i <= m.offset /\ a[i] = GroupLog[i]
               \/ i \in FirstIndex(m) .. LastIndex(m) /\ a[i] = m.ents[i - m.offset]
    <3>1. i \in Nat \ {0} /\ i \in 1 .. LastIndex(m)
      BY <2>5, <2>6, <2>7
    <3>2. CASE i <= m.offset
      BY <2>5, <2>7, <3>1, <3>2
    <3>3. CASE ~(i <= m.offset)
      <4>1. i \in FirstIndex(m) .. LastIndex(m)
        BY <2>5, <3>1, <3>3 DEF FirstIndex
      <4> QED
        BY <2>5, <2>7, <3>1, <3>3, <4>1
    <3> QED
      BY <3>2, <3>3
  <2> QED
    BY <2>2, <2>6, <2>7, <2>8 DEF PromisedDurable
<1> QED
  BY <1>1, Invariance, Mirroring, FileBehind, AgreedStays, AckedStays, PTL

-----------------------------------------------------------------------------
(* The commands of a log: Commands is a recursive function.                 *)

(* One entry more.                                                          *)
Counted(cmds, e) == IF e.cmd = NoOp THEN cmds ELSE Append(cmds, e.cmd)

IsTally(f, es, n) ==
  f = [j \in 0 .. n |-> IF j = 0 THEN <<>> ELSE Counted(f[j - 1], es[j])]

LEMMA TallyIs ==
  ASSUME NEW f, NEW es, NEW n \in Nat, IsTally(f, es, n)
  PROVE  /\ DOMAIN f = 0 .. n /\ f[0] = <<>>
         /\ \A j \in 1 .. n : f[j] = Counted(f[j - 1], es[j])
<1>1. DOMAIN f = 0 .. n
  BY DEF IsTally
<1>2. \A j \in 0 .. n :
        f[j] = IF j = 0 THEN <<>> ELSE Counted(f[j - 1], es[j])
  BY DEF IsTally
<1> QED
  BY <1>1, <1>2

LEMMA TallyExists ==
  ASSUME NEW es
  PROVE  \A n \in Nat : \E f : IsTally(f, es, n)
<1> DEFINE Missing == {n \in Nat : ~ \E f : IsTally(f, es, n)}
<1> SUFFICES ASSUME Missing # {} PROVE FALSE
  OBVIOUS
<1>1. PICK m \in Missing : \A i \in Missing : m <= i
  <2>1. Missing \in SUBSET Nat
    OBVIOUS
  <2> QED
    BY <2>1, LeastElement
<1>2. CASE m = 0
  <2> DEFINE f == [j \in 0 .. 0 |-> <<>>]
  <2>1. IsTally(f, es, 0)
    BY DEF IsTally
  <2> QED
    BY <1>2, <2>1
<1>3. CASE m # 0
  <2>1. m - 1 \in Nat /\ m - 1 \notin Missing /\ m \in Nat
    BY <1>1, <1>3
  <2>2. PICK f : IsTally(f, es, m - 1)
    BY <2>1
  <2>3. PICK last : last = Counted(f[m - 1], es[m])
    OBVIOUS
  <2> DEFINE g == [j \in 0 .. m |-> IF j = m THEN last ELSE f[j]]
  <2>4. /\ f[0] = <<>>
        /\ \A j \in 1 .. m - 1 : f[j] = Counted(f[j - 1], es[j])
    BY <2>1, <2>2, TallyIs
  <2>5. ASSUME NEW j \in 0 .. m
        PROVE  g[j] = IF j = 0 THEN <<>> ELSE Counted(g[j - 1], es[j])
    <3>1. CASE j = 0
      BY <1>3, <2>1, <2>4, <3>1
    <3>2. CASE j # 0 /\ j # m
      <4>1. j \in 1 .. m - 1 /\ j - 1 \in 0 .. m /\ j - 1 # m
        BY <2>1, <3>2
      <4>2. g[j] = f[j] /\ g[j - 1] = f[j - 1]
        BY <3>2, <4>1
      <4> QED
        BY <2>4, <3>2, <4>1, <4>2
    <3>3. CASE j = m
      <4>1. m - 1 \in 0 .. m /\ m - 1 # m
        BY <2>1
      <4>2. g[m - 1] = f[m - 1] /\ g[m] = last
        BY <2>1, <4>1
      <4> QED
        BY <1>3, <2>3, <3>3, <4>2
    <3> QED
      BY <3>1, <3>2, <3>3
  <2>6. g = [j \in 0 .. m |-> g[j]]
    OBVIOUS
  <2> HIDE DEF g
  <2>7. IsTally(g, es, m)
    BY <2>5, <2>6 DEF IsTally
  <2> QED
    BY <1>1, <2>7
<1> QED
  BY <1>2, <1>3

(* Tallies over logs that agree are the same as far as they go.             *)
LEMMA TalliesAgree ==
  ASSUME NEW es, NEW others, NEW m \in Nat, NEW n \in Nat, NEW i \in Nat,
         i <= m, i <= n, Alike(es, others, i),
         NEW f, IsTally(f, es, m), NEW g, IsTally(g, others, n)
  PROVE  f[i] = g[i]
<1> DEFINE Apart == {j \in 0 .. i : f[j] # g[j]}
<1>1. /\ f[0] = <<>> /\ \A j \in 1 .. m : f[j] = Counted(f[j - 1], es[j])
      /\ g[0] = <<>> /\ \A j \in 1 .. n : g[j] = Counted(g[j - 1], others[j])
  BY TallyIs
<1> SUFFICES ASSUME Apart # {} PROVE FALSE
  OBVIOUS
<1>2. PICK j \in Apart : \A l \in Apart : j <= l
  <2>1. Apart \in SUBSET Nat
    OBVIOUS
  <2> QED
    BY <2>1, LeastElement
<1>3. j # 0
  BY <1>1
<1>4. j \in 1 .. i /\ j \in 1 .. m /\ j \in 1 .. n /\ j - 1 \in 0 .. i /\ ~(j <= j - 1)
  BY <1>3
<1>5. f[j - 1] = g[j - 1]
  BY <1>2, <1>4
<1>6. f[j] = g[j]
  BY <1>1, <1>4, <1>5 DEF Alike
<1> QED
  BY <1>6

LEMMA CommandsTally ==
  ASSUME NEW es, Len(es) \in Nat
  PROVE  \E f : IsTally(f, es, Len(es)) /\ Commands(es) = f[Len(es)]
<1>1. PICK n \in Nat : n = Len(es)
  OBVIOUS
<1> DEFINE Fun(f) == f = [j \in 0 .. n |->
                           IF j = 0 THEN <<>>
                           ELSE IF es[j].cmd = NoOp THEN f[j - 1]
                                ELSE Append(f[j - 1], es[j].cmd)]
<1>2. PICK f : IsTally(f, es, n)
  BY TallyExists
<1>3. Fun(f)
  BY <1>2 DEF IsTally, Counted
<1>4. Fun(CHOOSE g : Fun(g))
  BY <1>3
<1>5. Commands(es) = (CHOOSE g : Fun(g))[n]
  BY <1>1 DEF Commands
<1>6. IsTally(CHOOSE g : Fun(g), es, n)
  BY <1>4 DEF IsTally, Counted
<1> QED
  BY <1>1, <1>5, <1>6

LEMMA CommandsNone == Commands(<<>>) = <<>>
<1>1. PICK none : none = <<>>
  OBVIOUS
<1>2. Len(none) = 0
  BY <1>1
<1>3. PICK f : IsTally(f, none, Len(none)) /\ Commands(none) = f[Len(none)]
  BY <1>2, CommandsTally
<1>4. IsTally(f, none, 0)
  BY <1>2, <1>3
<1>5. f[0] = <<>>
  BY <1>4, TallyIs
<1> QED
  BY <1>1, <1>2, <1>3, <1>5

LEMMA TallyTyped ==
  ASSUME NEW S, \A e \in Entry : e.cmd \in S,
         NEW es \in Seq(Entry), NEW n \in Nat, n <= Len(es), NEW f, IsTally(f, es, n)
  PROVE  \A j \in 0 .. n : f[j] \in Seq(S)
<1> DEFINE Bad == {j \in 0 .. n : f[j] \notin Seq(S)}
<1>1. f[0] = <<>> /\ \A j \in 1 .. n : f[j] = Counted(f[j - 1], es[j])
  BY TallyIs
<1> SUFFICES ASSUME Bad # {} PROVE FALSE
  OBVIOUS
<1>2. PICK j \in Bad : \A l \in Bad : j <= l
  <2>1. Bad \in SUBSET Nat
    OBVIOUS
  <2> QED
    BY <2>1, LeastElement
<1>3. j # 0
  <2>1. f[0] \in Seq(S)
    BY <1>1
  <2> QED
    BY <2>1
<1>4. j \in 1 .. n /\ j - 1 \in 0 .. n /\ ~(j <= j - 1)
  BY <1>3
<1>5. f[j - 1] \in Seq(S)
  BY <1>2, <1>4
<1>6. es[j] \in Entry
  BY <1>4
<1>7. es[j].cmd \in S
  BY <1>6
<1>8. f[j] \in Seq(S)
  <2>1. f[j] = Counted(f[j - 1], es[j])
    BY <1>1, <1>4
  <2>2. PICK x, c : x = f[j - 1] /\ c = es[j].cmd
    OBVIOUS
  <2>3. x \in Seq(S) /\ Append(x, c) \in Seq(S)
    BY <1>5, <1>7, <2>2
  <2>4. f[j] = IF c = NoOp THEN x ELSE Append(x, c)
    BY <2>1, <2>2 DEF Counted
  <2> QED
    BY <2>3, <2>4
<1> QED
  BY <1>8

LEMMA CountedAfter ==
  ASSUME NEW S, NEW a \in Seq(S), NEW b \in Seq(S), NEW e, e.cmd \in S
  PROVE  Counted(a \o b, e) = a \o Counted(b, e)
<1>1. CASE e.cmd = NoOp
  BY <1>1 DEF Counted
<1>2. CASE e.cmd # NoOp
  <2>1. PICK c \in S : c = e.cmd
    OBVIOUS
  <2>2. a \o b \in Seq(S) /\ <<c>> \in Seq(S)
    OBVIOUS
  <2>3. Append(a \o b, c) = (a \o b) \o <<c>> /\ Append(b, c) = b \o <<c>>
    BY <2>2, AppendIsConcat
  <2>4. (a \o b) \o <<c>> = a \o (b \o <<c>>)
    BY <2>2, ConcatAssociative
  <2> QED
    BY <1>2, <2>1, <2>3, <2>4 DEF Counted
<1> QED
  BY <1>1, <1>2

LEMMA CommandsConcat ==
  ASSUME NEW s \in Seq(Entry), NEW t \in Seq(Entry)
  PROVE  Commands(s \o t) = Commands(s) \o Commands(t)
<1>0. PICK S : \A e \in Entry : e.cmd \in S
  <2>1. \A e \in Entry : e.cmd \in {d.cmd : d \in Entry}
    OBVIOUS
  <2> QED
    BY <2>1
<1>1. PICK n \in Nat, m \in Nat : n = Len(s) /\ m = Len(t)
  OBVIOUS
<1>2. PICK u : u = s \o t
  OBVIOUS
<1>3. /\ u \in Seq(Entry) /\ Len(u) = n + m
      /\ \A j \in 1 .. n : u[j] = s[j]
      /\ \A j \in 1 .. m : u[n + j] = t[j]
  <2>1. u \in Seq(Entry) /\ Len(u) = n + m
    BY <1>1, <1>2
  <2>2. \A j \in 1 .. n : u[j] = s[j]
    BY <1>1, <1>2
  <2>3. \A j \in 1 .. m : u[n + j] = t[j]
    BY <1>1, <1>2
  <2> QED
    BY <2>1, <2>2, <2>3
<1>4. PICK k \in Nat : k = n + m
  OBVIOUS
<1>5. PICK f : IsTally(f, s, n) /\ Commands(s) = f[n]
  BY <1>1, CommandsTally
<1>6. PICK g : IsTally(g, t, m) /\ Commands(t) = g[m]
  BY <1>1, CommandsTally
<1>7. PICK h : IsTally(h, u, k) /\ Commands(u) = h[k]
  BY <1>3, <1>4, CommandsTally
<1>8. h[n] = f[n]
  <2>1. n <= k /\ n <= n /\ Alike(u, s, n)
    BY <1>3, <1>4 DEF Alike
  <2> QED
    BY ONLY n \in Nat, k \in Nat, <1>5, <1>7, <2>1, TalliesAgree
<1>9. f[n] \in Seq(S) /\ \A j \in 0 .. m : g[j] \in Seq(S)
  <2>1. n \in 0 .. n /\ n <= Len(s) /\ m <= Len(t)
    BY <1>1
  <2>2. \A j \in 0 .. n : f[j] \in Seq(S)
    BY <1>0, <1>5, <2>1, TallyTyped
  <2>3. \A j \in 0 .. m : g[j] \in Seq(S)
    BY <1>0, <1>6, <2>1, TallyTyped
  <2> QED
    BY <2>1, <2>2, <2>3
<1>10. g[0] = <<>> /\ \A j \in 1 .. m : g[j] = Counted(g[j - 1], t[j])
  BY <1>6, TallyIs
<1>11. \A j \in 1 .. k : h[j] = Counted(h[j - 1], u[j])
  BY <1>7, TallyIs
<1>12. PICK b : \A j \in 0 .. m : b[j] = f[n] \o g[j]
  <2> DEFINE c == [j \in 0 .. m |-> f[n] \o g[j]]
  <2>1. \A j \in 0 .. m : c[j] = f[n] \o g[j]
    BY Zenon
  <2> HIDE DEF c
  <2> QED
    BY <2>1, Zenon
<1> DEFINE Apart == {j \in 0 .. m : h[n + j] # b[j]}
<1>13. Apart = {}
  <2> SUFFICES ASSUME Apart # {} PROVE FALSE
    BY Zenon
  <2>1. PICK j \in Apart : \A l \in Apart : j <= l
    <3>1. Apart \in SUBSET Nat
      OBVIOUS
    <3> QED
      BY <3>1, LeastElement
  <2>2. j # 0
    <3>1. n + 0 = n /\ f[n] \o <<>> = f[n]
      BY <1>9
    <3> QED
      BY <1>8, <1>10, <1>12, <2>1, <3>1
  <2>3. /\ j \in 1 .. m /\ j - 1 \in 0 .. m /\ ~(j <= j - 1)
        /\ n + j \in 1 .. k /\ n + (j - 1) = n + j - 1
    BY <1>4, <2>2
  <2>4. h[n + j - 1] = f[n] \o g[j - 1]
    BY <1>12, <2>1, <2>3
  <2>5. h[n + j] = Counted(h[n + j - 1], t[j])
    BY <1>3, <1>11, <2>3
  <2>6. t[j].cmd \in S
    BY <1>0, <1>1, <2>3
  <2>7. g[j - 1] \in Seq(S) /\ f[n] \in Seq(S)
    BY <1>9, <2>3
  <2>8. Counted(f[n] \o g[j - 1], t[j]) = f[n] \o Counted(g[j - 1], t[j])
    <3>1. PICK x, y, e : x = f[n] /\ y = g[j - 1] /\ e = t[j]
      OBVIOUS
    <3>2. x \in Seq(S) /\ y \in Seq(S) /\ e.cmd \in S
      BY <2>6, <2>7, <3>1
    <3>3. Counted(x \o y, e) = x \o Counted(y, e)
      BY ONLY <3>2, CountedAfter
    <3> QED
      BY <3>1, <3>3, Zenon
  <2> QED
    <3>1. h[n + j] = f[n] \o g[j]
      BY <1>10, <2>3, <2>4, <2>5, <2>8
    <3>2. h[n + j] = b[j]
      BY <1>12, <2>3, <3>1
    <3> QED
      BY <2>1, <3>2
<1>14. h[n + m] = f[n] \o g[m]
  <2>1. m \in 0 .. m
    OBVIOUS
  <2>2. h[n + m] = b[m]
    BY <1>13, <2>1
  <2> QED
    BY <1>12, <2>1, <2>2
<1> QED
  BY <1>2, <1>4, <1>5, <1>6, <1>7, <1>14

(* A log to its end is its start and what follows.                          *)
LEMMA CommandsNext ==
  ASSUME NEW from \in Nat, NEW to \in Nat, NEW end \in Nat,
         from <= to, to <= end, end <= Len(GroupLog)
  PROVE  Commands(SubSeq(GroupLog, from + 1, to)) \o Commands(SubSeq(GroupLog, to + 1, end))
           = Commands(SubSeq(GroupLog, from + 1, end))
<1>1. GroupLog \in Seq(Entry) /\ Len(GroupLog) \in Nat
  BY LogFacts
<1>2. PICK s, t, u : /\ s = SubSeq(GroupLog, from + 1, to) /\ t = SubSeq(GroupLog, to + 1, end)
                     /\ u = SubSeq(GroupLog, from + 1, end)
  OBVIOUS
<1>3. /\ s \in Seq(Entry) /\ Len(s) = to - from
      /\ \A j \in 1 .. to - from : s[j] = GroupLog[from + j]
  BY <1>1, <1>2
<1>4. /\ t \in Seq(Entry) /\ Len(t) = end - to
      /\ \A j \in 1 .. end - to : t[j] = GroupLog[to + j]
  BY <1>1, <1>2
<1>5. /\ u \in Seq(Entry) /\ Len(u) = end - from
      /\ \A j \in 1 .. end - from : u[j] = GroupLog[from + j]
  BY <1>1, <1>2
<1>6. s \o t = u
  <2>1. s \o t \in Seq(Entry) /\ Len(s \o t) = Len(u)
    BY <1>3, <1>4, <1>5
  <2>2. ASSUME NEW j \in 1 .. Len(u) PROVE (s \o t)[j] = u[j]
    <3>1. CASE j <= to - from
      <4>1. (s \o t)[j] = s[j]
        BY <1>3, <1>4, <1>5, <3>1
      <4> QED
        BY <1>3, <1>5, <3>1, <4>1
    <3>2. CASE ~(j <= to - from)
      <4>1. j \in Nat /\ j > to - from /\ j <= end - from
        BY <1>5, <3>2
      <4>2. PICK i \in Nat \ {0} : i = j - (to - from) /\ i <= end - to /\ to + i = from + j
        BY <4>1
      <4>3. (s \o t)[j] = t[i]
        BY <1>3, <1>4, <4>1, <4>2
      <4> QED
        BY <1>4, <1>5, <4>1, <4>2, <4>3
    <3> QED
      BY <3>1, <3>2
  <2> QED
    BY <1>5, <2>1, <2>2, SeqEqual
<1>7. Commands(s \o t) = Commands(s) \o Commands(t)
  BY <1>3, <1>4, CommandsConcat, Zenon
<1> QED
  BY <1>2, <1>6, <1>7, Zenon

-----------------------------------------------------------------------------
(* What the applier was given.                                              *)

(* A snapshot of the leader has the state after the entries it stands for.  *)
TrueSnapshot(s) == s # NoSnapshot => s.data = Commands(SubSeq(GroupLog, 1, s.index))

(* The committed entries in hand are those of the group that follow the     *)
(* applied index.                                                           *)
NextPage ==
  rd.commits # <<>> => rd.commits = SubSeq(GroupLog, raft.applied + 1, Last(rd.commits).index)

OrderedInRound ==
  /\ covered.from \in Nat /\ covered.to \in Nat /\ covered.from <= covered.to
  /\ state = Commands(SubSeq(GroupLog, covered.from + 1, covered.to))
  /\ pc \in {"save", "send", "apply"} => NextPage

Ordered ==
  /\ status # "up" => state = <<>>
  /\ TrueSnapshot(raft.snap)
  /\ status = "up" /\ Undisturbed => OrderedInRound

LEMMA NothingGiven ==
  ASSUME NEW i \in Nat
  PROVE  Commands(SubSeq(GroupLog, i + 1, i)) = <<>>
<1>1. SubSeq(GroupLog, i + 1, i) = <<>>
  BY LogFacts
<1> QED
  BY <1>1, CommandsNone

LEMMA StartOrdered ==
  ASSUME NEW i \in Nat, state' = <<>>, covered' = [from |-> i, to |-> i], pc' = "ready"
  PROVE  OrderedInRound'
<1>1. covered'.from = i /\ covered'.to = i
  OBVIOUS
<1>2. Commands(SubSeq(GroupLog, i + 1, i)) = <<>>
  BY NothingGiven
<1> QED
  BY <1>1, <1>2 DEF OrderedInRound

LEMMA OrderedInit == Init => Ordered
<1> SUFFICES ASSUME Init PROVE Ordered
  OBVIOUS
<1>1. /\ status = "up" /\ pc = "ready" /\ raft = StartNode /\ state = <<>>
      /\ covered.from = 0 /\ covered.to = 0
  BY DEF Init
<1>2. Commands(SubSeq(GroupLog, 0 + 1, 0)) = <<>>
  BY NothingGiven
<1>3. OrderedInRound
  BY <1>1, <1>2 DEF OrderedInRound
<1>4. raft.snap = NoSnapshot
  BY <1>1, StartIs
<1> QED
  BY <1>1, <1>3, <1>4 DEF Ordered, TrueSnapshot

(* Messages bring at most a snapshot.                                       *)
LEMMA MessagesSnapshot ==
  ASSUME Inv, Messages, TrueSnapshot(raft.snap)
  PROVE  Stop(file) \/ TrueSnapshot(raft'.snap)
<1>1. PICK t \in Term :
        \/ \E i \in Index : \E c \in {0, i} : RecvEntry(t, i, c)
        \/ \E i \in Index : RecvSnapshot(t, i)
        \/ \E c \in Index : RecvHeartbeat(t, c)
        \/ \E c \in Index : RecvHeartbeatPanic(t, c)
        \/ \E c \in Candidates : RecvVote(t, c)
  BY DEF Messages
<1>2. PICK r : r = AtTerm(t)
  OBVIOUS
<1>3. t >= raft.term => IsRaft(r) /\ r.snap = raft.snap
  BY <1>2, AtTermIs DEF Inv, Shapes
<1>4. ASSUME NEW i \in Index, NEW c \in {0, i}, RecvEntry(t, i, c) PROVE TrueSnapshot(raft'.snap)
  <2> DEFINE a == IF Matches(t, i) THEN r
                  ELSE [r EXCEPT !.unst = Before(@, i) \o <<LeaderLog[t][i]>>]
             v == [a EXCEPT !.committed = Max({@, c}), !.ack = TRUE]
  <2>1. t >= raft.term /\ raft' = v
    BY <1>2, <1>4 DEF RecvEntry, Received
  <2>2. DOMAIN r = {"term", "vote", "unst", "snap", "committed", "applied", "hs", "ack", "grants"}
    BY <1>3, <2>1 DEF IsRaft
  <2>3. a.snap = r.snap /\ DOMAIN a = DOMAIN r
    BY <2>2
  <2> HIDE DEF a
  <2>4. v.snap = a.snap
    BY <2>2, <2>3
  <2> QED
    BY <1>3, <2>1, <2>3, <2>4
<1>5. ASSUME NEW i \in Index, RecvSnapshot(t, i) PROVE TrueSnapshot(raft'.snap)
  <2> DEFINE s == [index |-> i, term |-> GroupLog[i].term, voters |-> DefaultVoters,
                   data |-> Commands(SubSeq(GroupLog, 1, i))]
             v == [r EXCEPT !.unst = <<>>, !.snap = s, !.committed = i, !.ack = TRUE]
  <2>1. Received(v) /\ t >= raft.term
    BY <1>2, <1>5 DEF RecvSnapshot
  <2>2. s.data = Commands(SubSeq(GroupLog, 1, i)) /\ s.index = i
    OBVIOUS
  <2> HIDE DEF s
  <2>3. v.snap = s
    BY <1>3, <2>1 DEF IsRaft
  <2>4. raft' = v
    BY <2>1 DEF Received
  <2> QED
    BY <2>2, <2>3, <2>4 DEF TrueSnapshot
<1>6. ASSUME NEW c \in Index, RecvHeartbeat(t, c) PROVE TrueSnapshot(raft'.snap)
  <2>1. t >= raft.term /\ raft' = [r EXCEPT !.committed = c]
    BY <1>2, <1>6 DEF RecvHeartbeat, HeartbeatCommit, Received
  <2>2. raft'.snap = raft.snap
    BY <1>3, <2>1 DEF IsRaft
  <2> QED
    BY <2>2
<1>7. ASSUME NEW c \in Candidates, RecvVote(t, c) PROVE TrueSnapshot(raft'.snap)
  <2>1. t >= raft.term /\ raft' = [r EXCEPT !.vote = c, !.grants = @ \cup {<<t, c>>}]
    BY <1>2, <1>7 DEF RecvVote, Received
  <2>2. raft'.snap = raft.snap
    BY <1>3, <2>1 DEF IsRaft
  <2> QED
    BY <2>2
<1>8. ASSUME NEW c \in Index, RecvHeartbeatPanic(t, c) PROVE Stop(file)
  BY <1>8 DEF RecvHeartbeatPanic
<1> QED
  BY <1>1, <1>4, <1>5, <1>6, <1>7, <1>8

(* The committed entries of a Ready: those after the applied index.         *)
LEMMA PageTaken ==
  ASSUME Inv, Paced, AgreedInRound, TakeReady, "mixed" \notin harm'
  PROVE  NextPage'
<1>1. pc = "ready" /\ raft' = raft
  BY DEF TakeReady, At, InLoop
<1>2. CASE rd'.snap # NoSnapshot
  BY <1>2, SnapshotAlone DEF NextPage
<1>3. CASE rd'.snap = NoSnapshot
  <2>1. PICK lo : lo = NextToApply
    OBVIOUS
  <2>2. PICK hi :
          /\ rd'.snap = raft.snap
          /\ rd'.commits = [i \in 1 .. hi - lo + 1 |-> EntryAt(raft, mem, lo + i - 1)]
          /\ (lo > raft.committed /\ hi = lo - 1) \/ hi \in lo .. raft.committed
    <3>1. PICK hi, hs :
            /\ rd' = [ents |-> raft.unst, hs |-> hs, snap |-> raft.snap,
                      commits |-> [i \in 1 .. hi - lo + 1 |-> EntryAt(raft, mem, lo + i - 1)],
                      ack |-> raft.ack, grants |-> raft.grants]
            /\ (lo > raft.committed /\ hi = lo - 1) \/ hi \in lo .. raft.committed
      BY <2>1 DEF TakeReady
    <3>2. /\ rd'.snap = raft.snap
          /\ rd'.commits = [i \in 1 .. hi - lo + 1 |-> EntryAt(raft, mem, lo + i - 1)]
      BY <3>1
    <3> QED
      BY <3>1, <3>2
  <2>3. /\ IsRaft(raft) /\ IsMemory(mem) /\ mem.offset \in Nat /\ raft.applied \in Nat
        /\ raft.committed \in Nat /\ LastOf(raft, mem) \in Nat
    BY Numbers
  <2>4. mem.offset <= raft.applied /\ raft.committed <= LastOf(raft, mem)
    BY <1>1 DEF Paced, Level
  <2>5. lo = raft.applied + 1
    <3>1. FirstOf(raft, mem) = 1 + mem.offset
      BY <1>3, <2>2 DEF FirstOf
    <3>2. lo = Max({raft.applied + 1, 1 + mem.offset})
      BY <2>1, <3>1 DEF NextToApply
    <3>3. raft.applied + 1 \in Int /\ 1 + mem.offset \in Int
      BY <2>3
    <3>4. Max({raft.applied + 1, 1 + mem.offset})
            = IF raft.applied + 1 >= 1 + mem.offset THEN raft.applied + 1 ELSE 1 + mem.offset
      BY <3>3, MaxTwo
    <3> QED
      BY <2>3, <2>4, <3>2, <3>4
  <2>6. PICK page : page = rd'.commits
    OBVIOUS
  <2>7. CASE lo > raft.committed /\ hi = lo - 1
    <3>1. hi - lo + 1 = 0
      BY <2>3, <2>5, <2>7
    <3>2. page = <<>>
      BY <2>2, <2>6, <3>1
    <3> QED
      BY <2>6, <3>2 DEF NextPage
  <2>8. CASE hi \in lo .. raft.committed
    <3>1. PICK n \in Nat \ {0} : n = hi - lo + 1
      BY <2>3, <2>5, <2>8
    <3>2. hi \in Nat /\ hi <= Len(GroupLog) /\ hi \in 1 .. Len(GroupLog) /\ lo \in Nat \ {0}
      BY <2>3, <2>5, <2>8, LogFacts DEF IsRaft
    <3>3. ASSUME NEW i \in 1 .. n PROVE EntryAt(raft, mem, lo + i - 1) = GroupLog[lo + i - 1]
      <4>1. PICK j \in Nat : j = lo + i - 1
        BY <3>2
      <4>2. j \in 1 .. LastOf(raft, mem) /\ j <= raft.committed
        BY <2>3, <2>4, <2>8, <3>1, <3>2, <4>1
      <4>3. PICK log : log = View(raft, mem)
        OBVIOUS
      <4>4. Len(log) = LastOf(raft, mem) /\ log[j] = EntryAt(raft, mem, j)
        BY <2>3, <4>2, <4>3, ViewIs
      <4>5. log[j] = GroupLog[j]
        BY <4>2, <4>3, <4>4 DEF AgreedInRound, Agrees
      <4> QED
        BY <4>1, <4>4, <4>5
    <3>4. page = SubSeq(GroupLog, lo, hi)
      <4>1. page = [i \in 1 .. n |-> EntryAt(raft, mem, lo + i - 1)]
        BY <2>2, <2>6, <3>1
      <4>2. page = [i \in 1 .. n |-> GroupLog[lo + i - 1]]
        BY <3>3, <4>1
      <4>3. SubSeq(GroupLog, lo, hi) = [i \in 1 .. n |-> GroupLog[lo + i - 1]]
        BY <3>1, <3>2, LogFacts
      <4> QED
        BY <4>2, <4>3
    <3>5. Last(page).index = hi
      <4>1. Len(page) = n /\ page[n] = GroupLog[hi]
        BY <3>1, <3>2, <3>4, LogFacts
      <4>2. GroupLog[hi].index = hi
        BY <3>2, LogFacts, LeaderLogs DEF GroupLog
      <4> QED
        BY <4>1, <4>2 DEF Last
    <3>6. page = SubSeq(GroupLog, raft.applied + 1, Last(page).index)
      BY <2>5, <3>4, <3>5
    <3> QED
      BY <1>1, <2>6, <3>6 DEF NextPage
  <2> QED
    BY <2>2, <2>7, <2>8
<1> QED
  BY <1>2, <1>3

(* The page in hand is given to the applier.                                *)
LEMMA ApplyOrdered ==
  ASSUME Inv, Cover, Paced, OrderedInRound, covered.to = raft.applied, Apply
  PROVE  OrderedInRound'
<1>1. /\ pc = "apply" /\ UNCHANGED <<raft, rd>> /\ pc' \notin {"save", "send", "apply"}
      /\ state' = state \o Commands(rd.commits)
      /\ covered' = [covered EXCEPT !.to = IF rd.commits = <<>> THEN @ ELSE Last(rd.commits).index]
  BY DEF Apply, AfterApply, AfterSnapshot, At, InLoop
<1>2. PICK from \in Nat, to \in Nat : from = covered.from /\ to = covered.to /\ from <= to
  BY DEF OrderedInRound
<1>3. state = Commands(SubSeq(GroupLog, from + 1, to))
  BY <1>2 DEF OrderedInRound
<1>4. raft.committed \in 0 .. Len(GroupLog) /\ to <= raft.committed
  BY <1>2 DEF Inv, Shapes, IsRaft
<1>5. CASE rd.commits = <<>>
  <2>1. covered'.from = from /\ covered'.to = to
    BY <1>1, <1>2, <1>5 DEF Cover
  <2>2. Commands(SubSeq(GroupLog, from + 1, to)) \o Commands(SubSeq(GroupLog, to + 1, to))
          = Commands(SubSeq(GroupLog, from + 1, to))
    <3>1. to <= to /\ to <= Len(GroupLog)
      BY <1>4, LogFacts
    <3> QED
      BY <1>2, <3>1, CommandsNext
  <2>3. Commands(SubSeq(GroupLog, to + 1, to)) = <<>> /\ Commands(rd.commits) = <<>>
    BY <1>5, NothingGiven, CommandsNone
  <2>4. state' = Commands(SubSeq(GroupLog, from + 1, to))
    BY <1>1, <1>3, <2>2, <2>3
  <2> QED
    BY <1>1, <1>2, <2>1, <2>4 DEF OrderedInRound
<1>6. CASE rd.commits # <<>>
  <2>1. raft.applied < Last(rd.commits).index /\ Last(rd.commits).index \in 1 .. raft.committed
    BY <1>1, <1>6 DEF Paced, InHand, Inv, InRound
  <2>2. PICK end \in Nat : end = Last(rd.commits).index /\ to <= end /\ end <= Len(GroupLog)
    BY <1>2, <1>4, <2>1, LogFacts
  <2>3. rd.commits = SubSeq(GroupLog, to + 1, end)
    BY <1>1, <1>2, <1>6, <2>2 DEF OrderedInRound, NextPage
  <2>4. Commands(SubSeq(GroupLog, from + 1, to)) \o Commands(SubSeq(GroupLog, to + 1, end))
          = Commands(SubSeq(GroupLog, from + 1, end))
    BY <1>2, <2>2, CommandsNext
  <2>5. state' = Commands(SubSeq(GroupLog, from + 1, end))
    BY <1>1, <1>3, <2>3, <2>4
  <2>6. covered'.from = from /\ covered'.to = end /\ from <= end
    BY <1>1, <1>2, <1>6, <2>2 DEF Cover
  <2> QED
    BY <1>1, <2>5, <2>6 DEF OrderedInRound
<1> QED
  BY <1>5, <1>6

LEMMA RestoreOrdered ==
  ASSUME Inv, TrueSnapshot(raft.snap), Restore
  PROVE  OrderedInRound'
<1>1. /\ pc = "restore" /\ pc' = "advance" /\ state' = rd.snap.data
      /\ covered' = [from |-> 0, to |-> rd.snap.index]
  BY DEF Restore, At
<1>2. rd.snap # NoSnapshot /\ raft.snap = rd.snap
  BY <1>1 DEF Inv, InRound
<1>3. PICK i \in Nat : i = rd.snap.index
  BY <1>2, LastOfIs DEF Inv, Shapes
<1>4. covered'.from = 0 /\ covered'.to = i /\ 0 <= i
  BY <1>1, <1>3
<1>5. state' = Commands(SubSeq(GroupLog, 0 + 1, i))
  BY <1>1, <1>2, <1>3 DEF TrueSnapshot
<1> QED
  BY <1>1, <1>4, <1>5 DEF OrderedInRound

LEMMA OrderedNext ==
  Inv /\ Cover /\ Cursor /\ Pace /\ Agreed /\ Ordered /\ [Next]_vars => Ordered'
<1> SUFFICES ASSUME Inv, Cover, Cursor, Pace, Agreed, Ordered, [Next]_vars PROVE Ordered'
  OBVIOUS
<1>1. ASSUME NEW f, Stop(f) PROVE Ordered'
  <2>1. status' = "down" /\ state' = <<>> /\ raft' = StartNode
    BY <1>1 DEF Stop
  <2>2. TrueSnapshot(StartNode.snap)
    BY StartIs DEF TrueSnapshot
  <2> QED
    BY <2>1, <2>2 DEF Ordered
<1>2. TrueSnapshot(raft.snap)
  BY DEF Ordered
<1>3. ASSUME status = "up", status' = "up", harm \subseteq harm', TrueSnapshot(raft'.snap),
             Undisturbed' /\ Undisturbed /\ Paced /\ AgreedInRound /\ OrderedInRound
               => OrderedInRound'
      PROVE  Ordered'
  <2>1. Undisturbed' => Undisturbed
    BY <1>3 DEF Undisturbed
  <2>2. Undisturbed => Paced /\ AgreedInRound /\ OrderedInRound
    BY <1>3 DEF Pace, Agreed, Ordered
  <2> QED
    BY <1>3, <2>1, <2>2 DEF Ordered
<1>4. ASSUME UNCHANGED <<state, covered>>, OrderedInRound,
             pc' \in {"save", "send", "apply"} => NextPage'
      PROVE  OrderedInRound'
  BY <1>4 DEF OrderedInRound
<1>5. CASE TakeReady
  <2>1. /\ status = "up" /\ status' = "up" /\ harm \subseteq harm' /\ raft' = raft
        /\ UNCHANGED <<state, covered>>
    BY <1>5 DEF TakeReady, At, InLoop
  <2>2. ASSUME Undisturbed', Paced, AgreedInRound, OrderedInRound PROVE OrderedInRound'
    <3>1. "mixed" \notin harm'
      BY <2>2 DEF Undisturbed
    <3>2. NextPage'
      BY <1>5, <2>2, <3>1, PageTaken
    <3> QED
      BY <1>4, <2>1, <2>2, <3>2
  <2> QED
    BY <1>2, <1>3, <2>1, <2>2
<1>6. CASE WriteRecord \/ Save \/ Send
  <2>1. /\ status = "up" /\ status' = "up" /\ pc \in {"save", "send"}
        /\ UNCHANGED <<raft, rd, state, covered, harm>>
    BY <1>6 DEF WriteRecord, Save, Send, At, InLoop
  <2>2. OrderedInRound => NextPage'
    BY <2>1 DEF OrderedInRound, NextPage
  <2>3. OrderedInRound => OrderedInRound'
    BY <1>4, <2>1, <2>2
  <2> QED
    BY <1>2, <1>3, <2>1, <2>3
<1>7. CASE Apply
  <2>1. status = "up" /\ status' = "up" /\ pc = "apply" /\ UNCHANGED <<raft, harm>>
    BY <1>7 DEF Apply, At, InLoop
  <2>2. ASSUME Undisturbed, Paced, OrderedInRound PROVE OrderedInRound'
    <3>1. covered.to = raft.applied
      BY <2>1, <2>2 DEF Cursor
    <3> QED
      BY <1>7, <2>2, <3>1, ApplyOrdered
  <2> QED
    BY <1>2, <1>3, <2>1, <2>2
<1>8. CASE CreateSnapshot \/ Compact \/ Install
  <2>1. /\ status = "up" /\ status' = "up" /\ harm \subseteq harm'
        /\ UNCHANGED <<raft, state, covered>> /\ pc' \notin {"save", "send", "apply"}
    BY <1>8 DEF CreateSnapshot, Compact, Install, AfterSnapshot, At, InLoop
  <2>2. OrderedInRound => OrderedInRound'
    BY <1>4, <2>1
  <2> QED
    BY <1>2, <1>3, <2>1, <2>2
<1>9. CASE Restore
  <2>1. status = "up" /\ status' = "up" /\ UNCHANGED <<raft, harm>>
    BY <1>9 DEF Restore, At, InLoop
  <2>2. OrderedInRound'
    BY <1>2, <1>9, RestoreOrdered
  <2> QED
    BY <1>2, <1>3, <2>1, <2>2
<1>10. CASE Advance
  <2>1. /\ status = "up" /\ status' = "up" /\ pc' = "ready"
        /\ UNCHANGED <<state, covered, harm>>
        /\ raft' = [raft EXCEPT !.unst = <<>>, !.snap = NoSnapshot, !.hs = HardState,
                      !.ack = FALSE, !.grants = {},
                      !.applied = IF rd.commits # <<>> THEN Last(rd.commits).index
                                  ELSE Max({@, rd.snap.index})]
    BY <1>10 DEF Advance, At, history
  <2>2. raft'.snap = NoSnapshot
    BY <2>1 DEF Inv, Shapes, IsRaft
  <2>3. TrueSnapshot(raft'.snap)
    BY <2>2 DEF TrueSnapshot
  <2>4. OrderedInRound => OrderedInRound'
    BY <1>4, <2>1
  <2> QED
    BY <1>3, <2>1, <2>3, <2>4
<1>11. CASE ReadyPanic \/ SavePanic \/ Crash
  <2>1. \E f : Stop(f)
    BY <1>11 DEF ReadyPanic, SavePanic, Crash
  <2> QED
    BY <1>1, <2>1
<1>12. CASE Messages
  <2>1. /\ status = "up" /\ pc = "ready"
        /\ Stop(file) \/ UNCHANGED <<status, disk, pc, rd, state, covered, harm>>
    BY <1>12, MessagesLeave
  <2>2. Stop(file) \/ TrueSnapshot(raft'.snap)
    BY <1>2, <1>12, MessagesSnapshot
  <2>3. CASE Stop(file)
    BY <1>1, <2>3
  <2>4. CASE ~Stop(file)
    <3>1. OrderedInRound => OrderedInRound'
      BY <1>4, <2>1, <2>4
    <3> QED
      BY <1>3, <2>1, <2>2, <2>4, <3>1
  <2> QED
    BY <2>3, <2>4
<1>13. CASE Restart
  <2>1. /\ status = "down" /\ status' = "up" /\ Starts(file) /\ mem' = Replay(file)
        /\ raft' = RestartNode(mem') \/ raft' = StartNode
        /\ covered' = [from |-> mem'.offset, to |-> mem'.offset] /\ UNCHANGED <<state, pc>>
    BY <1>13 DEF Restart
  <2>2. raft'.snap = NoSnapshot
    BY <2>1, StartIs DEF RestartNode
  <2>3. state' = <<>> /\ pc' = "ready"
    BY <2>1 DEF Ordered, Inv, Shapes
  <2>4. PICK o \in Nat : o = mem'.offset
    BY <2>1, LogFacts DEF Starts, Inv, Stored, IsStored, IsMemory
  <2>5. OrderedInRound'
    BY <2>1, <2>3, <2>4, StartOrdered
  <2> QED
    BY <2>1, <2>2, <2>5 DEF Ordered, TrueSnapshot
<1>14. CASE FailToStart
  <2>1. status = "down" /\ status' = "dead" /\ UNCHANGED <<raft, state>>
    BY <1>14 DEF FailToStart
  <2> QED
    BY <2>1 DEF Ordered
<1>15. CASE UNCHANGED vars
  <2>1. UNCHANGED <<status, raft, pc, rd, state, covered, harm>>
    BY <1>15 DEF vars
  <2> QED
    BY <2>1 DEF Ordered, OrderedInRound, NextPage, Undisturbed
<1> QED
  BY <1>5, <1>6, <1>7, <1>8, <1>9, <1>10, <1>11, <1>12, <1>13, <1>14, <1>15
     DEF Next, ReadyLoop

(* node.go:139-143,164-172: the applier has been given each committed       *)
(* command exactly once, in the order of the log, from the index where it   *)
(* began up to the last applied one, whatever pages the entries came in,    *)
(* whatever snapshot replaced the state, and over crashes and restarts,     *)
(* unless a Ready mixed a snapshot with entries or a crash came before the  *)
(* record of a received snapshot.                                           *)
THEOREM AppliesInOrder == Spec => []AppliedInOrder
<1>1. Init => Ordered
  BY OrderedInit
<1>2. Inv /\ Cover /\ Cursor /\ Pace /\ Agreed /\ Ordered /\ [Next]_vars => Ordered'
  BY OrderedNext
<1>3. Ordered => AppliedInOrder
  BY DEF Ordered, OrderedInRound, AppliedInOrder, Undisturbed
<1> QED
  BY <1>1, <1>2, <1>3, Invariance, CursorStays, Pacing, AgreedStays, PTL DEF Spec
=============================================================================
