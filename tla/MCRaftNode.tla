---------------------------- MODULE MCRaftNode ----------------------------
(* A small instance of RaftNode for TLC: the two bootstrap entries, then an *)
(* entry on which the leaders of terms 1 and 2 disagree, and one more.      *)
EXTENDS RaftNode

E(i, t, c) == [index |-> i, term |-> t, cmd |-> c]
Boot == [i \in 1 .. 2 |-> E(i, 1, NoOp)]

MCPeers == {1, 2}
MCKnown == {2}
MCLeaderLog == <<Boot \o <<E(3, 1, "lost")>>,
                 Boot \o <<E(3, 2, "b"), E(4, 2, "c")>>>>

(* A longer log, for a snapshot and more than one page of entries after a   *)
(* compaction.                                                              *)
MCLongLog == <<Boot \o <<E(3, 1, "a"), E(4, 1, "lost")>>,
               Boot \o <<E(3, 1, "a"), E(4, 2, "b"), E(5, 2, "c"), E(6, 2, "d")>>>>
=============================================================================
