---------------------------- MODULE MCMetaStore ----------------------------
(* Small instances of MetaStore for TLC.                                    *)
EXTENDS MetaStore

MCShardID == {1, 2}
MCAddr == {"addrs"}

(* Every key, the empty one too; and a command that omits the field.        *)
OrMissing == Key \cup {Nil}
=============================================================================
