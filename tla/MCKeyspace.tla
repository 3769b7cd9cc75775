----------------------------- MODULE MCKeyspace -----------------------------
(* Instances of Keyspace for TLC. *)
EXTENDS Keyspace

AllCmds == {"GET", "SET", "DEL", "ZADD", "ZREM", "ZQUERY", "ZCOUNT", "ZRANK",
            "EXPIRE", "TTL", "SDIE", "ECHO", "other", "empty"}
MCTtl == {-1, 0, 1}
=============================================================================
