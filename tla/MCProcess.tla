----------------------------- MODULE MCProcess -----------------------------
(* A small instance of Process for TLC: every way to configure the storage  *)
(* with one of three relational engines left out, and every way to set the  *)
(* other sections with the default storage. *)
EXTENDS Process

StorageFiles ==
    {[section |-> [sqlite |-> s, mysql |-> m, postgresql |-> "off", redis |-> r],
      primary |-> p, redisDatabase |-> d, legacy |-> l] :
        s \in {"off", "on"}, m \in {"absent", "on"}, r \in {"off", "on"},
        p \in {"", "sqlite", "mysql", "redis"}, d \in BOOLEAN,
        l \in {"absent", "utc", "bad_zone"}}

Files ==
    {[generateDefaultConfig EXCEPT !.storage = s] : s \in StorageFiles}
        \cup {[generateDefaultConfig EXCEPT !.api = a, !.frontend = f, !.auth = g] :
                 a \in {"absent", "invalid", "valid"}, f \in {"absent", "off", "invalid", "on"},
                 g \in {"absent", "off", "on"}}
=============================================================================
