----------------------------- MODULE MCDispatch -----------------------------
(* Instances of Dispatch's configurations and calls for TLC. *)
EXTENDS Dispatch

AuthSettings ==
    {[authType |-> a, session |-> TRUE, bridge |-> "absent"] : a \in {"jwt", "unknown"}}
        \cup {[authType |-> "jwt", session |-> FALSE, bridge |-> "absent"]}
        \cup {[authType |-> "bridge", session |-> FALSE, bridge |-> b] :
                 b \in {"absent", "no_path", "alg_none", "bad_key", "other_alg", "es256"}}

SmallSettings ==
    {[encrypted |-> e, gate |-> g, authType |-> a.authType, session |-> a.session,
      bridge |-> a.bridge] :
        e \in BOOLEAN, g \in BOOLEAN, a \in AuthSettings}

(* The good token and its variants at the boundaries, and tokens with one *)
(* fault. *)
GenuineTokens ==
    {GoodToken, [GoodToken EXCEPT !.exp = {-Leeway}], [GoodToken EXCEPT !.sub = "number"],
     [GoodToken EXCEPT !.nbf = {}, !.iat = {Leeway}]}
FalseTokens ==
    {[GoodToken EXCEPT !.parts = 2], [GoodToken EXCEPT !.signature = "wrong"],
     [GoodToken EXCEPT !.nbf = {Leeway + 1}], [GoodToken EXCEPT !.iat = {Leeway + 1}]}
        \cup {[GoodToken EXCEPT !.alg = a] : a \in {"none", "RS256"}}
        \cup {[GoodToken EXCEPT !.exp = x] : x \in {{}, {-Leeway - 1}}}
        \cup {[GoodToken EXCEPT !.sub = x] : x \in {"empty", "long", "zero"}}
Tokens == GenuineTokens \cup FalseTokens

Kinds(ks) == {[NoCredential EXCEPT !.kind = k] : k \in ks}
Idp == [NoCredential EXCEPT !.kind = "idp"]

PlainCall ==
    [envelope |-> "ok", id |-> "set", method |-> "tools/call", params |-> "object",
     name |-> "own.report", arguments |-> "object", token |-> NoCredential,
     header |-> NoCredential, outcome |-> "value"]

SmallRequests ==
    {[PlainCall EXCEPT !.name = n, !.id = i, !.arguments = a, !.token = t, !.header = h,
                       !.outcome = o] :
        n \in {"", "nowhere", "test", "auth.logout", "own.report", "own.export"},
        i \in {"set", "none"}, a \in {"missing", "other", "object", "sealed"},
        t \in Kinds({"none", "blank", "oversize", "live", "stale", "unread", "idp"}),
        h \in Kinds({"none", "blank", "live", "idp"}),
        o \in {"value", "business", "failure"}}
    \cup {[PlainCall EXCEPT !.token = t, !.header = h] :
        t \in Kinds({"none"}) \cup {[Idp EXCEPT !.token = x] : x \in Tokens},
        h \in Kinds({"none"}) \cup {[Idp EXCEPT !.token = x] : x \in Tokens}}
    \cup {[PlainCall EXCEPT !.envelope = e, !.method = m, !.params = p] :
        e \in {"ok", "not_json", "bad_id", "bad_version", "no_method"},
        m \in {"tools/call", "other"}, p \in {"object", "other"}}
=============================================================================
