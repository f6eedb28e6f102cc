------------------------------ MODULE Revocation ------------------------------
(***************************************************************************)
(* Local logout of foreign tokens (auth_type=bridge): the gate verifies a  *)
(* token signed elsewhere, then asks MemoryRevocationStore whether its     *)
(* user has logged out since it was issued (api_auth_bridge/revocation.go).*)
(*                                                                         *)
(* One user is modelled: every operation of the store touches one key of   *)
(* its map.  entry is the user's value in that map; gates and logouts are  *)
(* concurrent requests that hold the mutex only while they touch it.       *)
(*                                                                         *)
(* The service's clock ticks in fractions of a second.  The IdP stamps its *)
(* tokens by a clock of its own, which is up to Skew ahead of it or behind *)
(* it, and what it writes into iat and exp are whole seconds.  born is the *)
(* moment at which a token was really issued, on the service's clock: no   *)
(* code reads it.                                                          *)
(***************************************************************************)
EXTENDS Integers

CONSTANTS
    Gates,       \* requests that carry a token
    Logouts,     \* callers of RevokeUserTokens
    Second,      \* ticks per second
    Skew,        \* how far the clock of the IdP may be ahead or behind
    Life,        \* lifetime of a token
    Leeway,      \* leeway_seconds of the verifier
    Retain,      \* how long callers ask the store to keep a logout
    MaxLogouts,  \* bound: calls of RevokeUserTokens
    MaxNow       \* bound: ticks of the clock

ASSUME TimeAssumption ==
    /\ Second \in Nat \ {0} /\ MaxNow \in Nat /\ Second <= MaxNow /\ Skew \in Nat
    /\ Life \in Nat \ {0} /\ Leeway \in Nat \ {0} /\ Retain \in Nat \ {0}
    /\ MaxLogouts \in Nat

VARIABLES
    now,
    entry,    \* entries[userID], or NoEntry
    gate,     \* what each request is doing
    logout,   \* what each caller of RevokeUserTokens is doing
    calls,    \* logouts begun
    latest,   \* history: the latest logout that was stored
    lost      \* history: the store lost that logout before its record expired

vars == <<now, entry, gate, logout, calls, latest, lost>>

NoEntry == [loggedOutAt |-> 0, expiresAt |-> 0]
NoToken == [born |-> 0, iat |-> 0, exp |-> 0]

WholeSecond(t) == t - (t % Second)

IdleGate   == [pc |-> "idle", token |-> NoToken, seen |-> NoEntry, floor |-> 0]
IdleLogout == [pc |-> "idle", at |-> 0]

Init ==
    /\ now = Second
    /\ entry = NoEntry
    /\ gate = [g \in Gates |-> IdleGate]
    /\ logout = [l \in Logouts |-> IdleLogout]
    /\ calls = 0
    /\ latest = 0
    /\ lost = FALSE

-----------------------------------------------------------------------------
(* Surroundings: time, and the IdP, which may leave the iat out. *)

Tick ==
    /\ now < MaxNow
    /\ now' = now + 1
    /\ UNCHANGED <<entry, gate, logout, calls, latest, lost>>

Stamps(b) == {s \in (b - Skew)..(b + Skew) : s >= Second}

Issued ==
    UNION {UNION {{[born |-> b, iat |-> i, exp |-> WholeSecond(s + Life)] : i \in {0, WholeSecond(s)}}
                  : s \in Stamps(b)} : b \in Second..now}

-----------------------------------------------------------------------------
(* RevokeUserTokens: the clock is read before the store is locked. *)

LogoutBegins(l) ==
    /\ logout[l].pc = "idle"
    /\ calls < MaxLogouts
    /\ calls' = calls + 1
    /\ logout' = [logout EXCEPT ![l] = [pc |-> "marking", at |-> now]]
    /\ UNCHANGED <<now, entry, gate, latest, lost>>

(* Mutant: the two times are swapped. *)
MarkSwapped(l) ==
    /\ logout[l].pc = "marking"
    /\ entry' = [loggedOutAt |-> now + Retain, expiresAt |-> logout[l].at]
    /\ latest' = IF logout[l].at > latest THEN logout[l].at ELSE latest
    /\ lost' = (logout[l].at < latest)
    /\ logout' = [logout EXCEPT ![l] = IdleLogout]
    /\ UNCHANGED <<now, gate, calls>>

(* The record is overwritten, whatever it says: an older logout that comes *)
(* to the lock later hides the newer one, which is then lost. *)
MarkLoggedOut(l) ==
    /\ logout[l].pc = "marking"
    /\ entry' = [loggedOutAt |-> logout[l].at, expiresAt |-> now + Retain]
    /\ latest' = IF logout[l].at > latest THEN logout[l].at ELSE latest
    /\ lost' = (logout[l].at < latest)
    /\ logout' = [logout EXCEPT ![l] = IdleLogout]
    /\ UNCHANGED <<now, gate, calls>>

-----------------------------------------------------------------------------
(* The gate: verifyBridgeJWT, then Revoked. *)

Verified(tok) ==
    /\ now <= tok.exp + Leeway
    /\ tok.iat > 0 => now + Leeway >= tok.iat

SetGate(g, label) == gate' = [gate EXCEPT ![g].pc = label]

GateVerifies(g, tok) ==
    /\ gate[g].pc = "idle"
    /\ Verified(tok)
    /\ gate' = [gate EXCEPT ![g] = [IdleGate EXCEPT !.pc = "lookup", !.token = tok]]
    /\ UNCHANGED <<now, entry, logout, calls, latest, lost>>

(* The map is read under the read lock, which is then given back.  floor is *)
(* the logout that the store owes to this request. *)
GateLooksUp(g) ==
    /\ gate[g].pc = "lookup"
    /\ gate' = [gate EXCEPT ![g].pc = "decide", ![g].seen = entry, ![g].floor = IF lost THEN 0 ELSE latest]
    /\ UNCHANGED <<now, entry, logout, calls, latest, lost>>

Expired(e) == now > e.expiresAt

(* Mutant: the logout is rounded down to its second. *)
RevokedBySecond(tok, e) == tok.iat = 0 \/ tok.iat < WholeSecond(e.loggedOutAt)

(* Mutant: the leeway of the verifier is granted to the logout. *)
RevokedWithLeeway(tok, e) == tok.iat = 0 \/ tok.iat < e.loggedOutAt + Leeway

(* A token without iat, or issued before the logout. *)
Revoked(tok, e) == tok.iat = 0 \/ tok.iat < e.loggedOutAt

GateDecides(g) ==
    /\ gate[g].pc = "decide"
    /\ SetGate(g, CASE gate[g].seen = NoEntry -> "accepted"
                    [] gate[g].seen # NoEntry /\ Expired(gate[g].seen) -> "forget"
                    [] OTHER -> IF Revoked(gate[g].token, gate[g].seen)
                                THEN "refused" ELSE "accepted")
    /\ UNCHANGED <<now, entry, logout, calls, latest, lost>>

(* The expired record that was read is deleted by its key, under a new lock: *)
(* a record that was stored in between goes with it. *)
GateForgets(g) ==
    /\ gate[g].pc = "forget"
    /\ entry' = NoEntry
    /\ SetGate(g, "accepted")
    /\ lost' = (lost \/ (entry # NoEntry /\ ~Expired(entry)))
    /\ UNCHANGED <<now, logout, calls, latest>>

GateEnds(g) ==
    /\ gate[g].pc \in {"accepted", "refused"}
    /\ gate' = [gate EXCEPT ![g] = IdleGate]
    /\ UNCHANGED <<now, entry, logout, calls, latest, lost>>

-----------------------------------------------------------------------------
Next ==
    \/ Tick
    \/ \E l \in Logouts : LogoutBegins(l) \/ MarkLoggedOut(l)
    \/ \E g \in Gates :
        \/ \E tok \in Issued : GateVerifies(g, tok)
        \/ GateLooksUp(g)
        \/ GateDecides(g)
        \/ GateForgets(g)
        \/ GateEnds(g)

Spec == Init /\ [][Next]_vars

-----------------------------------------------------------------------------
(* Properties. *)

Entry == [loggedOutAt : 1..MaxNow, expiresAt : 1..(MaxNow + Retain)]
Token == [born : Nat, iat : Nat, exp : Nat]

(* Every variable stays in its domain; a record outlives its logout. *)
TypeOK ==
    /\ now \in Second..MaxNow
    /\ entry \in Entry \cup {NoEntry}
    /\ entry # NoEntry => entry.expiresAt >= entry.loggedOutAt + Retain
    /\ gate \in [Gates -> [pc    : {"idle", "lookup", "decide", "forget", "accepted", "refused"},
                           token : Token,
                           seen  : Entry \cup {NoEntry},
                           floor : 0..MaxNow]]
    /\ logout \in [Logouts -> [pc : {"idle", "marking"}, at : 0..MaxNow]]
    /\ calls \in 0..MaxLogouts
    /\ latest \in 0..now
    /\ lost \in BOOLEAN

(* revocation.go:16-18, ability_auth.md:197: a request whose lookup begins  *)
(* after a logout was stored is not accepted with a token that was issued    *)
(* before that logout by more than the clocks differ, unless the token has   *)
(* meanwhile expired by itself or the store has lost the logout (an older    *)
(* one overwrote it, see LatestLogoutIsKept, or the removal of an expired    *)
(* record took it along). *)
LogoutRevokes ==
    \A g \in Gates :
        LET tok == gate[g].token IN
        (gate[g].pc = "accepted" /\ now <= tok.exp + Leeway) => tok.born + Skew >= gate[g].floor

(* Who logs in again after a logout is let in, a second after it at the     *)
(* latest, however the clocks differ and whatever record the request finds:  *)
(* a logout may refuse only tokens issued before it or in its second (the    *)
(* whole seconds of iat, bridge_token_verifier.go:163-165).  A token without *)
(* iat is refused as long as there is a record (revocation.go:41). *)
FreshTokensAreAccepted ==
    \A g \in Gates :
        LET tok == gate[g].token IN
        (gate[g].pc = "refused" /\ tok.iat # 0) => tok.born < latest + Skew + Second

(* revocation.go:24: the store answers with the latest logout. *)
LatestLogoutIsKept ==
    entry # NoEntry => entry.loggedOutAt = latest

=============================================================================
