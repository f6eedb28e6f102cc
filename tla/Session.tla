------------------------------- MODULE Session -------------------------------
(***************************************************************************)
(* Sessions of users known by e-mail or phone (api_auth_session): login    *)
(* creates a row of auth_sessions and hands out an access and a refresh    *)
(* token, refresh replaces the refresh token, the gate admits requests     *)
(* that carry an access token, logout revokes the row.                     *)
(*                                                                         *)
(* Calls run at the same time; each step is one statement or transaction   *)
(* on the database.  Users are never deleted by the program, so a session  *)
(* is never without its user.  Times are whole seconds.                    *)
(***************************************************************************)
EXTENDS Integers, FiniteSets

CONSTANTS
    Calls,         \* requests that are served at the same time
    Sids,          \* bound: sessions that are created
    Free,          \* no call: the row is not locked
    Passwords,     \* passwords, by their length in runes and bytes
    AccessTTL,     \* access_token_ttl_seconds
    RefreshTTL,    \* refresh_token_ttl_seconds
    Leeway,        \* leeway of parseAccessToken: 30 s
    MaxRotations,  \* bound: refresh tokens of one session
    MaxFaults,     \* bound: database errors and lost replies
    MaxNow         \* bound: ticks of the clock

ASSUME TTLAssumption ==
    AccessTTL \in Nat \ {0} /\ RefreshTTL \in Nat \ {0} /\ Leeway \in Nat
ASSUME LockAssumption == Free \notin Calls
ASSUME PasswordAssumption ==
    /\ Passwords \subseteq [runes : Nat, bytes : Nat]
    /\ \A p \in Passwords : p.bytes \in p.runes..(4 * p.runes)
ASSUME BoundsAssumption ==
    MaxRotations \in Nat \ {0} /\ MaxFaults \in Nat /\ MaxNow \in Nat \ {0}

VARIABLES
    now,
    engine,   \* "locking" (mysql, postgresql) or "snapshot" (sqlite)
    row,      \* auth_sessions
    lock,     \* the call whose transaction has locked a row
    call,     \* what each call is doing
    held,     \* refresh tokens that reached their client
    access,   \* access tokens that reached their client
    lost,     \* history: sessions whose latest tokens were lost on the way
    faults

vars == <<now, engine, row, lock, call, held, access, lost, faults>>

(* The hash of the refresh token is the number of the token, from 1. *)
NoSession == [gen |-> 0, born |-> 0, expires |-> 0, revoked |-> FALSE]

NoSid == "none"
Idle == [op |-> "none", pc |-> "rest", sid |-> NoSid, gen |-> 0, exp |-> 0,
         at |-> 0, seen |-> NoSession, late |-> FALSE]

Init ==
    /\ now = 1
    /\ engine \in {"locking", "snapshot"}
    /\ row = [s \in Sids |-> NoSession]
    /\ lock = [s \in Sids |-> Free]
    /\ call = [c \in Calls |-> Idle]
    /\ held = {} /\ access = {} /\ lost = {}
    /\ faults = 0

Set(c, changed) == call' = [call EXCEPT ![c] = changed]

(* An answer without tokens: what the call had read is forgotten, only      *)
(* whether it arrived after a logout is kept. *)
Reply(c, answer) ==
    Set(c, [Idle EXCEPT !.op = answer, !.late = call[c].late])

Unlock(c) == lock' = [s \in Sids |-> IF lock[s] = c THEN Free ELSE lock[s]]

Resting(c) == call[c].pc = "rest"

-----------------------------------------------------------------------------
(* A hash is its parameters and the password it was made from. *)

ValidatePassword(p) == p.runes \in 15..128 /\ p.bytes <= 1024

(* Mutant: half of the least memory that verifyPassword takes for safe. *)
hashPasswordWeak(p) ==
    [memory |-> 4 * 1024, iterations |-> 2, threads |-> 1, salt |-> 16, key |-> 32, of |-> p]

hashPassword(p) ==
    [memory |-> 19 * 1024, iterations |-> 2, threads |-> 1, salt |-> 16, key |-> 32, of |-> p]

SafeHash(h) ==
    /\ h.memory \in (8 * 1024)..(256 * 1024) /\ h.iterations \in 1..10 /\ h.threads \in 1..8
    /\ h.salt \in 8..64 /\ h.key \in 16..64

verifyPassword(h, p) ==
    IF ~SafeHash(h) THEN "error" ELSE IF h.of = p THEN "match" ELSE "differs"

Registered == {p \in Passwords : ValidatePassword(p)}

-----------------------------------------------------------------------------
(* Login: the input, then the password, then the session. *)

LoginInputs ==
    [params : BOOLEAN, method : {"absent", "password", "verify_code"}, address : BOOLEAN]
WellFormed == [params |-> TRUE, method |-> "password", address |-> TRUE]

AddressVerdict(in) == IF in.address THEN "authenticate" ELSE "denied"

(* Mutant: the limit of the input schema, which counts runes. *)
AuthLoginEmailShort(in, p) ==
    IF ~in.params \/ in.method = "absent" \/ p.bytes > 128 THEN "invalid"
    ELSE IF in.method # "password" THEN "unsupported" ELSE AddressVerdict(in)

AuthLoginEmail(in, p) ==
    IF ~in.params \/ in.method = "absent" \/ p.bytes > 1024 THEN "invalid"
    ELSE IF in.method # "password" THEN "unsupported" ELSE AddressVerdict(in)

AuthLoginPhone(in, p) ==
    IF in.method = "absent" THEN "invalid"
    ELSE IF in.method # "password" THEN "unsupported"
    ELSE IF ~in.params \/ p.bytes > 1024 THEN "invalid" ELSE AddressVerdict(in)

Forms == {"email", "phone"}
LoginVerdict(form, in, p) ==
    IF form = "email" THEN AuthLoginEmail(in, p) ELSE AuthLoginPhone(in, p)

(* What becomes of inputs that are not well-formed, whatever the password. *)
Refusals ==
    {LoginVerdict(form, in, p) : form \in Forms, in \in LoginInputs \ {WellFormed}, p \in Passwords}

LoginRefused(c) ==
    /\ Resting(c)
    /\ \E verdict \in Refusals : Reply(c, verdict)
    /\ UNCHANGED <<now, engine, row, lock, held, access, lost, faults>>

(* A user who registered with password p, or nobody, and the password q. *)
authenticate(found, p, q) == IF found THEN verifyPassword(hashPassword(p), q) ELSE "differs"

(* Bound: no more logins succeed than sessions can be created. *)
SessionLeft ==
    Cardinality({c \in Calls : call[c].pc = "creating"})
        < Cardinality({s \in Sids : row[s] = NoSession})

Login(c, form, found, p, q) ==
    LET verdict == LoginVerdict(form, WellFormed, q)
        proof   == authenticate(found, p, q) IN
    /\ Resting(c)
    /\ \/ verdict # "authenticate" /\ Reply(c, verdict)
       \/ verdict = "authenticate" /\ proof = "differs" /\ Reply(c, "denied")
       \/ verdict = "authenticate" /\ proof = "error" /\ Reply(c, "internal")
       \/ /\ verdict = "authenticate" /\ proof = "match" /\ SessionLeft
          /\ Set(c, [Idle EXCEPT !.op = "login", !.pc = "creating", !.at = now,
                                 !.exp = now + AccessTTL])
    /\ UNCHANGED <<now, engine, row, lock, held, access, lost, faults>>

(* createSession: the clock was read and the access token signed before the *)
(* row is inserted. *)
CreateSession(c, s) ==
    /\ call[c].pc = "creating"
    /\ row[s] = NoSession
    /\ row' = [row EXCEPT ![s] = [gen |-> 1, born |-> call[c].at,
                                  expires |-> call[c].at + RefreshTTL, revoked |-> FALSE]]
    /\ Set(c, [call[c] EXCEPT !.pc = "replying", !.sid = s, !.gen = 1])
    /\ UNCHANGED <<now, engine, lock, held, access, lost, faults>>

-----------------------------------------------------------------------------
(* AuthJWTTokenRefresh. *)

(* gen 0 stands for a secret that was never given out. *)
RefreshArrives(c, s, gen) ==
    /\ Resting(c)
    /\ gen = 0 \/ <<s, gen>> \in held
    /\ row[s].gen < MaxRotations
    /\ Set(c, [Idle EXCEPT !.op = "refresh", !.pc = "finding", !.sid = s, !.gen = gen,
                           !.late = row[s].revoked])
    /\ UNCHANGED <<now, engine, row, lock, held, access, lost, faults>>

(* Mutant: a plain SELECT on every engine. *)
FindWithoutLock(c) ==
    /\ call[c].pc = "finding"
    /\ Set(c, [call[c] EXCEPT !.pc = "deciding", !.seen = row[call[c].sid], !.at = now])
    /\ UNCHANGED <<now, engine, row, lock, held, access, lost, faults>>

(* SELECT ... FOR UPDATE, which sqlite takes for a plain SELECT, and then    *)
(* the clock.  A row that does not exist is not locked. *)
FindForUpdate(c) ==
    LET s == call[c].sid IN
    /\ call[c].pc = "finding"
    /\ IF engine = "locking" /\ row[s] # NoSession
       THEN lock[s] = Free /\ lock' = [lock EXCEPT ![s] = c]
       ELSE UNCHANGED lock
    /\ Set(c, [call[c] EXCEPT !.pc = "deciding", !.seen = row[s], !.at = now])
    /\ UNCHANGED <<now, engine, row, held, access, lost, faults>>

Spendable(s, gen, t) == s # NoSession /\ ~s.revoked /\ t < s.expires /\ s.gen = gen

(* Mutant: the early return leaves the transaction open. *)
RefusedUnended(c) ==
    /\ call[c].pc = "deciding"
    /\ ~Spendable(call[c].seen, call[c].gen, call[c].at)
    /\ Reply(c, "denied")
    /\ UNCHANGED <<now, engine, row, lock, held, access, lost, faults>>

RefreshRefused(c) ==
    /\ call[c].pc = "deciding"
    /\ ~Spendable(call[c].seen, call[c].gen, call[c].at)
    /\ Unlock(c)
    /\ Reply(c, "denied")
    /\ UNCHANGED <<now, engine, row, held, access, lost, faults>>

(* sqlite lets a transaction write only if what it has read is unchanged. *)
MayWrite(c) == engine = "snapshot" => row[call[c].sid] = call[c].seen

Rotated(c, s) == [call[c] EXCEPT !.pc = "replying", !.gen = row[s].gen + 1,
                                 !.exp = call[c].at + AccessTTL, !.seen = NoSession]

(* Mutant: the session lives on from its latest refresh. *)
RotateAndProlong(c) ==
    LET s == call[c].sid IN
    /\ call[c].pc = "deciding"
    /\ Spendable(call[c].seen, call[c].gen, call[c].at) /\ MayWrite(c)
    /\ row' = [row EXCEPT ![s].gen = @ + 1, ![s].expires = call[c].at + RefreshTTL]
    /\ Unlock(c)
    /\ Set(c, Rotated(c, s))
    /\ UNCHANGED <<now, engine, held, access, lost, faults>>

RefreshRotates(c) ==
    LET s == call[c].sid IN
    /\ call[c].pc = "deciding"
    /\ Spendable(call[c].seen, call[c].gen, call[c].at) /\ MayWrite(c)
    /\ row' = [row EXCEPT ![s].gen = @ + 1]
    /\ Unlock(c)
    /\ Set(c, Rotated(c, s))
    /\ UNCHANGED <<now, engine, held, access, lost, faults>>

(* The snapshot is old: the database is busy, and all is rolled back. *)
RefreshConflicts(c) ==
    /\ call[c].pc = "deciding"
    /\ Spendable(call[c].seen, call[c].gen, call[c].at) /\ ~MayWrite(c)
    /\ Reply(c, "internal")
    /\ UNCHANGED <<now, engine, row, lock, held, access, lost, faults>>

-----------------------------------------------------------------------------
(* A reply with tokens reaches the client, or is lost; a commit whose own    *)
(* reply was lost looks the same to the client. *)

TokensArrive(c) ==
    /\ call[c].pc = "replying"
    /\ held' = held \cup {<<call[c].sid, call[c].gen>>}
    /\ access' = access \cup {[sid |-> call[c].sid, exp |-> call[c].exp]}
    /\ Reply(c, "tokens")
    /\ UNCHANGED <<now, engine, row, lock, lost, faults>>

Fault == faults < MaxFaults /\ faults' = faults + 1

TokensAreLost(c) ==
    /\ Fault
    /\ call[c].pc = "replying"
    /\ lost' = lost \cup {call[c].sid}
    /\ Reply(c, "internal")
    /\ UNCHANGED <<now, engine, row, lock, held, access>>

(* The database fails while the user who logs in is looked up. *)
LoginFails(c) ==
    /\ Fault
    /\ Resting(c)
    /\ Reply(c, "internal")
    /\ UNCHANGED <<now, engine, row, lock, held, access, lost>>

(* Mutant: the hash is updated outside of the transaction. *)
FailsAfterUpdate(c) ==
    LET s == call[c].sid IN
    /\ Fault
    /\ ~Resting(c) /\ call[c].pc # "replying"
    /\ row' = IF call[c].pc = "deciding" THEN [row EXCEPT ![s].gen = @ + 1] ELSE row
    /\ Unlock(c)
    /\ Reply(c, "internal")
    /\ UNCHANGED <<now, engine, held, access, lost>>

(* The configuration, the database or the source of randomness returns an   *)
(* error: what the transaction had written is rolled back. *)
Fails(c) ==
    /\ Fault
    /\ ~Resting(c) /\ call[c].pc # "replying"
    /\ Unlock(c)
    /\ Reply(c, "internal")
    /\ UNCHANGED <<now, engine, row, held, access, lost>>

-----------------------------------------------------------------------------
(* The gate (auth_type=jwt): the token, then the session and its user. *)

parseAccessToken(tok, t) == t < tok.exp + Leeway

Present(c, op, tok) ==
    /\ Resting(c)
    /\ LET arrived == [Idle EXCEPT !.op = op, !.pc = "lookup", !.sid = tok.sid,
                                   !.late = row[tok.sid].revoked]
       IN  Set(c, IF parseAccessToken(tok, now) THEN arrived
                  ELSE [Idle EXCEPT !.op = "denied", !.late = arrived.late])
    /\ UNCHANGED <<now, engine, row, lock, held, access, lost, faults>>

(* Mutant: a revoked session is told only by the time it was to end. *)
SessionOpenUnrevoked(s, t) == s # NoSession /\ t < s.expires

SessionOpen(s, t) == s # NoSession /\ ~s.revoked /\ t < s.expires

AuthenticateAccessToken(c) ==
    LET s == row[call[c].sid] IN
    /\ call[c].pc = "lookup"
    /\ IF SessionOpen(s, now)
       THEN Set(c, [call[c] EXCEPT !.pc = "admitted", !.at = now, !.seen = s])
       ELSE Reply(c, "denied")
    /\ UNCHANGED <<now, engine, row, lock, held, access, lost, faults>>

(* Protected methods work with the user and the session that the gate read. *)
AuthJWTTokenCheck(c) ==
    /\ call[c].op = "check" /\ call[c].pc = "admitted"
    /\ Reply(c, "served")
    /\ UNCHANGED <<now, engine, row, lock, held, access, lost, faults>>

NickNames == [trimmed : {"empty", "fits", "long"}]
NickNameAccepted(n) == n.trimmed = "fits"

(* The update of the user's row commits, or the name was refused. *)
UserNicknameChange(c, nick) ==
    /\ call[c].op = "nickname" /\ call[c].pc = "admitted"
    /\ Reply(c, IF NickNameAccepted(nick) THEN "served" ELSE "invalid")
    /\ UNCHANGED <<now, engine, row, lock, held, access, lost, faults>>

LogoutReadsClock(c) ==
    /\ call[c].op = "logout" /\ call[c].pc = "admitted"
    /\ Set(c, [call[c] EXCEPT !.pc = "revoking", !.at = now, !.seen = NoSession])
    /\ UNCHANGED <<now, engine, row, lock, held, access, lost, faults>>

(* UPDATE ... WHERE revoked_at IS NULL AND expires_at > now: it waits for    *)
(* the lock of a refresh, and another logout may have come first. *)
AuthLogout(c) ==
    LET s == call[c].sid IN
    /\ call[c].pc = "revoking" /\ lock[s] = Free
    /\ IF SessionOpen(row[s], call[c].at)
       THEN row' = [row EXCEPT ![s].revoked = TRUE] /\ Reply(c, "logged_out")
       ELSE UNCHANGED row /\ Reply(c, "denied")
    /\ UNCHANGED <<now, engine, lock, held, access, lost, faults>>

Tick ==
    /\ now < MaxNow
    /\ now' = now + 1
    /\ UNCHANGED <<engine, row, lock, call, held, access, lost, faults>>

-----------------------------------------------------------------------------
Refresh(c) == FindForUpdate(c) \/ RefreshRefused(c) \/ RefreshRotates(c) \/ RefreshConflicts(c)

Business(c) ==
    \/ AuthJWTTokenCheck(c)
    \/ \E nick \in NickNames : UserNicknameChange(c, nick)
    \/ LogoutReadsClock(c)
    \/ AuthLogout(c)

Next ==
    \/ \E c \in Calls :
        \/ LoginRefused(c)
        \/ LoginFails(c)
        \/ \E form \in Forms, found \in BOOLEAN, p \in Registered, q \in Passwords :
              Login(c, form, found, p, q)
        \/ \E s \in Sids : CreateSession(c, s)
        \/ \E s \in Sids, gen \in 0..MaxRotations : RefreshArrives(c, s, gen)
        \/ Refresh(c)
        \/ TokensArrive(c)
        \/ TokensAreLost(c)
        \/ Fails(c)
        \/ \E op \in {"check", "nickname", "logout"}, tok \in access : Present(c, op, tok)
        \/ AuthenticateAccessToken(c)
        \/ Business(c)
    \/ Tick

Spec == Init /\ [][Next]_vars

-----------------------------------------------------------------------------
(* Properties. *)

Gens == 0..(MaxRotations + 1)
SessionType == [gen : Gens, born : 0..MaxNow, expires : 0..(MaxNow + RefreshTTL),
                revoked : BOOLEAN]

CallType ==
    [op   : {"none", "login", "refresh", "check", "nickname", "logout", "tokens", "served",
             "logged_out", "denied", "invalid", "unsupported", "internal"},
     pc   : {"rest", "creating", "finding", "deciding", "replying", "lookup", "admitted",
             "revoking"},
     sid  : Sids \cup {NoSid}, gen : Gens, exp : 0..(MaxNow + AccessTTL), at : 0..MaxNow,
     seen : SessionType, late : BOOLEAN]

(* Every variable stays in its domain; a row is locked by a refresh that    *)
(* still sees what it has read. *)
TypeOK ==
    /\ now \in 1..MaxNow
    /\ engine \in {"locking", "snapshot"}
    /\ row \in [Sids -> SessionType]
    /\ lock \in [Sids -> Calls \cup {Free}]
    /\ \A s \in Sids : lock[s] # Free =>
        LET c == call[lock[s]] IN
        engine = "locking" /\ c.pc = "deciding" /\ c.sid = s /\ c.seen = row[s]
    /\ call \in [Calls -> CallType]
    /\ held \subseteq Sids \X Gens
    /\ access \subseteq [sid : Sids, exp : 0..(MaxNow + AccessTTL)]
    /\ lost \subseteq Sids
    /\ faults \in 0..MaxFaults

(* ability_auth.md:156: a refresh token is spent at most once, whatever      *)
(* other refreshes, logouts and lost replies come in between: the session    *)
(* that a refresh rotates still holds that very token, and is not revoked. *)
Rotates(c) == call[c].pc = "deciding" /\ call'[c].pc = "replying"
RefreshTokenIsSpentOnce ==
    [][\A c \in Calls : Rotates(c) =>
        row[call[c].sid].gen = call[c].gen /\ ~row[call[c].sid].revoked]_vars

(* ability_auth.md:55: a logout takes effect at once.  No request that came  *)
(* in after the logout committed is served, with either kind of token. *)
LogoutIsImmediate ==
    \A c \in Calls : call[c].late =>
        call[c].pc # "admitted" /\ call[c].op \notin {"served", "tokens", "logged_out"}

(* No chain of refreshes carries a user past the end of the session that    *)
(* began with the login. *)
SessionsEndOnTime ==
    \A c \in Calls : call[c].pc = "admitted" =>
        call[c].at < row[call[c].sid].born + RefreshTTL

(* A failing request never costs a client its session: unless a reply was    *)
(* lost on the way, the refresh token that the row expects has reached the   *)
(* client or is about to. *)
StoredTokenIsReachable ==
    \A s \in Sids \ lost : row[s] # NoSession =>
        \/ <<s, row[s].gen>> \in held
        \/ \E c \in Calls : call[c].pc = "replying" /\ call[c].sid = s /\ call[c].gen = row[s].gen

(* register.go:61 counts runes and bytes, session.go:97 and :144 bytes, and   *)
(* password.go:95-110 judges the stored hash: whatever password a user could  *)
(* register with lets him in, through both forms. *)
RegisteredPasswordLogsIn ==
    [][\A c \in Calls, form \in Forms, p \in Registered :
        Login(c, form, TRUE, p, p) => call'[c].pc = "creating"]_vars

=============================================================================
