------------------------------ MODULE VerifyCode ------------------------------
(***************************************************************************)
(* The verification code of one recipient, and the registration that       *)
(* spends it (api_auth_verify_code, api_auth_register).                    *)
(*                                                                         *)
(* row is the recipient's row of auth_verify_codes as committed.  Sending, *)
(* checking and registering are requests that run at the same time; their  *)
(* transactions read the row FOR UPDATE, then write and commit.            *)
(*                                                                         *)
(* What that locks depends on the engine, at its default isolation.  All   *)
(* but sqlite lock the row.  Where there is no row yet, mysql locks the    *)
(* gap in the index, for several readers at once: of two first sends one   *)
(* is chosen as the victim of a deadlock.  postgresql locks nothing there: *)
(* both insert and the unique key turns one back.  sqlite takes FOR UPDATE *)
(* for a plain SELECT in a snapshot, and refuses the write of a            *)
(* transaction whose snapshot has been overtaken.                          *)
(*                                                                         *)
(* Codes are numbered in the order of their issue and never coincide.      *)
(***************************************************************************)
EXTENDS Integers, Sequences, FiniteSets

CONSTANTS
    Requests,         \* requests that are served at the same time
    Free,             \* no request: the row is not locked
    Submissions,      \* requests that submit a code: "check", "register"
    MaxAttempts,      \* max_attempts
    HourlySendLimit,  \* hourly_send_limit
    TTL,              \* code_ttl_seconds, in ticks like the times below
    ResendInterval,   \* resend_interval_seconds
    Hour,             \* length of the send window
    KeepExpired,      \* how long PurgeExpired leaves an expired row: a day
    MaxStall,         \* how long a transaction may wait for its lock
    Engines,          \* primary databases that are tried
    LastSubmit,       \* bound: no submission and no database error comes later
    MaxGuessable,     \* bound: codes issued when a submission comes
    MaxWrong,         \* bound: wrong guesses at a code before the last submission
    MaxIssues,        \* bound: codes issued
    MaxFaults,        \* bound: database errors and lost replies
    Horizon,          \* bound: the last tick, on each engine
    MaxNow            \* bound: ticks of the clock

ASSUME ConfigAssumption ==
    /\ MaxAttempts \in Nat \ {0} /\ HourlySendLimit \in Nat \ {0}
    /\ TTL \in Nat \ {0} /\ ResendInterval \in Nat \ {0} /\ Hour \in Nat \ {0}
    /\ Submissions \subseteq {"check", "register"}
    /\ Engines \subseteq {"mysql", "postgresql", "sqlite"} /\ Free \notin Requests
ASSUME DayAssumption ==
    KeepExpired \in Nat /\ MaxStall \in Nat /\ Hour + MaxStall <= KeepExpired
ASSUME BoundsAssumption ==
    /\ IsFiniteSet(Requests)
    /\ LastSubmit \in Nat /\ MaxGuessable \in Nat /\ MaxWrong \in Nat
    /\ MaxIssues \in Nat /\ MaxFaults \in Nat /\ MaxNow \in Nat \ {0}
    /\ Horizon \in [Engines -> 0..MaxNow]

VARIABLES
    now,
    engine,     \* the primary database
    row,        \* the committed row, or NoRow
    lock,       \* the request whose transaction has locked the row
    req,        \* what each request is doing
    account,    \* an account is bound to the recipient
    issued,     \* history: the instants at which codes were issued
    delivered,  \* history: codes that reached the recipient
    spent,      \* history: codes a registration has consumed
    wrong,      \* history: wrong guesses the latest code was compared with
    faults

vars == <<now, engine, row, lock, req, account, issued, delivered, spent, wrong, faults>>
history == <<issued, delivered, spent, wrong>>

RowLocks == engine # "sqlite"
DuplicatePoisons == engine = "postgresql"  \* an error ends the transaction

Codes  == 1..MaxIssues
NoCode == 0                       \* code_hash = ""
Guesses == Codes \cup {MaxIssues + 1}

NoRow == [code |-> NoCode, attempts |-> 0, expires |-> 0, resend |-> 0,
          window |-> 0, count |-> 0, sent |-> FALSE]

Idle == [kind |-> "none", pc |-> "idle", code |-> NoCode, at |-> 0,
         again |-> FALSE, seen |-> NoRow, reply |-> "none"]

Init ==
    /\ now = 1
    /\ engine \in Engines
    /\ row = NoRow
    /\ lock = Free
    /\ req = [r \in Requests |-> Idle]
    /\ account = FALSE
    /\ issued = <<>> /\ delivered = {} /\ spent = {} /\ wrong = 0
    /\ faults = 0

Fault == now <= LastSubmit /\ faults < MaxFaults /\ faults' = faults + 1

Set(r, changed) == req' = [req EXCEPT ![r] = changed]

(* The request is answered; what it had read is gone. *)
Reply(r, answer) ==
    Set(r, [Idle EXCEPT !.pc = "replied", !.reply = answer,
                        !.code = IF req[r].kind = "send" THEN req[r].code ELSE NoCode])

Unlock(r) == lock' = IF lock = r THEN Free ELSE lock

-----------------------------------------------------------------------------
(* Requests.  Sends and registrations read the clock before they wait for  *)
(* the lock, checks after. *)

InFlightSends == {r \in Requests : req[r].kind = "send" /\ req[r].pc \in {"locking", "writing"}}

Send(r) ==
    /\ req[r] = Idle
    /\ Len(issued) + Cardinality(InFlightSends) < MaxIssues
    /\ Set(r, [Idle EXCEPT !.kind = "send", !.pc = "locking", !.at = now])
    /\ UNCHANGED <<now, engine, row, lock, account, history, faults>>

Submit(r, kind, guess) ==
    /\ req[r] = Idle
    /\ now <= LastSubmit /\ Len(issued) <= MaxGuessable /\ wrong <= MaxWrong
    /\ Set(r, [Idle EXCEPT !.kind = kind, !.pc = "locking", !.code = guess,
                        !.at = IF kind = "register" THEN now ELSE 0])
    /\ UNCHANGED <<now, engine, row, lock, account, history, faults>>

(* Mutant: a plain SELECT. *)
ReadRow(r) ==
    /\ req[r].pc = "locking"
    /\ Set(r, [req[r] EXCEPT !.pc = "writing", !.seen = row])
    /\ UNCHANGED <<now, engine, row, lock, account, history, faults>>

(* SELECT ... FOR UPDATE. *)
LockRow(r) ==
    /\ req[r].pc = "locking"
    /\ lock = Free
    /\ lock' = IF RowLocks /\ row # NoRow THEN r ELSE Free
    /\ Set(r, [req[r] EXCEPT !.pc = "writing", !.seen = row])
    /\ UNCHANGED <<now, engine, row, account, history, faults>>

Writing(r, kind) == req[r].kind = kind /\ req[r].pc = "writing"

(* Mutant: without row locks the last writer wins. *)
WritableAlways(r) == RowLocks \/ req[r].pc = "writing"

(* Without row locks a transaction writes only if what it read is current. *)
Writable(r) == RowLocks \/ req[r].seen = row

(* An insert waits until nobody else has locked the gap. *)
GapIsFree(r) ==
    engine = "mysql" =>
        \A s \in Requests \ {r} : ~(req[s].pc = "writing" /\ req[s].seen = NoRow)

-----------------------------------------------------------------------------
(* checkVerificationCode and registerWithEmailCode, up to the comparison. *)

Submitted(r) == \E kind \in Submissions : Writing(r, kind)
Clock(r) == IF req[r].kind = "check" THEN now ELSE req[r].at

(* Mutant: the last attempt does not lock the code. *)
UsableAtZero(s, t) == s.attempts >= 0 /\ s.sent /\ s.code # NoCode /\ t < s.expires

Usable(s, t) == s.attempts >= 1 /\ s.sent /\ s.code # NoCode /\ t < s.expires

GuessIsWrong(r) ==
    Submitted(r) /\ Usable(req[r].seen, Clock(r)) /\ req[r].seen.code # req[r].code

CodeMatches(r) ==
    Submitted(r) /\ Usable(req[r].seen, Clock(r)) /\ req[r].seen.code = req[r].code

-----------------------------------------------------------------------------
(* prepareVerificationCode. *)

(* Mutant: the resend interval is tested only at the limit. *)
TooSoonAtLimit(s, t) ==
    t < s.window + Hour /\ s.count >= HourlySendLimit

TooSoon(s, t) ==
    \/ t < s.resend
    \/ t < s.window + Hour /\ s.count >= HourlySendLimit

(* The row with a new code, issued at t; s may be NoRow. *)
Renewed(s, t, code) ==
    LET fresh == s.window = 0 \/ t >= s.window + Hour IN
    [code     |-> code,
     attempts |-> MaxAttempts,
     expires  |-> t + TTL,
     resend   |-> t + ResendInterval,
     window   |-> IF fresh THEN t ELSE s.window,
     count    |-> IF fresh THEN 1 ELSE s.count + 1,
     sent     |-> FALSE]

Issue(r) ==
    LET code == Len(issued) + 1 IN
    /\ row' = Renewed(req[r].seen, req[r].at, code)
    /\ issued' = Append(issued, req[r].at)
    /\ wrong' = 0
    /\ Set(r, [Idle EXCEPT !.kind = "send", !.pc = "delivering", !.code = code])
    /\ UNCHANGED <<delivered, spent>>

PrepareRefused(r) ==
    /\ Writing(r, "send")
    /\ req[r].seen # NoRow /\ TooSoon(req[r].seen, req[r].at)
    /\ Unlock(r)
    /\ Reply(r, "invalid")
    /\ UNCHANGED <<now, engine, row, account, history, faults>>

PrepareSaves(r) ==
    /\ Writing(r, "send")
    /\ req[r].seen # NoRow /\ ~TooSoon(req[r].seen, req[r].at)
    /\ Writable(r)
    /\ Issue(r)
    /\ Unlock(r)
    /\ UNCHANGED <<now, engine, account, faults>>

PrepareCreates(r) ==
    /\ Writing(r, "send")
    /\ req[r].seen = NoRow /\ row = NoRow /\ GapIsFree(r)
    /\ Issue(r)
    /\ UNCHANGED <<now, engine, lock, account, faults>>

(* Mutant: the insert is an upsert, without the tests of an existing row. *)
PrepareOverwrites(r) ==
    /\ Writing(r, "send")
    /\ req[r].seen = NoRow /\ row # NoRow /\ lock = Free
    /\ Issue(r)
    /\ UNCHANGED <<now, engine, lock, account, faults>>

(* The key is taken: once more from the start, then give up.  With gap      *)
(* locks or snapshots nobody gets so far. *)
PrepareDuplicate(r) ==
    /\ RowLocks /\ Writing(r, "send")
    /\ req[r].seen = NoRow /\ row # NoRow /\ lock = Free
    /\ IF req[r].again
       THEN Reply(r, "internal")
       ELSE Set(r, [Idle EXCEPT !.kind = "send", !.pc = "locking", !.at = now, !.again = TRUE])
    /\ UNCHANGED <<now, engine, row, lock, account, history, faults>>

-----------------------------------------------------------------------------
(* The e-mail, and the update that records its fate.  An error of the      *)
(* provider does not tell whether the mail arrived. *)

Deliver(r, arrives, reported) ==
    /\ req[r].pc = "delivering"
    /\ reported => arrives
    /\ delivered' = IF arrives THEN delivered \cup {req[r].code} ELSE delivered
    /\ Set(r, [req[r] EXCEPT !.pc = IF reported THEN "marking" ELSE "clearing"])
    /\ UNCHANGED <<now, engine, row, lock, account, issued, spent, wrong, faults>>

(* WHERE id, code_hash and sent_at IS NULL. *)
StillPending(r) == row.code = req[r].code /\ ~row.sent

(* Mutant: the row is found by its id alone. *)
MarkAnySent(r) ==
    /\ req[r].pc = "marking" /\ lock = Free
    /\ IF row # NoRow
       THEN row' = [row EXCEPT !.sent = TRUE] /\ Reply(r, "sent")
       ELSE UNCHANGED row /\ Reply(r, "superseded")
    /\ UNCHANGED <<now, engine, lock, account, history, faults>>

MarkSent(r) ==
    /\ req[r].pc = "marking" /\ lock = Free
    /\ IF StillPending(r)
       THEN row' = [row EXCEPT !.sent = TRUE] /\ Reply(r, "sent")
       ELSE UNCHANGED row /\ Reply(r, "superseded")
    /\ UNCHANGED <<now, engine, lock, account, history, faults>>

(* Mutant: the row is found by its id alone. *)
ClearAnyHash(r) ==
    /\ req[r].pc = "clearing" /\ lock = Free
    /\ row' = IF row # NoRow THEN [row EXCEPT !.code = NoCode] ELSE row
    /\ Reply(r, "undelivered")
    /\ UNCHANGED <<now, engine, lock, account, history, faults>>

ClearHash(r) ==
    /\ req[r].pc = "clearing" /\ lock = Free
    /\ row' = IF StillPending(r) THEN [row EXCEPT !.code = NoCode] ELSE row
    /\ Reply(r, "undelivered")
    /\ UNCHANGED <<now, engine, lock, account, history, faults>>

(* The update fails, or the reply to a commit was lost. *)
LoseReply(r) ==
    /\ Fault
    /\ \/ req[r].pc \in {"delivering", "marking", "clearing"}
       \/ req[r].reply = "registered"
    /\ Reply(r, IF req[r].pc = "clearing" THEN "undelivered" ELSE "internal")
    /\ UNCHANGED <<now, engine, row, lock, account, history>>

-----------------------------------------------------------------------------
(* The answers of checkVerificationCode and registerWithEmailCode to a guess. *)

CodeUnusable(r) ==
    /\ Submitted(r)
    /\ ~Usable(req[r].seen, Clock(r))
    /\ Unlock(r)
    /\ Reply(r, "invalid")
    /\ UNCHANGED <<now, engine, row, account, history, faults>>

CodeWrong(r) ==
    /\ GuessIsWrong(r) /\ Writable(r)
    /\ row' = IF row = NoRow THEN row
              ELSE [row EXCEPT !.attempts = req[r].seen.attempts - 1]
    /\ wrong' = wrong + 1
    /\ Unlock(r)
    /\ Reply(r, "invalid")
    /\ UNCHANGED <<now, engine, account, issued, delivered, spent, faults>>

CheckPasses(r) ==
    /\ req[r].kind = "check" /\ CodeMatches(r)
    /\ Unlock(r)
    /\ Reply(r, "valid")
    /\ UNCHANGED <<now, engine, row, account, history, faults>>

-----------------------------------------------------------------------------
(* The rest of registerWithEmailCode: create the account, spend the code. *)

Consume(r) ==
    /\ row' = IF row = NoRow THEN row ELSE [row EXCEPT !.code = NoCode, !.sent = FALSE]
    /\ spent' = spent \cup {req[r].code}
    /\ UNCHANGED <<issued, delivered, wrong>>

RegisterPasses(r) ==
    /\ req[r].kind = "register" /\ CodeMatches(r) /\ Writable(r)
    /\ ~account
    /\ account' = TRUE
    /\ Consume(r)
    /\ Unlock(r)
    /\ Reply(r, "registered")
    /\ UNCHANGED <<now, engine, faults>>

(* Mutant: a duplicate returns before the code is spent. *)
RegisterDuplicateUnspent(r) ==
    /\ req[r].kind = "register" /\ CodeMatches(r)
    /\ spent' = spent \cup {req[r].code}
    /\ Unlock(r)
    /\ Reply(r, "invalid")
    /\ UNCHANGED <<now, engine, row, account, issued, delivered, wrong, faults>>

(* The e-mail address or, at any time, the user name is taken.  The code is *)
(* spent all the same, unless the engine refuses every further statement. *)
RegisterDuplicate(r) ==
    /\ req[r].kind = "register" /\ CodeMatches(r) /\ Writable(r)
    /\ IF DuplicatePoisons
       THEN Reply(r, "internal") /\ UNCHANGED <<row, history>>
       ELSE Reply(r, "invalid") /\ Consume(r)
    /\ Unlock(r)
    /\ UNCHANGED <<now, engine, account, faults>>

-----------------------------------------------------------------------------
(* Transactions that are rolled back. *)

(* What was compared stays compared, although no attempt is charged for it. *)
RollBack(r) ==
    /\ wrong' = IF GuessIsWrong(r) /\ req[r].seen.code = Len(issued) THEN wrong + 1 ELSE wrong
    /\ Unlock(r)
    /\ Reply(r, "internal")
    /\ UNCHANGED <<now, engine, row, account, issued, delivered, spent>>

(* A database error before the commit. *)
Abort(r) ==
    /\ Fault
    /\ req[r].pc = "writing"
    /\ RollBack(r)

(* Whether the request has come to a statement that writes. *)
Writes(r) ==
    \/ Writing(r, "send") /\ (req[r].seen = NoRow \/ ~TooSoon(req[r].seen, req[r].at))
    \/ GuessIsWrong(r)
    \/ CodeMatches(r) /\ req[r].kind = "register"

(* The engine gives up a write for the sake of another one, perhaps that of *)
(* another recipient: mysql when two inserts wait for each other's gap,     *)
(* sqlite when the snapshot was overtaken or somebody else is writing.      *)
(* Neither error is one of a duplicate key, so nothing is tried again. *)
Conflict(r) ==
    /\ \/ engine = "mysql" /\ Writing(r, "send") /\ req[r].seen = NoRow
       \/ ~RowLocks /\ Writes(r)
    /\ RollBack(r)
    /\ UNCHANGED faults

-----------------------------------------------------------------------------
(* PurgeExpired, time, and the client that takes its answer. *)

(* Mutant: a row goes as soon as its code has expired. *)
PurgeAtOnce ==
    /\ row # NoRow /\ lock = Free
    /\ row.expires < now
    /\ row' = NoRow
    /\ UNCHANGED <<now, engine, lock, req, account, history, faults>>

PurgeExpired ==
    /\ row # NoRow /\ lock = Free
    /\ row.expires < now - KeepExpired
    /\ row' = NoRow
    /\ UNCHANGED <<now, engine, lock, req, account, history, faults>>

Tick ==
    /\ now < Horizon[engine]
    /\ \A r \in Requests : req[r].at # 0 => now - req[r].at < MaxStall
    /\ now' = now + 1
    /\ UNCHANGED <<engine, row, lock, req, account, history, faults>>

EndRequest(r) ==
    /\ req[r].pc = "replied"
    /\ Set(r, Idle)
    /\ UNCHANGED <<now, engine, row, lock, account, history, faults>>

-----------------------------------------------------------------------------
Prepare(r) ==
    PrepareRefused(r) \/ PrepareSaves(r) \/ PrepareCreates(r) \/ PrepareDuplicate(r)

Answer(r) ==
    CodeUnusable(r) \/ CodeWrong(r) \/ CheckPasses(r) \/ RegisterPasses(r) \/ RegisterDuplicate(r)

Next ==
    \/ \E r \in Requests :
        \/ Send(r)
        \/ \E kind \in Submissions, guess \in Guesses : Submit(r, kind, guess)
        \/ LockRow(r)
        \/ Abort(r)
        \/ Conflict(r)
        \/ Prepare(r)
        \/ \E arrives, reported \in BOOLEAN : Deliver(r, arrives, reported)
        \/ MarkSent(r)
        \/ ClearHash(r)
        \/ LoseReply(r)
        \/ Answer(r)
        \/ EndRequest(r)
    \/ PurgeExpired
    \/ Tick

Spec == Init /\ [][Next]_vars

-----------------------------------------------------------------------------
(* Properties. *)

Time == 0..(MaxNow + TTL + ResendInterval)
RowType == [code : Codes \cup {NoCode}, attempts : 0..MaxAttempts, expires : Time,
            resend : Time, window : Time, count : 0..HourlySendLimit, sent : BOOLEAN]
ReqType == [kind  : {"none", "send", "check", "register"},
            pc    : {"idle", "locking", "writing", "delivering", "marking", "clearing", "replied"},
            code  : Guesses \cup {NoCode},
            at    : 0..MaxNow,
            again : BOOLEAN,
            seen  : RowType,
            reply : {"none", "sent", "superseded", "undelivered", "valid",
                     "registered", "invalid", "internal"}]

(* Every variable stays in its domain, and the row is locked by a request *)
(* that is about to write it. *)
TypeOK ==
    /\ now \in 1..MaxNow
    /\ engine \in Engines
    /\ row \in RowType
    /\ lock \in Requests \cup {Free}
    /\ lock # Free => req[lock].pc = "writing" /\ req[lock].seen = row
    /\ req \in [Requests -> ReqType]
    /\ account \in BOOLEAN
    /\ issued \in Seq(1..MaxNow) /\ Len(issued) <= MaxIssues
    /\ delivered \subseteq Codes /\ spent \subseteq Codes
    /\ wrong \in Nat
    /\ faults \in 0..MaxFaults

(* ability_auth.md:83: however many requests guess at once, a code is        *)
(* compared with no more than MaxAttempts wrong guesses, and one more for     *)
(* each database error, which takes back the charge for a guess.  Without    *)
(* row locks there is no such bound: each conflict takes a charge back. *)
GuessesAreBounded == RowLocks => wrong <= MaxAttempts + faults

(* ability_auth.md:34-45,107: a code is accepted only while it is the       *)
(* latest one, has reached the recipient, and no registration has spent it, *)
(* however slowly mails are delivered and whatever is resent meanwhile.  A  *)
(* check without row locks reads a snapshot and promises nothing more. *)
Accepts(r) == req[r].reply = "none" /\ req'[r].reply \in {"valid", "registered"}
AcceptedCodeIsLive ==
    [][\A r \in Requests : Accepts(r) /\ (RowLocks \/ req[r].kind = "register") =>
        /\ req[r].code = Len(issued)
        /\ req[r].code \in delivered \ spent]_vars

(* A sender whose mail was delivered is told that its code was superseded   *)
(* only if it was: a newer code exists or the row has been purged. *)
SupersededIsSuperseded ==
    \A r \in Requests : req[r].reply = "superseded" =>
        req[r].code < Len(issued) \/ row = NoRow

(* ability_auth.md:160: two issues are a resend interval apart, although    *)
(* the clock is read before the row is locked. *)
IssuesAreSpaced ==
    \A i \in 2..Len(issued) : issued[i] - issued[i - 1] >= ResendInterval

(* The hourly limit: the window begins with an issue and is fixed, so any   *)
(* hour has room for the end of one window and the whole of the next. *)
HourlyLimit ==
    \A i \in 1..Len(issued) : \A j \in i..Len(issued) :
        issued[j] - issued[i] < Hour => j - i + 1 <= 2 * HourlySendLimit - 1

(* ability_auth.md:60: without a database error no registration is told of  *)
(* one; that a user name or an address is taken is invalid input. *)
TakenNameIsInvalidInput ==
    \A r \in Requests : req[r].reply = "internal" => faults > 0

=============================================================================
