---------------------------- MODULE SessionProofs ----------------------------
(***************************************************************************)
(* The safety properties of Session, for any number of calls and sessions, *)
(* any lifetimes of tokens, and any number of faults, on either engine.    *)
(***************************************************************************)
EXTENDS Session, TLAPS

-----------------------------------------------------------------------------
(* The inductive invariant.                                                 *)

(* A session ends when it was to end from the start; only an existing row   *)
(* is locked. *)
RowInv(s) ==
    /\ row[s] # NoSession => row[s].gen >= 1 /\ row[s].expires = row[s].born + RefreshTTL
    /\ lock[s] # Free => row[s] # NoSession

(* A call that came in after the logout of its session finds it revoked.    *)
LateInv(k) ==
    /\ k.pc \in {"rest", "finding", "deciding", "lookup"}
    /\ k.op \notin {"served", "tokens", "logged_out"}
    /\ k.pc \in {"finding", "lookup"} => row[k.sid].revoked
    /\ k.pc = "deciding" => k.seen.revoked

(* What a call relies on: the token it carries was given out before, a       *)
(* refresh that has read a row on a locking engine has locked it, and who    *)
(* passed the gate did so before the end of the session. *)
CallInv(c) ==
    LET k == call[c] IN
    /\ k.pc \in {"finding", "deciding", "replying", "lookup", "admitted", "revoking"} => k.sid \in Sids
    /\ k.pc \in {"finding", "deciding"} => k.gen < MaxRotations
    /\ k.pc = "replying" => k.gen <= row[k.sid].gen
    /\ k.pc = "deciding" /\ engine = "locking" /\ k.seen # NoSession => lock[k.sid] = c
    /\ k.pc = "admitted" => row[k.sid] # NoSession /\ k.at < row[k.sid].expires
    /\ k.late => LateInv(k)

(* No client holds a token that is newer than the one its row expects.      *)
HeldInv == \A t \in held : t[2] <= row[t[1]].gen

Inv ==
    /\ TypeOK
    /\ \A s \in Sids : RowInv(s)
    /\ \A c \in Calls : CallInv(c)
    /\ HeldInv

-----------------------------------------------------------------------------
(* The records of the model. *)

(* A row that does not exist is typed like one that does. *)
LEMMA NoSessionIsTyped ==
    /\ NoSession \in SessionType
    /\ NoSession.gen = 0 /\ NoSession.revoked = FALSE
BY BoundsAssumption, TTLAssumption DEF NoSession, SessionType, Gens

(* The record of a call that has not begun. *)
LEMMA IdleIsTyped ==
    /\ Idle \in CallType
    /\ Idle.pc = "rest" /\ Idle.op = "none" /\ Idle.late = FALSE
BY NoSessionIsTyped, BoundsAssumption, TTLAssumption DEF Idle, CallType, Gens

(* The record of a call that is over: it keeps nothing but the answer and    *)
(* whether it came in late. *)
Over(answer, late) == [Idle EXCEPT !.op = answer, !.late = late]

Answers == {"none", "tokens", "served", "logged_out", "denied", "invalid", "unsupported", "internal"}

(* It is typed. *)
LEMMA OverIsTyped ==
    ASSUME NEW answer \in Answers, NEW late \in BOOLEAN
    PROVE  /\ Over(answer, late) \in CallType
           /\ Over(answer, late).pc = "rest"
           /\ Over(answer, late).op = answer
           /\ Over(answer, late).late = late
BY IdleIsTyped DEF Over, CallType, Answers

-----------------------------------------------------------------------------
(* How a row may change: it is never deleted, its dates are fixed, and it    *)
(* stays revoked. *)
RowGrows(s) ==
    /\ row'[s].gen >= row[s].gen
    /\ row[s].revoked => row'[s].revoked
    /\ row[s] # NoSession =>
        row'[s] # NoSession /\ row'[s].born = row[s].born /\ row'[s].expires = row[s].expires

(* A step of one call keeps the invariant of all the others: rows only grow, *)
(* and locks of the others stay where they are. *)
LEMMA OthersAreKept ==
    ASSUME Inv, NEW c \in Calls, NEW d \in Calls \ {c},
           call'[d] = call[d], engine' = engine,
           row' \in [Sids -> SessionType],
           \A s \in Sids : RowGrows(s),
           \A s \in Sids : lock[s] = d => lock'[s] = d
    PROVE  CallInv(d)'
<1> DEFINE k == call[d]
<1>1. k \in CallType /\ CallInv(d)
  BY DEF Inv, TypeOK
<1>2. ASSUME k.sid \in Sids
      PROVE  /\ row[k.sid] \in SessionType /\ row'[k.sid] \in SessionType
             /\ RowGrows(k.sid)
  BY <1>2 DEF Inv, TypeOK
<1>3. k.pc = "replying" => k.gen <= row'[k.sid].gen
  BY <1>1, <1>2 DEF CallInv, RowGrows, CallType, SessionType, Gens
<1>4. k.pc = "admitted" => row'[k.sid] # NoSession /\ k.at < row'[k.sid].expires
  BY <1>1, <1>2 DEF CallInv, RowGrows
<1>5. k.late => LateInv(k)'
  BY <1>1, <1>2 DEF CallInv, RowGrows, LateInv
<1> QED
  BY <1>1, <1>3, <1>4, <1>5 DEF CallInv

(* A step in which one call moves keeps the invariant if it leaves rows and  *)
(* locks of the others alone and the call itself relies on nothing false. *)
LEMMA OneCallMoves ==
    ASSUME Inv, NEW c \in Calls, NEW k \in CallType,
           call' = [call EXCEPT ![c] = k],
           now' = now, engine' = engine,
           row' \in [Sids -> SessionType], lock' \in [Sids -> Calls \cup {Free}],
           \A s \in Sids : RowGrows(s) /\ RowInv(s)',
           \A s \in Sids : lock[s] \notin {c, Free} => lock'[s] = lock[s] /\ row'[s] = row[s],
           \A s \in Sids : lock'[s] \in {lock[s], c, Free},
           \A s \in Sids : lock'[s] = c =>
               engine = "locking" /\ k.pc = "deciding" /\ k.sid = s /\ k.seen = row'[s],
           CallInv(c)',
           held' \subseteq Sids \X Gens, HeldInv',
           access' \subseteq [sid : Sids, exp : 0..(MaxNow + AccessTTL)],
           lost' \subseteq Sids, faults' \in 0..MaxFaults
    PROVE  Inv'
<1>1. call' \in [Calls -> CallType] /\ call'[c] = k /\ \A d \in Calls \ {c} : call'[d] = call[d]
  BY DEF Inv, TypeOK
<1>2. \A d \in Calls : CallInv(d)'
  <2> SUFFICES ASSUME NEW d \in Calls, d # c PROVE CallInv(d)'
    OBVIOUS
  <2>1. \A s \in Sids : lock[s] = d => lock'[s] = d
    BY LockAssumption
  <2> QED
    BY <1>1, <2>1, OthersAreKept
<1>3. ASSUME NEW s \in Sids, lock'[s] # Free
      PROVE  LET d == call'[lock'[s]] IN
             engine' = "locking" /\ d.pc = "deciding" /\ d.sid = s /\ d.seen = row'[s]
  <2>1. CASE lock'[s] = c
    BY <1>1, <2>1
  <2>2. CASE lock'[s] # c
    <3>1. lock'[s] = lock[s] /\ lock[s] \in Calls \ {c} /\ row'[s] = row[s]
      BY <1>3, <2>2 DEF Inv, TypeOK
    <3> QED
      BY <1>1, <3>1, LockAssumption DEF Inv, TypeOK
  <2> QED
    BY <2>1, <2>2
<1>4. TypeOK'
  BY <1>1, <1>3 DEF Inv, TypeOK
<1> QED
  BY <1>2, <1>4 DEF Inv

(* The same for a call that holds no lock and changes no row. *)
LEMMA OnlyTheCallMoves ==
    ASSUME Inv, NEW c \in Calls, NEW k \in CallType,
           call' = [call EXCEPT ![c] = k],
           UNCHANGED <<now, engine, row, lock, held, access>>,
           call[c].pc # "deciding",
           CallInv(c)', lost' \subseteq Sids, faults' \in 0..MaxFaults
    PROVE  Inv'
<1>1. \A s \in Sids : RowGrows(s) /\ RowInv(s)' /\ lock[s] # c
  BY LockAssumption DEF Inv, TypeOK, RowGrows, RowInv, SessionType, Gens
<1>2. HeldInv'
  BY DEF Inv, HeldInv
<1> QED
  BY <1>1, <1>2, OneCallMoves DEF Inv, TypeOK

(* A call ends without tokens: its lock, if it has one, is free again. *)
LEMMA CallEnds ==
    ASSUME Inv, NEW c \in Calls, NEW answer \in Answers, Reply(c, answer),
           call[c].late => answer \notin {"served", "tokens", "logged_out"},
           \/ Unlock(c)
           \/ UNCHANGED lock /\ (call[c].pc # "deciding" \/ engine # "locking"),
           UNCHANGED <<now, engine, row>>,
           held' \subseteq Sids \X Gens, HeldInv',
           access' \subseteq [sid : Sids, exp : 0..(MaxNow + AccessTTL)],
           lost' \subseteq Sids, faults' \in 0..MaxFaults
    PROVE  Inv'
<1> DEFINE k == Over(answer, call[c].late)
<1>1. call[c].late \in BOOLEAN
  BY DEF Inv, TypeOK, CallType
<1>2. /\ k \in CallType /\ k.pc = "rest" /\ k.op = answer /\ k.late = call[c].late
      /\ call' = [call EXCEPT ![c] = k]
  BY <1>1, OverIsTyped DEF Reply, Set, Over
<1> HIDE DEF k
<1>3. call'[c] = k
  BY <1>2 DEF Inv, TypeOK
<1>4. CallInv(c)'
  BY <1>2, <1>3 DEF CallInv, LateInv
<1>5. \A s \in Sids : lock'[s] = IF lock[s] = c THEN Free ELSE lock[s]
  BY LockAssumption DEF Unlock, Inv, TypeOK
<1>6. lock' \in [Sids -> Calls \cup {Free}]
  BY DEF Unlock, Inv, TypeOK
<1>7. \A s \in Sids : RowGrows(s) /\ RowInv(s)'
  BY <1>5 DEF Inv, TypeOK, RowGrows, RowInv, SessionType, Gens
<1> QED
  <2>1. /\ \A s \in Sids : lock'[s] \in {lock[s], c, Free} /\ lock'[s] # c
        /\ \A s \in Sids : lock[s] \notin {c, Free} => lock'[s] = lock[s] /\ row'[s] = row[s]
        /\ row' \in [Sids -> SessionType]
    BY <1>5, LockAssumption DEF Inv, TypeOK
  <2> QED
    BY <1>2, <1>4, <1>6, <1>7, <2>1, OneCallMoves

-----------------------------------------------------------------------------
(* The actions, one by one. *)

(* The bound on faults is kept. *)
LEMMA FaultIsBounded ==
    ASSUME faults \in 0..MaxFaults, Fault PROVE faults' \in 0..MaxFaults
BY BoundsAssumption DEF Fault

(* What an input of a login comes to, before the password is looked at. *)
LEMMA VerdictsAreAnswers ==
    ASSUME NEW form, NEW in, NEW p
    PROVE  LoginVerdict(form, in, p) \in {"invalid", "unsupported", "denied", "authenticate"}
BY DEF LoginVerdict, AuthLoginEmail, AuthLoginPhone, AddressVerdict

(* An input that is not well-formed is never taken. *)
LEMMA RefusalsAreAnswers == Refusals \subseteq {"invalid", "unsupported", "denied"}
<1> SUFFICES ASSUME NEW form \in Forms, NEW in \in LoginInputs \ {WellFormed}, NEW p \in Passwords
             PROVE  LoginVerdict(form, in, p) # "authenticate"
  BY VerdictsAreAnswers DEF Refusals
<1>1. in = [params |-> in.params, method |-> in.method, address |-> in.address]
  BY DEF LoginInputs
<1>2. ~(in.params = TRUE /\ in.method = "password" /\ in.address = TRUE)
  BY <1>1 DEF WellFormed
<1>3. in.params \in BOOLEAN /\ in.address \in BOOLEAN
  BY DEF LoginInputs
<1> QED
  BY <1>2, <1>3 DEF LoginVerdict, AuthLoginEmail, AuthLoginPhone, AddressVerdict

(* A refused login is an answer like any other. *)
LEMMA LoginRefusedKeeps == ASSUME Inv, NEW c \in Calls, LoginRefused(c) PROVE Inv'
<1>1. PICK verdict \in Refusals : Reply(c, verdict)
  BY DEF LoginRefused
<1>2. verdict \in Answers /\ verdict \notin {"served", "tokens", "logged_out"}
  BY RefusalsAreAnswers DEF Answers
<1> QED
  BY <1>1, <1>2, CallEnds DEF LoginRefused, Resting, Inv, TypeOK, HeldInv

(* So is one that met a database error. *)
LEMMA LoginFailsKeeps == ASSUME Inv, NEW c \in Calls, LoginFails(c) PROVE Inv'
<1>1. faults' \in 0..MaxFaults
  BY FaultIsBounded DEF LoginFails, Inv, TypeOK
<1> QED
  BY <1>1, CallEnds DEF LoginFails, Answers, Resting, Inv, TypeOK, HeldInv

(* A login is answered at once, or begins a new call: nothing of the old one *)
(* is left. *)
LEMMA LoginOutcomes ==
    ASSUME NEW c, NEW form, NEW found, NEW p, NEW q, Login(c, form, found, p, q)
    PROVE  \/ \E answer \in {"invalid", "unsupported", "denied", "internal"} : Reply(c, answer)
           \/ Set(c, [Idle EXCEPT !.op = "login", !.pc = "creating", !.at = now, !.exp = now + AccessTTL])
BY VerdictsAreAnswers DEF Login

(* Either way the call is typed, and holds neither lock nor token. *)
LEMMA LoginKeeps ==
    ASSUME Inv, NEW c \in Calls, NEW form, NEW found, NEW p, NEW q, Login(c, form, found, p, q)
    PROVE  Inv'
<1>1. CASE Set(c, [Idle EXCEPT !.op = "login", !.pc = "creating", !.at = now, !.exp = now + AccessTTL])
  <2> DEFINE k == [Idle EXCEPT !.op = "login", !.pc = "creating", !.at = now, !.exp = now + AccessTTL]
  <2>1. now \in 0..MaxNow /\ now + AccessTTL \in 0..(MaxNow + AccessTTL)
    BY TTLAssumption, BoundsAssumption DEF Inv, TypeOK
  <2>2. k \in CallType /\ k.pc = "creating" /\ k.late = FALSE
    BY <2>1, IdleIsTyped DEF CallType
  <2>3. call' = [call EXCEPT ![c] = k]
    BY <1>1 DEF Set
  <2> HIDE DEF k
  <2>4. CallInv(c)'
    BY <2>2, <2>3 DEF CallInv, Inv, TypeOK
  <2> QED
    BY <2>2, <2>3, <2>4, OnlyTheCallMoves DEF Login, Resting, Inv, TypeOK
<1>2. ASSUME NEW answer \in {"invalid", "unsupported", "denied", "internal"}, Reply(c, answer)
      PROVE  Inv'
  BY <1>2, CallEnds DEF Login, Answers, Resting, Inv, TypeOK, HeldInv
<1> QED
  BY <1>1, <1>2, LoginOutcomes

(* The new row ends RefreshTTL after the instant of the login. *)
LEMMA CreateSessionKeeps ==
    ASSUME Inv, NEW c \in Calls, NEW s \in Sids, CreateSession(c, s) PROVE Inv'
<1> DEFINE k == [call[c] EXCEPT !.pc = "replying", !.sid = s, !.gen = 1]
           r == [gen |-> 1, born |-> call[c].at,
                 expires |-> call[c].at + RefreshTTL, revoked |-> FALSE]
<1>1. call[c] \in CallType /\ call[c].pc = "creating" /\ row[s] = NoSession
  BY DEF CreateSession, Inv, TypeOK
<1>2. call[c].at \in 0..MaxNow /\ call[c].at + RefreshTTL \in 0..(MaxNow + RefreshTTL)
  BY <1>1, TTLAssumption, BoundsAssumption DEF CallType
<1>3. 1 \in Gens
  BY BoundsAssumption DEF Gens
<1>4. r \in SessionType /\ r.gen = 1 /\ r.expires = r.born + RefreshTTL
  BY <1>2, <1>3 DEF SessionType
<1>5. k \in CallType /\ k.pc = "replying" /\ k.sid = s /\ k.gen = 1 /\ k.late = call[c].late
  BY <1>1, <1>3 DEF CallType
<1>6. row' = [row EXCEPT ![s] = r] /\ call' = [call EXCEPT ![c] = k]
  BY DEF CreateSession, Set
<1> HIDE DEF k, r
<1>7. row' \in [Sids -> SessionType] /\ row'[s] = r /\ \A x \in Sids \ {s} : row'[x] = row[x]
  BY <1>4, <1>6 DEF Inv, TypeOK
<1>8. lock[s] = Free
  BY <1>1 DEF Inv, RowInv
<1>9. \A x \in Sids : RowGrows(x) /\ RowInv(x)'
  <2>1. RowGrows(s) /\ RowInv(s)'
    BY <1>1, <1>4, <1>7, <1>8, NoSessionIsTyped DEF RowGrows, RowInv, CreateSession
  <2> QED
    BY <1>7, <2>1 DEF Inv, TypeOK, RowGrows, RowInv, CreateSession, SessionType, Gens
<1>10. ~call[c].late
  BY <1>1 DEF Inv, CallInv, LateInv
<1>11. CallInv(c)'
  BY <1>4, <1>5, <1>6, <1>7, <1>10 DEF CallInv, Inv, TypeOK
<1>12. HeldInv'
  BY <1>9 DEF HeldInv, Inv, TypeOK, RowGrows, CreateSession, SessionType, Gens
<1>13. \A x \in Sids : lock[x] # c
  BY <1>1, LockAssumption DEF Inv, TypeOK
<1> QED
  BY <1>5, <1>6, <1>7, <1>8, <1>9, <1>11, <1>12, <1>13, OneCallMoves DEF CreateSession, Inv, TypeOK

(* A refresh that arrives carries a token that was given out, or none. *)
LEMMA RefreshArrivesKeeps ==
    ASSUME Inv, NEW c \in Calls, NEW s \in Sids, NEW gen \in 0..MaxRotations, RefreshArrives(c, s, gen)
    PROVE  Inv'
<1> DEFINE k == [Idle EXCEPT !.op = "refresh", !.pc = "finding", !.sid = s, !.gen = gen,
                             !.late = row[s].revoked]
<1>1. row[s] \in SessionType
  BY DEF Inv, TypeOK
<1>2. gen \in Gens /\ gen < MaxRotations
  <2>1. gen = 0 \/ gen <= row[s].gen
    BY DEF RefreshArrives, Inv, HeldInv
  <2> QED
    BY <1>1, <2>1, BoundsAssumption DEF RefreshArrives, SessionType, Gens
<1>3. /\ k \in CallType /\ k.op = "refresh" /\ k.pc = "finding" /\ k.sid = s /\ k.gen = gen
      /\ k.late = row[s].revoked
  BY <1>1, <1>2, IdleIsTyped DEF CallType, SessionType
<1>4. call' = [call EXCEPT ![c] = k] /\ row' = row
  BY DEF RefreshArrives, Set
<1> HIDE DEF k
<1>5. CallInv(c)'
  BY <1>2, <1>3, <1>4 DEF CallInv, LateInv, Inv, TypeOK
<1> QED
  BY <1>3, <1>4, <1>5, OnlyTheCallMoves DEF RefreshArrives, Resting, Inv, TypeOK

(* The row is locked as it is read, if the engine locks and the row exists. *)
LEMMA FindForUpdateKeeps == ASSUME Inv, NEW c \in Calls, FindForUpdate(c) PROVE Inv'
<1>0. PICK s, k : s = call[c].sid /\ k = [call[c] EXCEPT !.pc = "deciding", !.seen = row[s], !.at = now]
  OBVIOUS
<1>1. call[c] \in CallType /\ call[c].pc = "finding" /\ s \in Sids
  BY <1>0 DEF FindForUpdate, Inv, TypeOK, CallInv
<1>2. row[s] \in SessionType /\ now \in 0..MaxNow
  BY <1>1, BoundsAssumption DEF Inv, TypeOK
<1>3. /\ k \in CallType /\ k.pc = "deciding" /\ k.sid = s /\ k.seen = row[s]
      /\ k.gen = call[c].gen /\ k.late = call[c].late /\ k.op = call[c].op
  BY <1>0, <1>1, <1>2 DEF CallType
<1>4. call' = [call EXCEPT ![c] = k] /\ row' = row
  BY <1>0 DEF FindForUpdate, Set
<1>5. \A x \in Sids : lock[x] # c
  BY <1>1, LockAssumption DEF Inv, TypeOK
<1>6. \/ engine = "locking" /\ row[s] # NoSession /\ lock[s] = Free /\ lock' = [lock EXCEPT ![s] = c]
      \/ ~(engine = "locking" /\ row[s] # NoSession) /\ lock' = lock
  BY <1>0 DEF FindForUpdate
<1>7. /\ lock' \in [Sids -> Calls \cup {Free}]
      /\ \A x \in Sids : lock[x] \notin {c, Free} => lock'[x] = lock[x] /\ row'[x] = row[x]
      /\ \A x \in Sids : lock'[x] \in {lock[x], c, Free}
      /\ \A x \in Sids : lock'[x] = c =>
            engine = "locking" /\ row[s] # NoSession /\ x = s
      /\ engine = "locking" /\ row[s] # NoSession => lock'[s] = c
  BY <1>1, <1>4, <1>5, <1>6 DEF Inv, TypeOK
<1>8. \A x \in Sids : RowGrows(x) /\ RowInv(x)'
  BY <1>4, <1>7 DEF Inv, TypeOK, RowGrows, RowInv, SessionType, Gens
<1>9. CallInv(c)'
  <2>1. call'[c] = k
    BY <1>4 DEF Inv, TypeOK
  <2>2. k.late => LateInv(k)'
    BY <1>0, <1>1, <1>3, <1>4 DEF Inv, CallInv, LateInv
  <2> QED
    BY <1>0, <1>1, <1>3, <1>4, <1>7, <2>1, <2>2 DEF CallInv, Inv, FindForUpdate
<1>10. HeldInv'
  BY <1>4 DEF Inv, HeldInv, FindForUpdate
<1>11. \A x \in Sids : lock'[x] = c =>
          engine = "locking" /\ k.pc = "deciding" /\ k.sid = x /\ k.seen = row'[x]
  BY <1>3, <1>4, <1>7
<1> QED
  BY <1>3, <1>4, <1>7, <1>8, <1>9, <1>10, <1>11, OneCallMoves DEF FindForUpdate, Inv, TypeOK

(* The refusal ends the transaction. *)
LEMMA RefreshRefusedKeeps == ASSUME Inv, NEW c \in Calls, RefreshRefused(c) PROVE Inv'
BY CallEnds DEF RefreshRefused, Answers, Inv, TypeOK, HeldInv

(* Only an engine of snapshots has conflicts, and it locks nothing. *)
LEMMA RefreshConflictsKeeps == ASSUME Inv, NEW c \in Calls, RefreshConflicts(c) PROVE Inv'
BY CallEnds DEF RefreshConflicts, MayWrite, Answers, Inv, TypeOK, HeldInv

(* What a refresh spends is what its row still holds: on a locking engine    *)
(* because the row has been locked since it was read, on an engine of        *)
(* snapshots because the database compares. *)
LEMMA SpentTokenIsCurrent ==
    ASSUME Inv, NEW c \in Calls, RefreshRotates(c)
    PROVE  LET k == call[c] IN
           /\ k.sid \in Sids /\ row[k.sid] = k.seen
           /\ row[k.sid] # NoSession /\ ~row[k.sid].revoked /\ row[k.sid].gen = k.gen
           /\ engine = "locking" => lock[k.sid] = c
           /\ ~k.late
<1>1. call[c].pc = "deciding" /\ Spendable(call[c].seen, call[c].gen, call[c].at) /\ MayWrite(c)
  BY DEF RefreshRotates
<1>2. call[c].sid \in Sids /\ CallInv(c)
  BY <1>1 DEF Inv, CallInv
<1>3. engine = "locking" => lock[call[c].sid] = c
  BY <1>1, <1>2 DEF CallInv, Spendable
<1>4. row[call[c].sid] = call[c].seen
  BY <1>1, <1>2, <1>3, LockAssumption DEF MayWrite, Inv, TypeOK
<1>5. ~call[c].late
  BY <1>1, <1>2 DEF CallInv, LateInv, Spendable
<1> QED
  BY <1>1, <1>2, <1>3, <1>4, <1>5 DEF Spendable

(* The rotation adds one to the number of the token, within the bound. *)
LEMMA RefreshRotatesKeeps == ASSUME Inv, NEW c \in Calls, RefreshRotates(c) PROVE Inv'
<1>0. PICK s, k, r :
        s = call[c].sid /\ k = Rotated(c, s) /\ r = [row[s] EXCEPT !.gen = @ + 1]
  OBVIOUS
<1>1. call[c] \in CallType /\ call[c].pc = "deciding" /\ call[c].gen < MaxRotations
  BY DEF RefreshRotates, Inv, TypeOK, CallInv
<1>2. /\ s \in Sids /\ row[s] # NoSession /\ row[s].gen = call[c].gen /\ row[s] \in SessionType
      /\ ~row[s].revoked /\ ~call[c].late
      /\ engine = "locking" => lock[s] = c
  BY <1>0, SpentTokenIsCurrent DEF Inv, TypeOK
<1>3. row[s].gen + 1 \in Gens /\ call[c].at + AccessTTL \in 0..(MaxNow + AccessTTL)
  BY <1>1, <1>2, TTLAssumption, BoundsAssumption DEF SessionType, CallType, Gens
<1>4. /\ r \in SessionType /\ r.gen = row[s].gen + 1 /\ r.born = row[s].born
      /\ r.expires = row[s].expires /\ r.revoked = row[s].revoked
  BY <1>0, <1>2, <1>3 DEF SessionType
<1>5. /\ k \in CallType /\ k.pc = "replying" /\ k.sid = s /\ k.gen = row[s].gen + 1
      /\ k.late = call[c].late
  BY <1>0, <1>1, <1>2, <1>3, NoSessionIsTyped DEF Rotated, CallType
<1>6. row' = [row EXCEPT ![s] = r] /\ call' = [call EXCEPT ![c] = k]
  BY <1>0 DEF RefreshRotates, Set
<1>7. row' \in [Sids -> SessionType] /\ row'[s] = r /\ \A x \in Sids \ {s} : row'[x] = row[x]
  BY <1>2, <1>4, <1>6 DEF Inv, TypeOK
<1>8. /\ lock' \in [Sids -> Calls \cup {Free}]
      /\ \A x \in Sids : lock'[x] = IF lock[x] = c THEN Free ELSE lock[x]
  BY DEF RefreshRotates, Unlock, Inv, TypeOK
<1>9. lock[s] \in {c, Free}
  BY <1>2, LockAssumption DEF Inv, TypeOK
<1>10. row[s].gen \in Nat /\ row[s].gen >= 1 /\ row[s].expires = row[s].born + RefreshTTL
  BY <1>2, NoSessionIsTyped DEF Inv, RowInv, SessionType, Gens
<1>11. r # NoSession
  BY <1>4, <1>10, NoSessionIsTyped
<1>12. \A x \in Sids : RowGrows(x) /\ RowInv(x)'
  <2>1. RowGrows(s) /\ RowInv(s)'
    BY <1>2, <1>4, <1>7, <1>8, <1>10, <1>11 DEF RowGrows, RowInv, RefreshRotates
  <2>2. ASSUME NEW x \in Sids \ {s} PROVE RowGrows(x) /\ RowInv(x)'
    BY <1>7, <1>8 DEF Inv, TypeOK, RowGrows, RowInv, SessionType, Gens
  <2> QED
    BY <2>1, <2>2
<1>13. CallInv(c)'
  BY <1>2, <1>4, <1>5, <1>6, <1>7, <1>10 DEF CallInv, Inv, TypeOK
<1>14. HeldInv'
  <2> SUFFICES ASSUME NEW t \in held PROVE t[2] <= row'[t[1]].gen
    BY DEF HeldInv, RefreshRotates
  <2>1. t[1] \in Sids /\ t[2] \in Gens /\ t[2] <= row[t[1]].gen
    BY DEF Inv, TypeOK, HeldInv
  <2>2. row[t[1]] \in SessionType /\ row'[t[1]] \in SessionType /\ RowGrows(t[1])
    BY <1>7, <1>12, <2>1 DEF Inv, TypeOK
  <2> QED
    BY <2>1, <2>2 DEF RowGrows, SessionType, Gens
<1>15. /\ \A x \in Sids : lock[x] \notin {c, Free} => lock'[x] = lock[x] /\ row'[x] = row[x]
       /\ \A x \in Sids : lock'[x] \in {lock[x], c, Free} /\ lock'[x] # c
  BY <1>7, <1>8, <1>9, LockAssumption
<1> QED
  BY <1>5, <1>6, <1>7, <1>8, <1>12, <1>13, <1>14, <1>15, OneCallMoves DEF RefreshRotates, Inv, TypeOK

(* The token that reaches the client is not newer than its row. *)
LEMMA TokensArriveKeeps == ASSUME Inv, NEW c \in Calls, TokensArrive(c) PROVE Inv'
<1>1. call[c] \in CallType /\ call[c].pc = "replying" /\ CallInv(c)
  BY DEF TokensArrive, Inv, TypeOK
<1>2. call[c].sid \in Sids /\ call[c].gen <= row[call[c].sid].gen /\ ~call[c].late
  BY <1>1 DEF CallInv, LateInv
<1>3. held' \subseteq Sids \X Gens
  BY <1>1, <1>2 DEF TokensArrive, Inv, TypeOK, CallType
<1>4. access' \subseteq [sid : Sids, exp : 0..(MaxNow + AccessTTL)]
  BY <1>1, <1>2 DEF TokensArrive, Inv, TypeOK, CallType
<1>5. HeldInv'
  BY <1>2 DEF TokensArrive, Inv, HeldInv
<1> QED
  BY <1>1, <1>2, <1>3, <1>4, <1>5, CallEnds DEF TokensArrive, Answers, Inv, TypeOK

(* A lost reply leaves nothing but the mark in the history. *)
LEMMA TokensAreLostKeeps == ASSUME Inv, NEW c \in Calls, TokensAreLost(c) PROVE Inv'
<1>1. call[c].pc = "replying" /\ call[c].sid \in Sids
  BY DEF TokensAreLost, Inv, CallInv
<1>2. faults' \in 0..MaxFaults /\ lost' \subseteq Sids
  BY <1>1, FaultIsBounded DEF TokensAreLost, Inv, TypeOK
<1> QED
  BY <1>1, <1>2, CallEnds DEF TokensAreLost, Answers, Inv, TypeOK, HeldInv

(* A failing call gives its lock back. *)
LEMMA FailsKeeps == ASSUME Inv, NEW c \in Calls, Fails(c) PROVE Inv'
<1>1. faults' \in 0..MaxFaults
  BY FaultIsBounded DEF Fails, Inv, TypeOK
<1> QED
  BY <1>1, CallEnds DEF Fails, Answers, Inv, TypeOK, HeldInv

(* A request with an access token begins a new call. *)
LEMMA PresentKeeps ==
    ASSUME Inv, NEW c \in Calls, NEW op \in {"check", "nickname", "logout"}, NEW tok \in access,
           Present(c, op, tok)
    PROVE  Inv'
<1>1. tok.sid \in Sids /\ row[tok.sid] \in SessionType
  BY DEF Inv, TypeOK
<1>2. PICK k : /\ \/ k = [Idle EXCEPT !.op = op, !.pc = "lookup", !.sid = tok.sid,
                                     !.late = row[tok.sid].revoked]
                  \/ k = [Idle EXCEPT !.op = "denied", !.late = row[tok.sid].revoked]
               /\ call' = [call EXCEPT ![c] = k]
  <2>1. [Idle EXCEPT !.op = op, !.pc = "lookup", !.sid = tok.sid, !.late = row[tok.sid].revoked].late
            = row[tok.sid].revoked
    BY IdleIsTyped DEF CallType
  <2> QED
    BY <2>1 DEF Present, Set
<1>3. /\ k \in CallType /\ k.late = row[tok.sid].revoked
      /\ \/ k.pc = "lookup" /\ k.sid = tok.sid /\ k.op = op
         \/ k.pc = "rest" /\ k.op = "denied"
  BY <1>1, <1>2, IdleIsTyped DEF CallType, SessionType
<1>4. CallInv(c)'
  BY <1>1, <1>2, <1>3 DEF Present, CallInv, LateInv, Inv, TypeOK
<1> QED
  BY <1>2, <1>3, <1>4, OnlyTheCallMoves DEF Present, Resting, Inv, TypeOK

(* Who is admitted has an open session. *)
LEMMA AuthenticateKeeps == ASSUME Inv, NEW c \in Calls, AuthenticateAccessToken(c) PROVE Inv'
<1>1. PICK s : s = row[call[c].sid]
  OBVIOUS
<1>2. /\ call[c] \in CallType /\ call[c].pc = "lookup" /\ CallInv(c) /\ call[c].sid \in Sids
      /\ s \in SessionType /\ now \in 0..MaxNow
  BY <1>1, BoundsAssumption DEF AuthenticateAccessToken, Inv, TypeOK, CallInv
<1>3. CASE SessionOpen(s, now)
  <2>1. PICK k : k = [call[c] EXCEPT !.pc = "admitted", !.at = now, !.seen = s]
    OBVIOUS
  <2>2. /\ k \in CallType /\ k.pc = "admitted" /\ k.at = now /\ k.sid = call[c].sid
        /\ k.late = call[c].late
    BY <1>2, <2>1 DEF CallType
  <2>3. call' = [call EXCEPT ![c] = k]
    BY <1>1, <1>3, <2>1 DEF AuthenticateAccessToken, Set
  <2>4. ~k.late
    BY <1>1, <1>2, <1>3, <2>2 DEF SessionOpen, CallInv, LateInv
  <2>5. CallInv(c)'
    BY <1>1, <1>2, <1>3, <2>2, <2>3, <2>4
       DEF SessionOpen, AuthenticateAccessToken, CallInv, Inv, TypeOK
  <2> QED
    BY <1>2, <2>2, <2>3, <2>5, OnlyTheCallMoves DEF AuthenticateAccessToken, Inv, TypeOK
<1>4. CASE ~SessionOpen(s, now)
  BY <1>1, <1>2, <1>4, CallEnds DEF AuthenticateAccessToken, Answers, Inv, TypeOK, HeldInv
<1> QED
  BY <1>3, <1>4

(* The methods behind the gate: their caller did not come in late. *)
LEMMA BusinessKeeps ==
    ASSUME Inv, NEW c \in Calls,
           AuthJWTTokenCheck(c) \/ \E nick \in NickNames : UserNicknameChange(c, nick)
    PROVE  Inv'
<1>1. call[c].pc = "admitted" /\ ~call[c].late
  BY DEF AuthJWTTokenCheck, UserNicknameChange, Inv, CallInv, LateInv
<1>2. PICK answer \in {"served", "invalid"} : Reply(c, answer)
  BY DEF AuthJWTTokenCheck, UserNicknameChange
<1> QED
  BY <1>1, <1>2, CallEnds
     DEF AuthJWTTokenCheck, UserNicknameChange, Answers, Inv, TypeOK, HeldInv

(* A logout reads the clock before its UPDATE. *)
LEMMA LogoutReadsClockKeeps == ASSUME Inv, NEW c \in Calls, LogoutReadsClock(c) PROVE Inv'
<1>1. PICK k : k = [call[c] EXCEPT !.pc = "revoking", !.at = now, !.seen = NoSession]
  OBVIOUS
<1>2. call[c] \in CallType /\ call[c].pc = "admitted" /\ CallInv(c) /\ now \in 0..MaxNow
  BY BoundsAssumption DEF LogoutReadsClock, Inv, TypeOK
<1>3. k \in CallType /\ k.pc = "revoking" /\ k.sid = call[c].sid /\ k.late = call[c].late
  BY <1>1, <1>2, NoSessionIsTyped DEF CallType
<1>4. call' = [call EXCEPT ![c] = k]
  BY <1>1 DEF LogoutReadsClock, Set
<1>5. ~k.late
  BY <1>2, <1>3 DEF CallInv, LateInv
<1>6. CallInv(c)'
  BY <1>2, <1>3, <1>4, <1>5 DEF CallInv, Inv, TypeOK
<1> QED
  BY <1>2, <1>3, <1>4, <1>6, OnlyTheCallMoves DEF LogoutReadsClock, Inv, TypeOK

(* The UPDATE of a logout revokes a row that no refresh has locked. *)
LEMMA AuthLogoutKeeps == ASSUME Inv, NEW c \in Calls, AuthLogout(c) PROVE Inv'
<1>0. PICK s, r : s = call[c].sid /\ r = [row[s] EXCEPT !.revoked = TRUE]
  OBVIOUS
<1>1. /\ call[c] \in CallType /\ call[c].pc = "revoking" /\ CallInv(c) /\ s \in Sids
      /\ row[s] \in SessionType /\ lock[s] = Free
  BY <1>0 DEF AuthLogout, Inv, TypeOK, CallInv
<1>2. ~call[c].late
  BY <1>1 DEF CallInv, LateInv
<1>3. CASE SessionOpen(row[s], call[c].at)
  <2>1. row' = [row EXCEPT ![s] = r] /\ Reply(c, "logged_out")
    BY <1>0, <1>3 DEF AuthLogout
  <2>2. /\ r \in SessionType /\ r.gen = row[s].gen /\ r.born = row[s].born
        /\ r.expires = row[s].expires /\ r.revoked = TRUE
    BY <1>0, <1>1 DEF SessionType
  <2>3. row' \in [Sids -> SessionType] /\ row'[s] = r /\ \A x \in Sids \ {s} : row'[x] = row[x]
    BY <1>1, <2>1, <2>2 DEF Inv, TypeOK
  <2>4. \A x \in Sids : lock'[x] = lock[x] /\ lock[x] # c
    BY <1>1, LockAssumption DEF AuthLogout, Inv, TypeOK
  <2>5. ASSUME NEW x \in Sids PROVE RowGrows(x) /\ RowInv(x)'
    <3>1. CASE x = s
      <4>1. r # NoSession
        BY <2>2, NoSessionIsTyped
      <4>2. row[s] # NoSession => row[s].gen >= 1 /\ row[s].expires = row[s].born + RefreshTTL
        BY <1>1 DEF Inv, RowInv
      <4>3. row[s] # NoSession
        BY <1>3 DEF SessionOpen
      <4> QED
        BY <1>1, <2>2, <2>3, <2>4, <3>1, <4>1, <4>2, <4>3 DEF RowGrows, RowInv, SessionType, Gens
    <3>2. CASE x # s
      BY <2>3, <2>4, <3>2 DEF Inv, TypeOK, RowGrows, RowInv, SessionType, Gens
    <3> QED
      BY <3>1, <3>2
  <2>6. HeldInv'
    <3> SUFFICES ASSUME NEW t \in held PROVE t[2] <= row'[t[1]].gen
      BY DEF HeldInv, AuthLogout
    <3>1. t[1] \in Sids /\ t[2] <= row[t[1]].gen
      BY DEF Inv, TypeOK, HeldInv
    <3> QED
      BY <2>2, <2>3, <3>1
  <2>7. PICK k : k = Over("logged_out", call[c].late)
    OBVIOUS
  <2>8. k \in CallType /\ k.pc = "rest" /\ k.late = FALSE /\ call' = [call EXCEPT ![c] = k]
    <3>1. call[c].late = FALSE
      BY <1>1, <1>2 DEF CallType
    <3>2. call' = [call EXCEPT ![c] = k]
      BY <2>1, <2>7 DEF Reply, Set, Over
    <3>3. k \in CallType /\ k.pc = "rest" /\ k.late = FALSE
      BY <2>7, <3>1, OverIsTyped DEF Answers
    <3> QED
      BY <3>2, <3>3
  <2>9. CallInv(c)'
    BY <2>8 DEF CallInv, Inv, TypeOK
  <2>10. /\ \A x \in Sids : lock[x] \notin {c, Free} => lock'[x] = lock[x] /\ row'[x] = row[x]
         /\ \A x \in Sids : lock'[x] \in {lock[x], c, Free} /\ lock'[x] # c
    BY <1>1, <2>3, <2>4
  <2> QED
    <3>1. /\ now' = now /\ engine' = engine /\ lock' \in [Sids -> Calls \cup {Free}]
          /\ held' \subseteq Sids \X Gens /\ lost' \subseteq Sids /\ faults' \in 0..MaxFaults
          /\ access' \subseteq [sid : Sids, exp : 0..(MaxNow + AccessTTL)]
      BY DEF AuthLogout, Inv, TypeOK
    <3> QED
      BY <2>3, <2>5, <2>6, <2>8, <2>9, <2>10, <3>1, OneCallMoves
<1>4. CASE ~SessionOpen(row[s], call[c].at)
  BY <1>0, <1>1, <1>4, CallEnds DEF AuthLogout, Answers, Inv, TypeOK, HeldInv
<1> QED
  BY <1>3, <1>4

(* Time passes: no call compares a date again that it has compared before. *)
LEMMA TickKeeps == ASSUME Inv, Tick PROVE Inv'
<1>1. now' \in 1..MaxNow
  BY BoundsAssumption DEF Tick, Inv, TypeOK
<1> QED
  BY <1>1 DEF Tick, Inv, TypeOK, RowInv, CallInv, LateInv, HeldInv

(* Every statement and every step of a call keeps the invariant. *)
LEMMA InvStep == Inv /\ [Next]_vars => Inv'
<1> SUFFICES ASSUME Inv, [Next]_vars PROVE Inv'
  OBVIOUS
<1>1. ASSUME NEW c \in Calls, LoginRefused(c) \/ LoginFails(c) PROVE Inv'
  BY <1>1, LoginRefusedKeeps, LoginFailsKeeps
<1>2. ASSUME NEW c \in Calls, NEW form \in Forms, NEW found \in BOOLEAN, NEW p \in Registered,
             NEW q \in Passwords, Login(c, form, found, p, q)
      PROVE  Inv'
  BY <1>2, LoginKeeps
<1>3. ASSUME NEW c \in Calls, NEW s \in Sids, CreateSession(c, s) PROVE Inv'
  BY <1>3, CreateSessionKeeps
<1>4. ASSUME NEW c \in Calls, NEW s \in Sids, NEW gen \in 0..MaxRotations, RefreshArrives(c, s, gen)
      PROVE  Inv'
  BY <1>4, RefreshArrivesKeeps
<1>5. ASSUME NEW c \in Calls, Refresh(c) PROVE Inv'
  BY <1>5, FindForUpdateKeeps, RefreshRefusedKeeps, RefreshRotatesKeeps, RefreshConflictsKeeps DEF Refresh
<1>6. ASSUME NEW c \in Calls, TokensArrive(c) \/ TokensAreLost(c) \/ Fails(c) PROVE Inv'
  BY <1>6, TokensArriveKeeps, TokensAreLostKeeps, FailsKeeps
<1>7. ASSUME NEW c \in Calls, NEW op \in {"check", "nickname", "logout"}, NEW tok \in access,
             Present(c, op, tok)
      PROVE  Inv'
  BY <1>7, PresentKeeps
<1>8. ASSUME NEW c \in Calls, AuthenticateAccessToken(c) PROVE Inv'
  BY <1>8, AuthenticateKeeps
<1>9. ASSUME NEW c \in Calls, Business(c) PROVE Inv'
  BY <1>9, BusinessKeeps, LogoutReadsClockKeeps, AuthLogoutKeeps DEF Business
<1>10. CASE Tick
  BY <1>10, TickKeeps
<1>11. CASE UNCHANGED vars
  BY <1>11 DEF vars, Inv, TypeOK, RowInv, CallInv, LateInv, HeldInv
<1> QED
  BY <1>1, <1>2, <1>3, <1>4, <1>5, <1>6, <1>7, <1>8, <1>9, <1>10, <1>11 DEF Next

(* Without sessions and calls there is nothing to be wrong. *)
LEMMA InvInit == Init => Inv
<1> SUFFICES ASSUME Init PROVE Inv
  OBVIOUS
<1>1. now \in 1..MaxNow /\ faults \in 0..MaxFaults
  BY BoundsAssumption DEF Init
<1>2. TypeOK
  BY <1>1, NoSessionIsTyped, IdleIsTyped DEF Init, TypeOK
<1>3. \A s \in Sids : RowInv(s)
  BY DEF Init, RowInv
<1>4. \A c \in Calls : CallInv(c)
  BY IdleIsTyped DEF Init, CallInv
<1> QED
  BY <1>2, <1>3, <1>4 DEF Init, Inv, HeldInv

(* The inductive invariant holds in every reachable state. *)
THEOREM Invariance == Spec => []Inv
BY InvInit, InvStep, PTL DEF Spec

-----------------------------------------------------------------------------
(* The properties. *)

(* Every variable of Session stays in its domain, and a locked row is what   *)
(* its holder has read. *)
THEOREM TypeCorrect == Spec => []TypeOK
<1>1. Inv => TypeOK
  BY DEF Inv
<1> QED
  BY <1>1, Invariance, PTL

(* AuthLogout: who comes after a logout is served by no method and gets no   *)
(* token, whatever refreshes were under way. *)
THEOREM LogoutHoldsAtOnce == Spec => []LogoutIsImmediate
<1>1. Inv => LogoutIsImmediate
  BY DEF Inv, CallInv, LateInv, LogoutIsImmediate
<1> QED
  BY <1>1, Invariance, PTL

(* createSession and authenticateAccessToken: no chain of refreshes makes a  *)
(* session longer than RefreshTTL. *)
THEOREM SessionsHaveAnEnd == Spec => []SessionsEndOnTime
<1>1. Inv => SessionsEndOnTime
  <2> SUFFICES ASSUME Inv, NEW c \in Calls, call[c].pc = "admitted"
               PROVE  call[c].at < row[call[c].sid].born + RefreshTTL
    BY DEF SessionsEndOnTime
  <2>1. CallInv(c) /\ call[c].sid \in Sids
    BY DEF Inv, CallInv
  <2>2. RowInv(call[c].sid)
    BY <2>1 DEF Inv
  <2> QED
    BY <2>1, <2>2 DEF CallInv, RowInv
<1> QED
  BY <1>1, Invariance, PTL

(* A call leaves the decision with new tokens only by the rotation. *)
LEMMA OnlyRotationsRotate ==
    ASSUME Inv, Next, NEW c \in Calls, Rotates(c) PROVE RefreshRotates(c)
<1> USE DEF Set
<1>0. /\ call[c].pc = "deciding" /\ call'[c].pc = "replying"
      /\ call \in [Calls -> CallType]
  BY DEF Rotates, Inv, TypeOK
(* The steps of other calls leave this one where it is. *)
<1>1. ASSUME NEW d \in Calls, NEW k, call' = [call EXCEPT ![d] = k] PROVE d = c
  BY <1>0, <1>1
<1>2. ASSUME NEW d \in Calls, NEW answer, Reply(d, answer) PROVE FALSE
  <2>1. d = c
    BY <1>1, <1>2 DEF Reply
  <2>2. call'[c].pc = "rest"
    BY <1>0, <1>2, <2>1, IdleIsTyped DEF Reply, CallType
  <2> QED
    BY <1>0, <2>2
<1>3. ASSUME NEW d \in Calls, RefreshRotates(d) PROVE RefreshRotates(c)
  BY <1>1, <1>3 DEF RefreshRotates
(* These begin in another stage. *)
<1>4. ASSUME NEW d \in Calls, NEW k, call' = [call EXCEPT ![d] = k], call[d].pc # "deciding"
      PROVE FALSE
  BY <1>0, <1>1, <1>4
<1>5. ASSUME NEW d \in Calls,
             \/ LoginRefused(d) \/ LoginFails(d)
             \/ RefreshRefused(d) \/ RefreshConflicts(d)
             \/ TokensArrive(d) \/ TokensAreLost(d) \/ Fails(d)
             \/ AuthJWTTokenCheck(d) \/ \E nick \in NickNames : UserNicknameChange(d, nick)
      PROVE FALSE
  BY <1>2, <1>5 DEF LoginRefused, LoginFails, RefreshRefused, RefreshConflicts, TokensArrive,
                    TokensAreLost, Fails, AuthJWTTokenCheck, UserNicknameChange
<1>6. ASSUME NEW d \in Calls, NEW form, NEW found, NEW p, NEW q, Login(d, form, found, p, q)
      PROVE FALSE
  BY <1>2, <1>4, <1>6, LoginOutcomes DEF Login, Resting
<1>7. ASSUME NEW d \in Calls,
             \/ \E s \in Sids : CreateSession(d, s)
             \/ \E s \in Sids, gen \in 0..MaxRotations : RefreshArrives(d, s, gen)
             \/ FindForUpdate(d)
             \/ LogoutReadsClock(d)
      PROVE FALSE
  BY <1>4, <1>7 DEF CreateSession, RefreshArrives, FindForUpdate, LogoutReadsClock, Resting
<1>8. ASSUME NEW d \in Calls, NEW op, NEW tok \in access, Present(d, op, tok) PROVE FALSE
  BY <1>4, <1>8 DEF Present, Resting
<1>9. ASSUME NEW d \in Calls, AuthenticateAccessToken(d) \/ AuthLogout(d) PROVE FALSE
  BY <1>2, <1>4, <1>9 DEF AuthenticateAccessToken, AuthLogout
<1>10. ~Tick
  BY <1>0 DEF Tick
<1> QED
  BY <1>3, <1>5, <1>6, <1>7, <1>8, <1>9, <1>10 DEF Next, Refresh, Business

(* AuthJWTTokenRefresh: each refresh token is spent at most once, on MySQL   *)
(* and PostgreSQL by the row lock, on SQLite by the snapshot. *)
THEOREM TokensAreSpentOnce == Spec => RefreshTokenIsSpentOnce
<1>1. Inv /\ [Next]_vars =>
        [\A c \in Calls : Rotates(c) => row[call[c].sid].gen = call[c].gen /\ ~row[call[c].sid].revoked]_vars
  BY OnlyRotationsRotate, SpentTokenIsCurrent
<1> QED
  BY <1>1, Invariance, PTL DEF Spec, RefreshTokenIsSpentOnce

-----------------------------------------------------------------------------
(* A client is not locked out. *)

Carries(c, s) ==
    call[c].pc = "replying" /\ call[c].sid = s /\ call[c].gen = row[s].gen

Reachable(s) ==
    <<s, row[s].gen>> \in held \/ \E c \in Calls : Carries(c, s)

(* A row and who carries its token are as before. *)
LEMMA ReachableIsKept ==
    ASSUME Inv, NEW s \in Sids, Reachable(s), row'[s] = row[s], held \subseteq held',
           NEW c \in Calls, call[c].pc # "replying",
           \A d \in Calls \ {c} : call'[d] = call[d]
    PROVE  Reachable(s)'
BY DEF Reachable, Carries

(* A step of the database and of the calls keeps every token that a row      *)
(* expects within reach of its client, or adds the session to those lost. *)
LEMMA ReachableStep ==
    ASSUME Inv, Next, NEW s \in Sids, s \notin lost', row'[s] # NoSession,
           row[s] # NoSession /\ s \notin lost => Reachable(s)
    PROVE  Reachable(s)'
<1> USE DEF Set
<1>0. row \in [Sids -> SessionType] /\ call \in [Calls -> CallType]
  BY DEF Inv, TypeOK
(* Most steps leave row and tokens alone, and move a call that carries none. *)
<1>1. ASSUME NEW c \in Calls, NEW k, call' = [call EXCEPT ![c] = k], call[c].pc # "replying",
             UNCHANGED <<held, lost>>, row'[s] = row[s]
      PROVE  Reachable(s)'
  <2>1. \A d \in Calls \ {c} : call'[d] = call[d]
    BY <1>0, <1>1
  <2> QED
    BY <1>1, <2>1, ReachableIsKept
<1>2. ASSUME NEW c \in Calls, NEW answer, Reply(c, answer), call[c].pc # "replying",
             UNCHANGED <<held, lost>>, row'[s] = row[s]
      PROVE  Reachable(s)'
  BY <1>1, <1>2 DEF Reply
<1>3. ASSUME NEW c \in Calls,
             \/ LoginRefused(c) \/ LoginFails(c) \/ RefreshRefused(c) \/ RefreshConflicts(c)
             \/ Fails(c) \/ AuthJWTTokenCheck(c)
             \/ \E nick \in NickNames : UserNicknameChange(c, nick)
      PROVE  Reachable(s)'
  BY <1>2, <1>3 DEF LoginRefused, LoginFails, RefreshRefused, RefreshConflicts, Fails,
                    AuthJWTTokenCheck, UserNicknameChange, Resting
<1>4. ASSUME NEW c \in Calls, NEW form, NEW found, NEW p, NEW q, Login(c, form, found, p, q)
      PROVE  Reachable(s)'
  BY <1>1, <1>2, <1>4, LoginOutcomes DEF Login, Resting
<1>5. ASSUME NEW c \in Calls,
             \/ \E x \in Sids, gen \in 0..MaxRotations : RefreshArrives(c, x, gen)
             \/ FindForUpdate(c)
             \/ \E op \in {"check", "nickname", "logout"}, tok \in access : Present(c, op, tok)
             \/ LogoutReadsClock(c)
      PROVE  Reachable(s)'
  BY <1>1, <1>5 DEF RefreshArrives, FindForUpdate, Present, LogoutReadsClock, Resting
<1>6. ASSUME NEW c \in Calls, AuthenticateAccessToken(c) PROVE Reachable(s)'
  BY <1>1, <1>2, <1>6 DEF AuthenticateAccessToken
(* The first token of a session, and the next one, are on their way at once. *)
<1>7. ASSUME NEW c \in Calls, NEW x \in Sids, CreateSession(c, x) PROVE Reachable(s)'
  <2>1. PICK k : k = [call[c] EXCEPT !.pc = "replying", !.sid = x, !.gen = 1]
    OBVIOUS
  <2>2. k.pc = "replying" /\ k.sid = x /\ k.gen = 1 /\ call' = [call EXCEPT ![c] = k]
    BY <1>0, <1>7, <2>1 DEF CreateSession, CallType
  <2>3. CASE x = s
    <3>1. row'[s].gen = 1
      BY <1>0, <1>7, <2>3 DEF CreateSession
    <3> QED
      BY <1>0, <2>2, <2>3, <3>1 DEF Reachable, Carries
  <2>4. CASE x # s
    BY <1>0, <1>1, <1>7, <2>2, <2>4 DEF CreateSession
  <2> QED
    BY <2>3, <2>4
<1>8. ASSUME NEW c \in Calls, RefreshRotates(c) PROVE Reachable(s)'
  <2>1. PICK x, k : x = call[c].sid /\ k = Rotated(c, x)
    OBVIOUS
  <2>2. x \in Sids
    BY <1>8, <2>1, SpentTokenIsCurrent
  <2>3. k.pc = "replying" /\ k.sid = x /\ k.gen = row[x].gen + 1 /\ call' = [call EXCEPT ![c] = k]
    BY <1>0, <1>8, <2>1 DEF RefreshRotates, Rotated, CallType
  <2>4. CASE x = s
    <3>1. row'[s].gen = row[s].gen + 1
      BY <1>0, <1>8, <2>1, <2>4 DEF RefreshRotates, SessionType
    <3> QED
      BY <1>0, <2>3, <2>4, <3>1 DEF Reachable, Carries
  <2>5. CASE x # s
    BY <1>0, <1>1, <1>8, <2>1, <2>3, <2>5 DEF RefreshRotates
  <2> QED
    BY <2>4, <2>5
(* A token that was on its way arrives, or its session is lost. *)
<1>9. ASSUME NEW c \in Calls, TokensArrive(c) \/ TokensAreLost(c) PROVE Reachable(s)'
  <2>1. row' = row /\ held \subseteq held' /\ lost \subseteq lost'
    BY <1>9 DEF TokensArrive, TokensAreLost
  <2>2. \A d \in Calls \ {c} : call'[d] = call[d]
    BY <1>0, <1>9 DEF TokensArrive, TokensAreLost, Reply
  <2>3. Reachable(s)
    BY <2>1
  <2>4. CASE Carries(c, s)
    BY <1>9, <2>1, <2>4 DEF TokensArrive, TokensAreLost, Carries, Reachable
  <2>5. CASE ~Carries(c, s)
    BY <2>1, <2>2, <2>3, <2>5 DEF Carries, Reachable
  <2> QED
    BY <2>4, <2>5
<1>10. ASSUME NEW c \in Calls, AuthLogout(c) PROVE Reachable(s)'
  <2>1. row'[s].gen = row[s].gen /\ row[s] # NoSession
    BY <1>0, <1>10 DEF AuthLogout, SessionOpen, SessionType
  <2>2. /\ call[c].pc = "revoking" /\ UNCHANGED <<held, lost>>
        /\ \A d \in Calls \ {c} : call'[d] = call[d]
    BY <1>0, <1>10 DEF AuthLogout, Reply
  <2> QED
    BY <2>1, <2>2 DEF Reachable, Carries
<1>11. CASE Tick
  BY <1>11 DEF Tick, Reachable, Carries
<1> QED
  BY <1>3, <1>4, <1>5, <1>6, <1>7, <1>8, <1>9, <1>10, <1>11 DEF Next, Refresh, Business

(* No failure locks a client out of its session: unless a reply was lost,    *)
(* the token that the row expects is with the client or on its way. *)
THEOREM TokensStayReachable == Spec => []StoredTokenIsReachable
<1>1. StoredTokenIsReachable <=> \A s \in Sids \ lost : row[s] # NoSession => Reachable(s)
  BY DEF StoredTokenIsReachable, Reachable, Carries
<1>2. Init => StoredTokenIsReachable
  BY DEF Init, StoredTokenIsReachable
<1>3. Inv /\ StoredTokenIsReachable /\ [Next]_vars => StoredTokenIsReachable'
  <2>1. CASE UNCHANGED vars
    BY <2>1 DEF vars, StoredTokenIsReachable
  <2>2. ASSUME Inv, StoredTokenIsReachable, Next, NEW s \in Sids \ lost', row'[s] # NoSession
        PROVE  Reachable(s)'
    BY <1>1, <2>2, ReachableStep
  <2>3. StoredTokenIsReachable' <=>
            \A s \in Sids \ lost' : row'[s] # NoSession => Reachable(s)'
    BY DEF StoredTokenIsReachable, Reachable, Carries
  <2> QED
    BY <2>1, <2>2, <2>3
<1> QED
  BY <1>2, <1>3, Invariance, PTL DEF Spec

-----------------------------------------------------------------------------
(* Passwords. *)

(* The limits of the two login forms, in bytes, let every password through    *)
(* that the registration takes by its runes and bytes. *)
LEMMA RegisteredPasswordsAreTaken ==
    ASSUME NEW p \in Registered, NEW form \in Forms
    PROVE  LoginVerdict(form, WellFormed, p) = "authenticate"
<1>1. p.bytes \in Nat /\ p.bytes <= 1024
  BY PasswordAssumption DEF Registered, ValidatePassword
<1> QED
  BY <1>1 DEF LoginVerdict, AuthLoginEmail, AuthLoginPhone, AddressVerdict, WellFormed

(* AuthRegister, AuthLoginEmail and AuthLoginPhone: whatever password a user  *)
(* could register with is refused by no login, neither by the limits of the   *)
(* input nor by those of the stored hash, for passwords of every length. *)
THEOREM PasswordsLogIn == Spec => RegisteredPasswordLogsIn
<1>1. ASSUME NEW c \in Calls, NEW form \in Forms, NEW p \in Registered, Inv, Login(c, form, TRUE, p, p)
      PROVE  call'[c].pc = "creating"
  <2>1. SafeHash(hashPassword(p)) /\ hashPassword(p).of = p
    BY DEF SafeHash, hashPassword
  <2>2. authenticate(TRUE, p, p) = "match"
    BY <2>1 DEF authenticate, verifyPassword
  <2>3. LoginVerdict(form, WellFormed, p) = "authenticate"
    BY RegisteredPasswordsAreTaken
  <2>4. Set(c, [Idle EXCEPT !.op = "login", !.pc = "creating", !.at = now, !.exp = now + AccessTTL])
    BY <1>1, <2>2, <2>3 DEF Login
  <2>5. call' = [call EXCEPT ![c] = [Idle EXCEPT !.op = "login", !.pc = "creating",
                                                 !.at = now, !.exp = now + AccessTTL]]
    BY <2>4 DEF Set
  <2>6. [Idle EXCEPT !.op = "login", !.pc = "creating", !.at = now, !.exp = now + AccessTTL].pc
            = "creating"
    BY IdleIsTyped DEF CallType
  <2> QED
    BY <1>1, <2>5, <2>6 DEF Inv, TypeOK
<1>2. Inv => [\A c \in Calls, form \in Forms, p \in Registered :
                Login(c, form, TRUE, p, p) => call'[c].pc = "creating"]_vars
  BY <1>1
<1> QED
  BY <1>2, Invariance, PTL DEF Spec, RegisteredPasswordLogsIn

=============================================================================
