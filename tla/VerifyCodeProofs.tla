--------------------------- MODULE VerifyCodeProofs ---------------------------
(***************************************************************************)
(* The safety properties of VerifyCode, for any number of concurrent       *)
(* requests, any limits, any length of the time spans and each engine.     *)
(*                                                                         *)
(* Inv is inductive.  Above it, WindowInv carries the hourly limit.        *)
(***************************************************************************)
EXTENDS VerifyCode, FiniteSetTheorems, SequenceTheorems, TLAPS

-----------------------------------------------------------------------------
(* The inductive invariant. *)

Mailing == {"delivering", "marking", "clearing"}
Answers == {"none", "sent", "superseded", "undelivered", "valid", "registered", "invalid", "internal"}
Latest == Len(issued)

(* Where rows are locked, who has read the row and has not written it holds *)
(* its lock; a row that does not exist is not locked. *)
LockInv ==
    /\ RowLocks => \A r \in Requests : req[r].pc = "writing" /\ req[r].seen # NoRow => lock = r
    /\ lock # Free => RowLocks /\ row # NoRow

(* Codes in the making are within the bound. *)
BudgetInv == Latest + Cardinality(InFlightSends) <= MaxIssues

(* A request x reads the clock no longer than MaxStall ago.  The mail it    *)
(* sends carries the code of the row unless it has been overtaken. *)
Fits(x) ==
    /\ x.pc \in {"locking", "writing"} =>
         x.kind # "none" /\ x.reply = "none" /\ (x.kind # "check" => x.at # 0)
    /\ x.at # 0 => x.at <= now /\ now <= x.at + MaxStall
    /\ x.pc \in Mailing =>
         /\ x.kind = "send" /\ x.code \in 1..Latest
         /\ x.code = Latest => row = NoRow \/ (row.code = x.code /\ row.sent = FALSE)
    /\ x.pc = "marking" => x.code \in delivered
    /\ x.reply = "superseded" => x.code < Latest \/ (x.code = Latest /\ row = NoRow)

ReqInv == \A r \in Requests : Fits(req[r])

(* A code is mailed by one request only. *)
UniqueInv ==
    \A q, r \in Requests :
        q # r /\ req[q].pc \in Mailing /\ req[r].pc \in Mailing => req[q].code # req[r].code

(* Each wrong guess costs an attempt or a database error.  The code in the  *)
(* row is the latest, unspent, and marked as sent only if it has arrived. *)
CodeInv ==
    /\ RowLocks => wrong + row.attempts <= MaxAttempts + faults
    /\ spent \subseteq 1..Latest
    /\ row.code # NoCode =>
         row.code = Latest /\ row.code \notin spent /\ (row.sent => row.code \in delivered)

(* Issues follow each other; the row remembers the latest, and if it is     *)
(* gone then the latest has long expired. *)
IssueInv ==
    /\ \A i, j \in 1..Latest : i <= j => issued[i] <= issued[j]
    /\ row # NoRow =>
         /\ Latest > 0
         /\ row.expires = issued[Latest] + TTL
         /\ row.resend = issued[Latest] + ResendInterval
    /\ row = NoRow /\ Latest > 0 => now > issued[Latest] + TTL + KeepExpired

Inv == TypeOK /\ LockInv /\ BudgetInv /\ ReqInv /\ UniqueInv /\ CodeInv /\ IssueInv

-----------------------------------------------------------------------------
(* Helpers. *)

(* The row that is not there. *)
LEMMA NoRowFacts ==
    /\ NoRow \in RowType /\ NoRow.code = NoCode /\ NoRow.attempts = 0 /\ NoRow.expires = 0
    /\ NoRow.sent = FALSE
BY ConfigAssumption, BoundsAssumption DEF NoRow, RowType, Time, NoCode

(* The request that does nothing. *)
LEMMA IdleFacts ==
    /\ Idle \in ReqType /\ Idle.pc = "idle" /\ Idle.kind = "none" /\ Idle.at = 0
    /\ Idle.reply = "none" /\ Idle.seen = NoRow /\ Idle.again = FALSE /\ Idle.code = NoCode
BY NoRowFacts, BoundsAssumption DEF Idle, ReqType, NoCode

(* An answered request. *)
LEMMA ReplyFacts ==
    ASSUME TypeOK, NEW r \in Requests, NEW answer \in Answers, Reply(r, answer)
    PROVE  \E x \in ReqType :
              /\ req' = [req EXCEPT ![r] = x]
              /\ x.pc = "replied" /\ x.reply = answer /\ x.kind = "none" /\ x.at = 0
              /\ x.seen = NoRow /\ x.again = FALSE
              /\ req[r].kind = "send" => x.code = req[r].code
<1> DEFINE c == IF req[r].kind = "send" THEN req[r].code ELSE NoCode
           x == [Idle EXCEPT !.pc = "replied", !.reply = answer, !.code = c]
<1>1. c \in Guesses \cup {NoCode}
  BY DEF TypeOK, ReqType
<1>2. x \in ReqType
  BY <1>1, IdleFacts DEF ReqType, Answers
<1>3. /\ x.pc = "replied" /\ x.reply = answer /\ x.kind = "none" /\ x.at = 0
      /\ x.seen = NoRow /\ x.again = FALSE /\ x.code = c
  BY IdleFacts DEF ReqType
<1>4. req' = [req EXCEPT ![r] = x]
  BY DEF Reply, Set
<1> HIDE DEF x
<1> QED
  BY <1>2, <1>3, <1>4

(* How the number of sends in flight changes with one request. *)
LEMMA InFlightCounts ==
    ASSUME TypeOK, NEW r \in Requests, NEW x, req' = [req EXCEPT ![r] = x]
    PROVE  /\ Cardinality(InFlightSends) \in Nat /\ Cardinality(InFlightSends') \in Nat
           /\ Cardinality(InFlightSends') <= Cardinality(InFlightSends) + 1
           /\ r \in InFlightSends \/ ~(x.kind = "send" /\ x.pc \in {"locking", "writing"}) =>
                Cardinality(InFlightSends') <= Cardinality(InFlightSends)
           /\ r \in InFlightSends /\ x.pc \notin {"locking", "writing"} =>
                Cardinality(InFlightSends') = Cardinality(InFlightSends) - 1
<1>1. /\ IsFiniteSet(InFlightSends) /\ Cardinality(InFlightSends) \in Nat
      /\ IsFiniteSet(InFlightSends') /\ Cardinality(InFlightSends') \in Nat
  <2>1. InFlightSends \in SUBSET Requests /\ InFlightSends' \in SUBSET Requests
    BY DEF InFlightSends
  <2> QED
    BY <2>1, BoundsAssumption, FS_Subset, FS_CardinalityType
<1>2. req'[r] = x /\ \A s \in Requests \ {r} : req'[s] = req[s]
  BY DEF TypeOK
<1>3. InFlightSends' \subseteq InFlightSends \cup {r}
  BY <1>2 DEF InFlightSends
<1>4. Cardinality(InFlightSends') <= Cardinality(InFlightSends) + 1
  <2>1. /\ IsFiniteSet(InFlightSends \cup {r})
        /\ Cardinality(InFlightSends \cup {r}) <= Cardinality(InFlightSends) + 1
    BY <1>1, FS_AddElement
  <2> QED
    BY <1>1, <1>3, <2>1, FS_Subset, FS_CardinalityType
<1>5. ASSUME r \in InFlightSends \/ ~(x.kind = "send" /\ x.pc \in {"locking", "writing"})
      PROVE  Cardinality(InFlightSends') <= Cardinality(InFlightSends)
  <2>1. InFlightSends' \subseteq InFlightSends
    BY <1>2, <1>3, <1>5 DEF InFlightSends
  <2> QED
    BY <1>1, <2>1, FS_Subset
<1>6. ASSUME r \in InFlightSends, x.pc \notin {"locking", "writing"}
      PROVE  Cardinality(InFlightSends') = Cardinality(InFlightSends) - 1
  <2>1. InFlightSends' = InFlightSends \ {r}
    BY <1>2, <1>6 DEF InFlightSends
  <2> QED
    BY <1>1, <1>6, <2>1, FS_RemoveElement
<1> QED
  BY <1>1, <1>4, <1>5, <1>6

-----------------------------------------------------------------------------
(* Two shapes of steps. *)

(* A guess that is compared and not charged costs a database error, if rows *)
(* are locked. *)
Charged ==
    /\ faults' \in 0..MaxFaults /\ (faults' = faults \/ faults' = faults + 1)
    /\ wrong' = wrong \/ (wrong' = wrong + 1 /\ (RowLocks => faults' = faults + 1))

(* A request that is charged for nothing. *)
LEMMA NotCharged == ASSUME Inv, UNCHANGED <<wrong, faults>> PROVE Charged
BY DEF Charged, Inv, TypeOK

(* A request moves on and the row stays as it is. *)
LEMMA RequestMoves ==
    ASSUME Inv, NEW r \in Requests, NEW x \in ReqType, req' = [req EXCEPT ![r] = x],
           UNCHANGED <<now, engine, row, account, issued, spent>>, Charged,
           delivered \subseteq delivered', delivered' \subseteq Codes,
           \/ lock' = lock /\ lock # r
           \/ lock \in {Free, r} /\ lock' \in {Free, r},
           RowLocks /\ x.pc = "writing" /\ x.seen # NoRow => lock' = r,
           lock' = r => RowLocks /\ x.pc = "writing" /\ x.seen = row /\ row # NoRow,
           x.kind = "send" /\ x.pc \in {"locking", "writing"} =>
              r \in InFlightSends \/ Latest + Cardinality(InFlightSends) < MaxIssues,
           x.pc \in Mailing => req[r].pc \in Mailing /\ x.code = req[r].code,
           Fits(x)'
    PROVE  Inv'
<1>1. req' \in [Requests -> ReqType] /\ req'[r] = x /\ \A s \in Requests \ {r} : req'[s] = req[s]
  BY DEF Inv, TypeOK
<1>2. Free \notin Requests /\ RowLocks' = RowLocks
  BY ConfigAssumption DEF RowLocks
<1>3. TypeOK'
  <2>1. wrong' \in Nat /\ faults' \in 0..MaxFaults
    BY DEF Charged, Inv, TypeOK
  <2> QED
    BY <1>1, <1>2, <2>1 DEF Inv, TypeOK
<1>4. LockInv'
  BY <1>1, <1>2 DEF Inv, LockInv
<1>5. BudgetInv'
  <2>1. Latest' = Latest /\ Latest \in Nat /\ MaxIssues \in Nat
    BY BoundsAssumption DEF Latest, Inv, TypeOK
  <2>2. TypeOK /\ Latest + Cardinality(InFlightSends) <= MaxIssues
    BY DEF Inv, BudgetInv
  <2>3. /\ Cardinality(InFlightSends) \in Nat /\ Cardinality(InFlightSends') \in Nat
        /\ \/ Cardinality(InFlightSends') <= Cardinality(InFlightSends)
           \/ /\ Cardinality(InFlightSends') <= Cardinality(InFlightSends) + 1
              /\ Latest + Cardinality(InFlightSends) < MaxIssues
    BY <2>2, InFlightCounts
  <2> QED
    BY <2>1, <2>2, <2>3 DEF BudgetInv
<1>6. ReqInv'
  <2>1. ASSUME NEW s \in Requests \ {r} PROVE Fits(req[s])'
    <3>1. Fits(req[s]) /\ req'[s] = req[s]
      BY <1>1 DEF Inv, ReqInv
    <3> QED
      BY <3>1 DEF Fits, Latest
  <2> QED
    BY <1>1, <2>1 DEF ReqInv, Fits
<1>7. UniqueInv'
  BY <1>1 DEF Inv, UniqueInv
<1>8. IssueInv'
  BY DEF Inv, IssueInv, Latest
<1>9. CodeInv'
  <2>1. ASSUME RowLocks PROVE wrong' + row.attempts <= MaxAttempts + faults'
    <3>1. wrong + row.attempts <= MaxAttempts + faults
      BY <2>1 DEF Inv, CodeInv
    <3>2. /\ wrong \in Nat /\ faults \in Nat /\ MaxAttempts \in Nat /\ row.attempts \in Nat
      BY ConfigAssumption, BoundsAssumption DEF Inv, TypeOK, RowType
    <3>3. /\ faults' = faults \/ faults' = faults + 1
          /\ wrong' = wrong \/ (wrong' = wrong + 1 /\ faults' = faults + 1)
      BY <2>1 DEF Charged
    <3> QED
      BY <3>1, <3>2, <3>3
  <2>2. row'.attempts = row.attempts /\ RowLocks' = RowLocks
    BY DEF RowLocks
  <2> QED
    BY <2>1, <2>2 DEF Inv, CodeInv, Latest
<1> QED
  BY <1>3, <1>4, <1>5, <1>6, <1>7, <1>8, <1>9 DEF Inv

(* The request that has the row to itself writes it and is answered.  No    *)
(* other request is mailing the code the row holds. *)
LEMMA RowWritten ==
    ASSUME Inv, NEW r \in Requests, NEW x \in ReqType, req' = [req EXCEPT ![r] = x],
           row # NoRow, row' \in RowType,
           row'.expires = row.expires, row'.resend = row.resend,
           UNCHANGED <<now, engine, issued, delivered, faults>>,
           account' \in BOOLEAN, lock \in {Free, r}, lock' = Free,
           wrong' \in Nat, RowLocks => wrong' + row'.attempts <= MaxAttempts + faults,
           spent' \subseteq 1..Latest,
           row'.code # NoCode => 
              row'.code = row.code /\ row'.code \notin spent' /\ (row'.sent => row'.code \in delivered),
           \A s \in Requests \ {r} : req[s].pc \in Mailing => req[s].code # Latest,
           x.pc = "replied", x.at = 0, x.reply # "superseded"
    PROVE  Inv'
<1>1. req' \in [Requests -> ReqType] /\ req'[r] = x /\ \A s \in Requests \ {r} : req'[s] = req[s]
  BY DEF Inv, TypeOK
<1>2. /\ Free \notin Requests /\ RowLocks' = RowLocks
      /\ Latest' = Latest /\ Latest \in 0..MaxIssues /\ MaxIssues \in Nat
  BY ConfigAssumption, BoundsAssumption DEF Latest, RowLocks, Inv, TypeOK
<1>3. row.expires \in Nat /\ row.expires > 0 /\ row' # NoRow
  <2>1. Latest > 0 /\ row.expires = issued[Latest] + TTL
    BY DEF Inv, IssueInv
  <2>2. issued \in Seq(1..MaxNow) /\ Latest \in 1..Len(issued)
    BY <1>2, <2>1 DEF Inv, TypeOK, Latest
  <2>3. issued[Latest] \in 1..MaxNow /\ TTL \in Nat \ {0} /\ MaxNow \in Nat
    BY <2>2, ConfigAssumption, BoundsAssumption
  <2> QED
    BY <2>1, <2>3, NoRowFacts
<1>4. TypeOK'
  <2>1. spent' \subseteq Codes
    BY <1>2 DEF Codes
  <2> QED
    BY <1>1, <1>2, <2>1 DEF Inv, TypeOK
<1>5. LockInv'
  BY <1>1, <1>2 DEF Inv, LockInv
<1>6. BudgetInv'
  <2>1. TypeOK /\ Latest + Cardinality(InFlightSends) <= MaxIssues
    BY DEF Inv, BudgetInv
  <2>2. ~(x.kind = "send" /\ x.pc \in {"locking", "writing"})
    OBVIOUS
  <2>3. /\ Cardinality(InFlightSends) \in Nat /\ Cardinality(InFlightSends') \in Nat
        /\ Cardinality(InFlightSends') <= Cardinality(InFlightSends)
    BY <2>1, <2>2, InFlightCounts
  <2> QED
    BY <1>2, <2>1, <2>3 DEF BudgetInv
<1>7. ReqInv'
  <2>1. ASSUME NEW s \in Requests \ {r} PROVE Fits(req[s])'
    <3>1. Fits(req[s]) /\ req'[s] = req[s]
      BY <1>1 DEF Inv, ReqInv
    <3> QED
      BY <3>1, <1>2 DEF Fits
  <2>2. Fits(x)'
    BY DEF Fits, Mailing
  <2> QED
    BY <1>1, <2>1, <2>2 DEF ReqInv, Fits
<1>8. UniqueInv'
  BY <1>1 DEF Inv, UniqueInv, Mailing
<1>9. CodeInv' /\ IssueInv'
  BY <1>2, <1>3 DEF Inv, CodeInv, IssueInv
<1> QED
  BY <1>4, <1>5, <1>6, <1>7, <1>8, <1>9 DEF Inv

-----------------------------------------------------------------------------
(* Steps of one request that leave the row alone. *)

(* A transaction that does not write is over, and the request is answered.  *)
LEMMA AnswerMoves ==
    ASSUME Inv, NEW r \in Requests, NEW answer \in Answers, Reply(r, answer),
           UNCHANGED <<now, engine, row, account, issued, delivered, spent>>, Charged,
           lock' = (IF lock = r THEN Free ELSE lock),
           answer = "superseded" =>
              /\ req[r].kind = "send"
              /\ req[r].code < Latest \/ (req[r].code = Latest /\ row = NoRow)
    PROVE  Inv'
<1>1. TypeOK
  BY DEF Inv
<1>2. PICK x \in ReqType :
         /\ req' = [req EXCEPT ![r] = x]
         /\ x.pc = "replied" /\ x.reply = answer /\ x.kind = "none" /\ x.at = 0
         /\ x.seen = NoRow /\ x.again = FALSE
         /\ req[r].kind = "send" => x.code = req[r].code
  BY <1>1, ReplyFacts
<1>4. Fits(x)'
  BY <1>2 DEF Fits, Mailing, Latest
<1>5. delivered \subseteq delivered' /\ delivered' \subseteq Codes
  BY <1>1 DEF TypeOK
<1>6. /\ \/ lock' = lock /\ lock # r
         \/ lock \in {Free, r} /\ lock' \in {Free, r}
      /\ lock' # r
  BY ConfigAssumption
<1>7. x.pc # "writing" /\ x.pc \notin {"locking", "writing"} /\ x.pc \notin Mailing
  BY <1>2 DEF Mailing
<1> QED
  BY <1>2, <1>4, <1>5, <1>6, <1>7, RequestMoves

(* Only a request about to write holds the lock. *)
LEMMA NotLocked ==
    ASSUME Inv, NEW r \in Requests, req[r].pc # "writing"
    PROVE  lock # r
BY ConfigAssumption DEF Inv, TypeOK

(* A new sender has neither a lock nor a code yet. *)
LEMMA SendKeeps == ASSUME Inv, NEW r \in Requests, Send(r) PROVE Inv'
<1>1. PICK t : t = now
  OBVIOUS
<1>2. PICK y : y = [Idle EXCEPT !.kind = "send", !.pc = "locking", !.at = t]
  OBVIOUS
<1>3. t \in 1..MaxNow /\ t \in 0..MaxNow /\ MaxNow \in Nat /\ MaxStall \in Nat
  BY <1>1, BoundsAssumption, DayAssumption DEF Inv, TypeOK
<1>3a. t \in 0..MaxNow /\ "send" \in {"none", "send", "check", "register"}
  BY <1>3
<1>4. y \in ReqType /\ y.kind = "send" /\ y.pc = "locking" /\ y.at = t /\ y.reply = "none"
  <2>1. y \in ReqType
    BY <1>2, <1>3a, IdleFacts DEF ReqType
  <2>2. Idle \in ReqType /\ Idle.reply = "none"
    BY IdleFacts
  <2> QED
    BY <1>2, <2>1, <2>2 DEF ReqType
<1>5. /\ req' = [req EXCEPT ![r] = y] /\ req[r] = Idle
      /\ Latest + Cardinality(InFlightSends) < MaxIssues
      /\ UNCHANGED <<now, engine, row, lock, account, issued, delivered, spent, wrong, faults>>
  BY <1>1, <1>2 DEF Send, Set, history, Latest
<1>6. Fits(y)'
  BY <1>1, <1>3, <1>4, <1>5 DEF Fits, Mailing
<1>7. lock # r /\ lock' = lock /\ y.pc # "writing" /\ y.pc \notin Mailing
  BY <1>4, <1>5, NotLocked, IdleFacts DEF Mailing
<1>8. delivered \subseteq delivered' /\ delivered' \subseteq Codes /\ Charged
  BY <1>5, NotCharged DEF Inv, TypeOK
<1> QED
  BY <1>4, <1>5, <1>6, <1>7, <1>8, RequestMoves

(* A submission adds a guess to come, and nothing else. *)
LEMMA SubmitKeeps ==
    ASSUME Inv, NEW r \in Requests, NEW kind \in Submissions, NEW guess \in Guesses, Submit(r, kind, guess)
    PROVE  Inv'
<1>1. PICK t : t = IF kind = "register" THEN now ELSE 0
  OBVIOUS
<1>2. PICK y : y = [Idle EXCEPT !.kind = kind, !.pc = "locking", !.code = guess, !.at = t]
  OBVIOUS
<1>3. /\ t \in 0..MaxNow /\ MaxStall \in Nat /\ now \in 1..MaxNow /\ MaxNow \in Nat
      /\ t # 0 => t = now
      /\ kind \in {"check", "register"}
      /\ kind # "check" => t # 0
  BY <1>1, ConfigAssumption, BoundsAssumption, DayAssumption DEF Inv, TypeOK
<1>3a. t \in 0..MaxNow /\ kind \in {"none", "send", "check", "register"} /\ guess \in Guesses \cup {NoCode}
  BY <1>3
<1>4. y \in ReqType /\ y.kind = kind /\ y.pc = "locking" /\ y.at = t /\ y.reply = "none"
  <2>1. y \in ReqType
    BY <1>2, <1>3a, IdleFacts DEF ReqType
  <2>2. Idle \in ReqType /\ Idle.reply = "none"
    BY IdleFacts
  <2> QED
    BY <1>2, <2>1, <2>2 DEF ReqType
<1>5. /\ req' = [req EXCEPT ![r] = y] /\ req[r] = Idle
      /\ UNCHANGED <<now, engine, row, lock, account, issued, delivered, spent, wrong, faults>>
  BY <1>1, <1>2 DEF Submit, Set, history
<1>6. Fits(y)'
  <2>1. y.at # 0 => y.at = now /\ now <= y.at + MaxStall
    BY <1>3, <1>4
  <2>2. y.kind # "none" /\ (y.kind # "check" => y.at # 0)
    BY <1>3, <1>4
  <2> QED
    BY <1>3, <1>4, <1>5, <2>1, <2>2 DEF Fits, Mailing
<1>7. lock # r /\ lock' = lock /\ y.pc # "writing" /\ y.pc \notin Mailing /\ y.kind # "send"
  BY <1>3, <1>4, <1>5, NotLocked, IdleFacts DEF Mailing
<1>8. delivered \subseteq delivered' /\ delivered' \subseteq Codes /\ Charged
  BY <1>5, NotCharged DEF Inv, TypeOK
<1> QED
  BY <1>4, <1>5, <1>6, <1>7, <1>8, RequestMoves

(* The lock goes to one request at a time, with what it reads of the row. *)
LEMMA LockRowKeeps == ASSUME Inv, NEW r \in Requests, LockRow(r) PROVE Inv'
<1>1. PICK z \in ReqType : z = req[r]
  BY DEF Inv, TypeOK
<1>2. PICK s \in RowType : s = row
  BY DEF Inv, TypeOK
<1>3. PICK y : y = [z EXCEPT !.pc = "writing", !.seen = s]
  OBVIOUS
<1>4. /\ y \in ReqType /\ y.kind = z.kind /\ y.pc = "writing" /\ y.at = z.at
      /\ y.reply = z.reply /\ y.seen = s /\ y.code = z.code
  BY <1>3 DEF ReqType
<1>5. /\ req' = [req EXCEPT ![r] = y] /\ z.pc = "locking" /\ lock = Free
      /\ lock' = (IF RowLocks /\ s # NoRow THEN r ELSE Free)
      /\ UNCHANGED <<now, engine, row, account, issued, delivered, spent, wrong, faults>>
  BY <1>1, <1>2, <1>3 DEF LockRow, Set, history
<1>6. Fits(y)'
  <2>1. Fits(z)
    BY <1>1 DEF Inv, ReqInv
  <2> QED
    BY <1>4, <1>5, <2>1 DEF Fits, Mailing, Latest
<1>7. /\ RowLocks /\ y.seen # NoRow => lock' = r
      /\ lock' = r => RowLocks /\ y.pc = "writing" /\ y.seen = row /\ row # NoRow
      /\ lock \in {Free, r} /\ lock' \in {Free, r} /\ y.pc \notin Mailing
      /\ y.kind = "send" => r \in InFlightSends
  BY <1>1, <1>2, <1>4, <1>5, ConfigAssumption DEF Mailing, InFlightSends
<1>8. delivered \subseteq delivered' /\ delivered' \subseteq Codes /\ Charged
  BY <1>5, NotCharged DEF Inv, TypeOK
<1> QED
  BY <1>4, <1>5, <1>6, <1>7, <1>8, RequestMoves

(* A transaction that fails leaves the row as it was and gives the lock back. *)
LEMMA AbortKeeps == ASSUME Inv, NEW r \in Requests, Abort(r) PROVE Inv'
<1>1. faults' \in 0..MaxFaults /\ faults' = faults + 1
  BY BoundsAssumption DEF Abort, Fault, Inv, TypeOK
<1>2. RollBack(r)
  BY DEF Abort
<1>3. Charged
  BY <1>1, <1>2 DEF RollBack, Charged
<1> QED
  BY <1>2, <1>3, AnswerMoves DEF RollBack, Unlock, Answers

(* So does one that the engine gives up: where rows are locked, that is a    *)
(* send, which compares no guess. *)
LEMMA ConflictKeeps == ASSUME Inv, NEW r \in Requests, Conflict(r) PROVE Inv'
<1>1. RollBack(r) /\ UNCHANGED faults
  BY DEF Conflict
<1>2. RowLocks => ~GuessIsWrong(r)
  <2>1. RowLocks => req[r].kind = "send"
    BY DEF Conflict, Writing
  <2> QED
    BY <2>1, ConfigAssumption DEF GuessIsWrong, Submitted, Writing
<1>3. Charged
  BY <1>1, <1>2 DEF RollBack, Charged, Inv, TypeOK
<1> QED
  BY <1>1, <1>3, AnswerMoves DEF RollBack, Unlock, Answers

(* So does a send that comes too early or too often, *)
LEMMA PrepareRefusedKeeps == ASSUME Inv, NEW r \in Requests, PrepareRefused(r) PROVE Inv'
<1>1. Charged
  BY NotCharged DEF PrepareRefused, history
<1> QED
  BY <1>1, AnswerMoves DEF history, PrepareRefused, Unlock, Answers

(* and one whose insert meets a row that was not there to be locked. *)
LEMMA PrepareDuplicateKeeps == ASSUME Inv, NEW r \in Requests, PrepareDuplicate(r) PROVE Inv'
<1>1. Charged /\ lock = Free /\ lock' = lock /\ lock # r
  BY ConfigAssumption, NotCharged DEF PrepareDuplicate, history
<1>2. CASE req[r].again
  BY <1>1, <1>2, AnswerMoves DEF history, PrepareDuplicate, Answers
<1>3. CASE ~req[r].again
  <2>1. PICK t : t = now
    OBVIOUS
  <2>2. PICK y : y = [Idle EXCEPT !.kind = "send", !.pc = "locking", !.at = t, !.again = TRUE]
    OBVIOUS
  <2>3. t \in 1..MaxNow /\ t \in 0..MaxNow /\ MaxNow \in Nat /\ MaxStall \in Nat
    BY <2>1, BoundsAssumption, DayAssumption DEF Inv, TypeOK
  <2>3a. t \in 0..MaxNow
    BY <2>3
  <2>4. y \in ReqType /\ y.kind = "send" /\ y.pc = "locking" /\ y.at = t /\ y.reply = "none"
    <3>1. y \in ReqType
      BY <2>2, <2>3a, IdleFacts DEF ReqType
    <3>2. Idle \in ReqType /\ Idle.reply = "none"
      BY IdleFacts
    <3> QED
      BY <2>2, <3>1, <3>2 DEF ReqType
  <2>5. /\ req' = [req EXCEPT ![r] = y] /\ req[r].kind = "send" /\ req[r].pc = "writing"
        /\ UNCHANGED <<now, engine, row, lock, account, issued, delivered, spent, wrong, faults>>
    BY <1>3, <2>1, <2>2 DEF PrepareDuplicate, Writing, Set, history
  <2>6. Fits(y)'
    BY <2>1, <2>3, <2>4, <2>5 DEF Fits, Mailing
  <2>7. y.pc # "writing" /\ y.pc \notin Mailing /\ r \in InFlightSends
    BY <2>4, <2>5 DEF Mailing, InFlightSends
  <2>8. delivered \subseteq delivered' /\ delivered' \subseteq Codes
    BY <2>5 DEF Inv, TypeOK
  <2> QED
    BY <1>1, <2>4, <2>5, <2>6, <2>7, <2>8, RequestMoves
<1> QED
  BY <1>2, <1>3

(* A delivery, late or not, concerns its own issue only. *)
LEMMA DeliverKeeps ==
    ASSUME Inv, NEW r \in Requests, NEW arrives \in BOOLEAN, NEW reported \in BOOLEAN,
           Deliver(r, arrives, reported)
    PROVE  Inv'
<1>1. PICK z \in ReqType : z = req[r]
  BY DEF Inv, TypeOK
<1>2. PICK y : y = [z EXCEPT !.pc = IF reported THEN "marking" ELSE "clearing"]
  OBVIOUS
<1>3. /\ y \in ReqType /\ y.kind = z.kind /\ y.at = z.at /\ y.reply = z.reply /\ y.code = z.code
      /\ y.pc = IF reported THEN "marking" ELSE "clearing"
  BY <1>2 DEF ReqType
<1>4. /\ req' = [req EXCEPT ![r] = y] /\ z.pc = "delivering"
      /\ reported => arrives
      /\ delivered' = IF arrives THEN delivered \cup {z.code} ELSE delivered
      /\ UNCHANGED <<now, engine, row, lock, account, issued, spent, wrong, faults>>
  BY <1>1, <1>2 DEF Deliver, Set
<1>5. Fits(z)
  BY <1>1 DEF Inv, ReqInv
<1>6. Fits(y)'
  BY <1>3, <1>4, <1>5 DEF Fits, Mailing, Latest
<1>7. lock # r /\ lock' = lock /\ y.pc \notin {"writing", "locking"} /\ req[r].pc \in Mailing
  BY <1>1, <1>3, <1>4, NotLocked DEF Mailing
<1>8. delivered \subseteq delivered' /\ Charged
  BY <1>4, NotCharged
<1>9. delivered' \subseteq Codes
  <2>1. z.code \in 1..Latest /\ Latest \in 0..MaxIssues /\ MaxIssues \in Nat
    BY <1>4, <1>5, BoundsAssumption DEF Fits, Mailing, Inv, TypeOK, Latest
  <2>2. z.code \in Codes /\ delivered \subseteq Codes
    BY <2>1 DEF Inv, TypeOK, Codes
  <2> QED
    BY <1>4, <2>2
<1> QED
  BY <1>1, <1>3, <1>4, <1>6, <1>7, <1>8, <1>9, RequestMoves

(* A lost reply ends the request with the row as committed. *)
LEMMA LoseReplyKeeps == ASSUME Inv, NEW r \in Requests, LoseReply(r) PROVE Inv'
<1>1. Charged /\ UNCHANGED <<now, engine, row, account, issued, delivered, spent, lock>>
  BY BoundsAssumption DEF LoseReply, Fault, Charged, history, Inv, TypeOK
<1>2. lock # r \/ req[r].reply = "registered"
  BY NotLocked DEF LoseReply
<1>3. lock # r
  BY <1>2, NotLocked DEF Inv, ReqInv, Fits
<1>4. Reply(r, "undelivered") \/ Reply(r, "internal")
  BY DEF LoseReply
<1> QED
  BY <1>1, <1>3, <1>4, AnswerMoves DEF Answers

(* An answered request is forgotten. *)
LEMMA EndRequestKeeps == ASSUME Inv, NEW r \in Requests, EndRequest(r) PROVE Inv'
<1>1. PICK y \in ReqType : y = Idle
  BY IdleFacts
<1>2. /\ req' = [req EXCEPT ![r] = y] /\ req[r].pc = "replied"
      /\ UNCHANGED <<now, engine, row, lock, account, issued, delivered, spent, wrong, faults>>
  BY <1>1 DEF EndRequest, Set, history
<1>3. Fits(y)'
  BY <1>1, IdleFacts DEF Fits, Mailing
<1>4. lock # r /\ lock' = lock /\ y.pc \notin {"writing", "locking"} /\ y.pc \notin Mailing
  BY <1>1, <1>2, NotLocked, IdleFacts DEF Mailing
<1>5. delivered \subseteq delivered' /\ delivered' \subseteq Codes /\ Charged
  BY <1>2, NotCharged DEF Inv, TypeOK
<1> QED
  BY <1>2, <1>3, <1>4, <1>5, RequestMoves

(* A row that is absent, spent, expired or exhausted is not changed by a guess. *)
LEMMA CodeUnusableKeeps == ASSUME Inv, NEW r \in Requests, CodeUnusable(r) PROVE Inv'
<1>1. Charged
  BY NotCharged DEF CodeUnusable, history
<1> QED
  BY <1>1, AnswerMoves DEF history, CodeUnusable, Unlock, Answers

(* A check that finds the code right does not change the row either. *)
LEMMA CheckPassesKeeps == ASSUME Inv, NEW r \in Requests, CheckPasses(r) PROVE Inv'
<1>1. Charged
  BY NotCharged DEF CheckPasses, history
<1> QED
  BY <1>1, AnswerMoves DEF history, CheckPasses, Unlock, Answers

-----------------------------------------------------------------------------
(* Steps that write the row. *)

(* The updates that record the fate of a mail match the row only if nobody  *)
(* has overtaken it. *)
LEMMA PendingFacts ==
    ASSUME Inv, NEW r \in Requests, req[r].pc \in Mailing, StillPending(r)
    PROVE  /\ row # NoRow /\ row.code = Latest /\ row.code # NoCode /\ row.sent = FALSE
           /\ \A s \in Requests \ {r} : req[s].pc \in Mailing => req[s].code # Latest
<1>1. req[r].code \in 1..Latest /\ Latest \in Nat
  BY DEF Inv, ReqInv, Fits, Latest, TypeOK
<1>2. row.code = req[r].code /\ row.code # NoCode /\ ~row.sent /\ row.sent \in BOOLEAN
  BY <1>1 DEF StillPending, NoCode, Inv, TypeOK, RowType
<1>3. row.code = Latest /\ row # NoRow
  BY <1>2, NoRowFacts DEF Inv, CodeInv
<1> QED
  BY <1>2, <1>3 DEF Inv, UniqueInv

(* If they do not match, then a newer code exists or the row is gone.        *)
LEMMA OvertakenFacts ==
    ASSUME Inv, NEW r \in Requests, req[r].pc \in Mailing, ~StillPending(r)
    PROVE  req[r].code < Latest \/ (req[r].code = Latest /\ row = NoRow)
<1>1. Fits(req[r]) /\ Latest \in Nat
  BY DEF Inv, ReqInv, Latest, TypeOK
<1>2. /\ req[r].code \in 1..Latest
      /\ req[r].code = Latest => row = NoRow \/ (row.code = req[r].code /\ row.sent = FALSE)
  BY <1>1 DEF Fits
<1>3. req[r].code = Latest => row = NoRow
  BY <1>2 DEF StillPending
<1> QED
  BY <1>1, <1>2, <1>3

(* MarkSent: the code may be used from now on. *)
LEMMA MarkSentKeeps == ASSUME Inv, NEW r \in Requests, MarkSent(r) PROVE Inv'
<1>1. /\ req[r].pc = "marking" /\ req[r].pc \in Mailing /\ lock = Free /\ lock' = Free
      /\ Fits(req[r]) /\ req[r].kind = "send" /\ req[r].code \in delivered
      /\ UNCHANGED <<now, engine, account, issued, delivered, spent, wrong, faults>>
  BY DEF MarkSent, Mailing, history, Inv, ReqInv, Fits
<1>2. /\ Charged /\ lock' = IF lock = r THEN Free ELSE lock
      /\ account' \in BOOLEAN /\ wrong' \in Nat
  BY <1>1, NotCharged DEF Inv, TypeOK
<1>3. CASE StillPending(r)
  <2>1. PICK s \in RowType : s = row
    BY DEF Inv, TypeOK
  <2>2. PICK w : w = [s EXCEPT !.sent = TRUE]
    OBVIOUS
  <2>3. /\ w \in RowType /\ w.expires = s.expires /\ w.resend = s.resend
        /\ w.code = s.code /\ w.attempts = s.attempts
    BY <2>2 DEF RowType
  <2>4. row' = w /\ Reply(r, "sent")
    BY <1>3, <2>1, <2>2 DEF MarkSent
  <2>5. PICK x \in ReqType :
           /\ req' = [req EXCEPT ![r] = x]
           /\ x.pc = "replied" /\ x.reply = "sent" /\ x.kind = "none" /\ x.at = 0
           /\ x.seen = NoRow /\ x.again = FALSE
           /\ req[r].kind = "send" => x.code = req[r].code
    <3>1. TypeOK /\ "sent" \in Answers
      BY DEF Inv, Answers
    <3> QED
      BY <2>4, <3>1, ReplyFacts
  <2>6. /\ row # NoRow /\ row.code # NoCode
        /\ \A q \in Requests \ {r} : req[q].pc \in Mailing => req[q].code # Latest
    BY <1>1, <1>3, PendingFacts
  <2>7. row.code = req[r].code /\ row.code \notin spent
    BY <1>3, <2>6 DEF StillPending, Inv, CodeInv
  <2>8. (RowLocks => wrong' + row'.attempts <= MaxAttempts + faults) /\ spent' \subseteq 1..Latest
    BY <1>1, <2>1, <2>3, <2>4 DEF Inv, CodeInv
  <2>9. row'.code # NoCode => 
          row'.code = row.code /\ row'.code \notin spent' /\ (row'.sent => row'.code \in delivered)
    BY <1>1, <2>1, <2>3, <2>4, <2>7
  <2> QED
    BY <1>1, <1>2, <2>1, <2>3, <2>4, <2>5, <2>6, <2>8, <2>9, RowWritten
<1>4. CASE ~StillPending(r)
  <2>1. req[r].code < Latest \/ (req[r].code = Latest /\ row = NoRow)
    BY <1>1, <1>4, OvertakenFacts
  <2>2. Reply(r, "superseded") /\ UNCHANGED <<now, engine, row, account, issued, delivered, spent>>
    BY <1>4 DEF MarkSent, history
  <2> QED
    BY <1>1, <1>2, <2>1, <2>2, AnswerMoves DEF Answers
<1> QED
  BY <1>3, <1>4

(* ClearHash: the code is withdrawn. *)
LEMMA ClearHashKeeps == ASSUME Inv, NEW r \in Requests, ClearHash(r) PROVE Inv'
<1>1. /\ req[r].pc \in Mailing /\ lock = Free /\ lock' = Free /\ Reply(r, "undelivered")
      /\ UNCHANGED <<now, engine, account, issued, delivered, spent, wrong, faults>>
  BY DEF ClearHash, Mailing, history
<1>2. /\ Charged /\ lock' = IF lock = r THEN Free ELSE lock
      /\ account' \in BOOLEAN /\ wrong' \in Nat
  BY <1>1, NotCharged DEF Inv, TypeOK
<1>3. CASE StillPending(r)
  <2>1. PICK s \in RowType : s = row
    BY DEF Inv, TypeOK
  <2>2. PICK w : w = [s EXCEPT !.code = NoCode]
    OBVIOUS
  <2>3. /\ w \in RowType /\ w.expires = s.expires /\ w.resend = s.resend
        /\ w.code = NoCode /\ w.attempts = s.attempts
    BY <2>2 DEF RowType
  <2>4. row' = w
    BY <1>3, <2>1, <2>2 DEF ClearHash
  <2>5. PICK x \in ReqType :
           /\ req' = [req EXCEPT ![r] = x]
           /\ x.pc = "replied" /\ x.reply = "undelivered" /\ x.kind = "none" /\ x.at = 0
           /\ x.seen = NoRow /\ x.again = FALSE
           /\ req[r].kind = "send" => x.code = req[r].code
    <3>1. TypeOK /\ "undelivered" \in Answers
      BY DEF Inv, Answers
    <3> QED
      BY <1>1, <3>1, ReplyFacts
  <2>6. /\ row # NoRow
        /\ \A q \in Requests \ {r} : req[q].pc \in Mailing => req[q].code # Latest
    BY <1>1, <1>3, PendingFacts
  <2>7. (RowLocks => wrong' + row'.attempts <= MaxAttempts + faults) /\ spent' \subseteq 1..Latest
    BY <1>1, <2>1, <2>3, <2>4 DEF Inv, CodeInv
  <2> QED
    BY <1>1, <1>2, <2>1, <2>3, <2>4, <2>5, <2>6, <2>7, RowWritten
<1>4. CASE ~StillPending(r)
  <2>1. UNCHANGED <<now, engine, row, account, issued, delivered, spent>>
    BY <1>4 DEF ClearHash, history
  <2> QED
    BY <1>1, <1>2, <2>1, AnswerMoves DEF Answers
<1> QED
  BY <1>3, <1>4

(* Who has read a row, and may write it, has read the row as it is. *)
LEMMA SeenFacts ==
    ASSUME Inv, NEW r \in Requests, req[r].pc = "writing", req[r].seen # NoRow, Writable(r)
    PROVE  lock \in {Free, r} /\ req[r].seen = row /\ row # NoRow
<1>1. CASE RowLocks
  BY <1>1, ConfigAssumption DEF Inv, LockInv, TypeOK
<1>2. CASE ~RowLocks
  BY <1>2 DEF Inv, LockInv, Writable
<1> QED
  BY <1>1, <1>2

(* A submission that finds a usable code, and may write the row, has it to   *)
(* itself; the code is the latest, has arrived, and nobody mails it any more. *)
LEMMA UsableFacts ==
    ASSUME Inv, NEW r \in Requests, NEW t, Submitted(r), Usable(req[r].seen, t), Writable(r)
    PROVE  /\ lock \in {Free, r} /\ row # NoRow /\ req[r].seen = row
           /\ row.attempts >= 1 /\ row.code = Latest /\ row.code # NoCode
           /\ row.code \in delivered \ spent
           /\ \A s \in Requests \ {r} : req[s].pc \in Mailing => req[s].code # Latest
<1>1. req[r].pc = "writing" /\ req[r].seen # NoRow
  BY NoRowFacts DEF Submitted, Writing, Usable
<1>3. lock \in {Free, r} /\ req[r].seen = row /\ row # NoRow
  BY <1>1, SeenFacts
<1>4. row.attempts >= 1 /\ row.sent /\ row.code # NoCode
  BY <1>3 DEF Usable
<1>5. row.code = Latest /\ row.code \in delivered \ spent
  BY <1>4 DEF Inv, CodeInv
<1>6. ASSUME NEW s \in Requests, req[s].pc \in Mailing PROVE req[s].code # Latest
  BY <1>3, <1>4, <1>6 DEF Inv, ReqInv, Fits
<1> QED
  BY <1>3, <1>4, <1>5, <1>6

(* A wrong guess costs an attempt. *)
LEMMA CodeWrongKeeps == ASSUME Inv, NEW r \in Requests, CodeWrong(r) PROVE Inv'
<1>1. Submitted(r) /\ Usable(req[r].seen, Clock(r)) /\ Writable(r)
  BY DEF CodeWrong, GuessIsWrong
<1>2. /\ lock \in {Free, r} /\ row # NoRow /\ req[r].seen = row
      /\ row.attempts >= 1 /\ row.code = Latest /\ row.code # NoCode
      /\ row.code \in delivered \ spent
      /\ \A s \in Requests \ {r} : req[s].pc \in Mailing => req[s].code # Latest
  BY <1>1, UsableFacts
<1>3. PICK s \in RowType : s = row
  BY DEF Inv, TypeOK
<1>4. PICK w : w = [s EXCEPT !.attempts = s.attempts - 1]
  OBVIOUS
<1>5. row' = w /\ Reply(r, "invalid")
  BY <1>2, <1>3, <1>4 DEF CodeWrong
<1>6. s.attempts \in 0..MaxAttempts /\ s.attempts >= 1 /\ MaxAttempts \in Nat /\ wrong \in Nat
  BY <1>2, <1>3, ConfigAssumption DEF RowType, Inv, TypeOK
<1>7. s.attempts - 1 \in 0..MaxAttempts
  BY <1>6
<1>8. /\ w \in RowType /\ w.expires = s.expires /\ w.resend = s.resend
      /\ w.attempts = s.attempts - 1 /\ w.code = s.code
  BY <1>4, <1>7 DEF RowType
<1>9. PICK x \in ReqType :
         /\ req' = [req EXCEPT ![r] = x]
         /\ x.pc = "replied" /\ x.reply = "invalid" /\ x.kind = "none" /\ x.at = 0
         /\ x.seen = NoRow /\ x.again = FALSE
         /\ req[r].kind = "send" => x.code = req[r].code
  <2>1. TypeOK /\ "invalid" \in Answers
    BY DEF Inv, Answers
  <2> QED
    BY <1>5, <2>1, ReplyFacts
<1>10. /\ UNCHANGED <<now, engine, issued, delivered, faults, account, spent>> /\ wrong' = wrong + 1
       /\ lock' = Free
  BY <1>2 DEF CodeWrong, Unlock
<1>11. /\ wrong' \in Nat /\ spent' \subseteq 1..Latest
       /\ RowLocks => wrong' + row'.attempts <= MaxAttempts + faults
  <2>1. faults \in Nat
    BY BoundsAssumption DEF Inv, TypeOK
  <2> QED
    BY <1>3, <1>5, <1>6, <1>8, <1>10, <2>1 DEF Inv, CodeInv
<1>12. account' \in BOOLEAN
  BY <1>10 DEF Inv, TypeOK
<1>13. row'.code = row.code /\ row'.code \notin spent' /\ row'.code \in delivered
  BY <1>2, <1>3, <1>5, <1>8, <1>10
<1> QED
  BY <1>2, <1>3, <1>5, <1>8, <1>9, <1>10, <1>11, <1>12, <1>13, RowWritten

(* A matching registration spends the code. *)
LEMMA ConsumeKeeps ==
    ASSUME Inv, NEW r \in Requests, CodeMatches(r), Writable(r), Consume(r), Unlock(r),
           NEW answer \in {"registered", "invalid"}, Reply(r, answer),
           account' \in BOOLEAN, UNCHANGED <<now, engine, faults>>
    PROVE  Inv'
<1>1. Submitted(r) /\ Usable(req[r].seen, Clock(r)) /\ req[r].seen.code = req[r].code
  BY DEF CodeMatches
<1>2. /\ lock \in {Free, r} /\ row # NoRow /\ req[r].seen = row
      /\ row.code = Latest /\ row.code # NoCode
      /\ \A s \in Requests \ {r} : req[s].pc \in Mailing => req[s].code # Latest
  BY <1>1, UsableFacts
<1>3. PICK s \in RowType : s = row
  BY DEF Inv, TypeOK
<1>4. PICK w : w = [s EXCEPT !.code = NoCode, !.sent = FALSE]
  OBVIOUS
<1>5. row' = w /\ spent' = spent \cup {Latest} /\ UNCHANGED <<issued, delivered, wrong>>
  BY <1>1, <1>2, <1>3, <1>4 DEF Consume
<1>6. /\ w \in RowType /\ w.expires = s.expires /\ w.resend = s.resend
      /\ w.attempts = s.attempts /\ w.code = NoCode
  BY <1>4 DEF RowType
<1>7. PICK x \in ReqType :
         /\ req' = [req EXCEPT ![r] = x]
         /\ x.pc = "replied" /\ x.reply = answer /\ x.kind = "none" /\ x.at = 0
         /\ x.seen = NoRow /\ x.again = FALSE
         /\ req[r].kind = "send" => x.code = req[r].code
  <2>1. TypeOK /\ answer \in Answers
    BY DEF Inv, Answers
  <2> QED
    BY <2>1, ReplyFacts
<1>8. lock' = Free
  BY <1>2 DEF Unlock
<1>9. wrong' \in Nat /\ (RowLocks => wrong' + row'.attempts <= MaxAttempts + faults)
  BY <1>3, <1>5, <1>6 DEF Inv, CodeInv, TypeOK
<1>10. spent' \subseteq 1..Latest
  <2>1. Latest \in Nat /\ Latest # 0
    BY <1>2 DEF Inv, TypeOK, Latest, NoCode
  <2> QED
    BY <1>5, <2>1 DEF Inv, CodeInv
<1> QED
  BY <1>2, <1>3, <1>5, <1>6, <1>7, <1>8, <1>9, <1>10, RowWritten

(* Both ends of a registration with a matching code. *)
LEMMA RegisterKeeps ==
    ASSUME Inv, NEW r \in Requests, RegisterPasses(r) \/ RegisterDuplicate(r)
    PROVE  Inv'
<1>1. CASE RegisterPasses(r)
  BY <1>1, ConsumeKeeps DEF RegisterPasses
<1>2. CASE RegisterDuplicate(r)
  <2>1. account' \in BOOLEAN
    BY <1>2 DEF RegisterDuplicate, Inv, TypeOK
  <2>2. CASE DuplicatePoisons
    <3>1. Charged
      BY <1>2, <2>2, NotCharged DEF RegisterDuplicate, history
    <3> QED
      BY <1>2, <2>2, <3>1, AnswerMoves DEF history, RegisterDuplicate, Unlock, Answers
  <2>3. CASE ~DuplicatePoisons
    BY <1>2, <2>1, <2>3, ConsumeKeeps DEF RegisterDuplicate
  <2> QED
    BY <2>2, <2>3
<1> QED
  BY <1>1, <1>2

-----------------------------------------------------------------------------
(* A new code. *)

(* The instant of an issue: the sender has read its clock after the latest  *)
(* issue; if the row is gone it has done so when no window reached it. *)
LEMMA IssueInstant ==
    ASSUME Inv, NEW r \in Requests, Writing(r, "send"),
           \/ req[r].seen # NoRow /\ ~TooSoon(req[r].seen, req[r].at) /\ Writable(r)
           \/ row = NoRow /\ req[r].seen = NoRow
    PROVE  /\ req[r].at \in 1..MaxNow
           /\ req[r].at <= now /\ now <= req[r].at + MaxStall
           /\ req[r].seen # NoRow => lock \in {Free, r} /\ req[r].seen = row /\ row # NoRow
           /\ row # NoRow => req[r].at >= row.resend
           /\ row = NoRow /\ Latest > 0 => req[r].at > issued[Latest] + TTL + KeepExpired - MaxStall
           /\ Latest > 0 => issued[Latest] \in 1..MaxNow /\ req[r].at >= issued[Latest]
<1>1. req[r].kind = "send" /\ req[r].pc = "writing" /\ Fits(req[r])
  BY DEF Writing, Inv, ReqInv
<1>2. /\ req[r].at \in 1..MaxNow /\ req[r].at \in Int /\ req[r].at <= now /\ now <= req[r].at + MaxStall
      /\ now \in Int /\ MaxStall \in Nat /\ TTL \in Nat /\ KeepExpired \in Nat /\ ResendInterval \in Nat
      /\ MaxStall <= KeepExpired
  <2>1. req[r].at \in 0..MaxNow /\ now \in 1..MaxNow /\ MaxNow \in Nat
    BY BoundsAssumption DEF Inv, TypeOK, ReqType
  <2>2. req[r].at # 0
    BY <1>1 DEF Fits
  <2>3. req[r].at <= now /\ now <= req[r].at + MaxStall
    BY <1>1, <2>2 DEF Fits
  <2> QED
    BY <2>1, <2>2, <2>3, ConfigAssumption, DayAssumption
<1>3. req[r].seen # NoRow => lock \in {Free, r} /\ req[r].seen = row /\ row # NoRow
  BY <1>1, SeenFacts
<1>4. row # NoRow => req[r].at >= row.resend
  <2>1. ASSUME row # NoRow PROVE req[r].at >= row.resend
    <3>1. row = req[r].seen /\ ~TooSoon(row, req[r].at)
      BY <1>3, <2>1
    <3>2. row.resend \in Int
      BY BoundsAssumption, ConfigAssumption DEF Inv, TypeOK, RowType, Time
    <3> QED
      BY <1>2, <3>1, <3>2 DEF TooSoon
  <2> QED
    BY <2>1
<1>5. Latest > 0 => issued[Latest] \in 1..MaxNow
  <2>1. issued \in Seq(1..MaxNow) /\ Latest = Len(issued) /\ Latest \in Nat
    BY DEF Inv, TypeOK, Latest
  <2>2. Latest > 0 => Latest \in 1..Len(issued)
    BY <2>1
  <2> QED
    BY <2>1, <2>2, ElementOfSeq
<1>6. row = NoRow /\ Latest > 0 => req[r].at > issued[Latest] + TTL + KeepExpired - MaxStall
  <2>1. row = NoRow /\ Latest > 0 => now > issued[Latest] + TTL + KeepExpired
    BY DEF Inv, IssueInv
  <2> QED
    BY <1>2, <1>5, <2>1
<1>7. Latest > 0 => req[r].at >= issued[Latest]
  <2>1. CASE row = NoRow
    BY <1>2, <1>5, <1>6, <2>1
  <2>2. CASE row # NoRow
    <3>1. row.resend = issued[Latest] + ResendInterval
      BY <2>2 DEF Inv, IssueInv
    <3> QED
      BY <1>2, <1>4, <1>5, <2>2, <3>1
  <2> QED
    BY <2>1, <2>2
<1> QED
  BY <1>2, <1>3, <1>4, <1>5, <1>6, <1>7

(* The renewed row is a row that holds the next code. *)
LEMMA RenewedFacts ==
    ASSUME NEW s \in RowType, NEW t \in 1..MaxNow, NEW code \in Codes,
           s = NoRow \/ ~TooSoon(s, t)
    PROVE  LET w == Renewed(s, t, code) IN
           /\ w \in RowType /\ w # NoRow
           /\ w.code = code /\ w.attempts = MaxAttempts /\ w.sent = FALSE
           /\ w.expires = t + TTL /\ w.resend = t + ResendInterval
           /\ w.window = (IF s.window = 0 \/ t >= s.window + Hour THEN t ELSE s.window)
           /\ w.count = (IF s.window = 0 \/ t >= s.window + Hour THEN 1 ELSE s.count + 1)
<1> DEFINE w == Renewed(s, t, code)
<1>1. /\ w.code = code /\ w.attempts = MaxAttempts /\ w.sent = FALSE
      /\ w.expires = t + TTL /\ w.resend = t + ResendInterval
      /\ w.window = (IF s.window = 0 \/ t >= s.window + Hour THEN t ELSE s.window)
      /\ w.count = (IF s.window = 0 \/ t >= s.window + Hour THEN 1 ELSE s.count + 1)
  BY DEF Renewed
<1>2. /\ MaxNow \in Nat /\ TTL \in Nat \ {0} /\ ResendInterval \in Nat /\ Hour \in Nat
      /\ MaxAttempts \in Nat /\ HourlySendLimit \in Nat \ {0}
  BY ConfigAssumption, BoundsAssumption
<1>3. s.window \in Time /\ s.count \in 0..HourlySendLimit
  BY DEF RowType
<1>4. t \in Time /\ t + TTL \in Time /\ t + ResendInterval \in Time
  BY <1>2 DEF Time
<1>5. w.count \in 0..HourlySendLimit
  <2>1. CASE s.window = 0 \/ t >= s.window + Hour
    BY <1>1, <1>2, <2>1
  <2>2. CASE ~(s.window = 0 \/ t >= s.window + Hour)
    <3>1. ~TooSoon(s, t) /\ t < s.window + Hour
      BY <1>2, <1>3, <2>2 DEF NoRow, Time
    <3>2. s.count < HourlySendLimit
      BY <1>2, <1>3, <3>1 DEF TooSoon
    <3> QED
      BY <1>1, <1>2, <1>3, <2>2, <3>2
  <2> QED
    BY <2>1, <2>2
<1>6. w.window \in Time
  BY <1>1, <1>3, <1>4
<1>7. w \in RowType
  <2>1. w = [code |-> w.code, attempts |-> w.attempts, expires |-> w.expires, resend |-> w.resend,
             window |-> w.window, count |-> w.count, sent |-> w.sent]
    BY DEF Renewed
  <2>2. /\ w.code \in Codes \cup {NoCode} /\ w.attempts \in 0..MaxAttempts /\ w.expires \in Time
        /\ w.resend \in Time /\ w.window \in Time /\ w.count \in 0..HourlySendLimit
    BY <1>1, <1>2, <1>4, <1>5, <1>6
  <2>3. w.sent \in BOOLEAN
    BY <1>1
  <2> HIDE DEF w
  <2> QED
    BY <2>1, <2>2, <2>3 DEF RowType
<1>8. w # NoRow
  <2>1. w.expires # 0
    BY <1>1, <1>2
  <2> QED
    BY <2>1, NoRowFacts
<1> QED
  BY <1>1, <1>7, <1>8

(* prepareVerificationCode commits a new code. *)
LEMMA IssueKeeps ==
    ASSUME Inv, NEW r \in Requests, PrepareSaves(r) \/ PrepareCreates(r)
    PROVE  Inv'
<1>1. /\ Writing(r, "send") /\ Issue(r)
      /\ \/ req[r].seen # NoRow /\ ~TooSoon(req[r].seen, req[r].at) /\ Writable(r)
         \/ row = NoRow /\ req[r].seen = NoRow
      /\ UNCHANGED <<now, engine, account, faults, delivered, spent>>
      /\ RowLocks' = RowLocks
  BY DEF PrepareSaves, PrepareCreates, Issue, RowLocks
<1>2. PICK t \in 1..MaxNow : t = req[r].at
  BY <1>1, IssueInstant
<1>3. /\ t <= now /\ now <= t + MaxStall
      /\ req[r].seen # NoRow => lock \in {Free, r} /\ req[r].seen = row /\ row # NoRow
      /\ row # NoRow => t >= row.resend
      /\ row = NoRow /\ Latest > 0 => t > issued[Latest] + TTL + KeepExpired - MaxStall
      /\ Latest > 0 => issued[Latest] \in 1..MaxNow /\ t >= issued[Latest]
  BY <1>1, <1>2, IssueInstant
<1>4. PICK n : n = Latest
  OBVIOUS
<1>5. /\ n \in Nat /\ n + 1 \in Codes /\ MaxIssues \in Nat /\ MaxNow \in Nat
      /\ Cardinality(InFlightSends) \in Nat /\ Cardinality(InFlightSends) > 0
      /\ n + Cardinality(InFlightSends) <= MaxIssues
  <2>1. r \in InFlightSends
    BY <1>1 DEF Writing, InFlightSends
  <2>2. InFlightSends \in SUBSET Requests
    BY DEF InFlightSends
  <2>3. Cardinality(InFlightSends) \in Nat /\ Cardinality(InFlightSends) # 0
    BY <2>1, <2>2, BoundsAssumption, FS_Subset, FS_CardinalityType, FS_EmptySet
  <2>4. n \in Nat /\ n + Cardinality(InFlightSends) <= MaxIssues /\ MaxIssues \in Nat /\ MaxNow \in Nat
    BY <1>4, BoundsAssumption DEF Inv, TypeOK, BudgetInv, Latest
  <2> QED
    BY <2>3, <2>4 DEF Codes
<1>6. PICK s \in RowType : s = req[r].seen
  BY DEF Inv, TypeOK, ReqType
<1>7. s = NoRow \/ ~TooSoon(s, t)
  BY <1>1, <1>2, <1>6 DEF PrepareSaves, PrepareCreates
<1>8. PICK w : w = Renewed(s, t, n + 1)
  OBVIOUS
<1>9. /\ w \in RowType /\ w # NoRow
      /\ w.code = n + 1 /\ w.attempts = MaxAttempts /\ w.sent = FALSE
      /\ w.expires = t + TTL /\ w.resend = t + ResendInterval
  BY <1>5, <1>7, <1>8, RenewedFacts
<1>10. PICK y : y = [Idle EXCEPT !.kind = "send", !.pc = "delivering", !.code = n + 1]
  OBVIOUS
<1>11. y \in ReqType /\ y.kind = "send" /\ y.pc = "delivering" /\ y.code = n + 1 /\ y.at = 0
       /\ y.reply = "none"
  <2>1. Idle \in ReqType /\ Idle.at = 0 /\ Idle.reply = "none" /\ n + 1 \in Guesses
    BY <1>5, IdleFacts DEF Guesses
  <2> QED
    BY <1>10, <2>1 DEF ReqType
<1>12. row' = w /\ issued' = Append(issued, t) /\ wrong' = 0 /\ req' = [req EXCEPT ![r] = y]
  BY <1>1, <1>2, <1>4, <1>6, <1>8, <1>10 DEF Issue, Set, Latest
<1>13. Latest' = n + 1 /\ issued'[n + 1] = t /\ \A i \in 1..n : issued'[i] = issued[i]
  BY <1>4, <1>12 DEF Latest, Inv, TypeOK
<1>14. /\ req' \in [Requests -> ReqType] /\ req'[r] = y
       /\ \A q \in Requests \ {r} : req'[q] = req[q]
  BY <1>11, <1>12 DEF Inv, TypeOK
<1>15. lock \in {Free, r} /\ lock' = Free
  BY <1>1, <1>3, ConfigAssumption DEF PrepareSaves, PrepareCreates, Unlock, Inv, LockInv
<1>16. TypeOK'
  <2>1. issued' \in Seq(1..MaxNow) /\ Len(issued') <= MaxIssues
    BY <1>5, <1>12, <1>13 DEF Inv, TypeOK, Latest
  <2> QED
    BY <1>1, <1>9, <1>12, <1>14, <1>15, <2>1 DEF Inv, TypeOK
<1>17. LockInv'
  BY <1>1, <1>11, <1>14, <1>15, ConfigAssumption DEF Inv, LockInv
<1>18. BudgetInv'
  <2>1. r \in InFlightSends /\ y.pc \notin {"locking", "writing"} /\ TypeOK
    BY <1>1, <1>11 DEF Writing, InFlightSends, Inv
  <2>2. Cardinality(InFlightSends') = Cardinality(InFlightSends) - 1
    BY <1>12, <2>1, InFlightCounts
  <2> QED
    BY <1>5, <1>13, <2>2 DEF BudgetInv
<1>19. ReqInv'
  <2>1. ASSUME NEW q \in Requests \ {r} PROVE Fits(req[q])'
    <3>1. Fits(req[q]) /\ req'[q] = req[q] /\ req[q].code \in Int
      BY <1>14, BoundsAssumption DEF Inv, ReqInv, TypeOK, ReqType, Guesses, Codes, NoCode
    <3> QED
      BY <1>1, <1>4, <1>5, <1>13, <3>1 DEF Fits
  <2>2. Fits(y)'
    BY <1>5, <1>9, <1>11, <1>12, <1>13 DEF Fits, Mailing
  <2> QED
    BY <1>14, <2>1, <2>2 DEF ReqInv, Fits
<1>20. UniqueInv'
  <2>1. \A q \in Requests : req[q].pc \in Mailing => req[q].code # n + 1
    BY <1>4, <1>5 DEF Inv, ReqInv, Fits
  <2> QED
    BY <1>11, <1>14, <2>1 DEF Inv, UniqueInv
<1>21. CodeInv'
  <2>1. MaxAttempts \in Nat /\ faults' \in Nat
    BY <1>16, ConfigAssumption, BoundsAssumption DEF TypeOK
  <2> QED
    BY <1>1, <1>4, <1>5, <1>9, <1>12, <1>13, <2>1 DEF Inv, CodeInv
<1>22. IssueInv'
  <2>1. \A i, j \in 1..n : i <= j => issued[i] <= issued[j]
    BY <1>4 DEF Inv, IssueInv
  <2>2. \A i \in 1..n : issued[i] <= t
    <3>1. ASSUME NEW i \in 1..n PROVE issued[i] <= t
      <4>1. n \in 1..n /\ Latest > 0
        BY <1>4, <1>5
      <4>2. issued[i] <= issued[n] /\ issued[n] <= t /\ issued[n] \in 1..MaxNow
        BY <1>3, <1>4, <1>5, <2>1, <4>1
      <4>3. issued \in Seq(1..MaxNow) /\ i \in 1..Len(issued)
        BY <1>4 DEF Inv, TypeOK, Latest
      <4>4. issued[i] \in 1..MaxNow
        BY <4>3, ElementOfSeq
      <4> QED
        BY <4>2, <4>4
    <3> QED
      BY <3>1
  <2>3. \A i, j \in 1..(n + 1) : i <= j => issued'[i] <= issued'[j]
    <3>1. ASSUME NEW i \in 1..(n + 1), NEW j \in 1..(n + 1), i <= j PROVE issued'[i] <= issued'[j]
      <4>1. CASE j \in 1..n
        <5>1. i \in 1..n
          BY <1>5, <3>1, <4>1
        <5> QED
          BY <1>13, <2>1, <3>1, <4>1, <5>1
      <4>2. CASE j = n + 1
        <5>1. i = n + 1 \/ i \in 1..n
          BY <1>5
        <5> QED
          BY <1>13, <2>2, <4>2, <5>1
      <4> QED
        BY <1>5, <4>1, <4>2
    <3> QED
      BY <3>1
  <2>4. /\ row' # NoRow /\ Latest' > 0
        /\ row'.expires = issued'[Latest'] + TTL /\ row'.resend = issued'[Latest'] + ResendInterval
    BY <1>5, <1>9, <1>12, <1>13
  <2>5. \A i, j \in 1..Latest' : i <= j => issued'[i] <= issued'[j]
    BY <1>13, <2>3
  <2> QED
    BY <2>4, <2>5 DEF IssueInv
<1> QED
  BY <1>16, <1>17, <1>18, <1>19, <1>20, <1>21, <1>22 DEF Inv

-----------------------------------------------------------------------------
(* The purge and the clock, and the invariant. *)

(* A purged row has been expired for KeepExpired. *)
LEMMA PurgeExpiredKeeps == ASSUME Inv, PurgeExpired PROVE Inv'
<1>1. /\ row # NoRow /\ lock = Free /\ row.expires < now - KeepExpired /\ row' = NoRow
      /\ UNCHANGED <<now, engine, lock, req, account, issued, delivered, spent, wrong, faults>>
      /\ Latest' = Latest /\ RowLocks' = RowLocks
  BY DEF PurgeExpired, history, Latest, RowLocks
<1>2. TypeOK'
  BY <1>1, NoRowFacts DEF Inv, TypeOK
<1>3. LockInv' /\ BudgetInv' /\ UniqueInv'
  BY <1>1 DEF Inv, LockInv, BudgetInv, UniqueInv, InFlightSends
<1>4. ReqInv'
  <2>1. ASSUME NEW q \in Requests PROVE Fits(req[q])'
    <3>1. Fits(req[q])
      BY DEF Inv, ReqInv
    <3> QED
      BY <1>1, <3>1 DEF Fits
  <2> QED
    BY <2>1 DEF ReqInv
<1>5. CodeInv'
  <2>1. /\ wrong \in Nat /\ row.attempts \in Nat /\ faults \in Nat /\ MaxAttempts \in Nat
        /\ RowLocks => wrong + row.attempts <= MaxAttempts + faults
    BY ConfigAssumption, BoundsAssumption DEF Inv, TypeOK, RowType, CodeInv
  <2>2. RowLocks => wrong <= MaxAttempts + faults
    BY <2>1
  <2> QED
    BY <1>1, <2>1, <2>2, NoRowFacts DEF Inv, CodeInv
<1>6. IssueInv'
  <2>1. Latest > 0 /\ row.expires = issued[Latest] + TTL
    BY <1>1 DEF Inv, IssueInv
  <2>2. issued \in Seq(1..MaxNow) /\ Latest \in 1..Len(issued)
    BY <2>1 DEF Inv, TypeOK, Latest
  <2>3. issued[Latest] \in 1..MaxNow
    BY <2>2, ElementOfSeq
  <2>4. now \in Int /\ KeepExpired \in Nat /\ TTL \in Nat /\ MaxNow \in Nat
    BY ConfigAssumption, DayAssumption, BoundsAssumption DEF Inv, TypeOK
  <2>5. now > issued[Latest] + TTL + KeepExpired
    BY <1>1, <2>1, <2>3, <2>4
  <2> QED
    BY <1>1, <2>5 DEF Inv, IssueInv
<1> QED
  BY <1>2, <1>3, <1>4, <1>5, <1>6 DEF Inv

(* Time waits for a transaction that waits for its lock. *)
LEMMA TickKeeps == ASSUME Inv, Tick PROVE Inv'
<1>1. /\ now < Horizon[engine] /\ now' = now + 1
      /\ \A r \in Requests : req[r].at # 0 => now - req[r].at < MaxStall
      /\ UNCHANGED <<engine, row, lock, req, account, issued, delivered, spent, wrong, faults>>
      /\ Latest' = Latest /\ RowLocks' = RowLocks
  BY DEF Tick, history, Latest, RowLocks
<1>1a. Horizon[engine] \in 0..MaxNow
  BY BoundsAssumption DEF Inv, TypeOK
<1>2. now \in 1..MaxNow /\ MaxNow \in Nat /\ MaxStall \in Nat /\ KeepExpired \in Nat /\ TTL \in Nat
  BY ConfigAssumption, DayAssumption, BoundsAssumption DEF Inv, TypeOK
<1>3. TypeOK'
  <2>1. now' \in 1..MaxNow
    BY <1>1, <1>1a, <1>2
  <2> QED
    BY <1>1, <2>1 DEF Inv, TypeOK
<1>4. LockInv' /\ BudgetInv' /\ UniqueInv'
  BY <1>1 DEF Inv, LockInv, BudgetInv, UniqueInv, InFlightSends
<1>5. ReqInv'
  <2>1. ASSUME NEW q \in Requests PROVE Fits(req[q])'
    <3>1. Fits(req[q]) /\ req[q].at \in 0..MaxNow
      BY DEF Inv, ReqInv, TypeOK, ReqType
    <3>2. req[q].at # 0 => req[q].at <= now' /\ now' <= req[q].at + MaxStall
      BY <1>1, <1>2, <3>1 DEF Fits
    <3> QED
      BY <1>1, <3>1, <3>2 DEF Fits
  <2> QED
    BY <2>1 DEF ReqInv
<1>6. CodeInv'
  BY <1>1 DEF Inv, CodeInv
<1>7. IssueInv'
  <2>1. ASSUME Latest > 0 PROVE issued[Latest] \in 1..MaxNow
    <3>1. issued \in Seq(1..MaxNow) /\ Latest \in 1..Len(issued)
      BY <2>1 DEF Inv, TypeOK, Latest
    <3> QED
      BY <3>1, ElementOfSeq
  <2>2. row = NoRow /\ Latest > 0 => now' > issued[Latest] + TTL + KeepExpired
    BY <1>1, <1>2, <2>1 DEF Inv, IssueInv
  <2> QED
    BY <1>1, <2>2 DEF Inv, IssueInv
<1> QED
  BY <1>3, <1>4, <1>5, <1>6, <1>7 DEF Inv

(* At the start there is no row and no request. *)
LEMMA InvInit == Init => Inv
<1> SUFFICES ASSUME Init PROVE Inv
  OBVIOUS
<1>1. /\ now = 1 /\ engine \in Engines /\ row = NoRow /\ lock = Free /\ account = FALSE /\ issued = <<>>
      /\ delivered = {} /\ spent = {} /\ wrong = 0 /\ faults = 0
      /\ req \in [Requests -> ReqType] /\ \A r \in Requests : req[r] = Idle
  BY IdleFacts DEF Init
<1>2. /\ Latest = 0 /\ issued \in Seq(1..MaxNow) /\ MaxNow \in Nat \ {0} /\ MaxIssues \in Nat
      /\ MaxFaults \in Nat /\ MaxAttempts \in Nat
  <2>1. issued \in Seq(1..MaxNow) /\ Len(issued) = 0
    BY <1>1, EmptySeq
  <2> QED
    BY <2>1, ConfigAssumption, BoundsAssumption DEF Latest
<1>2a. 1 \in 1..MaxNow /\ 0 \in 0..MaxFaults
  BY <1>2
<1>3. TypeOK
  <2>1. /\ now \in 1..MaxNow /\ row \in RowType /\ lock \in Requests \cup {Free}
        /\ account \in BOOLEAN /\ delivered \subseteq Codes /\ spent \subseteq Codes
        /\ wrong \in Nat /\ faults \in 0..MaxFaults
    BY <1>1, <1>2a, NoRowFacts
  <2>2. issued \in Seq(1..MaxNow) /\ Len(issued) <= MaxIssues
    BY <1>2 DEF Latest
  <2> QED
    BY <1>1, <2>1, <2>2 DEF TypeOK
<1>4. LockInv
  BY <1>1, IdleFacts DEF LockInv
<1>5. BudgetInv
  <2>1. InFlightSends = {}
    BY <1>1, IdleFacts DEF InFlightSends
  <2> QED
    BY <1>2, <2>1, FS_EmptySet DEF BudgetInv
<1>6. ReqInv /\ UniqueInv
  BY <1>1, IdleFacts DEF ReqInv, Fits, UniqueInv, Mailing
<1>7. CodeInv /\ IssueInv
  BY <1>1, <1>2, NoRowFacts DEF CodeInv, IssueInv
<1> QED
  BY <1>3, <1>4, <1>5, <1>6, <1>7 DEF Inv

(* Every step keeps the invariant. *)
LEMMA InvStep == Inv /\ [Next]_vars => Inv'
<1> SUFFICES ASSUME Inv, [Next]_vars PROVE Inv'
  OBVIOUS
<1>1. ASSUME NEW r \in Requests,
             \/ Send(r)
             \/ \E kind \in Submissions, guess \in Guesses : Submit(r, kind, guess)
             \/ LockRow(r) \/ Abort(r) \/ Conflict(r) \/ Prepare(r)
      PROVE  Inv'
  BY <1>1, SendKeeps, SubmitKeeps, LockRowKeeps, AbortKeeps, ConflictKeeps, PrepareRefusedKeeps, IssueKeeps,
     PrepareDuplicateKeeps
     DEF Prepare
<1>2. ASSUME NEW r \in Requests,
             \/ \E arrives, reported \in BOOLEAN : Deliver(r, arrives, reported)
             \/ MarkSent(r) \/ ClearHash(r) \/ LoseReply(r) \/ Answer(r) \/ EndRequest(r)
      PROVE  Inv'
  BY <1>2, DeliverKeeps, MarkSentKeeps, ClearHashKeeps, LoseReplyKeeps, CodeUnusableKeeps,
     CodeWrongKeeps, CheckPassesKeeps, RegisterKeeps, EndRequestKeeps
     DEF Answer
<1>3. CASE PurgeExpired \/ Tick
  BY <1>3, PurgeExpiredKeeps, TickKeeps
<1>4. CASE UNCHANGED vars
  <2>1. /\ UNCHANGED <<now, engine, row, lock, req, account, issued, delivered, spent, wrong, faults>>
        /\ Latest' = Latest /\ InFlightSends' = InFlightSends /\ RowLocks' = RowLocks
    BY <1>4 DEF vars, Latest, InFlightSends, RowLocks
  <2>2. ReqInv'
    BY <2>1 DEF Inv, ReqInv, Fits
  <2> QED
    BY <2>1, <2>2 DEF Inv, TypeOK, LockInv, BudgetInv, UniqueInv, CodeInv, IssueInv
<1> QED
  BY <1>1, <1>2, <1>3, <1>4 DEF Next

(* The invariant holds of every reachable state. *)
THEOREM Invariance == Spec => []Inv
<1> QED
  BY InvInit, InvStep, PTL DEF Spec

(* Every variable stays in its domain. *)
THEOREM TypeCorrect == Spec => []TypeOK
<1>1. Inv => TypeOK
  BY DEF Inv
<1> QED
  BY <1>1, Invariance, PTL

(* Where rows are locked, no code is compared with more than MaxAttempts     *)
(* wrong guesses, and one more for each database error, however many requests *)
(* submit at once: each compares under the lock and takes an attempt away,   *)
(* unless its transaction fails. *)
THEOREM GuessesAreFew == Spec => []GuessesAreBounded
<1>1. Inv => GuessesAreBounded
  <2> SUFFICES ASSUME Inv, RowLocks PROVE wrong <= MaxAttempts + faults
    BY DEF GuessesAreBounded
  <2>1. /\ wrong \in Nat /\ row.attempts \in Nat /\ faults \in Nat /\ MaxAttempts \in Nat
        /\ wrong + row.attempts <= MaxAttempts + faults
    BY ConfigAssumption, BoundsAssumption DEF Inv, TypeOK, RowType, CodeInv
  <2> QED
    BY <2>1
<1> QED
  BY <1>1, Invariance, PTL

(* A sender hears of a newer code only if there is one, or its row is gone.  *)
THEOREM SupersededMeansNewer == Spec => []SupersededIsSuperseded
<1>1. Inv => SupersededIsSuperseded
  BY DEF Inv, ReqInv, Fits, SupersededIsSuperseded, Latest
<1> QED
  BY <1>1, Invariance, PTL

(* Only a check and a registration that find a matching code accept it.      *)
LEMMA AcceptingSteps ==
    ASSUME TypeOK, [Next]_vars, NEW r \in Requests, Accepts(r)
    PROVE  CheckPasses(r) \/ RegisterPasses(r)
<1>1. req[r] \in ReqType /\ req[r].reply = "none" /\ req'[r].reply \in {"valid", "registered"}
  BY DEF Accepts, TypeOK
<1>2. ASSUME NEW q \in Requests, NEW x, Set(q, x)
      PROVE  q = r /\ x.reply \in {"valid", "registered"}
  BY <1>1, <1>2 DEF Set, TypeOK
<1>3. ASSUME NEW q \in Requests, NEW answer, Reply(q, answer)
      PROVE  q = r /\ answer \in {"valid", "registered"}
  <2>1. PICK x : x = [Idle EXCEPT !.pc = "replied", !.reply = answer,
                        !.code = IF req[q].kind = "send" THEN req[q].code ELSE NoCode]
    OBVIOUS
  <2>2. x.reply = answer
    BY <2>1 DEF Idle
  <2>3. Set(q, x)
    BY <1>3, <2>1 DEF Reply
  <2> QED
    BY <1>2, <2>2, <2>3
<1>4. ASSUME NEW q \in Requests,
             \/ Abort(q) \/ Conflict(q)
             \/ PrepareRefused(q) \/ LoseReply(q) \/ CodeUnusable(q) \/ CodeWrong(q)
             \/ RegisterDuplicate(q) \/ ClearHash(q) \/ MarkSent(q)
      PROVE  FALSE
  <2>1. \/ Reply(q, "internal") \/ Reply(q, "invalid") \/ Reply(q, "undelivered")
        \/ Reply(q, "sent") \/ Reply(q, "superseded")
    BY <1>4 DEF Abort, Conflict, RollBack, PrepareRefused, LoseReply, CodeUnusable, CodeWrong,
                RegisterDuplicate, ClearHash, MarkSent
  <2> QED
    BY <1>3, <2>1
<1>5. ASSUME NEW q \in Requests,
             \/ Send(q) \/ LockRow(q) \/ EndRequest(q) \/ PrepareSaves(q) \/ PrepareCreates(q)
             \/ PrepareDuplicate(q)
             \/ \E kind \in Submissions, guess \in Guesses : Submit(q, kind, guess)
             \/ \E arrives, reported \in BOOLEAN : Deliver(q, arrives, reported)
      PROVE  FALSE
  <2>1. PICK z \in ReqType : z = req[q]
    BY DEF TypeOK
  <2>2. \E x : Set(q, x) /\ (x.reply = "none" \/ x.reply = z.reply)
    <3>1. CASE Send(q)
      <4>1. PICK x : x = [Idle EXCEPT !.kind = "send", !.pc = "locking", !.at = now]
        OBVIOUS
      <4>2. x.reply = "none"
        BY <4>1 DEF Idle
      <4> QED
        BY <3>1, <4>1, <4>2 DEF Send
    <3>2. CASE \E kind \in Submissions, guess \in Guesses : Submit(q, kind, guess)
      <4>1. PICK kind \in Submissions, guess \in Guesses : Submit(q, kind, guess)
        BY <3>2
      <4>2. PICK x : x = [Idle EXCEPT !.kind = kind, !.pc = "locking", !.code = guess,
                            !.at = IF kind = "register" THEN now ELSE 0]
        OBVIOUS
      <4>3. x.reply = "none"
        BY <4>2 DEF Idle
      <4> QED
        BY <4>1, <4>2, <4>3 DEF Submit
    <3>3. CASE LockRow(q)
      <4>1. PICK x : x = [z EXCEPT !.pc = "writing", !.seen = row]
        OBVIOUS
      <4>2. x.reply = z.reply
        BY <4>1 DEF ReqType
      <4> QED
        BY <2>1, <3>3, <4>1, <4>2 DEF LockRow
    <3>4. CASE EndRequest(q)
      BY <3>4 DEF EndRequest, Idle
    <3>5. CASE PrepareSaves(q) \/ PrepareCreates(q)
      <4>1. PICK x : x = [Idle EXCEPT !.kind = "send", !.pc = "delivering", !.code = Len(issued) + 1]
        OBVIOUS
      <4>2. x.reply = "none"
        BY <4>1 DEF Idle
      <4> QED
        BY <3>5, <4>1, <4>2 DEF PrepareSaves, PrepareCreates, Issue
    <3>6. CASE PrepareDuplicate(q)
      <4>1. PICK x : x = [Idle EXCEPT !.kind = "send", !.pc = "locking", !.at = now, !.again = TRUE]
        OBVIOUS
      <4>2. x.reply = "none"
        BY <4>1 DEF Idle
      <4>3. ~Reply(q, "internal")
        BY <1>3
      <4> QED
        BY <3>6, <4>1, <4>2, <4>3 DEF PrepareDuplicate
    <3>7. CASE \E arrives, reported \in BOOLEAN : Deliver(q, arrives, reported)
      <4>1. PICK reported \in BOOLEAN : Set(q, [req[q] EXCEPT !.pc = IF reported THEN "marking" ELSE "clearing"])
        BY <3>7 DEF Deliver
      <4>2. PICK x : x = [z EXCEPT !.pc = IF reported THEN "marking" ELSE "clearing"]
        OBVIOUS
      <4>3. x.reply = z.reply
        BY <4>2 DEF ReqType
      <4> QED
        BY <2>1, <4>1, <4>2, <4>3
    <3> QED
      BY <1>5, <3>1, <3>2, <3>3, <3>4, <3>5, <3>6, <3>7
  <2> QED
    BY <1>1, <1>2, <2>1, <2>2
<1>6. ~(PurgeExpired \/ Tick \/ UNCHANGED vars)
  BY <1>1 DEF PurgeExpired, Tick, vars
<1>7. ASSUME NEW q \in Requests, CheckPasses(q) \/ RegisterPasses(q) PROVE q = r
  BY <1>3, <1>7 DEF CheckPasses, RegisterPasses
<1> QED
  BY <1>4, <1>5, <1>6, <1>7 DEF Next, Prepare, Answer

(* What is accepted is the latest code; it has reached the recipient and no  *)
(* registration has spent it.  So it is on each engine, for a registration;  *)
(* for a check, where rows are locked. *)
THEOREM AcceptedMeansLive == Spec => AcceptedCodeIsLive
<1>1. ASSUME Inv, [Next]_vars, NEW r \in Requests, Accepts(r), RowLocks \/ req[r].kind = "register"
      PROVE  req[r].code = Len(issued) /\ req[r].code \in delivered \ spent
  <2>1. CheckPasses(r) \/ RegisterPasses(r)
    BY <1>1, AcceptingSteps DEF Inv
  <2>2. Submitted(r) /\ Usable(req[r].seen, Clock(r)) /\ req[r].seen.code = req[r].code
    BY <2>1 DEF CheckPasses, RegisterPasses, CodeMatches
  <2>3. Writable(r)
    BY <1>1, <2>1 DEF CheckPasses, RegisterPasses, Writable
  <2> QED
    BY <1>1, <2>2, <2>3, UsableFacts DEF Latest
<1>2. Inv /\ [Next]_vars => [\A r \in Requests : Accepts(r) /\ (RowLocks \/ req[r].kind = "register") =>
        /\ req[r].code = Len(issued)
        /\ req[r].code \in delivered \ spent]_vars
  BY <1>1
<1> QED
  BY <1>2, Invariance, PTL DEF Spec, AcceptedCodeIsLive

-----------------------------------------------------------------------------
(* The distances between issues. *)

(* What a step does to the row: it is purged, a code is issued, or it keeps  *)
(* its window and its expiry. *)
LEMMA RowSteps ==
    ASSUME Inv, [Next]_vars
    PROVE  \/ PurgeExpired
           \/ \E r \in Requests : PrepareSaves(r) \/ PrepareCreates(r)
           \/ /\ issued' = issued /\ (row' = NoRow <=> row = NoRow)
              /\ row # NoRow =>
                   row'.expires = row.expires /\ row'.window = row.window /\ row'.count = row.count
<1>1. PICK s \in RowType : s = row
  BY DEF Inv, TypeOK
<1>2. row # NoRow => s.expires # 0
  <2>1. ASSUME row # NoRow PROVE s.expires # 0
    <3>1. Latest > 0 /\ row.expires = issued[Latest] + TTL
      BY <2>1 DEF Inv, IssueInv
    <3>2. issued \in Seq(1..MaxNow) /\ Latest \in 1..Len(issued)
      BY <3>1 DEF Inv, TypeOK, Latest
    <3>3. issued[Latest] \in 1..MaxNow /\ TTL \in Nat /\ MaxNow \in Nat
      BY <3>2, ElementOfSeq, ConfigAssumption, BoundsAssumption
    <3> QED
      BY <1>1, <3>1, <3>3
  <2> QED
    BY <2>1
<1> DEFINE Kept == /\ issued' = issued /\ (row' = NoRow <=> row = NoRow)
                   /\ row # NoRow => /\ row'.expires = row.expires /\ row'.window = row.window
                                     /\ row'.count = row.count
<1>3. ASSUME issued' = issued,
             \/ row' = row
             \/ row # NoRow /\ (\E c, b : row' = [s EXCEPT !.code = c, !.sent = b])
             \/ row # NoRow /\ (\E c : row' = [s EXCEPT !.code = c])
             \/ row # NoRow /\ (\E b : row' = [s EXCEPT !.sent = b])
             \/ row # NoRow /\ (\E a : row' = [s EXCEPT !.attempts = a])
      PROVE  Kept
  <2>1. \/ row' = row
        \/ row # NoRow /\ row'.expires = s.expires /\ row'.window = s.window /\ row'.count = s.count
    BY <1>3 DEF RowType
  <2>2. row # NoRow => row' # NoRow
    BY <1>1, <1>2, <2>1, NoRowFacts
  <2> QED
    BY <1>1, <1>3, <2>1, <2>2
<1>4. ASSUME NEW r \in Requests,
             \/ Send(r) \/ LockRow(r) \/ Abort(r) \/ Conflict(r)
             \/ PrepareRefused(r) \/ PrepareDuplicate(r)
             \/ \E kind \in Submissions, guess \in Guesses : Submit(r, kind, guess)
             \/ \E arrives, reported \in BOOLEAN : Deliver(r, arrives, reported)
             \/ LoseReply(r) \/ CodeUnusable(r) \/ CheckPasses(r) \/ EndRequest(r)
      PROVE  Kept
  <2>1. issued' = issued /\ row' = row
    BY <1>4 DEF Send, LockRow, Abort, Conflict, RollBack, PrepareRefused, PrepareDuplicate, Submit,
                Deliver, LoseReply, CodeUnusable, CheckPasses, EndRequest, history
  <2> QED
    BY <2>1
<1>5. ASSUME NEW r \in Requests, MarkSent(r) PROVE Kept
  <2>1. CASE StillPending(r)
    BY <1>1, <1>3, <1>5, <2>1, PendingFacts DEF MarkSent, history, Mailing
  <2>2. CASE ~StillPending(r)
    BY <1>5, <2>2 DEF MarkSent, history
  <2> QED
    BY <2>1, <2>2
<1>6. ASSUME NEW r \in Requests, ClearHash(r) PROVE Kept
  <2>1. CASE StillPending(r)
    BY <1>1, <1>3, <1>6, <2>1, PendingFacts DEF ClearHash, history, Mailing
  <2>2. CASE ~StillPending(r)
    BY <1>6, <2>2 DEF ClearHash, history
  <2> QED
    BY <2>1, <2>2
<1>7. ASSUME NEW r \in Requests, CodeWrong(r) PROVE Kept
  BY <1>1, <1>3, <1>7 DEF CodeWrong
<1>8. ASSUME NEW r \in Requests, RegisterPasses(r) \/ RegisterDuplicate(r) PROVE Kept
  BY <1>1, <1>3, <1>8 DEF RegisterPasses, RegisterDuplicate, Consume, history
<1>9. ASSUME Tick \/ UNCHANGED vars PROVE Kept
  BY <1>9 DEF Tick, vars, history
<1> HIDE DEF Kept
<1>10. \/ PurgeExpired
       \/ \E r \in Requests : PrepareSaves(r) \/ PrepareCreates(r)
       \/ Kept
  BY <1>4, <1>5, <1>6, <1>7, <1>8, <1>9 DEF Next, Prepare, Answer
<1> QED
  BY <1>10 DEF Kept

(* What an issue adds to the history. *)
LEMMA IssueFacts ==
    ASSUME Inv, NEW r \in Requests, PrepareSaves(r) \/ PrepareCreates(r)
    PROVE  \E t \in 1..MaxNow :
              /\ t <= now /\ now <= t + MaxStall
              /\ Latest \in Nat /\ Latest' = Latest + 1
              /\ issued'[Latest + 1] = t /\ \A i \in 1..Latest : issued'[i] = issued[i]
              /\ \A i \in 1..Latest : issued[i] \in 1..MaxNow /\ issued[i] <= t
              /\ row = NoRow /\ Latest > 0 => t > issued[Latest] + TTL + KeepExpired - MaxStall
              /\ row # NoRow => t >= row.resend
              /\ row' # NoRow /\ row'.expires = t + TTL
              /\ row' # NoRow /\ row' \in RowType
              /\ IF row = NoRow \/ t >= row.window + Hour
                 THEN row'.window = t /\ row'.count = 1
                 ELSE \/ row.window = 0
                      \/ row'.window = row.window /\ row'.count = row.count + 1
<1>1. /\ Writing(r, "send") /\ Issue(r)
      /\ \/ req[r].seen # NoRow /\ ~TooSoon(req[r].seen, req[r].at) /\ Writable(r)
         \/ row = NoRow /\ req[r].seen = NoRow
  BY DEF PrepareSaves, PrepareCreates
<1>2. PICK t \in 1..MaxNow : t = req[r].at
  BY <1>1, IssueInstant
<1>3. /\ t <= now /\ now <= t + MaxStall
      /\ req[r].seen # NoRow => lock \in {Free, r} /\ req[r].seen = row /\ row # NoRow
      /\ row # NoRow => t >= row.resend
      /\ row = NoRow /\ Latest > 0 => t > issued[Latest] + TTL + KeepExpired - MaxStall
      /\ Latest > 0 => issued[Latest] \in 1..MaxNow /\ t >= issued[Latest]
  BY <1>1, <1>2, IssueInstant
<1>4. PICK n \in Nat : n = Latest
  BY DEF Inv, TypeOK, Latest
<1>5. n + 1 \in Codes
  <2>1. r \in InFlightSends
    BY <1>1 DEF Writing, InFlightSends
  <2>2. InFlightSends \in SUBSET Requests
    BY DEF InFlightSends
  <2>3. Cardinality(InFlightSends) \in Nat /\ Cardinality(InFlightSends) # 0
    BY <2>1, <2>2, BoundsAssumption, FS_Subset, FS_CardinalityType, FS_EmptySet
  <2> QED
    BY <1>4, <2>3, BoundsAssumption DEF Inv, BudgetInv, Codes
<1>6. req[r].seen = row /\ (row = NoRow \/ ~TooSoon(row, t)) /\ row \in RowType
  BY <1>1, <1>2, <1>3 DEF PrepareSaves, PrepareCreates, Inv, TypeOK
<1>7. /\ row' = Renewed(row, t, n + 1) /\ issued' = Append(issued, t)
  BY <1>1, <1>2, <1>4, <1>6 DEF Issue, Latest
<1>8. /\ row' \in RowType /\ row' # NoRow /\ row'.expires = t + TTL
      /\ row'.window = (IF row.window = 0 \/ t >= row.window + Hour THEN t ELSE row.window)
      /\ row'.count = (IF row.window = 0 \/ t >= row.window + Hour THEN 1 ELSE row.count + 1)
  BY <1>5, <1>6, <1>7, RenewedFacts
<1>9. NoRow.window = 0
  BY DEF NoRow
<1>10. Latest' = n + 1 /\ issued'[n + 1] = t /\ \A i \in 1..n : issued'[i] = issued[i]
  BY <1>4, <1>7 DEF Latest, Inv, TypeOK
<1>11. \A i \in 1..n : issued[i] \in 1..MaxNow /\ issued[i] <= t
  <2>1. ASSUME NEW i \in 1..n PROVE issued[i] \in 1..MaxNow /\ issued[i] <= t
    <3>1. n \in 1..n /\ Latest > 0 /\ i <= n /\ MaxNow \in Nat
      BY <1>4, BoundsAssumption
    <3>2. issued \in Seq(1..MaxNow) /\ i \in 1..Len(issued)
      BY <1>4 DEF Inv, TypeOK, Latest
    <3>3. issued[i] \in 1..MaxNow
      BY <3>2, ElementOfSeq
    <3>4. issued[i] <= issued[n]
      BY <1>4, <3>1 DEF Inv, IssueInv
    <3> QED
      BY <1>3, <1>4, <3>1, <3>3, <3>4
  <2> QED
    BY <2>1
<1> QED
  BY <1>3, <1>4, <1>8, <1>9, <1>10, <1>11

(* Two issues are a resend interval apart, provided that the interval is no  *)
(* longer than an expired row is kept: the row that goes forgets it.         *)
THEOREM IssuesAreApart ==
    ASSUME ResendInterval + MaxStall <= TTL + KeepExpired
    PROVE  Spec => []IssuesAreSpaced
<1>1. Init => IssuesAreSpaced
  <2> SUFFICES ASSUME Init PROVE IssuesAreSpaced
    OBVIOUS
  <2>1. Len(issued) = 0
    BY EmptySeq DEF Init
  <2> QED
    BY <2>1 DEF IssuesAreSpaced
<1>2. ASSUME Inv, [Next]_vars, IssuesAreSpaced PROVE IssuesAreSpaced'
  <2>1. CASE issued' = issued
    BY <1>2, <2>1 DEF IssuesAreSpaced
  <2>2. ASSUME NEW r \in Requests, PrepareSaves(r) \/ PrepareCreates(r) PROVE IssuesAreSpaced'
    <3>1. PICK t \in 1..MaxNow :
              /\ Latest \in Nat /\ Latest' = Latest + 1
              /\ issued'[Latest + 1] = t /\ \A i \in 1..Latest : issued'[i] = issued[i]
              /\ \A i \in 1..Latest : issued[i] \in 1..MaxNow /\ issued[i] <= t
              /\ row = NoRow /\ Latest > 0 => t > issued[Latest] + TTL + KeepExpired - MaxStall
              /\ row # NoRow => t >= row.resend
      BY <1>2, <2>2, IssueFacts
    <3>2. /\ ResendInterval \in Nat /\ TTL \in Nat /\ KeepExpired \in Nat /\ MaxStall \in Nat
          /\ MaxNow \in Nat
      BY ConfigAssumption, DayAssumption, BoundsAssumption
    <3>3. Latest > 0 => t - issued[Latest] >= ResendInterval
      <4>1. row # NoRow => row.resend = issued[Latest] + ResendInterval
        BY <1>2 DEF Inv, IssueInv
      <4> QED
        BY <3>1, <3>2, <4>1
    <3>4. ASSUME NEW i \in 2..Latest' PROVE issued'[i] - issued'[i - 1] >= ResendInterval
      <4>1. CASE i \in 2..Latest
        <5>1. issued[i] - issued[i - 1] >= ResendInterval /\ i \in 1..Latest /\ i - 1 \in 1..Latest
          BY <1>2, <3>1, <4>1 DEF IssuesAreSpaced, Latest
        <5> QED
          BY <3>1, <5>1
      <4>2. CASE i = Latest + 1
        <5>1. Latest > 0 /\ i - 1 = Latest /\ Latest \in 1..Latest
          BY <3>1, <4>2
        <5> QED
          BY <3>1, <3>3, <4>2, <5>1
      <4> QED
        BY <3>1, <4>1, <4>2
    <3> QED
      BY <3>4 DEF IssuesAreSpaced, Latest
  <2> QED
    BY <1>2, <2>1, <2>2, RowSteps DEF PurgeExpired, history
<1> QED
  BY <1>1, <1>2, Invariance, PTL DEF Spec

(* The window of the row begins with an issue; fewer issues than the limit   *)
(* lie less than an hour before it. *)
WindowInv ==
    row # NoRow =>
        LET first == Latest - row.count + 1 IN
        /\ row.count > 0 /\ first > 0 /\ row.window = issued[first]
        /\ \A i \in 1..Latest : 
             i < first /\ row.window - issued[i] < Hour => first - i < HourlySendLimit

(* An hour that ends with the issue at t, after a window of count issues.    *)
LEMMA WindowStep ==
    ASSUME Inv, WindowInv, HourlyLimit, NEW r \in Requests, PrepareSaves(r) \/ PrepareCreates(r)
    PROVE  WindowInv' /\ HourlyLimit'
<1>1. PICK t \in 1..MaxNow :
              /\ Latest \in Nat /\ Latest' = Latest + 1
              /\ issued'[Latest + 1] = t /\ \A i \in 1..Latest : issued'[i] = issued[i]
              /\ \A i \in 1..Latest : issued[i] \in 1..MaxNow /\ issued[i] <= t
              /\ row = NoRow /\ Latest > 0 => t > issued[Latest] + TTL + KeepExpired - MaxStall
              /\ row' # NoRow /\ row' \in RowType
              /\ IF row = NoRow \/ t >= row.window + Hour
                 THEN row'.window = t /\ row'.count = 1
                 ELSE \/ row.window = 0
                      \/ row'.window = row.window /\ row'.count = row.count + 1
  BY IssueFacts
<1>2. PICK n \in Nat : n = Latest
  BY <1>1
<1>3. /\ Hour \in Nat \ {0} /\ TTL \in Nat /\ KeepExpired \in Nat /\ MaxStall \in Nat /\ MaxNow \in Nat
      /\ HourlySendLimit \in Nat \ {0} /\ Hour + MaxStall <= KeepExpired
  BY ConfigAssumption, DayAssumption, BoundsAssumption
<1>4. \A i, j \in 1..n : i <= j => issued[i] <= issued[j]
  BY <1>2 DEF Inv, IssueInv
<1>5. PICK C \in 1..HourlySendLimit : C = row'.count /\ C <= n + 1 /\ row'.window = issued'[n + 2 - C]
         /\ \A i \in 1..n : i < n + 2 - C /\ row'.window - issued[i] < Hour => n + 2 - C - i < HourlySendLimit
  <2>1. CASE row = NoRow
    <3>1. row'.count = 1 /\ row'.window = t
      BY <1>1, <2>1
    <3>2. \A i \in 1..n : t - issued[i] >= Hour
      <4>1. ASSUME NEW i \in 1..n PROVE t - issued[i] >= Hour
        <5>1. n \in 1..n /\ Latest > 0 /\ issued[i] <= issued[n]
          BY <1>2, <1>4
        <5> QED
          BY <1>1, <1>2, <1>3, <2>1, <5>1
      <4> QED
        BY <4>1
    <3>3. \A i \in 1..n : ~(t - issued[i] < Hour)
      BY <1>1, <1>2, <1>3, <3>2
    <3> QED
      BY <1>1, <1>2, <1>3, <3>1, <3>3
  <2>2. CASE row # NoRow
    <3>1. PICK c \in 1..HourlySendLimit : c = row.count /\ c <= n /\ row.window = issued[n - c + 1]
             /\ \A i \in 1..n : i < n - c + 1 /\ row.window - issued[i] < Hour => n - c + 1 - i < HourlySendLimit
      <4>1. row.count \in 0..HourlySendLimit
        BY DEF Inv, TypeOK, RowType
      <4> QED
        BY <1>2, <1>3, <2>2, <4>1 DEF WindowInv
    <3>2. n - c + 1 \in 1..n /\ row.window \in 1..MaxNow
      BY <1>1, <1>2, <1>3, <3>1
    <3>3. CASE t >= row.window + Hour
      <4>1. row'.count = 1 /\ row'.window = t
        BY <1>1, <3>3
      <4>2. ASSUME NEW i \in 1..n, t - issued[i] < Hour PROVE n + 1 - i < HourlySendLimit
        <5>1. issued[i] > issued[n - c + 1] /\ issued[i] \in 1..MaxNow
          BY <1>1, <1>2, <1>3, <3>1, <3>2, <3>3, <4>2
        <5>2. ~(i <= n - c + 1)
          BY <1>1, <1>2, <1>3, <1>4, <3>2, <5>1
        <5> QED
          BY <1>2, <1>3, <3>1, <3>2, <5>2
      <4> QED
        BY <1>1, <1>2, <1>3, <4>1, <4>2
    <3>4. CASE ~(t >= row.window + Hour)
      <4>1. row'.count = c + 1 /\ row'.window = row.window
        BY <1>1, <2>2, <3>1, <3>2, <3>4
      <4>2. c + 1 \in 1..HourlySendLimit
        BY <1>1, <1>3, <3>1, <4>1 DEF RowType
      <4>3. n + 2 - (c + 1) = n - c + 1 /\ issued'[n - c + 1] = issued[n - c + 1]
        BY <1>1, <1>2, <1>3, <3>2
      <4> QED
        BY <1>2, <1>3, <3>1, <4>1, <4>2, <4>3
    <3> QED
      BY <3>3, <3>4
  <2> QED
    BY <2>1, <2>2
<1>6. WindowInv'
  <2> DEFINE first == n + 2 - C
  <2>1. first \in 1..(n + 1) /\ Latest' - row'.count + 1 = first
    BY <1>1, <1>2, <1>3, <1>5
  <2>2. ASSUME NEW i \in 1..(n + 1), i < first, row'.window - issued'[i] < Hour PROVE first - i < HourlySendLimit
    <3>1. i \in 1..n /\ issued'[i] = issued[i]
      BY <1>1, <1>2, <2>1, <2>2
    <3> QED
      BY <1>5, <2>2, <3>1
  <2> QED
    BY <1>1, <1>2, <1>3, <1>5, <2>1, <2>2 DEF WindowInv
<1>7. ASSUME NEW i \in 1..(n + 1), NEW j \in i..(n + 1), issued'[j] - issued'[i] < Hour
      PROVE  j - i + 1 <= 2 * HourlySendLimit - 1
  <2>1. CASE j \in 1..n
    <3>1. i \in 1..n /\ j \in i..n /\ issued'[i] = issued[i] /\ issued'[j] = issued[j]
      BY <1>1, <1>2, <2>1
    <3> QED
      BY <1>2, <1>7, <3>1 DEF HourlyLimit, Latest
  <2>2. CASE j = n + 1 /\ i >= n + 2 - C
    BY <1>2, <1>3, <1>5, <2>2
  <2>3. CASE j = n + 1 /\ i < n + 2 - C
    <3>1. i \in 1..n /\ issued'[i] = issued[i] /\ issued[i] \in 1..MaxNow /\ issued'[j] = t
      BY <1>1, <1>2, <1>3, <1>5, <2>3
    <3>2. row'.window <= t /\ row'.window \in Int
      BY <1>1, <1>2, <1>3, <1>5
    <3>3. row'.window - issued[i] < Hour
      BY <1>3, <1>7, <3>1, <3>2
    <3>4. n + 2 - C - i < HourlySendLimit
      BY <1>5, <2>3, <3>1, <3>3
    <3> QED
      BY <1>2, <1>3, <1>5, <2>3, <3>4
  <2> QED
    BY <1>2, <1>3, <1>5, <2>1, <2>2, <2>3
<1> QED
  BY <1>1, <1>2, <1>6, <1>7 DEF HourlyLimit, Latest

(* Any hour has room for the end of one window and the whole of the next.    *)
THEOREM HourIsLimited == Spec => []HourlyLimit
<1>1. Init => WindowInv /\ HourlyLimit
  <2> SUFFICES ASSUME Init PROVE WindowInv /\ HourlyLimit
    OBVIOUS
  <2>1. Len(issued) = 0 /\ row = NoRow
    BY EmptySeq DEF Init
  <2> QED
    BY <2>1 DEF WindowInv, HourlyLimit
<1>2. ASSUME Inv, [Next]_vars, WindowInv, HourlyLimit PROVE WindowInv' /\ HourlyLimit'
  <2>1. CASE PurgeExpired
    BY <1>2, <2>1 DEF PurgeExpired, history, WindowInv, HourlyLimit
  <2>2. CASE /\ issued' = issued /\ (row' = NoRow <=> row = NoRow)
             /\ row # NoRow => /\ row'.expires = row.expires /\ row'.window = row.window
                               /\ row'.count = row.count
    BY <1>2, <2>2 DEF WindowInv, HourlyLimit, Latest
  <2> QED
    BY <1>2, <2>1, <2>2, WindowStep, RowSteps
<1> QED
  BY <1>1, <1>2, Invariance, PTL DEF Spec

=============================================================================
