--------------------------- MODULE RevocationProofs ---------------------------
(***************************************************************************)
(* The safety properties of Revocation, for any number of requests, of     *)
(* callers of RevokeUserTokens and of their logouts, any lengths of time   *)
(* and any difference of the clocks.                                       *)
(***************************************************************************)
EXTENDS Revocation, TLAPS

-----------------------------------------------------------------------------
(* The inductive invariant: no record is younger than the latest logout, and *)
(* what a token says fits the moment it was issued at. *)

NotAfterLatest(e) == e # NoEntry => e.loggedOutAt <= latest

StampInv ==
    /\ \A l \in Logouts : logout[l].pc = "marking" => logout[l].at \in 1..now
    /\ NotAfterLatest(entry)
    /\ \A g \in Gates : NotAfterLatest(gate[g].seen)
    /\ \A g \in Gates : gate[g].pc = "forget" => gate[g].seen # NoEntry

Fits(tok) ==
    /\ tok.exp <= tok.born + Skew + Life
    /\ tok.iat <= tok.born + Skew
    /\ tok.iat # 0 => tok.born < tok.iat + Skew + Second

RefusalInv ==
    /\ \A g \in Gates : Fits(gate[g].token)
    /\ \A g \in Gates : gate[g].pc = "refused" => gate[g].token.iat < latest

Inv == TypeOK /\ StampInv /\ RefusalInv

GateType == [pc    : {"idle", "lookup", "decide", "forget", "accepted", "refused"},
             token : Token,
             seen  : Entry \cup {NoEntry},
             floor : 0..MaxNow]

(* A second is what its ticks begin with. *)
LEMMA WholeSecondFacts ==
    ASSUME NEW t \in Nat
    PROVE  WholeSecond(t) \in Nat /\ WholeSecond(t) <= t /\ t < WholeSecond(t) + Second
<1>1. Second \in Nat \ {0}
  BY TimeAssumption
<1>2. PICK r \in 0..(Second - 1) : r = t % Second
  BY <1>1
<1>3. t = Second * (t \div Second) + r /\ t \div Second \in Nat
  BY <1>1, <1>2
<1>4. t - r \in Nat
  BY <1>1, <1>3
<1> QED
  BY <1>1, <1>2, <1>4 DEF WholeSecond

(* What the IdP issues are tokens. *)
LEMMA TokenFacts ==
    ASSUME now \in Nat, NEW tok \in Issued
    PROVE  tok \in Token /\ Fits(tok)
<1>1. Second \in Nat /\ Skew \in Nat /\ Life \in Nat
  BY TimeAssumption
<1>2. PICK b \in Second..now :
         tok \in UNION {{[born |-> b, iat |-> i, exp |-> WholeSecond(s + Life)] : i \in {0, WholeSecond(s)}}
                        : s \in Stamps(b)}
  BY DEF Issued
<1>3. PICK s \in Stamps(b) :
         tok \in {[born |-> b, iat |-> i, exp |-> WholeSecond(s + Life)] : i \in {0, WholeSecond(s)}}
  BY <1>2
<1>4. b \in Nat /\ s \in Nat /\ s + Life \in Nat /\ b - Skew <= s /\ s <= b + Skew
  BY <1>1, <1>2, <1>3 DEF Stamps
<1>5. PICK w \in Nat, e \in Nat : w = WholeSecond(s) /\ e = WholeSecond(s + Life)
  BY <1>4, WholeSecondFacts
<1>6. w <= s /\ s < w + Second /\ e <= s + Life
  BY <1>4, <1>5, WholeSecondFacts
<1>7. PICK i \in {0, w} : tok = [born |-> b, iat |-> i, exp |-> e]
  BY <1>3, <1>5
<1> QED
  BY <1>1, <1>4, <1>6, <1>7 DEF Token, Fits

(* The request that does nothing. *)
LEMMA IdleGateFacts ==
    /\ IdleGate \in GateType /\ IdleGate.pc = "idle" /\ IdleGate.seen = NoEntry
    /\ IdleGate.token = NoToken /\ IdleGate.floor = 0 /\ Fits(NoToken)
BY TimeAssumption DEF IdleGate, GateType, NoToken, Token, Fits

(* A request moves on; entry and clock stay as they are. *)
LEMMA GateMoves ==
    ASSUME Inv, NEW g \in Gates, NEW x \in GateType, gate' = [gate EXCEPT ![g] = x],
           UNCHANGED <<now, logout, calls, latest>>,
           entry' \in {entry, NoEntry}, lost' \in BOOLEAN, Fits(x.token),
           NotAfterLatest(x.seen), x.pc = "forget" => x.seen # NoEntry,
           x.pc = "refused" => x.token.iat < latest
    PROVE  Inv'
<1>1. /\ gate' \in [Gates -> GateType] /\ gate'[g] = x
      /\ \A h \in Gates \ {g} : gate'[h] = gate[h]
  BY DEF Inv, TypeOK, GateType
<1>2. TypeOK'
  BY <1>1 DEF Inv, TypeOK, GateType
<1>3. StampInv'
  BY <1>1 DEF Inv, StampInv, NotAfterLatest
<1>4. RefusalInv'
  BY <1>1 DEF Inv, RefusalInv
<1> QED
  BY <1>2, <1>3, <1>4 DEF Inv

(* The steps of a request. *)
LEMMA GateKeeps ==
    ASSUME Inv, NEW g \in Gates,
           \/ \E tok \in Issued : GateVerifies(g, tok)
           \/ GateLooksUp(g) \/ GateDecides(g) \/ GateForgets(g) \/ GateEnds(g)
    PROVE  Inv'
<1>1. PICK z \in GateType : z = gate[g]
  BY DEF Inv, TypeOK, GateType
<1>2. /\ NotAfterLatest(z.seen) /\ NotAfterLatest(entry)
      /\ z.pc = "forget" => z.seen # NoEntry
      /\ z.pc = "refused" => z.token.iat < latest
      /\ Fits(z.token)
  BY <1>1 DEF Inv, StampInv, RefusalInv
<1>3. now \in Nat /\ lost \in BOOLEAN /\ entry \in Entry \cup {NoEntry} /\ latest \in 0..MaxNow
  BY TimeAssumption DEF Inv, TypeOK
<1>4. ASSUME NEW tok \in Issued, GateVerifies(g, tok) PROVE Inv'
  <2>1. PICK x : x = [IdleGate EXCEPT !.pc = "lookup", !.token = tok]
    OBVIOUS
  <2>2. x \in GateType /\ x.pc = "lookup" /\ x.seen = NoEntry /\ Fits(x.token)
    BY <1>3, <2>1, TokenFacts, IdleGateFacts DEF GateType
  <2> QED
    BY <1>3, <1>4, <2>1, <2>2, GateMoves DEF GateVerifies, NotAfterLatest
<1>5. CASE GateLooksUp(g)
  <2>1. PICK e \in Entry \cup {NoEntry}, f \in 0..MaxNow :
           e = entry /\ f = (IF lost THEN 0 ELSE latest)
    BY <1>3, TimeAssumption
  <2>2. PICK x : x = [z EXCEPT !.pc = "decide", !.seen = e, !.floor = f]
    OBVIOUS
  <2>3. x \in GateType /\ x.pc = "decide" /\ x.seen = e /\ x.token = z.token
    BY <2>2 DEF GateType
  <2>4. NotAfterLatest(x.seen) /\ gate' = [gate EXCEPT ![g] = x] /\ entry' = entry
    BY <1>1, <1>2, <1>5, <2>1, <2>2, <2>3 DEF GateLooksUp
  <2> QED
    BY <1>2, <1>3, <1>5, <2>3, <2>4, GateMoves DEF GateLooksUp
<1>6. CASE GateDecides(g)
  <2>1. PICK p \in {"forget", "accepted", "refused"} :
           /\ gate' = [gate EXCEPT ![g].pc = p]
           /\ p = "forget" => z.seen # NoEntry
           /\ p = "refused" => z.seen # NoEntry /\ Revoked(z.token, z.seen)
    BY <1>1, <1>6 DEF GateDecides, SetGate
  <2>2. PICK x : x = [z EXCEPT !.pc = p]
    OBVIOUS
  <2>3. x \in GateType /\ x.pc = p /\ x.seen = z.seen /\ x.token = z.token
    BY <2>2 DEF GateType
  <2>4. p = "refused" => x.token.iat < latest
    <3>1. SUFFICES ASSUME p = "refused" PROVE z.token.iat < latest
      BY <2>3
    <3>2. z.seen \in Entry /\ z.seen.loggedOutAt <= latest
      BY <1>2, <2>1, <3>1 DEF NotAfterLatest, GateType
    <3>3. z.token.iat = 0 \/ z.token.iat < z.seen.loggedOutAt
      BY <2>1, <3>1 DEF Revoked
    <3>4. z.seen.loggedOutAt \in 1..MaxNow /\ z.token.iat \in Nat /\ MaxNow \in Nat
      BY <3>2, TimeAssumption DEF Entry, GateType, Token
    <3> QED
      BY <1>3, <3>2, <3>3, <3>4
  <2>5. gate' = [gate EXCEPT ![g] = x]
    BY <1>1, <2>1, <2>2
  <2> QED
    BY <1>2, <1>3, <1>6, <2>1, <2>3, <2>4, <2>5, GateMoves DEF GateDecides
<1>7. CASE GateForgets(g)
  <2>1. PICK x : x = [z EXCEPT !.pc = "accepted"]
    OBVIOUS
  <2>2. x \in GateType /\ x.pc = "accepted" /\ x.seen = z.seen /\ x.token = z.token
    BY <2>1 DEF GateType
  <2>3. gate' = [gate EXCEPT ![g] = x] /\ entry' = NoEntry /\ lost' \in BOOLEAN
    BY <1>1, <1>3, <1>7, <2>1 DEF GateForgets, SetGate
  <2> QED
    BY <1>2, <1>7, <2>2, <2>3, GateMoves DEF GateForgets
<1>8. CASE GateEnds(g)
  BY <1>3, <1>8, IdleGateFacts, GateMoves DEF GateEnds, NotAfterLatest
<1> QED
  BY <1>4, <1>5, <1>6, <1>7, <1>8

(* A logout is stored with the instant at which it was asked for. *)
LEMMA LogoutKeeps ==
    ASSUME Inv, NEW l \in Logouts, LogoutBegins(l) \/ MarkLoggedOut(l) PROVE Inv'
<1>1. PICK n \in Second..MaxNow : n = now
  BY DEF Inv, TypeOK
<1>2. /\ Second \in Nat \ {0} /\ MaxNow \in Nat /\ Retain \in Nat \ {0} /\ MaxLogouts \in Nat
      /\ calls \in 0..MaxLogouts /\ latest \in 0..n /\ n \in 1..MaxNow
  BY <1>1, TimeAssumption DEF Inv, TypeOK
<1>3. CASE LogoutBegins(l)
  <2>1. logout' = [logout EXCEPT ![l] = [pc |-> "marking", at |-> n]] /\ calls' \in 0..MaxLogouts
    BY <1>1, <1>2, <1>3 DEF LogoutBegins
  <2>2. UNCHANGED <<now, entry, gate, latest, lost>>
    BY <1>3 DEF LogoutBegins
  <2>3. logout' \in [Logouts -> [pc : {"idle", "marking"}, at : 0..MaxNow]]
    BY <1>2, <2>1 DEF Inv, TypeOK
  <2>4. TypeOK'
    BY <2>1, <2>2, <2>3 DEF Inv, TypeOK
  <2>5. \A k \in Logouts : logout'[k].pc = "marking" => logout'[k].at \in 1..n
    BY <1>1, <1>2, <2>1 DEF Inv, StampInv, TypeOK
  <2>6. StampInv'
    BY <1>1, <2>2, <2>5 DEF Inv, StampInv, NotAfterLatest
  <2> QED
    BY <2>2, <2>4, <2>6 DEF Inv, RefusalInv, Fits
<1>4. CASE MarkLoggedOut(l)
  <2>1. PICK t \in 1..n : t = logout[l].at
    BY <1>1, <1>4 DEF MarkLoggedOut, Inv, StampInv
  <2>2. /\ entry' = [loggedOutAt |-> t, expiresAt |-> n + Retain]
        /\ latest' = (IF t > latest THEN t ELSE latest)
        /\ logout' = [logout EXCEPT ![l] = IdleLogout]
        /\ UNCHANGED <<now, gate, calls>>
        /\ lost' \in BOOLEAN
    BY <1>1, <1>4, <2>1 DEF MarkLoggedOut
  <2>3. latest' \in 0..n /\ latest' >= latest /\ latest' >= t /\ t \in 1..MaxNow
    BY <1>2, <2>2
  <2>4. /\ entry' \in Entry /\ entry'.expiresAt >= entry'.loggedOutAt + Retain
        /\ entry'.loggedOutAt = t
    <3>1. n + Retain \in 1..(MaxNow + Retain) /\ n + Retain >= t + Retain
      BY <1>2
    <3> QED
      BY <2>2, <2>3, <3>1 DEF Entry
  <2>5. logout' \in [Logouts -> [pc : {"idle", "marking"}, at : 0..MaxNow]]
    BY <1>2, <2>2 DEF Inv, TypeOK, IdleLogout
  <2>6. TypeOK'
    BY <1>1, <2>2, <2>3, <2>4, <2>5 DEF Inv, TypeOK
  <2>7. \A k \in Logouts : logout'[k].pc = "marking" => logout'[k].at \in 1..n
    BY <1>1, <2>2 DEF Inv, StampInv, TypeOK, IdleLogout
  <2>8. \A g \in Gates : gate[g].seen # NoEntry => gate[g].seen.loggedOutAt <= latest'
    <3>1. ASSUME NEW g \in Gates, gate[g].seen # NoEntry PROVE gate[g].seen.loggedOutAt <= latest'
      <4>1. gate[g].seen.loggedOutAt <= latest /\ gate[g].seen \in Entry
        BY <3>1 DEF Inv, StampInv, NotAfterLatest, TypeOK
      <4>2. gate[g].seen.loggedOutAt \in 1..MaxNow
        BY <4>1 DEF Entry
      <4> QED
        BY <1>2, <2>3, <4>1, <4>2
    <3> QED
      BY <3>1
  <2>9. StampInv'
    BY <1>1, <2>2, <2>3, <2>4, <2>7, <2>8 DEF Inv, StampInv, NotAfterLatest
  <2>10. RefusalInv'
    <3>1. ASSUME NEW g \in Gates, gate[g].pc = "refused" PROVE gate[g].token.iat < latest'
      <4>1. gate[g].token.iat < latest /\ gate[g].token.iat \in Nat
        BY <3>1 DEF Inv, RefusalInv, TypeOK, Token
      <4> QED
        BY <1>2, <2>3, <4>1
    <3> QED
      BY <2>2, <3>1 DEF Inv, RefusalInv, Fits
  <2> QED
    BY <2>6, <2>9, <2>10 DEF Inv
<1> QED
  BY <1>3, <1>4

(* The invariant holds of every reachable state. *)
THEOREM Invariance == Spec => []Inv
<1>1. Init => Inv
  <2> SUFFICES ASSUME Init PROVE Inv
    OBVIOUS
  <2>0. lost \in BOOLEAN
    BY DEF Init
  <2>1. TypeOK
    BY <2>0, TimeAssumption, IdleGateFacts DEF Init, TypeOK, IdleLogout, GateType
  <2>2. StampInv /\ RefusalInv
    BY IdleGateFacts DEF Init, StampInv, NotAfterLatest, RefusalInv, IdleLogout
  <2> QED
    BY <2>1, <2>2 DEF Inv
<1>2. Inv /\ [Next]_vars => Inv'
  <2> SUFFICES ASSUME Inv, [Next]_vars PROVE Inv'
    OBVIOUS
  <2>1. CASE Tick
    <3>1. /\ now' = now + 1 /\ now < MaxNow /\ now \in Second..MaxNow /\ Second \in Nat /\ MaxNow \in Nat
          /\ UNCHANGED <<entry, gate, logout, calls, latest, lost>>
      BY <2>1, TimeAssumption DEF Tick, Inv, TypeOK
    <3>2. now' \in Second..MaxNow /\ latest' \in 0..now'
      BY <3>1 DEF Inv, TypeOK
    <3>3. TypeOK'
      BY <3>1, <3>2 DEF Inv, TypeOK
    <3>4. \A l \in Logouts : logout[l].pc = "marking" => logout[l].at \in 1..now'
      BY <3>1 DEF Inv, StampInv
    <3> QED
      BY <3>1, <3>3, <3>4 DEF Inv, StampInv, NotAfterLatest, RefusalInv, Fits
  <2>2. CASE UNCHANGED vars
    BY <2>2 DEF vars, Inv, TypeOK, StampInv, NotAfterLatest, RefusalInv, Fits
  <2> QED
    BY <2>1, <2>2, GateKeeps, LogoutKeeps DEF Next
<1> QED
  BY <1>1, <1>2, PTL DEF Spec

(* Every variable stays in its domain. *)
THEOREM TypeCorrect == Spec => []TypeOK
<1>1. Inv => TypeOK
  BY DEF Inv
<1> QED
  BY <1>1, Invariance, PTL

(* Who logs in again after a logout is let in: only tokens that were issued   *)
(* before it or in its second, by more or less than the clocks differ, are    *)
(* refused. *)
THEOREM NewSessionsBegin == Spec => []FreshTokensAreAccepted
<1>1. ASSUME Inv PROVE FreshTokensAreAccepted
  <2> SUFFICES ASSUME NEW g \in Gates, gate[g].pc = "refused", gate[g].token.iat # 0
               PROVE  gate[g].token.born < latest + Skew + Second
    BY DEF FreshTokensAreAccepted
  <2>1. gate[g].token \in Token /\ latest \in 0..now /\ now \in Nat
    BY <1>1, TimeAssumption DEF Inv, TypeOK
  <2>2. gate[g].token.iat < latest /\ gate[g].token.born < gate[g].token.iat + Skew + Second
    BY <1>1 DEF Inv, RefusalInv, Fits
  <2> QED
    BY <2>1, <2>2, TimeAssumption DEF Token
<1> QED
  BY <1>1, Invariance, PTL

-----------------------------------------------------------------------------
(* What a logout achieves.  As long as the store has not lost it, the latest *)
(* logout is on record until no token that it concerns can be valid. *)

StoreKept ==
    ~lost => /\ entry # NoEntry => entry.loggedOutAt = latest
             /\ entry = NoEntry /\ latest # 0 => now > latest + Retain

(* What a request x has found out about the logout that it is owed. *)
GateKept(x) ==
    /\ x.floor # 0 /\ x.seen # NoEntry =>
            x.seen.loggedOutAt = x.floor /\ x.seen.expiresAt >= x.floor + Retain
    /\ x.floor # 0 /\ x.seen = NoEntry => now > x.floor + Retain
    /\ x.pc = "forget" => now > x.seen.expiresAt
    /\ x.pc = "accepted" /\ now <= x.token.exp + Leeway => x.token.born + Skew >= x.floor

KeptInv == StoreKept /\ \A g \in Gates : GateKept(gate[g])

(* A request moves on. *)
LEMMA GateKeptMoves ==
    ASSUME Inv, KeptInv, NEW g \in Gates, NEW x, gate' = [gate EXCEPT ![g] = x],
           UNCHANGED now, StoreKept', GateKept(x)
    PROVE  KeptInv'
<1>1. gate'[g] = x /\ \A h \in Gates \ {g} : gate'[h] = gate[h]
  BY DEF Inv, TypeOK
<1>2. \A h \in Gates : GateKept(gate[h])'
  BY <1>1 DEF KeptInv, GateKept
<1> QED
  BY <1>2 DEF KeptInv

(* A token that outlives the retention of a logout was issued after it. *)
LEMMA Outlived ==
    ASSUME Life + Leeway <= Retain, now \in Nat, NEW tok \in Token, Fits(tok),
           NEW f \in Nat, now > f + Retain, now <= tok.exp + Leeway
    PROVE  tok.born + Skew >= f
<1>1. PICK b \in Nat, e \in Nat : b = tok.born /\ e = tok.exp
  BY DEF Token
<1>2. e <= b + Skew + Life
  BY <1>1 DEF Fits
<1> QED
  BY <1>1, <1>2, TimeAssumption

(* The steps of a request: what it accepts was not issued before the logout   *)
(* that it is owed, or has expired. *)
LEMMA GateKeptKeeps ==
    ASSUME Inv, KeptInv, Life + Leeway <= Retain, NEW g \in Gates,
           \/ \E tok \in Issued : GateVerifies(g, tok)
           \/ GateLooksUp(g) \/ GateDecides(g) \/ GateForgets(g) \/ GateEnds(g)
    PROVE  KeptInv'
<1>1. PICK z \in GateType : z = gate[g] /\ GateKept(z)
  BY DEF Inv, TypeOK, GateType, KeptInv
<1>2. /\ now \in Nat /\ latest \in Nat /\ Retain \in Nat /\ Skew \in Nat /\ MaxNow \in Nat
      /\ entry \in Entry \cup {NoEntry} /\ latest \in 0..MaxNow /\ lost \in BOOLEAN
      /\ entry # NoEntry => entry.expiresAt >= entry.loggedOutAt + Retain
  BY TimeAssumption DEF Inv, TypeOK
<1>3. /\ z.token \in Token /\ Fits(z.token) /\ z.floor \in Nat
      /\ z.token.born \in Nat /\ z.token.iat \in Nat
      /\ z.seen # NoEntry => z.seen.expiresAt \in Nat /\ z.seen.loggedOutAt \in Nat
  BY <1>1, TimeAssumption DEF GateType, Token, Entry, Inv, RefusalInv
<1>4. ASSUME NEW tok \in Issued, GateVerifies(g, tok) PROVE KeptInv'
  <2>1. PICK x : x = [IdleGate EXCEPT !.pc = "lookup", !.token = tok]
    OBVIOUS
  <2>2. x.pc = "lookup" /\ x.floor = 0
    BY <2>1, IdleGateFacts DEF GateType
  <2>3. GateKept(x)
    BY <2>2 DEF GateKept
  <2>4. UNCHANGED <<now, entry, latest, lost>> /\ gate' = [gate EXCEPT ![g] = x]
    BY <1>4, <2>1 DEF GateVerifies
  <2>5. StoreKept'
    BY <2>4 DEF KeptInv, StoreKept
  <2> QED
    BY <2>3, <2>4, <2>5, GateKeptMoves
<1>5. CASE GateLooksUp(g)
  <2>1. PICK e \in Entry \cup {NoEntry}, f \in 0..MaxNow :
           e = entry /\ f = (IF lost THEN 0 ELSE latest)
    BY <1>2
  <2>2. PICK x : x = [z EXCEPT !.pc = "decide", !.seen = e, !.floor = f]
    OBVIOUS
  <2>3. x.pc = "decide" /\ x.seen = e /\ x.floor = f
    BY <2>2 DEF GateType
  <2>4. UNCHANGED <<now, entry, latest, lost>> /\ gate' = [gate EXCEPT ![g] = x]
    BY <1>1, <1>5, <2>1, <2>2 DEF GateLooksUp
  <2>5. /\ f # 0 /\ e # NoEntry => e.loggedOutAt = f /\ e.expiresAt >= f + Retain
        /\ f # 0 /\ e = NoEntry => now > f + Retain
    BY <1>2, <2>1 DEF KeptInv, StoreKept
  <2>6. GateKept(x)
    BY <2>3, <2>5 DEF GateKept
  <2>7. StoreKept'
    BY <2>4 DEF KeptInv, StoreKept
  <2> QED
    BY <2>4, <2>6, <2>7, GateKeptMoves
<1>6. CASE GateDecides(g)
  <2>1. PICK p \in {"forget", "accepted", "refused"} :
           /\ gate' = [gate EXCEPT ![g].pc = p]
           /\ p = "forget" => z.seen # NoEntry /\ now > z.seen.expiresAt
           /\ p = "accepted" => z.seen = NoEntry \/ ~Revoked(z.token, z.seen)
    BY <1>1, <1>6 DEF GateDecides, SetGate, Expired
  <2>2. PICK x : x = [z EXCEPT !.pc = p]
    OBVIOUS
  <2>3. x.pc = p /\ x.seen = z.seen /\ x.token = z.token /\ x.floor = z.floor
    BY <2>2 DEF GateType
  <2>4. p = "accepted" /\ now <= z.token.exp + Leeway => z.token.born + Skew >= z.floor
    <3>1. SUFFICES ASSUME p = "accepted", now <= z.token.exp + Leeway, z.floor # 0
                   PROVE  z.token.born + Skew >= z.floor
      BY <1>2, <1>3
    <3>2. CASE z.seen = NoEntry
      BY <1>1, <1>2, <1>3, <3>1, <3>2, Outlived DEF GateKept
    <3>3. CASE z.seen # NoEntry
      <4>1. z.seen.loggedOutAt = z.floor /\ ~(z.token.iat < z.seen.loggedOutAt)
        BY <1>1, <2>1, <3>1, <3>3 DEF GateKept, Revoked
      <4>2. z.token.iat <= z.token.born + Skew
        BY <1>3 DEF Fits
      <4> QED
        BY <1>2, <1>3, <4>1, <4>2
    <3> QED
      BY <3>2, <3>3
  <2>5. UNCHANGED <<now, entry, latest, lost>> /\ gate' = [gate EXCEPT ![g] = x]
    BY <1>1, <1>6, <2>1, <2>2 DEF GateDecides
  <2>6. GateKept(x)
    BY <1>1, <2>1, <2>3, <2>4 DEF GateKept
  <2>7. StoreKept'
    BY <2>5 DEF KeptInv, StoreKept
  <2> QED
    BY <2>5, <2>6, <2>7, GateKeptMoves
<1>7. CASE GateForgets(g)
  <2>1. PICK x : x = [z EXCEPT !.pc = "accepted"]
    OBVIOUS
  <2>2. x.pc = "accepted" /\ x.seen = z.seen /\ x.token = z.token /\ x.floor = z.floor
    BY <2>1 DEF GateType
  <2>3. /\ gate' = [gate EXCEPT ![g] = x] /\ entry' = NoEntry /\ z.pc = "forget"
        /\ lost' = (lost \/ (entry # NoEntry /\ ~Expired(entry)))
        /\ UNCHANGED <<now, latest>>
    BY <1>1, <1>7, <2>1 DEF GateForgets, SetGate
  <2>4. z.seen # NoEntry
    BY <1>1, <2>3 DEF Inv, StampInv
  <2>5. now <= z.token.exp + Leeway => z.token.born + Skew >= z.floor
    <3>1. SUFFICES ASSUME now <= z.token.exp + Leeway, z.floor # 0
                   PROVE  z.token.born + Skew >= z.floor
      BY <1>2, <1>3
    <3>2. z.seen.expiresAt >= z.floor + Retain /\ now > z.seen.expiresAt
      BY <1>1, <2>3, <2>4, <3>1 DEF GateKept
    <3>3. now > z.floor + Retain
      BY <1>2, <1>3, <2>4, <3>2
    <3> QED
      BY <1>2, <1>3, <3>1, <3>3, Outlived
  <2>6. GateKept(x)
    BY <1>1, <2>2, <2>3, <2>5 DEF GateKept
  <2>7. StoreKept'
    <3>1. SUFFICES ASSUME ~lost', latest # 0 PROVE now > latest + Retain
      BY <2>3 DEF StoreKept
    <3>2. ~lost /\ (entry = NoEntry \/ Expired(entry))
      BY <2>3, <3>1
    <3>3. CASE entry = NoEntry
      BY <3>1, <3>2, <3>3 DEF KeptInv, StoreKept
    <3>4. CASE entry # NoEntry
      <4>1. /\ entry.loggedOutAt = latest /\ entry.expiresAt >= latest + Retain
            /\ now > entry.expiresAt /\ entry.expiresAt \in Nat
        BY <1>2, <3>2, <3>4 DEF KeptInv, StoreKept, Expired, Entry
      <4> QED
        BY <1>2, <4>1
    <3> QED
      BY <3>3, <3>4
  <2> QED
    BY <2>3, <2>6, <2>7, GateKeptMoves
<1>8. CASE GateEnds(g)
  <2>1. GateKept(IdleGate)
    BY IdleGateFacts DEF GateKept
  <2>2. UNCHANGED <<now, entry, latest, lost>> /\ gate' = [gate EXCEPT ![g] = IdleGate]
    BY <1>8 DEF GateEnds
  <2>3. StoreKept'
    BY <2>2 DEF KeptInv, StoreKept
  <2> QED
    BY <2>1, <2>2, <2>3, GateKeptMoves
<1> QED
  BY <1>4, <1>5, <1>6, <1>7, <1>8

(* What a logout is for: kept as long as tokens are valid, it ends every      *)
(* session that began before it, however many logouts and requests race, as   *)
(* long as the store has not lost it. *)
THEOREM LogoutEndsSessions ==
    ASSUME Life + Leeway <= Retain
    PROVE  Spec => []LogoutRevokes
<1>1. Init => KeptInv
  <2> SUFFICES ASSUME Init PROVE KeptInv
    OBVIOUS
  <2>1. \A g \in Gates : gate[g] = IdleGate
    BY DEF Init
  <2>2. GateKept(IdleGate)
    BY IdleGateFacts DEF GateKept
  <2> QED
    BY <2>1, <2>2 DEF Init, KeptInv, StoreKept
<1>2. ASSUME Inv, KeptInv, [Next]_vars PROVE KeptInv'
  <2>1. now \in Nat /\ latest \in 0..now /\ Retain \in Nat /\ MaxNow \in Nat /\ Leeway \in Nat
    BY <1>2, TimeAssumption DEF Inv, TypeOK
  <2>2. ASSUME Tick PROVE KeptInv'
    <3>1. now' = now + 1 /\ UNCHANGED <<entry, gate, latest, lost>>
      BY <2>2 DEF Tick
    <3>2. ASSUME NEW g \in Gates PROVE GateKept(gate[g])'
      <4>1. PICK z \in GateType : z = gate[g] /\ GateKept(z)
        BY <1>2 DEF Inv, TypeOK, GateType, KeptInv
      <4>2. /\ z.token.exp \in Nat /\ z.floor \in Nat
            /\ z.seen # NoEntry => z.seen.expiresAt \in Nat
            /\ z.pc = "forget" => z.seen # NoEntry
        BY <1>2, <4>1, TimeAssumption DEF GateType, Token, Entry, Inv, StampInv
      <4>3. z.seen = NoEntry /\ z.floor # 0 => now' > z.floor + Retain
        BY <2>1, <3>1, <4>1, <4>2 DEF GateKept
      <4>4. z.pc = "forget" => now' > z.seen.expiresAt
        BY <2>1, <3>1, <4>1, <4>2 DEF GateKept
      <4>5. z.pc = "accepted" /\ now' <= z.token.exp + Leeway => z.token.born + Skew >= z.floor
        BY <2>1, <3>1, <4>1, <4>2 DEF GateKept
      <4>6. GateKept(z)'
        BY <3>1, <4>1, <4>3, <4>4, <4>5 DEF GateKept
      <4> QED
        BY <3>1, <4>1, <4>6
    <3>3. StoreKept'
      BY <2>1, <3>1, <1>2 DEF KeptInv, StoreKept
    <3> QED
      BY <3>2, <3>3 DEF KeptInv
  <2>3. ASSUME NEW l \in Logouts, LogoutBegins(l) PROVE KeptInv'
    BY <1>2, <2>3 DEF LogoutBegins, KeptInv, StoreKept, GateKept
  <2>4. ASSUME NEW l \in Logouts, MarkLoggedOut(l) PROVE KeptInv'
    <3>1. PICK t \in 1..now : t = logout[l].at
      BY <1>2, <2>4 DEF MarkLoggedOut, Inv, StampInv
    <3>2. /\ entry' = [loggedOutAt |-> t, expiresAt |-> now + Retain]
          /\ latest' = (IF t > latest THEN t ELSE latest)
          /\ t < latest => lost'
          /\ UNCHANGED <<now, gate>>
      BY <2>4, <3>1 DEF MarkLoggedOut
    <3>3. entry' # NoEntry /\ entry'.loggedOutAt = t
      BY <2>1, <3>2 DEF NoEntry
    <3>4. ~lost' => t = latest'
      BY <2>1, <3>2
    <3>5. StoreKept'
      BY <3>3, <3>4 DEF StoreKept
    <3>6. \A g \in Gates : GateKept(gate[g])'
      BY <1>2, <3>2 DEF KeptInv, GateKept
    <3> QED
      BY <3>5, <3>6 DEF KeptInv
  <2>5. CASE UNCHANGED vars
    BY <1>2, <2>5 DEF vars, KeptInv, StoreKept, GateKept
  <2> QED
    BY <1>2, <2>2, <2>3, <2>4, <2>5, GateKeptKeeps DEF Next
<1>3. KeptInv => LogoutRevokes
  BY DEF KeptInv, GateKept, LogoutRevokes
<1> QED
  BY <1>1, <1>2, <1>3, Invariance, PTL DEF Spec

=============================================================================
