--------------------------- MODULE DispatchProofs ---------------------------
(***************************************************************************)
(* The safety properties of Dispatch, for any set of configurations, any   *)
(* set of calls and any leeway: the gate over every protocol, and the      *)
(* agreement of the protocols.                                             *)
(***************************************************************************)
EXTENDS Dispatch, SequenceTheorems, TLAPS

-----------------------------------------------------------------------------
(* The inductive invariant. *)

(* The names of the methods, and those of their arguments. *)
Names ==
    {"test", "auth.verify_code.send.email", "auth.verify_code.check.email",
     "auth.verify_code.send.sms", "auth.verify_code.check.sms", "auth.register",
     "auth.login.email", "auth.login.phone", "auth.logout", "auth.jwt_token.check",
     "auth.jwt_token.refresh", "user.nickname.change", "task.get", "task.list", "task.cancel",
     "own.report", "own.export"}
Arguments ==
    {"email", "phone", "verify_code", "user_name", "password", "login_method",
     "refresh_token", "nick_name", "task_id", "day", GateTokenArgument}

Method == [name : Names, public : BOOLEAN, async : BOOLEAN, user : BOOLEAN,
           properties : SUBSET Arguments]

(* Names are unique, and exactly the protected methods take the gate's token. *)
RegistryInv ==
    /\ loaded \in 0..Len(LoadAbilityAPIMethods)
    /\ loaded > 0 => registry # {}
    /\ registry \subseteq Method
    /\ \A m \in registry : (GateTokenArgument \in m.properties) <=> ~m.public
    /\ \A m, n \in registry : m.name = n.name => m = n

(* The verifier is set only from a bridge configuration that works, and the  *)
(* servers are only there after the registry and the bridge are. *)
StartInv ==
    /\ settings \in Settings
    /\ verifier => CurrentAuthType(settings) = "bridge" /\ NewBridgeTokenVerifierWorks(settings)
    /\ tools # {} => BridgeIsSettled
    /\ \A m \in tools : GateTokenArgument \notin m.properties

(* An answer is what registry, settings and verifier, as they are, make of    *)
(* the call. *)
ReplyInv ==
    \A r \in req : r \in Requests /\ tools # {} /\ reply = Replies(settings, verifier, r)

Inv == RegistryInv /\ StartInv /\ ReplyInv

-----------------------------------------------------------------------------
(* The registry. *)

(* A method as its package declares it does not take the gate's token. *)
Plain == {m \in Method : GateTokenArgument \notin m.properties}

(* All the methods that are loaded are, and there are some. *)
LEMMA AllArePlain ==
    LoadAbilityAPIMethods \in Seq(Plain) /\ Len(LoadAbilityAPIMethods) > 0
<1> USE DEF Declared, Plain, Method, Names, Arguments, GateTokenArgument
<1>1. <<Declared("test", TRUE, {})>> \in Seq(Plain) /\ Len(<<Declared("test", TRUE, {})>>) > 0
  OBVIOUS
<1>2. AuthVerifyCodeMethods \in Seq(Plain)
  <2>1. /\ Declared("auth.verify_code.send.email", TRUE, {"email"}) \in Plain
        /\ Declared("auth.verify_code.check.email", TRUE, {"email", "verify_code"}) \in Plain
        /\ Declared("auth.verify_code.send.sms", TRUE, {"phone"}) \in Plain
        /\ Declared("auth.verify_code.check.sms", TRUE, {"phone", "verify_code"}) \in Plain
    OBVIOUS
  <2> QED
    BY ONLY <2>1 DEF AuthVerifyCodeMethods
<1>3. AuthRegisterMethods \in Seq(Plain)
  BY DEF AuthRegisterMethods
<1>4. AuthSessionMethods \in Seq(Plain)
  <2>1. /\ Declared("auth.login.email", TRUE, {"login_method", "email", "password"}) \in Plain
        /\ Declared("auth.login.phone", TRUE, {"login_method", "phone", "password", "verify_code"})
             \in Plain
        /\ Declared("auth.logout", FALSE, {}) \in Plain
        /\ Declared("auth.jwt_token.check", FALSE, {}) \in Plain
        /\ Declared("auth.jwt_token.refresh", TRUE, {"refresh_token"}) \in Plain
    OBVIOUS
  <2> QED
    BY ONLY <2>1 DEF AuthSessionMethods
<1>5. UserProfileMethods \in Seq(Plain)
  BY DEF UserProfileMethods
<1>6. TaskMethods \in Seq(Plain)
  <2>1. /\ Declared("task.get", FALSE, {"task_id"}) \in Plain
        /\ Declared("task.list", FALSE, {}) \in Plain
        /\ Declared("task.cancel", FALSE, {"task_id"}) \in Plain
    OBVIOUS
  <2> QED
    BY ONLY <2>1 DEF TaskMethods
<1>7. OwnMethods \in Seq(Plain)
  <2>1. \A m \in Plain : [m EXCEPT !.user = FALSE] \in Plain
                         /\ [m EXCEPT !.user = FALSE, !.async = TRUE] \in Plain
    BY DEF Plain, Method
  <2>2. Declared("own.report", FALSE, {"day"}) \in Plain /\ Declared("own.export", FALSE, {"day"}) \in Plain
    OBVIOUS
  <2> HIDE DEF Declared, Plain, Method
  <2>3. /\ [Declared("own.report", FALSE, {"day"}) EXCEPT !.user = FALSE] \in Plain
        /\ [Declared("own.export", FALSE, {"day"}) EXCEPT !.user = FALSE, !.async = TRUE] \in Plain
    BY <2>1, <2>2
  <2> QED
    BY ONLY <2>3 DEF OwnMethods
<1>8. \A a, b \in Seq(Plain) : a \o b \in Seq(Plain) /\ (Len(a) > 0 => Len(a \o b) > 0)
  <2> TAKE a \in Seq(Plain), b \in Seq(Plain)
  <2>1. a \o b \in Seq(Plain) /\ Len(a \o b) = Len(a) + Len(b)
    BY ONLY ConcatProperties, a \in Seq(Plain), b \in Seq(Plain)
  <2> QED
    BY <2>1
<1> QED
  BY ONLY <1>1, <1>2, <1>3, <1>4, <1>5, <1>6, <1>7, <1>8 DEF LoadAbilityAPIMethods

(* Adding the gate's token changes nothing else of a method. *)
LEMMA Injected ==
    ASSUME NEW m \in Plain
    PROVE  /\ injectGateTokenSchema(m) \in Method
           /\ injectGateTokenSchema(m).name = m.name
           /\ injectGateTokenSchema(m).public = m.public
           /\ (GateTokenArgument \in injectGateTokenSchema(m).properties) <=> ~m.public
BY DEF injectGateTokenSchema, Plain, Method, Arguments

(* MCP offers the method without it. *)
LEMMA Offered ==
    ASSUME NEW m \in Method, (GateTokenArgument \in m.properties) <=> ~m.public
    PROVE  GateTokenArgument \notin InputSchemaWithoutGateToken(m).properties
BY DEF InputSchemaWithoutGateToken, Method

(* A method is added only under a new name. *)
LEMMA AddMethodKeeps == RegistryInv /\ AddMethod => RegistryInv'
<1> SUFFICES ASSUME RegistryInv, AddMethod PROVE RegistryInv'
  OBVIOUS
<1> DEFINE L == LoadAbilityAPIMethods
           m == L[loaded + 1]
           n == injectGateTokenSchema(m)
<1>1. L \in Seq(Plain) /\ Len(L) \in Nat
  BY AllArePlain
<1>2. loaded \in 0..Len(L) /\ loaded < Len(L) /\ loaded' = loaded + 1
  BY DEF RegistryInv, AddMethod
<1>3. loaded + 1 \in 1..Len(L)
  BY <1>1, <1>2
<1>4. m \in Plain
  BY ONLY <1>1, <1>3
<1>5. registry' = registry \cup {n} /\ \A other \in registry : other.name # m.name
  BY DEF AddMethod
<1>6. n \in Method /\ n.name = m.name /\ (GateTokenArgument \in n.properties <=> ~n.public)
  BY <1>4, Injected
<1>7. loaded' \in 0..Len(L) /\ registry' # {}
  BY <1>1, <1>2, <1>5
<1> HIDE DEF L, m, n
<1>8. registry' \subseteq Method /\ \A x \in registry' : (GateTokenArgument \in x.properties) <=> ~x.public
  BY <1>5, <1>6 DEF RegistryInv
<1>9. \A x, y \in registry' : x.name = y.name => x = y
  BY <1>5, <1>6 DEF RegistryInv
<1> QED
  BY <1>7, <1>8, <1>9 DEF RegistryInv, L

(* At the start nothing is loaded and nothing is served. *)
LEMMA InvInit == Init => Inv
<1> SUFFICES ASSUME Init PROVE Inv
  OBVIOUS
<1>1. Len(LoadAbilityAPIMethods) \in Nat
  BY AllArePlain
<1>2. RegistryInv
  BY <1>1 DEF Init, RegistryInv
<1> QED
  BY <1>2 DEF Init, Inv, StartInv, ReplyInv

(* What is called is answered by the registry, the settings and the verifier *)
(* of the time of the call, which do not change any more. *)
LEMMA RepliesDepend ==
    ASSUME UNCHANGED registry, NEW s, NEW ready, NEW r
    PROVE  Replies(s, ready, r)' = Replies(s, ready, r)
BY DEF Replies, APIJsonRPCHandler, processWebSocketRequest, Call, executeSupportedMethod, APIExecuter

(* Every step keeps the invariant. *)
LEMMA InvStep == Inv /\ [Next]_vars => Inv'
<1> SUFFICES ASSUME Inv, [Next]_vars PROVE Inv'
  OBVIOUS
<1> USE DEF Inv
<1>1. CASE AddMethod
  <2>1. RegistryInv'
    BY <1>1, AddMethodKeeps
  <2>2. tools = {} /\ req = {}
    <3>1. ~BridgeIsSettled
      BY <1>1, AllArePlain DEF AddMethod, BridgeIsSettled, Loaded, RegistryInv
    <3> QED
      BY <3>1 DEF StartInv, ReplyInv
  <2> QED
    BY <1>1, <2>1, <2>2 DEF AddMethod, StartInv, ReplyInv
<1>2. CASE InitializeBridge
  BY <1>2 DEF InitializeBridge, RegistryInv, StartInv, ReplyInv
<1>3. CASE newMCPServer
  <2>1. UNCHANGED <<settings, registry, loaded, verifier, req, reply>>
    BY <1>3 DEF newMCPServer
  <2>2. BridgeIsSettled /\ tools' = {InputSchemaWithoutGateToken(m) : m \in registry}
    BY <1>3 DEF newMCPServer
  <2>3. \A m \in tools' : GateTokenArgument \notin m.properties
    BY <2>2, Offered DEF RegistryInv
  <2>4. PICK m : m \in registry
    BY <2>2, AllArePlain DEF RegistryInv, BridgeIsSettled, Loaded
  <2>5. tools' # {}
    BY <2>2, <2>4
  <2>6. BridgeIsSettled' /\ RegistryInv'
    BY <2>1, <2>2 DEF BridgeIsSettled, Loaded, RegistryInv
  <2>7. \A r \in req : Replies(settings, verifier, r)' = Replies(settings, verifier, r)
    BY <2>1, RepliesDepend
  <2> QED
    BY <2>1, <2>3, <2>5, <2>6, <2>7 DEF StartInv, ReplyInv
<1>4. ASSUME NEW r \in Requests, Served(r) PROVE Inv'
  <2>1. /\ req' = {r} /\ reply' = Replies(settings, verifier, r) /\ tools # {}
        /\ UNCHANGED <<settings, registry, loaded, verifier, tools>>
    BY <1>4 DEF Served
  <2>2. Replies(settings, verifier, r)' = Replies(settings, verifier, r)
    BY <2>1, RepliesDepend
  <2>3. RegistryInv' /\ StartInv'
    BY <2>1 DEF RegistryInv, StartInv, BridgeIsSettled, Loaded
  <2> QED
    BY <2>1, <2>2, <2>3 DEF ReplyInv
<1>5. CASE UNCHANGED vars
  <2>1. UNCHANGED <<settings, registry, loaded, verifier, tools, req, reply>>
    BY <1>5 DEF vars
  <2>2. \A r \in req : Replies(settings, verifier, r)' = Replies(settings, verifier, r)
    BY <2>1, RepliesDepend
  <2> QED
    BY <2>1, <2>2 DEF RegistryInv, StartInv, ReplyInv, BridgeIsSettled, Loaded
<1> QED
  BY <1>1, <1>2, <1>3, <1>4, <1>5 DEF Next

(* The inductive invariant Inv holds in every reachable state. *)
THEOREM Invariance == Spec => []Inv
BY InvInit, InvStep, PTL DEF Spec

-----------------------------------------------------------------------------
(* The gate. *)

(* The verifier tells the identity provider's tokens from others: which ones *)
(* are genuine is a constant of the module, and the run compares. *)
GenuineTokensVerify ==
    \A s \in Settings : s.bridge = "es256" =>
        \A r \in Requests : \A c \in {r.token, r.header} :
            c.token \in Genuine <=> verifyBridgeJWT(s, c.token)

(* A verifier that is set was built for one algorithm, the one it verifies.  *)
LEMMA OtherTokensFail ==
    ASSUME StartInv, verifier, NEW t, verifyBridgeJWT(settings, t)
    PROVE  settings.bridge = "es256"
<1>1. settings \in Setting
  BY SettingsAssumption DEF StartInv
<1>2. settings.bridge # "other_alg"
  BY DEF verifyBridgeJWT, jwtAlgAllowed
<1> QED
  BY <1>1, <1>2 DEF StartInv, NewBridgeTokenVerifierWorks, CurrentBridgeConfigIsValid,
                    loadBridgePublicKeyWorks, Setting

CredentialOf(r, header) == requestCredential(r.token, WithBearerToken(header))

(* The credential that counts is the explicit one, else the header's, unless *)
(* there is nothing to it. *)
LEMMA CountingCredential ==
    ASSUME NEW r \in Requests,
           CredentialOf(r, r.header).kind \in {"live", "idp"}
    PROVE  CredentialOf(r, r.header) =
               IF r.token.kind \in {"none", "blank"} THEN r.header ELSE r.token
BY DEF CredentialOf, requestCredential, WithBearerToken, NoCredential

(* Whom the gate lets in is the one that is entitled. *)
LEMMA OnlyTheEntitled ==
    ASSUME GenuineTokensVerify, StartInv, NEW r \in Requests,
           AuthenticateRequest(settings, verifier, CredentialOf(r, r.header))
               \notin {"refused", "error"}
    PROVE  /\ AuthenticateRequest(settings, verifier, CredentialOf(r, r.header)) = Entitled(r)
           /\ Entitled(r) # "nobody"
<1> DEFINE c == CredentialOf(r, r.header)
           d == IF r.token.kind \in {"none", "blank"} THEN r.header ELSE r.token
<1>1. CASE CurrentAuthType(settings) = "jwt"
  <2>1. settings.session /\ c.kind = "live" /\ AuthenticateRequest(settings, verifier, c) = "user"
    BY <1>1 DEF AuthenticateRequest, authenticateAccessToken, CurrentSessionConfigIsValid
  <2>2. c = d
    BY <2>1, CountingCredential
  <2> QED
    BY <1>1, <2>1, <2>2 DEF Entitled, CurrentAuthType
<1>2. CASE CurrentAuthType(settings) # "jwt"
  <2>1. /\ CurrentAuthType(settings) = "bridge" /\ verifier /\ c.kind = "idp"
        /\ verifyBridgeJWT(settings, c.token)
        /\ AuthenticateRequest(settings, verifier, c) = "claims"
    BY <1>2 DEF AuthenticateRequest
  <2>2. c = d /\ c \in {r.token, r.header}
    BY <2>1, CountingCredential
  <2>3. settings.bridge = "es256"
    BY <2>1, OtherTokensFail
  <2>4. c.token \in Genuine
    BY <2>1, <2>2, <2>3 DEF GenuineTokensVerify, StartInv
  <2> QED
    BY <2>1, <2>2, <2>3, <2>4 DEF Entitled, CurrentAuthType
<1> QED
  BY <1>1, <1>2

(* What GateHolds asks of one answer to a call of a protected method. *)
Gated(a, r) ==
    a.ran =>
        /\ settings.gate => a.as = Entitled(r) /\ a.as # "nobody"
        /\ ~settings.gate => a.as = "nobody"
        /\ ~a.sawToken

(* The executer gates a protected method, the gate being given the header.   *)
LEMMA ExecuterGates ==
    ASSUME GenuineTokensVerify, Inv, NEW r \in Requests, NEW q,
           q.name = r.name, q.token = r.token,
           NEW m \in Called(r), ~m.public
    PROVE  Gated(APIExecuter(settings, verifier, q, r.header), r)
<1> DEFINE a == APIExecuter(settings, verifier, q, r.header)
           as == AuthenticateRequest(settings, verifier, CredentialOf(r, r.header))
           x == CHOOSE y \in registry : y.name = q.name
<1> SUFFICES ASSUME a.ran PROVE Gated(a, r)
  BY DEF Gated
<1>1. m \in registry /\ m.name = q.name
  BY DEF Called
<1>2. x = m
  BY <1>1 DEF Inv, RegistryInv
<1>3. \A said : ~Answer(said).ran
  BY DEF Answer
<1>4. a = IF ~settings.gate THEN Execute(m, "nobody", FALSE, q)
          ELSE IF as = "refused" THEN Answer("business")
          ELSE IF as = "error" THEN Answer("internal")
          ELSE Execute(m, as, FALSE, q)
  BY <1>2, <1>3 DEF APIExecuter, TokenLeft, CredentialOf
<1>5. CASE ~settings.gate
  BY <1>4, <1>5 DEF Execute, Gated
<1>6. CASE settings.gate
  <2>1. as \notin {"refused", "error"} /\ a = Execute(m, as, FALSE, q)
    BY <1>3, <1>4, <1>6
  <2>2. as = Entitled(r) /\ as # "nobody"
    BY <2>1, OnlyTheEntitled DEF Inv
  <2> QED
    BY <1>6, <2>1, <2>2 DEF Execute, Gated
<1> QED
  BY <1>5, <1>6

IsAnswer(a) == a = [said |-> a.said, ran |-> a.ran, as |-> a.as, sawToken |-> a.sawToken]

(* The executer never closes a connection. *)
LEMMA ExecuterAnswers ==
    ASSUME NEW s, NEW ready, NEW r, NEW header
    PROVE  /\ IsAnswer(APIExecuter(s, ready, r, header))
           /\ APIExecuter(s, ready, r, header).said # "closed"
<1>1. \A said : IsAnswer(Answer(said)) /\ Answer(said).said = said
  BY DEF IsAnswer, Answer
<1>2. \A m, as, left :
         /\ IsAnswer(Execute(m, as, left, r))
         /\ Execute(m, as, left, r).said \in {"business", "value", "internal"}
  BY DEF IsAnswer, Execute, finish
<1> QED
  BY <1>1, <1>2 DEF APIExecuter

(* Only what is said may be replaced in an answer. *)
LEMMA SaidIsReplaced ==
    ASSUME NEW a, IsAnswer(a), NEW said
    PROVE  [a EXCEPT !.said = said] = [said |-> said, ran |-> a.ran, as |-> a.as, sawToken |-> a.sawToken]
<1>1. \A x, y, z, w : [[said |-> x, ran |-> y, as |-> z, sawToken |-> w] EXCEPT !.said = said]
                        = [said |-> said, ran |-> y, as |-> z, sawToken |-> w]
  OBVIOUS
<1> QED
  BY <1>1 DEF IsAnswer

(* What the adapters make of an answer keeps who ran what. *)
LEMMA AdaptersGate ==
    ASSUME GenuineTokensVerify, Inv, NEW r \in Requests, NEW p \in Protocols,
           NEW m \in Called(r), ~m.public
    PROVE  Gated(Replies(settings, verifier, r)[p], r)
<1> DEFINE a == APIExecuter(settings, verifier, r, r.header)
           j == APIJsonRPCHandler(settings, verifier, r)
           e == [r EXCEPT !.arguments = "object"]
<1>1. r \in Request
  BY RequestsAssumption
<1>2. e.name = r.name /\ e.token = r.token
  BY <1>1 DEF Request
<1>3. Gated(a, r) /\ Gated(APIExecuter(settings, verifier, e, r.header), r)
  BY <1>2, ExecuterGates
<1>4. \A said : Gated(Answer(said), r)
  BY DEF Gated, Answer
<1>5. \A b, said : IsAnswer(b) /\ Gated(b, r) =>
         IsAnswer([b EXCEPT !.said = said]) /\ Gated([b EXCEPT !.said = said], r)
  BY SaidIsReplaced DEF IsAnswer, Gated
<1>6. IsAnswer(Silenced(r, a)) /\ Gated(Silenced(r, a), r)
  BY <1>3, <1>5, ExecuterAnswers DEF Silenced
<1>7. IsAnswer(j) /\ Gated(j, r)
  BY <1>4, <1>6 DEF APIJsonRPCHandler, Answer, IsAnswer
<1>8. Gated(processWebSocketRequest(settings, verifier, r), r)
  BY <1>5, <1>7 DEF processWebSocketRequest
<1>9. Gated(Call(settings, verifier, r), r)
  BY <1>3, <1>4 DEF Call
<1>10. Gated(executeSupportedMethod(settings, verifier, r), r)
  BY <1>3, <1>4 DEF executeSupportedMethod
<1> QED
  BY <1>7, <1>8, <1>9, <1>10 DEF Replies, Protocols

(* Over whatever protocol, a protected method runs for the one whose         *)
(* credential counts, for nobody if the gate is off, and without the         *)
(* credential; MCP offers no tool that asks for it. *)
THEOREM GateIsHeld == GenuineTokensVerify => (Spec => []GateHolds)
<1> SUFFICES ASSUME GenuineTokensVerify PROVE Spec => []GateHolds
  OBVIOUS
<1>1. Inv => GateHolds
  <2> SUFFICES ASSUME Inv PROVE GateHolds
    OBVIOUS
  <2>1. ASSUME NEW r \in req, NEW p \in Protocols, NEW m \in Called(r), reply[p].ran, ~m.public
        PROVE  /\ settings.gate => reply[p].as = Entitled(r) /\ reply[p].as # "nobody"
               /\ ~settings.gate => reply[p].as = "nobody"
               /\ ~reply[p].sawToken
    <3>1. r \in Requests /\ reply = Replies(settings, verifier, r)
      BY DEF Inv, ReplyInv
    <3> QED
      BY <2>1, <3>1, AdaptersGate DEF Gated
  <2> QED
    BY <2>1 DEF GateHolds, Inv, RegistryInv, StartInv
<1> QED
  BY <1>1, Invariance, PTL

-----------------------------------------------------------------------------
(* The protocols. *)

(* The answer to a complete call of a registered method is the executer's,   *)
(* with the failure of a WebSocket said in its way. *)
LEMMA CompleteCalls ==
    ASSUME NEW r \in Requests, Complete(r), Called(r) # {}, NEW s, NEW ready
    PROVE  /\ APIJsonRPCHandler(s, ready, r) = APIExecuter(s, ready, r, r.header)
           /\ Call(s, ready, r) = APIExecuter(s, ready, r, r.header)
           /\ executeSupportedMethod(s, ready, r) = APIExecuter(s, ready, r, r.header)
<1>1. APIJsonRPCHandler(s, ready, r) = APIExecuter(s, ready, r, r.header)
  BY DEF Complete, APIJsonRPCHandler, ParserRequestFails, Silenced
<1>2. Call(s, ready, r) = APIExecuter(s, ready, r, r.header)
  BY DEF Complete, Call
<1>3. executeSupportedMethod(s, ready, r) = APIExecuter(s, ready, r, r.header)
  BY DEF Complete, Called, executeSupportedMethod
<1> QED
  BY <1>1, <1>2, <1>3

(* A complete call has the same effect and the same answer over each         *)
(* protocol. *)
THEOREM ProtocolsDoTheSame == Spec => []ProtocolsAgree
<1>1. Inv => ProtocolsAgree
  <2> SUFFICES ASSUME Inv, NEW r \in req, Complete(r), Called(r) # {}, NEW p \in Protocols
               PROVE  /\ Said(p) = Said("jsonRPC")
                      /\ reply[p].ran = reply["jsonRPC"].ran
                      /\ reply[p].as = reply["jsonRPC"].as
    BY DEF ProtocolsAgree
  <2> DEFINE a == APIExecuter(settings, verifier, r, r.header)
  <2>1. r \in Requests /\ reply = Replies(settings, verifier, r)
    BY DEF Inv, ReplyInv
  <2>2. /\ reply["jsonRPC"] = a /\ reply["grpc"] = a /\ reply["mcp"] = a
        /\ reply["websocket"] = IF a.said = "internal" THEN [a EXCEPT !.said = "closed"] ELSE a
    BY <2>1, CompleteCalls DEF Replies, processWebSocketRequest
  <2>3. IsAnswer(a) /\ a.said # "closed"
    BY ExecuterAnswers
  <2> HIDE DEF a
  <2>4. a.said = "internal" =>
            reply["websocket"] = [said |-> "closed", ran |-> a.ran, as |-> a.as, sawToken |-> a.sawToken]
    BY <2>2, <2>3, SaidIsReplaced
  <2> QED
    BY <2>2, <2>3, <2>4 DEF Said, Protocols
<1> QED
  BY <1>1, Invariance, PTL

=============================================================================
