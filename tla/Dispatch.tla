------------------------------ MODULE Dispatch ------------------------------
(***************************************************************************)
(* From a request of one of the four protocols to the answer: the methods  *)
(* are registered when the program starts, and APIExecuter takes every     *)
(* call through arguments, registry, gate and method.  A call shares no    *)
(* state with another one, so a step is a whole call; here each call is    *)
(* made over every protocol at once, to compare the answers.               *)
(*                                                                         *)
(* What a session or a logout does to a token is in Session and            *)
(* Revocation: here an access token is live or stale.  Times of an         *)
(* identity provider's token are relative to the time of the call.         *)
(***************************************************************************)
EXTENDS Integers, Sequences

CONSTANTS
    Settings,   \* configurations that are tried
    Requests,   \* calls that are tried
    Genuine,    \* the tokens among them that are the identity provider's and in their time
    Leeway      \* leeway of the bridge verifier: 60 s by default

ASSUME LeewayAssumption == Leeway \in Nat \ {0}

(* api_cfg and auth_cfg as they may be read; session says whether the session *)
(* section can be used, bridge what became of the bridge section and its key  *)
(* file. *)
Setting ==
    [encrypted : BOOLEAN, gate : BOOLEAN, authType : {"jwt", "bridge", "unknown"},
     session : BOOLEAN,
     bridge : {"absent", "no_path", "alg_none", "bad_key", "other_alg", "es256"}]

(* A claim of a token is the set of its values: an absent or zero one is {}.  *)
Token ==
    [parts : Nat, alg : STRING, signature : {"valid", "wrong"},
     exp : SUBSET Int, nbf : SUBSET Int, iat : SUBSET Int, sub : STRING]

(* Of the tokens of this service, the session of a live one is found, that of *)
(* a stale one is over, and an unread one meets a database error. *)
Credential ==
    [kind : {"none", "blank", "oversize", "live", "stale", "unread", "idp"}, token : Token]
Request ==
    [envelope : STRING, id : {"set", "none"}, method : STRING, params : STRING,
     name : STRING, arguments : {"missing", "other", "object", "sealed"},
     token : Credential, header : Credential,
     outcome : {"value", "business", "failure"}]

ASSUME SettingsAssumption == Settings \subseteq Setting
ASSUME RequestsAssumption == Requests \subseteq Request

VARIABLES
    settings,   \* api_cfg and auth_cfg
    registry,   \* currentSupportedMethods
    loaded,     \* how many methods have been added
    verifier,   \* currentBridgeVerifier is set
    tools,      \* the tools that MCP offers
    req, reply  \* the latest call, and its answers

vars == <<settings, registry, loaded, verifier, tools, req, reply>>

Protocols == {"jsonRPC", "websocket", "grpc", "mcp"}
GateTokenArgument == "jwt_token"

-----------------------------------------------------------------------------
(* The registry. *)

Declared(name, public, properties) ==
    [name |-> name, public |-> public, async |-> FALSE, user |-> ~public,
     properties |-> properties]

(* The methods in the order of their packages: user tells whether Execute     *)
(* asks for AuthenticatedUser. *)
AuthVerifyCodeMethods ==
    <<Declared("auth.verify_code.send.email", TRUE, {"email"}),
      Declared("auth.verify_code.check.email", TRUE, {"email", "verify_code"}),
      Declared("auth.verify_code.send.sms", TRUE, {"phone"}),
      Declared("auth.verify_code.check.sms", TRUE, {"phone", "verify_code"})>>

AuthRegisterMethods ==
    <<Declared("auth.register", TRUE, {"user_name", "email", "password", "verify_code"})>>

AuthSessionMethods ==
    <<Declared("auth.login.email", TRUE, {"login_method", "email", "password"}),
      Declared("auth.login.phone", TRUE, {"login_method", "phone", "password", "verify_code"}),
      Declared("auth.logout", FALSE, {}),
      Declared("auth.jwt_token.check", FALSE, {}),
      Declared("auth.jwt_token.refresh", TRUE, {"refresh_token"})>>

UserProfileMethods == <<Declared("user.nickname.change", FALSE, {"nick_name"})>>

TaskMethods ==
    <<Declared("task.get", FALSE, {"task_id"}),
      Declared("task.list", FALSE, {}),
      Declared("task.cancel", FALSE, {"task_id"})>>

(* A method that a project adds, and an asynchronous one. *)
OwnMethods ==
    <<[Declared("own.report", FALSE, {"day"}) EXCEPT !.user = FALSE],
      [Declared("own.export", FALSE, {"day"}) EXCEPT !.user = FALSE, !.async = TRUE]>>

LoadAbilityAPIMethods ==
    <<Declared("test", TRUE, {})>> \o AuthVerifyCodeMethods \o AuthRegisterMethods
        \o AuthSessionMethods \o UserProfileMethods \o TaskMethods \o OwnMethods

injectGateTokenSchema(m) ==
    IF m.public THEN m ELSE [m EXCEPT !.properties = @ \cup {GateTokenArgument}]

(* A name twice, or a jwt_token of the method's own, panics at the start. *)
AddMethod ==
    /\ loaded < Len(LoadAbilityAPIMethods)
    /\ LET m == LoadAbilityAPIMethods[loaded + 1] IN
       /\ \A other \in registry : other.name # m.name
       /\ ~m.public => GateTokenArgument \notin m.properties
       /\ registry' = registry \cup {injectGateTokenSchema(m)}
    /\ loaded' = loaded + 1
    /\ UNCHANGED <<settings, verifier, tools, req, reply>>

Loaded == loaded = Len(LoadAbilityAPIMethods)

InputSchemaWithoutGateToken(m) ==
    IF m.public THEN m ELSE [m EXCEPT !.properties = @ \ {GateTokenArgument}]

-----------------------------------------------------------------------------
(* Credentials. *)

GoodToken == [parts |-> 3, alg |-> "ES256", signature |-> "valid",
              exp |-> {1}, nbf |-> {0}, iat |-> {0}, sub |-> "name"]

NoCredential == [kind |-> "none", token |-> GoodToken]

CurrentBridgeConfigIsValid(s) == s.bridge \notin {"absent", "no_path", "alg_none"}

loadBridgePublicKeyWorks(s) == s.bridge # "bad_key"

NewBridgeTokenVerifierWorks(s) == CurrentBridgeConfigIsValid(s) /\ loadBridgePublicKeyWorks(s)

jwtAlgAllowed(s, alg) ==
    alg # "none" /\ alg \in (IF s.bridge = "other_alg" THEN {"RS256"} ELSE {"ES256"})

jwtSubjectString(sub) == sub \in {"name", "number"}

verifyBridgeJWT(s, t) ==
    /\ t.parts = 3
    /\ jwtAlgAllowed(s, t.alg) /\ t.alg = "ES256"
    /\ t.signature = "valid"
    /\ t.exp # {} /\ \A x \in t.exp : x + Leeway >= 0
    /\ \A x \in t.nbf \cup t.iat : x <= Leeway
    /\ jwtSubjectString(t.sub)

WithBearerToken(header) == IF header.kind = "blank" THEN NoCredential ELSE header

(* Mutant: the header comes first. *)
headerCredential(explicit, bearer) ==
    IF bearer.kind # "none" THEN bearer ELSE explicit

requestCredential(explicit, bearer) ==
    LET c == IF explicit.kind \in {"none", "blank"} THEN bearer ELSE explicit IN
    IF c.kind = "oversize" THEN NoCredential ELSE c

CurrentAuthType(s) == s.authType

CurrentSessionConfigIsValid(s) == s.session

(* Who a token of this service is from: an error that is no verdict on the    *)
(* token is passed on as it is. *)
authenticateAccessToken(s, c) ==
    IF c.kind = "none" THEN "refused"
    ELSE IF ~CurrentSessionConfigIsValid(s) \/ c.kind = "unread" THEN "error"
    ELSE IF c.kind = "live" THEN "user"
    ELSE "refused"

(* Mutant: a type that is not known is taken for jwt. *)
AuthenticateUnknownAsJWT(s, ready, c) ==
    IF CurrentAuthType(s) # "bridge" THEN authenticateAccessToken(s, c)
    ELSE IF ready /\ c.kind = "idp" /\ verifyBridgeJWT(s, c.token)
         THEN "claims"
    ELSE "refused"

AuthenticateRequest(s, ready, c) ==
    IF CurrentAuthType(s) = "jwt" THEN authenticateAccessToken(s, c)
    ELSE IF CurrentAuthType(s) = "bridge" /\ ready /\ c.kind = "idp" /\ verifyBridgeJWT(s, c.token)
         THEN "claims"
    ELSE "refused"

-----------------------------------------------------------------------------
(* APIExecuter: what is said, whether the method ran or its task was         *)
(* stored, for whom, and whether it saw a gate token. *)

Answer(said) == [said |-> said, ran |-> FALSE, as |-> "nobody", sawToken |-> FALSE]

(* A business error is a result that says so, any other one a failure. *)
finish(outcome) == IF outcome \in {"value", "business"} THEN outcome ELSE "internal"

(* AuthenticatedUser refuses who is no user of this service. *)
Execute(m, as, tokenLeft, r) ==
    [said |-> IF m.user /\ as # "user" THEN "business" ELSE finish(r.outcome),
     ran |-> TRUE, as |-> as, sawToken |-> tokenLeft]

extractCallFails(r) ==
    \/ r.method # "tools/call"
    \/ r.params # "object"
    \/ r.name = ""
    \/ r.arguments = "missing"

normalizeArgumentsFails(s, r) == r.arguments # (IF s.encrypted THEN "sealed" ELSE "object")

HasToken(r) == r.token.kind # "none"

(* Mutant: the argument is removed only if the gate has looked at it. *)
DeleteChecked(s, r) == ~s.gate /\ HasToken(r)

(* delete(abilityParams, "jwt_token") of a protected method. *)
TokenLeft(s, r) == FALSE

APIExecuter(s, ready, r, header) ==
    IF extractCallFails(r) THEN Answer("invalid")
    ELSE IF normalizeArgumentsFails(s, r) \/ (\A m \in registry : m.name # r.name)
         THEN Answer("business")
    ELSE LET m == CHOOSE x \in registry : x.name = r.name
             as == AuthenticateRequest(s, ready, requestCredential(r.token, WithBearerToken(header)))
         IN  IF m.public THEN Execute(m, "nobody", HasToken(r), r)
             ELSE IF ~s.gate THEN Execute(m, "nobody", TokenLeft(s, r), r)
             ELSE IF as = "refused" THEN Answer("business")
             ELSE IF as = "error" THEN Answer("internal")
             ELSE Execute(m, as, TokenLeft(s, r), r)

-----------------------------------------------------------------------------
(* The adapters. *)

ParserRequestFails(r) == r.envelope # "ok"

(* A call without an id gets no result, but errors are answered. *)
Silenced(r, a) == IF r.id = "none" /\ a.said \in {"value", "business"}
                  THEN [a EXCEPT !.said = "silent"] ELSE a

APIJsonRPCHandler(s, ready, r) ==
    IF ParserRequestFails(r) THEN Answer("invalid")
    ELSE Silenced(r, APIExecuter(s, ready, r, r.header))

(* A failure closes the connection. *)
processWebSocketRequest(s, ready, r) ==
    LET a == APIJsonRPCHandler(s, ready, r) IN
    IF a.said = "internal" THEN [a EXCEPT !.said = "closed"] ELSE a

(* Mutant: the metadata is not read. *)
CallWithoutMetadata(s, ready, r) ==
    IF r.id = "none" THEN Answer("invalid") ELSE APIExecuter(s, ready, r, NoCredential)

Call(s, ready, r) ==
    IF r.id = "none" THEN Answer("invalid") ELSE APIExecuter(s, ready, r, r.header)

(* The SDK answers for tools that were not added, and refuses a call without *)
(* an id; no arguments are an empty object. *)
executeSupportedMethod(s, ready, r) ==
    IF \/ r.id = "none" \/ r.method # "tools/call" \/ r.params # "object"
       \/ \A m \in registry : m.name # r.name
    THEN Answer("invalid")
    ELSE APIExecuter(s, ready,
             IF r.arguments = "missing" THEN [r EXCEPT !.arguments = "object"] ELSE r, r.header)

Replies(s, ready, r) ==
    [jsonRPC   |-> APIJsonRPCHandler(s, ready, r),
     websocket |-> processWebSocketRequest(s, ready, r),
     grpc      |-> Call(s, ready, r),
     mcp       |-> executeSupportedMethod(s, ready, r)]

-----------------------------------------------------------------------------

Init ==
    /\ settings \in Settings
    /\ registry = {} /\ loaded = 0
    /\ verifier = FALSE
    /\ tools = {}
    /\ req = {} /\ reply = [p \in Protocols |-> Answer("none")]

(* The servers start with whatever the bridge came to. *)
BridgeIsSettled ==
    /\ Loaded
    /\ (CurrentAuthType(settings) = "bridge" /\ NewBridgeTokenVerifierWorks(settings)) => verifier

(* StartAPIServices, before the servers: an error is only logged. *)
InitializeBridge ==
    /\ Loaded /\ tools = {} /\ CurrentAuthType(settings) = "bridge"
    /\ NewBridgeTokenVerifierWorks(settings)
    /\ verifier' = TRUE
    /\ UNCHANGED <<settings, registry, loaded, tools, req, reply>>

(* Mutant: the schema is changed instead of a copy. *)
newMCPServerInPlace ==
    /\ BridgeIsSettled
    /\ registry' = {InputSchemaWithoutGateToken(m) : m \in registry}
    /\ tools' = registry'
    /\ UNCHANGED <<settings, loaded, verifier, req, reply>>

(* A server for each HTTP request. *)
newMCPServer ==
    /\ BridgeIsSettled
    /\ tools' = {InputSchemaWithoutGateToken(m) : m \in registry}
    /\ UNCHANGED <<settings, registry, loaded, verifier, req, reply>>

Served(r) ==
    /\ tools # {}
    /\ req' = {r}
    /\ reply' = Replies(settings, verifier, r)
    /\ UNCHANGED <<settings, registry, loaded, verifier, tools>>

Next ==
    \/ AddMethod
    \/ InitializeBridge
    \/ newMCPServer
    \/ (req = {} /\ \E r \in Requests : Served(r))

Spec == Init /\ [][Next]_vars

-----------------------------------------------------------------------------
(* Properties. *)

(* Whom a call is made for: the explicit token decides if there is one, else *)
(* the header (api_supported_methods.go:16). *)
Entitled(r) ==
    LET c == IF r.token.kind \in {"none", "blank"} THEN r.header ELSE r.token IN
    IF settings.authType = "jwt" /\ settings.session /\ c.kind = "live" THEN "user"
    ELSE IF /\ settings.authType = "bridge" /\ settings.bridge = "es256"
            /\ c.kind = "idp" /\ c.token \in Genuine
         THEN "claims"
    ELSE "nobody"

Called(r) == {m \in registry : m.name = r.name}

(* api_supported_methods.go:14-18: over whatever protocol, a protected       *)
(* method runs for the one whose credential counts, and for nobody else      *)
(* unless the gate was switched off; it does not see the credential.  MCP    *)
(* does not offer the token as an argument, while the registry, which the    *)
(* other protocols and the generated document describe, keeps it. *)
GateHolds ==
    /\ \A r \in req : \A p \in Protocols : \A m \in Called(r) :
           reply[p].ran /\ ~m.public =>
               /\ settings.gate => reply[p].as = Entitled(r) /\ reply[p].as # "nobody"
               /\ ~settings.gate => reply[p].as = "nobody"
               /\ ~reply[p].sawToken
    /\ \A m \in registry : (GateTokenArgument \in m.properties) <=> ~m.public
    /\ \A m \in tools : GateTokenArgument \notin m.properties

Said(p) == IF reply[p].said = "closed" THEN "internal" ELSE reply[p].said
Complete(r) ==
    /\ r.envelope = "ok" /\ r.id = "set"
    /\ r.method = "tools/call" /\ r.params = "object" /\ r.arguments # "missing"

(* The protocols differ in form, never in what they do                       *)
(* (api_executer.go:27): a complete call of a registered method has the same *)
(* effect and the same answer over each; a failure closes a WebSocket. *)
ProtocolsAgree ==
    \A r \in req : (Complete(r) /\ Called(r) # {}) =>
        \A p \in Protocols :
            /\ Said(p) = Said("jsonRPC")
            /\ reply[p].ran = reply["jsonRPC"].ran /\ reply[p].as = reply["jsonRPC"].as

=============================================================================
