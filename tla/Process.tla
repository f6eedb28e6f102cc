------------------------------ MODULE Process ------------------------------
(***************************************************************************)
(* One run of the program after the other (main.go): the configuration     *)
(* file, the storage, the protocol servers, the policy scheduler and the   *)
(* front end are brought up in order; a signal, or a step that fails,      *)
(* unwinds the deferred calls in the opposite order.                       *)
(*                                                                         *)
(* A handler is a request that a protocol server works on: it is busy, or  *)
(* it holds the database that GormDB gave it.  The policy scheduler is     *)
(* module Policy; here its goroutines are one worker.                      *)
(***************************************************************************)
EXTENDS Storage, SequencesExt

CONSTANTS
    OperatorFiles,  \* configuration files that an operator may leave
    MaxFaults,      \* bound: failing calls and crashes
    MaxStarts,      \* bound: runs of the program
    MaxRequests     \* bound: requests that are worked on at the same time

ASSUME BoundsAssumption == MaxFaults \in Nat /\ MaxStarts \in Nat /\ MaxRequests \in Nat

VARIABLES
    file,      \* the configuration file on disk
    byHand,    \* history: the operator wrote it
    pc,        \* where main is
    defers,    \* main's deferred calls, the latest one last
    gate,      \* AuthGateEnabled
    server,    \* the protocol servers
    handler,   \* one request of each
    worker,    \* the goroutines that stopPolicy waits for
    starts, faults

mainVars == <<file, byHand, pc, defers, gate, server, handler, worker, starts, faults>>
vars == <<storageVars, mainVars>>

Protocols == {"grpc", "websocket", "mcp", "jsonRPC"}

(* The sections in the order of FileConfig; a missing one is a nil pointer. *)
FileConfigs ==
    [storage : StorageSections, api : {"absent", "invalid", "valid"},
     frontend : {"absent", "off", "invalid", "on"}, auth : {"absent", "off", "on"},
     decodes : BOOLEAN]

ASSUME OperatorAssumption == OperatorFiles \subseteq FileConfigs

Absent == [storage |-> NoStorageSection, api |-> "absent", frontend |-> "absent",
           auth |-> "absent", decodes |-> TRUE]
NoFile == [Absent EXCEPT !.decodes = FALSE]

generateDefaultConfig ==
    [storage |-> DefaultStorage, api |-> "valid", frontend |-> "on", auth |-> "on",
     decodes |-> TRUE]

(* What a SaveConfig that is cut short leaves: the leading sections, or a   *)
(* section cut in the middle. *)
Torn ==
    {Absent, [Absent EXCEPT !.storage = DefaultStorage],
     [Absent EXCEPT !.storage = DefaultStorage, !.api = "valid"],
     [Absent EXCEPT !.storage = DefaultStorage, !.api = "valid", !.frontend = "on"],
     [generateDefaultConfig EXCEPT !.decodes = FALSE]}

Init ==
    /\ StorageInit
    /\ file \in {NoFile} \cup OperatorFiles
    /\ byHand = (file # NoFile)
    /\ pc = "down" /\ defers = <<>> /\ gate = TRUE
    /\ server = [p \in Protocols |-> "off"]
    /\ handler = [p \in Protocols |-> "none"]
    /\ worker = "off"
    /\ starts = 0 /\ faults = 0

Fault == faults < MaxFaults /\ faults' = faults + 1

At(from, to) == pc = from /\ pc' = to

Start ==
    /\ At("down", "sync")
    /\ starts < MaxStarts /\ starts' = starts + 1
    /\ defers' = <<>>
    /\ UNCHANGED <<storageVars, file, byHand, gate, server, handler, worker, faults>>

-----------------------------------------------------------------------------
(* SyncConfigFile and LoadConfig. *)

Unwritten == file \in {NoFile, Absent}

FileIsThere ==
    /\ At("sync", "load") /\ ~Unwritten
    /\ UNCHANGED <<storageVars, file, byHand, defers, gate, server, handler, worker, starts, faults>>

SaveConfig ==
    /\ At("sync", "load") /\ Unwritten
    /\ file' = generateDefaultConfig /\ byHand' = FALSE
    /\ UNCHANGED <<storageVars, defers, gate, server, handler, worker, starts, faults>>

(* The write fails, or the process dies in it. *)
SaveConfigTorn ==
    /\ At("sync", "down") /\ Unwritten /\ Fault
    /\ file' \in Torn /\ byHand' = FALSE
    /\ UNCHANGED <<storageVars, defers, gate, server, handler, worker, starts>>

FrontendValid(f) == f.frontend # "invalid"

LoadConfigFails(f) == ~f.decodes \/ ApplyFails(f.storage) \/ ~FrontendValid(f)

(* Mutant: a missing section opens the gate. *)
GateOnlyIfSet(auth) == auth = "on"

AuthGateEnabled(auth) == auth # "off"

LoadConfig ==
    /\ pc = "load"
    /\ IF LoadConfigFails(file)
       THEN pc' = "exiting" /\ UNCHANGED <<cfg, gate>>
       ELSE pc' = "open" /\ cfg' = Apply(file.storage) /\ gate' = AuthGateEnabled(file.auth)
    /\ UNCHANGED <<step, open, primary, file, byHand, defers, server, handler, worker, starts,
                   faults>>

-----------------------------------------------------------------------------
(* main: every failure returns, which runs what was deferred so far. *)

OpenStorage ==
    /\ pc = "open"
    /\ \/ OpenEngineFails /\ Fault /\ pc' = "exiting" /\ UNCHANGED defers
       \/ NoDatabase /\ pc' = "exiting" /\ UNCHANGED <<defers, faults>>
       \/ (OpenBegins \/ SkipEngine \/ OpenEngine) /\ UNCHANGED <<pc, defers, faults>>
       \/ ChoosePrimary /\ pc' = "migrate" /\ defers' = <<"storage">> /\ UNCHANGED faults
    /\ UNCHANGED <<file, byHand, gate, server, handler, worker, starts>>

GormAutoMigrate ==
    /\ pc = "migrate"
    /\ \/ Migratable /\ pc' = "api" /\ UNCHANGED faults
       \/ Fault /\ pc' = "exiting"
    /\ UNCHANGED <<storageVars, file, byHand, defers, gate, server, handler, worker, starts>>

(* Started, or its port is taken and that is only logged. *)
Listening == {[q \in Protocols |-> IF q \in down THEN "off" ELSE "on"] :
                down \in {{}} \cup {{p} : p \in Protocols}}

(* Mutant: gRPC is not stopped. *)
StopWithoutGRPC == <<"jsonRPC", "mcp", "websocket">>

StopOrder == <<"jsonRPC", "mcp", "websocket", "grpc">>

(* Mutant: the storage is closed before the scheduler has stopped. *)
DefersSwapped == <<"policy", "storage">> \o StopOrder

Defers == <<"storage", "policy">> \o StopOrder

(* ApiCfg.Validate, StartAPIServices, PolicyServicesStart and their defers. *)
StartAPIServices ==
    /\ pc = "api"
    /\ IF file.api = "valid"
       THEN /\ pc' = "frontend"
            /\ server' \in Listening
            /\ worker' = "idle"
            /\ defers' = Defers
       ELSE pc' = "exiting" /\ UNCHANGED <<server, worker, defers>>
    /\ UNCHANGED <<storageVars, file, byHand, gate, handler, starts, faults>>

FrontendServicesStart ==
    /\ pc = "frontend"
    /\ \/ pc' = "serving" /\ UNCHANGED faults
          /\ defers' = IF file.frontend = "on" THEN Append(defers, "frontend") ELSE defers
       \/ file.frontend = "on" /\ Fault /\ pc' = "exiting" /\ UNCHANGED defers
    /\ UNCHANGED <<storageVars, file, byHand, gate, server, handler, worker, starts>>

(* A signal; ExitApp sends another one that nobody waits for any more. *)
LoadSigHandle ==
    /\ At("serving", "exiting")
    /\ UNCHANGED <<storageVars, file, byHand, defers, gate, server, handler, worker, starts, faults>>

-----------------------------------------------------------------------------
(* Requests and policy work. *)

Running(d) == pc = "exiting" /\ defers # <<>> /\ Last(defers) = d

Request(p) ==
    /\ server[p] = "on" /\ ~Running(p) /\ handler[p] = "none"
    /\ Cardinality({q \in Protocols : handler[q] # "none"}) < MaxRequests
    /\ handler' = [handler EXCEPT ![p] = "busy"]
    /\ UNCHANGED <<storageVars, file, byHand, pc, defers, gate, server, worker, starts, faults>>

(* Stop of gRPC and the cancel of the WebSocket server cancel the contexts   *)
(* of their requests; Shutdown of an HTTP server does not. *)
ContextLives(p) == p \in {"grpc", "websocket"} => server[p] = "on"

HandlerQueries(p) ==
    /\ handler[p] = "busy" /\ ContextLives(p) /\ GormDB # NoDB
    /\ handler' = [handler EXCEPT ![p] = "holding"]
    /\ UNCHANGED <<storageVars, file, byHand, pc, defers, gate, server, worker, starts, faults>>

HandlerReturns(p) ==
    /\ handler[p] # "none"
    /\ handler' = [handler EXCEPT ![p] = "none"]
    /\ UNCHANGED <<storageVars, file, byHand, pc, defers, gate, server, worker, starts, faults>>

PolicyWorks ==
    /\ worker = "idle" /\ ~Running("policy")
    /\ GormDB # NoDB \/ MysqlDB # NoDB
    /\ worker' = "holding"
    /\ UNCHANGED <<storageVars, file, byHand, pc, defers, gate, server, handler, starts, faults>>

PolicyRests ==
    /\ worker = "holding"
    /\ worker' = "idle"
    /\ UNCHANGED <<storageVars, file, byHand, pc, defers, gate, server, handler, starts, faults>>

-----------------------------------------------------------------------------
(* The deferred calls. *)

Pop == defers' = Front(defers)

StopFrontend ==
    /\ Running("frontend")
    /\ Pop
    /\ UNCHANGED <<storageVars, file, byHand, pc, gate, server, handler, worker, starts, faults>>

Stops(p, left) ==
    /\ Running(p)
    /\ server' = [server EXCEPT ![p] = left]
    /\ Pop
    /\ UNCHANGED <<storageVars, file, byHand, pc, gate, handler, worker, starts, faults>>

(* A graceful stop waits for the handler, and gives up after 5 s. *)
Waited(p) == IF handler[p] = "none" THEN "off" ELSE "gave_up"

(* Mutant: the graceful stop has no deadline. *)
StopGRPCWithoutDeadline == handler["grpc"] = "none" /\ Stops("grpc", "off")

(* After the deadline the contexts are cancelled, and nobody waits. *)
StopApiServiceWithGRPC == Stops("grpc", Waited("grpc"))

(* A WebSocket connection is hijacked: Shutdown does not wait for it. *)
StopApiServiceWithWebSocket == Stops("websocket", "off")

StopApiServiceWithMCP == Stops("mcp", Waited("mcp"))

StopApiServiceWithJsonRPC == Stops("jsonRPC", Waited("jsonRPC"))

stopPolicy ==
    /\ Running("policy") /\ worker = "idle"
    /\ worker' = "off"
    /\ Pop
    /\ UNCHANGED <<storageVars, file, byHand, pc, gate, server, handler, starts, faults>>

DeferredCloseStorage ==
    /\ Running("storage")
    /\ CloseStorage
    /\ Pop
    /\ UNCHANGED <<file, byHand, pc, gate, server, handler, worker, starts, faults>>

Reset ==
    /\ server' = [p \in Protocols |-> "off"]
    /\ handler' = [p \in Protocols |-> "none"]
    /\ worker' = "off"

Exit ==
    /\ At("exiting", "down") /\ defers = <<>>
    /\ Reset
    /\ UNCHANGED <<storageVars, file, byHand, defers, gate, starts, faults>>

Crash ==
    /\ pc # "down" /\ pc' = "down" /\ Fault
    /\ closeStorageLocked /\ step' = 0
    /\ Reset
    /\ defers' = <<>>
    /\ UNCHANGED <<cfg, file, byHand, gate, starts>>

-----------------------------------------------------------------------------
Main ==
    \/ FileIsThere \/ SaveConfig \/ LoadConfig \/ OpenStorage \/ GormAutoMigrate
    \/ StartAPIServices \/ FrontendServicesStart
    \/ StopFrontend
    \/ StopApiServiceWithGRPC \/ StopApiServiceWithWebSocket
    \/ StopApiServiceWithMCP \/ StopApiServiceWithJsonRPC
    \/ stopPolicy \/ DeferredCloseStorage \/ Exit

Serve == \E p \in Protocols : Request(p) \/ HandlerQueries(p) \/ HandlerReturns(p)

Next ==
    Start \/ SaveConfigTorn \/ Main \/ LoadSigHandle \/ Serve \/ PolicyWorks \/ PolicyRests \/ Crash

Spec == Init /\ [][Next]_vars

(* main and the goroutines of the scheduler go on; handlers need not. *)
FairSpec == Spec /\ WF_vars(Main) /\ WF_vars(PolicyRests)

-----------------------------------------------------------------------------
(* Properties. *)

(* Every variable stays in its domain, and what runs is deferred to stop. *)
TypeOK ==
    /\ cfg \in StorageConfigs
    /\ step \in 0..(Len(OpenOrder) + 1)
    /\ open \subseteq Engines /\ primary \in Relational \cup {NoDB}
    /\ file \in FileConfigs
    /\ byHand \in BOOLEAN /\ gate \in BOOLEAN
    /\ pc \in {"down", "sync", "load", "open", "migrate", "api", "frontend", "serving", "exiting"}
    /\ Range(defers) \subseteq Protocols \cup {"storage", "policy", "frontend"}
    /\ server \in [Protocols -> {"off", "on", "gave_up"}]
    /\ handler \in [Protocols -> {"none", "busy", "holding"}]
    /\ worker \in {"off", "idle", "holding"}
    /\ worker # "off" => Contains(defers, "policy")
    /\ \A p \in Protocols : server[p] = "on" => Contains(defers, p)
    /\ starts \in 0..MaxStarts /\ faults \in 0..MaxFaults

(* main.go:117: whatever step of a start fails, and however it is stopped,   *)
(* the program leaves no engine open. *)
EveryExitClosesStorage == pc = "down" => open = {} /\ primary = NoDB

(* main.go:135: the storage is closed under a user of it only if his server  *)
(* gave up waiting, or if he is a WebSocket connection, for which nobody     *)
(* waits; never under a task of the scheduler. *)
StorageOutlivesItsUsers ==
    open = {} =>
        /\ worker # "holding"
        /\ \A p \in Protocols : handler[p] = "holding" => server[p] = "gave_up" \/ p = "websocket"

(* storage.go:76: while requests come in it is settled which open database   *)
(* GormDB hands out; only a program whose database is redis has none. *)
PrimaryIsDecided ==
    pc = "serving" =>
        \/ primary \in open \cap Relational /\ cfg.primary \in {"", primary}
        \/ open = {"redis"} /\ cfg.redisDatabase

(* api_auth_config.go:73: the gate is open only by the hand of an operator,  *)
(* also after a first start that did not finish writing its file. *)
GateOpensOnlyByHand == pc = "serving" /\ ~byHand => gate

(* common.go:55: a program that was told to stop stops, even if a request    *)
(* never returns. *)
ShutdownEnds == pc = "exiting" ~> pc = "down"

=============================================================================
