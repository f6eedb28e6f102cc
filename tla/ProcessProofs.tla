--------------------------- MODULE ProcessProofs ---------------------------
(***************************************************************************)
(* The safety properties of Process and of the Storage below it, for any   *)
(* configuration files an operator leaves, any number of runs of the       *)
(* program, of failing calls and crashes, and of requests at a time.       *)
(***************************************************************************)
EXTENDS Process, FiniteSetTheorems, SequenceTheorems, TLAPS

-----------------------------------------------------------------------------
(* The inductive invariant. *)

Names == Protocols \cup {"storage", "policy", "frontend"}

DeferOrder == Append(Defers, "frontend")

(* TypeOK without what it says of defers. *)
Domains ==
    /\ cfg \in StorageConfigs /\ step \in 0..5
    /\ open \subseteq Engines /\ primary \in Relational \cup {NoDB}
    /\ file \in FileConfigs /\ byHand \in BOOLEAN /\ gate \in BOOLEAN
    /\ pc \in {"down", "sync", "load", "open", "migrate", "api", "frontend", "serving", "exiting"}
    /\ server \in [Protocols -> {"off", "on", "gave_up"}]
    /\ handler \in [Protocols -> {"none", "busy", "holding"}]
    /\ worker \in {"off", "idle", "holding"}
    /\ starts \in 0..MaxStarts /\ faults \in 0..MaxFaults

(* How many calls are deferred once a name's is. *)
Height ==
    [storage |-> 1, policy |-> 2, jsonRPC |-> 3, mcp |-> 4, websocket |-> 5, grpc |-> 6,
     frontend |-> 7]

(* s is a lower part of the full stack. *)
Stacked(s) ==
    /\ s \in Seq(Names) /\ Len(s) <= 7
    /\ \A i \in 1..Len(s) : s[i] = DeferOrder[i]

(* main defers as it climbs. *)
DefersInv ==
    /\ Stacked(defers)
    /\ pc \in {"down", "sync", "load", "open"} => Len(defers) = 0
    /\ pc \in {"migrate", "api"} => Len(defers) = 1
    /\ pc = "frontend" => Len(defers) = 6
    /\ pc = "serving" => Len(defers) \in {6, 7}

(* What OpenStorage has opened so far. *)
OpeningInv ==
    /\ StorageConfigValidate(cfg)
    /\ open = {OpenOrder[i] : i \in 1..(step - 1)} \cap cfg.enabled

Decided ==
    \/ primary \in open \cap Relational /\ cfg.primary \in {"", primary}
    \/ open = {"redis"} /\ cfg.redisDatabase

(* The storage is open exactly as long as its close is deferred. *)
StorageInv ==
    /\ pc # "open" => step = 0
    /\ Len(defers) > 0 => Decided
    /\ Len(defers) = 0 => primary = NoDB /\ (pc # "open" => open = {})
    /\ pc = "open" => OpeningInv

(* Nobody uses the storage before the servers start; a handler that a        *)
(* graceful stop waits for has a server, or one that gave up; and what runs  *)
(* is deferred to stop. *)
UsersInv ==
    /\ pc \in {"down", "sync", "load", "open", "migrate", "api"} =>
           /\ worker = "off"
           /\ \A p \in Protocols : server[p] = "off" /\ handler[p] = "none"
    /\ \A p \in Protocols \ {"websocket"} : handler[p] # "none" => server[p] # "off"
    /\ worker # "off" => Len(defers) >= Height["policy"]
    /\ \A p \in Protocols : server[p] = "on" => Len(defers) >= Height[p]

(* What the program writes, even in part, never switches the gate off. *)
GateInv ==
    /\ ~byHand => file.auth # "off"
    /\ pc \in {"open", "migrate", "api", "frontend", "serving"} => gate = AuthGateEnabled(file.auth)

Inv == Domains /\ DefersInv /\ StorageInv /\ UsersInv /\ GateInv

-----------------------------------------------------------------------------
(* The engines and the stack of deferred calls. *)

(* There are four engines; all but redis are relational. *)
LEMMA EngineFacts ==
    /\ Len(OpenOrder) = 4
    /\ OpenOrder[1] = "sqlite" /\ OpenOrder[2] = "mysql"
    /\ OpenOrder[3] = "postgresql" /\ OpenOrder[4] = "redis"
    /\ Engines = {"sqlite", "mysql", "postgresql", "redis"}
    /\ Relational = {"sqlite", "mysql", "postgresql"}
<1>1. /\ Len(OpenOrder) = 4
      /\ OpenOrder[1] = "sqlite" /\ OpenOrder[2] = "mysql"
      /\ OpenOrder[3] = "postgresql" /\ OpenOrder[4] = "redis"
  BY DEF OpenOrder
<1>2. 1..4 = {1, 2, 3, 4}
  OBVIOUS
<1>3. Engines = {"sqlite", "mysql", "postgresql", "redis"}
  BY <1>1, <1>2 DEF Engines
<1> QED
  BY <1>1, <1>3 DEF Relational

(* What FrontendServicesStart appends to the six calls below it. *)
LEMMA AppendFacts ==
    ASSUME NEW s \in Seq(Names), Len(s) = 6, NEW t, t = Append(s, "frontend")
    PROVE  t \in Seq(Names) /\ Len(t) = 7 /\ t[7] = "frontend" /\ \A i \in 1..6 : t[i] = s[i]
<1>1. \A e \in Names : /\ Append(s, e) \in Seq(Names)
                       /\ Len(Append(s, e)) = Len(s) + 1
                       /\ \A i \in 1..Len(s) : Append(s, e)[i] = s[i]
                       /\ Append(s, e)[Len(s) + 1] = e
  <2> SUFFICES ASSUME NEW e \in Names
               PROVE  /\ Append(s, e) \in Seq(Names)
                      /\ Len(Append(s, e)) = Len(s) + 1
                      /\ \A i \in 1..Len(s) : Append(s, e)[i] = s[i]
                      /\ Append(s, e)[Len(s) + 1] = e
    OBVIOUS
  <2>1. s \in Seq(Names)
    OBVIOUS
  <2> QED
    BY ONLY <2>1, AppendProperties, e \in Names
<1>2. /\ t \in Seq(Names)
      /\ Len(t) = Len(s) + 1
      /\ \A i \in 1..Len(s) : t[i] = s[i]
      /\ t[Len(s) + 1] = "frontend"
  <2>1. "frontend" \in Names
    BY DEF Names
  <2> QED
    BY <1>1, <2>1, Zenon
<1>3. t \in Seq(Names) /\ Len(t) = 7
  BY <1>2
<1>4. \A i \in 1..6 : t[i] = s[i]
  <2>1. \A i \in 1..Len(s) : t[i] = s[i]
    BY <1>2
  <2> QED
    BY <2>1
<1>5. t[7] = "frontend"
  <2>1. t[Len(s) + 1] = "frontend"
    BY <1>2
  <2> QED
    BY <2>1
<1> QED
  BY <1>3, <1>4, <1>5

(* The calls in the order in which main defers them. *)
LEMMA OrderFacts ==
    /\ Defers \in Seq(Names) /\ Len(Defers) = 6
    /\ \A i \in 1..6 : Defers[i] = DeferOrder[i]
    /\ DeferOrder[1] = "storage" /\ DeferOrder[2] = "policy" /\ DeferOrder[3] = "jsonRPC"
    /\ DeferOrder[4] = "mcp" /\ DeferOrder[5] = "websocket" /\ DeferOrder[6] = "grpc"
    /\ DeferOrder[7] = "frontend"
<1> DEFINE low == <<"storage", "policy">>
<1>1. /\ StopOrder \in Seq(Names) /\ Len(StopOrder) = 4
      /\ StopOrder[1] = "jsonRPC" /\ StopOrder[2] = "mcp"
      /\ StopOrder[3] = "websocket" /\ StopOrder[4] = "grpc"
  BY DEF StopOrder, Names, Protocols
<1>2. low \in Seq(Names) /\ Len(low) = 2 /\ low[1] = "storage" /\ low[2] = "policy"
  BY DEF Names
<1>3. Defers = low \o StopOrder
  BY DEF Defers
<1> HIDE DEF low
<1>4. /\ Defers \in Seq(Names) /\ Len(Defers) = 6
      /\ Defers[1] = "storage" /\ Defers[2] = "policy" /\ Defers[3] = "jsonRPC"
      /\ Defers[4] = "mcp" /\ Defers[5] = "websocket" /\ Defers[6] = "grpc"
  <2>1. /\ low \o StopOrder \in Seq(Names)
        /\ Len(low \o StopOrder) = Len(low) + Len(StopOrder)
        /\ \A i \in 1..(Len(low) + Len(StopOrder)) :
               (low \o StopOrder)[i] = IF i <= Len(low) THEN low[i] ELSE StopOrder[i - Len(low)]
    BY <1>1, <1>2, ConcatProperties
  <2> QED
    BY <1>1, <1>2, <1>3, <2>1
<1>6. /\ \A i \in 1..6 : DeferOrder[i] = Defers[i]
      /\ DeferOrder[7] = "frontend"
  BY <1>4, AppendFacts DEF DeferOrder
<1> QED
  BY <1>4, <1>6

(* Each call has its place in it. *)
LEMMA HeightFacts ==
    /\ Height["storage"] = 1 /\ Height["policy"] = 2 /\ Height["jsonRPC"] = 3
    /\ Height["mcp"] = 4 /\ Height["websocket"] = 5 /\ Height["grpc"] = 6
    /\ Height["frontend"] = 7
  BY DEF Height

(* In such a stack a call is deferred from its height on, and runs at it. *)
LEMMA StackFacts ==
    ASSUME NEW s, Stacked(s), NEW d \in Names
    PROVE  /\ Len(s) \in 0..7
           /\ Contains(s, d) <=> Len(s) >= Height[d]
           /\ (s # <<>> /\ Last(s) = d) <=> Len(s) = Height[d]
           /\ Range(s) \subseteq Names
<1> DEFINE n == Len(s)
<1>0. s \in Seq(Names) /\ n <= 7 /\ \A i \in 1..n : s[i] = DeferOrder[i]
  BY DEF Stacked
<1>1. n \in 0..7
  <2>1. n \in Nat
    BY <1>0, LenProperties
  <2>2. n <= 7
    BY <1>0
  <2> HIDE DEF n
  <2> QED
    BY <2>1, <2>2
<1>2. /\ Height[d] \in 1..7 /\ DeferOrder[Height[d]] = d
      /\ \A i \in 1..7 : DeferOrder[i] = d => i = Height[d]
  BY OrderFacts, HeightFacts DEF Names, Protocols
<1>3. Contains(s, d) <=> Len(s) >= Height[d]
  BY <1>0, <1>1, <1>2 DEF Contains
<1>4. (s # <<>> /\ Last(s) = d) <=> Len(s) = Height[d]
  <2>1. s # <<>> <=> Len(s) > 0
    BY <1>0, <1>1, EmptySeq
  <2> QED
    BY <1>0, <1>1, <1>2, <2>1 DEF Last
<1>5. Range(s) \subseteq Names
  BY <1>0, <1>1, ElementOfSeq, LenProperties DEF Range
<1> QED
  BY <1>1, <1>3, <1>4, <1>5

(* Popping leaves a stack that is one call lower. *)
LEMMA PopFacts ==
    ASSUME NEW s, Stacked(s), Len(s) > 0
    PROVE  Stacked(Front(s)) /\ Len(Front(s)) = Len(s) - 1
<1> DEFINE n == Len(s)
<1>0. s \in Seq(Names) /\ n <= 7 /\ \A i \in 1..n : s[i] = DeferOrder[i]
  BY DEF Stacked
<1>1. n \in 0..7
  <2>1. n \in Nat
    BY <1>0, LenProperties
  <2>2. n <= 7
    BY <1>0
  <2> HIDE DEF n
  <2> QED
    BY <2>1, <2>2
<1> DEFINE rest == SubSeq(s, 1, n - 1)
<1>2. /\ rest \in Seq(Names) /\ Len(rest) = n - 1
      /\ \A i \in 1..(n - 1) : rest[i] = s[i]
  <2> HIDE DEF n
  <2>1. \A i \in 1..(n - 1) : s[i] \in Names
    BY <1>0, <1>1, ElementOfSeq DEF n
  <2>2. n > 0 /\ n \in Int /\ n - 1 \in Int
    BY <1>1 DEF n
  <2>3. /\ rest \in Seq(Names) /\ Len(rest) = IF 1 <= n - 1 THEN n - 1 - 1 + 1 ELSE 0
        /\ \A i \in 1..(n - 1 - 1 + 1) : rest[i] = s[1 + i - 1]
    BY <2>1, <2>2, SubSeqProperties
  <2> QED
    BY <2>2, <2>3
<1> QED
  BY <1>0, <1>1, <1>2 DEF Stacked, Front

(* The stacks that main makes. *)
LEMMA PushFacts ==
    /\ Stacked(<<>>) /\ Len(<<>>) = 0
    /\ Stacked(<<"storage">>) /\ Len(<<"storage">>) = 1
    /\ Stacked(Defers) /\ Len(Defers) = 6
    /\ \A s : Stacked(s) /\ Len(s) = 6 =>
           Stacked(Append(s, "frontend")) /\ Len(Append(s, "frontend")) = 7
<1>1. Stacked(<<>>) /\ Len(<<>>) = 0
  BY DEF Stacked
<1>2. Stacked(<<"storage">>) /\ Len(<<"storage">>) = 1
  BY OrderFacts DEF Stacked, Names
<1>3. Stacked(Defers) /\ Len(Defers) = 6
  BY OrderFacts DEF Stacked, Names, Protocols
<1>4. ASSUME NEW s, Stacked(s), Len(s) = 6
      PROVE  Stacked(Append(s, "frontend")) /\ Len(Append(s, "frontend")) = 7
  <2> DEFINE t == Append(s, "frontend")
  <2>1. s \in Seq(Names) /\ Len(s) = 6 /\ \A i \in 1..6 : s[i] = DeferOrder[i]
    BY <1>4 DEF Stacked
  <2>3. t \in Seq(Names) /\ Len(t) = 7 /\ t[7] = "frontend" /\ \A i \in 1..6 : t[i] = s[i]
    BY <2>1, AppendFacts
  <2>4. \A i \in 1..7 : t[i] = DeferOrder[i]
    BY <2>1, <2>3, OrderFacts
  <2> QED
    BY <2>3, <2>4 DEF Stacked
<1> QED
  BY <1>1, <1>2, <1>3, <1>4

(* The invariant says what TypeOK says. *)
LEMMA InvIsTyped == Inv => TypeOK
<1> SUFFICES ASSUME Inv PROVE TypeOK
  OBVIOUS
<1>1. \A d \in Names : Contains(defers, d) <=> Len(defers) >= Height[d]
  BY StackFacts DEF Inv, DefersInv
<1>2. Range(defers) \subseteq Protocols \cup {"storage", "policy", "frontend"}
  BY StackFacts DEF Inv, DefersInv, Names
<1>3. worker # "off" => Contains(defers, "policy")
  BY <1>1 DEF Inv, UsersInv, Names
<1>4. \A p \in Protocols : server[p] = "on" => Contains(defers, p)
  BY <1>1 DEF Inv, UsersInv, Names
<1> QED
  BY <1>2, <1>3, <1>4, EngineFacts DEF Inv, Domains, TypeOK

-----------------------------------------------------------------------------
(* The configuration file. *)

(* What the program writes is a configuration that leaves the gate shut. *)
LEMMA WrittenFacts ==
    /\ NoFile \in FileConfigs /\ NoFile.auth # "off"
    /\ generateDefaultConfig \in FileConfigs /\ generateDefaultConfig.auth # "off"
    /\ \A f \in Torn : f \in FileConfigs /\ f.auth # "off"
<1>1. NoStorageSection \in StorageSections /\ DefaultStorage \in StorageSections
  BY EngineFacts DEF NoStorageSection, DefaultStorage, StorageSections
<1>2. Absent \in FileConfigs /\ Absent.auth = "absent"
  BY <1>1 DEF Absent, FileConfigs
<1>3. generateDefaultConfig \in FileConfigs /\ generateDefaultConfig.auth = "on"
  BY <1>1 DEF generateDefaultConfig, FileConfigs
<1>4. NoFile \in FileConfigs /\ NoFile.auth = "absent"
  BY <1>2 DEF NoFile, FileConfigs
<1>5. ASSUME NEW f \in Torn
      PROVE  f \in FileConfigs /\ f.auth # "off"
  BY <1>1, <1>2, <1>3 DEF Torn, FileConfigs
<1> QED
  BY <1>2, <1>3, <1>4, <1>5

(* Apply makes a storage configuration of each file; LoadConfig lets only a  *)
(* valid one pass. *)
LEMMA ApplyFacts ==
    ASSUME NEW f \in StorageSections
    PROVE  /\ Apply(f) \in StorageConfigs
           /\ ~ApplyFails(f) => StorageConfigValidate(Apply(f))
<1>1. "mysql" \in Engines
  BY EngineFacts
<1>2. Apply(f) \in StorageConfigs
  BY <1>1 DEF Apply, StorageConfigs, StorageSections
<1> QED
  BY <1>2 DEF ApplyFails

-----------------------------------------------------------------------------
(* OpenStorage. *)

(* What was opened so far and the decision depend on the storage only. *)
LEMMA StorageFrame ==
    ASSUME UNCHANGED storageVars
    PROVE  (Decided' <=> Decided) /\ (OpeningInv' <=> OpeningInv)
BY DEF storageVars, Decided, OpeningInv, StorageConfigValidate

(* Each engine is passed over or opened as the configuration says. *)
LEMMA EngineKeeps ==
    ASSUME Domains, OpeningInv, OpenBegins \/ SkipEngine \/ OpenEngine
    PROVE  /\ OpeningInv' /\ step' \in 0..5 /\ open' \subseteq Engines
           /\ UNCHANGED <<cfg, primary>>
<1>1. step \in 0..5 /\ open \subseteq Engines
  BY DEF Domains
<1>2. UNCHANGED <<cfg, primary>>
  BY DEF OpenBegins, SkipEngine, OpenEngine
<1>3. StorageConfigValidate(cfg)'
  BY <1>2 DEF OpeningInv, StorageConfigValidate
<1>4. open = {OpenOrder[i] : i \in 1..(step - 1)} \cap cfg.enabled
  BY DEF OpeningInv
<1>5. CASE OpenBegins
  <2>1. step' = 1 /\ open' = {}
    BY <1>5 DEF OpenBegins
  <2>2. 1..(1 - 1) = {}
    OBVIOUS
  <2>3. open' = {OpenOrder[i] : i \in 1..(step' - 1)} \cap cfg'.enabled
    BY <2>1, <2>2
  <2> QED
    BY <1>2, <1>3, <2>1, <2>3 DEF OpeningInv
<1>6. ASSUME SkipEngine \/ OpenEngine
      PROVE  /\ step \in 1..4 /\ step' = step + 1
             /\ open' = open \cup ({OpenOrder[step]} \cap cfg.enabled)
  BY <1>6, EngineFacts DEF SkipEngine, OpenEngine, Opening
<1>7. CASE SkipEngine \/ OpenEngine
  <2>1. /\ step \in 1..4 /\ step' = step + 1
        /\ open' = open \cup ({OpenOrder[step]} \cap cfg.enabled)
    BY <1>6, <1>7
  <2>2. 1..(step' - 1) = (1..(step - 1)) \cup {step}
    BY <2>1
  <2>3. {OpenOrder[i] : i \in 1..(step' - 1)}
            = {OpenOrder[i] : i \in 1..(step - 1)} \cup {OpenOrder[step]}
    BY <2>2
  <2>4. open' = {OpenOrder[i] : i \in 1..(step' - 1)} \cap cfg.enabled
    BY <1>4, <2>1, <2>3
  <2>5. OpenOrder[step] \in Engines
    BY <2>1, EngineFacts
  <2> QED
    BY <1>1, <1>2, <1>3, <2>1, <2>4, <2>5 DEF OpeningInv
<1> QED
  BY <1>5, <1>7

(* After the last one, all that is enabled is open. *)
LEMMA AllTriedFacts ==
    ASSUME Domains, OpeningInv, AllTried
    PROVE  open = cfg.enabled /\ cfg.enabled \subseteq Engines
<1>1. cfg.enabled \subseteq Engines
  BY DEF Domains, StorageConfigs
<1>2. step = 5
  BY EngineFacts DEF AllTried
<1>3. 1..(step - 1) = {1, 2, 3, 4}
  BY <1>2
<1>4. {OpenOrder[i] : i \in 1..(step - 1)} = Engines
  BY <1>3, EngineFacts
<1> QED
  BY <1>1, <1>4 DEF OpeningInv

(* The switch at the end finds a primary, or there is only redis. *)
LEMMA ChoosePrimaryDecides ==
    ASSUME Domains, OpeningInv, ChoosePrimary
    PROVE  /\ Decided' /\ step' = 0 /\ UNCHANGED <<cfg, open>>
           /\ primary' \in Relational \cup {NoDB}
<1> DEFINE R == open \cap Relational
           card == Cardinality(R)
<1>1. open = cfg.enabled /\ cfg.enabled \subseteq Engines
  BY AllTriedFacts DEF ChoosePrimary
<1>2. /\ cfg.primary # "" => cfg.primary \in R
      /\ Cardinality(R) > 1 => cfg.primary # ""
  BY <1>1 DEF OpeningInv, StorageConfigValidate
<1>3. IsFiniteSet(R) /\ Cardinality(R) \in Nat
  <2>1. IsFiniteSet(Engines)
    <3>1. \A e : IsFiniteSet({e})
      BY FS_Singleton
    <3>2. IsFiniteSet({"sqlite"} \cup {"mysql"}) /\ IsFiniteSet({"postgresql"} \cup {"redis"})
      BY <3>1, FS_Union
    <3>3. IsFiniteSet(({"sqlite"} \cup {"mysql"}) \cup ({"postgresql"} \cup {"redis"}))
      BY <3>2, FS_Union
    <3>4. Engines = ({"sqlite"} \cup {"mysql"}) \cup ({"postgresql"} \cup {"redis"})
      BY EngineFacts
    <3> QED
      BY <3>3, <3>4
  <2>2. R \in SUBSET Engines
    BY <1>1
  <2> QED
    BY <2>1, <2>2, FS_Subset, FS_CardinalityType
<1>10. Cardinality(R) = 0 <=> R = {}
  BY <1>3, FS_EmptySet
<1>4. UNCHANGED <<cfg, open>> /\ step' = 0
  BY DEF ChoosePrimary
<1>5. primary' = IF cfg.primary # "" THEN cfg.primary
                 ELSE IF Cardinality(R) = 1 THEN CHOOSE e \in R : TRUE ELSE NoDB
  BY DEF ChoosePrimary
<1>6. CASE cfg.primary # ""
  <2>1. primary' = cfg.primary /\ primary' \in R
    BY <1>2, <1>5, <1>6
  <2> QED
    BY <1>4, <2>1 DEF Decided
<1>7. CASE cfg.primary = "" /\ Cardinality(R) = 1
  <2>1. R # {}
    <3>1. card = 1
      BY <1>7
    <3> HIDE DEF card
    <3>2. card # 0
      BY <3>1
    <3> QED
      BY <1>10, <3>2 DEF card
  <2>2. primary' \in R
    BY <1>5, <1>7, <2>1
  <2> QED
    BY <1>4, <1>7, <2>2 DEF Decided
<1>8. CASE cfg.primary = "" /\ Cardinality(R) # 1
  <2>1. card \in Nat /\ ~(card > 1) /\ card # 1
    BY <1>2, <1>3, <1>8
  <2>2. R = {}
    <3> HIDE DEF card
    <3>1. card = 0
      BY <2>1
    <3> QED
      BY <1>10, <3>1 DEF card
  <2>3. "redis" \in open /\ cfg.redisDatabase
    <3>1. HasDatabase
      BY DEF ChoosePrimary
    <3> QED
      BY <1>1, <2>2, <3>1 DEF HasDatabase, redisIsDatabase
  <2>4. open = {"redis"}
    BY <1>1, <2>2, <2>3, EngineFacts
  <2> QED
    BY <1>4, <1>5, <1>8, <2>3, <2>4 DEF Decided
<1>9. cfg.primary = "" => Cardinality(R) = 1 \/ Cardinality(R) # 1
  OBVIOUS
<1> QED
  BY <1>6, <1>7, <1>8, <1>9

-----------------------------------------------------------------------------
(* Each step keeps the invariant. *)

(* What runs a deferred call is at its height in the stack. *)
LEMMA RunningFacts ==
    ASSUME Inv, NEW d \in Names, Running(d)
    PROVE  /\ pc = "exiting" /\ Len(defers) = Height[d]
           /\ Stacked(defers) /\ Len(defers) > 0
           /\ Stacked(Front(defers)) /\ Len(Front(defers)) = Len(defers) - 1
<1>1. Stacked(defers)
  BY DEF Inv, DefersInv
<1>2. pc = "exiting" /\ defers # <<>> /\ Last(defers) = d
  BY DEF Running
<1>3. Len(defers) = Height[d]
  BY <1>1, <1>2, StackFacts
<1>4. Len(defers) > 0
  BY <1>3, HeightFacts DEF Names, Protocols
<1> QED
  BY <1>1, <1>2, <1>3, <1>4, PopFacts

(* Steps before the storage is opened. *)
LEMMA ConfigKeeps ==
    ASSUME Inv, Start \/ FileIsThere \/ SaveConfig \/ SaveConfigTorn \/ LoadConfig
    PROVE  Inv'
<1> USE BoundsAssumption
<1>1. Domains /\ DefersInv /\ StorageInv /\ UsersInv /\ GateInv
  BY DEF Inv
<1>2. CASE Start
  <2>1. /\ pc = "down" /\ pc' = "sync" /\ starts' = starts + 1 /\ starts < MaxStarts
        /\ defers' = <<>>
        /\ UNCHANGED <<storageVars, file, byHand, gate, server, handler, worker, faults>>
    BY <1>2 DEF Start, At
  <2>2. Len(defers) = 0
    BY <1>1, <2>1 DEF DefersInv
  <2>3. Domains'
    BY <1>1, <2>1 DEF Domains, storageVars
  <2>4. DefersInv'
    BY <1>1, <2>1, PushFacts DEF DefersInv
  <2>5. StorageInv'
    BY <1>1, <2>1, <2>2, PushFacts DEF StorageInv, storageVars
  <2>6. UsersInv'
    BY <1>1, <2>1, <2>2, PushFacts DEF UsersInv
  <2>7. GateInv'
    BY <1>1, <2>1 DEF GateInv
  <2> QED
    BY <2>3, <2>4, <2>5, <2>6, <2>7 DEF Inv
<1>3. CASE FileIsThere \/ SaveConfig \/ SaveConfigTorn
  <2>1. /\ pc = "sync" /\ pc' \in {"load", "down"}
        /\ faults' = faults \/ (faults < MaxFaults /\ faults' = faults + 1)
        /\ \/ UNCHANGED <<file, byHand>>
           \/ file' \in FileConfigs /\ file'.auth # "off" /\ byHand' = FALSE
        /\ UNCHANGED <<storageVars, defers, gate, server, handler, worker, starts>>
    <3>1. CASE FileIsThere
      BY <3>1 DEF FileIsThere, At
    <3>2. CASE SaveConfig
      BY <3>2, WrittenFacts DEF SaveConfig, At
    <3>3. CASE SaveConfigTorn
      BY <3>3, WrittenFacts DEF SaveConfigTorn, At, Fault
    <3> QED
      BY <1>3, <3>1, <3>2, <3>3
  <2>2. faults' \in 0..MaxFaults
    BY <1>1, <2>1 DEF Domains
  <2>3. Domains'
    BY <1>1, <2>1, <2>2 DEF Domains, storageVars
  <2>4. DefersInv'
    BY <1>1, <2>1 DEF DefersInv
  <2>5. StorageInv'
    BY <1>1, <2>1, StorageFrame DEF DefersInv, StorageInv, storageVars
  <2>6. UsersInv'
    BY <1>1, <2>1 DEF UsersInv
  <2>7. GateInv'
    BY <1>1, <2>1 DEF GateInv
  <2> QED
    BY <2>3, <2>4, <2>5, <2>6, <2>7 DEF Inv
<1>4. CASE LoadConfig
  <2>1. /\ pc = "load"
        /\ UNCHANGED <<step, open, primary, file, byHand, defers, server, handler, worker, starts,
                       faults>>
    BY <1>4 DEF LoadConfig
  <2>2. \/ pc' = "exiting" /\ UNCHANGED <<cfg, gate>>
        \/ /\ pc' = "open" /\ cfg' = Apply(file.storage) /\ gate' = AuthGateEnabled(file.auth)
           /\ ~LoadConfigFails(file)
    BY <1>4 DEF LoadConfig
  <2>3. file.storage \in StorageSections
    BY <1>1 DEF Domains, FileConfigs
  <2>4. /\ Len(defers) = 0 /\ step = 0 /\ open = {} /\ primary = NoDB
    BY <1>1, <2>1 DEF DefersInv, StorageInv
  <2>5. pc' = "open" => cfg' \in StorageConfigs /\ StorageConfigValidate(cfg') /\ gate' \in BOOLEAN
    BY <2>2, <2>3, ApplyFacts DEF LoadConfigFails, AuthGateEnabled
  <2>6. Domains'
    BY <1>1, <2>1, <2>2, <2>5 DEF Domains
  <2>7. DefersInv'
    BY <1>1, <2>1, <2>2, <2>4 DEF DefersInv
  <2>8. StorageInv'
    <3>1. pc' = "open" => OpeningInv'
      <4>1. 1..(0 - 1) = {}
        OBVIOUS
      <4>2. open' = {OpenOrder[i] : i \in 1..(step' - 1)} \cap cfg'.enabled
        BY <2>1, <2>4, <4>1
      <4> QED
        BY <2>5, <4>2 DEF OpeningInv, StorageConfigValidate
    <3> QED
      BY <2>1, <2>2, <2>4, <3>1 DEF StorageInv
  <2>9. UsersInv'
    BY <1>1, <2>1, <2>2 DEF UsersInv
  <2>10. GateInv'
    BY <1>1, <2>1, <2>2 DEF GateInv
  <2> QED
    BY <2>6, <2>7, <2>8, <2>9, <2>10 DEF Inv
<1> QED
  BY <1>2, <1>3, <1>4

(* OpenStorage, which runs with nothing deferred. *)
LEMMA OpenStorageKeeps ==
    ASSUME Inv, OpenStorage
    PROVE  Inv'
<1> USE BoundsAssumption
<1>1. Domains /\ DefersInv /\ StorageInv /\ UsersInv /\ GateInv
  BY DEF Inv
<1>2. pc = "open" /\ UNCHANGED <<file, byHand, gate, server, handler, worker, starts>>
  BY DEF OpenStorage
<1>3. Len(defers) = 0 /\ primary = NoDB /\ OpeningInv
  BY <1>1, <1>2 DEF DefersInv, StorageInv
<1>4. CASE \/ OpenEngineFails /\ Fault /\ pc' = "exiting" /\ UNCHANGED defers
           \/ NoDatabase /\ pc' = "exiting" /\ UNCHANGED <<defers, faults>>
  <2>1. /\ pc' = "exiting" /\ UNCHANGED <<cfg, defers>>
        /\ step' = 0 /\ open' = {} /\ primary' = NoDB
        /\ faults' = faults \/ (faults < MaxFaults /\ faults' = faults + 1)
    BY <1>4 DEF OpenEngineFails, NoDatabase, closeStorageLocked, Fault
  <2>2. Domains'
    BY <1>1, <1>2, <2>1 DEF Domains
  <2>3. DefersInv' /\ UsersInv' /\ GateInv'
    BY <1>1, <1>2, <2>1 DEF DefersInv, UsersInv, GateInv
  <2>4. StorageInv'
    BY <1>3, <2>1 DEF StorageInv
  <2> QED
    BY <2>2, <2>3, <2>4 DEF Inv
<1>5. CASE (OpenBegins \/ SkipEngine \/ OpenEngine) /\ UNCHANGED <<pc, defers, faults>>
  <2>1. /\ OpeningInv' /\ step' \in 0..5 /\ open' \subseteq Engines /\ UNCHANGED <<cfg, primary>>
    BY <1>1, <1>3, <1>5, EngineKeeps
  <2>2. Domains'
    BY <1>1, <1>2, <1>5, <2>1 DEF Domains
  <2>3. DefersInv' /\ UsersInv' /\ GateInv'
    BY <1>1, <1>2, <1>5 DEF DefersInv, UsersInv, GateInv
  <2>4. StorageInv'
    BY <1>2, <1>3, <1>5, <2>1 DEF StorageInv
  <2> QED
    BY <2>2, <2>3, <2>4 DEF Inv
<1>6. CASE ChoosePrimary /\ pc' = "migrate" /\ defers' = <<"storage">> /\ UNCHANGED faults
  <2>1. /\ Decided' /\ step' = 0 /\ UNCHANGED <<cfg, open>>
        /\ primary' \in Relational \cup {NoDB}
    BY <1>1, <1>3, <1>6, ChoosePrimaryDecides
  <2>2. Domains'
    BY <1>1, <1>2, <1>6, <2>1 DEF Domains
  <2>3. Stacked(defers') /\ Len(defers') = 1
    BY <1>6, PushFacts
  <2>4. DefersInv'
    BY <1>6, <2>3 DEF DefersInv
  <2>5. StorageInv'
    BY <1>6, <2>1, <2>3 DEF StorageInv
  <2>6. UsersInv' /\ GateInv'
    BY <1>1, <1>2, <1>6 DEF UsersInv, GateInv
  <2> QED
    BY <2>2, <2>4, <2>5, <2>6 DEF Inv
<1> QED
  BY <1>4, <1>5, <1>6 DEF OpenStorage

(* main climbs on: the tables, the servers, the front end, the signal. *)
LEMMA ClimbKeeps ==
    ASSUME Inv, GormAutoMigrate \/ StartAPIServices \/ FrontendServicesStart \/ LoadSigHandle
    PROVE  Inv'
<1> USE BoundsAssumption
<1>1. Domains /\ DefersInv /\ StorageInv /\ UsersInv /\ GateInv
  BY DEF Inv
<1>2. UNCHANGED <<storageVars, file, byHand, gate, handler, starts>>
  BY DEF GormAutoMigrate, StartAPIServices, FrontendServicesStart, LoadSigHandle
<1>3. (Decided' <=> Decided) /\ (OpeningInv' <=> OpeningInv)
  BY <1>2, StorageFrame
<1>4. CASE GormAutoMigrate \/ LoadSigHandle
  <2>1. /\ \/ pc = "migrate" /\ pc' \in {"api", "exiting"}
           \/ pc = "serving" /\ pc' = "exiting"
        /\ faults' = faults \/ (faults < MaxFaults /\ faults' = faults + 1)
        /\ UNCHANGED <<defers, server, worker>>
    BY <1>4 DEF GormAutoMigrate, LoadSigHandle, At, Fault
  <2>2. Domains'
    BY <1>1, <1>2, <2>1 DEF Domains, storageVars
  <2>3. DefersInv' /\ GateInv'
    BY <1>1, <1>2, <2>1 DEF DefersInv, GateInv
  <2>4. StorageInv'
    BY <1>1, <1>2, <1>3, <2>1 DEF DefersInv, StorageInv, storageVars
  <2>5. UsersInv'
    BY <1>1, <1>2, <2>1 DEF UsersInv
  <2> QED
    BY <2>2, <2>3, <2>4, <2>5 DEF Inv
<1>5. CASE StartAPIServices
  <2>1. /\ pc = "api" /\ UNCHANGED faults
        /\ \/ /\ pc' = "frontend" /\ server' \in Listening /\ worker' = "idle"
              /\ defers' = Defers
           \/ pc' = "exiting" /\ UNCHANGED <<server, worker, defers>>
    BY <1>5 DEF StartAPIServices
  <2>2. \A l \in Listening : l \in [Protocols -> {"off", "on", "gave_up"}]
    BY DEF Listening
  <2>3. Len(defers) = 1
    BY <1>1, <2>1 DEF DefersInv
  <2>4. Stacked(defers') /\ Len(defers') \in {1, 6} /\ (pc' = "frontend" => Len(defers') = 6)
    BY <1>1, <2>1, <2>3, PushFacts DEF DefersInv
  <2>5. Domains'
    BY <1>1, <1>2, <2>1, <2>2 DEF Domains, storageVars
  <2>6. DefersInv' /\ GateInv'
    BY <1>1, <1>2, <2>1, <2>4 DEF DefersInv, GateInv
  <2>7. StorageInv'
    BY <1>1, <1>2, <1>3, <2>1, <2>3, <2>4 DEF StorageInv, storageVars
  <2>8. UsersInv'
    <3>1. /\ worker = "off"
          /\ \A p \in Protocols : server[p] = "off" /\ handler[p] = "none"
      BY <1>1, <2>1 DEF UsersInv
    <3>2. \A p \in Protocols : handler'[p] = "none"
      BY <1>2, <3>1
    <3>5. Height["policy"] = 2 /\ \A p \in Protocols : Height[p] \in 3..6
      BY HeightFacts DEF Protocols
    <3>6. ASSUME pc' = "frontend"
          PROVE  /\ Len(defers') >= Height["policy"]
                 /\ \A p \in Protocols : Len(defers') >= Height[p]
      <4>1. Len(defers') = 6
        BY <2>4, <3>6
      <4> QED
        BY <3>5, <4>1
    <3>7. ASSUME pc' = "exiting"
          PROVE  worker' = "off" /\ \A p \in Protocols : server'[p] # "on"
      BY <2>1, <3>1, <3>7
    <3>3. worker' # "off" => Len(defers') >= Height["policy"]
      BY <2>1, <3>6, <3>7
    <3>4. \A p \in Protocols : server'[p] = "on" => Len(defers') >= Height[p]
      BY <2>1, <3>6, <3>7
    <3> QED
      BY <2>1, <3>2, <3>3, <3>4 DEF UsersInv
  <2> QED
    BY <2>5, <2>6, <2>7, <2>8 DEF Inv
<1>6. CASE FrontendServicesStart
  <2>1. /\ pc = "frontend" /\ UNCHANGED <<server, worker>>
        /\ pc' = "serving" \/ (pc' = "exiting" /\ UNCHANGED defers)
        /\ UNCHANGED defers \/ defers' = Append(defers, "frontend")
        /\ faults' = faults \/ (faults < MaxFaults /\ faults' = faults + 1)
    BY <1>6 DEF FrontendServicesStart, Fault
  <2>2. Stacked(defers) /\ Len(defers) = 6
    BY <1>1, <2>1 DEF DefersInv
  <2>3. Stacked(defers') /\ Len(defers') \in {6, 7}
    <3>1. CASE UNCHANGED defers
      BY <2>2, <3>1
    <3>2. CASE defers' = Append(defers, "frontend")
      BY <2>2, <3>2, PushFacts
    <3> QED
      BY <2>1, <3>1, <3>2
  <2>4. Domains'
    BY <1>1, <1>2, <2>1 DEF Domains, storageVars
  <2>5. DefersInv' /\ GateInv'
    BY <1>1, <1>2, <2>1, <2>3 DEF DefersInv, GateInv
  <2>6. StorageInv'
    BY <1>1, <1>2, <1>3, <2>1, <2>2, <2>3 DEF StorageInv, storageVars
  <2>7. UsersInv'
    <3>1. Height["policy"] = 2 /\ \A p \in Protocols : Height[p] \in 3..6
      BY HeightFacts DEF Protocols
    <3>2. /\ Len(defers') >= Height["policy"]
          /\ \A p \in Protocols : Len(defers') >= Height[p]
      <4>1. \A n \in {6, 7} : n >= Height["policy"] /\ \A p \in Protocols : n >= Height[p]
        BY <3>1
      <4> QED
        BY <2>3, <4>1
    <3> QED
      BY <1>1, <1>2, <2>1, <3>2 DEF UsersInv
  <2> QED
    BY <2>4, <2>5, <2>6, <2>7 DEF Inv
<1> QED
  BY <1>4, <1>5, <1>6

(* Requests come and go, and the scheduler works. *)
LEMMA WorkKeeps ==
    ASSUME Inv, Serve \/ PolicyWorks \/ PolicyRests
    PROVE  Inv'
<1> USE BoundsAssumption
<1>1. Domains /\ DefersInv /\ StorageInv /\ UsersInv /\ GateInv
  BY DEF Inv
<1>2. UNCHANGED <<storageVars, file, byHand, pc, defers, gate, server, starts, faults>>
  BY DEF Serve, Request, HandlerQueries, HandlerReturns, PolicyWorks, PolicyRests
<1>3. (Decided' <=> Decided) /\ (OpeningInv' <=> OpeningInv)
  BY <1>2, StorageFrame
<1>4. DefersInv' /\ GateInv'
  BY <1>1, <1>2 DEF DefersInv, GateInv
<1>5. StorageInv'
  BY <1>1, <1>2, <1>3 DEF StorageInv, storageVars
<1>6. CASE Serve
  <2>1. PICK p \in Protocols : Request(p) \/ HandlerQueries(p) \/ HandlerReturns(p)
    BY <1>6 DEF Serve
  <2>2. UNCHANGED worker /\ handler \in [Protocols -> {"none", "busy", "holding"}]
    BY <1>1, <2>1 DEF Domains, Request, HandlerQueries, HandlerReturns
  <2>3. PICK h \in {"none", "busy", "holding"} : handler' = [handler EXCEPT ![p] = h]
    BY <2>1 DEF Request, HandlerQueries, HandlerReturns
  <2>4. h # "none" => server[p] = "on" \/ handler[p] # "none"
    BY <1>1, <2>1, <2>2, <2>3 DEF Request, HandlerQueries, HandlerReturns
  <2>5. Domains'
    BY <1>1, <1>2, <2>2, <2>3 DEF Domains, storageVars
  <2>6. UsersInv'
    BY <1>1, <1>2, <2>2, <2>3, <2>4 DEF UsersInv
  <2> QED
    BY <1>4, <1>5, <2>5, <2>6 DEF Inv
<1>7. CASE PolicyWorks \/ PolicyRests
  <2>1. worker # "off" /\ worker' \in {"idle", "holding"} /\ UNCHANGED handler
    BY <1>7 DEF PolicyWorks, PolicyRests
  <2>2. Domains'
    BY <1>1, <1>2, <2>1 DEF Domains, storageVars
  <2>3. UsersInv'
    BY <1>1, <1>2, <2>1 DEF UsersInv
  <2> QED
    BY <1>4, <1>5, <2>2, <2>3 DEF Inv
<1> QED
  BY <1>6, <1>7

(* A deferred stop leaves the storage alone, and what is below it deferred. *)
LEMMA StopFrame ==
    ASSUME Inv, NEW d \in Names \ {"storage"}, Running(d), Pop,
           UNCHANGED <<storageVars, file, byHand, pc, gate, handler, starts, faults>>,
           server' \in [Protocols -> {"off", "on", "gave_up"}],
           worker' \in {"off", "idle", "holding"},
           \A p \in Protocols : server'[p] = "on" => server[p] = "on" /\ p # d,
           \A p \in Protocols \ {"websocket"} : handler[p] # "none" => server'[p] # "off",
           worker' # "off" => worker # "off" /\ d # "policy"
    PROVE  Inv'
<1>1. Domains /\ DefersInv /\ StorageInv /\ UsersInv /\ GateInv
  BY DEF Inv
<1>2. /\ pc = "exiting" /\ Len(defers) = Height[d]
      /\ Stacked(defers') /\ Len(defers') = Height[d] - 1
  BY RunningFacts DEF Pop
<1>3. Height[d] \in 2..7 /\ Height["policy"] = 2
      /\ \A p \in Protocols : Height[p] \in 3..6 /\ (p # d => Height[p] # Height[d])
  BY HeightFacts DEF Names, Protocols
<1>4. (Decided' <=> Decided) /\ (OpeningInv' <=> OpeningInv)
  BY StorageFrame
<1>5. Domains'
  BY <1>1 DEF Domains, storageVars
<1>6. DefersInv' /\ GateInv'
  BY <1>1, <1>2 DEF DefersInv, GateInv
<1>7. StorageInv'
  BY <1>1, <1>2, <1>3, <1>4 DEF StorageInv, storageVars
<1>8. UsersInv'
  <2>1. worker' # "off" => Len(defers') >= Height["policy"]
    <3> SUFFICES ASSUME worker' # "off" PROVE Len(defers') >= Height["policy"]
      OBVIOUS
    <3>1. Height[d] >= 2 /\ Height[d] # 2
      BY <1>1, <1>2, <1>3, HeightFacts DEF UsersInv, Names, Protocols
    <3> QED
      BY <1>2, <1>3, <3>1
  <2>2. ASSUME NEW p \in Protocols, server'[p] = "on"
        PROVE  Len(defers') >= Height[p]
    <3>1. Height[d] >= Height[p] /\ Height[d] # Height[p]
      BY <1>1, <1>2, <1>3, <2>2 DEF UsersInv
    <3> QED
      BY <1>2, <1>3, <3>1
  <2> QED
    BY <1>2, <2>1, <2>2 DEF UsersInv
<1> QED
  BY <1>5, <1>6, <1>7, <1>8 DEF Inv

(* The servers and the front end stop. *)
LEMMA StopKeeps ==
    ASSUME Inv,
           \/ StopFrontend \/ StopApiServiceWithGRPC \/ StopApiServiceWithWebSocket
           \/ StopApiServiceWithMCP \/ StopApiServiceWithJsonRPC
    PROVE  Inv'
<1>1. Domains /\ UsersInv
  BY DEF Inv
<1>2. CASE StopFrontend
  <2>1. /\ Running("frontend") /\ Pop
        /\ UNCHANGED <<storageVars, file, byHand, pc, gate, server, handler, worker, starts, faults>>
    BY <1>2 DEF StopFrontend
  <2>2. "frontend" \in Names \ {"storage"} /\ "frontend" \notin Protocols
    BY DEF Names, Protocols
  <2>3. server' \in [Protocols -> {"off", "on", "gave_up"}] /\ worker' \in {"off", "idle", "holding"}
    BY <1>1, <2>1 DEF Domains
  <2>4. /\ \A p \in Protocols : server'[p] = "on" => server[p] = "on" /\ p # "frontend"
        /\ \A p \in Protocols \ {"websocket"} : handler[p] # "none" => server'[p] # "off"
        /\ worker' # "off" => worker # "off" /\ "frontend" # "policy"
    BY <1>1, <2>1, <2>2 DEF UsersInv
  <2> QED
    BY <2>1, <2>2, <2>3, <2>4, StopFrame
<1>3. ASSUME NEW p \in Protocols, NEW left \in {"off", "gave_up"}, Stops(p, left),
             p # "websocket" /\ handler[p] # "none" => left = "gave_up"
      PROVE  Inv'
  <2>1. /\ Running(p) /\ Pop /\ server' = [server EXCEPT ![p] = left]
        /\ UNCHANGED <<storageVars, file, byHand, pc, gate, handler, worker, starts, faults>>
    BY <1>3 DEF Stops
  <2>2. p \in Names \ {"storage"} /\ p # "policy"
    BY DEF Names, Protocols
  <2>3. server' \in [Protocols -> {"off", "on", "gave_up"}] /\ worker' \in {"off", "idle", "holding"}
    BY <1>1, <2>1 DEF Domains
  <2>4. /\ \A q \in Protocols : server'[q] = IF q = p THEN left ELSE server[q]
    BY <1>1, <2>1 DEF Domains
  <2>5. /\ \A q \in Protocols : server'[q] = "on" => server[q] = "on" /\ q # p
        /\ \A q \in Protocols \ {"websocket"} : handler[q] # "none" => server'[q] # "off"
        /\ worker' # "off" => worker # "off" /\ p # "policy"
    BY <1>1, <1>3, <2>1, <2>2, <2>4 DEF UsersInv
  <2> QED
    BY <2>1, <2>2, <2>3, <2>5, StopFrame
<1>4. \A p \in Protocols : /\ Waited(p) \in {"off", "gave_up"}
                           /\ handler[p] # "none" => Waited(p) = "gave_up"
  BY DEF Waited
<1>5. {"grpc", "websocket", "mcp", "jsonRPC"} \subseteq Protocols
  BY DEF Protocols
<1>6. CASE StopApiServiceWithGRPC
  BY <1>3, <1>4, <1>5, <1>6 DEF StopApiServiceWithGRPC
<1>7. CASE StopApiServiceWithWebSocket
  BY <1>3, <1>5, <1>7 DEF StopApiServiceWithWebSocket
<1>8. CASE StopApiServiceWithMCP
  BY <1>3, <1>4, <1>5, <1>8 DEF StopApiServiceWithMCP
<1>9. CASE StopApiServiceWithJsonRPC
  BY <1>3, <1>4, <1>5, <1>9 DEF StopApiServiceWithJsonRPC
<1> QED
  BY <1>2, <1>6, <1>7, <1>8, <1>9

(* stopPolicy waits until no goroutine of the scheduler works. *)
LEMMA StopPolicyKeeps ==
    ASSUME Inv, stopPolicy
    PROVE  Inv'
<1>1. Domains /\ UsersInv
  BY DEF Inv
<1>2. /\ Running("policy") /\ Pop /\ worker' = "off"
      /\ UNCHANGED <<storageVars, file, byHand, pc, gate, server, handler, starts, faults>>
  BY DEF stopPolicy
<1>3. "policy" \in Names \ {"storage"} /\ "policy" \notin Protocols
  BY DEF Names, Protocols
<1>4. server' \in [Protocols -> {"off", "on", "gave_up"}] /\ worker' \in {"off", "idle", "holding"}
  BY <1>1, <1>2 DEF Domains
<1>5. /\ \A p \in Protocols : server'[p] = "on" => server[p] = "on" /\ p # "policy"
      /\ \A p \in Protocols \ {"websocket"} : handler[p] # "none" => server'[p] # "off"
      /\ worker' # "off" => worker # "off" /\ "policy" # "policy"
  BY <1>1, <1>2, <1>3 DEF UsersInv
<1> QED
  BY <1>2, <1>3, <1>4, <1>5, StopFrame

(* The storage is closed by the last deferred call. *)
LEMMA CloseKeeps ==
    ASSUME Inv, DeferredCloseStorage
    PROVE  Inv'
<1>1. Domains /\ DefersInv /\ StorageInv /\ UsersInv /\ GateInv
  BY DEF Inv
<1>2. /\ Running("storage") /\ Pop /\ open' = {} /\ primary' = NoDB
      /\ UNCHANGED <<cfg, step, file, byHand, pc, gate, server, handler, worker, starts, faults>>
  BY DEF DeferredCloseStorage, CloseStorage, closeStorageLocked
<1>3. pc = "exiting" /\ Len(defers) = 1 /\ Stacked(defers') /\ Len(defers') = 0
  <2>1. "storage" \in Names
    BY DEF Names
  <2>2. /\ pc = "exiting" /\ Len(defers) = Height["storage"]
        /\ Stacked(Front(defers)) /\ Len(Front(defers)) = Len(defers) - 1
    BY <1>2, <2>1, RunningFacts
  <2>3. Height["storage"] = 1
    BY HeightFacts
  <2>4. defers' = Front(defers)
    BY <1>2 DEF Pop
  <2>5. Len(defers) = 1 /\ Len(Front(defers)) = 0
    BY <2>2, <2>3
  <2> QED
    BY <2>2, <2>4, <2>5
<1>4. worker = "off" /\ \A p \in Protocols : server[p] # "on"
  <2>1. Height["policy"] = 2 /\ \A p \in Protocols : Height[p] \in 3..6
    BY HeightFacts DEF Protocols
  <2> QED
    BY <1>1, <1>3, <2>1 DEF UsersInv
<1>5. Domains'
  BY <1>1, <1>2 DEF Domains
<1>6. DefersInv' /\ GateInv'
  BY <1>1, <1>2, <1>3 DEF DefersInv, GateInv
<1>7. StorageInv'
  BY <1>1, <1>2, <1>3 DEF StorageInv
<1>8. UsersInv'
  BY <1>1, <1>2, <1>3, <1>4 DEF UsersInv
<1> QED
  BY <1>5, <1>6, <1>7, <1>8 DEF Inv

(* The program is over, in order or not. *)
LEMMA EndKeeps ==
    ASSUME Inv, Exit \/ Crash
    PROVE  Inv'
<1> USE BoundsAssumption
<1>1. Domains /\ DefersInv /\ StorageInv /\ UsersInv /\ GateInv
  BY DEF Inv
<1>2. /\ pc' = "down" /\ Reset /\ defers' = <<>>
      /\ UNCHANGED <<cfg, file, byHand, gate, starts>>
      /\ faults' = faults \/ (faults < MaxFaults /\ faults' = faults + 1)
  BY DEF Exit, Crash, At, Fault, storageVars
<1>3. step' = 0 /\ open' = {} /\ primary' = NoDB
  <2>1. CASE Exit
    <3>1. pc = "exiting" /\ defers = <<>> /\ UNCHANGED storageVars
      BY <2>1 DEF Exit, At
    <3>2. Len(defers) = 0
      BY <3>1, PushFacts
    <3> QED
      BY <1>1, <3>1, <3>2 DEF StorageInv, storageVars
  <2>2. CASE Crash
    BY <2>2 DEF Crash, closeStorageLocked
  <2> QED
    BY <2>1, <2>2
<1>4. Stacked(defers') /\ Len(defers') = 0
  BY <1>2, PushFacts
<1>5. Domains'
  BY <1>1, <1>2, <1>3 DEF Domains, Reset
<1>6. DefersInv' /\ GateInv'
  BY <1>1, <1>2, <1>4 DEF DefersInv, GateInv
<1>7. StorageInv'
  BY <1>2, <1>3, <1>4 DEF StorageInv
<1>8. UsersInv'
  BY <1>2 DEF UsersInv, Reset
<1> QED
  BY <1>5, <1>6, <1>7, <1>8 DEF Inv

(* The program starts with everything down. *)
LEMMA InitHolds == Init => Inv
<1> USE BoundsAssumption
<1> SUFFICES ASSUME Init PROVE Inv
  OBVIOUS
<1>1. cfg \in StorageConfigs
  BY DEF Init, StorageInit, NoConfig, StorageConfigs
<1>2. file \in FileConfigs /\ (~byHand => file.auth # "off") /\ byHand \in BOOLEAN
  BY WrittenFacts, OperatorAssumption DEF Init
<1>3. Stacked(defers) /\ Len(defers) = 0
  BY PushFacts DEF Init
<1>4. Domains
  BY <1>1, <1>2 DEF Init, StorageInit, Domains
<1>5. DefersInv /\ StorageInv /\ UsersInv /\ GateInv
  BY <1>2, <1>3 DEF Init, StorageInit, DefersInv, StorageInv, UsersInv, GateInv
<1> QED
  BY <1>4, <1>5 DEF Inv

(* Every step keeps the invariant. *)
LEMMA StepKeeps == Inv /\ [Next]_vars => Inv'
<1> SUFFICES ASSUME Inv, [Next]_vars PROVE Inv'
  OBVIOUS
<1>1. CASE Start \/ SaveConfigTorn \/ FileIsThere \/ SaveConfig \/ LoadConfig
  BY <1>1, ConfigKeeps
<1>2. CASE OpenStorage
  BY <1>2, OpenStorageKeeps
<1>3. CASE GormAutoMigrate \/ StartAPIServices \/ FrontendServicesStart \/ LoadSigHandle
  BY <1>3, ClimbKeeps
<1>4. CASE Serve \/ PolicyWorks \/ PolicyRests
  BY <1>4, WorkKeeps
<1>5. CASE \/ StopFrontend \/ StopApiServiceWithGRPC \/ StopApiServiceWithWebSocket
           \/ StopApiServiceWithMCP \/ StopApiServiceWithJsonRPC
  BY <1>5, StopKeeps
<1>6. CASE stopPolicy
  BY <1>6, StopPolicyKeeps
<1>7. CASE DeferredCloseStorage
  BY <1>7, CloseKeeps
<1>8. CASE Exit \/ Crash
  BY <1>8, EndKeeps
<1>9. CASE UNCHANGED vars
  <2>1. /\ UNCHANGED <<cfg, step, open, primary>>
        /\ UNCHANGED <<file, byHand, pc, defers, gate, server, handler, worker, starts, faults>>
    BY <1>9 DEF vars, storageVars, mainVars
  <2>2. (Decided' <=> Decided) /\ (OpeningInv' <=> OpeningInv)
    BY <2>1, StorageFrame DEF storageVars
  <2> QED
    BY <2>1, <2>2 DEF Inv, Domains, DefersInv, StorageInv, UsersInv, GateInv
<1> QED
  BY <1>1, <1>2, <1>3, <1>4, <1>5, <1>6, <1>7, <1>8, <1>9 DEF Next, Main

-----------------------------------------------------------------------------
(* The results. *)

(* The invariant holds in every run of the program, and of the next one. *)
THEOREM Invariance == Spec => []Inv
<1> QED
  BY InitHolds, StepKeeps, PTL DEF Spec

(* Every variable stays in its domain, and what runs is deferred to stop. *)
THEOREM TypeCorrect == Spec => []TypeOK
<1> QED
  BY Invariance, InvIsTyped, PTL

(* main.go:117: whatever step of a start fails, and however the program is   *)
(* stopped, it leaves no engine open. *)
THEOREM ExitsCloseStorage == Spec => []EveryExitClosesStorage
<1>1. Inv => EveryExitClosesStorage
  BY DEF Inv, DefersInv, StorageInv, EveryExitClosesStorage
<1> QED
  BY <1>1, Invariance, PTL

(* main.go:135: the storage is closed only under a user whose server gave    *)
(* up waiting, or under a WebSocket connection; never under a task. *)
THEOREM UsersAreWaitedFor == Spec => []StorageOutlivesItsUsers
<1>1. Inv => StorageOutlivesItsUsers
  <2> SUFFICES ASSUME Inv, open = {}
               PROVE  /\ worker # "holding"
                      /\ \A p \in Protocols : handler[p] = "holding" =>
                             server[p] = "gave_up" \/ p = "websocket"
    BY DEF StorageOutlivesItsUsers
  <2>1. Domains /\ DefersInv /\ StorageInv /\ UsersInv
    BY DEF Inv
  <2>2. ~Decided
    BY DEF Decided
  <2>3. Len(defers) \in 0..7
    BY <2>1, StackFacts DEF DefersInv, Names
  <2>4. Len(defers) = 0
    BY <2>1, <2>2, <2>3 DEF StorageInv
  <2>5. Height["policy"] = 2 /\ \A p \in Protocols : Height[p] \in 3..6
    BY HeightFacts DEF Protocols
  <2>6. worker = "off" /\ \A p \in Protocols : server[p] # "on"
    BY <2>1, <2>4, <2>5 DEF UsersInv
  <2> QED
    BY <2>1, <2>6 DEF Domains, UsersInv
<1> QED
  BY <1>1, Invariance, PTL

(* storage.go:76: while requests come in it is settled which open database   *)
(* GormDB hands out; only a program whose database is redis has none. *)
THEOREM ServedWithPrimary == Spec => []PrimaryIsDecided
<1>1. Inv => PrimaryIsDecided
  <2> SUFFICES ASSUME Inv, pc = "serving" PROVE Decided
    BY DEF PrimaryIsDecided, Decided
  <2>1. Len(defers) > 0
    BY DEF Inv, DefersInv
  <2> QED
    BY <2>1 DEF Inv, StorageInv
<1> QED
  BY <1>1, Invariance, PTL

(* api_auth_config.go:73: while the program serves, the gate is open only by *)
(* the hand of an operator, also after a first start that was cut short. *)
THEOREM GateStaysShut == Spec => []GateOpensOnlyByHand
<1>1. Inv => GateOpensOnlyByHand
  BY DEF Inv, GateInv, GateOpensOnlyByHand, AuthGateEnabled
<1> QED
  BY <1>1, Invariance, PTL

=============================================================================
