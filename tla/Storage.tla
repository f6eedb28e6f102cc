------------------------------- MODULE Storage -------------------------------
(***************************************************************************)
(* The fixed storage of the process (storage, storage_config): one handle  *)
(* per engine, opened one after the other under a write lock, and the      *)
(* primary relational database that GormDB hands out.  Closing a pool may  *)
(* report an error; it is closed and its handle cleared all the same.      *)
(***************************************************************************)
EXTENDS Naturals, Sequences, FiniteSets

VARIABLES
    cfg,        \* storage_cfg as LoadConfig leaves it
    step,       \* the engine OpenStorage is at, 0 outside of it
    open,       \* engines whose handle is set and whose pool is open
    primary     \* storagePrimaryDB

storageVars == <<cfg, step, open, primary>>

OpenOrder  == <<"sqlite", "mysql", "postgresql", "redis">>
Engines    == {OpenOrder[i] : i \in 1..Len(OpenOrder)}
Relational == Engines \ {"redis"}
NoDB == "none"

StorageConfigs ==
    [enabled : SUBSET Engines, primary : Engines \cup {""}, redisDatabase : BOOLEAN]
NoConfig == [enabled |-> {}, primary |-> "", redisDatabase |-> FALSE]

StorageInit ==
    /\ cfg = NoConfig
    /\ step = 0
    /\ open = {}
    /\ primary = NoDB

-----------------------------------------------------------------------------
(* storage_config: storage_cfg and mysql_cfg of a file. *)

StorageSections ==
    [section : [Engines -> {"absent", "off", "on"}], primary : Engines \cup {""},
     redisDatabase : BOOLEAN, legacy : {"absent", "utc", "bad_zone"}]

LegacyApplies(f) == f.legacy # "absent" /\ f.section["mysql"] = "absent"

(* mysql_cfg stands in for a storage_mysql that is not there. *)
Apply(f) ==
    [enabled |-> {e \in Engines : f.section[e] = "on"}
                    \cup (IF LegacyApplies(f) THEN {"mysql"} ELSE {}),
     primary |-> f.primary,
     redisDatabase |-> f.redisDatabase]

(* Mutant: the primary is needed only when redis is enabled too. *)
ConfigValidAnyPrimary(c) ==
    /\ c.primary # "" => c.primary \in c.enabled \cap Relational
    /\ Cardinality(c.enabled) > 2 => c.primary # ""

StorageConfigValidate(c) ==
    /\ c.primary # "" => c.primary \in c.enabled \cap Relational
    /\ Cardinality(c.enabled \cap Relational) > 1 => c.primary # ""

(* The errors of Apply: a bad time zone, or an invalid result. *)
ApplyFails(f) ==
    \/ LegacyApplies(f) /\ f.legacy = "bad_zone"
    \/ ~StorageConfigValidate(Apply(f))

DefaultStorage ==
    [section |-> [e \in Engines |-> IF e = "sqlite" THEN "on" ELSE "off"],
     primary |-> "sqlite", redisDatabase |-> FALSE, legacy |-> "absent"]

NoStorageSection ==
    [section |-> [e \in Engines |-> "absent"], primary |-> "", redisDatabase |-> FALSE,
     legacy |-> "absent"]

-----------------------------------------------------------------------------
(* OpenStorage.  No handle is handed out before it returns. *)

redisIsDatabase(c) == "redis" \in c.enabled /\ c.redisDatabase

closeStorageLocked ==
    /\ primary' = NoDB
    /\ open' = {}

(* The refusals before it do not happen: LoadConfig has validated cfg, and   *)
(* main opens once. *)
OpenBegins ==
    /\ step = 0 /\ open = {} /\ StorageConfigValidate(cfg)
    /\ step' = 1
    /\ UNCHANGED <<cfg, open, primary>>

Opening == step \in 1..Len(OpenOrder)

SkipEngine ==
    /\ Opening /\ OpenOrder[step] \notin cfg.enabled
    /\ step' = step + 1
    /\ UNCHANGED <<cfg, open, primary>>

(* openSqlite, openMysql, openPostgreSQL, openRedis. *)
OpenEngine ==
    /\ Opening /\ OpenOrder[step] \in cfg.enabled
    /\ open' = open \cup {OpenOrder[step]}
    /\ step' = step + 1
    /\ UNCHANGED <<cfg, primary>>

(* Mutant: what is open already stays open. *)
OpenEngineFailsHalfway ==
    /\ Opening /\ OpenOrder[step] \in cfg.enabled
    /\ step' = 0
    /\ UNCHANGED <<cfg, open, primary>>

OpenEngineFails ==
    /\ Opening /\ OpenOrder[step] \in cfg.enabled
    /\ closeStorageLocked
    /\ step' = 0
    /\ UNCHANGED cfg

HasDatabase == open \cap Relational # {} \/ redisIsDatabase(cfg)

AllTried == step = Len(OpenOrder) + 1

NoDatabase ==
    /\ AllTried /\ ~HasDatabase
    /\ closeStorageLocked
    /\ step' = 0
    /\ UNCHANGED cfg

(* Mutant: the only relational database is not taken by default. *)
ChooseNamedPrimary ==
    /\ AllTried /\ HasDatabase
    /\ primary' = IF cfg.primary # "" THEN cfg.primary ELSE NoDB
    /\ step' = 0
    /\ UNCHANGED <<cfg, open>>

(* The switch at the end of OpenStorage. *)
ChoosePrimary ==
    /\ AllTried /\ HasDatabase
    /\ primary' = IF cfg.primary # "" THEN cfg.primary
                  ELSE IF Cardinality(open \cap Relational) = 1
                       THEN CHOOSE e \in open \cap Relational : TRUE ELSE NoDB
    /\ step' = 0
    /\ UNCHANGED <<cfg, open>>

CloseStorage == closeStorageLocked /\ UNCHANGED <<cfg, step>>

(* GormAutoMigrate has tables to make, or redis is the database. *)
Migratable == open \cap Relational # {} \/ ("redis" \in open /\ redisIsDatabase(cfg))

(* The getters, under the read lock. *)
GormDB == primary
MysqlDB == IF "mysql" \in open THEN "mysql" ELSE NoDB

=============================================================================
