---------------------------- MODULE PolicyProofs ----------------------------
(***************************************************************************)
(* The safety properties of Policy, for any finite number of goroutines,   *)
(* any limit of workers and any number of callers of stop.                 *)
(***************************************************************************)
EXTENDS Policy, FiniteSetTheorems, TLAPS

-----------------------------------------------------------------------------
(* The inductive invariant. *)

Unreleased == {"call", "release"}

(* The counters count: the workers that have not lowered runningWorkers yet, *)
(* and the goroutines, with the loop among them, that pending waits for. *)
CountInv ==
    /\ running = Cardinality(Alive("worker", Unreleased))
    /\ pending = Cardinality(Live) + (IF loop = "over" THEN 0 ELSE 1)

(* The loop spawns only what the round has left. *)
QuotaInv ==
    /\ running + quota <= MaxWorkers
    /\ loop = "spawn" => quota > 0

(* A flag is up while a goroutine has it to lower, and there is one such.    *)
BusyInv ==
    \A m \in Maintenance : \A g \in Alive(m, Unreleased) :
        busy[m] /\ Alive(m, Unreleased) = {g}

(* Stop returns on an empty WaitGroup; only then the storage is closed.      *)
StopInv ==
    /\ \A s \in Stoppers : stopper[s] # "idle" => ctxDone
    /\ (\E s \in Stoppers : stopper[s] = "returned") => pending = 0
    /\ storage = {} => \E s \in Stoppers : stopper[s] = "returned"

Inv == TypeOK /\ CountInv /\ QuotaInv /\ BusyInv /\ StopInv

-----------------------------------------------------------------------------
(* Helpers. *)

(* The larger of zero and n. *)
LEMMA MaxOfZero ==
    ASSUME NEW n \in Int
    PROVE  Max({0, n}) = IF n > 0 THEN n ELSE 0
<1> DEFINE m == IF n > 0 THEN n ELSE 0
<1>1. m \in {0, n} /\ \A y \in {0, n} : m >= y
  OBVIOUS
<1>2. \A x \in {0, n} : (\A y \in {0, n} : x >= y) => x = m
  OBVIOUS
<1> QED
  BY <1>1, <1>2 DEF Max

(* Sets of goroutines are finite, and counted by natural numbers. *)
LEMMA GoroutinesAreCounted ==
    ASSUME NEW job, NEW stages
    PROVE  /\ IsFiniteSet(Alive(job, stages)) /\ Cardinality(Alive(job, stages)) \in Nat
           /\ IsFiniteSet(Live) /\ Cardinality(Live) \in Nat
<1>1. Alive(job, stages) \in SUBSET Goroutines /\ Live \in SUBSET Goroutines
  BY DEF Alive, Live
<1> QED
  BY <1>1, GoroutinesAssumption, FS_Subset, FS_CardinalityType

(* A new goroutine is one more alive, in the count of its job only. *)
LEMMA SpawnAddsOne ==
    ASSUME TypeOK, NEW g \in Goroutines, NEW job \in Jobs, Spawn(g, job)
    PROVE  /\ gor' \in [Goroutines -> [job : Jobs, stage : {"call", "release", "done"}] \cup {NoJob}]
           /\ g \notin Alive(job, Unreleased)
           /\ Alive(job, Unreleased)' = Alive(job, Unreleased) \cup {g}
           /\ \A j \in Jobs \ {job} : Alive(j, Unreleased)' = Alive(j, Unreleased)
           /\ Cardinality(Live') = Cardinality(Live) + 1
<1>1. gor[g] = NoJob /\ gor' = [gor EXCEPT ![g] = [job |-> job, stage |-> "call"]]
  BY DEF Spawn
<1>2. gor' \in [Goroutines -> [job : Jobs, stage : {"call", "release", "done"}] \cup {NoJob}]
  BY <1>1 DEF TypeOK
<1>3. job # "none"
  BY DEF Jobs, Maintenance
<1>4. g \notin Live /\ Live' = Live \cup {g}
  BY <1>1, <1>3 DEF Live, NoJob, TypeOK
<1>5. g \notin Alive(job, Unreleased) /\ Alive(job, Unreleased)' = Alive(job, Unreleased) \cup {g}
  BY <1>1, <1>3 DEF Alive, Unreleased, NoJob, TypeOK
<1>6. \A j \in Jobs \ {job} : Alive(j, Unreleased)' = Alive(j, Unreleased)
  BY <1>1 DEF Alive, Unreleased, NoJob, TypeOK, Jobs, Maintenance
<1>7. Cardinality(Live') = Cardinality(Live) + 1
  BY <1>4, FS_AddElement, GoroutinesAreCounted
<1> QED
  BY <1>2, <1>5, <1>6, <1>7

(* A goroutine that moves on but does not end stays counted as live. *)
LEMMA StageMoves ==
    ASSUME TypeOK, NEW g \in Goroutines, NEW job \in Jobs, gor[g].job = job,
           NEW stage \in {"release", "done"}, gor' = [gor EXCEPT ![g].stage = stage]
    PROVE  /\ gor' \in [Goroutines -> [job : Jobs, stage : {"call", "release", "done"}] \cup {NoJob}]
           /\ Live' = Live
           /\ \A j \in Jobs \ {job} : Alive(j, Unreleased)' = Alive(j, Unreleased)
           /\ gor[g].stage \in Unreleased /\ stage = "release" =>
                 Alive(job, Unreleased)' = Alive(job, Unreleased)
           /\ gor[g].stage \in Unreleased /\ stage = "done" =>
                 /\ g \in Alive(job, Unreleased)
                 /\ Alive(job, Unreleased)' = Alive(job, Unreleased) \ {g}
<1>1. PICK r : r = gor[g] /\ r.job = job
  OBVIOUS
<1>2. r \in [job : Jobs, stage : {"call", "release", "done"}]
  BY <1>1 DEF TypeOK, NoJob, Jobs, Maintenance
<1>3. gor'[g] = [job |-> r.job, stage |-> stage] /\ \A h \in Goroutines \ {g} : gor'[h] = gor[h]
  BY <1>1, <1>2 DEF TypeOK
<1>4. gor' \in [Goroutines -> [job : Jobs, stage : {"call", "release", "done"}] \cup {NoJob}]
  BY <1>2, <1>3 DEF TypeOK
<1>5. r # NoJob /\ [job |-> r.job, stage |-> stage] # NoJob
  BY <1>2 DEF NoJob, Jobs, Maintenance
<1>6. Live' = Live
  BY <1>1, <1>3, <1>5 DEF Live
<1>7. \A j \in Jobs \ {job} : Alive(j, Unreleased)' = Alive(j, Unreleased)
  BY <1>1, <1>3 DEF Alive
<1>8. r.stage \in Unreleased /\ stage = "release" => Alive(job, Unreleased)' = Alive(job, Unreleased)
  BY <1>1, <1>3 DEF Alive, Unreleased
<1>9. r.stage \in Unreleased /\ stage = "done" =>
        /\ g \in Alive(job, Unreleased)
        /\ Alive(job, Unreleased)' = Alive(job, Unreleased) \ {g}
  BY <1>1, <1>3 DEF Alive, Unreleased
<1> QED
  BY <1>1, <1>4, <1>6, <1>7, <1>8, <1>9

-----------------------------------------------------------------------------
(* The loop. *)

(* Steps that leave goroutines, counters and flags alone. *)
LEMMA SameGoroutines ==
    ASSUME Inv, UNCHANGED <<running, busy, gor, pending>>
    PROVE  BusyInv' /\ running' = Cardinality(Alive("worker", Unreleased)')
BY DEF Inv, BusyInv, CountInv, Alive

(* The loop moves between its stages. *)
LEMMA LoopMoves ==
    ASSUME Inv, UNCHANGED <<ctxDone, running, busy, gor, pending, stopper, storage>>,
           loop # "over", loop' \in {"top", "dispatch", "spawn", "requeue", "purge", "wait"},
           quota' \in 0..MaxWorkers, running + quota' <= MaxWorkers,
           loop' = "spawn" => quota' > 0
    PROVE  Inv'
<1>1. TypeOK'
  BY DEF Inv, TypeOK
<1>2. CountInv'
  BY SameGoroutines DEF Inv, CountInv, Live
<1> QED
  BY <1>1, <1>2, SameGoroutines DEF Inv, QuotaInv, StopInv

(* The loop ends once the context is done, and is taken off the WaitGroup.   *)
LEMMA LoopEndsKeeps ==
    ASSUME Inv, LoopEnds, loop # "over", UNCHANGED <<ctxDone, running, busy, stopper, storage>>
    PROVE  Inv'
<1>1. pending = Cardinality(Live) + 1 /\ Cardinality(Live) \in Nat
  BY GoroutinesAreCounted DEF Inv, CountInv
<1>2. pending' = Cardinality(Live)
  BY <1>1 DEF LoopEnds
<1>3. TypeOK'
  BY <1>1, <1>2 DEF LoopEnds, Inv, TypeOK
<1>4. CountInv'
  BY <1>1, <1>2 DEF LoopEnds, Inv, CountInv, Live, Alive
<1>5. StopInv'
  BY <1>1 DEF Inv, StopInv
<1> QED
  BY <1>3, <1>4, <1>5 DEF LoopEnds, Inv, QuotaInv, BusyInv, Alive

(* The round reads how many workers are free. *)
LEMMA RoundStartsKeeps == ASSUME Inv, RoundStarts PROVE Inv'
<1>1. running \in Nat /\ running <= MaxWorkers /\ quota \in 0..MaxWorkers
  BY MaxWorkersAssumption DEF Inv, TypeOK, QuotaInv
<1>2. Available \in 0..MaxWorkers /\ running + Available <= MaxWorkers
  BY <1>1, MaxOfZero, MaxWorkersAssumption DEF Available
<1>3. CASE ctxDone
  BY <1>3, LoopEndsKeeps DEF RoundStarts
<1>4. CASE ~ctxDone
  BY <1>2, <1>4, LoopMoves DEF RoundStarts, Inv, TypeOK, QuotaInv
<1> QED
  BY <1>3, <1>4

(* The rest of the round is given up when nothing is left or the context is  *)
(* done. *)
LEMMA DispatchCheckKeeps == ASSUME Inv, DispatchCheck PROVE Inv'
<1>1. running \in Nat /\ running <= MaxWorkers /\ quota \in 0..MaxWorkers
  BY MaxWorkersAssumption DEF Inv, TypeOK, QuotaInv
<1>2. 0 \in 0..MaxWorkers
  BY MaxWorkersAssumption
<1> QED
  BY <1>1, <1>2, LoopMoves DEF DispatchCheck, Inv, QuotaInv

(* A worker is started: one more runs, one less is left to start. *)
LEMMA DispatchWorkerKeeps == ASSUME Inv, NEW g \in Goroutines, DispatchWorker(g) PROVE Inv'
<1>1. /\ "worker" \in Jobs
      /\ gor' \in [Goroutines -> [job : Jobs, stage : {"call", "release", "done"}] \cup {NoJob}]
      /\ g \notin Alive("worker", Unreleased)
      /\ Alive("worker", Unreleased)' = Alive("worker", Unreleased) \cup {g}
      /\ \A m \in Maintenance : Alive(m, Unreleased)' = Alive(m, Unreleased)
      /\ Cardinality(Live') = Cardinality(Live) + 1
  BY SpawnAddsOne DEF DispatchWorker, Inv, Jobs, Maintenance
<1>2. running \in Nat /\ quota \in 0..MaxWorkers /\ quota > 0 /\ pending \in Nat
  BY DEF DispatchWorker, Inv, TypeOK, QuotaInv
<1>3. running' = running + 1 /\ quota' = quota - 1 /\ pending' = pending + 1 /\ loop' = "dispatch"
  BY DEF DispatchWorker, Spawn
<1>4. TypeOK'
  BY <1>1, <1>2, <1>3, MaxWorkersAssumption DEF DispatchWorker, Inv, TypeOK
<1>5. Cardinality(Alive("worker", Unreleased)') = Cardinality(Alive("worker", Unreleased)) + 1
  BY <1>1, GoroutinesAreCounted, FS_AddElement
<1>6. CountInv'
  BY <1>1, <1>2, <1>3, <1>5, GoroutinesAreCounted DEF DispatchWorker, Inv, CountInv
<1>7. QuotaInv'
  BY <1>2, <1>3, MaxWorkersAssumption DEF Inv, QuotaInv
<1>8. BusyInv'
  BY <1>1 DEF DispatchWorker, Inv, BusyInv
<1>9. pending # 0
  BY GoroutinesAreCounted DEF DispatchWorker, Inv, CountInv
<1>10. StopInv'
  BY <1>9 DEF DispatchWorker, Inv, StopInv
<1> QED
  BY <1>4, <1>6, <1>7, <1>8, <1>10 DEF Inv

(* A maintenance job is started only if nobody has its flag. *)
LEMMA RunOnceKeeps ==
    ASSUME Inv, NEW m \in Maintenance, NEW g \in Goroutines, RunOnceAsync(m, g) PROVE Inv'
<1>1. /\ m \in Jobs /\ m # "worker"
      /\ gor' \in [Goroutines -> [job : Jobs, stage : {"call", "release", "done"}] \cup {NoJob}]
      /\ Alive(m, Unreleased)' = Alive(m, Unreleased) \cup {g}
      /\ Alive("worker", Unreleased)' = Alive("worker", Unreleased)
      /\ \A n \in Maintenance \ {m} : Alive(n, Unreleased)' = Alive(n, Unreleased)
      /\ Cardinality(Live') = Cardinality(Live) + 1
  BY SpawnAddsOne DEF RunOnceAsync, Inv, Jobs, Maintenance
<1>2. Alive(m, Unreleased) = {}
  BY DEF RunOnceAsync, Inv, BusyInv
<1>3. /\ pending' = pending + 1 /\ UNCHANGED <<running, quota, ctxDone, stopper, storage>>
      /\ loop \in Maintenance /\ loop' \in {"purge", "wait"}
      /\ busy' = [busy EXCEPT ![m] = TRUE]
  BY DEF RunOnceAsync, Spawn, AfterJob, Maintenance
<1>4. TypeOK'
  BY <1>1, <1>3 DEF Inv, TypeOK
<1>5. CountInv'
  BY <1>1, <1>3, GoroutinesAreCounted DEF Inv, CountInv, Maintenance
<1>6. QuotaInv'
  BY <1>3 DEF Inv, QuotaInv
<1>7. BusyInv'
  BY <1>1, <1>2, <1>3 DEF Inv, BusyInv, TypeOK
<1>8. pending # 0
  BY <1>3, GoroutinesAreCounted DEF Inv, CountInv, Maintenance
<1>9. StopInv'
  BY <1>3, <1>8 DEF Inv, StopInv
<1> QED
  BY <1>4, <1>5, <1>6, <1>7, <1>9 DEF Inv

(* The loop skips a job, or the timer fires. *)
LEMMA LoopPassesKeeps ==
    ASSUME Inv, TimerFires \/ \E m \in Maintenance : SkipJob(m) PROVE Inv'
<1>1. /\ loop \in {"wait"} \cup Maintenance /\ loop' \in {"top", "purge", "wait"}
      /\ UNCHANGED <<ctxDone, quota, running, busy, gor, pending, stopper, storage>>
  BY DEF TimerFires, SkipJob, AfterJob
<1> QED
  BY <1>1, LoopMoves DEF Inv, TypeOK, QuotaInv, Maintenance

(* The loop leaves its wait for good. *)
LEMMA WaitInterruptedKeeps == ASSUME Inv, WaitInterrupted PROVE Inv'
BY LoopEndsKeeps DEF WaitInterrupted

-----------------------------------------------------------------------------
(* The goroutines. *)

(* A call returns; its counter or flag is still to be given back. *)
LEMMA CallReturnsKeeps == ASSUME Inv, NEW g \in Goroutines, CallReturns(g) PROVE Inv'
<1>0. /\ gor[g].job \in Jobs /\ gor[g].stage \in Unreleased
      /\ gor' = [gor EXCEPT ![g].stage = "release"]
      /\ TypeOK /\ "release" \in {"release", "done"} /\ "release" # "done"
  BY DEF CallReturns, Unreleased, Inv
<1>1. /\ gor' \in [Goroutines -> [job : Jobs, stage : {"call", "release", "done"}] \cup {NoJob}]
      /\ Live' = Live
      /\ \A j \in Jobs : Alive(j, Unreleased)' = Alive(j, Unreleased)
  <2>1. PICK job \in Jobs : gor[g].job = job
    BY <1>0
  <2> QED
    BY <1>0, <2>1, StageMoves
<1>2. UNCHANGED <<ctxDone, loop, quota, running, busy, pending, stopper, storage>>
  BY DEF CallReturns
<1>3. TypeOK'
  BY <1>1, <1>2 DEF Inv, TypeOK
<1> QED
  BY <1>1, <1>2, <1>3 DEF Inv, CountInv, QuotaInv, BusyInv, StopInv, Jobs

(* The worker lowers the counter, a maintenance job its flag. *)
LEMMA ReleaseKeeps == ASSUME Inv, NEW g \in Goroutines, Release(g) PROVE Inv'
<1>1. PICK j : j = gor[g].job
  OBVIOUS
<1>2. j \in Jobs /\ gor[g].stage = "release" /\ gor' = [gor EXCEPT ![g].stage = "done"]
  BY <1>1 DEF Release
<1>2a. gor[g].stage \in Unreleased /\ TypeOK /\ "done" \in {"release", "done"}
  BY <1>2 DEF Unreleased, Inv
<1>3. /\ gor' \in [Goroutines -> [job : Jobs, stage : {"call", "release", "done"}] \cup {NoJob}]
      /\ Live' = Live
      /\ g \in Alive(j, Unreleased)
      /\ Alive(j, Unreleased)' = Alive(j, Unreleased) \ {g}
      /\ \A i \in Jobs \ {j} : Alive(i, Unreleased)' = Alive(i, Unreleased)
  BY <1>1, <1>2, <1>2a, StageMoves
<1>4. UNCHANGED <<ctxDone, loop, quota, pending, stopper, storage>>
  BY DEF Release
<1>5. running \in Nat /\ quota \in Nat /\ running + quota <= MaxWorkers /\ MaxWorkers \in Nat
  BY MaxWorkersAssumption DEF Inv, TypeOK, QuotaInv
<1>6. CASE j = "worker"
  <2>1. running' = running - 1 /\ busy' = busy
    BY <1>1, <1>6 DEF Release
  <2>2. Cardinality(Alive(j, Unreleased)') = Cardinality(Alive(j, Unreleased)) - 1
    BY <1>3, GoroutinesAreCounted, FS_RemoveElement
  <2>3. Cardinality(Alive(j, Unreleased)) # 0
    BY <1>3, GoroutinesAreCounted, FS_EmptySet
  <2>4. running' \in Nat /\ running' + quota <= MaxWorkers
    BY <1>5, <1>6, <2>1, <2>3 DEF Inv, CountInv
  <2>5. TypeOK'
    BY <1>3, <1>4, <2>1, <2>4 DEF Inv, TypeOK
  <2>6. CountInv'
    BY <1>3, <1>4, <1>6, <2>1, <2>2 DEF Inv, CountInv
  <2>7. BusyInv'
    BY <1>3, <1>6, <2>1 DEF Inv, BusyInv, Maintenance, Jobs
  <2> QED
    BY <1>4, <2>4, <2>5, <2>6, <2>7 DEF Inv, QuotaInv, StopInv
<1>7. CASE j # "worker"
  <2>1. j \in Maintenance /\ running' = running /\ busy' = [busy EXCEPT ![j] = FALSE]
    BY <1>1, <1>2, <1>7 DEF Release, Jobs
  <2>2. TypeOK'
    BY <1>3, <1>4, <2>1 DEF Inv, TypeOK
  <2>3. CountInv'
    BY <1>3, <1>4, <1>7, <2>1 DEF Inv, CountInv, Jobs
  <2>4. Alive(j, Unreleased)' = {}
    BY <1>3, <2>1 DEF Inv, BusyInv
  <2>5. \A m \in Maintenance \ {j} : Alive(m, Unreleased)' = Alive(m, Unreleased) /\ busy'[m] = busy[m]
    BY <1>3, <2>1 DEF Inv, TypeOK, Jobs
  <2>6. BusyInv'
    BY <2>4, <2>5 DEF Inv, BusyInv
  <2> QED
    BY <1>4, <2>1, <2>2, <2>3, <2>6 DEF Inv, QuotaInv, StopInv
<1> QED
  BY <1>6, <1>7

(* A goroutine is taken off the WaitGroup with its last step. *)
LEMMA PendingDoneKeeps == ASSUME Inv, NEW g \in Goroutines, PendingDone(g) PROVE Inv'
<1>1. /\ gor[g].job \in Jobs /\ gor[g].stage = "done" /\ gor' = [gor EXCEPT ![g] = NoJob]
      /\ pending' = pending - 1
      /\ UNCHANGED <<ctxDone, loop, quota, running, busy, stopper, storage>>
  BY DEF PendingDone
<1>2. gor[g] # NoJob
  BY <1>1 DEF NoJob, Jobs, Maintenance
<1>3. g \in Live /\ Live' = Live \ {g}
  BY <1>1, <1>2 DEF Live, Inv, TypeOK
<1>4. \A j \in Jobs : Alive(j, Unreleased)' = Alive(j, Unreleased)
  BY <1>1 DEF Alive, Unreleased, NoJob, Inv, TypeOK
<1>5. Cardinality(Live') = Cardinality(Live) - 1 /\ Cardinality(Live) # 0 /\ Cardinality(Live) \in Nat
  BY <1>3, GoroutinesAreCounted, FS_RemoveElement, FS_EmptySet
<1>6. pending # 0 /\ pending' \in Nat
  BY <1>1, <1>5 DEF Inv, CountInv
<1>7. TypeOK'
  BY <1>1, <1>6 DEF Inv, TypeOK
<1>8. CountInv'
  BY <1>1, <1>4, <1>5 DEF Inv, CountInv, Jobs
<1>9. StopInv'
  BY <1>1, <1>6 DEF Inv, StopInv
<1>10. BusyInv'
  BY <1>1, <1>4 DEF Inv, BusyInv, Jobs
<1> QED
  BY <1>1, <1>7, <1>8, <1>9, <1>10 DEF Inv, QuotaInv

-----------------------------------------------------------------------------
(* Stop, and the invariant. *)

(* Stop returns only on an empty WaitGroup, and the storage closes after it. *)
LEMMA StopKeeps ==
    ASSUME Inv, (\E s \in Stoppers : StopCall(s) \/ StopReturns(s)) \/ CloseStorage PROVE Inv'
<1>1. UNCHANGED <<loop, quota, running, busy, gor, pending>>
  BY DEF StopCall, StopReturns, CloseStorage
<1>2. TypeOK'
  BY <1>1 DEF StopCall, StopReturns, CloseStorage, Inv, TypeOK
<1>3. CountInv' /\ QuotaInv' /\ BusyInv'
  BY <1>1, SameGoroutines DEF Inv, CountInv, QuotaInv, Live
<1>4. StopInv'
  BY DEF StopCall, StopReturns, CloseStorage, Inv, StopInv, TypeOK
<1> QED
  BY <1>2, <1>3, <1>4 DEF Inv

(* At the start only the loop is counted. *)
LEMMA InvInit == Init => Inv
<1> SUFFICES ASSUME Init PROVE Inv
  OBVIOUS
<1>0. 0 \in 0..MaxWorkers /\ busy \in [Maintenance -> BOOLEAN]
  BY MaxWorkersAssumption DEF Init
<1>1. TypeOK
  BY <1>0 DEF Init, TypeOK
<1>2. \A j \in Jobs : Alive(j, Unreleased) = {}
  BY DEF Init, Alive, NoJob, Unreleased
<1>3. Live = {}
  BY DEF Init, Live
<1>4. CountInv
  BY <1>2, <1>3, FS_EmptySet DEF Init, CountInv, Jobs
<1>5. QuotaInv /\ StopInv
  BY MaxWorkersAssumption DEF Init, QuotaInv, StopInv
<1>6. BusyInv
  BY <1>2 DEF BusyInv, Jobs
<1> QED
  BY <1>1, <1>4, <1>5, <1>6 DEF Inv

(* Every step of loop, goroutines and stop keeps the invariant. *)
LEMMA InvStep == Inv /\ [Next]_policyVars => Inv'
<1> SUFFICES ASSUME Inv, [Next]_policyVars PROVE Inv'
  OBVIOUS
<1>1. CASE Loop
  BY <1>1, RoundStartsKeeps, DispatchCheckKeeps, DispatchWorkerKeeps, RunOnceKeeps, LoopPassesKeeps,
     WaitInterruptedKeeps
     DEF Loop
<1>2. ASSUME NEW g \in Goroutines, Goroutine(g) PROVE Inv'
  BY <1>2, CallReturnsKeeps, ReleaseKeeps, PendingDoneKeeps DEF Goroutine
<1>3. CASE Stop \/ CloseStorage
  BY <1>3, StopKeeps DEF Stop
<1>4. CASE UNCHANGED policyVars
  BY <1>4 DEF policyVars, Inv, TypeOK, CountInv, QuotaInv, BusyInv, StopInv, Alive, Live
<1> QED
  BY <1>1, <1>2, <1>3, <1>4 DEF Next

(* Once the WaitGroup is empty the loop is over and no goroutine is left. *)
LEMMA NothingPending == Inv /\ pending = 0 => loop = "over" /\ \A g \in Goroutines : gor[g] = NoJob
<1> SUFFICES ASSUME Inv, pending = 0 PROVE loop = "over" /\ \A g \in Goroutines : gor[g] = NoJob
  OBVIOUS
<1>1. loop = "over" /\ Live = {}
  BY GoroutinesAreCounted, FS_EmptySet DEF Inv, CountInv
<1> QED
  BY <1>1 DEF Live

(* The inductive invariant holds in every reachable state. *)
THEOREM Invariance == Spec => []Inv
BY InvInit, InvStep, PTL DEF Spec

-----------------------------------------------------------------------------
(* The properties. *)

(* Every variable of Policy stays in its domain: no counter falls below 0. *)
THEOREM TypeCorrect == Spec => []TypeOK
<1>1. Inv => TypeOK
  BY DEF Inv
<1> QED
  BY <1>1, Invariance, PTL

(* startWorkers: runningWorkers counts the workers, and they are never more  *)
(* than CurrentMaxWorkers, whatever rounds and returns interleave. *)
THEOREM WorkersAreLimited == Spec => []WorkersWithinLimit
<1>1. Inv => WorkersWithinLimit
  BY DEF Inv, CountInv, QuotaInv, WorkersWithinLimit, Unreleased
<1> QED
  BY <1>1, Invariance, PTL

(* startPolicy: once the WaitGroup is empty nobody adds to it again, so      *)
(* pending.Wait is used as sync.WaitGroup demands. *)
THEOREM WaitGroupIsUsedOnce == Spec => WaitGroupIsNotReused
<1>1. ASSUME Inv, [Next]_policyVars, pending = 0 PROVE pending' = 0
  <2>1. loop = "over" /\ \A g \in Goroutines : gor[g] = NoJob
    BY <1>1, NothingPending
  <2>3. ~Loop
    BY <2>1 DEF Loop, RoundStarts, DispatchCheck, DispatchWorker, SkipJob, RunOnceAsync, TimerFires,
                WaitInterrupted, Maintenance
  <2>4. \A g \in Goroutines : ~Goroutine(g)
    BY <2>1 DEF Goroutine, CallReturns, Release, PendingDone, NoJob, Jobs, Maintenance
  <2> QED
    BY <1>1, <2>3, <2>4 DEF Next, Stop, StopCall, StopReturns, CloseStorage, policyVars
<1>2. Inv /\ [Next]_policyVars => [pending = 0 => pending' = 0]_policyVars
  BY <1>1
<1> QED
  BY <1>2, Invariance, PTL DEF Spec, WaitGroupIsNotReused

=============================================================================
