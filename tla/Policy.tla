-------------------------------- MODULE Policy --------------------------------
(***************************************************************************)
(* The dispatcher (policy/policy.go) and the part of main that stops it.   *)
(*                                                                         *)
(* One loop goroutine starts, every round, as many one-shot workers as the *)
(* counter runningWorkers leaves free, and each maintenance job unless its *)
(* previous run is still going.  Goroutines end by lowering their counter  *)
(* or flag and then calling pending.Done.  What a goroutine does in        *)
(* between is left open; TaskService fills it in.                          *)
(***************************************************************************)
EXTENDS Integers, FiniteSets, FiniteSetsExt

CONSTANTS
    Goroutines,  \* bound: goroutines alive at the same time
    MaxWorkers,  \* CurrentMaxWorkers: NumCPU times workers_scaller
    Stoppers     \* callers of the stop function

ASSUME GoroutinesAssumption == IsFiniteSet(Goroutines)
ASSUME MaxWorkersAssumption == MaxWorkers \in Nat

VARIABLES
    ctxDone,      \* the policy context is cancelled
    loop,         \* where the loop goroutine is
    quota,        \* workers it still starts this round: available - i
    running,      \* runningWorkers
    busy,         \* requeueRunning and purgeRunning
    gor,          \* what each goroutine runs and how far it is
    pending,      \* the WaitGroup
    stopper,      \* where each caller of stop is
    storage       \* engines open: subset of {"mysql", "primary"}

policyVars == <<ctxDone, loop, quota, running, busy, gor, pending, stopper, storage>>

Maintenance == {"requeue", "purge"}
Jobs == {"worker"} \cup Maintenance
NoJob == [job |-> "none", stage |-> "done"]

(* Goroutines of a job that are at one of some stages: "call" while the      *)
(* function runs, "release" before the counter or flag is given back, "done" *)
(* before pending.Done. *)
Alive(job, stages) == {g \in Goroutines : gor[g].job = job /\ gor[g].stage \in stages}
Live == {g \in Goroutines : gor[g] # NoJob}

(* Mutant: the loop goroutine is not counted. *)
InitUncounted ==
    /\ ctxDone = FALSE
    /\ loop = "top"
    /\ quota = 0
    /\ running = 0
    /\ busy = [m \in Maintenance |-> FALSE]
    /\ gor = [g \in Goroutines |-> NoJob]
    /\ pending = 0
    /\ stopper = [s \in Stoppers |-> "idle"]
    /\ storage \in {{"mysql"}, {"primary"}, {"mysql", "primary"}}

Init ==
    /\ ctxDone = FALSE
    /\ loop = "top"
    /\ quota = 0
    /\ running = 0
    /\ busy = [m \in Maintenance |-> FALSE]
    /\ gor = [g \in Goroutines |-> NoJob]
    /\ pending = 1                        \* the loop itself
    /\ stopper = [s \in Stoppers |-> "idle"]
    /\ storage \in {{"mysql"}, {"primary"}, {"mysql", "primary"}}

-----------------------------------------------------------------------------
(* The loop. *)

Spawn(g, job) ==
    /\ gor[g] = NoJob
    /\ gor' = [gor EXCEPT ![g] = [job |-> job, stage |-> "call"]]
    /\ pending' = pending + 1

LoopEnds ==
    /\ loop' = "over"
    /\ pending' = pending - 1
    /\ UNCHANGED <<quota, gor>>

(* What the workers still running leave free of the limit. *)
AvailableIgnoringWorkers == MaxWorkers          \* mutant
Available == Max({0, MaxWorkers - running})

(* Mutant: the loop condition does not look at the context. *)
RoundStartsAlways ==
    /\ loop = "top"
    /\ \/ /\ "mysql" \in storage
          /\ quota' = Available
          /\ loop' = "dispatch"
       \/ /\ "mysql" \notin storage
          /\ loop' = "purge"
          /\ UNCHANGED quota
    /\ UNCHANGED <<ctxDone, running, busy, gor, pending, stopper, storage>>

(* The round starts: how many workers are free is read once. *)
RoundStarts ==
    /\ loop = "top"
    /\ \/ ctxDone /\ LoopEnds
       \/ /\ ~ctxDone
          /\ "mysql" \in storage
          /\ quota' = Available
          /\ loop' = "dispatch"
          /\ UNCHANGED <<gor, pending>>
       \/ /\ ~ctxDone
          /\ "mysql" \notin storage
          /\ loop' = "purge"
          /\ UNCHANGED <<quota, gor, pending>>
    /\ UNCHANGED <<ctxDone, running, busy, stopper, storage>>

(* The context is checked before each worker, not together with its start. *)
DispatchCheck ==
    /\ loop = "dispatch"
    /\ IF quota > 0 /\ ~ctxDone THEN loop' = "spawn" /\ UNCHANGED quota
                                ELSE loop' = "requeue" /\ quota' = 0
    /\ UNCHANGED <<ctxDone, running, busy, gor, pending, stopper, storage>>

DispatchWorker(g) ==
    /\ loop = "spawn"
    /\ Spawn(g, "worker")
    /\ running' = running + 1
    /\ quota' = quota - 1
    /\ loop' = "dispatch"
    /\ UNCHANGED <<ctxDone, busy, stopper, storage>>

AfterJob(m) == IF m = "requeue" THEN "purge" ELSE "wait"

(* Mutant: the flag is set but not tested. *)
RunAlwaysAsync(m, g) ==
    /\ loop = m
    /\ m = "purge" => "primary" \in storage
    /\ busy' = [busy EXCEPT ![m] = TRUE]
    /\ Spawn(g, m)
    /\ loop' = AfterJob(m)
    /\ UNCHANGED <<ctxDone, quota, running, stopper, storage>>

(* runOnceAsync: the flag is taken by compare-and-swap. *)
RunOnceAsync(m, g) ==
    /\ loop = m
    /\ m = "purge" => "primary" \in storage
    /\ ~busy[m]
    /\ busy' = [busy EXCEPT ![m] = TRUE]
    /\ Spawn(g, m)
    /\ loop' = AfterJob(m)
    /\ UNCHANGED <<ctxDone, quota, running, stopper, storage>>

(* Mutant: the loop waits for the previous run instead of skipping it. *)
WaitForJob(m) ==
    /\ loop = m
    /\ m = "purge" /\ "primary" \notin storage
    /\ loop' = AfterJob(m)
    /\ UNCHANGED <<ctxDone, quota, running, busy, gor, pending, stopper, storage>>

SkipJob(m) ==
    /\ loop = m
    /\ busy[m] \/ (m = "purge" /\ "primary" \notin storage)
    /\ loop' = AfterJob(m)
    /\ UNCHANGED <<ctxDone, quota, running, busy, gor, pending, stopper, storage>>

(* The select: with both channels ready either branch is taken. *)
TimerFires ==
    /\ loop = "wait"
    /\ loop' = "top"
    /\ UNCHANGED <<ctxDone, quota, running, busy, gor, pending, stopper, storage>>

WaitInterrupted ==
    /\ loop = "wait"
    /\ ctxDone
    /\ LoopEnds
    /\ UNCHANGED <<ctxDone, running, busy, stopper, storage>>

-----------------------------------------------------------------------------
(* The end of a goroutine: its deferred calls, last one first. *)

CallReturns(g) ==
    /\ gor[g].job \in Jobs
    /\ gor[g].stage = "call"
    /\ gor' = [gor EXCEPT ![g].stage = "release"]
    /\ UNCHANGED <<ctxDone, loop, quota, running, busy, pending, stopper, storage>>

(* Mutant: maintenance jobs lower the counter of the workers too. *)
ReleaseCounter(g) ==
    /\ gor[g].job \in Jobs
    /\ gor[g].stage = "release"
    /\ gor' = [gor EXCEPT ![g].stage = "done"]
    /\ running' = running - 1
    /\ busy' = [m \in Maintenance |-> busy[m] /\ m # gor[g].job]
    /\ UNCHANGED <<ctxDone, loop, quota, pending, stopper, storage>>

Release(g) ==
    /\ gor[g].job \in Jobs
    /\ gor[g].stage = "release"
    /\ gor' = [gor EXCEPT ![g].stage = "done"]
    /\ IF gor[g].job = "worker"
       THEN running' = running - 1 /\ UNCHANGED busy
       ELSE busy' = [busy EXCEPT ![gor[g].job] = FALSE] /\ UNCHANGED running
    /\ UNCHANGED <<ctxDone, loop, quota, pending, stopper, storage>>

PendingDone(g) ==
    /\ gor[g].job \in Jobs
    /\ gor[g].stage = "done"
    /\ gor' = [gor EXCEPT ![g] = NoJob]
    /\ pending' = pending - 1
    /\ UNCHANGED <<ctxDone, loop, quota, running, busy, stopper, storage>>

-----------------------------------------------------------------------------
(* The stop function, and main's deferred CloseStorage after it. *)

StopCall(s) ==
    /\ stopper[s] = "idle"
    /\ ctxDone' = TRUE
    /\ stopper' = [stopper EXCEPT ![s] = "waiting"]
    /\ UNCHANGED <<loop, quota, running, busy, gor, pending, storage>>

(* Mutant: stop does not wait. *)
StopReturnsAtOnce(s) ==
    /\ stopper[s] = "waiting"
    /\ stopper' = [stopper EXCEPT ![s] = "returned"]
    /\ UNCHANGED <<ctxDone, loop, quota, running, busy, gor, pending, storage>>

StopReturns(s) ==
    /\ stopper[s] = "waiting"
    /\ pending = 0
    /\ stopper' = [stopper EXCEPT ![s] = "returned"]
    /\ UNCHANGED <<ctxDone, loop, quota, running, busy, gor, pending, storage>>

CloseStorage ==
    /\ \E s \in Stoppers : stopper[s] = "returned"
    /\ storage' = {}
    /\ UNCHANGED <<ctxDone, loop, quota, running, busy, gor, pending, stopper>>

-----------------------------------------------------------------------------
Loop ==
    \/ RoundStarts
    \/ DispatchCheck
    \/ \E g \in Goroutines : DispatchWorker(g)
    \/ \E m \in Maintenance : SkipJob(m) \/ \E g \in Goroutines : RunOnceAsync(m, g)
    \/ TimerFires
    \/ WaitInterrupted

Goroutine(g) == CallReturns(g) \/ Release(g) \/ PendingDone(g)

Stop == \E s \in Stoppers : StopCall(s) \/ StopReturns(s)

Next ==
    \/ Loop
    \/ \E g \in Goroutines : Goroutine(g)
    \/ Stop
    \/ CloseStorage

Spec == Init /\ [][Next]_policyVars

(* Goroutines are scheduled and the timer fires; whether a call ever returns  *)
(* is open, and so is whether anyone stops the program. *)
Scheduling ==
    /\ WF_policyVars(Loop)
    /\ \A g \in Goroutines : WF_policyVars(Release(g) \/ PendingDone(g))
    /\ \A s \in Stoppers : WF_policyVars(StopReturns(s))

ScheduledSpec == Spec /\ Scheduling

-----------------------------------------------------------------------------
(* Properties. *)

(* Every variable stays in its domain. *)
TypeOK ==
    /\ ctxDone \in BOOLEAN
    /\ loop \in {"top", "dispatch", "spawn", "requeue", "purge", "wait", "over"}
    /\ quota \in 0..MaxWorkers
    /\ running \in Nat
    /\ busy \in [Maintenance -> BOOLEAN]
    /\ gor \in [Goroutines -> [job : Jobs, stage : {"call", "release", "done"}] \cup {NoJob}]
    /\ pending \in Nat
    /\ stopper \in [Stoppers -> {"idle", "waiting", "returned"}]
    /\ storage \subseteq {"mysql", "primary"}

(* No more than MaxWorkers workers run, though the loop reads the counter   *)
(* once a round while workers lower it at any time; what the loop still     *)
(* means to start is covered as well (policy.md: long tasks keep their slot *)
(* across rounds). *)
WorkersWithinLimit ==
    /\ Cardinality(Alive("worker", {"call", "release"})) = running
    /\ running + quota <= MaxWorkers

(* The WaitGroup is never raised from zero, which Wait does not allow. *)
WaitGroupIsNotReused == [][pending = 0 => pending' = 0]_policyVars

(* If calls return, so does stop: an Execute that never does holds it up. *)
StopReturnsEventually ==
    (\A g \in Goroutines : WF_policyVars(CallReturns(g))) =>
        \A s \in Stoppers : (stopper[s] = "waiting") ~> (stopper[s] = "returned")

(* Until it is stopped the loop comes round again and again, even while      *)
(* tasks or maintenance jobs hang (policy.md: they do not block each other). *)
LoopKeepsRunning == []<>(loop = "wait" \/ ctxDone)

=============================================================================
