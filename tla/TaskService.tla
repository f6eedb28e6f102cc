----------------------------- MODULE TaskService -----------------------------
(***************************************************************************)
(* The task queue driven by the policy, with the stop and the restart of   *)
(* the process.  Each worker goroutine of Policy runs one                  *)
(* ExecuteNextQueuedTask of AsyncTask, the requeue goroutine one           *)
(* RequeueOrphanedTasks.  Cancelling the policy context makes the database *)
(* calls of claims and scans fail, and spares executions (WithoutCancel).  *)
(* Progress reports, which nothing here looks at, are left to AsyncTask.   *)
(***************************************************************************)
EXTENDS Integers, FiniteSets

CONSTANTS MaxTasks, Users, NoUser, MaxFaults, MaxCrashes,
          Goroutines, MaxWorkers, Stoppers

ASSUME QueueAssumption ==
    MaxTasks \in Nat /\ MaxFaults \in Nat /\ MaxCrashes \in Nat /\ NoUser \notin Users
ASSUME PolicyAssumption == IsFiniteSet(Goroutines) /\ MaxWorkers \in Nat

VARIABLES row, inFlight, pc, held, verdict, scan, snapshot, faults, crashes,
          ctxDone, loop, quota, running, busy, gor, pending, stopper, storage

Q == INSTANCE AsyncTask WITH Workers <- Goroutines, ProgressReports <- {}
P == INSTANCE Policy

queueVars  == <<row, inFlight, pc, held, verdict, scan, snapshot, faults, crashes>>
policyVars == <<ctxDone, loop, quota, running, busy, gor, pending, stopper, storage>>
vars == <<queueVars, policyVars>>

StorageAtStart == {"mysql", "primary"}

Init == Q!Init /\ P!Init /\ storage = StorageAtStart

-----------------------------------------------------------------------------
(* Requests arrive as long as the storage is open: the API servers stop     *)
(* before the policy, but give up waiting for their handlers after a while. *)
Request ==
    /\ "mysql" \in storage
    /\ Q!Api
    /\ UNCHANGED policyVars

InCall(g, job) == gor[g] = [job |-> job, stage |-> "call"]

(* Mutant: the execution keeps the context that the stop cancels. *)
WorkerStepCancelled(g) ==
    /\ InCall(g, "worker")
    /\ \/ ~ctxDone /\ (Q!Claim(g) \/ Q!Finish(g))
       \/ ctxDone /\ Q!ClaimMark(g)
       \/ ctxDone /\ (Q!RollbackClaim(g) \/ Q!RollbackCommit(g)) /\ UNCHANGED <<row, faults>>
       \/ ctxDone /\ (Q!ExecuteReturns(g, "other_error") \/ Q!Unmark(g))
       \/ ctxDone /\ Q!AbandonFinish(g) /\ UNCHANGED faults
    /\ UNCHANGED policyVars

(* A worker works on its claim.  With the context cancelled its statements   *)
(* and its commit fail; one that already ran is still followed by its mark. *)
WorkerStep(g) ==
    /\ InCall(g, "worker")
    /\ \/ ~ctxDone /\ Q!Claim(g)
       \/ ctxDone /\ Q!ClaimMark(g)
       \/ ctxDone /\ (Q!RollbackClaim(g) \/ Q!RollbackCommit(g)) /\ UNCHANGED <<row, faults>>
       \/ Q!Finish(g)
    /\ UNCHANGED policyVars

WorkerStarts(g) == P!DispatchWorker(g) /\ Q!StartWorker(g)

WorkerReturns(g) ==
    /\ InCall(g, "worker")
    /\ pc[g] = "idle"
    /\ P!CallReturns(g)
    /\ UNCHANGED queueVars

(* The requeue goroutine: copy the ids, then run the UPDATE and return. *)
RequeueReads(g) ==
    /\ InCall(g, "requeue")
    /\ Q!ScanSnapshot
    /\ UNCHANGED policyVars

RequeueReturns(g) ==
    /\ InCall(g, "requeue")
    /\ \/ ~ctxDone /\ (Q!ScanUpdate \/ Q!ScanFails)
       \/ ctxDone /\ Q!AbortScan /\ UNCHANGED faults
    /\ P!CallReturns(g)

(* The purge job does not touch tasks. *)
PurgeReturns(g) ==
    /\ InCall(g, "purge")
    /\ P!CallReturns(g)
    /\ UNCHANGED queueVars

(* The loop, except for the start of a worker. *)
PolicyStep ==
    /\ \/ P!RoundStarts
       \/ P!DispatchCheck
       \/ \E m \in P!Maintenance : P!SkipJob(m) \/ \E g \in Goroutines : P!RunOnceAsync(m, g)
       \/ P!TimerFires
       \/ P!WaitInterrupted
    /\ UNCHANGED queueVars

LoopStep == PolicyStep \/ \E g \in Goroutines : WorkerStarts(g)

GoroutineEnds(g) == (P!Release(g) \/ P!PendingDone(g)) /\ UNCHANGED queueVars

GoroutineStep(g) ==
    \/ WorkerStep(g)
    \/ WorkerReturns(g)
    \/ RequeueReads(g)
    \/ RequeueReturns(g)
    \/ PurgeReturns(g)
    \/ GoroutineEnds(g)

(* Death of the process, also after a stop, and a fresh one on the same tables. *)
Restart ==
    /\ Q!Crash
    /\ ctxDone' = FALSE
    /\ loop' = "top"
    /\ quota' = 0
    /\ running' = 0
    /\ busy' = [m \in P!Maintenance |-> FALSE]
    /\ gor' = [g \in Goroutines |-> P!NoJob]
    /\ pending' = 1
    /\ stopper' = [s \in Stoppers |-> "idle"]
    /\ storage' = StorageAtStart

StopReturns(s) == P!StopReturns(s) /\ UNCHANGED queueVars

Shutdown ==
    \/ \E s \in Stoppers : P!StopCall(s) /\ UNCHANGED queueVars
    \/ \E s \in Stoppers : StopReturns(s)
    \/ P!CloseStorage /\ UNCHANGED queueVars

Next ==
    \/ Request
    \/ LoopStep
    \/ \E g \in Goroutines : GoroutineStep(g)
    \/ Shutdown
    \/ Restart

Spec == Init /\ [][Next]_vars

(* The loop and the goroutines are scheduled, an Execute returns, stop      *)
(* returns when it can.  Clients, signals, faults and crashes owe nothing. *)
Fairness ==
    /\ WF_vars(LoopStep)
    /\ \A g \in Goroutines : WF_vars(GoroutineStep(g))
    /\ \A s \in Stoppers : WF_vars(StopReturns(s))

FairSpec == Spec /\ Fairness

-----------------------------------------------------------------------------
(* Properties. *)

(* A graceful stop leaves no task half done (ability_task.md: stop          *)
(* dispatching, wait for what is claimed and for maintenance, then close    *)
(* the storage): with no database error and no crash, once stop has         *)
(* returned no row is running, so the next start finds no orphan. *)
StopLeavesNoRunningTask ==
    (\E s \in Stoppers : stopper[s] = "returned") =>
        /\ inFlight = {} /\ scan = "idle"
        /\ faults = 0 /\ crashes = 0 => Q!InStatus("running") = {}

(* No worker and no scan is at work on a closed database. *)
StorageOutlivesWork ==
    (\E g \in Goroutines : pc[g] # "idle") \/ scan # "idle" => "mysql" \in storage

(* The scan of a maintenance round and the one before never overlap, so     *)
(* AsyncTask's single scan is all the process has. *)
OneScan ==
    \A g, h \in Goroutines : InCall(g, "requeue") /\ InCall(h, "requeue") => g = h

(* As long as nobody stops the service every task is served, across faults  *)
(* and restarts: done, unless stopped or the scan keeps tearing tasks away. *)
EveryTaskIsServed ==
    <>[]~Q!ScanIsStale =>
        \A t \in Q!Tasks : (row[t].status = "queued") ~> (row[t].status = "done" \/ ctxDone)

=============================================================================
