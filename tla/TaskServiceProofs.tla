------------------------- MODULE TaskServiceProofs -------------------------
(***************************************************************************)
(* The safety properties of TaskService, for any number of tasks,          *)
(* goroutines, users, faults and restarts.  They rest on the invariants of *)
(* its two halves: a step of the service is a step of the queue or none,   *)
(* and a step of the policy or none, except that the queue also gives up   *)
(* for a cancelled context, and that the policy begins again at a restart. *)
(***************************************************************************)
EXTENDS TaskService, TLAPS

QP == INSTANCE AsyncTaskProofs WITH Workers <- Goroutines, ProgressReports <- {}
PP == INSTANCE PolicyProofs

-----------------------------------------------------------------------------
(* The inductive invariant. *)

(* A goroutine that is at work in the queue is in its call; the storage is   *)
(* as it was opened, or closed after a stop. *)
JoinInv ==
    /\ \A g \in Goroutines : pc[g] # "idle" => InCall(g, "worker")
    /\ scan # "idle" => \E g \in Goroutines : InCall(g, "requeue")
    /\ storage \in {StorageAtStart, {}}

Inv == QP!Inv /\ PP!Inv /\ JoinInv

-----------------------------------------------------------------------------
(* The policy. *)

(* What PolicyProofs assumes of its constants. *)
LEMMA PolicyHypotheses == PP!GoroutinesAssumption /\ PP!MaxWorkersAssumption
BY PolicyAssumption DEF IsFiniteSet, PP!IsFiniteSet

(* A start of the service is one of the policy. *)
LEMMA PolicyInit == P!Init => PP!Inv
<1>1. P!Init => PP!Init
  BY DEF P!Init, PP!Init, P!NoJob, PP!NoJob, P!Maintenance, PP!Maintenance
<1> QED
  BY <1>1, PP!InvInit, PolicyHypotheses

(* So is a restart. *)
LEMMA PolicyRestarts == P!Init' => PP!Inv'
BY PolicyInit, PTL

(* The loop's steps keep the invariant of the policy. *)
LEMMA PolicyLoops == PP!Inv /\ P!Loop => PP!Inv'
<1>1. P!LoopEnds <=> PP!LoopEnds
  BY DEF P!LoopEnds, PP!LoopEnds
<1>2. P!Available = PP!Available
  BY DEF P!Available, PP!Available, P!Max, PP!Max
<1>3. P!RoundStarts => PP!RoundStarts
  BY <1>1, <1>2 DEF P!RoundStarts, PP!RoundStarts
<1>4. P!DispatchCheck => PP!DispatchCheck
  BY DEF P!DispatchCheck, PP!DispatchCheck
<1>5. \A g \in Goroutines, job \in P!Jobs : P!Spawn(g, job) => PP!Spawn(g, job)
  BY DEF P!Spawn, PP!Spawn, P!NoJob, PP!NoJob
<1>6. ASSUME NEW g \in Goroutines, P!DispatchWorker(g) PROVE PP!DispatchWorker(g)
  BY <1>5, <1>6 DEF P!DispatchWorker, PP!DispatchWorker, P!Jobs
<1>7. P!Maintenance = PP!Maintenance
  BY DEF P!Maintenance, PP!Maintenance
<1>8. \A m \in P!Maintenance : P!SkipJob(m) => PP!SkipJob(m)
  BY DEF P!SkipJob, PP!SkipJob, P!AfterJob, PP!AfterJob
<1>9. ASSUME NEW m \in P!Maintenance, NEW g \in Goroutines, P!RunOnceAsync(m, g)
      PROVE  PP!RunOnceAsync(m, g)
  BY <1>5, <1>9 DEF P!RunOnceAsync, PP!RunOnceAsync, P!AfterJob, PP!AfterJob, P!Jobs
<1>10. P!TimerFires => PP!TimerFires
  BY DEF P!TimerFires, PP!TimerFires
<1>11. P!WaitInterrupted => PP!WaitInterrupted
  BY <1>1 DEF P!WaitInterrupted, PP!WaitInterrupted
<1>12. P!Loop => PP!Loop
  BY <1>3, <1>4, <1>6, <1>7, <1>8, <1>9, <1>10, <1>11 DEF P!Loop, PP!Loop
<1> QED
  BY <1>12, PP!InvStep, PolicyHypotheses DEF PP!Next

(* So do those of its goroutines, *)
LEMMA PolicyRuns == PP!Inv /\ (\E g \in Goroutines : P!Goroutine(g)) => PP!Inv'
<1>1. P!NoJob = PP!NoJob /\ P!Jobs = PP!Jobs
  BY DEF P!NoJob, PP!NoJob, P!Jobs, PP!Jobs, P!Maintenance, PP!Maintenance
<1>2. \A g \in Goroutines : P!Goroutine(g) => PP!Goroutine(g)
  BY <1>1 DEF P!Goroutine, PP!Goroutine, P!CallReturns, PP!CallReturns, P!Release, PP!Release,
              P!PendingDone, PP!PendingDone
<1> QED
  BY <1>2, PP!InvStep, PolicyHypotheses DEF PP!Next

(* those of a stop, and no step at all. *)
LEMMA PolicyStops == PP!Inv /\ (P!Stop \/ P!CloseStorage \/ UNCHANGED policyVars) => PP!Inv'
<1>1. P!Stop => PP!Stop
  BY DEF P!Stop, PP!Stop, P!StopCall, PP!StopCall, P!StopReturns, PP!StopReturns
<1>2. P!CloseStorage => PP!CloseStorage
  BY DEF P!CloseStorage, PP!CloseStorage
<1>3. UNCHANGED policyVars => UNCHANGED PP!policyVars
  BY DEF policyVars, PP!policyVars
<1> QED
  BY <1>1, <1>2, <1>3, PP!InvStep, PolicyHypotheses DEF PP!Next

-----------------------------------------------------------------------------
(* The queue. *)

(* What AsyncTaskProofs assumes of its constants. *)
LEMMA QueueHypotheses == QP!BoundsAssumption /\ QP!OwnerAssumption /\ QP!ProgressAssumption
BY QueueAssumption

(* A start of the service is one of the queue. *)
LEMMA QueueInit == Q!Init => QP!Inv
<1>1. Q!Init => QP!Init
  BY DEF Q!Init, QP!Init, Q!Tasks, QP!Tasks, Q!NoRow, QP!NoRow, Q!NoTask, QP!NoTask
<1> QED
  BY <1>1, QP!InvInit, QueueHypotheses

(* What the API and a crash do to the queue keeps its invariant. *)
LEMMA QueueServes == QP!Inv /\ (Q!Api \/ Q!Crash \/ UNCHANGED queueVars) => QP!Inv'
<1>1. Q!Tasks = QP!Tasks
  BY DEF Q!Tasks, QP!Tasks
<1>2. \A s : Q!InStatus(s) = QP!InStatus(s)
  BY <1>1 DEF Q!InStatus, QP!InStatus
<1>3. Q!Locked = QP!Locked
  BY DEF Q!Locked, QP!Locked
<1>4. \A t \in Q!Tasks : \A o : Q!AcceptAsyncTask(t, o) => QP!AcceptAsyncTask(t, o)
  BY <1>2 DEF Q!AcceptAsyncTask, QP!AcceptAsyncTask, Q!Accepted, QP!Accepted, Q!memory, QP!memory
<1>5. \A t \in Q!Tasks : \A u \in Users : Q!TaskCancel(t, u) => QP!TaskCancel(t, u)
  BY <1>3 DEF Q!TaskCancel, QP!TaskCancel, Q!Cancelled, QP!Cancelled, Q!memory, QP!memory
<1>6. Q!Api => QP!Api
  BY <1>1, <1>4, <1>5 DEF Q!Api, QP!Api
<1>7. Q!Crash => QP!Crash
  BY DEF Q!Crash, QP!Crash, Q!EndScan, QP!EndScan, Q!NoTask, QP!NoTask
<1>8. UNCHANGED queueVars => UNCHANGED QP!vars
  BY DEF queueVars, QP!vars
<1> QED
  BY <1>6, <1>7, <1>8, QP!InvStep, QueueHypotheses DEF QP!Next

(* So does what a worker does for its claim, *)
LEMMA QueueClaims ==
    QP!Inv /\ (\E g \in Goroutines : Q!StartWorker(g) \/ Q!Claim(g)) => QP!Inv'
<1>1. Q!Tasks = QP!Tasks
  BY DEF Q!Tasks, QP!Tasks
<1>2. Q!Claimable = QP!Claimable
  BY <1>1 DEF Q!Claimable, QP!Claimable, Q!InStatus, QP!InStatus, Q!Locked, QP!Locked
<1>3. \A g : Q!Exit(g) => QP!Exit(g)
  BY DEF Q!Exit, QP!Exit, Q!SetPc, QP!SetPc, Q!NoTask, QP!NoTask
<1>4. ASSUME NEW g \in Goroutines, Q!StartWorker(g) PROVE QP!StartWorker(g)
  BY <1>4 DEF Q!StartWorker, QP!StartWorker, Q!SetPc, QP!SetPc
<1>5. ASSUME NEW g \in Goroutines, Q!ClaimSelect(g) PROVE QP!ClaimSelect(g)
  BY <1>2, <1>5 DEF Q!ClaimSelect, QP!ClaimSelect, Q!SetPc, QP!SetPc
<1>6. ASSUME NEW g \in Goroutines, Q!ClaimNothing(g) PROVE QP!ClaimNothing(g)
  BY <1>2, <1>3, <1>6 DEF Q!ClaimNothing, QP!ClaimNothing
<1>7. ASSUME NEW g \in Goroutines, Q!ClaimMark(g) PROVE QP!ClaimMark(g)
  BY <1>7 DEF Q!ClaimMark, QP!ClaimMark, Q!SetPc, QP!SetPc
<1>8. \A g : Q!CommittedClaim(g) = QP!CommittedClaim(g)
  BY DEF Q!CommittedClaim, QP!CommittedClaim, Q!Claimed, QP!Claimed
<1>9. ASSUME NEW g \in Goroutines, Q!ClaimCommit(g) PROVE QP!ClaimCommit(g)
  BY <1>8, <1>9 DEF Q!ClaimCommit, QP!ClaimCommit, Q!SetPc, QP!SetPc
<1>10. ASSUME NEW g \in Goroutines, Q!ClaimFails(g) PROVE QP!ClaimFails(g)
  BY <1>3, <1>10 DEF Q!ClaimFails, QP!ClaimFails, Q!RollbackClaim, QP!RollbackClaim, Q!Fault, QP!Fault
<1>11. ASSUME NEW g \in Goroutines, Q!CommitFails(g) PROVE QP!CommitFails(g)
  BY <1>8, <1>11 DEF Q!CommitFails, QP!CommitFails, Q!RollbackCommit, QP!RollbackCommit,
                     Q!Fault, QP!Fault, Q!SetPc, QP!SetPc
<1>12. \A g \in Goroutines : Q!Claim(g) => QP!Claim(g)
  BY <1>5, <1>6, <1>7, <1>9, <1>10, <1>11 DEF Q!Claim, QP!Claim
<1> QED
  BY <1>4, <1>12, QP!InvStep, QueueHypotheses DEF QP!Next, QP!Worker

(* for the end of its execution, *)
LEMMA QueueFinishes == QP!Inv /\ (\E g \in Goroutines : Q!Finish(g)) => QP!Inv'
<1>1. Q!ProcessStatusOf = QP!ProcessStatusOf
  BY DEF Q!ProcessStatusOf, QP!ProcessStatusOf
<1>2. Q!Locked = QP!Locked /\ \A s : Q!InStatus(s) = QP!InStatus(s)
  BY DEF Q!Locked, QP!Locked, Q!InStatus, QP!InStatus, Q!Tasks, QP!Tasks
<1>3. ASSUME NEW g \in Goroutines, NEW ending, Q!ExecuteReturns(g, ending)
      PROVE  QP!ExecuteReturns(g, ending)
  BY <1>1, <1>3 DEF Q!ExecuteReturns, QP!ExecuteReturns, Q!SetPc, QP!SetPc
<1>4. ASSUME NEW g \in Goroutines, Q!finishTask(g) PROVE QP!finishTask(g)
  BY <1>2, <1>4 DEF Q!finishTask, QP!finishTask, Q!Finished, QP!Finished, Q!SetPc, QP!SetPc
<1>5. ASSUME NEW g \in Goroutines, Q!FinishFails(g) PROVE QP!FinishFails(g)
  BY <1>5 DEF Q!FinishFails, QP!FinishFails, Q!AbandonFinish, QP!AbandonFinish, Q!Fault, QP!Fault,
              Q!SetPc, QP!SetPc
<1>6. ASSUME NEW g \in Goroutines, Q!Unmark(g) PROVE QP!Unmark(g)
  BY <1>6 DEF Q!Unmark, QP!Unmark, Q!Exit, QP!Exit, Q!NoTask, QP!NoTask, Q!SetPc, QP!SetPc
<1>7. \A g \in Goroutines : Q!Finish(g) => QP!Finish(g)
  BY <1>1, <1>3, <1>4, <1>5, <1>6 DEF Q!Finish, QP!Finish
<1> QED
  BY <1>7, QP!InvStep, QueueHypotheses DEF QP!Next, QP!Worker

(* and what the scan does, *)
LEMMA QueueScans == QP!Inv /\ Q!Scan => QP!Inv'
<1>1. Q!Tasks = QP!Tasks /\ Q!Orphaned = QP!Orphaned
  BY DEF Q!Tasks, QP!Tasks, Q!Orphaned, QP!Orphaned, Q!InStatus, QP!InStatus
<1>2. Q!ScanSnapshot => QP!ScanSnapshot
  BY DEF Q!ScanSnapshot, QP!ScanSnapshot
<1>3. Q!ScanUpdate => QP!ScanUpdate
  BY <1>1 DEF Q!ScanUpdate, QP!ScanUpdate, Q!EndScan, QP!EndScan, Q!Requeued, QP!Requeued
<1>4. Q!ScanFails => QP!ScanFails
  BY DEF Q!ScanFails, QP!ScanFails, Q!AbortScan, QP!AbortScan, Q!EndScan, QP!EndScan,
         Q!Fault, QP!Fault
<1> QED
  BY <1>2, <1>3, <1>4, QP!InvStep, QueueHypotheses DEF Q!Scan, QP!Scan, QP!Next

(* also when the cancelled context makes a claim or a scan give up. *)
LEMMA QueueGivesUp ==
    ASSUME QP!Inv, UNCHANGED <<row, faults>>,
           Q!AbortScan \/ \E g \in Goroutines : Q!RollbackClaim(g) \/ Q!RollbackCommit(g)
    PROVE  QP!Inv'
<1>1. Q!AbortScan => QP!AbortScan
  BY DEF Q!AbortScan, QP!AbortScan, Q!EndScan, QP!EndScan
<1>2. \A g : Q!RollbackClaim(g) => QP!RollbackClaim(g)
  BY DEF Q!RollbackClaim, QP!RollbackClaim, Q!Exit, QP!Exit, Q!NoTask, QP!NoTask, Q!SetPc, QP!SetPc
<1>3. \A g : Q!RollbackCommit(g) => QP!RollbackCommit(g)
  BY DEF Q!RollbackCommit, QP!RollbackCommit, Q!SetPc, QP!SetPc
<1> QED
  BY <1>1, <1>2, <1>3, QP!GivingUpKeeps, QueueHypotheses

-----------------------------------------------------------------------------
(* Both together. *)

(* At the start nobody works. *)
LEMMA InvInit == Init => Inv
<1>1. Q!Init => scan = "idle" /\ \A g \in Goroutines : pc[g] = "idle"
  BY DEF Q!Init
<1> QED
  BY <1>1, PolicyInit, QueueInit DEF Init, Inv, JoinInv

(* What is known of the variables that the steps below change. *)
LEMMA Known ==
    ASSUME Inv
    PROVE  /\ pc \in [Goroutines -> {"idle", "claiming", "locked", "marked",
                                     "executing", "finishing", "unmarking"}]
           /\ DOMAIN gor = Goroutines
           /\ gor = [g \in Goroutines |-> gor[g]]
           /\ \A g \in Goroutines : gor[g] # PP!NoJob =>
                 gor[g] \in [job : PP!Jobs, stage : {"call", "release", "done"}]
BY DEF Inv, QP!Inv, QP!TypeOK, PP!Inv, PP!TypeOK

(* Goroutines in a call stay there, and nobody starts to work. *)
LEMMA NobodyStarts ==
    ASSUME JoinInv, UNCHANGED storage,
           \A g \in Goroutines : pc'[g] # "idle" => pc[g] # "idle",
           scan' # "idle" => scan # "idle",
           \A g \in Goroutines : gor[g] # P!NoJob => gor'[g] = gor[g]
    PROVE  JoinInv'
<1>1. \A g \in Goroutines, job \in P!Jobs : InCall(g, job) => gor[g] # P!NoJob
  BY DEF InCall, P!NoJob, P!Jobs, P!Maintenance
<1>2. \A g \in Goroutines, job \in P!Jobs : InCall(g, job) => InCall(g, job)'
  BY <1>1 DEF InCall
<1>3. "worker" \in P!Jobs /\ "requeue" \in P!Jobs
  BY DEF P!Jobs, P!Maintenance
<1> QED
  BY <1>2, <1>3 DEF JoinInv

(* Requests do not touch the work. *)
LEMMA RequestKeeps == Inv /\ Request => Inv'
<1> SUFFICES ASSUME Inv, Request PROVE Inv'
  OBVIOUS
<1>1. QP!Inv' /\ PP!Inv'
  BY QueueServes, PolicyStops DEF Inv, Request
<1>2. UNCHANGED <<pc, scan, gor, storage>>
  BY DEF Request, Q!Api, Q!AcceptAsyncTask, Q!TaskCancel, Q!memory, policyVars
<1> QED
  BY <1>1, <1>2, NobodyStarts DEF Inv

(* The loop starts goroutines, on free places only. *)
LEMMA LoopKeeps == Inv /\ LoopStep => Inv'
<1>1. ASSUME Inv, PolicyStep PROVE Inv'
  <2>1. QP!Inv' /\ PP!Inv'
    BY <1>1, QueueServes, PolicyLoops DEF Inv, PolicyStep, P!Loop
  <2>2. UNCHANGED <<pc, scan>>
    BY <1>1 DEF PolicyStep, queueVars
  <2>3. UNCHANGED storage /\ \A g \in Goroutines : gor[g] # P!NoJob => gor'[g] = gor[g]
    BY <1>1, Known DEF PolicyStep, P!RoundStarts, P!LoopEnds, P!DispatchCheck, P!SkipJob,
       P!RunOnceAsync, P!Spawn, P!TimerFires, P!WaitInterrupted
  <2> QED
    BY <1>1, <2>1, <2>2, <2>3, NobodyStarts DEF Inv
<1>2. ASSUME Inv, NEW g \in Goroutines, WorkerStarts(g) PROVE Inv'
  <2>1. QP!Inv' /\ PP!Inv'
    BY <1>2, QueueClaims, PolicyLoops DEF Inv, WorkerStarts, P!Loop
  <2>2. gor[g] = P!NoJob /\ gor' = [gor EXCEPT ![g] = [job |-> "worker", stage |-> "call"]]
    BY <1>2 DEF WorkerStarts, P!DispatchWorker, P!Spawn
  <2>3. pc' = [pc EXCEPT ![g] = "claiming"] /\ UNCHANGED <<scan, storage>>
    BY <1>2 DEF WorkerStarts, P!DispatchWorker, Q!StartWorker, Q!SetPc
  <2>4. \A h \in Goroutines : pc'[h] # "idle" => InCall(h, "worker")'
    BY <1>2, <2>2, <2>3, Known DEF Inv, JoinInv, InCall
  <2>5. \A h \in Goroutines : InCall(h, "requeue") => InCall(h, "requeue")'
    BY <1>2, <2>2, Known DEF InCall, P!NoJob
  <2> QED
    BY <1>2, <2>1, <2>3, <2>4, <2>5 DEF Inv, JoinInv
<1> QED
  BY <1>1, <1>2 DEF LoopStep

(* A worker in its call moves on in the queue. *)
LEMMA WorkerKeeps == \A g \in Goroutines : Inv /\ WorkerStep(g) => Inv'
<1> SUFFICES ASSUME NEW g \in Goroutines, Inv, WorkerStep(g) PROVE Inv'
  OBVIOUS
<1>1. Q!ClaimMark(g) => Q!Claim(g)
  BY DEF Q!Claim
<1>2. QP!Inv' /\ PP!Inv'
  BY <1>1, QueueClaims, QueueFinishes, QueueGivesUp, PolicyStops DEF Inv, WorkerStep
<1>3. UNCHANGED <<scan, gor, storage>> /\ \E label : pc' = [pc EXCEPT ![g] = label]
  BY DEF WorkerStep, policyVars, Q!Claim, Q!ClaimSelect, Q!ClaimNothing, Q!ClaimMark, Q!ClaimCommit,
     Q!ClaimFails, Q!RollbackClaim, Q!CommitFails, Q!RollbackCommit, Q!Finish, Q!ExecuteReturns,
     Q!finishTask, Q!FinishFails, Q!AbandonFinish, Q!Unmark, Q!Exit, Q!SetPc
<1>4. \A h \in Goroutines \ {g} : pc'[h] = pc[h]
  BY <1>3, Known
<1>5. InCall(g, "worker") /\ \A h \in Goroutines : \A job : InCall(h, job)' <=> InCall(h, job)
  BY <1>3 DEF WorkerStep, InCall
<1> QED
  BY <1>2, <1>3, <1>4, <1>5 DEF Inv, JoinInv

(* A call returns when its work is over. *)
LEMMA ReturnKeeps ==
    ASSUME Inv, NEW g \in Goroutines, P!CallReturns(g), QP!Inv',
           UNCHANGED pc, pc[g] = "idle", scan' # "idle" => scan # "idle" /\ ~InCall(g, "requeue")
    PROVE  Inv'
<1>1. PP!Inv'
  BY PolicyRuns DEF Inv, P!Goroutine
<1>2. UNCHANGED storage /\ gor' = [gor EXCEPT ![g].stage = "release"]
  BY DEF P!CallReturns
<1>3. \A h \in Goroutines \ {g} : gor'[h] = gor[h]
  BY <1>2, Known
<1>4. \A h \in Goroutines \ {g} : \A job : InCall(h, job)' <=> InCall(h, job)
  BY <1>3 DEF InCall
<1> QED
  BY <1>1, <1>2, <1>4 DEF Inv, JoinInv

(* What a goroutine does keeps the invariant. *)
LEMMA GoroutineKeeps == \A g \in Goroutines : Inv /\ GoroutineStep(g) => Inv'
<1> SUFFICES ASSUME NEW g \in Goroutines, Inv, GoroutineStep(g) PROVE Inv'
  OBVIOUS
<1>1. \A job \in {"requeue", "purge"} : InCall(g, job) => ~InCall(g, "worker")
  BY DEF InCall
<1>2. InCall(g, "purge") \/ InCall(g, "worker") => ~InCall(g, "requeue")
  BY DEF InCall
<1>3. CASE WorkerStep(g)
  BY <1>3, WorkerKeeps
<1>4. CASE WorkerReturns(g)
  BY <1>2, <1>4, QueueServes, ReturnKeeps DEF Inv, WorkerReturns, queueVars
<1>5. CASE RequeueReads(g)
  <2>1. QP!Inv' /\ PP!Inv'
    BY <1>5, QueueScans, PolicyStops DEF Inv, RequeueReads, Q!Scan
  <2>2. UNCHANGED <<pc, gor, storage>> /\ InCall(g, "requeue")
    BY <1>5 DEF RequeueReads, Q!ScanSnapshot, policyVars
  <2> QED
    BY <2>1, <2>2 DEF Inv, JoinInv, InCall
<1>6. CASE RequeueReturns(g)
  <2>1. QP!Inv'
    BY <1>6, QueueScans, QueueGivesUp DEF Inv, RequeueReturns, Q!Scan, Q!AbortScan
  <2>2. scan' = "idle" /\ UNCHANGED pc
    BY <1>6 DEF RequeueReturns, Q!ScanUpdate, Q!ScanFails, Q!AbortScan, Q!EndScan
  <2>3. pc[g] = "idle" /\ P!CallReturns(g)
    BY <1>1, <1>6 DEF Inv, JoinInv, RequeueReturns
  <2> QED
    BY <2>1, <2>2, <2>3, ReturnKeeps
<1>7. CASE PurgeReturns(g)
  <2>1. pc[g] = "idle" /\ ~InCall(g, "requeue") /\ P!CallReturns(g)
    BY <1>1, <1>2, <1>7 DEF Inv, JoinInv, PurgeReturns
  <2>2. QP!Inv' /\ UNCHANGED <<pc, scan>>
    BY <1>7, QueueServes DEF Inv, PurgeReturns, queueVars
  <2> QED
    BY <2>1, <2>2, ReturnKeeps
<1>8. CASE GoroutineEnds(g)
  <2>1. QP!Inv' /\ PP!Inv'
    BY <1>8, QueueServes, PolicyRuns DEF Inv, GoroutineEnds, P!Goroutine
  <2>2. UNCHANGED <<pc, scan, storage>> /\ \A h \in Goroutines \ {g} : gor'[h] = gor[h]
    BY <1>8, Known DEF GoroutineEnds, queueVars, P!Release, P!PendingDone
  <2>3. gor[g].stage # "call"
    BY <1>8 DEF GoroutineEnds, P!Release, P!PendingDone
  <2>4. \A job : ~InCall(g, job)
    BY <2>3 DEF InCall
  <2>5. \A h \in Goroutines : \A job : InCall(h, job) => InCall(h, job)'
    BY <2>2, <2>4 DEF InCall
  <2> QED
    BY <2>1, <2>2, <2>5 DEF Inv, JoinInv
<1> QED
  BY <1>3, <1>4, <1>5, <1>6, <1>7, <1>8 DEF GoroutineStep

(* A stop waits until nobody is at work, and then the storage is closed. *)
LEMMA ShutdownKeeps == Inv /\ Shutdown => Inv'
<1> SUFFICES ASSUME Inv, Shutdown PROVE Inv'
  OBVIOUS
<1>1. QP!Inv' /\ PP!Inv'
  BY QueueServes, PolicyStops DEF Inv, Shutdown, StopReturns, P!Stop
<1>2. UNCHANGED <<pc, scan, gor>> /\ storage' \in {storage, {}}
  BY DEF Shutdown, StopReturns, queueVars, P!StopCall, P!StopReturns, P!CloseStorage
<1> QED
  BY <1>1, <1>2 DEF Inv, JoinInv, InCall

(* A fresh process has nobody at work. *)
LEMMA RestartKeeps == Inv /\ Restart => Inv'
<1> SUFFICES ASSUME Inv, Restart PROVE Inv'
  OBVIOUS
<1>1. QP!Inv'
  BY QueueServes DEF Inv, Restart
<1>2. P!Init'
  BY DEF Restart, P!Init, StorageAtStart
<1>3. PP!Inv'
  BY <1>2, PolicyRestarts
<1>4. scan' = "idle" /\ storage' = StorageAtStart /\ \A g \in Goroutines : pc'[g] = "idle"
  BY DEF Restart, Q!Crash, Q!EndScan
<1> QED
  BY <1>1, <1>3, <1>4 DEF Inv, JoinInv, StorageAtStart

(* Every step keeps the invariant. *)
LEMMA InvStep == Inv /\ [Next]_vars => Inv'
<1>1. Inv /\ UNCHANGED vars => Inv'
  <2> SUFFICES ASSUME Inv, UNCHANGED vars PROVE Inv'
    OBVIOUS
  <2>1. UNCHANGED queueVars /\ UNCHANGED policyVars
    BY DEF vars
  <2>2. UNCHANGED <<pc, scan, gor, storage>>
    BY <2>1 DEF queueVars, policyVars
  <2> QED
    BY <2>1, <2>2, QueueServes, PolicyStops, NobodyStarts DEF Inv
<1> QED
  BY <1>1, RequestKeeps, LoopKeeps, GoroutineKeeps, ShutdownKeeps, RestartKeeps DEF Next

(* The invariants of the queue and of the policy hold of the two together. *)
THEOREM Invariance == Spec => []Inv
BY InvInit, InvStep, PTL DEF Spec

-----------------------------------------------------------------------------
(* What the invariant means for the service. *)

(* Once the WaitGroup is empty no worker and no scan is at work. *)
LEMMA NobodyWorks ==
    ASSUME Inv, pending = 0
    PROVE  scan = "idle" /\ \A g \in Goroutines : pc[g] = "idle"
<1>1. \A g \in Goroutines : gor[g] = PP!NoJob
  BY PP!NothingPending, PolicyHypotheses DEF Inv
<1>2. \A g \in Goroutines : ~InCall(g, "worker") /\ ~InCall(g, "requeue")
  BY <1>1 DEF InCall, PP!NoJob
<1> QED
  BY <1>2 DEF Inv, JoinInv

(* A returned stop has left the queue idle, in memory and, without database *)
(* errors and crashes, in the table. *)
THEOREM StopIsGraceful == Spec => []StopLeavesNoRunningTask
<1>1. Inv => StopLeavesNoRunningTask
  <2> SUFFICES ASSUME Inv, NEW s \in Stoppers, stopper[s] = "returned"
               PROVE  /\ inFlight = {} /\ scan = "idle"
                      /\ faults = 0 /\ crashes = 0 => Q!InStatus("running") = {}
    BY DEF StopLeavesNoRunningTask
  <2>1. pending = 0
    BY DEF Inv, PP!Inv, PP!StopInv
  <2>2. scan = "idle" /\ \A g \in Goroutines : pc[g] = "idle"
    BY <2>1, NobodyWorks
  <2>3. inFlight = {} /\ (faults = 0 /\ crashes = 0 => QP!InStatus("running") = {})
    BY <2>2, QP!IdleQueue, QueueHypotheses DEF Inv
  <2>4. Q!InStatus("running") = QP!InStatus("running")
    BY DEF Q!InStatus, QP!InStatus, Q!Tasks, QP!Tasks
  <2> QED
    BY <2>2, <2>3, <2>4
<1> QED
  BY <1>1, Invariance, PTL

(* Work in the queue finds its database open. *)
THEOREM StorageIsOpenForWork == Spec => []StorageOutlivesWork
<1>1. Inv => StorageOutlivesWork
  <2> SUFFICES ASSUME Inv, "mysql" \notin storage
               PROVE  scan = "idle" /\ \A g \in Goroutines : pc[g] = "idle"
    BY DEF StorageOutlivesWork
  <2>1. storage = {}
    BY DEF Inv, JoinInv, StorageAtStart
  <2>2. pending = 0
    BY <2>1 DEF Inv, PP!Inv, PP!StopInv
  <2> QED
    BY <2>2, NobodyWorks
<1> QED
  BY <1>1, Invariance, PTL

(* There is one requeue scan at a time. *)
THEOREM ScansDoNotOverlap == Spec => []OneScan
<1>1. Inv => OneScan
  <2> SUFFICES ASSUME Inv, NEW g \in Goroutines, NEW h \in Goroutines,
                      InCall(g, "requeue"), InCall(h, "requeue")
               PROVE  g = h
    BY DEF OneScan
  <2>1. {g, h} \subseteq PP!Alive("requeue", PP!Unreleased)
    BY DEF InCall, PP!Alive, PP!Unreleased
  <2> QED
    BY <2>1 DEF Inv, PP!Inv, PP!BusyInv, PP!Maintenance
<1> QED
  BY <1>1, Invariance, PTL

=============================================================================
