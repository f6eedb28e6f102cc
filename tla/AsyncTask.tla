------------------------------ MODULE AsyncTask ------------------------------
(***************************************************************************)
(* The durable queue of asynchronous tasks (ability/ability_task).         *)
(*                                                                         *)
(* row is the async_tasks table as committed in MySQL.  Everything else is *)
(* memory of the one process that works on it: inFlight is the map         *)
(* inFlightTasks, a worker is one goroutine running ExecuteNextQueuedTask, *)
(* the scan is RequeueOrphanedTasks.  A claim is a transaction, so it is   *)
(* split at its lock, its in-memory registration and its commit; a         *)
(* statement that MySQL runs alone is one step, taken when the row lock is *)
(* free.  A crash loses the memory and rolls back open transactions.       *)
(***************************************************************************)
EXTENDS Integers

CONSTANTS
    MaxTasks,        \* bound: rows that are ever inserted
    Workers,         \* goroutines the policy may have running
    Users,           \* accounts that submit and cancel tasks
    NoUser,          \* user_id NULL: accepted without an identity
    ProgressReports, \* percentages Execute passes to UpdateProgress
    MaxFaults,       \* bound: database errors
    MaxCrashes       \* bound: process deaths

ASSUME BoundsAssumption ==
    MaxTasks \in Nat /\ MaxFaults \in Nat /\ MaxCrashes \in Nat
ASSUME OwnerAssumption == NoUser \notin Users
ASSUME ProgressAssumption == ProgressReports \subseteq 0..100

VARIABLES
    row,       \* committed table: task id -> row
    inFlight,  \* inFlightTasks, a set of task ids
    pc,        \* where each worker is
    held,      \* the task each worker claimed
    verdict,   \* process status a worker is about to store
    scan,      \* RequeueOrphanedTasks: "idle" or "update"
    snapshot,  \* the in-flight ids the scan read
    faults, crashes

vars == <<row, inFlight, pc, held, verdict, scan, snapshot, faults, crashes>>
memory == <<inFlight, pc, held, verdict, scan, snapshot>>

-----------------------------------------------------------------------------
Tasks  == 1..MaxTasks        \* auto-increment primary key, in arrival order
NoTask == 0

Status  == {"absent", "queued", "running", "done"}
Verdict == {"success", "failed", "system_error"}
Outcome == Verdict \cup {"", "cancelled"}

Row == [status   : Status,
        outcome  : Outcome,
        started  : BOOLEAN,                 \* started_at is set
        progress : 0..100,
        owner    : Users \cup {NoUser}]

NoRow == [status |-> "absent", outcome |-> "", started |-> FALSE,
          progress |-> 0, owner |-> NoUser]

(* What each statement writes into a row r. *)
Accepted(owner) == [status |-> "queued", outcome |-> "", started |-> FALSE,
                    progress |-> 0, owner |-> owner]
Claimed(r)      == [r EXCEPT !.status = "running", !.started = TRUE]
Requeued(r)     == [r EXCEPT !.status = "queued", !.started = FALSE]
Cancelled(r)    == [r EXCEPT !.status = "done", !.outcome = "cancelled"]
Finished(r, v)  == [status |-> "done", outcome |-> v, started |-> r.started,
                    progress |-> IF v = "success" THEN 100 ELSE r.progress,
                    owner |-> r.owner]

InStatus(s) == {t \in Tasks : row[t].status = s}

(* Rows locked by a claim that has not committed yet. *)
Locked == {held[w] : w \in {v \in Workers : pc[v] \in {"locked", "marked"}}}

(* Workers between the commit of their claim and their unmark. *)
Executing(t) == {w \in Workers : held[w] = t /\ pc[w] \in {"executing", "finishing"}}

SetPc(w, label) == pc' = [pc EXCEPT ![w] = label]

(* The goroutine ends: its locals are gone. *)
Exit(w) ==
    /\ SetPc(w, "idle")
    /\ held' = [held EXCEPT ![w] = NoTask]

Fault == faults < MaxFaults /\ faults' = faults + 1

Init ==
    /\ row = [t \in Tasks |-> NoRow]
    /\ inFlight = {}
    /\ pc = [w \in Workers |-> "idle"]
    /\ held = [w \in Workers |-> NoTask]
    /\ verdict = [w \in Workers |-> ""]
    /\ scan = "idle"
    /\ snapshot = {}
    /\ faults = 0
    /\ crashes = 0

-----------------------------------------------------------------------------
(* API side. *)

(* One insert; the owner is the identity the gate put in the context, or NULL. *)
AcceptAsyncTask(t, owner) ==
    /\ t \in InStatus("absent")
    /\ \A s \in 1..(t - 1) : s \notin InStatus("absent")
    /\ row' = [row EXCEPT ![t] = Accepted(owner)]
    /\ UNCHANGED <<memory, faults, crashes>>

(* Mutant: run_status is not compared with queued. *)
CancelUnfinished(t, u) ==
    /\ t \notin Locked
    /\ row[t].status \in {"queued", "running"}
    /\ row[t].owner = u
    /\ row' = [row EXCEPT ![t] = Cancelled(row[t])]
    /\ UNCHANGED <<memory, faults, crashes>>

(* A conditional UPDATE on task_id, user_id and run_status = queued. *)
TaskCancel(t, u) ==
    /\ t \notin Locked
    /\ row[t].status = "queued"
    /\ row[t].owner = u
    /\ row' = [row EXCEPT ![t] = Cancelled(row[t])]
    /\ UNCHANGED <<memory, faults, crashes>>

-----------------------------------------------------------------------------
(* Worker side: claimQueuedTask. *)

(* The policy runs ExecuteNextQueuedTask in a new goroutine. *)
StartWorker(w) ==
    /\ pc[w] = "idle"
    /\ SetPc(w, "claiming")
    /\ UNCHANGED <<row, inFlight, held, verdict, scan, snapshot, faults, crashes>>

(* Mutant: a plain read instead of FOR UPDATE SKIP LOCKED. *)
ClaimableUnlocked == InStatus("queued")

(* Queued rows no other claim has locked: FOR UPDATE SKIP LOCKED. *)
Claimable == InStatus("queued") \ Locked

ClaimSelect(w) ==
    /\ pc[w] = "claiming"
    /\ \E t \in Claimable :
        /\ \A s \in Claimable : t <= s
        /\ held' = [held EXCEPT ![w] = t]
    /\ SetPc(w, "locked")
    /\ UNCHANGED <<row, inFlight, verdict, scan, snapshot, faults, crashes>>

ClaimNothing(w) ==
    /\ pc[w] = "claiming"
    /\ Claimable = {}
    /\ Exit(w)
    /\ UNCHANGED <<row, inFlight, verdict, scan, snapshot, faults, crashes>>

(* The update of the row, uncommitted, then markTaskInFlight. *)
ClaimMark(w) ==
    /\ pc[w] = "locked"
    /\ inFlight' = inFlight \cup {held[w]}
    /\ SetPc(w, "marked")
    /\ UNCHANGED <<row, held, verdict, scan, snapshot, faults, crashes>>

CommittedClaim(w) == [row EXCEPT ![held[w]] = Claimed(row[held[w]])]

ClaimCommit(w) ==
    /\ pc[w] = "marked"
    /\ row' = CommittedClaim(w)
    /\ SetPc(w, "executing")
    /\ UNCHANGED <<inFlight, held, verdict, scan, snapshot, faults, crashes>>

(* A statement of the claim fails before the registration: roll back, return. *)
RollbackClaim(w) ==
    /\ pc[w] \in {"claiming", "locked"}
    /\ Exit(w)
    /\ UNCHANGED <<row, inFlight, verdict, scan, snapshot, crashes>>

ClaimFails(w) == Fault /\ RollbackClaim(w)

(* Commit returns an error: the transaction is gone, the id must be unmarked. *)
RollbackCommit(w) ==
    /\ pc[w] = "marked"
    /\ SetPc(w, "unmarking")
    /\ UNCHANGED <<inFlight, held, verdict, scan, snapshot, crashes>>

(* Mutant: the failed commit returns without its unmark. *)
CommitFailsMarked(w) ==
    /\ Fault
    /\ pc[w] = "marked"
    /\ row' \in {row, CommittedClaim(w)}
    /\ Exit(w)
    /\ UNCHANGED <<inFlight, verdict, scan, snapshot, crashes>>

(* MySQL rolled back, or committed and the reply was lost. *)
CommitFails(w) ==
    /\ Fault
    /\ row' \in {row, CommittedClaim(w)}
    /\ RollbackCommit(w)

-----------------------------------------------------------------------------
(* Worker side: executeClaimedTask. *)

(* Mutant: done is not refused. *)
UpdateAnyProgress(w, p) ==
    /\ pc[w] = "executing"
    /\ held[w] \notin Locked
    /\ row' = [row EXCEPT ![held[w]].progress = p]
    /\ UNCHANGED <<memory, faults, crashes>>

(* UpdateProgress locks the row and refuses only done. *)
UpdateProgress(w, p) ==
    /\ pc[w] = "executing"
    /\ held[w] \notin Locked
    /\ row[held[w]].status # "done"
    /\ row' = [row EXCEPT ![held[w]].progress = p]
    /\ UNCHANGED <<memory, faults, crashes>>

(* Mutant: an error stores a status outside the enumeration. *)
ProcessStatusUnlisted ==
    [value |-> "success", business_error |-> "failed", other_error |-> "error",
     bad_result |-> "system_error", not_callable |-> "system_error"]

(* How the call can end, and the process status stored for each way. *)
ProcessStatusOf ==
    [value          |-> "success",
     business_error |-> "failed",
     other_error    |-> "system_error",    \* also a recovered panic
     bad_result     |-> "system_error",    \* not serializable
     not_callable   |-> "system_error"]    \* method unregistered, payload not JSON

(* Mutant: a task that cannot be called returns without finishTask. *)
ExecuteReturnsUnfinished(w, ending) ==
    /\ pc[w] = "executing"
    /\ IF ending = "not_callable"
       THEN SetPc(w, "unmarking") /\ UNCHANGED verdict
       ELSE SetPc(w, "finishing") /\ verdict' = [verdict EXCEPT ![w] = ProcessStatusOf[ending]]
    /\ UNCHANGED <<row, inFlight, held, scan, snapshot, faults, crashes>>

ExecuteReturns(w, ending) ==
    /\ pc[w] = "executing"
    /\ verdict' = [verdict EXCEPT ![w] = ProcessStatusOf[ending]]
    /\ SetPc(w, "finishing")
    /\ UNCHANGED <<row, inFlight, held, scan, snapshot, faults, crashes>>

(* Mutant: the UPDATE is not conditional on running. *)
finishAnyTask(w) ==
    /\ pc[w] = "finishing"
    /\ held[w] \notin Locked
    /\ row' = [row EXCEPT ![held[w]] = Finished(row[held[w]], verdict[w])]
    /\ verdict' = [verdict EXCEPT ![w] = ""]
    /\ SetPc(w, "unmarking")
    /\ UNCHANGED <<inFlight, held, scan, snapshot, faults, crashes>>

(* A conditional UPDATE: it finds no row if the task is not running any more. *)
finishTask(w) ==
    /\ pc[w] = "finishing"
    /\ held[w] \notin Locked
    /\ row' = IF held[w] \in InStatus("running")
              THEN [row EXCEPT ![held[w]] = Finished(row[held[w]], verdict[w])]
              ELSE row
    /\ verdict' = [verdict EXCEPT ![w] = ""]
    /\ SetPc(w, "unmarking")
    /\ UNCHANGED <<inFlight, held, scan, snapshot, faults, crashes>>

(* The error of the UPDATE is logged and nothing else. *)
AbandonFinish(w) ==
    /\ pc[w] = "finishing"
    /\ verdict' = [verdict EXCEPT ![w] = ""]
    /\ SetPc(w, "unmarking")
    /\ UNCHANGED <<row, inFlight, held, scan, snapshot, crashes>>

FinishFails(w) == Fault /\ AbandonFinish(w)

(* Mutant: the worker returns and leaves its id in the set. *)
ExitMarked(w) ==
    /\ pc[w] = "unmarking"
    /\ Exit(w)
    /\ UNCHANGED <<row, inFlight, verdict, scan, snapshot, faults, crashes>>

(* The deferred unmark of an execution, or that of a failed commit. *)
Unmark(w) ==
    /\ pc[w] = "unmarking"
    /\ inFlight' = inFlight \ {held[w]}
    /\ Exit(w)
    /\ UNCHANGED <<row, verdict, scan, snapshot, faults, crashes>>

-----------------------------------------------------------------------------
(* RequeueOrphanedTasks: the ids are copied first, the UPDATE runs later. *)

ScanSnapshot ==
    /\ scan = "idle"
    /\ scan' = "update"
    /\ snapshot' = inFlight
    /\ UNCHANGED <<row, inFlight, pc, held, verdict, faults, crashes>>

EndScan == scan' = "idle" /\ snapshot' = {}

Orphaned == InStatus("running") \ snapshot

ScanUpdate ==
    /\ scan = "update"
    /\ row' = [t \in Tasks |-> IF t \in Orphaned THEN Requeued(row[t]) ELSE row[t]]
    /\ EndScan
    /\ UNCHANGED <<inFlight, pc, held, verdict, faults, crashes>>

AbortScan ==
    /\ scan = "update"
    /\ EndScan
    /\ UNCHANGED <<row, inFlight, pc, held, verdict, crashes>>

ScanFails == Fault /\ AbortScan

-----------------------------------------------------------------------------
(* The process dies and starts again on the same database. *)
Crash ==
    /\ crashes < MaxCrashes
    /\ crashes' = crashes + 1
    /\ inFlight' = {}
    /\ pc' = [w \in Workers |-> "idle"]
    /\ held' = [w \in Workers |-> NoTask]
    /\ verdict' = [w \in Workers |-> ""]
    /\ EndScan
    /\ UNCHANGED <<row, faults>>

-----------------------------------------------------------------------------
Claim(w) ==
    \/ ClaimSelect(w)
    \/ ClaimNothing(w)
    \/ ClaimMark(w)
    \/ ClaimCommit(w)
    \/ ClaimFails(w)
    \/ CommitFails(w)

Finish(w) ==
    \/ \E ending \in DOMAIN ProcessStatusOf : ExecuteReturns(w, ending)
    \/ finishTask(w)
    \/ FinishFails(w)
    \/ Unmark(w)

Worker(w) == Claim(w) \/ Finish(w)

Scan == ScanSnapshot \/ ScanUpdate \/ ScanFails

Api ==
    \E t \in Tasks :
        \/ \E owner \in Users \cup {NoUser} : AcceptAsyncTask(t, owner)
        \/ \E u \in Users : TaskCancel(t, u)

Next ==
    \/ Api
    \/ \E w \in Workers :
        \/ StartWorker(w)
        \/ Worker(w)
        \/ \E p \in ProgressReports : UpdateProgress(w, p)
    \/ Scan
    \/ Crash

Spec == Init /\ [][Next]_vars

-----------------------------------------------------------------------------
(* Properties.                                                             *)

(* Every variable stays in its domain; a worker holds a task exactly while  *)
(* it is inside a claim or an execution. *)
TypeOK ==
    /\ row \in [Tasks -> Row]
    /\ inFlight \subseteq Tasks
    /\ pc \in [Workers -> {"idle", "claiming", "locked", "marked",
                           "executing", "finishing", "unmarking"}]
    /\ held \in [Workers -> Tasks \cup {NoTask}]
    /\ verdict \in [Workers -> Verdict \cup {""}]
    /\ scan \in {"idle", "update"}
    /\ snapshot \subseteq Tasks
    /\ faults \in 0..MaxFaults
    /\ crashes \in 0..MaxCrashes
    /\ \A w \in Workers :
        /\ held[w] = NoTask <=> pc[w] \in {"idle", "claiming"}
        /\ pc[w] = "finishing" => verdict[w] \in Verdict

(* A row tells one story: an outcome exactly when done, started_at exactly *)
(* while claimed or executed (a requeue clears it, so a cancelled task     *)
(* never shows a start), and a success is always at 100 percent, however   *)
(* claims, requeues, finishes and late progress reports interleave.        *)
ConsistentRow(r) ==
    /\ r.status = "done" <=> r.outcome # ""
    /\ r.started <=> r.status \in {"running", "done"} /\ r.outcome # "cancelled"
    /\ r.outcome = "success" => r.progress = 100

RowIsConsistent == \A t \in Tasks : ConsistentRow(row[t])

(* The row lock of a claim: no other worker is inside a claim of the same  *)
(* row, and until the commit the row stays queued, so a claim never takes  *)
(* a row that was cancelled, requeued or claimed since it was selected.    *)
ClaimIsExclusive ==
    \A w \in Workers : pc[w] \in {"locked", "marked"} =>
        /\ row[held[w]].status = "queued"
        /\ \A v \in Workers \ {w} :
              pc[v] \in {"locked", "marked"} => held[v] # held[w]

(* The in-flight set never leaks: each id in it belongs to a goroutine that *)
(* is still going to remove it.  A leaked id would shield its row from      *)
(* RequeueOrphanedTasks until the next restart.                             *)
InFlightIsOwned ==
    \A t \in inFlight : \E w \in Workers :
        held[w] = t /\ pc[w] \in {"marked", "executing", "finishing", "unmarking"}

(* done is final: no requeue, late finish, progress report or cancel        *)
(* changes a row a client may have seen done.                               *)
DoneIsFinal ==
    [][\A t \in Tasks : row[t].status = "done" => row'[t] = row[t]]_vars

(* The table implements the life cycle a client is promised: in particular  *)
(* an outcome other than cancelled is stored only while the row is running, *)
(* and a cancel only takes a queued row. *)
Phase(r) == IF r.status = "done" THEN r.outcome ELSE r.status
Life == [t \in Tasks |-> Phase(row[t])]

Lifecycle == INSTANCE TaskLifecycle WITH life <- Life

ImplementsLifecycle == Lifecycle!Spec

(* Without database errors and crashes no row is left behind running: a     *)
(* goroutine that will finish it holds it, even after the scan has given    *)
(* the task to a second one. *)
RunningIsHeld ==
    faults = 0 /\ crashes = 0 => \A t \in InStatus("running") : Executing(t) # {}

(* The scan is about to requeue a task that a worker is executing. *)
ScanIsStale ==
    scan = "update" /\ \E t \in Orphaned : Executing(t) # {}

-----------------------------------------------------------------------------
(* A claim of comments and docs that the code does not keep.               *)

(* ability_task.md:116,132 and the comments at ability_task.go:53,198: no   *)
(* task is executed twice at the same time, for the scan never takes a      *)
(* task of this process for an orphan.                                      *)
NoConcurrentExecution ==
    \A v, w \in Workers : v # w /\ held[v] # NoTask /\ pc[v] = "executing" /\ pc[w] = "executing"
        => held[v] # held[w]

=============================================================================
