--------------------------- MODULE AsyncTaskProofs ---------------------------
(***************************************************************************)
(* The safety properties of AsyncTask, for any number of tasks, workers,   *)
(* users, faults and crashes.                                              *)
(***************************************************************************)
EXTENDS AsyncTask, TLAPS

(* Each way an execution can end stores a process status of the enumeration. *)
LEMMA EndingsHaveVerdicts ==
    \A ending \in DOMAIN ProcessStatusOf : ProcessStatusOf[ending] \in Verdict
BY DEF ProcessStatusOf, Verdict

(* 0 is no task id. *)
LEMMA NoTaskIsNoTask == NoTask \notin Tasks
BY DEF NoTask, Tasks

-----------------------------------------------------------------------------
(* What the statements write: in each case a row, with the columns the      *)
(* properties speak of. *)

(* What each statement writes is a row again. *)
LEMMA NoRowIsARow == NoRow \in Row
BY DEF NoRow, Row, Status, Outcome

(* The insert writes a queued row without outcome, start or progress. *)
LEMMA AcceptedRow ==
    ASSUME NEW owner \in Users \cup {NoUser}
    PROVE  /\ Accepted(owner) \in Row
           /\ Accepted(owner).status = "queued"
           /\ Accepted(owner).outcome = ""
           /\ Accepted(owner).started = FALSE
BY DEF Accepted, Row, Status, Outcome

(* The claim changes the status and started_at only. *)
LEMMA ClaimedRow ==
    ASSUME NEW r \in Row
    PROVE  /\ Claimed(r) \in Row
           /\ Claimed(r).status = "running"
           /\ Claimed(r).started = TRUE
           /\ Claimed(r).outcome = r.outcome
           /\ Claimed(r).progress = r.progress
BY DEF Claimed, Row, Status

(* The requeue changes the status and started_at only. *)
LEMMA RequeuedRow ==
    ASSUME NEW r \in Row
    PROVE  /\ Requeued(r) \in Row
           /\ Requeued(r).status = "queued"
           /\ Requeued(r).started = FALSE
           /\ Requeued(r).outcome = r.outcome
           /\ Requeued(r).progress = r.progress
BY DEF Requeued, Row, Status

(* The cancel changes the status and the outcome only. *)
LEMMA CancelledRow ==
    ASSUME NEW r \in Row
    PROVE  /\ Cancelled(r) \in Row
           /\ Cancelled(r).status = "done"
           /\ Cancelled(r).outcome = "cancelled"
           /\ Cancelled(r).started = r.started
BY DEF Cancelled, Row, Status, Outcome

(* The finish stores the outcome, and progress 100 with a success. *)
LEMMA FinishedRow ==
    ASSUME NEW r \in Row, NEW v \in Verdict
    PROVE  /\ Finished(r, v) \in Row
           /\ Finished(r, v).status = "done"
           /\ Finished(r, v).outcome = v
           /\ Finished(r, v).started = r.started
           /\ v = "success" => Finished(r, v).progress = 100
<1>1. v \in Outcome
  BY DEF Outcome
<1>2. (IF v = "success" THEN 100 ELSE r.progress) \in 0..100
  BY DEF Row
<1> QED
  BY <1>1, <1>2 DEF Finished, Row, Status

(* A progress report changes the progress only. *)
LEMMA ReportedRow ==
    ASSUME NEW r \in Row, NEW p \in ProgressReports
    PROVE  /\ [r EXCEPT !.progress = p] \in Row
           /\ [r EXCEPT !.progress = p].status = r.status
           /\ [r EXCEPT !.progress = p].started = r.started
           /\ [r EXCEPT !.progress = p].outcome = r.outcome
BY ProgressAssumption DEF Row

-----------------------------------------------------------------------------
(* Types. *)

(* The bounds on faults and crashes are kept. *)
LEMMA FaultIsBounded ==
    ASSUME faults \in 0..MaxFaults, Fault PROVE faults' \in 0..MaxFaults
BY BoundsAssumption DEF Fault

(* The same for crashes. *)
LEMMA CrashIsBounded ==
    ASSUME crashes \in 0..MaxCrashes, Crash PROVE crashes' \in 0..MaxCrashes
<1>1. crashes < MaxCrashes /\ crashes' = crashes + 1
  BY DEF Crash
<1> QED
  BY <1>1, BoundsAssumption

(* The type invariant holds of the empty table and the idle process. *)
LEMMA TypeInit == Init => TypeOK
<1> SUFFICES ASSUME Init PROVE TypeOK
  OBVIOUS
<1>1. row \in [Tasks -> Row]
  BY NoRowIsARow DEF Init
<1>2. faults = 0 /\ crashes = 0
  BY DEF Init
<1>3. faults \in 0..MaxFaults /\ crashes \in 0..MaxCrashes
  BY <1>2, BoundsAssumption
<1> QED
  BY <1>1, <1>3 DEF Init, TypeOK

(* Every statement, memory access and crash keeps the types. *)
LEMMA TypeStep == TypeOK /\ [Next]_vars => TypeOK'
<1> SUFFICES ASSUME TypeOK, [Next]_vars PROVE TypeOK'
  OBVIOUS
<1> USE NoTaskIsNoTask
<1>1. ASSUME NEW t \in Tasks, NEW owner \in Users \cup {NoUser}, AcceptAsyncTask(t, owner)
      PROVE TypeOK'
  BY <1>1, AcceptedRow DEF AcceptAsyncTask, TypeOK, memory
<1>2. ASSUME NEW t \in Tasks, NEW u \in Users, TaskCancel(t, u)
      PROVE TypeOK'
  BY <1>2, CancelledRow DEF TaskCancel, TypeOK, memory
<1>3. ASSUME NEW w \in Workers, StartWorker(w) PROVE TypeOK'
  BY <1>3 DEF StartWorker, SetPc, TypeOK
<1>4. ASSUME NEW w \in Workers, ClaimSelect(w) PROVE TypeOK'
  BY <1>4 DEF ClaimSelect, Claimable, InStatus, SetPc, TypeOK
<1>5. ASSUME NEW w \in Workers, ClaimNothing(w) PROVE TypeOK'
  BY <1>5 DEF ClaimNothing, Exit, SetPc, TypeOK
<1>6. ASSUME NEW w \in Workers, ClaimMark(w) PROVE TypeOK'
  BY <1>6 DEF ClaimMark, SetPc, TypeOK
<1>7. ASSUME NEW w \in Workers, pc[w] = "marked"
      PROVE held[w] \in Tasks /\ CommittedClaim(w) \in [Tasks -> Row]
  <2>1. held[w] \in Tasks
    BY <1>7 DEF TypeOK
  <2>2. row \in [Tasks -> Row]
    BY DEF TypeOK
  <2>3. Claimed(row[held[w]]) \in Row
    BY <2>1, <2>2, ClaimedRow
  <2> QED
    BY <2>1, <2>2, <2>3 DEF CommittedClaim
<1>8. ASSUME NEW w \in Workers, ClaimCommit(w) PROVE TypeOK'
  BY <1>7, <1>8 DEF ClaimCommit, SetPc, TypeOK
<1>9. ASSUME NEW w \in Workers, ClaimFails(w) PROVE TypeOK'
  BY <1>9, FaultIsBounded DEF ClaimFails, RollbackClaim, Exit, SetPc, TypeOK
<1>10. ASSUME NEW w \in Workers, CommitFails(w) PROVE TypeOK'
  BY <1>7, <1>10, FaultIsBounded DEF CommitFails, RollbackCommit, SetPc, TypeOK
<1>11. ASSUME NEW w \in Workers, NEW p \in ProgressReports, UpdateProgress(w, p)
       PROVE TypeOK'
  <2>1. row' = [row EXCEPT ![held[w]] = [row[held[w]] EXCEPT !.progress = p]]
    BY <1>11 DEF UpdateProgress
  <2>2. held[w] \in Tasks
    BY <1>11 DEF UpdateProgress, TypeOK
  <2>3. row' \in [Tasks -> Row]
    BY <2>1, <2>2, ReportedRow DEF TypeOK
  <2> QED
    BY <1>11, <2>3 DEF UpdateProgress, TypeOK, memory
<1>12. ASSUME NEW w \in Workers, NEW ending \in DOMAIN ProcessStatusOf, ExecuteReturns(w, ending)
       PROVE TypeOK'
  BY <1>12, EndingsHaveVerdicts DEF ExecuteReturns, SetPc, TypeOK
<1>13. ASSUME NEW w \in Workers, finishTask(w) PROVE TypeOK'
  <2>1. held[w] \in Tasks /\ verdict[w] \in Verdict
    BY <1>13 DEF finishTask, TypeOK
  <2>2. row[held[w]] \in Row /\ row \in [Tasks -> Row]
    BY <2>1 DEF TypeOK
  <2>3. Finished(row[held[w]], verdict[w]) \in Row
    BY <2>1, <2>2, FinishedRow
  <2>4. row' \in [Tasks -> Row]
    BY <1>13, <2>1, <2>2, <2>3 DEF finishTask
  <2> QED
    BY <1>13, <2>4 DEF finishTask, SetPc, TypeOK
<1>14. ASSUME NEW w \in Workers, FinishFails(w) PROVE TypeOK'
  BY <1>14, FaultIsBounded DEF FinishFails, AbandonFinish, SetPc, TypeOK
<1>15. ASSUME NEW w \in Workers, Unmark(w) PROVE TypeOK'
  BY <1>15 DEF Unmark, Exit, SetPc, TypeOK
<1>16. CASE ScanSnapshot
  BY <1>16 DEF ScanSnapshot, TypeOK
<1>17. CASE ScanUpdate
  <2>1. row' \in [Tasks -> Row]
    BY <1>17, RequeuedRow DEF ScanUpdate, TypeOK
  <2> QED
    BY <1>17, <2>1 DEF ScanUpdate, EndScan, TypeOK
<1>18. CASE ScanFails
  BY <1>18, FaultIsBounded DEF ScanFails, AbortScan, EndScan, TypeOK
<1>19. CASE Crash
  <2>1. crashes' \in 0..MaxCrashes
    BY <1>19, CrashIsBounded DEF TypeOK
  <2> QED
    BY <1>19, <2>1 DEF Crash, EndScan, TypeOK
<1>20. CASE UNCHANGED vars
  BY <1>20 DEF vars, TypeOK
<1> QED
  BY <1>1, <1>2, <1>3, <1>4, <1>5, <1>6, <1>8, <1>9, <1>10, <1>11, <1>12, <1>13,
     <1>14, <1>15, <1>16, <1>17, <1>18, <1>19, <1>20
     DEF Next, Api, Worker, Claim, Finish, Scan

(* The type invariant of AsyncTask, for every value of its constants. *)
THEOREM TypeCorrect == Spec => []TypeOK
BY TypeInit, TypeStep, PTL DEF Spec

-----------------------------------------------------------------------------
(* Rows are consistent.                                                     *)
(*                                                                          *)
(* Every statement keeps a single row consistent; which rows it is applied  *)
(* to follows from its WHERE clause or, for the commit of a claim, from the *)
(* lock held since the row was seen queued.                                 *)

(* Each statement, applied to a row in the status its guard asks for, leaves *)
(* a consistent row. *)
LEMMA StatementsKeepRowsConsistent ==
    ASSUME NEW r \in Row, ConsistentRow(r)
    PROVE  /\ r.status = "queued" => ConsistentRow(Claimed(r)) /\ ConsistentRow(Cancelled(r))
           /\ r.status = "running" => ConsistentRow(Requeued(r))
           /\ r.status = "running" =>
                 \A v \in Verdict : ConsistentRow(Finished(r, v))
           /\ r.status # "done" =>
                 \A p \in ProgressReports : ConsistentRow([r EXCEPT !.progress = p])
<1>1. r.status = "queued" => ConsistentRow(Claimed(r))
  BY ClaimedRow DEF ConsistentRow
<1>2. r.status = "queued" => ConsistentRow(Cancelled(r))
  BY CancelledRow DEF ConsistentRow
<1>3. r.status = "running" => ConsistentRow(Requeued(r))
  BY RequeuedRow DEF ConsistentRow
<1>4. ASSUME r.status = "running", NEW v \in Verdict PROVE ConsistentRow(Finished(r, v))
  <2>1. v # "" /\ v # "cancelled"
    BY DEF Verdict
  <2>2. r.started = TRUE
    BY <1>4 DEF ConsistentRow, Row
  <2>3. /\ Finished(r, v).status = "done"
        /\ Finished(r, v).outcome = v
        /\ Finished(r, v).started = TRUE
        /\ v = "success" => Finished(r, v).progress = 100
    BY <1>4, <2>2, FinishedRow
  <2> QED
    BY <2>1, <2>3 DEF ConsistentRow
<1>5. ASSUME r.status # "done", NEW p \in ProgressReports
      PROVE ConsistentRow([r EXCEPT !.progress = p])
  <2> DEFINE q == [r EXCEPT !.progress = p]
  <2>1. q.status = r.status /\ q.started = r.started /\ q.outcome = r.outcome
    BY ReportedRow
  <2>2. r.outcome = ""
    BY <1>5 DEF ConsistentRow
  <2>3. ConsistentRow(r)
    OBVIOUS
  <2> HIDE DEF q
  <2>4. ConsistentRow(q)
    BY <2>1, <2>2, <2>3 DEF ConsistentRow
  <2> QED
    BY <2>4 DEF q
<1> QED
  BY <1>1, <1>2, <1>3, <1>4, <1>5

(* Absent rows are consistent. *)
LEMMA RowInit == Init => RowIsConsistent
<1>1. ConsistentRow(NoRow)
  BY DEF ConsistentRow, NoRow
<1> QED
  BY <1>1 DEF Init, RowIsConsistent

(* A row that one worker or client rewrites, all others being left alone. *)
LEMMA OneRowChanges ==
    ASSUME RowIsConsistent, row \in [Tasks -> Row],
           NEW t \in Tasks, NEW r, ConsistentRow(r), row' = [row EXCEPT ![t] = r]
    PROVE  RowIsConsistent'
BY DEF RowIsConsistent

(* Rows stay consistent; the claim's commit needs that its row is still queued. *)
LEMMA RowStep == TypeOK /\ ClaimIsExclusive /\ RowIsConsistent /\ [Next]_vars => RowIsConsistent'
<1> SUFFICES ASSUME TypeOK, ClaimIsExclusive, RowIsConsistent, [Next]_vars
             PROVE  RowIsConsistent'
  OBVIOUS
<1>0. row \in [Tasks -> Row] /\ \A t \in Tasks : row[t] \in Row /\ ConsistentRow(row[t])
  BY DEF TypeOK, RowIsConsistent
<1>1. ASSUME NEW t \in Tasks, NEW owner \in Users \cup {NoUser}, AcceptAsyncTask(t, owner)
      PROVE RowIsConsistent'
  <2>1. ConsistentRow(Accepted(owner))
    BY AcceptedRow DEF ConsistentRow
  <2> QED
    BY <1>0, <1>1, <2>1, OneRowChanges DEF AcceptAsyncTask
<1>2. ASSUME NEW t \in Tasks, NEW u \in Users, TaskCancel(t, u)
      PROVE RowIsConsistent'
  <2>1. ConsistentRow(Cancelled(row[t]))
    BY <1>0, <1>2, StatementsKeepRowsConsistent DEF TaskCancel
  <2> QED
    BY <1>0, <1>2, <2>1, OneRowChanges DEF TaskCancel
<1>3. ASSUME NEW w \in Workers, pc[w] = "marked", row' = CommittedClaim(w)
      PROVE RowIsConsistent'
  <2>1. held[w] \in Tasks /\ row[held[w]].status = "queued"
    BY <1>3, NoTaskIsNoTask DEF TypeOK, ClaimIsExclusive
  <2>2. ConsistentRow(Claimed(row[held[w]]))
    BY <1>0, <2>1, StatementsKeepRowsConsistent
  <2> QED
    BY <1>0, <1>3, <2>1, <2>2, OneRowChanges DEF CommittedClaim
<1>4. ASSUME UNCHANGED row PROVE RowIsConsistent'
  BY <1>4 DEF RowIsConsistent
<1>5. ASSUME NEW w \in Workers, ClaimCommit(w) PROVE RowIsConsistent'
  BY <1>3, <1>5 DEF ClaimCommit
<1>6. ASSUME NEW w \in Workers, CommitFails(w) PROVE RowIsConsistent'
  BY <1>3, <1>4, <1>6 DEF CommitFails, RollbackCommit
<1>7. ASSUME NEW w \in Workers, NEW p \in ProgressReports, UpdateProgress(w, p)
      PROVE RowIsConsistent'
  <2>1. held[w] \in Tasks
    BY <1>7 DEF UpdateProgress, TypeOK
  <2>2. row' = [row EXCEPT ![held[w]] = [row[held[w]] EXCEPT !.progress = p]]
    BY <1>7 DEF UpdateProgress
  <2>3. row[held[w]].status # "done"
    BY <1>7 DEF UpdateProgress
  <2>4. ConsistentRow([row[held[w]] EXCEPT !.progress = p])
    BY <1>0, <2>1, <2>3, StatementsKeepRowsConsistent
  <2> QED
    BY <1>0, <2>1, <2>2, <2>4, OneRowChanges
<1>8. ASSUME NEW w \in Workers, finishTask(w) PROVE RowIsConsistent'
  <2>1. held[w] \in Tasks /\ verdict[w] \in Verdict
    BY <1>8 DEF finishTask, TypeOK
  <2>2. CASE held[w] \in InStatus("running")
    <3>1. ConsistentRow(Finished(row[held[w]], verdict[w]))
      BY <1>0, <2>1, <2>2, StatementsKeepRowsConsistent DEF InStatus
    <3>2. row' = [row EXCEPT ![held[w]] = Finished(row[held[w]], verdict[w])]
      BY <1>8, <2>2 DEF finishTask
    <3> QED
      BY <1>0, <2>1, <3>1, <3>2, OneRowChanges
  <2>3. CASE held[w] \notin InStatus("running")
    BY <1>4, <1>8, <2>3 DEF finishTask
  <2> QED
    BY <2>2, <2>3
<1>9. CASE ScanUpdate
  <2> SUFFICES ASSUME NEW t \in Tasks PROVE ConsistentRow(row'[t])
    BY DEF RowIsConsistent
  <2>1. row'[t] = IF t \in Orphaned THEN Requeued(row[t]) ELSE row[t]
    BY <1>9 DEF ScanUpdate
  <2>2. t \in Orphaned => row[t].status = "running"
    BY DEF Orphaned, InStatus
  <2> QED
    BY <1>0, <2>1, <2>2, StatementsKeepRowsConsistent
<1>10. ASSUME NEW w \in Workers,
              \/ StartWorker(w) \/ ClaimSelect(w) \/ ClaimNothing(w) \/ ClaimMark(w)
              \/ ClaimFails(w) \/ FinishFails(w) \/ Unmark(w)
              \/ \E ending \in DOMAIN ProcessStatusOf : ExecuteReturns(w, ending)
       PROVE UNCHANGED row
  BY <1>10 DEF StartWorker, ClaimSelect, ClaimNothing, ClaimMark, ClaimFails, RollbackClaim,
               ExecuteReturns, FinishFails, AbandonFinish, Unmark
<1>11. CASE ScanSnapshot \/ ScanFails \/ Crash \/ UNCHANGED vars
  BY <1>4, <1>11 DEF ScanSnapshot, ScanFails, AbortScan, Crash, vars
<1> QED
  BY <1>1, <1>2, <1>4, <1>5, <1>6, <1>7, <1>8, <1>9, <1>10, <1>11
     DEF Next, Api, Worker, Claim, Finish, Scan

-----------------------------------------------------------------------------
(* The row lock: a claim keeps its row queued and to itself. *)

(* The rows locked by claims, spelled out. *)
LEMMA LockedIsHeld ==
    ASSUME NEW w \in Workers, pc[w] \in {"locked", "marked"} PROVE held[w] \in Locked
BY DEF Locked

(* No claim is open at the start. *)
LEMMA ClaimInit == Init => ClaimIsExclusive
BY DEF Init, ClaimIsExclusive

(* No statement touches a row that a claim has locked. *)
LEMMA ClaimStep == TypeOK /\ ClaimIsExclusive /\ [Next]_vars => ClaimIsExclusive'
<1> SUFFICES ASSUME TypeOK, ClaimIsExclusive, [Next]_vars PROVE ClaimIsExclusive'
  OBVIOUS
<1> USE LockedIsHeld
(* Statements outside claims only write rows that no claim has locked. *)
<1>1. ASSUME UNCHANGED <<pc, held>>,
             \A t \in Tasks : row[t].status = "queued" /\ t \in Locked => row'[t].status = "queued"
      PROVE ClaimIsExclusive'
  <2>1. \A w \in Workers : pc[w] \in {"locked", "marked"} => held[w] \in Tasks
    BY NoTaskIsNoTask DEF TypeOK
  <2> QED
    BY <1>1, <2>1 DEF ClaimIsExclusive
<1>2. ASSUME NEW t \in Tasks, NEW owner \in Users \cup {NoUser}, AcceptAsyncTask(t, owner)
      PROVE ClaimIsExclusive'
  <2>1. row[t].status = "absent" /\ row' = [row EXCEPT ![t] = Accepted(owner)]
    BY <1>2 DEF AcceptAsyncTask, InStatus
  <2> QED
    BY <1>1, <1>2, <2>1 DEF AcceptAsyncTask, memory, TypeOK
<1>3. ASSUME NEW t \in Tasks, NEW u \in Users, TaskCancel(t, u)
      PROVE ClaimIsExclusive'
  BY <1>1, <1>3 DEF TaskCancel, memory, TypeOK
<1>4. ASSUME NEW w \in Workers, ClaimSelect(w) PROVE ClaimIsExclusive'
  <2>1. PICK t \in Claimable : held' = [held EXCEPT ![w] = t]
    BY <1>4 DEF ClaimSelect
  <2>2. t \in Tasks /\ row[t].status = "queued" /\ t \notin Locked
    BY <2>1 DEF Claimable, InStatus
  <2>3. \A v \in Workers \ {w} : pc'[v] = pc[v] /\ held'[v] = held[v]
    BY <1>4, <2>1 DEF ClaimSelect, SetPc, TypeOK
  <2>4. held'[w] = t /\ row' = row
    BY <1>4, <2>1 DEF ClaimSelect, TypeOK
  <2>5. \A v \in Workers \ {w} : pc[v] \in {"locked", "marked"} => held[v] # t
    BY <2>2
  <2> QED
    BY <2>2, <2>3, <2>4, <2>5 DEF ClaimIsExclusive
(* A worker leaves its claim, or has none: the others are as before. *)
<1>5. ASSUME NEW w \in Workers, row' = row,
             pc'[w] \notin {"locked", "marked"},
             \A v \in Workers \ {w} : pc'[v] = pc[v] /\ held'[v] = held[v]
      PROVE ClaimIsExclusive'
  BY <1>5 DEF ClaimIsExclusive
<1>6. ASSUME NEW w \in Workers,
             StartWorker(w) \/ ClaimNothing(w) \/ ClaimFails(w) \/ FinishFails(w) \/ Unmark(w)
      PROVE ClaimIsExclusive'
  BY <1>5, <1>6 DEF StartWorker, ClaimNothing, ClaimFails, RollbackClaim, FinishFails, AbandonFinish, Unmark,
                    Exit, SetPc, TypeOK
<1>7. ASSUME NEW w \in Workers, NEW ending \in DOMAIN ProcessStatusOf, ExecuteReturns(w, ending)
      PROVE ClaimIsExclusive'
  BY <1>5, <1>7 DEF ExecuteReturns, SetPc, TypeOK
<1>8. ASSUME NEW w \in Workers, ClaimMark(w) PROVE ClaimIsExclusive'
  BY <1>8 DEF ClaimMark, SetPc, TypeOK, ClaimIsExclusive
(* The commit unlocks its row and writes no other. *)
<1>9. ASSUME NEW w \in Workers, pc[w] = "marked", row' = CommittedClaim(w), held' = held,
             pc'[w] \notin {"locked", "marked"}, \A v \in Workers \ {w} : pc'[v] = pc[v]
      PROVE ClaimIsExclusive'
  <2> SUFFICES ASSUME NEW v \in Workers, pc'[v] \in {"locked", "marked"}
               PROVE  /\ row'[held'[v]].status = "queued"
                      /\ \A x \in Workers \ {v} :
                            pc'[x] \in {"locked", "marked"} => held'[x] # held'[v]
    BY DEF ClaimIsExclusive
  <2>1. v # w /\ pc[v] \in {"locked", "marked"}
    BY <1>9
  <2>2. held[v] # held[w] /\ row[held[v]].status = "queued"
    BY <1>9, <2>1 DEF ClaimIsExclusive
  <2>3. held[v] \in Tasks
    BY <2>1, NoTaskIsNoTask DEF TypeOK
  <2>4. row'[held[v]] = row[held[v]]
    BY <1>9, <2>2, <2>3 DEF CommittedClaim, TypeOK
  <2> QED
    BY <1>9, <2>1, <2>2, <2>4 DEF ClaimIsExclusive
<1>10. ASSUME NEW w \in Workers, ClaimCommit(w) PROVE ClaimIsExclusive'
  BY <1>9, <1>10 DEF ClaimCommit, SetPc, TypeOK
<1>11. ASSUME NEW w \in Workers, CommitFails(w) PROVE ClaimIsExclusive'
  <2>1. /\ pc[w] = "marked" /\ held' = held
        /\ pc'[w] \notin {"locked", "marked"}
        /\ \A v \in Workers \ {w} : pc'[v] = pc[v]
    BY <1>11 DEF CommitFails, RollbackCommit, SetPc, TypeOK
  <2>2. row' = row \/ row' = CommittedClaim(w)
    BY <1>11 DEF CommitFails
  <2> QED
    BY <1>5, <1>9, <2>1, <2>2
<1>12. ASSUME NEW w \in Workers, NEW p \in ProgressReports, UpdateProgress(w, p)
       PROVE ClaimIsExclusive'
  <2>1. held[w] \in Tasks /\ held[w] \notin Locked
    BY <1>12 DEF UpdateProgress, TypeOK
  <2>2. row' = [row EXCEPT ![held[w]] = [row[held[w]] EXCEPT !.progress = p]]
    BY <1>12 DEF UpdateProgress
  <2>3. \A t \in Locked : t \in Tasks => row'[t] = row[t]
    BY <2>1, <2>2 DEF TypeOK
  <2> QED
    BY <1>1, <1>12, <2>3 DEF UpdateProgress, memory
<1>13. ASSUME NEW w \in Workers, finishTask(w) PROVE ClaimIsExclusive'
  <2> SUFFICES ASSUME NEW v \in Workers, pc'[v] \in {"locked", "marked"}
               PROVE  /\ row'[held'[v]].status = "queued"
                      /\ \A x \in Workers \ {v} :
                            pc'[x] \in {"locked", "marked"} => held'[x] # held'[v]
    BY DEF ClaimIsExclusive
  <2>1. \A x \in Workers : pc'[x] \in {"locked", "marked"} => pc[x] \in {"locked", "marked"}
    BY <1>13 DEF finishTask, SetPc, TypeOK
  <2>2. held[v] # held[w]
    BY <1>13, <2>1 DEF finishTask
  <2>3. held[v] \in Tasks
    BY <2>1, NoTaskIsNoTask DEF TypeOK
  <2>4. row' = row \/ row' = [row EXCEPT ![held[w]] = Finished(row[held[w]], verdict[w])]
    BY <1>13 DEF finishTask
  <2>5. row'[held[v]] = row[held[v]]
    BY <2>2, <2>3, <2>4 DEF TypeOK
  <2> QED
    BY <1>13, <2>1, <2>5 DEF finishTask, ClaimIsExclusive
<1>14. CASE ScanUpdate
  <2>1. \A t \in Tasks : row[t].status = "queued" => row'[t] = row[t]
    BY <1>14 DEF ScanUpdate, Orphaned, InStatus
  <2> QED
    BY <1>1, <1>14, <2>1 DEF ScanUpdate
<1>15. CASE ScanSnapshot \/ ScanFails \/ UNCHANGED vars
  BY <1>15 DEF ScanSnapshot, ScanFails, AbortScan, vars, ClaimIsExclusive
<1>16. CASE Crash
  BY <1>16 DEF Crash, ClaimIsExclusive
<1> QED
  BY <1>2, <1>3, <1>4, <1>6, <1>7, <1>8, <1>10, <1>11, <1>12, <1>13, <1>14, <1>15, <1>16
     DEF Next, Api, Worker, Claim, Finish, Scan

-----------------------------------------------------------------------------
(* The in-flight set: an id in it has a goroutine that will remove it. *)

Owns(w, t) == held[w] = t /\ pc[w] \in {"marked", "executing", "finishing", "unmarking"}

(* No id is in flight at the start. *)
LEMMA InFlightInit == Init => InFlightIsOwned
BY DEF Init, InFlightIsOwned

(* An id enters with a mark and its goroutine keeps it until the unmark. *)
LEMMA InFlightStep == TypeOK /\ InFlightIsOwned /\ [Next]_vars => InFlightIsOwned'
<1> SUFFICES ASSUME TypeOK, InFlightIsOwned, [Next]_vars PROVE InFlightIsOwned'
  OBVIOUS
<1>0. \A t \in inFlight : \E w \in Workers : Owns(w, t)
  BY DEF InFlightIsOwned, Owns
(* A goroutine takes a step that does not give up what it owns. *)
<1>1. ASSUME NEW w \in Workers, inFlight' = inFlight,
             \A v \in Workers \ {w} : pc'[v] = pc[v] /\ held'[v] = held[v],
             \A t : Owns(w, t) => Owns(w, t)'
      PROVE InFlightIsOwned'
  <2> SUFFICES ASSUME NEW t \in inFlight PROVE \E v \in Workers : Owns(v, t)'
    BY <1>1 DEF InFlightIsOwned, Owns
  <2>1. PICK v \in Workers : Owns(v, t)
    BY <1>0
  <2>2. Owns(v, t)'
    BY <1>1, <2>1 DEF Owns
  <2> QED
    BY <2>2
<1>2. ASSUME UNCHANGED <<inFlight, pc, held>> PROVE InFlightIsOwned'
  BY <1>2 DEF InFlightIsOwned
<1>3. ASSUME NEW w \in Workers, StartWorker(w) PROVE InFlightIsOwned'
  BY <1>1, <1>3 DEF StartWorker, SetPc, TypeOK, Owns
<1>4. ASSUME NEW w \in Workers, ClaimSelect(w) PROVE InFlightIsOwned'
  BY <1>1, <1>4 DEF ClaimSelect, SetPc, TypeOK, Owns
<1>5. ASSUME NEW w \in Workers, ClaimNothing(w) \/ ClaimFails(w) PROVE InFlightIsOwned'
  BY <1>1, <1>5 DEF ClaimNothing, ClaimFails, RollbackClaim, Exit, SetPc, TypeOK, Owns
<1>6. ASSUME NEW w \in Workers, ClaimMark(w) PROVE InFlightIsOwned'
  <2> SUFFICES ASSUME NEW t \in inFlight' PROVE \E v \in Workers : Owns(v, t)'
    BY DEF InFlightIsOwned, Owns
  <2>1. CASE t = held[w]
    BY <1>6, <2>1 DEF ClaimMark, SetPc, TypeOK, Owns
  <2>2. CASE t \in inFlight
    <3>1. PICK v \in Workers : Owns(v, t)
      BY <1>0, <2>2
    <3>2. v # w
      BY <1>6, <3>1 DEF ClaimMark, Owns
    <3>3. Owns(v, t)'
      BY <1>6, <3>1, <3>2 DEF ClaimMark, SetPc, TypeOK, Owns
    <3> QED
      BY <3>3
  <2> QED
    BY <1>6, <2>1, <2>2 DEF ClaimMark
<1>7. ASSUME NEW w \in Workers, ClaimCommit(w) PROVE InFlightIsOwned'
  BY <1>1, <1>7 DEF ClaimCommit, SetPc, TypeOK, Owns
<1>8. ASSUME NEW w \in Workers, CommitFails(w) PROVE InFlightIsOwned'
  BY <1>1, <1>8 DEF CommitFails, RollbackCommit, SetPc, TypeOK, Owns
<1>9. ASSUME NEW w \in Workers, NEW ending \in DOMAIN ProcessStatusOf, ExecuteReturns(w, ending)
      PROVE InFlightIsOwned'
  BY <1>1, <1>9 DEF ExecuteReturns, SetPc, TypeOK, Owns
<1>10. ASSUME NEW w \in Workers, finishTask(w) PROVE InFlightIsOwned'
  BY <1>1, <1>10 DEF finishTask, SetPc, TypeOK, Owns
<1>11. ASSUME NEW w \in Workers, FinishFails(w) PROVE InFlightIsOwned'
  BY <1>1, <1>11 DEF FinishFails, AbandonFinish, SetPc, TypeOK, Owns
<1>12. ASSUME NEW w \in Workers, Unmark(w) PROVE InFlightIsOwned'
  <2> SUFFICES ASSUME NEW t \in inFlight' PROVE \E v \in Workers : Owns(v, t)'
    BY DEF InFlightIsOwned, Owns
  <2>1. t \in inFlight /\ t # held[w]
    BY <1>12 DEF Unmark
  <2>2. PICK v \in Workers : Owns(v, t)
    BY <1>0, <2>1
  <2>3. v # w
    BY <2>1, <2>2 DEF Owns
  <2>4. Owns(v, t)'
    BY <1>12, <2>2, <2>3 DEF Unmark, Exit, SetPc, TypeOK, Owns
  <2> QED
    BY <2>4
<1>13. ASSUME NEW t \in Tasks, NEW owner \in Users \cup {NoUser}, AcceptAsyncTask(t, owner)
       PROVE InFlightIsOwned'
  BY <1>2, <1>13 DEF AcceptAsyncTask, memory
<1>14. ASSUME NEW t \in Tasks, NEW u \in Users, TaskCancel(t, u) PROVE InFlightIsOwned'
  BY <1>2, <1>14 DEF TaskCancel, memory
<1>15. ASSUME NEW w \in Workers, NEW p \in ProgressReports, UpdateProgress(w, p)
       PROVE InFlightIsOwned'
  BY <1>2, <1>15 DEF UpdateProgress, memory
<1>16. CASE ScanSnapshot \/ ScanUpdate \/ ScanFails \/ UNCHANGED vars
  BY <1>2, <1>16 DEF ScanSnapshot, ScanUpdate, ScanFails, AbortScan, vars
<1>17. CASE Crash
  BY <1>17 DEF Crash, InFlightIsOwned
<1> QED
  BY <1>3, <1>4, <1>5, <1>6, <1>7, <1>8, <1>9, <1>10, <1>11, <1>12, <1>13, <1>14, <1>15,
     <1>16, <1>17 DEF Next, Api, Worker, Claim, Finish, Scan

-----------------------------------------------------------------------------
(* Without faults and crashes every running row is being executed. *)

(* No row is running at the start. *)
LEMMA HeldInit == Init => RunningIsHeld
<1> SUFFICES ASSUME Init PROVE InStatus("running") = {}
  BY DEF RunningIsHeld
<1>1. NoRow.status = "absent"
  BY DEF NoRow
<1> QED
  BY <1>1 DEF Init, InStatus

(* Without faults and crashes a worker leaves a row only once it is not running. *)
LEMMA HeldStep == TypeOK /\ RunningIsHeld /\ [Next]_vars => RunningIsHeld'
<1> SUFFICES ASSUME TypeOK, RunningIsHeld, [Next]_vars,
                    faults' = 0, crashes' = 0, NEW t \in Tasks, row'[t].status = "running"
             PROVE  \E w \in Workers : held'[w] = t /\ pc'[w] \in {"executing", "finishing"}
  BY DEF RunningIsHeld, InStatus, Executing
<1> DEFINE Runs(w) == held[w] = t /\ pc[w] \in {"executing", "finishing"}
<1>0. faults \in 0..MaxFaults /\ crashes \in 0..MaxCrashes /\ row \in [Tasks -> Row]
  BY DEF TypeOK
<1>1. ASSUME faults = 0, crashes = 0, row[t].status = "running"
      PROVE \E w \in Workers : Runs(w)
  BY <1>1 DEF RunningIsHeld, InStatus, Executing
(* A worker takes a step that keeps the running rows and, if it runs t, keeps that. *)
<1>2. ASSUME NEW w \in Workers, UNCHANGED <<faults, crashes>>, row'[t].status = row[t].status,
             \A v \in Workers \ {w} : pc'[v] = pc[v] /\ held'[v] = held[v],
             Runs(w) => Runs(w)'
      PROVE \E v \in Workers : Runs(v)'
  <2>1. PICK v \in Workers : Runs(v)
    BY <1>1, <1>2
  <2>2. Runs(v)'
    BY <1>2, <2>1
  <2> QED
    BY <2>2
<1>3. ASSUME UNCHANGED <<faults, crashes, pc, held>>, row'[t].status = "running" => row[t].status = "running"
      PROVE \E v \in Workers : Runs(v)'
  BY <1>1, <1>3
<1>4. ASSUME NEW w \in Workers, StartWorker(w) PROVE \E v \in Workers : Runs(v)'
  BY <1>2, <1>4 DEF StartWorker, SetPc, TypeOK
<1>5. ASSUME NEW w \in Workers, ClaimSelect(w) PROVE \E v \in Workers : Runs(v)'
  BY <1>2, <1>5 DEF ClaimSelect, SetPc, TypeOK
<1>6. ASSUME NEW w \in Workers, ClaimNothing(w) PROVE \E v \in Workers : Runs(v)'
  BY <1>2, <1>6 DEF ClaimNothing, Exit, SetPc, TypeOK
<1>7. ASSUME NEW w \in Workers, ClaimMark(w) PROVE \E v \in Workers : Runs(v)'
  BY <1>2, <1>7 DEF ClaimMark, SetPc, TypeOK
<1>8. ASSUME NEW w \in Workers, ClaimCommit(w) PROVE \E v \in Workers : Runs(v)'
  <2>1. CASE t = held[w]
    BY <1>8, <2>1 DEF ClaimCommit, SetPc, TypeOK
  <2>2. CASE t # held[w]
    <3>1. row'[t] = row[t]
      BY <1>0, <1>8, <2>2 DEF ClaimCommit, CommittedClaim
    <3> QED
      BY <1>2, <1>8, <3>1 DEF ClaimCommit, SetPc, TypeOK
  <2> QED
    BY <2>1, <2>2
<1>9. ASSUME NEW w \in Workers, NEW ending \in DOMAIN ProcessStatusOf, ExecuteReturns(w, ending)
      PROVE \E v \in Workers : Runs(v)'
  BY <1>2, <1>9 DEF ExecuteReturns, SetPc, TypeOK
(* A finish either ends the row it meant or leaves the table alone. *)
<1>10. ASSUME NEW w \in Workers, finishTask(w) PROVE \E v \in Workers : Runs(v)'
  <2>1. held[w] \in Tasks /\ verdict[w] \in Verdict /\ row[held[w]] \in Row
    BY <1>10, NoTaskIsNoTask DEF finishTask, TypeOK
  <2>2. t # held[w]
    <3> SUFFICES ASSUME t = held[w] PROVE FALSE
      OBVIOUS
    <3>1. CASE held[w] \in InStatus("running")
      <4>1. row'[t] = Finished(row[t], verdict[w])
        BY <1>0, <1>10, <3>1 DEF finishTask
      <4> QED
        BY <2>1, <4>1, FinishedRow
    <3>2. CASE held[w] \notin InStatus("running")
      BY <1>10, <3>2 DEF finishTask, InStatus
    <3> QED
      BY <3>1, <3>2
  <2>3. row' = row \/ row' = [row EXCEPT ![held[w]] = Finished(row[held[w]], verdict[w])]
    BY <1>10 DEF finishTask
  <2>4. row'[t] = row[t]
    BY <1>0, <2>2, <2>3
  <2> QED
    BY <1>2, <1>10, <2>2, <2>4 DEF finishTask, SetPc, TypeOK
<1>11. ASSUME NEW w \in Workers, Unmark(w) PROVE \E v \in Workers : Runs(v)'
  BY <1>2, <1>11 DEF Unmark, Exit, SetPc, TypeOK
<1>12. ASSUME NEW s \in Tasks, NEW owner \in Users \cup {NoUser}, AcceptAsyncTask(s, owner)
       PROVE \E v \in Workers : Runs(v)'
  BY <1>0, <1>3, <1>12, AcceptedRow DEF AcceptAsyncTask, memory
<1>13. ASSUME NEW s \in Tasks, NEW u \in Users, TaskCancel(s, u)
       PROVE \E v \in Workers : Runs(v)'
  BY <1>0, <1>3, <1>13, CancelledRow DEF TaskCancel, memory
<1>14. ASSUME NEW w \in Workers, NEW p \in ProgressReports, UpdateProgress(w, p)
       PROVE \E v \in Workers : Runs(v)'
  <2>1. row' = [row EXCEPT ![held[w]] = [row[held[w]] EXCEPT !.progress = p]]
    BY <1>14 DEF UpdateProgress
  <2>2. row'[t].status = row[t].status
    BY <1>0, <2>1, ReportedRow
  <2> QED
    BY <1>3, <1>14, <2>2 DEF UpdateProgress, memory
<1>15. CASE ScanUpdate
  <2>1. row'[t] = IF t \in Orphaned THEN Requeued(row[t]) ELSE row[t]
    BY <1>15 DEF ScanUpdate
  <2> QED
    BY <1>0, <1>3, <1>15, <2>1, RequeuedRow DEF ScanUpdate
<1>16. CASE ScanSnapshot \/ UNCHANGED vars
  BY <1>3, <1>16 DEF ScanSnapshot, vars
(* The remaining steps count a fault or a crash. *)
<1>17. ASSUME Fault \/ Crash PROVE FALSE
  <2>1. ASSUME Fault PROVE FALSE
    BY <1>0, <2>1 DEF Fault
  <2>2. ASSUME Crash PROVE FALSE
    <3>1. crashes' = crashes + 1
      BY <2>2 DEF Crash
    <3> QED
      BY <1>0, <3>1
  <2> QED
    BY <1>17, <2>1, <2>2
<1>18. ASSUME NEW w \in Workers, ClaimFails(w) \/ CommitFails(w) \/ FinishFails(w)
       PROVE FALSE
  BY <1>17, <1>18 DEF ClaimFails, CommitFails, FinishFails
<1>19. ScanFails => FALSE
  BY <1>17 DEF ScanFails
<1> QED
  BY <1>4, <1>5, <1>6, <1>7, <1>8, <1>9, <1>10, <1>11, <1>12, <1>13, <1>14, <1>15, <1>16,
     <1>17, <1>18, <1>19 DEF Next, Api, Worker, Claim, Finish, Scan

-----------------------------------------------------------------------------
(* The inductive invariant, and the safety properties that follow. *)

Inv ==
    /\ TypeOK
    /\ ClaimIsExclusive
    /\ RowIsConsistent
    /\ InFlightIsOwned
    /\ RunningIsHeld

(* The empty queue has the invariant. *)
LEMMA InvInit == Init => Inv
BY TypeInit, ClaimInit, RowInit, InFlightInit, HeldInit DEF Inv

(* Every step keeps it: types, consistent rows, exclusive claims, owned      *)
(* in-flight ids and held running rows support one another. *)
LEMMA InvStep == Inv /\ [Next]_vars => Inv'
BY TypeStep, ClaimStep, RowStep, InFlightStep, HeldStep DEF Inv

(* A claim or a scan that gives up keeps it too when that is not for a       *)
(* database error, but for the context that a stop of the policy cancels. *)
LEMMA GivingUpKeeps ==
    ASSUME Inv, UNCHANGED <<row, faults>>,
           AbortScan \/ \E w \in Workers : RollbackClaim(w) \/ RollbackCommit(w)
    PROVE  Inv'
<1>1. CASE AbortScan
  <2>1. UNCHANGED <<row, inFlight, pc, held, verdict, faults, crashes>> /\ scan' = "idle" /\ snapshot' = {}
    BY <1>1 DEF AbortScan, EndScan
  <2>2. TypeOK'
    BY <2>1 DEF Inv, TypeOK
  <2>3. ClaimIsExclusive' /\ RowIsConsistent' /\ InFlightIsOwned' /\ RunningIsHeld'
    BY <2>1 DEF Inv, ClaimIsExclusive, RowIsConsistent, InFlightIsOwned, RunningIsHeld,
                InStatus, Executing
  <2> QED
    BY <2>2, <2>3 DEF Inv
<1>2. ASSUME NEW w \in Workers, RollbackClaim(w) \/ RollbackCommit(w)
      PROVE  Inv'
  <2>1. /\ UNCHANGED <<row, inFlight, verdict, scan, snapshot, faults, crashes>>
        /\ \/ /\ pc[w] \in {"claiming", "locked"} /\ pc' = [pc EXCEPT ![w] = "idle"]
              /\ held' = [held EXCEPT ![w] = NoTask]
           \/ pc[w] = "marked" /\ pc' = [pc EXCEPT ![w] = "unmarking"] /\ UNCHANGED held
    BY <1>2 DEF RollbackClaim, RollbackCommit, Exit, SetPc
  <2>2. TypeOK
    BY DEF Inv
  <2>3. TypeOK'
    BY <2>1, <2>2 DEF TypeOK
  <2>4. \A v \in Workers \ {w} : pc'[v] = pc[v] /\ held'[v] = held[v]
    BY <2>1, <2>2 DEF TypeOK
  <2>5. pc'[w] \in {"idle", "unmarking"}
    BY <2>1, <2>2 DEF TypeOK
  <2>6. ClaimIsExclusive'
    BY <2>1, <2>4, <2>5 DEF Inv, ClaimIsExclusive
  <2>7. RowIsConsistent'
    BY <2>1 DEF Inv, RowIsConsistent
  <2>8. InFlightIsOwned'
    <3> SUFFICES ASSUME NEW t \in inFlight
                 PROVE  \E v \in Workers :
                     held'[v] = t /\ pc'[v] \in {"marked", "executing", "finishing", "unmarking"}
      BY <2>1 DEF InFlightIsOwned
    <3>1. PICK v \in Workers :
              held[v] = t /\ pc[v] \in {"marked", "executing", "finishing", "unmarking"}
      BY DEF Inv, InFlightIsOwned
    <3>2. CASE v # w
      BY <2>4, <3>1, <3>2
    <3>3. CASE v = w
      BY <2>1, <2>2, <3>1, <3>3 DEF TypeOK
    <3> QED
      BY <3>2, <3>3
  <2>9. RunningIsHeld'
    <3> SUFFICES ASSUME faults = 0, crashes = 0, NEW t \in InStatus("running")
                 PROVE  \E v \in Workers : held'[v] = t /\ pc'[v] \in {"executing", "finishing"}
      BY <2>1 DEF RunningIsHeld, InStatus, Executing
    <3>1. PICK v \in Workers : held[v] = t /\ pc[v] \in {"executing", "finishing"}
      BY DEF Inv, RunningIsHeld, Executing
    <3>2. v # w
      BY <2>1, <3>1
    <3> QED
      BY <2>4, <3>1, <3>2
  <2> QED
    BY <2>3, <2>6, <2>7, <2>8, <2>9 DEF Inv
<1> QED
  BY <1>1, <1>2

(* A queue on which nobody works has no id in flight, and without faults and *)
(* crashes no running row. *)
LEMMA IdleQueue ==
    ASSUME Inv, \A w \in Workers : pc[w] = "idle"
    PROVE  inFlight = {} /\ (faults = 0 /\ crashes = 0 => InStatus("running") = {})
BY DEF Inv, InFlightIsOwned, RunningIsHeld, Executing

(* The inductive invariant Inv holds in every reachable state. *)
THEOREM Invariance == Spec => []Inv
BY InvInit, InvStep, PTL DEF Spec

(* A row tells one story whatever the interleaving: outcome, started_at and  *)
(* progress always fit its run status. *)
THEOREM RowsAreConsistent == Spec => []RowIsConsistent
BY Invariance, PTL DEF Inv

(* Two claims never hold the same row, and what a claim commits is a row     *)
(* that is still queued. *)
THEOREM ClaimsAreExclusive == Spec => []ClaimIsExclusive
BY Invariance, PTL DEF Inv

(* No id stays in the in-flight set without a goroutine to remove it. *)
THEOREM InFlightNeverLeaks == Spec => []InFlightIsOwned
BY Invariance, PTL DEF Inv

(* Without faults and crashes no row is left running by itself. *)
THEOREM NoStrayRunningRow == Spec => []RunningIsHeld
BY Invariance, PTL DEF Inv

-----------------------------------------------------------------------------
(* done is final. *)

(* No step changes a done row: claims work on queued rows, requeues and *)
(* finishes on running ones, cancels on queued ones. *)
LEMMA DoneStep ==
    ASSUME Inv, [Next]_vars, NEW t \in Tasks, row[t].status = "done"
    PROVE  row'[t] = row[t]
<1> USE DEF Inv
<1>0. row \in [Tasks -> Row]
  BY DEF TypeOK
(* A statement on one row, found in another status, does not touch t. *)
<1>1. ASSUME NEW s \in Tasks, row[s].status # "done", NEW r, row' = [row EXCEPT ![s] = r]
      PROVE row'[t] = row[t]
  BY <1>0, <1>1
<1>2. ASSUME NEW s \in Tasks, NEW owner \in Users \cup {NoUser}, AcceptAsyncTask(s, owner)
      PROVE row'[t] = row[t]
  BY <1>1, <1>2 DEF AcceptAsyncTask, InStatus
<1>3. ASSUME NEW s \in Tasks, NEW u \in Users, TaskCancel(s, u) PROVE row'[t] = row[t]
  BY <1>1, <1>3 DEF TaskCancel
<1>4. ASSUME NEW w \in Workers, pc[w] = "marked", row' = CommittedClaim(w)
      PROVE row'[t] = row[t]
  <2>1. held[w] \in Tasks /\ row[held[w]].status = "queued"
    BY <1>4, NoTaskIsNoTask DEF TypeOK, ClaimIsExclusive
  <2> QED
    BY <1>1, <1>4, <2>1 DEF CommittedClaim
<1>5. ASSUME NEW w \in Workers, ClaimCommit(w) \/ CommitFails(w) PROVE row'[t] = row[t]
  BY <1>4, <1>5 DEF ClaimCommit, CommitFails, RollbackCommit
<1>6. ASSUME NEW w \in Workers, NEW p \in ProgressReports, UpdateProgress(w, p)
      PROVE row'[t] = row[t]
  <2>1. held[w] \in Tasks
    BY <1>6, NoTaskIsNoTask DEF UpdateProgress, TypeOK
  <2>2. /\ row[held[w]].status # "done"
        /\ row' = [row EXCEPT ![held[w]] = [row[held[w]] EXCEPT !.progress = p]]
    BY <1>6 DEF UpdateProgress
  <2> QED
    BY <1>1, <2>1, <2>2
<1>7. ASSUME NEW w \in Workers, finishTask(w) PROVE row'[t] = row[t]
  BY <1>1, <1>7 DEF finishTask, InStatus
<1>8. CASE ScanUpdate
  BY <1>8 DEF ScanUpdate, Orphaned, InStatus
<1>9. ASSUME NEW w \in Workers,
             \/ StartWorker(w) \/ ClaimSelect(w) \/ ClaimNothing(w) \/ ClaimMark(w)
             \/ ClaimFails(w) \/ FinishFails(w) \/ Unmark(w)
             \/ \E ending \in DOMAIN ProcessStatusOf : ExecuteReturns(w, ending)
      PROVE row'[t] = row[t]
  BY <1>9 DEF StartWorker, ClaimSelect, ClaimNothing, ClaimMark, ClaimFails, RollbackClaim,
              ExecuteReturns, FinishFails, AbandonFinish, Unmark
<1>10. CASE ScanSnapshot \/ ScanFails \/ Crash \/ UNCHANGED vars
  BY <1>10 DEF ScanSnapshot, ScanFails, AbortScan, Crash, vars
<1> QED
  BY <1>2, <1>3, <1>5, <1>6, <1>7, <1>8, <1>9, <1>10
     DEF Next, Api, Worker, Claim, Finish, Scan

(* No step changes a row that is done: not a requeue, a second execution, a  *)
(* late progress report or a cancel. *)
THEOREM DoneRowsAreFinal == Spec => DoneIsFinal
<1>1. Inv /\ [Next]_vars => [\A t \in Tasks : row[t].status = "done" => row'[t] = row[t]]_vars
  BY DoneStep
<1> QED
  BY <1>1, Invariance, PTL DEF Spec, DoneIsFinal

-----------------------------------------------------------------------------
(* The table implements the promised life cycle. *)

(* A step of the life cycle, for one task and for several. *)
LEMMA MoveOne ==
    ASSUME row \in [Tasks -> Row], NEW t \in Tasks, NEW r, row' = [row EXCEPT ![t] = r],
           NEW from, NEW to, Phase(row[t]) = from, Phase(r) = to
    PROVE  Lifecycle!Move({t}, from, to)
<1>1. Life[t] = from
  BY DEF Life
<1>2. Life' = [s \in Tasks |-> IF s \in {t} THEN to ELSE Life[s]]
  <2>1. Life' = [s \in Tasks |-> Phase(row'[s])]
    BY DEF Life
  <2>2. \A s \in Tasks : Phase(row'[s]) = IF s \in {t} THEN to ELSE Phase(row[s])
    BY DEF Phase
  <2> QED
    BY <2>1, <2>2 DEF Life
<1> QED
  BY <1>1, <1>2 DEF Lifecycle!Move

(* The empty table is the initial state of the life cycle. *)
LEMMA LifeInit == Init => Lifecycle!Init
<1>1. NoRow.status = "absent"
  BY DEF NoRow
<1> QED
  BY <1>1 DEF Init, Lifecycle!Init, Life, Phase

(* Every step of the queue is a step of the life cycle or leaves it alone. *)
LEMMA LifeStep == Inv /\ [Next]_vars => [Lifecycle!Next]_Life
<1> SUFFICES ASSUME Inv, [Next]_vars PROVE Lifecycle!Next \/ UNCHANGED Life
  OBVIOUS
<1> USE DEF Inv
<1>0. row \in [Tasks -> Row]
  BY DEF TypeOK
<1>1. ASSUME UNCHANGED row PROVE UNCHANGED Life
  BY <1>1 DEF Life
<1>2. ASSUME NEW t \in Tasks, NEW owner \in Users \cup {NoUser}, AcceptAsyncTask(t, owner)
      PROVE Lifecycle!Next
  <2>1. Lifecycle!Move({t}, "absent", "queued")
    <3>1. row' = [row EXCEPT ![t] = Accepted(owner)] /\ row[t].status = "absent"
      BY <1>2 DEF AcceptAsyncTask, InStatus
    <3>2. Phase(row[t]) = "absent" /\ Phase(Accepted(owner)) = "queued"
      BY <3>1, AcceptedRow DEF Phase
    <3> QED
      BY <1>0, <3>1, <3>2, MoveOne
  <2> QED
    BY <2>1 DEF Lifecycle!Next, Lifecycle!Submit
<1>3. ASSUME NEW t \in Tasks, NEW u \in Users, TaskCancel(t, u)
      PROVE Lifecycle!Next
  <2>1. Lifecycle!Move({t}, "queued", "cancelled")
    <3>1. row' = [row EXCEPT ![t] = Cancelled(row[t])] /\ row[t].status = "queued" /\ row[t] \in Row
      BY <1>0, <1>3 DEF TaskCancel
    <3>2. Phase(row[t]) = "queued" /\ Phase(Cancelled(row[t])) = "cancelled"
      BY <3>1, CancelledRow DEF Phase
    <3> QED
      BY <1>0, <3>1, <3>2, MoveOne
  <2> QED
    BY <2>1 DEF Lifecycle!Next, Lifecycle!Cancel
<1>4. ASSUME NEW w \in Workers, pc[w] = "marked", row' = CommittedClaim(w)
      PROVE Lifecycle!Next
  <2>1. held[w] \in Tasks /\ row[held[w]].status = "queued"
    BY <1>4, NoTaskIsNoTask DEF TypeOK, ClaimIsExclusive
  <2>2. Lifecycle!Move({held[w]}, "queued", "running")
    <3>1. row' = [row EXCEPT ![held[w]] = Claimed(row[held[w]])] /\ row[held[w]] \in Row
      BY <1>0, <1>4, <2>1 DEF CommittedClaim
    <3>2. Phase(row[held[w]]) = "queued" /\ Phase(Claimed(row[held[w]])) = "running"
      BY <2>1, <3>1, ClaimedRow DEF Phase
    <3> QED
      BY <1>0, <2>1, <3>1, <3>2, MoveOne
  <2> QED
    BY <2>1, <2>2 DEF Lifecycle!Next, Lifecycle!Start
<1>5. ASSUME NEW w \in Workers, ClaimCommit(w) \/ CommitFails(w)
      PROVE Lifecycle!Next \/ UNCHANGED Life
  BY <1>1, <1>4, <1>5 DEF ClaimCommit, CommitFails, RollbackCommit
<1>6. ASSUME NEW w \in Workers, NEW p \in ProgressReports, UpdateProgress(w, p)
      PROVE UNCHANGED Life
  <2>1. row' = [row EXCEPT ![held[w]] = [row[held[w]] EXCEPT !.progress = p]]
    BY <1>6 DEF UpdateProgress
  <2>2. \A t \in Tasks : Phase(row'[t]) = Phase(row[t])
    BY <1>0, <2>1, ReportedRow DEF Phase
  <2> QED
    BY <2>2 DEF Life
<1>7. ASSUME NEW w \in Workers, finishTask(w) PROVE Lifecycle!Next \/ UNCHANGED Life
  <2>1. held[w] \in Tasks /\ verdict[w] \in Verdict
    BY <1>7, NoTaskIsNoTask DEF finishTask, TypeOK
  <2>2. CASE held[w] \in InStatus("running")
    <3>1. row' = [row EXCEPT ![held[w]] = Finished(row[held[w]], verdict[w])]
      BY <1>7, <2>2 DEF finishTask
    <3>2. Phase(row[held[w]]) = "running"
      BY <2>2 DEF Phase, InStatus
    <3>3. Phase(Finished(row[held[w]], verdict[w])) = verdict[w]
      BY <1>0, <2>1, FinishedRow DEF Phase
    <3>4. Lifecycle!Move({held[w]}, "running", verdict[w])
      BY <1>0, <2>1, <3>1, <3>2, <3>3, MoveOne
    <3> QED
      BY <2>1, <3>4 DEF Lifecycle!Next, Lifecycle!Conclude
  <2>3. CASE held[w] \notin InStatus("running")
    BY <1>1, <1>7, <2>3 DEF finishTask
  <2> QED
    BY <2>2, <2>3
<1>8. CASE ScanUpdate
  <2>1. Orphaned \in SUBSET Tasks /\ \A t \in Orphaned : Phase(row[t]) = "running"
    BY DEF Orphaned, InStatus, Phase
  <2>2. \A t \in Tasks : Phase(row'[t]) = IF t \in Orphaned THEN "queued" ELSE Phase(row[t])
    BY <1>0, <1>8, RequeuedRow DEF ScanUpdate, Phase
  <2>3. Life' = [t \in Tasks |-> IF t \in Orphaned THEN "queued" ELSE Life[t]]
    <3>1. Life' = [t \in Tasks |-> Phase(row'[t])]
      BY DEF Life
    <3> QED
      BY <2>2, <3>1 DEF Life
  <2>4. \A t \in Orphaned : Life[t] = "running"
    BY <2>1 DEF Life
  <2>5. Lifecycle!Requeue(Orphaned)
    BY <2>3, <2>4 DEF Lifecycle!Requeue, Lifecycle!Move
  <2> QED
    BY <2>1, <2>5 DEF Lifecycle!Next
<1>9. ASSUME NEW w \in Workers,
             \/ StartWorker(w) \/ ClaimSelect(w) \/ ClaimNothing(w) \/ ClaimMark(w)
             \/ ClaimFails(w) \/ FinishFails(w) \/ Unmark(w)
             \/ \E ending \in DOMAIN ProcessStatusOf : ExecuteReturns(w, ending)
      PROVE UNCHANGED Life
  BY <1>1, <1>9 DEF StartWorker, ClaimSelect, ClaimNothing, ClaimMark, ClaimFails, RollbackClaim,
                    ExecuteReturns, FinishFails, AbandonFinish, Unmark
<1>10. CASE ScanSnapshot \/ ScanFails \/ Crash \/ UNCHANGED vars
  BY <1>1, <1>10 DEF ScanSnapshot, ScanFails, AbortScan, Crash, vars
<1> QED
  BY <1>2, <1>3, <1>5, <1>6, <1>7, <1>8, <1>9, <1>10
     DEF Next, Api, Worker, Claim, Finish, Scan

(* Claims, finishes, requeues and cancels, whatever their interleaving, only *)
(* ever take a task along the life cycle of TaskLifecycle. *)
THEOREM LifecycleIsImplemented == Spec => ImplementsLifecycle
<1>1. Init => Lifecycle!Init
  BY LifeInit
<1>2. Inv /\ [Next]_vars => [Lifecycle!Next]_Life
  BY LifeStep
<1> QED
  BY <1>1, <1>2, Invariance, PTL DEF Spec, ImplementsLifecycle, Lifecycle!Spec

=============================================================================
