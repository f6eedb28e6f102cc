---------------------------- MODULE TaskLifecycle ----------------------------
(***************************************************************************)
(* What a client may observe of its tasks, with no worker, lock or process *)
(* in sight.  A task is queued, may be run and be put back any number of   *)
(* times, and ends once: cancelled from the queue, or with the outcome of  *)
(* a run.  AsyncTask implements this.                                      *)
(***************************************************************************)

CONSTANTS Tasks, Verdict     \* Verdict: the outcomes a run can have

VARIABLE life                \* task -> its phase

Phase == {"absent", "queued", "running", "cancelled"} \cup Verdict

Move(S, from, to) ==
    /\ \A t \in S : life[t] = from
    /\ life' = [t \in Tasks |-> IF t \in S THEN to ELSE life[t]]

Init == life = [t \in Tasks |-> "absent"]

Submit(t)      == Move({t}, "absent", "queued")
Start(t)       == Move({t}, "queued", "running")
Conclude(t, v) == Move({t}, "running", v)
Cancel(t)      == Move({t}, "queued", "cancelled")
Requeue(S)     == Move(S, "running", "queued")

Next ==
    \/ \E t \in Tasks : Submit(t) \/ Start(t) \/ Cancel(t)
    \/ \E t \in Tasks, v \in Verdict : Conclude(t, v)
    \/ \E S \in SUBSET Tasks : Requeue(S)

Spec == Init /\ [][Next]_life

=============================================================================
