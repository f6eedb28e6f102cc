----------------------------- MODULE MCVerifyCode -----------------------------
(* Small instances of VerifyCode for TLC. *)
EXTENDS VerifyCode, TLC

Symmetry == Permutations(Requests)

(* The hourly limit and the purge, which need the later ticks, are the same *)
(* on every engine; what differs between them happens within a few ticks.   *)
MySQLGoesOn == [e \in Engines |-> IF e = "mysql" THEN MaxNow ELSE 4]
EachToTheEnd == [e \in Engines |-> MaxNow]
=============================================================================
