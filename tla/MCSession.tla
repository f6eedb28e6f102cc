------------------------------ MODULE MCSession ------------------------------
(* A small instance of Session for TLC. *)
EXTENDS Session, TLC

Symmetry == Permutations(Calls) \cup Permutations(Sids)

(* The shortest and the longest password that can be registered (a rune has *)
(* up to four bytes), and one that no login takes. *)
PasswordSample ==
    {[runes |-> 15, bytes |-> 15], [runes |-> 128, bytes |-> 512], [runes |-> 300, bytes |-> 1100]}
=============================================================================
