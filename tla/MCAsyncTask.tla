----------------------------- MODULE MCAsyncTask -----------------------------
(* Small instances of AsyncTask for TLC. *)
EXTENDS AsyncTask, TLC

Symmetry == Permutations(Workers)
=============================================================================
