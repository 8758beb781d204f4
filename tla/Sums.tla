----------------------------------- MODULE Sums -----------------------------------
(***************************************************************************)
(* Sums of amounts over finite sets: of votes, of deposits, of claims.     *)
(***************************************************************************)
EXTENDS Integers, FiniteSets, FiniteSetsExt

(* The sum of w[x] for all x in S. *)
SumOver(w, S) == MapThenSumSet(LAMBDA x : w[x], S)
====================================================================================
