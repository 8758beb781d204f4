----------------------------------- MODULE Chain -----------------------------------
(* What every contract on the chain reads the same. *)

CONSTANT Nobody     \* address 0
====================================================================================
