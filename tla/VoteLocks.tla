--------------------------------- MODULE VoteLocks ---------------------------------
(***************************************************************************)
(* What the voting contract promises about tokens: a voter's voting rights *)
(* are locked up to the largest amount committed to a poll that is neither *)
(* revealed nor rescued, and the rest can be withdrawn.  There is no list  *)
(* here: the lock of a voter is simply a set.  PLCRVoting keeps it sorted  *)
(* in a linked list so that the maximum is the last node, and implements   *)
(* this specification.                                                     *)
(***************************************************************************)
EXTENDS Naturals

CONSTANTS Voters, Polls, Supply

VARIABLES
    wallet,   \* voter -> tokens outside the voting contract
    rights,   \* voter -> voting rights held
    locks     \* voter -> the set of <<poll, amount>> locked

lockVars == <<wallet, rights, locks>>

LocksType ==
    /\ wallet \in [Voters -> Nat]
    /\ rights \in [Voters -> Nat]
    /\ locks \in [Voters -> SUBSET (Polls \X Nat)]

LocksInit ==
    /\ wallet = Supply
    /\ rights = [v \in Voters |-> 0]
    /\ locks = [v \in Voters |-> {}]

Without(v, p) == {l \in locks[v] : l[1] # p}

Deposit(v, n) ==
    /\ n <= wallet[v]
    /\ wallet' = [wallet EXCEPT ![v] = @ - n]
    /\ rights' = [rights EXCEPT ![v] = @ + n]
    /\ UNCHANGED locks

(* What is left after a withdrawal still covers every lock. *)
Withdraw(v, n) ==
    /\ n <= rights[v]
    /\ \A l \in locks[v] : l[2] <= rights[v] - n
    /\ rights' = [rights EXCEPT ![v] = @ - n]
    /\ wallet' = [wallet EXCEPT ![v] = @ + n]
    /\ UNCHANGED locks

(* Locks n on poll p, in place of an earlier lock on p, and deposits what *)
(* is missing to cover it.                                                *)
Lock(v, p, n) ==
    LET missing == IF n > rights[v] THEN n - rights[v] ELSE 0
    IN  /\ missing <= wallet[v]
        /\ wallet' = [wallet EXCEPT ![v] = @ - missing]
        /\ rights' = [rights EXCEPT ![v] = @ + missing]
        /\ locks' = [locks EXCEPT ![v] = Without(v, p) \cup {<<p, n>>}]

Unlock(v, p) ==
    /\ locks' = [locks EXCEPT ![v] = Without(v, p)]
    /\ UNCHANGED <<wallet, rights>>

LocksNext ==
    \E v \in Voters :
        \/ \E n \in 0 .. wallet[v] : Deposit(v, n)
        \/ \E n \in 0 .. rights[v] : Withdraw(v, n)
        \/ \E p \in Polls, n \in 0 .. wallet[v] + rights[v] : Lock(v, p, n)
        \/ \E p \in Polls : Unlock(v, p)

LocksSpec == LocksInit /\ [][LocksNext]_lockVars
====================================================================================
