------------------------------ MODULE MultiSigWallet ------------------------------
(***************************************************************************)
(* MultiSigWallet.sol: owners submit calls, and a call is made as soon as  *)
(* enough of them have confirmed it.  The call may be one of the wallet's  *)
(* own functions, which change the owners and the requirement, or go to    *)
(* another contract, which may call the wallet back before it returns.  A  *)
(* call that fails undoes everything since it began.                       *)
(*                                                                         *)
(* Definitions marked "faulty" are what a plausible slip in the code would *)
(* make of the definition they precede; nothing uses them.                 *)
(***************************************************************************)
EXTENDS Chain, Integers, Sequences, FiniteSets

CONSTANTS
    Addresses,          \* the accounts that can be owners
    Contracts,          \* the owners that are contracts, and can act within a call
    Calls,              \* what can be submitted: [fn, owner, newOwner, number]
    InitialOwners,
    InitialRequired,
    MAX_OWNER_COUNT,
    MaxTransactions,    \* bound
    MaxDepth            \* bound: calls in progress at one time

Functions == {"addOwner", "removeOwner", "replaceOwner", "changeRequirement", "external"}
OwnerValues == Addresses \cup {Nobody}

ValidRequirement(ownerCount, n) ==
    ownerCount <= MAX_OWNER_COUNT /\ n <= ownerCount /\ n # 0 /\ ownerCount # 0

(* What is assumed of the constants; the last part are the constructor's checks. *)
WalletAssumption ==
    /\ Nobody \notin Addresses /\ Contracts \subseteq Addresses /\ IsFiniteSet(Addresses)
    /\ Calls # {}
    /\ Calls \subseteq [fn : Functions, owner : OwnerValues, newOwner : OwnerValues, number : Nat]
    /\ MaxTransactions \in Nat /\ MaxDepth \in Nat
    /\ InitialOwners \in Seq(Addresses)
    /\ \A i, j \in DOMAIN InitialOwners : InitialOwners[i] = InitialOwners[j] => i = j
    /\ InitialRequired \in Nat /\ MAX_OWNER_COUNT \in Nat
    /\ ValidRequirement(Len(InitialOwners), InitialRequired)

Ids == 1 .. MaxTransactions         \* the code counts from 0

VARIABLES
    wallet,     \* the storage, and how often each transaction was carried out
    running     \* calls to other contracts in progress: [id, before], innermost last

walletVars == <<wallet, running>>

Storage == [owners : Seq(OwnerValues), isOwner : [OwnerValues -> BOOLEAN], required : Nat \ {0},
            transactionCount : 0 .. MaxTransactions, transactions : [Ids -> Calls],
            executed : [Ids -> BOOLEAN], confirmations : [Ids -> SUBSET OwnerValues],
            carriedOut : [Ids -> Nat]]

WalletTypeOK == wallet \in Storage /\ running \in Seq([id : Ids, before : Storage])

WalletInit ==
    /\ wallet = [owners |-> InitialOwners,
                 isOwner |-> [a \in OwnerValues |-> \E i \in DOMAIN InitialOwners : InitialOwners[i] = a],
                 required |-> InitialRequired, transactionCount |-> 0,
                 transactions |-> [t \in Ids |-> CHOOSE c \in Calls : TRUE],
                 executed |-> [t \in Ids |-> FALSE], confirmations |-> [t \in Ids |-> {}],
                 carriedOut |-> [t \in Ids |-> 0]]
    /\ running = <<>>

-----------------------------------------------------------------------------------
(* The wallet's own functions, on the storage w. *)

FirstAt(s, a, i) == s[i] = a /\ \A j \in 1 .. i - 1 : s[j] # a

MayAdd(w, c) ==
    /\ ~w.isOwner[c.owner]
    /\ c.owner # Nobody
    /\ ValidRequirement(Len(w.owners) + 1, w.required)
Add(w, c) == [w EXCEPT !.isOwner[c.owner] = TRUE, !.owners = Append(@, c.owner)]

(* The last owner takes the place of the removed one. *)
Without(s, a) == [i \in 1 .. Len(s) - 1 |-> IF FirstAt(s, a, i) THEN s[Len(s)] ELSE s[i]]

RequirementFor(w, n) == IF w.required > n THEN n ELSE w.required

MayRemove(w, c) ==
    /\ w.isOwner[c.owner]
    /\ LET n == Len(w.owners) - 1 IN w.required > n => ValidRequirement(n, n)
Remove(w, c) == [w EXCEPT !.isOwner[c.owner] = FALSE, !.owners = Without(@, c.owner),
                          !.required = RequirementFor(w, Len(w.owners) - 1)]

MayReplace(w, c) == w.isOwner[c.owner] /\ ~w.isOwner[c.newOwner]
Replace(w, c) ==
    [w EXCEPT !.isOwner = [@ EXCEPT ![c.owner] = FALSE, ![c.newOwner] = TRUE],
              !.owners = [i \in DOMAIN @ |-> IF FirstAt(@, c.owner, i) THEN c.newOwner ELSE @[i]]]

MayRequire(w, c) == ValidRequirement(Len(w.owners), c.number)
Require(w, c) == [w EXCEPT !.required = c.number]

Accepts(w, c) == CASE c.fn = "addOwner"          -> MayAdd(w, c)
                   [] c.fn = "removeOwner"       -> MayRemove(w, c)
                   [] c.fn = "replaceOwner"      -> MayReplace(w, c)
                   [] c.fn = "changeRequirement" -> MayRequire(w, c)
Effect(w, c)  == CASE c.fn = "addOwner"          -> Add(w, c)
                   [] c.fn = "removeOwner"       -> Remove(w, c)
                   [] c.fn = "replaceOwner"      -> Replace(w, c)
                   [] c.fn = "changeRequirement" -> Require(w, c)

-----------------------------------------------------------------------------------
(* Confirmations count along the list of owners. *)
Confirming(w, t, i) == {j \in 1 .. i : w.owners[j] \in w.confirmations[t]}

AnybodyConfirmed(w, t) == Cardinality(w.confirmations[t]) >= w.required   \* faulty IsConfirmed
IsConfirmed(w, t) ==
    \E i \in DOMAIN w.owners : Cardinality(Confirming(w, t, i)) = w.required

Marked(w, t) == [w EXCEPT !.executed[t] = TRUE]
KeptMarked(w, t) == w                                              \* faulty Unmarked
Unmarked(w, t) == [w EXCEPT !.executed[t] = FALSE]
Done(w, t)     == [w EXCEPT !.carriedOut[t] = @ + 1]

(* executeTransaction by an owner who confirmed t, continuing from w.  A call *)
(* to the wallet itself is over within the step, another one begins.           *)
ExecuteTransaction(w, t) ==
    LET c == w.transactions[t]
        m == Marked(w, t)
    IN  /\ ~w.executed[t]
        /\ \/ ~IsConfirmed(w, t) /\ wallet' = w /\ UNCHANGED running
           \/ /\ IsConfirmed(w, t) /\ c.fn # "external"
              /\ wallet' = IF Accepts(m, c) THEN Done(Effect(m, c), t) ELSE Unmarked(m, t)
              /\ UNCHANGED running
           \/ /\ IsConfirmed(w, t) /\ c.fn = "external"
              /\ Len(running) < MaxDepth
              /\ wallet' = m
              /\ running' = Append(running, [id |-> t, before |-> m])

(* While a call is in progress only the contracts it reaches can act. *)
Sends(a) == a \in Addresses /\ (running = <<>> \/ a \in Contracts)

Confirmed(w, a, t) == [w EXCEPT !.confirmations[t] = @ \cup {a}]
Added(w, c) == [w EXCEPT !.transactionCount = @ + 1, !.transactions[w.transactionCount + 1] = c]

SubmitTransaction(a, c) ==
    LET t == wallet.transactionCount + 1 IN
    /\ Sends(a)
    /\ t \in Ids
    /\ wallet.isOwner[a]
    /\ ExecuteTransaction(Confirmed(Added(wallet, c), a, t), t)

ConfirmTransaction(a, t) ==
    /\ Sends(a)
    /\ wallet.isOwner[a]
    /\ t <= wallet.transactionCount
    /\ a \notin wallet.confirmations[t]
    /\ ExecuteTransaction(Confirmed(wallet, a, t), t)

RevokeConfirmation(a, t) ==
    /\ Sends(a)
    /\ wallet.isOwner[a]
    /\ a \in wallet.confirmations[t]
    /\ ~wallet.executed[t]
    /\ wallet' = [wallet EXCEPT !.confirmations[t] = @ \ {a}]
    /\ UNCHANGED running

(* A transaction whose call failed, or that too few had confirmed, again. *)
RetryTransaction(a, t) ==
    /\ Sends(a)
    /\ wallet.isOwner[a]
    /\ a \in wallet.confirmations[t]
    /\ ExecuteTransaction(wallet, t)

(* The innermost call returns, or fails and undoes what was done within it. *)
CallReturns ==
    LET call == running[Len(running)] IN
    /\ running # <<>>
    /\ running' = SubSeq(running, 1, Len(running) - 1)
    /\ \/ wallet' = Done(wallet, call.id)
       \/ wallet' = Unmarked(call.before, call.id)

WalletNext ==
    \/ CallReturns
    \/ \E a \in Addresses :
         \/ \E c \in Calls : SubmitTransaction(a, c)
         \/ \E t \in Ids : ConfirmTransaction(a, t) \/ RevokeConfirmation(a, t) \/ RetryTransaction(a, t)

WalletSpec == WalletInit /\ [][WalletNext]_walletVars

-----------------------------------------------------------------------------------
(* Properties. *)

Distinct(s) == \A i, j \in DOMAIN s : s[i] = s[j] => i = j

(* The list of owners and the flags say the same, however often owners were *)
(* added, removed and replaced: a name that stayed in the list would go on  *)
(* counting, and one that is listed twice would count twice.                *)
OwnersAgree ==
    /\ Distinct(wallet.owners)
    /\ \A a \in OwnerValues : wallet.isOwner[a] <=> \E i \in DOMAIN wallet.owners : wallet.owners[i] = a

(* At least one confirmation is needed, and the owners who can send one are enough *)
(* to reach the requirement, unless address 0 is an owner: replaceOwner, which does *)
(* not refuse it, may put it in one place of the list, and the wallet can then be   *)
(* one signature short for good.                                                    *)
Signers == {a \in Addresses : wallet.isOwner[a]}
RequirementMet ==
    /\ Len(wallet.owners) <= MAX_OWNER_COUNT
    /\ wallet.required >= 1
    /\ wallet.required <= Cardinality(Signers) + 1
    /\ ~wallet.isOwner[Nobody] => wallet.required <= Cardinality(Signers)

(* No transaction is carried out twice, whatever is called back and retried. *)
CarriedOutOnce ==
    \A t \in Ids :
        wallet.carriedOut[t] + Cardinality({i \in DOMAIN running : running[i].id = t}) <= 1

(* A transaction starts or is carried out with the confirmations of as many  *)
(* different present owners as are required, the sender's included.          *)
Begins(t) == wallet'.executed[t] /\ ~wallet.executed[t]
Backing(t) == {a \in OwnerValues : wallet.isOwner[a] /\ a \in wallet'.confirmations[t]}
BackedByOwners ==
    [][\A t \in Ids : Begins(t) => Cardinality(Backing(t)) >= wallet.required]_walletVars

(* A call that fails leaves the wallet as it was, so that it can be retried. *)
Settled ==
    running = <<>> => \A t \in Ids : wallet.executed[t] <=> wallet.carriedOut[t] = 1

(* Owners can rely on the wallet: nothing is lost or done twice, and nothing is out *)
(* of reach but for an owner at address 0.                                          *)
WalletSound == WalletTypeOK /\ OwnersAgree /\ RequirementMet /\ CarriedOutOnce /\ Settled
====================================================================================
