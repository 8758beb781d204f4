--------------------------------- MODULE CVLToken ---------------------------------
(***************************************************************************)
(* CVLToken.sol with its controller: CivilTokenController.sol on           *)
(* ManagedWhitelist.sol and Managed.sol.  Transfers are allowed by the     *)
(* lists of sender and receiver, which managers keep; exchanging tokens    *)
(* for voting rights (CivilPLCRVoting.sol) reports a proof of use that     *)
(* unlocks the sender.                                                     *)
(*                                                                         *)
(* Definitions marked "faulty" are what a plausible slip in the code would *)
(* make of the definition they precede; nothing uses them.                 *)
(***************************************************************************)
EXTENDS Sums

CONSTANTS
    Users,              \* the accounts that hold tokens
    Voting,             \* CivilPLCRVoting
    GroupFactory,       \* CreateNewsroomInGroup, which lists new newsrooms
    Supply,             \* tokens minted to the creator
    Owner,              \* the creator; owns token and controller, and may be a user
    InitialLists,       \* the lists after deployment
    ManagedLists,       \* bound: the lists managers change afterwards
    Amounts             \* bound: the amounts somebody moves

ListNames == {"core", "civilian", "unlocked", "verified", "storefront", "newsroom"}
Holders   == Users \cup {Voting}
Listed    == Holders \cup {GroupFactory}

TokenAssumption ==
    /\ IsFiniteSet(Users) /\ Voting \notin Users /\ Owner \in Users
    /\ Supply \in Nat /\ Amounts \subseteq Nat
    /\ InitialLists \in [ListNames -> SUBSET Holders] /\ ManagedLists \subseteq ListNames

VARIABLES
    balanceOf,          \* holder -> tokens
    voteTokenBalance,   \* user -> voting rights
    lists,              \* the controller's lists
    managers,
    restricted          \* the token's controller is CivilTokenController, not NoOp

tokenVars == <<balanceOf, voteTokenBalance, lists, managers, restricted>>

TokenTypeOK ==
    /\ balanceOf \in [Holders -> 0 .. Supply]
    /\ voteTokenBalance \in [Users -> Nat]
    /\ lists \in [ListNames -> SUBSET Holders]
    /\ managers \subseteq Listed
    /\ restricted \in BOOLEAN

TokenInit ==
    /\ balanceOf = [h \in Holders |-> IF h = Owner THEN Supply ELSE 0]
    /\ voteTokenBalance = [u \in Users |-> 0]
    /\ lists = InitialLists
    /\ managers = {}
    /\ restricted \in BOOLEAN

-----------------------------------------------------------------------------------
On(list, a) == a \in lists[list]

AllowedBySenderOnly(from, to) ==                                   \* faulty Allowed
    \E list \in {"core", "unlocked", "storefront", "newsroom", "civilian"} : On(list, from)

(* detectTransferRestriction: the first list the sender is on decides. *)
Allowed(from, to) ==
    IF On("core", from) \/ On("unlocked", from) THEN TRUE
    ELSE IF On("storefront", from) THEN On("verified", to) \/ On("core", to)
    ELSE IF On("newsroom", from)   THEN On("core", to) \/ On("civilian", to)
    ELSE On("civilian", from) /\ (On("core", to) \/ On("newsroom", to))

Unrestricted(from, to) == restricted => Allowed(from, to)

CreditFirst(b, from, to, n) ==                                     \* faulty Moved
    [b EXCEPT ![to] = b[to] + n, ![from] = b[from] - n]
Moved(b, from, to, n) == [[b EXCEPT ![from] = @ - n] EXCEPT ![to] = @ + n]

Move(from, to, n) ==
    /\ Unrestricted(from, to)
    /\ balanceOf[from] >= n
    /\ balanceOf' = Moved(balanceOf, from, to, n)

(* By the holder, or by a spender with an allowance from the holder. *)
Transfer(from, to, n) ==
    /\ Move(from, to, n)
    /\ UNCHANGED <<voteTokenBalance, lists, managers, restricted>>

(* The rights are bought and the use is reported, or both revert. *)
RequestVotingRights(u, n) ==
    /\ Move(u, Voting, n)
    /\ voteTokenBalance' = [voteTokenBalance EXCEPT ![u] = @ + n]
    /\ Voting \in managers
    /\ lists' = [lists EXCEPT !["unlocked"] = @ \cup {u}]
    /\ UNCHANGED <<managers, restricted>>

HasRights(u, n) == voteTokenBalance[u] >= n

RightsLeft(u, n) == [voteTokenBalance EXCEPT ![u] = @ - n]

(* Without votes that lock the rights, which PLCRVoting is about. *)
WithdrawVotingRights(u, n) ==
    /\ HasRights(u, n)
    /\ Move(Voting, u, n)
    /\ voteTokenBalance' = RightsLeft(u, n)
    /\ UNCHANGED <<lists, managers, restricted>>

AddTo(list, a) ==
    /\ lists' = [lists EXCEPT ![list] = @ \cup {a}]
    /\ UNCHANGED <<balanceOf, voteTokenBalance, managers, restricted>>
RemoveFrom(list, a) ==
    /\ lists' = [lists EXCEPT ![list] = @ \ {a}]
    /\ UNCHANGED <<balanceOf, voteTokenBalance, managers, restricted>>

(* CreateNewsroomInGroup lists the wallet that owns a new newsroom. *)
CreateNewsroom(a) == GroupFactory \in managers /\ AddTo("newsroom", a)

AddManager(a) ==
    managers' = managers \cup {a} /\ UNCHANGED <<balanceOf, voteTokenBalance, lists, restricted>>
RemoveManager(a) ==
    managers' = managers \ {a} /\ UNCHANGED <<balanceOf, voteTokenBalance, lists, restricted>>
ChangeController ==
    restricted' \in BOOLEAN /\ UNCHANGED <<balanceOf, voteTokenBalance, lists, managers>>

(* The lists change at the will of the managers and the owner. *)
TokenNext ==
    \/ \E u \in Users, n \in Amounts :
         \/ \E to \in Holders : Transfer(u, to, n)
         \/ RequestVotingRights(u, n) \/ WithdrawVotingRights(u, n)
    \/ \E list \in ManagedLists, a \in Holders : AddTo(list, a) \/ RemoveFrom(list, a)
    \/ \E a \in Users : CreateNewsroom(a)
    \/ \E a \in {Voting, GroupFactory} : AddManager(a) \/ RemoveManager(a)
    \/ ChangeController

TokenSpec == TokenInit /\ [][TokenNext]_tokenVars

-----------------------------------------------------------------------------------
(* Properties. *)

(* No transfer makes or destroys tokens, one to oneself included. *)
SupplyConserved == SumOver(balanceOf, Holders) = Supply

(* The voting contract holds a token for every voting right, so that rights  *)
(* can be turned back into tokens, also when the lists kept anybody from     *)
(* sending or the controller was exchanged in between.                       *)
RightsBacked == balanceOf[Voting] >= SumOver(voteTokenBalance, Users)

(* Tokens and rights add up. *)
TokensAddUp == TokenTypeOK /\ SupplyConserved /\ RightsBacked

(* What reaches an account on no list comes from the core or from somebody  *)
(* who is unlocked, through whichever of the operations.                    *)
Outsider(a) == \A list \in ListNames : ~On(list, a)
OutsidersReceiveFromUnlocked ==
    [][\A a \in Holders : restricted /\ Outsider(a) /\ balanceOf'[a] > balanceOf[a] =>
          \E from \in Holders : /\ balanceOf'[from] < balanceOf[from]
                               /\ (On("core", from) \/ On("unlocked", from))]_tokenVars
====================================================================================
