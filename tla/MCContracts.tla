-------------------------------- MODULE MCContracts --------------------------------
(***************************************************************************)
(* The four contracts beside the registry that share no state: the multisig *)
(* wallet, the newsroom it owns, the government and the token with its     *)
(* controller.  One of them runs in a behaviour while the others stay as   *)
(* they were deployed.  What is signed with records cannot be compared with a   *)
(* model value, so the empty and the forged signature are records too.     *)
(***************************************************************************)
EXTENDS MultiSigWallet, Newsroom, Government, CVLToken, TLC

CONSTANTS ann, ben, guild, eve, civil, shop, reader, plcr, group, h1, h2

VARIABLE focus      \* the contract that runs

vars == <<focus, walletVars, newsroomVars, governmentVars, tokenVars>>

------------------------------------------------------------------------------------
(* The wallet: two owners that must both confirm, one of them a contract. *)
WalletAddresses == {ann, ben, guild}
GuildOnly       == {guild}
AnnAndGuild     == <<ann, guild>>
Call(fn, old, new, n) == [fn |-> fn, owner |-> old, newOwner |-> new, number |-> n]
OwnerChanges ==
    {Call("external", Nobody, Nobody, 0), Call("addOwner", ben, Nobody, 0),
     Call("removeOwner", ann, Nobody, 0), Call("removeOwner", guild, Nobody, 0),
     Call("replaceOwner", ann, ben, 0), Call("replaceOwner", guild, ann, 0),
     Call("replaceOwner", ann, Nobody, 0),
     Call("changeRequirement", Nobody, Nobody, 0), Call("changeRequirement", Nobody, Nobody, 1),
     Call("changeRequirement", Nobody, Nobody, 3)}

(* The newsroom: the account that owns it and another one. *)
NewsroomAccounts == {ann, eve}
TwoHashes        == {h1, h2}
UnsignedRecord   == [by |-> Nobody, hash |-> 0]
GarbageRecord    == [by |-> Nobody, hash |-> 1]

(* The government's values: a simple majority, its opposite, a change of the fee *)
(* and a share of too much are proposed.                                         *)
TwoAccounts == {ann, ben}
TwoPolls    == 1 .. 2
ForAgainst  == {0, 1}
NoVoteValue == <<>>
OneAndTwo   == ann :> 1 @@ ben :> 2
BaseParams  ==
    [n \in Names |-> CASE n = "appealVotePercentage" -> 66
                       [] n = "appealChallengeVoteDispensationPct" -> 50
                       [] n = "govtPCommitStageLen" -> 0
                       [] OTHER -> 1]
Value(name, value) == [name |-> name, value |-> value]
FourValues ==
    {Value("appealVotePercentage", 50), Value("appealVotePercentage", 66),
     Value("appealFee", 2), Value("appealChallengeVoteDispensationPct", 101)}

(* The token: the owner and the voting contract are core, a shop sells. *)
Tokenholders == {civil, shop, reader}
Deployed == [list \in ListNames |-> CASE list = "core"       -> {civil, plcr}
                                     [] list = "storefront" -> {shop}
                                     [] OTHER               -> {}]
Civilians    == {"civilian"}
NoneOrOne    == {0, 1}

ASSUME WalletAssumption /\ NewsroomAssumption /\ GovernmentAssumption /\ TokenAssumption

------------------------------------------------------------------------------------
(* One initial state will do for a contract that does not run, and the two hashes *)
(* differ by their names only.                                                    *)
Init ==
    /\ focus \in {"wallet", "newsroom", "token", "government"}
    /\ WalletInit /\ NewsroomInit /\ GovernmentInit /\ TokenInit
    /\ contents[1].revisions[1].contentHash = h1
    /\ focus # "newsroom" => editors = {ann}
    /\ focus # "token" => restricted
    /\ focus # "government" => appellate = ann /\ constitution = h1

WalletRuns ==
    focus = "wallet" /\ WalletNext /\ UNCHANGED <<focus, newsroomVars, tokenVars, governmentVars>>
NewsroomRuns ==
    focus = "newsroom" /\ NewsroomNext /\ UNCHANGED <<focus, walletVars, tokenVars, governmentVars>>
TokenRuns ==
    focus = "token" /\ TokenNext /\ UNCHANGED <<focus, walletVars, newsroomVars, governmentVars>>
GovernmentRuns ==
    focus = "government" /\ GovernmentNext /\ UNCHANGED <<focus, walletVars, newsroomVars, tokenVars>>
Next == WalletRuns \/ NewsroomRuns \/ TokenRuns \/ GovernmentRuns

Spec == Init /\ [][Next]_vars
====================================================================================
