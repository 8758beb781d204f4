----------------------------- MODULE ListingLifecycle -----------------------------
(***************************************************************************)
(* The life of a listing as its users see it: whether it is applying or    *)
(* listed, and how far a dispute about it has gone.  A dispute only ever   *)
(* goes forward, ends in a verdict, and while it lasts nothing else can    *)
(* list or remove the listing.  CivilTCR implements this specification.    *)
(***************************************************************************)
CONSTANT Listings

VARIABLES
    stage,     \* listing -> "absent", "applying" or "listed"
    dispute    \* listing -> "none", "voting", "appealed", "granted" or "vetoing"

lifeVars == <<stage, dispute>>

LifeInit ==
    /\ stage = [l \in Listings |-> "absent"]
    /\ dispute = [l \in Listings |-> "none"]

Move(l, s, d) ==
    /\ stage' = [stage EXCEPT ![l] = s]
    /\ dispute' = [dispute EXCEPT ![l] = d]

Applies(l)  == stage[l] = "absent" /\ dispute[l] = "none" /\ Move(l, "applying", "none")
Accepted(l) == stage[l] = "applying" /\ dispute[l] = "none" /\ Move(l, "listed", "none")
Removed(l)  == stage[l] # "absent" /\ dispute[l] = "none" /\ Move(l, "absent", "none")

Disputed(l) == stage[l] # "absent" /\ dispute[l] = "none" /\ Move(l, stage[l], "voting")
Appealed(l) == dispute[l] = "voting" /\ Move(l, stage[l], "appealed")
Granted(l)  == dispute[l] = "appealed" /\ Move(l, stage[l], "granted")
Vetoed(l)   == dispute[l] = "granted" /\ Move(l, stage[l], "vetoing")

Verdict(l)  == dispute[l] # "none" /\ \E s \in {"listed", "absent"} : Move(l, s, "none")

LifeNext ==
    \E l \in Listings :
        \/ Applies(l) \/ Accepted(l) \/ Removed(l)
        \/ Disputed(l) \/ Appealed(l) \/ Granted(l) \/ Vetoed(l)
        \/ Verdict(l)

LifeSpec == LifeInit /\ [][LifeNext]_lifeVars
====================================================================================
