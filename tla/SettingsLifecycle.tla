----------------------------- MODULE SettingsLifecycle -----------------------------
(***************************************************************************)
(* What a contract that keeps settings promises its readers: a setting     *)
(* changes only by a pending proposal to change it to that very value, and *)
(* every proposal is settled once.  The government implements it.          *)
(***************************************************************************)
CONSTANT PropIds    \* [name, value]: the proposals that can be made

VARIABLES
    settings,       \* name -> value
    pending         \* the proposals that are not settled

settingVars == <<settings, pending>>

SettingsInit == pending = {}

Propose(id) ==
    /\ id \notin pending
    /\ settings[id.name] # id.value
    /\ pending' = pending \cup {id}
    /\ UNCHANGED settings

Enact(id) ==
    /\ id \in pending
    /\ settings' = [settings EXCEPT ![id.name] = id.value]
    /\ pending' = pending \ {id}

Drop(id) ==
    /\ id \in pending
    /\ pending' = pending \ {id}
    /\ UNCHANGED settings

SettingsNext == \E id \in PropIds : Propose(id) \/ Enact(id) \/ Drop(id)

SettingsSpec == SettingsInit /\ [][SettingsNext]_settingVars
====================================================================================
