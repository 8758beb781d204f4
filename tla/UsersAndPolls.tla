------------------------------- MODULE UsersAndPolls -------------------------------
(* By what the dapp keeps votes, in the browser and in its store. *)

CONSTANTS
    Users,      \* accounts
    Polls       \* positive numbers: of challenges, appeal challenges and proposals
====================================================================================
