----------------------------- MODULE MCAccounts -----------------------------
(***************************************************************************)
(* Small instances of Accounts for TLC: whoever is registered is an owner  *)
(* of the first organization.                                              *)
(***************************************************************************)
EXTENDS AccountsSafety, TLC

BothOwners ==
    [u \in Users |-> [o \in Organizations |->
        IF u \in Registered /\ o = 1 THEN "owner" ELSE None]]

Interchangeable ==
    Permutations(Requests) \cup Permutations(SessionIds) \cup Permutations(TokenIds)
=============================================================================
