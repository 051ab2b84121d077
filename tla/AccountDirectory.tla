-------------------------- MODULE AccountDirectory --------------------------
(***************************************************************************)
(* What the login promises about accounts, without tables, transactions or *)
(* requests: a person has no account or one, gets it once, with a user_id  *)
(* nobody else has, and keeps it.                                          *)
(***************************************************************************)
CONSTANTS Person, UserId

VARIABLE account  \* the accounts of each person: none or one

Owners(u) == {p \in Person : u \in account[p]}

Init ==
    /\ account \in [Person -> {{}} \cup {{u} : u \in UserId}]
    /\ \A p, q \in Person : account[p] \cap account[q] # {} => p = q

Register(p, u) ==
    /\ account[p] = {}
    /\ Owners(u) = {}
    /\ account' = [account EXCEPT ![p] = {u}]

Next == \E p \in Person, u \in UserId : Register(p, u)

Spec == Init /\ [][Next]_account
=============================================================================
