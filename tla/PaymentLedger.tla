--------------------------- MODULE PaymentLedger ---------------------------
(***************************************************************************)
(* What the payments promise, whatever the requests, the notifications and *)
(* their failures do: the user gives something once per order, an order is *)
(* paid only for what was given, and a paid recharge is credited once.     *)
(***************************************************************************)
EXTENDS Naturals

CONSTANT Order

VARIABLES
    state,     \* "none", "created" or "paid"
    taken,     \* how often the user gave money or coins for the order
    credited,  \* how often coins were credited for it
    recharges  \* the orders that buy coins

vars == <<state, taken, credited, recharges>>

Init ==
    /\ state = [o \in Order |-> "none"]
    /\ taken = [o \in Order |-> 0]
    /\ credited = [o \in Order |-> 0]
    /\ recharges = {}

\* What an order is for is settled before anything else happens to it.
Ask(o) ==
    /\ state[o] = "none" /\ taken[o] = 0
    /\ recharges' = recharges \cup {o}
    /\ UNCHANGED <<state, taken, credited>>

Place(o) ==
    /\ state[o] = "none" /\ taken[o] = 0
    /\ state' = [state EXCEPT ![o] = "created"]
    /\ UNCHANGED <<taken, credited, recharges>>

\* Nobody buys coins with coins.
Take(o) ==
    /\ state[o] = "created" \/ (state[o] = "none" /\ o \notin recharges)
    /\ taken[o] = 0
    /\ taken' = [taken EXCEPT ![o] = 1]
    /\ UNCHANGED <<state, credited, recharges>>

Settle(o) ==
    /\ state[o] # "paid" /\ taken[o] = 1
    /\ state' = [state EXCEPT ![o] = "paid"]
    /\ UNCHANGED <<taken, credited, recharges>>

Credit(o) ==
    /\ state[o] = "paid" /\ o \in recharges /\ credited[o] = 0
    /\ credited' = [credited EXCEPT ![o] = 1]
    /\ UNCHANGED <<state, taken, recharges>>

Next == \E o \in Order : Ask(o) \/ Place(o) \/ Take(o) \/ Settle(o) \/ Credit(o)

Spec == Init /\ [][Next]_vars
=============================================================================
