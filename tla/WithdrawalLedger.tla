-------------------------- MODULE WithdrawalLedger --------------------------
(***************************************************************************)
(* What the withdrawal feature promises, with every decision atomic: a     *)
(* request reserves its amount once, and a reservation ends either paid or *)
(* returned to the balance, once, never both.  Withdrawals implements it   *)
(* when withdrawals are sent manually by one admin at a time (the default  *)
(* WITHDRAWAL_AUTO_SEND=false).                                            *)
(***************************************************************************)
EXTENDS Integers

CONSTANTS Users, NoUser, Ids, Amounts, InitBalance

VARIABLES
    balance,    \* [Users -> Int]
    claim       \* [Ids -> [state, user, amount]]

NoClaim == [state |-> "none", user |-> NoUser, amount |-> 0]

Init ==
    /\ balance = [u \in Users |-> InitBalance]
    /\ claim = [i \in Ids |-> NoClaim]

Request(u, a, i) ==
    /\ claim[i].state = "none"
    /\ claim' = [claim EXCEPT ![i] = [state |-> "reserved", user |-> u, amount |-> a]]
    /\ balance' = [balance EXCEPT ![u] = @ - a]

Pay(i) ==
    /\ claim[i].state = "reserved"
    /\ claim' = [claim EXCEPT ![i].state = "paid"]
    /\ UNCHANGED balance

Refund(i) ==
    /\ claim[i].state = "reserved"
    /\ claim' = [claim EXCEPT ![i].state = "returned"]
    /\ balance' = [balance EXCEPT ![claim[i].user] = @ + claim[i].amount]

\* The balance is shared with the rest of the game.
Spend(u, a) ==
    /\ balance[u] >= a
    /\ balance' = [balance EXCEPT ![u] = @ - a]
    /\ UNCHANGED claim

Next ==
    \/ \E u \in Users, a \in Amounts, i \in Ids : Request(u, a, i)
    \/ \E i \in Ids : Pay(i) \/ Refund(i)
    \/ \E u \in Users, a \in Amounts : Spend(u, a)

Spec == Init /\ [][Next]_<<balance, claim>>
=============================================================================
