------------------------------- MODULE Payout -------------------------------
(***************************************************************************)
(* What the payout of rewards promises as long as nothing fails, whatever  *)
(* requests, tasks and transactions it is made of: an accepted claim is    *)
(* paid in one step or refused.  The step takes from what its owner is     *)
(* owed what it adds to what the owner was paid, and from the pool's funds *)
(* no more than that.  So no claim is paid twice, nobody is paid more than *)
(* what was earned, and the funds go on covering what is owed.             *)
(***************************************************************************)
EXTENDS Integers

CONSTANT Claimants  \* those who are owed something

VARIABLES
    owed,   \* earned and not paid
    paid,
    claim,  \* whether an accepted claim waits
    funds   \* what the pool has

vars == <<owed, paid, claim, funds>>

Init ==
    /\ owed \in [Claimants -> Nat]
    /\ paid = [k \in Claimants |-> 0]
    /\ claim = [k \in Claimants |-> FALSE]
    /\ funds \in Nat

\* What is earned, the funds earn as well.
Earn(k) ==
    /\ funds < funds'
    /\ owed' = [owed EXCEPT ![k] = @ + (funds' - funds)]
    /\ UNCHANGED <<paid, claim>>

Accept(k) ==
    /\ ~claim[k]
    /\ claim' = [claim EXCEPT ![k] = TRUE]
    /\ UNCHANGED <<owed, paid, funds>>

Refuse(k) ==
    /\ claim[k]
    /\ claim' = [claim EXCEPT ![k] = FALSE]
    /\ UNCHANGED <<owed, paid, funds>>

\* A fee may be kept back.
Pay(k) ==
    /\ claim[k]
    /\ claim' = [claim EXCEPT ![k] = FALSE]
    /\ \E amount \in 1 .. owed[k] :
          /\ owed' = [owed EXCEPT ![k] = @ - amount]
          /\ paid' = [paid EXCEPT ![k] = @ + amount]
          /\ funds' \in funds - amount .. funds

Next == \E k \in Claimants : Earn(k) \/ Accept(k) \/ Refuse(k) \/ Pay(k)

Spec == Init /\ [][Next]_vars
=============================================================================
