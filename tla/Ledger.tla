------------------------------- MODULE Ledger -------------------------------
(***************************************************************************)
(* What the accounting of rounds promises, whatever tasks, batches and     *)
(* retries it is made of: a round that has landed is booked in one step,   *)
(* which brings the pool's total the reward and the balances of those who  *)
(* are paid out of it no more than the reward, and no less than it but for *)
(* rounding; or it is lost, and has then brought at most as much.          *)
(*                                                                         *)
(* If a write that is reported as failed may have taken place all the      *)
(* same, only the lower bounds are promised.                               *)
(***************************************************************************)
EXTENDS Integers, FiniteSets, Functions

CONSTANTS
    Rounds,  \* rounds that may land
    Earners, \* rows of the rewards table: the miners' and the commission's
    Pool     \* the row of the pools table, not among them

VARIABLES
    exact,   \* whether a write that is reported as failed never took place
    st,      \* of a round: future, landed, booked or lost
    reward,  \* what the round earned
    balance  \* rewards.balance and pools.total_rewards

vars == <<exact, st, reward, balance>>

Accounts == Earners \cup {Pool}

Init ==
    /\ exact \in BOOLEAN
    /\ st = [c \in Rounds |-> "future"]
    /\ reward = [c \in Rounds |-> 0]
    /\ balance = [a \in Accounts |-> 0]

Land(c) ==
    /\ st[c] = "future"
    /\ st' = [st EXCEPT ![c] = "landed"]
    /\ reward' = [reward EXCEPT ![c] = reward'[c]]
    /\ reward'[c] > 0
    /\ UNCHANGED <<exact, balance>>

Gain   == [a \in Accounts |-> balance'[a] - balance[a]]
Spread == SumFunctionOnSet(Gain, Earners)

Book(c) ==
    /\ st[c] = "landed"
    /\ st' = [st EXCEPT ![c] = "booked"]
    /\ \A a \in Accounts : Gain[a] >= 0
    /\ Gain[Pool] >= reward[c]
    /\ Spread > reward[c] - Cardinality(Earners)
    /\ exact => Gain[Pool] = reward[c] /\ Spread <= reward[c]
    /\ UNCHANGED <<exact, reward>>

Lose(C) ==
    /\ \A c \in C : st[c] = "landed"
    /\ st' = [c \in Rounds |-> IF c \in C THEN "lost" ELSE st[c]]
    /\ \A a \in Accounts : Gain[a] >= 0
    /\ exact => LET most == SumFunctionOnSet(reward, C)
                IN  Gain[Pool] <= most /\ Spread <= most
    /\ UNCHANGED <<exact, reward>>

Next ==
    \/ \E c \in Rounds : Land(c) \/ Book(c)
    \/ \E C \in SUBSET Rounds : Lose(C)

Spec == Init /\ [][Next]_vars
=============================================================================
