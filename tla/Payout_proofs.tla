--------------------------- MODULE Payout_proofs ---------------------------
(***************************************************************************)
(* Claims implements Payout, for any number of users, mints and requests.  *)
(***************************************************************************)
EXTENDS Claims_proofs

\* What is left of an amount is a natural number, and either what the
\* subtraction leaves or more than the pool ever holds.
LEMMA LessIsLess ==
    ASSUME NEW a \in Nat, NEW k \in Keys, Less(a, AtaFee(k)) <= MaxTreasury
    PROVE  Less(a, AtaFee(k)) \in Nat /\ Less(a, AtaFee(k)) <= a
<1>1. AtaFee(k) \in Nat /\ AtaFee(k) + MaxTreasury <= MaxU64
  BY ClaimsConstants, TreasuryFits DEF AtaFee
<1>2. QED
  BY <1>1, ClaimsConstants DEF Less

-----------------------------------------------------------------------------
(* The invariant.                                                          *)

\* All that PayoutInvAt(k) is about.
Alike(k) == worker'[k] = worker[k] /\ tx'[k] = tx[k] /\ queue'[k] = queue[k]

\* What PayoutInv says of a key depends on nothing else.
LEMMA AlikeKept ==
    ASSUME NEW k \in Keys, PayoutInvAt(k), Alike(k)
    PROVE  PayoutInvAt(k)'
BY DEF Alike, PayoutInvAt, AtaFee, Less

\* A task and its transaction leave the other keys alone.
LEMMA OthersAlike ==
    ASSUME TypeOK, NEW k \in Keys, NEW j \in Keys, k # j, ProcessClaim(k) \/ Chain(k)
    PROVE  Alike(j) /\ balance'[j] = balance[j] /\ payout'[j] = payout[j]
BY DEF ProcessClaim, RecheckBalance, BuildTx, SendOk, SendUnanswered, GiveUpSending,
       PollFinalized, PollExpired, Resend, LookupAccounts, DecreaseReward,
       UpdatePoolClaimed, AddNewClaim, RemoveProcessed, Applied, Step, Finish, Dequeue,
       Chain, Execute, Lose, BlockhashExpires,
       TypeOK, memory, db, chain, history, Alike

\* Nothing but an update, a restart, a handler, an execution or mining touches
\* what else PayoutInv is about.
LEMMA TreasuryKept ==
    ASSUME TypeOK, PayoutInv, [Next]_vars
    PROVE  treasury' <= MaxTreasury
<1>1. treasury \in Nat /\ treasury <= MaxTreasury /\ \A k \in Keys : tx[k].pay \in Nat
  BY DEF TypeOK, Tx, PayoutInv
<1>2. ASSUME NEW k \in Keys, Execute(k) PROVE treasury' <= MaxTreasury
  BY <1>1, <1>2, ClaimsConstants DEF Execute, Valid
<1>3. ASSUME NEW k \in Keys, Earn(k) PROVE treasury' <= MaxTreasury
  BY <1>1, <1>3, ClaimsConstants DEF Earn
<1>4. QED
  BY <1>1, <1>2, <1>3
     DEF Next, vars, chain, Handler, Arrive, CheckCooldown, CheckBalance, CheckLastClaim,
         Enqueue, Stamp, CooldownElapses, SelectBatch, JoinBatch, ProcessClaim, RecheckBalance,
         BuildTx, SendOk, SendUnanswered, GiveUpSending, PollFinalized, PollExpired, Resend,
         LookupAccounts, DecreaseReward, UpdatePoolClaimed, AddNewClaim, RemoveProcessed,
         Chain, Lose, BlockhashExpires, ClaimAges, Restart

\* Only faults that are allowed happen.
LEMMA MishapAllowed ==
    ASSUME PayoutInv, [Next]_vars
    PROVE  mishap' \subseteq Faults
BY DEF PayoutInv, Next, vars, history, Handler, Arrive, CheckCooldown, CheckBalance,
       CheckLastClaim, Enqueue, Stamp, CooldownElapses, SelectBatch, JoinBatch, ProcessClaim,
       RecheckBalance, BuildTx, SendOk, SendUnanswered, GiveUpSending, PollFinalized,
       PollExpired, Resend, LookupAccounts, DecreaseReward, UpdatePoolClaimed, AddNewClaim,
       RemoveProcessed, Applied, Chain, Execute, Lose, BlockhashExpires, Earn, ClaimAges, Restart

\* A request that goes on past the first check is for something.
AmountAt(r) == request[r].pc \in {"balance", "last_claim", "enqueue"} => request[r].amount # 0

LEMMA RequestsKept ==
    ASSUME TypeOK, PayoutInv, [Next]_vars, NEW r \in Requests
    PROVE  AmountAt(r)'
<1>1. AmountAt(r) /\ request \in [Requests -> Handling]
  BY DEF PayoutInv, AmountAt, TypeOK
<1>2. ASSUME NEW q \in Requests, Handler(q) PROVE AmountAt(r)'
  <2> USE <1>1 DEF AmountAt, Handling
  <2>1. ASSUME NEW k \in Keys, NEW a \in Amounts, NEW v2 \in BOOLEAN, Arrive(q, k, a, v2)
        PROVE  AmountAt(r)'
    BY <2>1 DEF Arrive
  <2>2. CASE CheckCooldown(q)
    BY <2>2, ClaimsConstants DEF CheckCooldown, Reply, Goto, NoRequest
  <2>3. CASE CheckBalance(q)
    BY <2>3 DEF CheckBalance, Reply, Goto, NoRequest
  <2>4. CASE CheckLastClaim(q)
    BY <2>4 DEF CheckLastClaim, Reply, Goto, NoRequest
  <2>5. CASE Enqueue(q)
    BY <2>5 DEF Enqueue, Goto
  <2>6. CASE Stamp(q)
    BY <2>6 DEF Stamp, Reply, NoRequest
  <2>7. QED
    BY <1>2, <2>1, <2>2, <2>3, <2>4, <2>5, <2>6 DEF Handler
<1>3. CASE Restart
  BY <1>3 DEF Restart, AmountAt, NoRequest
<1>4. CASE UNCHANGED request
  BY <1>1, <1>4 DEF AmountAt
<1>5. QED
  BY <1>2, <1>3, <1>4
     DEF Next, vars, memory, CooldownElapses, SelectBatch, JoinBatch, ProcessClaim, RecheckBalance,
         BuildTx, SendOk, SendUnanswered, GiveUpSending, PollFinalized, PollExpired, Resend,
         LookupAccounts, DecreaseReward, UpdatePoolClaimed, AddNewClaim, RemoveProcessed,
         Chain, Execute, Lose, BlockhashExpires, Earn, ClaimAges

\* What PayoutInv says of a key is kept by every step: the task of the key sets
\* amount and transaction as it should, all else leaves them alone.
LEMMA KeysKept ==
    ASSUME TypeOK, OverpayInv, PayoutInv, [Next]_vars, NEW j \in Keys
    PROVE  PayoutInvAt(j)'
<1> USE DEF memory, db, chain, history
<1>0. /\ PayoutInvAt(j) /\ (~joining => worker[j].pc = "none")
      /\ worker \in [Keys -> Task] /\ tx \in [Keys -> Tx] /\ queue \in [Keys -> Nat]
  BY DEF PayoutInv, OverpayInv, OverpayInvAt, TypeOK
<1>1. ASSUME NEW r \in Requests, Handler(r) PROVE PayoutInvAt(j)'
  <2>1. CASE Enqueue(r)
    <3>1. request[r].amount # 0 /\ worker' = worker /\ tx' = tx
      BY <2>1 DEF PayoutInv, Enqueue
    <3>2. queue'[j] = queue[j] \/ queue'[j] # 0
      BY <2>1, <3>1, <1>0 DEF Enqueue
    <3>3. QED
      BY <3>1, <3>2, <1>0 DEF PayoutInvAt, AtaFee, Less
  <2>2. CASE ~Enqueue(r)
    BY <1>1, <2>2, <1>0, AlikeKept
       DEF Handler, Arrive, CheckCooldown, CheckBalance, CheckLastClaim, Stamp, Alike
  <2>3. QED
    BY <2>1, <2>2
<1>2. CASE SelectBatch
  <2>1. PICK B \in SUBSET Queued :
           worker' = [k \in Keys |-> IF k \in B THEN [pc |-> "check", amount |-> queue[k]]
                                                ELSE worker[k]]
    BY <1>2 DEF SelectBatch
  <2>2. tx' = tx /\ queue' = queue
    BY <1>2 DEF SelectBatch
  <2>3. CASE j \in B
    <3>1. queue[j] # 0 /\ worker'[j].amount = queue[j]
      BY <2>1, <2>3 DEF Queued
    <3>2. QED
      BY <2>2, <3>1, <1>0 DEF PayoutInvAt, AtaFee, Less
  <2>4. CASE j \notin B
    BY <2>1, <2>2, <2>4, <1>0, AlikeKept DEF Alike
  <2>5. QED
    BY <2>3, <2>4
<1>3. ASSUME NEW k \in Keys, ProcessClaim(k) PROVE PayoutInvAt(j)'
  <2>1. CASE k # j
    BY <1>3, <2>1, <1>0, OthersAlike, AlikeKept
  <2>2. CASE k = j
    <3> USE <1>0, OwnTask DEF PayoutInvAt, At, AtaFee, Less
    <3>1. CASE RecheckBalance(j)
      BY <3>1 DEF RecheckBalance
    <3>2. CASE BuildTx(j)
      BY <3>2, OwnTask DEF BuildTx
    <3>3. CASE SendOk(j) \/ SendUnanswered(j) \/ Resend(j)
      BY <3>3, OwnTx DEF SendOk, SendUnanswered, Resend, Tx
    <3>4. CASE GiveUpSending(j)
      BY <3>4 DEF GiveUpSending
    <3>5. CASE PollFinalized(j)
      BY <3>5 DEF PollFinalized
    <3>6. CASE PollExpired(j)
      BY <3>6 DEF PollExpired
    <3>7. CASE LookupAccounts(j)
      BY <3>7 DEF LookupAccounts
    <3>8. CASE DecreaseReward(j)
      BY <3>8 DEF DecreaseReward, Applied
    <3>9. CASE UpdatePoolClaimed(j)
      BY <3>9 DEF UpdatePoolClaimed, Applied
    <3>10. CASE AddNewClaim(j)
      BY <3>10 DEF AddNewClaim, Applied
    <3>11. CASE RemoveProcessed(j)
      BY <3>11 DEF RemoveProcessed
    <3>12. QED
      BY <1>3, <2>2, <3>1, <3>2, <3>3, <3>4, <3>5, <3>6, <3>7, <3>8, <3>9, <3>10, <3>11
         DEF ProcessClaim
  <2>3. QED
    BY <2>1, <2>2
<1>4. ASSUME NEW k \in Keys, Chain(k) PROVE PayoutInvAt(j)'
  <2>1. CASE k # j
    BY <1>4, <2>1, <1>0, OthersAlike, AlikeKept
  <2>2. CASE k = j
    <3>1. queue' = queue /\ worker' = worker
      BY <1>4, <2>2 DEF Chain, Execute, Lose, BlockhashExpires
    <3>2. tx'[j].pay = tx[j].pay /\ tx'[j].amount = tx[j].amount
      BY <1>4, <2>2, <1>0 DEF Chain, Execute, Lose, BlockhashExpires, Tx
    <3>3. QED
      BY <3>1, <3>2, <1>0 DEF PayoutInvAt, AtaFee, Less
  <2>3. QED
    BY <2>1, <2>2
<1>5. CASE Restart
  BY <1>5, <1>0 DEF Restart, PayoutInvAt, AtaFee, Less, NoWorker
<1>6. CASE UNCHANGED <<worker, tx, queue>>
  BY <1>0, <1>6, AlikeKept DEF Alike
<1>7. QED
  BY <1>1, <1>2, <1>3, <1>4, <1>5, <1>6
     DEF Next, vars, CooldownElapses, JoinBatch, Earn, ClaimAges

\* The strengthening is inductive.
LEMMA PayoutStep ==
    ASSUME TypeOK, OverpayInv, PayoutInv, [Next]_vars
    PROVE  PayoutInv'
BY TreasuryKept, MishapAllowed, RequestsKept, KeysKept DEF PayoutInv, AmountAt

-----------------------------------------------------------------------------
(* Every step is one of Payout's or leaves its variables alone.  What a    *)
(* step does to them is told key by key.                                   *)

Same(k) == StillOwed(k)' = StillOwed(k) /\ Waiting(k)' = Waiting(k)

\* A key of which nothing that matters changes is owed and waits as before.
LEMMA SameWhenAlike ==
    ASSUME NEW k \in Keys, Alike(k), balance'[k] = balance[k]
    PROVE  Same(k)
BY DEF Alike, Same, StillOwed, Waiting, Owed, Settling

\* What steps of Claims look like in Payout: nothing, or one of its actions.
LEMMA Stutters ==
    ASSUME \A k \in Keys : Same(k), UNCHANGED <<payout, treasury>>
    PROVE  UNCHANGED Paying!vars
BY DEF Same, Paying!vars

LEMMA Accepts ==
    ASSUME NEW k \in Keys, ~Waiting(k), Waiting(k)', StillOwed(k)' = StillOwed(k),
           \A j \in Keys \ {k} : Same(j), UNCHANGED <<payout, treasury>>
    PROVE  Paying!Accept(k)
BY DEF Same, Paying!Accept

LEMMA Refuses ==
    ASSUME NEW k \in Keys, Waiting(k), ~Waiting(k)', StillOwed(k)' = StillOwed(k),
           \A j \in Keys \ {k} : Same(j), UNCHANGED <<payout, treasury>>
    PROVE  Paying!Refuse(k)
<1>1. \A j \in Keys : Waiting(j) \in BOOLEAN /\ Waiting(j)' \in BOOLEAN
  BY DEF Waiting
<1>2. [j \in Keys |-> Waiting(j)]' = [[j \in Keys |-> Waiting(j)] EXCEPT ![k] = FALSE]
  BY <1>1 DEF Same
<1>3. [j \in Keys |-> StillOwed(j)]' = [j \in Keys |-> StillOwed(j)]
  BY DEF Same
<1>4. QED
  BY <1>2, <1>3 DEF Paying!Refuse

LEMMA Pays ==
    ASSUME NEW k \in Keys, NEW amount \in 1 .. StillOwed(k), Waiting(k), ~Waiting(k)',
           StillOwed(k)' = StillOwed(k) - amount, payout' = [payout EXCEPT ![k] = @ + amount],
           treasury' \in treasury - amount .. treasury,
           \A j \in Keys \ {k} : Same(j)
    PROVE  Paying!Pay(k)
<1>1. \A j \in Keys : Waiting(j) \in BOOLEAN /\ Waiting(j)' \in BOOLEAN
  BY DEF Waiting
<1>2. [j \in Keys |-> Waiting(j)]' = [[j \in Keys |-> Waiting(j)] EXCEPT ![k] = FALSE]
  BY <1>1 DEF Same
<1>3. [j \in Keys |-> StillOwed(j)]' = [[j \in Keys |-> StillOwed(j)] EXCEPT ![k] = @ - amount]
  BY DEF Same
<1>4. QED
  BY <1>2, <1>3 DEF Paying!Pay

LEMMA Earns ==
    ASSUME NEW k \in Keys, Waiting(k)' = Waiting(k), payout' = payout, treasury < treasury',
           StillOwed(k)' = StillOwed(k) + (treasury' - treasury),
           \A j \in Keys \ {k} : Same(j)
    PROVE  Paying!Earn(k)
BY DEF Same, Paying!Earn

\* What the invariants say of one key when nothing fails.
KeyInv(k) ==
    /\ WellTyped(k) /\ DebitInvAt(k) /\ OverpayInvAt(k) /\ PayoutInvAt(k)
    /\ queue \in [Keys -> Nat] /\ balance \in [Keys -> Nat] /\ payout \in [Keys -> Nat]

\* A step of a task on its way to the payment, or after it.
LEMMA TaskRefines ==
    ASSUME NEW k \in Keys, TypeOK, KeyInv(k), Faults = {}, ProcessClaim(k),
           \A j \in Keys \ {k} : Same(j)
    PROVE  [Paying!Next]_Paying!vars
<1> USE DEF memory, db, chain, history
<1>0. UNCHANGED <<payout, treasury>>
  BY DEF ProcessClaim, RecheckBalance, BuildTx, SendOk, SendUnanswered, GiveUpSending,
         PollFinalized, PollExpired, Resend, LookupAccounts, DecreaseReward,
         UpdatePoolClaimed, AddNewClaim, RemoveProcessed
<1>1. CASE Same(k)
  BY <1>0, <1>1, Stutters
<1>2. CASE Waiting(k) /\ ~Waiting(k)' /\ StillOwed(k)' = StillOwed(k)
  BY <1>0, <1>2, Refuses DEF Paying!Next
<1>3. Same(k) \/ (Waiting(k) /\ ~Waiting(k)' /\ StillOwed(k)' = StillOwed(k))
  <2> USE OwnTask
      DEF Same, StillOwed, Waiting, Owed, Settling, KeyInv, WellTyped, DebitInvAt, OverpayInvAt,
          PayoutInvAt, At
  <2>1. CASE RecheckBalance(k)
    BY <2>1 DEF RecheckBalance, Dequeue
  <2>2. CASE BuildTx(k)
    <3>1. /\ worker[k].pc = "build" /\ queue' = queue /\ balance' = balance
          /\ worker'[k].pc = "send" /\ tx'[k].st = "built"
      BY <2>2 DEF BuildTx
    <3>2. Owed(k) = 0 /\ Owed(k)' = 0 /\ ~Settling(k) /\ ~Settling(k)'
      BY <3>1
    <3>3. QED
      BY ONLY <3>1, <3>2 DEF Same, StillOwed, Waiting
  <2>3. CASE SendOk(k) \/ Resend(k)
    <3>1. queue' = queue /\ balance' = balance /\ tx'[k].st = "inflight"
      BY <2>3, OwnTx DEF SendOk, Resend
    <3>2. tx[k].st # "landed"
      BY <2>3 DEF SendOk, Resend
    <3>3. Owed(k) = 0 /\ Owed(k)' = 0 /\ ~Settling(k) /\ ~Settling(k)'
      BY <3>1, <3>2
    <3>4. QED
      BY ONLY <3>1, <3>3 DEF Same, StillOwed, Waiting
  <2>4. CASE SendUnanswered(k)
    BY <2>4 DEF SendUnanswered
  <2>5. CASE GiveUpSending(k)
    BY <2>5 DEF GiveUpSending, Dequeue
  <2>6. CASE PollFinalized(k)
    BY <2>6 DEF PollFinalized
  <2>7. CASE PollExpired(k)
    BY <2>7 DEF PollExpired
  <2>8. CASE LookupAccounts(k)
    BY <2>8 DEF LookupAccounts
  <2>9. CASE DecreaseReward(k)
    BY <2>9 DEF DecreaseReward, Applied
  <2>10. CASE UpdatePoolClaimed(k)
    BY <2>10 DEF UpdatePoolClaimed, Applied
  <2>11. CASE AddNewClaim(k)
    BY <2>11 DEF AddNewClaim, Applied
  <2>12. CASE RemoveProcessed(k)
    BY <2>12 DEF RemoveProcessed, Dequeue
  <2>13. QED
    BY <2>1, <2>2, <2>3, <2>4, <2>5, <2>6, <2>7, <2>8, <2>9, <2>10, <2>11, <2>12 DEF ProcessClaim
<1>4. QED
  BY <1>1, <1>2, <1>3

\* What the chain does to a transaction: the payment is made when it lands.
LEMMA ChainRefines ==
    ASSUME NEW k \in Keys, TypeOK, KeyInv(k), treasury <= MaxTreasury, Chain(k),
           \A j \in Keys \ {k} : Same(j)
    PROVE  [Paying!Next]_Paying!vars
<1> USE DEF memory, db, chain, history
<1>0. queue' = queue /\ worker' = worker /\ balance' = balance
  BY DEF Chain, Execute, Lose, BlockhashExpires
<1>a. tx[k].st \in {"inflight", "lost"} /\ tx[k].amount = worker[k].amount
      /\ worker[k].pc = "poll" /\ worker[k].amount # 0 /\ worker[k].amount <= balance[k]
      /\ queue[k] # 0
  BY DEF Chain, Execute, Lose, BlockhashExpires, KeyInv, DebitInvAt, OverpayInvAt, PayoutInvAt
<1>b. Waiting(k) /\ StillOwed(k) = balance[k]
  BY <1>a DEF Waiting, Settling, StillOwed, Owed, KeyInv, WellTyped
<1>1. CASE Execute(k) /\ Valid(k)
  <2>1. /\ tx' = [tx EXCEPT ![k].st = "landed"] /\ treasury' = treasury - tx[k].pay
        /\ payout' = [payout EXCEPT ![k] = @ + tx[k].amount]
    BY <1>1 DEF Execute
  <2>2. tx'[k].st = "landed"
    BY <2>1, OwnTx
  <2>3. ~Waiting(k)' /\ StillOwed(k)' = StillOwed(k) - tx[k].amount
    BY <1>0, <1>a, <1>b, <2>2 DEF Waiting, Settling, StillOwed, Owed
  <2>4. tx[k].amount \in 1 .. StillOwed(k)
    BY <1>a, <1>b DEF KeyInv, WellTyped
  <2>5. treasury' \in treasury - tx[k].amount .. treasury
    <3>1. treasury \in Nat /\ tx[k].pay \in Nat /\ tx[k].pay <= treasury
      BY <1>1 DEF TypeOK, Tx, Valid
    <3>2. tx[k].amount \in Nat /\ tx[k].pay \in {tx[k].amount, Less(tx[k].amount, AtaFee(k))}
      BY DEF KeyInv, WellTyped, PayoutInvAt
    <3>3. tx[k].pay <= MaxTreasury
      BY <3>1, ClaimsConstants
    <3>4. tx[k].pay <= tx[k].amount
      BY <3>2, <3>3, LessIsLess
    <3>5. QED
      BY <2>1, <3>1, <3>2, <3>4
  <2>6. QED
    BY <1>b, <2>1, <2>3, <2>4, <2>5, Pays DEF Paying!Next
<1>2. CASE ~(Execute(k) /\ Valid(k))
  <2>1. \E st \in {"reverted", "lost", "expired"} : tx' = [tx EXCEPT ![k].st = st]
    BY <1>2 DEF Chain, Execute, Lose, BlockhashExpires
  <2>2. tx'[k].st # "landed"
    BY <2>1, OwnTx
  <2>3. UNCHANGED <<payout, treasury>>
    BY <1>2 DEF Chain, Execute, Lose, BlockhashExpires
  <2>4. Waiting(k)' = Waiting(k)
    BY <1>0, <1>a, <2>2 DEF Waiting, Settling
  <2>5. StillOwed(k)' = StillOwed(k)
    BY <1>0, <1>a, <2>2 DEF StillOwed, Owed
  <2>6. QED
    BY <2>3, <2>4, <2>5, Stutters DEF Same
<1>3. QED
  BY <1>1, <1>2

\* A request changes the queue in one of its steps.
LEMMA HandlerRefines ==
    ASSUME NEW r \in Requests, TypeOK, PayoutInv, Handler(r)
    PROVE  [Paying!Next]_Paying!vars
<1> USE DEF memory, db, chain, history
<1>0. UNCHANGED <<payout, treasury, worker, tx, balance>>
  BY DEF Handler, Arrive, CheckCooldown, CheckBalance, CheckLastClaim, Enqueue, Stamp
<1>1. CASE Enqueue(r)
  <2>0. request[r].key \in Keys /\ queue \in [Keys -> Nat]
    BY DEF TypeOK, Handling
  <2>1. PICK k \in Keys : k = request[r].key
    BY <2>0
  <2>2. request[r].amount # 0
    BY <1>1 DEF Enqueue, PayoutInv
  <2>3. queue' = [queue EXCEPT ![k] = request[r].amount]
    BY <1>1, <2>1 DEF Enqueue
  <2>4. \A j \in Keys \ {k} : Same(j)
    BY <1>0, <2>0, <2>3, SameWhenAlike DEF Alike
  <2>5. StillOwed(k)' = StillOwed(k)
    BY <1>0 DEF StillOwed, Owed
  <2>6. Waiting(k)' = ~Settling(k)
    BY <1>0, <2>0, <2>2, <2>3 DEF Waiting, Settling
  <2>7. CASE Waiting(k)' = Waiting(k)
    BY <1>0, <2>4, <2>5, <2>7, Stutters DEF Same
  <2>8. CASE Waiting(k)' # Waiting(k)
    <3>1. ~Waiting(k) /\ Waiting(k)'
      BY <2>6, <2>8 DEF Waiting
    <3>2. QED
      BY <1>0, <2>4, <2>5, <3>1, Accepts DEF Paying!Next
  <2>9. QED
    BY <2>7, <2>8
<1>2. CASE ~Enqueue(r)
  <2>1. queue' = queue
    BY <1>2 DEF Handler, Arrive, CheckCooldown, CheckBalance, CheckLastClaim, Stamp
  <2>2. \A k \in Keys : Same(k)
    BY <1>0, <2>1, SameWhenAlike DEF Alike
  <2>3. QED
    BY <1>0, <2>2, Stutters
<1>3. QED
  BY <1>1, <1>2

\* Every step of Claims is a step of Payout or none.
LEMMA StepRefines ==
    ASSUME TypeOK, DebitInv, OverpayInv, PayoutInv, [Next]_vars, Faults = {}
    PROVE  [Paying!Next]_Paying!vars
<1> USE DEF memory, db, chain, history
<1>0. \A k \in Keys : KeyInv(k)
  <2>1. "db_write" \notin mishap
    BY DEF PayoutInv
  <2>2. QED
    BY <2>1, TypesAt DEF TypeOK, DebitInv, OverpayInv, PayoutInv, KeyInv
<1>1. ASSUME NEW r \in Requests, Handler(r) PROVE [Paying!Next]_Paying!vars
  BY <1>1, HandlerRefines
<1>2. CASE SelectBatch
  <2>1. PICK B \in SUBSET Queued :
           worker' = [k \in Keys |-> IF k \in B THEN [pc |-> "check", amount |-> queue[k]]
                                                ELSE worker[k]]
    BY <1>2 DEF SelectBatch
  <2>2. UNCHANGED <<queue, tx, balance, payout, treasury>> /\ ~joining
    BY <1>2 DEF SelectBatch
  <2>3. ASSUME NEW k \in Keys PROVE Same(k)
    <3>1. CASE k \notin B
      BY <2>1, <2>2, <3>1, SameWhenAlike DEF Alike
    <3>2. CASE k \in B
      <4>1. worker[k].pc = "none" /\ worker'[k].pc = "check"
        BY <1>0, <2>1, <2>2, <3>2 DEF KeyInv, OverpayInvAt
      <4>2. Owed(k) = 0 /\ Owed(k)' = 0 /\ ~Settling(k) /\ ~Settling(k)'
        BY <4>1 DEF Owed, Settling
      <4>3. QED
        BY <2>2, <4>2 DEF Same, StillOwed, Waiting
    <3>3. QED
      BY <3>1, <3>2
  <2>4. QED
    BY <2>2, <2>3, Stutters
<1>3. ASSUME NEW k \in Keys, ProcessClaim(k) PROVE [Paying!Next]_Paying!vars
  <2>1. \A j \in Keys \ {k} : Same(j)
    BY <1>3, OthersAlike, SameWhenAlike
  <2>2. QED
    BY <1>0, <1>3, <2>1, TaskRefines
<1>4. ASSUME NEW k \in Keys, Chain(k) PROVE [Paying!Next]_Paying!vars
  <2>1. \A j \in Keys \ {k} : Same(j)
    BY <1>4, OthersAlike, SameWhenAlike
  <2>2. treasury <= MaxTreasury
    BY DEF PayoutInv
  <2>3. QED
    BY <1>0, <1>4, <2>1, <2>2, ChainRefines
<1>5. ASSUME NEW k \in Keys, Earn(k) PROVE [Paying!Next]_Paying!vars
  <2>1. /\ UNCHANGED <<queue, worker, tx, payout>>
        /\ treasury' = treasury + 1 /\ balance' = [balance EXCEPT ![k] = @ + 1]
    BY <1>5 DEF Earn
  <2>2. treasury \in Nat /\ balance \in [Keys -> Nat] /\ Owed(k) \in Nat /\ Owed(k)' = Owed(k)
    BY <1>0, <2>1 DEF TypeOK, Owed, KeyInv, WellTyped
  <2>3. Waiting(k)' = Waiting(k)
    BY <2>1 DEF Waiting, Settling
  <2>4. StillOwed(k)' = StillOwed(k) + (treasury' - treasury)
    BY <2>1, <2>2 DEF StillOwed
  <2>5. \A j \in Keys \ {k} : Same(j)
    BY <2>1, <2>2, SameWhenAlike DEF Alike
  <2>6. QED
    BY <2>1, <2>2, <2>3, <2>4, <2>5, Earns DEF Paying!Next
<1>6. CASE UNCHANGED <<queue, worker, tx, balance, payout, treasury>>
  BY <1>6, SameWhenAlike, Stutters DEF Alike
<1>7. ~Restart
  BY DEF Restart
<1>8. QED
  BY <1>1, <1>2, <1>3, <1>4, <1>5, <1>6, <1>7
     DEF Next, vars, CooldownElapses, JoinBatch, ClaimAges

\* When nothing fails, handlers, tasks, transactions and updates amount to
\* Payout: an accepted claim is paid once, out of what its owner is owed, or
\* refused, and the pool's funds lose no more by it than the owner was owed.
THEOREM PayoutImplemented ==
    ASSUME Faults = {}
    PROVE  Spec => ImplementsPayout
<1>1. Init => DebitInv /\ OverpayInv
  BY DEF Init, DebitInv, DebitInvAt, OverpayInv, OverpayInvAt, Owed, NoWorker, NoTx
<1>2. Init => PayoutInv
  BY TreasuryFits DEF Init, PayoutInv, PayoutInvAt, NoWorker, NoTx, NoRequest
<1>3. TypeOK /\ DebitInv /\ OverpayInv /\ PayoutInv /\ [Next]_vars
         => (DebitInv /\ OverpayInv /\ PayoutInv)' /\ [Paying!Next]_Paying!vars
  BY DebitStep, OverpayStep, PayoutStep, StepRefines
<1>4. Init => Paying!Init
  <2> SUFFICES ASSUME Init PROVE Paying!Init
    OBVIOUS
  <2>1. TypeOK
    BY InitTyped
  <2>2. \A k \in Keys : StillOwed(k) = InitBalance /\ Waiting(k) = FALSE
    BY ClaimsConstants DEF Init, StillOwed, Waiting, Owed, NoTx, NoWorker
  <2>3. QED
    BY <2>1, <2>2, ClaimsConstants DEF Init, Paying!Init, TypeOK
<1>5. QED
  BY <1>1, <1>2, <1>3, <1>4, TypeCorrect, PTL DEF Spec, ImplementsPayout, Paying!Spec
=============================================================================
