--------------------------- MODULE Claims_proofs ---------------------------
(***************************************************************************)
(* Proofs about Claims, for any number of users, mints and requests.       *)
(***************************************************************************)
EXTENDS Claims, SumTheorems

\* u64 subtraction of a fee, wrapped or not, is a u64.
LEMMA LessIsNat ==
    ASSUME NEW a \in Nat, NEW k \in Keys
    PROVE  Less(a, AtaFee(k)) \in Nat
<1>1. AtaFee(k) \in Nat /\ AtaFee(k) <= MaxU64
  BY ClaimsConstants, TreasuryFits, FS_CardinalityType DEF AtaFee
<1>2. QED
  BY <1>1, ClaimsConstants DEF Less

LEMMA KeysExist == AnyKey \in Keys
<1>1. PICK u \in Users : TRUE
  BY ClaimsConstants
<1>2. <<u, NoMint>> \in Keys
  BY <1>1 DEF Keys
<1>3. \E k \in Keys : TRUE
  BY <1>2
<1>4. QED
  BY <1>3 DEF AnyKey

LEMMA UserOfKey == \A k \in Keys : User(k) \in Users
BY DEF User, Keys

\* What the steps of a handler and of a task do to their own record.
LEMMA HandlerMoves ==
    ASSUME NEW r \in Requests, request \in [Requests -> Handling]
    PROVE  /\ Reply(r) => request' \in [Requests -> Handling]
           /\ \A pc \in RequestPCs : Goto(r, pc) => request' \in [Requests -> Handling]
<1>1. NoRequest \in Handling
  BY KeysExist DEF NoRequest, Handling, RequestPCs
<1>2. ASSUME NEW pc \in RequestPCs PROVE [request[r] EXCEPT !.pc = pc] \in Handling
  BY DEF Handling
<1>3. QED
  BY <1>1, <1>2 DEF Reply, Goto

LEMMA TaskMoves ==
    ASSUME NEW k \in Keys, worker \in [Keys -> Task]
    PROVE  /\ Finish(k) => worker' \in [Keys -> Task]
           /\ \A pc \in WorkerPCs : Step(k, pc) => worker' \in [Keys -> Task]
           /\ \A pc \in WorkerPCs : Applied(k, pc) => worker' \in [Keys -> Task]
<1>1. NoWorker \in Task
  BY DEF NoWorker, Task, WorkerPCs
<1>2. ASSUME NEW pc \in WorkerPCs PROVE [worker[k] EXCEPT !.pc = pc] \in Task
  BY DEF Task
<1>3. \A pc \in WorkerPCs : Step(k, pc) => worker' \in [Keys -> Task]
  BY <1>2 DEF Step
<1>4. QED
  BY <1>1, <1>3 DEF Finish, Applied

\* An update records at most that its answer was lost.
LEMMA MishapMoves ==
    ASSUME NEW k \in Keys, NEW pc, Applied(k, pc), mishap \in SUBSET {"db_write", "crash"}
    PROVE  mishap' \in SUBSET {"db_write", "crash"}
BY DEF Applied

LEMMA TxMoves ==
    ASSUME NEW k \in Keys, NEW st \in TxStates, tx \in [Keys -> Tx],
           tx' = [tx EXCEPT ![k].st = st]
    PROVE  tx' \in [Keys -> Tx]
<1>1. [tx[k] EXCEPT !.st = st] \in Tx
  BY DEF Tx
<1>2. QED
  BY <1>1

LEMMA InitTyped ==
    ASSUME Init
    PROVE  TypeOK
<1>1. Cardinality(Keys) \in Nat
  BY ClaimsConstants, FS_CardinalityType
<1>2. treasury \in Nat
  BY <1>1, ClaimsConstants DEF Init
<1>3. QED
  BY <1>2, KeysExist, ClaimsConstants
     DEF Init, TypeOK, NoRequest, NoWorker, NoTx, Handling, Task, Tx, RequestPCs, WorkerPCs, TxStates

\* Every variable keeps its type, through failures and restarts.
THEOREM TypeCorrect == Spec => []TypeOK
<1>1. Init => TypeOK
  BY InitTyped
<1>2. TypeOK /\ [Next]_vars => TypeOK'
  <2> SUFFICES ASSUME TypeOK, [Next]_vars PROVE TypeOK'
    OBVIOUS
  <2> USE DEF TypeOK, memory, db, chain, history
  <2>1. ASSUME NEW r \in Requests, Handler(r) PROVE TypeOK'
    <3> USE HandlerMoves DEF RequestPCs
    <3>1. ASSUME NEW k \in Keys, NEW a \in Amounts, NEW v2 \in BOOLEAN, Arrive(r, k, a, v2)
          PROVE TypeOK'
      <4>1. [pc |-> "cooldown", key |-> k, amount |-> a, v2 |-> v2] \in Handling
        BY ClaimsConstants DEF Handling
      <4>2. request' \in [Requests -> Handling]
        BY <3>1, <4>1 DEF Arrive
      <4>3. QED
        BY <3>1, <4>2 DEF Arrive
    <3>2. CASE CheckCooldown(r)
      BY <3>2 DEF CheckCooldown
    <3>3. CASE CheckBalance(r)
      BY <3>3 DEF CheckBalance
    <3>4. CASE CheckLastClaim(r)
      BY <3>4 DEF CheckLastClaim
    <3>5. CASE Enqueue(r)
      <4>1. request[r].key \in Keys /\ request[r].amount \in Nat
        BY DEF Handling
      <4>2. QED
        BY <3>5, <4>1, UserOfKey DEF Enqueue
    <3>6. CASE Stamp(r)
      <4>1. request[r].key \in Keys
        BY DEF Handling
      <4>2. QED
        BY <3>6, <4>1, UserOfKey DEF Stamp
    <3>7. QED
      BY <2>1, <3>1, <3>2, <3>3, <3>4, <3>5, <3>6 DEF Handler
  <2>2. ASSUME NEW u \in Users, CooldownElapses(u) PROVE TypeOK'
    BY <2>2 DEF CooldownElapses
  <2>3. CASE SelectBatch
    <3>1. PICK B \in SUBSET Queued :
             worker' = [k \in Keys |-> IF k \in B THEN [pc |-> "check", amount |-> queue[k]]
                                                  ELSE worker[k]]
      BY <2>3 DEF SelectBatch
    <3>2. \A k \in Keys : [pc |-> "check", amount |-> queue[k]] \in Task
      BY DEF Task, WorkerPCs
    <3>3. worker' \in [Keys -> Task]
      BY <3>1, <3>2
    <3>4. QED
      BY <2>3, <3>3 DEF SelectBatch
  <2>4. CASE JoinBatch
    BY <2>4 DEF JoinBatch
  <2>5. ASSUME NEW k \in Keys, ProcessClaim(k) PROVE TypeOK'
    <3> USE TaskMoves DEF WorkerPCs
    <3>a. worker[k].amount \in Nat /\ worker[k].pc \in WorkerPCs
      BY DEF Task
    <3>b. Dequeue(k) => queue' \in [Keys -> Nat]
      BY DEF Dequeue
    <3>1. CASE RecheckBalance(k)
      BY <3>1, <3>b DEF RecheckBalance
    <3>2. CASE BuildTx(k)
      <4>1. Less(worker[k].amount, AtaFee(k)) \in Nat
        BY <3>a, LessIsNat
      <4>2. ASSUME NEW found \in Lookups(k)
            PROVE  [st |-> "built", amount |-> worker[k].amount,
                    pay |-> IF found = "err" THEN Less(worker[k].amount, AtaFee(k)) ELSE worker[k].amount,
                    create |-> found # "valid"] \in Tx
        BY <3>a, <4>1 DEF Tx, TxStates
      <4>3. tx' \in [Keys -> Tx] /\ worker' \in [Keys -> Task]
        BY <3>2, <4>2 DEF BuildTx
      <4>4. QED
        BY <3>2, <4>3 DEF BuildTx
    <3>3. CASE SendOk(k)
      BY <3>3, TxMoves DEF SendOk, TxStates
    <3>4. CASE SendUnanswered(k)
      BY <3>4, TxMoves DEF SendUnanswered, TxStates
    <3>5. CASE GiveUpSending(k)
      BY <3>5, <3>b DEF GiveUpSending
    <3>6. CASE PollFinalized(k)
      BY <3>6 DEF PollFinalized
    <3>7. CASE PollExpired(k)
      BY <3>7 DEF PollExpired
    <3>8. CASE Resend(k)
      BY <3>8, TxMoves DEF Resend, TxStates
    <3>9. CASE LookupAccounts(k)
      BY <3>9 DEF LookupAccounts
    <3>10. CASE DecreaseReward(k)
      <4>1. mishap' \in SUBSET {"db_write", "crash"}
        BY <3>10, MishapMoves DEF DecreaseReward
      <4>2. QED
        BY <3>10, <3>a, <4>1 DEF DecreaseReward
    <3>11. CASE UpdatePoolClaimed(k)
      <4>1. mishap' \in SUBSET {"db_write", "crash"}
        BY <3>11, MishapMoves DEF UpdatePoolClaimed
      <4>2. QED
        BY <3>11, <3>a, <4>1 DEF UpdatePoolClaimed
    <3>12. CASE AddNewClaim(k)
      <4>1. mishap' \in SUBSET {"db_write", "crash"}
        BY <3>12, MishapMoves DEF AddNewClaim
      <4>2. QED
        BY <3>12, <4>1 DEF AddNewClaim
    <3>13. CASE RemoveProcessed(k)
      BY <3>13, <3>b DEF RemoveProcessed
    <3>14. QED
      BY <2>5, <3>1, <3>2, <3>3, <3>4, <3>5, <3>6, <3>7, <3>8, <3>9, <3>10, <3>11, <3>12,
         <3>13 DEF ProcessClaim
  <2>6. ASSUME NEW k \in Keys, Chain(k) PROVE TypeOK'
    <3> USE TxMoves DEF TxStates
    <3>1. CASE Execute(k)
      <4>1. tx[k].pay \in Nat /\ tx[k].amount \in Nat
        BY DEF Tx
      <4>2. tx' \in [Keys -> Tx]
        BY <3>1 DEF Execute
      <4>3. treasury' \in Nat
        BY <3>1, <4>1 DEF Execute, Valid
      <4>4. ata' \in [Users -> BOOLEAN]
        BY <3>1, UserOfKey DEF Execute
      <4>5. payout' \in [Keys -> Nat]
        BY <3>1, <4>1 DEF Execute
      <4>6. QED
        BY <3>1, <4>2, <4>3, <4>4, <4>5 DEF Execute
    <3>2. CASE Lose(k)
      BY <3>2 DEF Lose
    <3>3. CASE BlockhashExpires(k)
      BY <3>3 DEF BlockhashExpires
    <3>4. QED
      BY <2>6, <3>1, <3>2, <3>3 DEF Chain
  <2>7. ASSUME NEW k \in Keys, Earn(k) PROVE TypeOK'
    BY <2>7 DEF Earn
  <2>8. ASSUME NEW k \in Keys, ClaimAges(k) PROVE TypeOK'
    BY <2>8 DEF ClaimAges
  <2>9. CASE Restart
    <3>1. NoRequest \in Handling /\ NoWorker \in Task
      BY KeysExist DEF NoRequest, Handling, RequestPCs, NoWorker, Task, WorkerPCs
    <3>2. QED
      BY <2>9, <3>1 DEF Restart
  <2>10. CASE UNCHANGED vars
    BY <2>10 DEF vars
  <2>11. QED
    BY <2>1, <2>2, <2>3, <2>4, <2>5, <2>6, <2>7, <2>8, <2>9, <2>10 DEF Next
<1>3. QED
  BY <1>1, <1>2, PTL DEF Spec

-----------------------------------------------------------------------------
(* The ledger invariants speak of one key at a time; a step that leaves a  *)
(* key alone keeps what they say of it.                                    *)

WellTyped(k) ==
    /\ worker \in [Keys -> Task] /\ tx \in [Keys -> Tx]
    /\ worker[k].amount \in Nat /\ tx[k].amount \in Nat
    /\ balance[k] \in Nat /\ payout[k] \in Nat /\ debited[k] \in Nat

Untouched(k) ==
    /\ worker'[k] = worker[k] /\ tx'[k] = tx[k] /\ joining' = joining
    /\ payout'[k] = payout[k] /\ debited'[k] = debited[k]
    /\ balance'[k] \in Nat /\ balance[k] <= balance'[k]

LEMMA TypesAt == \A k \in Keys : TypeOK => WellTyped(k)
BY DEF TypeOK, WellTyped, Task, Tx

LEMMA OwnTask ==
    ASSUME TypeOK, NEW k \in Keys
    PROVE  /\ Finish(k) => worker'[k].pc = "none" /\ worker'[k].amount = 0
           /\ \A pc : Step(k, pc) => /\ worker'[k].pc = pc
                                    /\ worker'[k].amount = worker[k].amount
BY DEF TypeOK, Task, Finish, Step, NoWorker

LEMMA OwnTx ==
    ASSUME TypeOK, NEW k \in Keys, NEW st, tx' = [tx EXCEPT ![k].st = st]
    PROVE  tx'[k].st = st /\ tx'[k].amount = tx[k].amount
BY DEF TypeOK, Tx

LEMMA OtherTask ==
    ASSUME TypeOK, NEW j \in Keys, NEW k \in Keys, k # j, ProcessClaim(k)
    PROVE  Untouched(j)
BY DEF ProcessClaim, RecheckBalance, BuildTx, SendOk, SendUnanswered, GiveUpSending,
       PollFinalized, PollExpired, Resend, LookupAccounts, DecreaseReward,
       UpdatePoolClaimed, AddNewClaim, RemoveProcessed, Applied, Step, Finish,
       TypeOK, memory, db, chain, history, Untouched

LEMMA OtherTx ==
    ASSUME TypeOK, NEW j \in Keys, NEW k \in Keys, k # j, Chain(k)
    PROVE  Untouched(j)
BY DEF Chain, Execute, Lose, BlockhashExpires, TypeOK, memory, db, chain, history, Untouched

\* What has happened once is not forgotten.
LEMMA MishapStays ==
    ASSUME [Next]_vars
    PROVE  mishap \subseteq mishap'
BY DEF Next, vars, history, Handler, Arrive, CheckCooldown, CheckBalance, CheckLastClaim,
       Enqueue, Stamp, CooldownElapses, SelectBatch, JoinBatch, ProcessClaim, RecheckBalance,
       BuildTx, SendOk, SendUnanswered, GiveUpSending, PollFinalized, PollExpired, Resend,
       LookupAccounts, DecreaseReward, UpdatePoolClaimed, AddNewClaim, RemoveProcessed,
       Applied, Chain, Execute, Lose, BlockhashExpires, Earn, ClaimAges, Restart

LEMMA DebitStep ==
    ASSUME TypeOK, DebitInv, [Next]_vars
    PROVE  DebitInv'
<1> SUFFICES ASSUME "db_write" \notin mishap', NEW j \in Keys PROVE DebitInvAt(j)'
  BY DEF DebitInv, DebitInvAt
<1> USE DEF memory, db, chain, history, TypeOK
<1>m. "db_write" \notin mishap
  BY MishapStays
<1>0. DebitInvAt(j) /\ WellTyped(j)
  BY <1>m, TypesAt DEF DebitInv, DebitInvAt
<1>a. Untouched(j) => DebitInvAt(j)'
  BY <1>0 DEF Untouched, DebitInvAt, WellTyped, Owed
<1>1. ASSUME NEW r \in Requests, Handler(r) PROVE DebitInvAt(j)'
  <2>1. UNCHANGED <<joining, worker, tx, balance, payout, debited>>
    BY <1>1 DEF Handler, Arrive, CheckCooldown, CheckBalance, CheckLastClaim, Enqueue, Stamp
  <2>2. QED
    BY <2>1, <1>0, <1>a DEF Untouched, WellTyped
<1>2. ASSUME NEW u \in Users, CooldownElapses(u) PROVE DebitInvAt(j)'
  BY <1>2, <1>0, <1>a DEF CooldownElapses, Untouched, WellTyped
<1>3. CASE SelectBatch
  <2>1. PICK B \in SUBSET Queued :
           worker' = [k \in Keys |-> IF k \in B THEN [pc |-> "check", amount |-> queue[k]]
                                                ELSE worker[k]]
    BY <1>3 DEF SelectBatch
  <2>2. UNCHANGED <<tx, balance, payout, debited>>
    BY <1>3 DEF SelectBatch
  <2>3. CASE j \in B
    BY <2>1, <2>2, <2>3, <1>0 DEF DebitInvAt, WellTyped, Owed
  <2>4. CASE j \notin B
    BY <1>3, <2>1, <2>2, <2>4, <1>0 DEF SelectBatch, DebitInvAt, WellTyped, Owed
  <2>5. QED
    BY <2>3, <2>4
<1>4. CASE JoinBatch
  BY <1>4, <1>0 DEF JoinBatch, DebitInvAt, WellTyped, Owed
<1>5. ASSUME NEW k \in Keys, ProcessClaim(k) PROVE DebitInvAt(j)'
  <2>1. CASE k # j
    BY <1>5, <2>1, <1>0, <1>a, OtherTask
  <2>2. CASE k = j
    <3> USE <1>0, OwnTask DEF DebitInvAt, WellTyped, Owed, At
    <3>1. CASE RecheckBalance(j)
      BY <3>1 DEF RecheckBalance
    <3>2. CASE BuildTx(j)
      BY <3>2 DEF BuildTx
    <3>3. CASE SendOk(j)
      BY <3>3, OwnTx DEF SendOk
    <3>4. CASE SendUnanswered(j)
      BY <3>4, OwnTx DEF SendUnanswered
    <3>5. CASE GiveUpSending(j)
      BY <3>5 DEF GiveUpSending
    <3>6. CASE PollFinalized(j)
      BY <3>6 DEF PollFinalized
    <3>7. CASE PollExpired(j)
      BY <3>7 DEF PollExpired
    <3>8. CASE Resend(j)
      BY <3>8, OwnTx DEF Resend
    <3>9. CASE LookupAccounts(j)
      BY <3>9 DEF LookupAccounts
    <3>10. CASE DecreaseReward(j)
      BY <3>10 DEF DecreaseReward, Applied
    <3>11. CASE UpdatePoolClaimed(j)
      BY <3>11 DEF UpdatePoolClaimed, Applied
    <3>12. CASE AddNewClaim(j)
      BY <3>12 DEF AddNewClaim, Applied
    <3>13. CASE RemoveProcessed(j)
      BY <3>13 DEF RemoveProcessed
    <3>14. QED
      BY <1>5, <2>2, <3>1, <3>2, <3>3, <3>4, <3>5, <3>6, <3>7, <3>8, <3>9, <3>10, <3>11,
         <3>12, <3>13 DEF ProcessClaim
  <2>3. QED
    BY <2>1, <2>2
<1>6. ASSUME NEW k \in Keys, Chain(k) PROVE DebitInvAt(j)'
  <2>1. CASE k # j
    BY <1>6, <2>1, <1>0, <1>a, OtherTx
  <2>2. CASE k = j
    <3>1. CASE Execute(j)
      <4>1. UNCHANGED <<joining, worker, balance, debited>>
        BY <3>1 DEF Execute
      <4>2. CASE Valid(j)
        <5>1. tx' = [tx EXCEPT ![j].st = "landed"] /\ payout'[j] = payout[j] + tx[j].amount
          BY <3>1, <4>2 DEF Execute
        <5>2. QED
          BY <3>1, <4>1, <5>1, <1>0, OwnTx DEF Execute, DebitInvAt, WellTyped, Owed
      <4>3. CASE ~Valid(j)
        <5>1. tx' = [tx EXCEPT ![j].st = "reverted"] /\ payout' = payout
          BY <3>1, <4>3 DEF Execute
        <5>2. QED
          BY <3>1, <4>1, <5>1, <1>0, OwnTx DEF Execute, DebitInvAt, WellTyped, Owed
      <4>4. QED
        BY <4>2, <4>3
    <3>2. CASE Lose(j)
      BY <3>2, <1>0 DEF Lose, DebitInvAt, WellTyped, Owed
    <3>3. CASE BlockhashExpires(j)
      BY <3>3, <1>0 DEF BlockhashExpires, DebitInvAt, WellTyped, Owed
    <3>4. QED
      BY <1>6, <2>2, <3>1, <3>2, <3>3 DEF Chain
  <2>3. QED
    BY <2>1, <2>2
<1>7. ASSUME NEW k \in Keys, Earn(k) PROVE DebitInvAt(j)'
  BY <1>7, <1>0, <1>a DEF Earn, Untouched, WellTyped
<1>8. ASSUME NEW k \in Keys, ClaimAges(k) PROVE DebitInvAt(j)'
  BY <1>8, <1>0, <1>a DEF ClaimAges, Untouched, WellTyped
<1>9. CASE Restart
  BY <1>9, <1>0 DEF Restart, DebitInvAt, WellTyped, Owed, NoWorker
<1>10. CASE UNCHANGED vars
  BY <1>10, <1>0, <1>a DEF vars, Untouched, WellTyped
<1>11. QED
  BY <1>1, <1>2, <1>3, <1>4, <1>5, <1>6, <1>7, <1>8, <1>9, <1>10 DEF Next

LEMMA OverpayStep ==
    ASSUME TypeOK, OverpayInv, [Next]_vars, Faults = {}
    PROVE  OverpayInv'
<1> SUFFICES ASSUME NEW j \in Keys PROVE OverpayInvAt(j)'
  BY DEF OverpayInv, OverpayInvAt
<1> USE DEF memory, db, chain, history, TypeOK
<1>0. OverpayInvAt(j) /\ WellTyped(j)
  BY TypesAt DEF OverpayInv, OverpayInvAt
<1>a. Untouched(j) => OverpayInvAt(j)'
  BY <1>0 DEF Untouched, OverpayInvAt, WellTyped, Owed
<1>1. ASSUME NEW r \in Requests, Handler(r) PROVE OverpayInvAt(j)'
  <2>1. UNCHANGED <<joining, worker, tx, balance, payout, debited>>
    BY <1>1 DEF Handler, Arrive, CheckCooldown, CheckBalance, CheckLastClaim, Enqueue, Stamp
  <2>2. QED
    BY <2>1, <1>0, <1>a DEF Untouched, WellTyped
<1>2. ASSUME NEW u \in Users, CooldownElapses(u) PROVE OverpayInvAt(j)'
  BY <1>2, <1>0, <1>a DEF CooldownElapses, Untouched, WellTyped
<1>3. CASE SelectBatch
  <2>1. PICK B \in SUBSET Queued :
           worker' = [k \in Keys |-> IF k \in B THEN [pc |-> "check", amount |-> queue[k]]
                                                ELSE worker[k]]
    BY <1>3 DEF SelectBatch
  <2>2. UNCHANGED <<tx, balance, payout, debited>>
    BY <1>3 DEF SelectBatch
  <2>3. CASE j \in B
    BY <1>3, <2>1, <2>2, <2>3, <1>0 DEF SelectBatch, OverpayInvAt, WellTyped, Owed
  <2>4. CASE j \notin B
    BY <1>3, <2>1, <2>2, <2>4, <1>0 DEF SelectBatch, OverpayInvAt, WellTyped, Owed
  <2>5. QED
    BY <2>3, <2>4
<1>4. CASE JoinBatch
  BY <1>4, <1>0 DEF JoinBatch, OverpayInvAt, WellTyped, Owed
<1>5. ASSUME NEW k \in Keys, ProcessClaim(k) PROVE OverpayInvAt(j)'
  <2>1. CASE k # j
    BY <1>5, <2>1, <1>0, <1>a, OtherTask
  <2>2. CASE k = j
    <3> USE <1>0, OwnTask DEF OverpayInvAt, WellTyped, Owed, At
    <3>1. CASE RecheckBalance(j)
      BY <3>1 DEF RecheckBalance
    <3>2. CASE BuildTx(j)
      BY <3>2 DEF BuildTx
    <3>3. CASE SendOk(j)
      BY <3>3, OwnTx DEF SendOk
    <3>4. CASE SendUnanswered(j)
      BY <3>4, OwnTx DEF SendUnanswered
    <3>5. CASE GiveUpSending(j)
      BY <3>5 DEF GiveUpSending
    <3>6. CASE PollFinalized(j)
      BY <3>6 DEF PollFinalized
    <3>7. CASE PollExpired(j)
      BY <3>7 DEF PollExpired
    <3>8. CASE Resend(j)
      BY <3>8, OwnTx DEF Resend
    <3>9. CASE LookupAccounts(j)
      BY <3>9 DEF LookupAccounts
    <3>10. CASE DecreaseReward(j)
      BY <3>10 DEF DecreaseReward, Applied
    <3>11. CASE UpdatePoolClaimed(j)
      BY <3>11 DEF UpdatePoolClaimed, Applied
    <3>12. CASE AddNewClaim(j)
      BY <3>12 DEF AddNewClaim, Applied
    <3>13. CASE RemoveProcessed(j)
      BY <3>13 DEF RemoveProcessed
    <3>14. QED
      BY <1>5, <2>2, <3>1, <3>2, <3>3, <3>4, <3>5, <3>6, <3>7, <3>8, <3>9, <3>10, <3>11,
         <3>12, <3>13 DEF ProcessClaim
  <2>3. QED
    BY <2>1, <2>2
<1>6. ASSUME NEW k \in Keys, Chain(k) PROVE OverpayInvAt(j)'
  <2>1. CASE k # j
    BY <1>6, <2>1, <1>0, <1>a, OtherTx
  <2>2. CASE k = j
    <3>1. CASE Execute(j)
      <4>1. UNCHANGED <<joining, worker, balance, debited>>
        BY <3>1 DEF Execute
      <4>2. CASE Valid(j)
        <5>1. tx' = [tx EXCEPT ![j].st = "landed"] /\ payout'[j] = payout[j] + tx[j].amount
          BY <3>1, <4>2 DEF Execute
        <5>2. QED
          BY <3>1, <4>1, <5>1, <1>0, OwnTx DEF Execute, OverpayInvAt, WellTyped, Owed
      <4>3. CASE ~Valid(j)
        <5>1. tx' = [tx EXCEPT ![j].st = "reverted"] /\ payout' = payout
          BY <3>1, <4>3 DEF Execute
        <5>2. QED
          BY <3>1, <4>1, <5>1, <1>0, OwnTx DEF Execute, OverpayInvAt, WellTyped, Owed
      <4>4. QED
        BY <4>2, <4>3
    <3>2. CASE Lose(j)
      BY <3>2, <1>0 DEF Lose, OverpayInvAt, WellTyped, Owed
    <3>3. CASE BlockhashExpires(j)
      BY <3>3, <1>0 DEF BlockhashExpires, OverpayInvAt, WellTyped, Owed
    <3>4. QED
      BY <1>6, <2>2, <3>1, <3>2, <3>3 DEF Chain
  <2>3. QED
    BY <2>1, <2>2
<1>7. ASSUME NEW k \in Keys, Earn(k) PROVE OverpayInvAt(j)'
  BY <1>7, <1>0, <1>a DEF Earn, Untouched, WellTyped
<1>8. ASSUME NEW k \in Keys, ClaimAges(k) PROVE OverpayInvAt(j)'
  BY <1>8, <1>0, <1>a DEF ClaimAges, Untouched, WellTyped
<1>9. CASE Restart
  BY <1>9, <1>0 DEF Restart, OverpayInvAt, WellTyped, Owed, NoWorker
<1>10. CASE UNCHANGED vars
  BY <1>10, <1>0, <1>a DEF vars, Untouched, WellTyped
<1>11. QED
  BY <1>1, <1>2, <1>3, <1>4, <1>5, <1>6, <1>7, <1>8, <1>9, <1>10 DEF Next

\* Before its update a task's claim is covered by the balance, and no balance
\* ever loses what was not paid out: through outages, failed queries and
\* restarts, until an update that was applied reports an error.
THEOREM DebitsBacked ==
    Spec => [](("db_write" \notin mishap => DebitCovered) /\ DebitBacked)
<1>1. Init => DebitInv
  BY DEF Init, DebitInv, DebitInvAt, Owed, NoWorker, NoTx
<1>2. TypeOK /\ DebitInv /\ [Next]_vars => DebitInv'
  BY DebitStep
<1>3. TypeOK /\ DebitInv => ("db_write" \notin mishap => DebitCovered) /\ DebitBacked
  BY TypesAt DEF DebitInv, DebitInvAt, DebitCovered, DebitBacked, Owed, WellTyped
<1>4. QED
  BY <1>1, <1>2, <1>3, TypeCorrect, PTL DEF Spec

\* When nothing fails no claim is paid twice: what was paid out for a key was
\* taken off its balance, or is about to be by the task at work.
THEOREM NeverOverpaid ==
    ASSUME Faults = {}
    PROVE  Spec => []NoOverpay
<1>1. Init => OverpayInv
  BY DEF Init, OverpayInv, OverpayInvAt, Owed, NoWorker, NoTx
<1>2. TypeOK /\ OverpayInv /\ [Next]_vars => OverpayInv'
  BY OverpayStep
<1>3. OverpayInv => NoOverpay
  BY DEF OverpayInv, OverpayInvAt, NoOverpay
<1>4. QED
  BY <1>1, <1>2, <1>3, TypeCorrect, PTL DEF Spec

-----------------------------------------------------------------------------
(* What a balance may lose.                                                *)

\* A task that goes on to the debit built its transaction for this very amount,
\* and the transaction has landed; whatever fails.
LandedAt(k) ==
    /\ worker[k].pc \in {"send", "poll", "lookup", "debit"}
           => tx[k].amount = worker[k].amount
    /\ worker[k].pc \in {"lookup", "debit"} => tx[k].st = "landed"

LandedInv == \A k \in Keys : LandedAt(k)

LEMMA LandedStep ==
    ASSUME TypeOK, LandedInv, [Next]_vars
    PROVE  LandedInv'
<1> SUFFICES ASSUME NEW j \in Keys PROVE LandedAt(j)'
  BY DEF LandedInv, LandedAt
<1> USE DEF memory, db, chain, history, TypeOK
<1>0. LandedAt(j) /\ WellTyped(j)
  BY TypesAt DEF LandedInv, LandedAt
<1>a. worker'[j] = worker[j] /\ tx'[j] = tx[j] => LandedAt(j)'
  BY <1>0 DEF LandedAt
<1>1. ASSUME NEW r \in Requests, Handler(r) PROVE LandedAt(j)'
  <2>1. UNCHANGED <<worker, tx>>
    BY <1>1 DEF Handler, Arrive, CheckCooldown, CheckBalance, CheckLastClaim, Enqueue, Stamp
  <2>2. QED
    BY <2>1, <1>a
<1>2. CASE \/ JoinBatch
           \/ \E u \in Users : CooldownElapses(u)
           \/ \E k \in Keys : Earn(k) \/ ClaimAges(k)
           \/ UNCHANGED vars
  BY <1>2, <1>a DEF JoinBatch, CooldownElapses, Earn, ClaimAges, vars
<1>3. CASE SelectBatch
  <2>1. PICK B \in SUBSET Queued :
           worker' = [k \in Keys |-> IF k \in B THEN [pc |-> "check", amount |-> queue[k]]
                                                ELSE worker[k]]
    BY <1>3 DEF SelectBatch
  <2>2. UNCHANGED tx
    BY <1>3 DEF SelectBatch
  <2>3. QED
    BY <2>1, <2>2, <1>0 DEF LandedAt
<1>4. ASSUME NEW k \in Keys, ProcessClaim(k) PROVE LandedAt(j)'
  <2>1. CASE k # j
    BY <1>4, <2>1, <1>a, OtherTask DEF Untouched
  <2>2. CASE k = j
    <3> USE <1>0, OwnTask DEF LandedAt, WellTyped, At
    <3>1. CASE RecheckBalance(j)
      BY <3>1 DEF RecheckBalance
    <3>2. CASE BuildTx(j)
      BY <3>2 DEF BuildTx
    <3>3. CASE SendOk(j)
      BY <3>3, OwnTx DEF SendOk
    <3>4. CASE SendUnanswered(j)
      BY <3>4, OwnTx DEF SendUnanswered
    <3>5. CASE GiveUpSending(j)
      BY <3>5 DEF GiveUpSending
    <3>6. CASE PollFinalized(j)
      BY <3>6 DEF PollFinalized
    <3>7. CASE PollExpired(j)
      BY <3>7 DEF PollExpired
    <3>8. CASE Resend(j)
      BY <3>8, OwnTx DEF Resend
    <3>9. CASE LookupAccounts(j)
      BY <3>9 DEF LookupAccounts
    <3>10. CASE DecreaseReward(j)
      BY <3>10 DEF DecreaseReward, Applied
    <3>11. CASE UpdatePoolClaimed(j)
      BY <3>11 DEF UpdatePoolClaimed, Applied
    <3>12. CASE AddNewClaim(j)
      BY <3>12 DEF AddNewClaim, Applied
    <3>13. CASE RemoveProcessed(j)
      BY <3>13 DEF RemoveProcessed
    <3>14. QED
      BY <1>4, <2>2, <3>1, <3>2, <3>3, <3>4, <3>5, <3>6, <3>7, <3>8, <3>9, <3>10, <3>11,
         <3>12, <3>13 DEF ProcessClaim
  <2>3. QED
    BY <2>1, <2>2
<1>5. ASSUME NEW k \in Keys, Chain(k) PROVE LandedAt(j)'
  <2>1. CASE k # j
    BY <1>5, <2>1, <1>a, OtherTx DEF Untouched
  <2>2. CASE k = j
    BY <1>0, <1>5, <2>2, OwnTx DEF Chain, Execute, Lose, BlockhashExpires, LandedAt, WellTyped
  <2>3. QED
    BY <2>1, <2>2
<1>6. CASE Restart
  BY <1>6 DEF Restart, LandedAt, NoWorker
<1>7. QED
  BY <1>1, <1>2, <1>3, <1>4, <1>5, <1>6 DEF Next

\* Only the update of process_claim takes something off a balance.
LEMMA OnlyDebitShrinks ==
    ASSUME TypeOK, [Next]_vars, NEW j \in Keys, balance'[j] < balance[j]
    PROVE  At(j, "debit") /\ balance'[j] = balance[j] - worker[j].amount
<1> USE DEF memory, db, chain, history, TypeOK
<1>1. balance[j] \in Nat
  OBVIOUS
<1>2. ASSUME NEW k \in Keys, ProcessClaim(k), ~DecreaseReward(k) PROVE FALSE
  <2>1. UNCHANGED balance
    BY <1>2 DEF ProcessClaim, RecheckBalance, BuildTx, SendOk, SendUnanswered, GiveUpSending,
       PollFinalized, PollExpired, Resend, LookupAccounts, UpdatePoolClaimed, AddNewClaim,
       RemoveProcessed
  <2>2. QED
    BY <1>1, <2>1
<1>3. ASSUME NEW k \in Keys, Chain(k) \/ ClaimAges(k) PROVE FALSE
  BY <1>1, <1>3 DEF Chain, Execute, Lose, BlockhashExpires, ClaimAges
<1>4. ASSUME NEW k \in Keys, Earn(k) PROVE FALSE
  BY <1>1, <1>4 DEF Earn
<1>5. ASSUME NEW r \in Requests, Handler(r) PROVE FALSE
  BY <1>1, <1>5 DEF Handler, Arrive, CheckCooldown, CheckBalance, CheckLastClaim, Enqueue, Stamp
<1>6. CASE SelectBatch \/ JoinBatch \/ Restart \/ UNCHANGED vars \/ \E u \in Users : CooldownElapses(u)
  BY <1>1, <1>6 DEF SelectBatch, JoinBatch, Restart, CooldownElapses, vars
<1>7. ASSUME NEW k \in Keys, DecreaseReward(k)
      PROVE  At(j, "debit") /\ balance'[j] = balance[j] - worker[j].amount
  BY <1>1, <1>7 DEF DecreaseReward
<1>8. QED
  BY <1>2, <1>3, <1>4, <1>5, <1>6, <1>7 DEF Next

\* A balance shrinks only when the transaction that pays for it has landed, and
\* by no more than it claims: through outages, failed queries, updates that are
\* applied twice, and restarts.
THEOREM DebitsFollowLanding == Spec => DebitOnlyAfterLanding
<1>1. Init => LandedInv
  BY DEF Init, LandedInv, LandedAt, NoWorker
<1>2. TypeOK /\ LandedInv /\ [Next]_vars
        => [\A k \in Keys : balance'[k] < balance[k]
               => tx[k].st = "landed" /\ balance[k] - balance'[k] <= tx[k].amount]_vars
  <2> SUFFICES ASSUME TypeOK, LandedInv, [Next]_vars, NEW k \in Keys, balance'[k] < balance[k]
               PROVE  tx[k].st = "landed" /\ balance[k] - balance'[k] <= tx[k].amount
    OBVIOUS
  <2>1. WellTyped(k)
    BY TypesAt
  <2>2. At(k, "debit") /\ balance'[k] = balance[k] - worker[k].amount
    BY OnlyDebitShrinks
  <2>3. tx[k].st = "landed" /\ tx[k].amount = worker[k].amount
    BY <2>2 DEF LandedInv, LandedAt, At
  <2>4. QED
    BY <2>1, <2>2, <2>3 DEF WellTyped
<1>3. QED
  BY <1>1, <1>2, LandedStep, TypeCorrect, PTL DEF Spec, DebitOnlyAfterLanding

\* Only failures that may happen have happened.
MishapInv == mishap \subseteq Faults

\* While no update loses its answer, the amount a task will take off is covered
\* by the balance: the loop around the update of the unsigned column ends.
THEOREM ClaimsCovered ==
    ASSUME "db_write" \notin Faults
    PROVE  Spec => []DebitCovered
<1>1. Init => MishapInv
  BY DEF Init, MishapInv
<1>2. TypeOK /\ MishapInv /\ [Next]_vars => MishapInv'
  <2> SUFFICES ASSUME TypeOK, mishap \subseteq Faults, [Next]_vars PROVE mishap' \subseteq Faults
    BY DEF MishapInv
  <2>1. CASE UNCHANGED mishap
    BY <2>1
  <2>2. CASE Restart
    BY <2>2 DEF Restart
  <2>3. ASSUME NEW k \in Keys, NEW pc, Applied(k, pc) PROVE mishap' \subseteq Faults
    BY <2>3 DEF Applied
  <2>4. QED
    BY <2>1, <2>2, <2>3 DEF Next, vars, history, Handler, Arrive, CheckCooldown, CheckBalance,
       CheckLastClaim, Enqueue, Stamp, CooldownElapses, SelectBatch, JoinBatch, ProcessClaim,
       RecheckBalance, BuildTx, SendOk, SendUnanswered, GiveUpSending, PollFinalized, PollExpired,
       Resend, LookupAccounts, DecreaseReward, UpdatePoolClaimed, AddNewClaim, RemoveProcessed,
       Chain, Execute, Lose, BlockhashExpires, Earn, ClaimAges
<1>3. MishapInv => "db_write" \notin mishap
  BY DEF MishapInv
<1>4. QED
  BY <1>1, <1>2, <1>3, DebitsBacked, TypeCorrect, PTL DEF Spec

-----------------------------------------------------------------------------
(* Requests that do not overlap.                                           *)

\* What the cool-down remembers of an accepted claim, or is about to note.
CooldownInv ==
    "crash" \notin mishap =>
        /\ \A u \in Users : accepted[u] =>
              cooldown[u] \/ \E r \in Requests : request[r].pc = "stamp" /\ User(request[r].key) = u
        /\ \A r \in Requests : request[r].pc \in {"balance", "last_claim", "enqueue"}
              => ~accepted[User(request[r].key)]

\* A request that passed the check of the queue finds it empty when it writes;
\* a task works for what is queued.
KeptInv ==
    /\ \A k \in Keys : worker[k].pc # "none" => queue[k] = worker[k].amount /\ queue[k] # 0
    /\ \A r \in Requests : request[r].pc \notin {"idle", "stamp"} => queue[request[r].key] = 0
    /\ \A r \in Requests :
          request[r].pc \in {"balance", "last_claim", "enqueue"} => request[r].amount # 0

\* Handlers at work are for different users, or for different keys at least.
UsersApart ==
    \A r, s \in Requests : r # s /\ request[r].pc # "idle" /\ request[s].pc # "idle"
                               => User(request[r].key) # User(request[s].key)

KeysApart ==
    \A r, s \in Requests : r # s /\ request[r].pc # "idle" /\ request[s].pc # "idle"
                               => request[r].key # request[s].key

LEMMA OwnRequest ==
    ASSUME TypeOK, NEW r \in Requests
    PROVE  /\ Reply(r) => request'[r] = NoRequest
           /\ \A pc : Goto(r, pc) => /\ request'[r].pc = pc
                                     /\ request'[r].key = request[r].key
                                     /\ request'[r].amount = request[r].amount
           /\ Reply(r) \/ (\E pc : Goto(r, pc))
                => \A s \in Requests : s # r => request'[s] = request[s]
BY DEF TypeOK, Handling, Reply, Goto

LEMMA RequestTypes ==
    ASSUME TypeOK, NEW r \in Requests
    PROVE  /\ request[r].key \in Keys /\ request[r].amount \in Nat
           /\ User(request[r].key) \in Users
BY UserOfKey DEF TypeOK, Handling

LEMMA CooldownStep ==
    ASSUME TypeOK, CooldownInv, [Next]_vars, UsersApart
    PROVE  CooldownInv'
<1> SUFFICES ASSUME "crash" \notin mishap' PROVE CooldownInv'
  BY DEF CooldownInv
<1>0. "crash" \notin mishap
  BY MishapStays
<1>a. /\ \A u \in Users : accepted[u] =>
            cooldown[u] \/ \E r \in Requests : request[r].pc = "stamp" /\ User(request[r].key) = u
      /\ \A r \in Requests : request[r].pc \in {"balance", "last_claim", "enqueue"}
            => ~accepted[User(request[r].key)]
  BY <1>0 DEF CooldownInv
<1>1. ASSUME UNCHANGED <<accepted, cooldown, request>> PROVE CooldownInv'
  BY <1>a, <1>1 DEF CooldownInv
<1>2. ASSUME NEW r \in Requests, Handler(r) PROVE CooldownInv'
  <2>1. \A s \in Requests : s # r /\ request[r].pc # "idle" /\ request[s].pc # "idle"
                               => User(request[s].key) # User(request[r].key)
    BY DEF UsersApart
  <2>2. NoRequest.pc = "idle"
    BY DEF NoRequest
  <2> USE OwnRequest, <2>1, <2>2, <1>a DEF CooldownInv
  <2>3. ASSUME NEW k \in Keys, NEW a \in Amounts, NEW v2 \in BOOLEAN, Arrive(r, k, a, v2)
        PROVE  CooldownInv'
    <3>1. /\ request'[r].pc = "cooldown" /\ UNCHANGED <<accepted, cooldown>>
          /\ \A s \in Requests : s # r => request'[s] = request[s]
      BY <2>3 DEF Arrive, TypeOK, history
    <3>2. request[r].pc = "idle"
      BY <2>3 DEF Arrive
    <3>3. QED
      BY <3>1, <3>2
  <2>4. CASE CheckCooldown(r)
    <3>1. request[r].pc = "cooldown" /\ UNCHANGED <<accepted, cooldown>>
      BY <2>4 DEF CheckCooldown, history
    <3>2. accepted[User(request[r].key)] => cooldown[User(request[r].key)]
      BY <3>1, RequestTypes
    <3>3. CASE cooldown[User(request[r].key)] \/ request[r].amount < ClaimMinimum
      BY <2>4, <3>1, <3>2, <3>3 DEF CheckCooldown
    <3>4. CASE ~cooldown[User(request[r].key)] /\ Goto(r, "balance")
      BY <3>1, <3>2, <3>4, RequestTypes
    <3>5. QED
      BY <2>4, <3>3, <3>4 DEF CheckCooldown
  <2>5. CASE CheckBalance(r) \/ CheckLastClaim(r)
    <3>1. request[r].pc \in {"balance", "last_claim"} /\ UNCHANGED <<accepted, cooldown>>
      BY <2>5 DEF CheckBalance, CheckLastClaim, history
    <3>2. Reply(r) \/ Goto(r, "last_claim") \/ Goto(r, "enqueue")
      BY <2>5 DEF CheckBalance, CheckLastClaim
    <3>3. QED
      BY <3>1, <3>2
  <2>6. CASE Enqueue(r)
    <3>1. /\ request[r].pc = "enqueue" /\ Goto(r, "stamp") /\ UNCHANGED cooldown
          /\ \A u \in Users \ {User(request[r].key)} : accepted'[u] = accepted[u]
      BY <2>6 DEF Enqueue, TypeOK
    <3>2. QED
      BY <3>1, RequestTypes
  <2>7. CASE Stamp(r)
    <3>1. /\ request[r].pc = "stamp" /\ Reply(r) /\ UNCHANGED accepted
          /\ cooldown'[User(request[r].key)] = TRUE
          /\ \A u \in Users \ {User(request[r].key)} : cooldown'[u] = cooldown[u]
      BY <2>7, RequestTypes DEF Stamp, TypeOK, history
    <3>2. QED
      BY <3>1
  <2>8. QED
    BY <1>2, <2>3, <2>4, <2>5, <2>6, <2>7 DEF Handler
<1>3. ASSUME NEW u \in Users, CooldownElapses(u) PROVE CooldownInv'
  <2>1. /\ UNCHANGED request
        /\ accepted'[u] = FALSE
        /\ \A v \in Users \ {u} : accepted'[v] = accepted[v] /\ cooldown'[v] = cooldown[v]
    BY <1>3 DEF CooldownElapses, TypeOK
  <2>2. \A r \in Requests : User(request[r].key) \in Users
    BY RequestTypes
  <2>3. QED
    BY <1>a, <2>1, <2>2 DEF CooldownInv
<1>4. CASE Restart
  BY <1>4 DEF Restart
<1>5. CASE UNCHANGED <<accepted, cooldown, request>>
  BY <1>1, <1>5
<1>6. ASSUME NEW k \in Keys, ProcessClaim(k) PROVE CooldownInv'
  BY <1>1, <1>6 DEF memory, db, chain, history, ProcessClaim, RecheckBalance,
       BuildTx, SendOk, SendUnanswered, GiveUpSending, PollFinalized, PollExpired, Resend,
       LookupAccounts, DecreaseReward, UpdatePoolClaimed, AddNewClaim, RemoveProcessed
<1>7. QED
  BY <1>2, <1>3, <1>4, <1>5, <1>6
     DEF Next, vars, memory, db, chain, history, SelectBatch, JoinBatch, Chain, Execute, Lose,
         BlockhashExpires, Earn, ClaimAges

\* When requests of one user do not overlap, an accepted claim is not followed by
\* another one of the same user within 48 hours, whatever fails, but for a restart.
THEOREM CooldownHolds == Spec /\ []UsersApart => CooldownEnforced
<1>1. Init => CooldownInv
  BY DEF Init, CooldownInv, NoRequest
<1>2. TypeOK /\ CooldownInv /\ UsersApart /\ [Next]_vars => CooldownInv'
  BY CooldownStep
<1>3. CooldownInv => [ "crash" \notin mishap =>
        \A r \in Requests :
            request[r].pc = "enqueue" /\ request'[r].pc = "stamp"
                => ~accepted[User(request[r].key)] ]_vars
  BY DEF CooldownInv
<1>4. QED
  BY <1>1, <1>2, <1>3, TypeCorrect, PTL DEF Spec, CooldownEnforced

LEMMA KeptStep ==
    ASSUME TypeOK, KeptInv, [Next]_vars, KeysApart
    PROVE  KeptInv'
<1> USE DEF memory, db, chain, history, TypeOK
<1>a. /\ \A k \in Keys : worker[k].pc # "none" => queue[k] = worker[k].amount /\ queue[k] # 0
      /\ \A r \in Requests : request[r].pc \notin {"idle", "stamp"} => queue[request[r].key] = 0
      /\ \A r \in Requests :
            request[r].pc \in {"balance", "last_claim", "enqueue"} => request[r].amount # 0
  BY DEF KeptInv
<1>1. ASSUME UNCHANGED <<queue, worker, request>> PROVE KeptInv'
  BY <1>a, <1>1 DEF KeptInv
<1>2. ASSUME NEW r \in Requests, Handler(r) PROVE KeptInv'
  <2>1. \A s \in Requests : s # r /\ request[r].pc # "idle" /\ request[s].pc # "idle"
                               => request[s].key # request[r].key
    BY DEF KeysApart
  <2>2. NoRequest.pc = "idle"
    BY DEF NoRequest
  <2>3. UNCHANGED worker
    BY <1>2 DEF Handler, Arrive, CheckCooldown, CheckBalance, CheckLastClaim, Enqueue, Stamp
  <2> USE OwnRequest, <2>1, <2>2, <2>3, <1>a DEF KeptInv
  <2>4. ASSUME NEW k \in Keys, NEW a \in Amounts, NEW v2 \in BOOLEAN, Arrive(r, k, a, v2)
        PROVE  KeptInv'
    <3>1. request'[r] = [pc |-> "cooldown", key |-> k, amount |-> a, v2 |-> v2]
          /\ UNCHANGED queue /\ queue[k] = 0
          /\ \A s \in Requests : s # r => request'[s] = request[s]
      BY <2>4 DEF Arrive
    <3>2. QED
      BY <3>1
  <2>5. CASE CheckCooldown(r)
    <3>1. request[r].pc = "cooldown" /\ UNCHANGED queue
      BY <2>5 DEF CheckCooldown
    <3>2. CASE Reply(r)
      BY <3>1, <3>2
    <3>3. CASE request[r].amount >= ClaimMinimum /\ Goto(r, "balance")
      BY <3>1, <3>3, ClaimsConstants, RequestTypes
    <3>4. QED
      BY <2>5, <3>2, <3>3, ClaimsConstants, RequestTypes DEF CheckCooldown
  <2>6. CASE CheckBalance(r) \/ CheckLastClaim(r)
    <3>1. request[r].pc \in {"balance", "last_claim"} /\ UNCHANGED queue
      BY <2>6 DEF CheckBalance, CheckLastClaim
    <3>2. Reply(r) \/ Goto(r, "last_claim") \/ Goto(r, "enqueue")
      BY <2>6 DEF CheckBalance, CheckLastClaim
    <3>3. QED
      BY <3>1, <3>2
  <2>7. CASE Enqueue(r)
    <3>1. /\ request[r].pc = "enqueue" /\ Goto(r, "stamp")
          /\ \A k \in Keys \ {request[r].key} : queue'[k] = queue[k]
      BY <2>7 DEF Enqueue
    <3>2. worker[request[r].key].pc = "none"
      BY <3>1, RequestTypes
    <3>3. QED
      BY <3>1, <3>2, RequestTypes
  <2>8. CASE Stamp(r)
    <3>1. Reply(r) /\ UNCHANGED queue
      BY <2>8 DEF Stamp
    <3>2. QED
      BY <3>1
  <2>9. QED
    BY <1>2, <2>4, <2>5, <2>6, <2>7, <2>8 DEF Handler
<1>3. CASE SelectBatch
  <2>1. PICK B \in SUBSET Queued :
           worker' = [k \in Keys |-> IF k \in B THEN [pc |-> "check", amount |-> queue[k]]
                                                ELSE worker[k]]
    BY <1>3 DEF SelectBatch
  <2>2. \A k \in B : queue[k] # 0
    BY DEF Queued
  <2>3. UNCHANGED <<queue, request>>
    BY <1>3 DEF SelectBatch
  <2>4. QED
    BY <1>a, <2>1, <2>2, <2>3 DEF KeptInv
<1>4. ASSUME NEW k \in Keys, ProcessClaim(k) PROVE KeptInv'
  <2>1. /\ UNCHANGED request
        /\ \A j \in Keys \ {k} : worker'[j] = worker[j]
        /\ \A j \in Keys \ {k} : queue'[j] = queue[j]
        /\ queue'[k] \in {queue[k], 0}
    BY <1>4 DEF ProcessClaim, RecheckBalance, BuildTx, SendOk, SendUnanswered, GiveUpSending,
       PollFinalized, PollExpired, Resend, LookupAccounts, DecreaseReward, UpdatePoolClaimed,
       AddNewClaim, RemoveProcessed, Applied, Step, Finish, Dequeue
  <2>2. worker'[k].pc # "none" => /\ worker[k].pc # "none" /\ UNCHANGED queue
                                  /\ worker'[k].amount = worker[k].amount
    <3> USE OwnTask DEF At
    <3>1. CASE RecheckBalance(k)
      BY <3>1 DEF RecheckBalance
    <3>2. CASE BuildTx(k)
      BY <3>2 DEF BuildTx
    <3>3. CASE SendOk(k) \/ SendUnanswered(k) \/ Resend(k)
      BY <3>3 DEF SendOk, SendUnanswered, Resend
    <3>4. CASE GiveUpSending(k) \/ RemoveProcessed(k)
      BY <3>4 DEF GiveUpSending, RemoveProcessed
    <3>5. CASE PollFinalized(k) \/ PollExpired(k) \/ LookupAccounts(k)
      BY <3>5 DEF PollFinalized, PollExpired, LookupAccounts
    <3>6. CASE DecreaseReward(k)
      BY <3>6 DEF DecreaseReward, Applied
    <3>7. CASE UpdatePoolClaimed(k)
      BY <3>7 DEF UpdatePoolClaimed, Applied
    <3>8. CASE AddNewClaim(k)
      BY <3>8 DEF AddNewClaim, Applied
    <3>9. QED
      BY <1>4, <3>1, <3>2, <3>3, <3>4, <3>5, <3>6, <3>7, <3>8 DEF ProcessClaim
  <2>3. QED
    BY <1>a, <2>1, <2>2, RequestTypes DEF KeptInv
<1>5. CASE Restart
  BY <1>5 DEF Restart, KeptInv, NoRequest, NoWorker
<1>6. QED
  BY <1>1, <1>2, <1>3, <1>4, <1>5
     DEF Next, vars, CooldownElapses, JoinBatch, Chain, Execute, Lose,
         BlockhashExpires, Earn, ClaimAges

\* When requests for one key do not overlap, a claim that was answered with SUCCESS leaves the
\* queue only by the hand of the task that works for it, or by a restart.
THEOREM AcceptedClaimsKept == Spec /\ []KeysApart => AcceptedClaimKept
<1>1. Init => KeptInv
  BY DEF Init, KeptInv, NoRequest, NoWorker
<1>2. TypeOK /\ KeptInv /\ KeysApart /\ [Next]_vars => KeptInv'
  BY KeptStep
<1>3. TypeOK /\ KeptInv /\ [Next]_vars =>
        [ "crash" \notin mishap' => \A k \in Keys : queue[k] # 0 /\ queue'[k] # queue[k]
            => ~At(k, "none") /\ worker[k].amount = queue[k] ]_vars
  <2> SUFFICES ASSUME TypeOK, KeptInv, [Next]_vars, "crash" \notin mishap',
                      NEW j \in Keys, queue[j] # 0, queue'[j] # queue[j]
               PROVE  ~At(j, "none") /\ worker[j].amount = queue[j]
    OBVIOUS
  <2> USE DEF memory, db, chain, history, TypeOK
  <2>1. ASSUME NEW r \in Requests, Handler(r) PROVE FALSE
    <3>1. Enqueue(r)
      BY <2>1 DEF Handler, Arrive, CheckCooldown, CheckBalance, CheckLastClaim, Enqueue, Stamp
    <3>2. request[r].pc = "enqueue" /\ request[r].key = j
      BY <3>1 DEF Enqueue
    <3>3. QED
      BY <3>2 DEF KeptInv
  <2>2. ASSUME NEW k \in Keys, ProcessClaim(k) PROVE worker[j].pc # "none"
    <3>1. k = j
      BY <2>2 DEF ProcessClaim, RecheckBalance, BuildTx, SendOk, SendUnanswered, GiveUpSending,
         PollFinalized, PollExpired, Resend, LookupAccounts, DecreaseReward, UpdatePoolClaimed,
         AddNewClaim, RemoveProcessed, Dequeue
    <3>2. QED
      BY <2>2, <3>1 DEF ProcessClaim, RecheckBalance, BuildTx, SendOk, SendUnanswered, GiveUpSending,
         PollFinalized, PollExpired, Resend, LookupAccounts, DecreaseReward, UpdatePoolClaimed,
         AddNewClaim, RemoveProcessed, At
  <2>3. CASE Restart
    BY <2>3 DEF Restart
  <2>4. CASE \/ SelectBatch \/ JoinBatch \/ \E u \in Users : CooldownElapses(u)
             \/ \E k \in Keys : Chain(k) \/ Earn(k) \/ ClaimAges(k)
             \/ UNCHANGED vars
    BY <2>4 DEF vars, CooldownElapses, SelectBatch, JoinBatch, Chain, Execute, Lose,
         BlockhashExpires, Earn, ClaimAges
  <2>5. worker[j].pc # "none"
    BY <2>1, <2>2, <2>3, <2>4 DEF Next, At
  <2>6. QED
    BY <2>5 DEF KeptInv, At
<1>4. QED
  BY <1>1, <1>2, <1>3, TypeCorrect, PTL DEF Spec, AcceptedClaimKept

-----------------------------------------------------------------------------
(* The pool's total.                                                       *)

\* What has been taken off balances and is not in the pool's total yet.
Outstanding == [k \in Keys |-> IF At(k, "pool") THEN worker[k].amount ELSE 0]

\* Tasks run only while claim_system waits for them.
JoinInv == ~joining => \A k \in Keys : worker[k].pc = "none"

LEMMA OutstandingTyped ==
    ASSUME TypeOK
    PROVE  \A k \in Keys : Outstanding[k] \in Int /\ debited[k] \in Int
BY DEF TypeOK, Task, Outstanding

\* A step that takes no task to or from the update of the pool's total.
LEMMA MatchesKept ==
    ASSUME PoolClaimedMatches, mishap' = {} => mishap = {}, UNCHANGED <<poolClaimed, debited>>,
           \A k \in Keys : \/ worker'[k] = worker[k]
                           \/ worker[k].pc # "pool" /\ worker'[k].pc # "pool"
    PROVE  PoolClaimedMatches'
<1>1. \A k \in Keys : Outstanding'[k] = Outstanding[k]
  BY DEF Outstanding, At
<1>2. Total(Outstanding)' = Total(Outstanding) /\ Total(debited)' = Total(debited)
  <2>1. Outstanding' = Outstanding
    BY <1>1 DEF Outstanding
  <2>2. QED
    BY <2>1 DEF Total
<1>3. QED
  BY <1>2 DEF PoolClaimedMatches, Outstanding

\* One task of the batch goes on; the tasks are joined when all have ended.
LEMMA JoinStep ==
    ASSUME TypeOK, JoinInv, [Next]_vars
    PROVE  JoinInv'
<1> USE DEF memory, db, chain, history, JoinInv, TypeOK
<1>1. ASSUME NEW k \in Keys, ProcessClaim(k) PROVE JoinInv'
  <2>1. worker[k].pc # "none" /\ UNCHANGED joining
    BY <1>1 DEF ProcessClaim, RecheckBalance, BuildTx, SendOk, SendUnanswered, GiveUpSending,
       PollFinalized, PollExpired, Resend, LookupAccounts, DecreaseReward, UpdatePoolClaimed,
       AddNewClaim, RemoveProcessed, At
  <2>2. QED
    BY <2>1
<1>2. ASSUME NEW k \in Keys, Chain(k) \/ Earn(k) \/ ClaimAges(k) PROVE JoinInv'
  BY <1>2 DEF Chain, Execute, Lose, BlockhashExpires, Earn, ClaimAges
<1>3. ASSUME NEW r \in Requests, Handler(r) PROVE JoinInv'
  BY <1>3 DEF Handler, Arrive, CheckCooldown, CheckBalance, CheckLastClaim, Enqueue, Stamp
<1>4. CASE SelectBatch
  BY <1>4 DEF SelectBatch
<1>5. CASE JoinBatch
  BY <1>5 DEF JoinBatch
<1>6. CASE Restart
  BY <1>6 DEF Restart, NoWorker
<1>7. CASE UNCHANGED vars \/ \E u \in Users : CooldownElapses(u)
  BY <1>7 DEF vars, CooldownElapses
<1>8. QED
  BY <1>1, <1>2, <1>3, <1>4, <1>5, <1>6, <1>7 DEF Next

\* The balance is debited: the amount is outstanding.
LEMMA DebitMatches ==
    ASSUME TypeOK, TypeOK', PoolClaimedMatches, NEW k \in Keys, DecreaseReward(k)
    PROVE  PoolClaimedMatches'
<1> DEFINE amount == worker[k].amount
<1>1. /\ worker[k].pc = "debit" /\ amount \in Nat /\ poolClaimed \in Nat
      /\ debited' = [debited EXCEPT ![k] = @ + amount]
      /\ Applied(k, "pool") /\ UNCHANGED poolClaimed
  BY DEF DecreaseReward, At, TypeOK, Task
<1>2. CASE mishap' # {}
  BY <1>2 DEF PoolClaimedMatches
<1>3. CASE mishap' = {}
  <2>1. Step(k, "pool") /\ mishap = {}
    BY <1>1, <1>3 DEF Applied
  <2>2. worker'[k].pc = "pool" /\ worker'[k].amount = amount
    BY <2>1, OwnTask
  <2>3. \A j \in Keys \ {k} : worker'[j] = worker[j]
    BY <2>1 DEF Step, TypeOK
  <2>4. Outstanding[k] = 0 /\ Outstanding'[k] = amount
    BY <1>1, <2>2 DEF Outstanding, At
  <2>5. \A j \in Keys \ {k} : Outstanding'[j] = Outstanding[j]
    BY <2>3 DEF Outstanding, At
  <2>6. debited'[k] = debited[k] + amount /\ \A j \in Keys \ {k} : debited'[j] = debited[j]
    BY <1>1 DEF TypeOK
  <2>7. \A j \in Keys : /\ Outstanding[j] \in Int /\ Outstanding'[j] \in Int
                        /\ debited[j] \in Int /\ debited'[j] \in Int
    <3>1. \A j \in Keys : Outstanding'[j] \in Int /\ debited'[j] \in Int
      BY DEF TypeOK, Task, Outstanding
    <3>2. QED
      BY <3>1, OutstandingTyped
  <2> HIDE DEF amount
  <2>8. Total(Outstanding)' = Total(Outstanding) - 0 + amount
    BY <2>4, <2>5, <2>7, ClaimsConstants, SumChange DEF Total
  <2>9. Total(debited)' = Total(debited) - debited[k] + debited'[k]
    <3>1. \A j \in Keys \ {k} : debited[j] = debited'[j]
      BY <2>6
    <3>2. \A j \in Keys : debited[j] \in Int /\ debited'[j] \in Int
      BY <2>7
    <3>3. IsFiniteSet(Keys)
      BY ClaimsConstants
    <3>4. SumFunctionOnSet(debited', Keys) = SumFunctionOnSet(debited, Keys) - debited[k] + debited'[k]
      BY <3>1, <3>2, <3>3, SumChange
    <3>5. QED
      BY <3>4 DEF Total
  <2>10. Total(Outstanding) \in Int /\ Total(debited) \in Int /\ debited[k] \in Int
    BY <2>7, ClaimsConstants, SumInt DEF Total
  <2>11. poolClaimed + Total(Outstanding) = Total(debited)
    BY <2>1 DEF PoolClaimedMatches, Outstanding
  <2>12. poolClaimed' + Total(Outstanding)' = Total(debited)'
    BY <1>1, <2>6, <2>8, <2>9, <2>10, <2>11
  <2>13. QED
    BY <2>12 DEF PoolClaimedMatches, Outstanding
<1>4. QED
  BY <1>2, <1>3

\* The pool's total follows: the amount is outstanding no longer.
LEMMA PoolMatches ==
    ASSUME TypeOK, TypeOK', PoolClaimedMatches, NEW k \in Keys, UpdatePoolClaimed(k)
    PROVE  PoolClaimedMatches'
<1> DEFINE amount == worker[k].amount
           next == IF IsMiner(k) THEN "record" ELSE "dequeue"
<1>1. /\ worker[k].pc = "pool" /\ amount \in Nat /\ poolClaimed \in Nat
      /\ poolClaimed' = poolClaimed + amount
      /\ Applied(k, next) /\ UNCHANGED debited
  BY DEF UpdatePoolClaimed, At, TypeOK, Task
<1>2. CASE mishap' # {}
  BY <1>2 DEF PoolClaimedMatches
<1>3. CASE mishap' = {}
  <2>1. Step(k, next) /\ mishap = {}
    BY <1>1, <1>3 DEF Applied
  <2>2. worker'[k].pc # "pool"
    BY <2>1, OwnTask
  <2>3. \A j \in Keys \ {k} : worker'[j] = worker[j]
    BY <2>1 DEF Step, TypeOK
  <2>4. Outstanding[k] = amount /\ Outstanding'[k] = 0
    BY <1>1, <2>2 DEF Outstanding, At
  <2>5. \A j \in Keys \ {k} : Outstanding'[j] = Outstanding[j]
    BY <2>3 DEF Outstanding, At
  <2>6. \A j \in Keys : Outstanding[j] \in Int /\ Outstanding'[j] \in Int
    <3>1. \A j \in Keys : Outstanding'[j] \in Int
      BY DEF TypeOK, Task, Outstanding
    <3>2. QED
      BY <3>1, OutstandingTyped
  <2> HIDE DEF amount
  <2>7. Total(Outstanding)' = Total(Outstanding) - amount + 0
    BY <2>4, <2>5, <2>6, ClaimsConstants, SumChange DEF Total
  <2>8. Total(debited)' = Total(debited)
    BY <1>1 DEF Total
  <2>9. Total(Outstanding) \in Int
    BY <2>6, ClaimsConstants, SumInt DEF Total
  <2>10. poolClaimed + Total(Outstanding) = Total(debited)
    BY <2>1 DEF PoolClaimedMatches, Outstanding
  <2>11. poolClaimed' + Total(Outstanding)' = Total(debited)'
    BY <1>1, <2>7, <2>8, <2>9, <2>10
  <2>12. QED
    BY <2>11 DEF PoolClaimedMatches, Outstanding
<1>4. QED
  BY <1>2, <1>3

LEMMA MatchesStep ==
    ASSUME TypeOK, TypeOK', JoinInv, PoolClaimedMatches, [Next]_vars
    PROVE  PoolClaimedMatches'
<1> USE DEF memory, db, chain, history
<1>m. mishap' = {} => mishap = {}
  BY MishapStays
<1>s. UNCHANGED <<worker, poolClaimed, debited>> => PoolClaimedMatches'
  BY <1>m, MatchesKept
<1>1. ASSUME NEW k \in Keys, ProcessClaim(k), ~DecreaseReward(k), ~UpdatePoolClaimed(k)
      PROVE  PoolClaimedMatches'
  <2>1. /\ UNCHANGED <<poolClaimed, debited>>
        /\ worker[k].pc # "pool"
        /\ \/ Finish(k) \/ UNCHANGED worker
           \/ \E pc \in WorkerPCs \ {"pool"} : Step(k, pc)
    BY <1>1 DEF ProcessClaim, RecheckBalance, BuildTx, SendOk, SendUnanswered, GiveUpSending,
       PollFinalized, PollExpired, Resend, LookupAccounts, AddNewClaim, RemoveProcessed, At,
       Applied, WorkerPCs
  <2>2. \/ UNCHANGED worker
        \/ worker'[k].pc # "pool" /\ \A j \in Keys \ {k} : worker'[j] = worker[j]
    BY <2>1, OwnTask DEF Finish, Step, TypeOK
  <2>3. QED
    BY <1>m, <2>1, <2>2, MatchesKept
<1>2. ASSUME NEW k \in Keys, Chain(k) \/ Earn(k) \/ ClaimAges(k) PROVE PoolClaimedMatches'
  BY <1>s, <1>2 DEF Chain, Execute, Lose, BlockhashExpires, Earn, ClaimAges
<1>3. ASSUME NEW r \in Requests, Handler(r) PROVE PoolClaimedMatches'
  BY <1>s, <1>3 DEF Handler, Arrive, CheckCooldown, CheckBalance, CheckLastClaim, Enqueue, Stamp
<1>4. CASE SelectBatch
  <2>1. PICK B \in SUBSET Queued :
           worker' = [k \in Keys |-> IF k \in B THEN [pc |-> "check", amount |-> queue[k]]
                                                ELSE worker[k]]
    BY <1>4 DEF SelectBatch
  <2>2. UNCHANGED <<poolClaimed, debited>> /\ \A k \in Keys : worker[k].pc = "none"
    BY <1>4 DEF SelectBatch, JoinInv
  <2>3. \A k \in Keys : worker'[k].pc # "pool"
    BY <2>1, <2>2
  <2>4. QED
    BY <1>m, <2>2, <2>3, MatchesKept
<1>5. CASE Restart
  BY <1>5 DEF Restart, PoolClaimedMatches
<1>6. CASE JoinBatch \/ UNCHANGED vars \/ \E u \in Users : CooldownElapses(u)
  BY <1>s, <1>6 DEF JoinBatch, vars, CooldownElapses
<1>7. QED
  BY <1>1, <1>2, <1>3, <1>4, <1>5, <1>6, DebitMatches, PoolMatches DEF Next

\* The pool's claimed rewards are what was taken off all balances together, but
\* for the tasks between the two updates, as long as no update lost its answer
\* and the server did not restart; for any number of keys.
THEOREM PoolTotalMatches == Spec => []PoolClaimedMatches
<1>1. Init => JoinInv /\ PoolClaimedMatches
  <2> SUFFICES ASSUME Init PROVE JoinInv /\ PoolClaimedMatches
    OBVIOUS
  <2>1. JoinInv /\ \A k \in Keys : Outstanding[k] = 0 /\ debited[k] = 0
    BY DEF Init, JoinInv, NoWorker, Outstanding, At
  <2>2. Total(Outstanding) = 0 /\ Total(debited) = 0
    BY <2>1, ClaimsConstants, SumZero DEF Total
  <2>3. poolClaimed = 0
    BY DEF Init
  <2>4. QED
    BY <2>1, <2>2, <2>3 DEF PoolClaimedMatches, Outstanding
<1>2. QED
  BY <1>1, JoinStep, MatchesStep, TypeCorrect, PTL DEF Spec
=============================================================================
