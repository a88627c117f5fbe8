------------------------------- MODULE Claims -------------------------------
(***************************************************************************)
(* The payout of earned rewards: the four HTTP handlers that accept a      *)
(* claim (post_claim, post_claim_v2, post_claim_stake_rewards_v2 and _v3   *)
(* in main.rs), the in-memory ClaimsQueue they share with claim_system,    *)
(* the process_claim task claim_system spawns for every selected claim,    *)
(* and the two stores a claim moves value between: the database rows       *)
(* (rewards.balance or stake_accounts.rewards_balance,                     *)
(* pools.claimed_rewards, claims) and the pool's balance on chain.         *)
(*                                                                         *)
(* Every await at which another task can see or change shared state ends   *)
(* an action.  The txns table is left out: its row is written between two  *)
(* other writes, and only looked up again by its own signature.            *)
(***************************************************************************)
EXTENDS Integers, FiniteSets, Functions

CONSTANTS
    Users,        \* wallets that own rewards
    Mints,        \* boost mints a staker can have rewards for
    NoMint,       \* the queue key's `None`: a miner's claim
    Requests,     \* concurrent HTTP requests
    Amounts,      \* amounts a client asks for
    ClaimMinimum, \* CLAIM_MINIMUM
    MinerAtaFee,  \* kept back from a miner without a token account
    StakerAtaFee, \* kept back from a staker without a token account
    MaxU64,       \* u64 arithmetic wraps above this
    BatchSize,    \* CLAIMS_PROCESSING_AMOUNT
    InitBalance,  \* rewards every key starts with
    MaxTreasury,  \* bound: rewards stop being mined at this on-chain balance
    Faults        \* the failures that may happen, a subset of FaultKinds

FaultKinds ==
    { "rpc",        \* RPC requests fail or lose their answer, for minutes
      "db_read",    \* a query fails
      "db_write",   \* an update is applied but its answer is lost
      "crash" }     \* the server restarts

Keys == Users \X (Mints \cup {NoMint})

ASSUME ClaimsConstants ==
    /\ Users # {}
    /\ IsFiniteSet(Keys)
    /\ Amounts \subseteq Nat
    /\ ClaimMinimum \in Nat \ {0}
    /\ MinerAtaFee \in Nat
    /\ StakerAtaFee \in Nat
    /\ MaxU64 \in Nat
    /\ InitBalance \in Nat
    /\ MaxTreasury \in Nat
    /\ BatchSize \in Nat \ {0}
    /\ Faults \subseteq FaultKinds
    /\ NoMint \notin Mints

\* The pool never holds an amount near the end of the u64 range.
ASSUME TreasuryFits ==
    /\ InitBalance * Cardinality(Keys) <= MaxTreasury
    /\ MaxTreasury + MinerAtaFee + StakerAtaFee <= MaxU64

VARIABLES
    \* memory of the server, lost when it restarts
    queue,        \* ClaimsQueue.queue: the amount queued for a key, 0 for none
    cooldown,     \* ClaimsQueue.claim_cooldown holds an entry younger than 48h
    request,      \* the handlers in progress
    joining,      \* claim_system waits for the tasks it spawned
    worker,       \* the process_claim task of a key
    \* the database
    balance,      \* rewards.balance, stake_accounts.rewards_balance
    poolClaimed,  \* pools.claimed_rewards
    recentClaim,  \* the last row of claims for the miner is at most 1800s old
    \* the chain
    treasury,     \* claimable balance of the pool's proof account
    ata,          \* the token account of the user (the receiver) exists
    tx,           \* the transaction last built for a key
    \* history: what happened, read by the properties only
    payout,       \* claimed on chain for a key, fee kept back included
    debited,      \* taken off the key's balance
    accepted,     \* a claim of the user was accepted less than 48h ago
    mishap        \* "db_write" and "crash", as soon as they have happened

memory  == <<queue, cooldown, request, joining, worker>>
db      == <<balance, poolClaimed, recentClaim>>
chain   == <<treasury, ata, tx>>
history == <<payout, debited, accepted, mishap>>
vars    == <<memory, db, chain, history>>

-----------------------------------------------------------------------------
User(k)    == k[1]
IsMiner(k) == k[2] = NoMint

AnyKey    == CHOOSE k \in Keys : TRUE
NoRequest == [pc |-> "idle", key |-> AnyKey, amount |-> 0, v2 |-> FALSE]
NoWorker  == [pc |-> "none", amount |-> 0]
NoTx      == [st |-> "none", amount |-> 0, pay |-> 0, create |-> FALSE]

RequestPCs == {"idle", "cooldown", "balance", "last_claim", "enqueue", "stamp"}
WorkerPCs  == {"none", "check", "build", "send", "poll", "lookup", "debit",
               "pool", "record", "dequeue"}
TxStates   == {"none", "built", "inflight", "lost", "landed", "reverted", "expired"}

Handling == [pc : RequestPCs, key : Keys, amount : Nat, v2 : BOOLEAN]
Task     == [pc : WorkerPCs, amount : Nat]
Tx       == [st : TxStates, amount : Nat, pay : Nat, create : BOOLEAN]

TypeOK ==
    /\ queue \in [Keys -> Nat]
    /\ cooldown \in [Users -> BOOLEAN]
    /\ request \in [Requests -> Handling]
    /\ joining \in BOOLEAN
    /\ worker \in [Keys -> Task]
    /\ balance \in [Keys -> Nat]
    /\ poolClaimed \in Nat
    /\ recentClaim \in [Keys -> BOOLEAN]
    /\ treasury \in Nat
    /\ ata \in [Users -> BOOLEAN]
    /\ tx \in [Keys -> Tx]
    /\ payout \in [Keys -> Nat]
    /\ debited \in [Keys -> Nat]
    /\ accepted \in [Users -> BOOLEAN]
    /\ mishap \in SUBSET {"db_write", "crash"}

Init ==
    /\ queue = [k \in Keys |-> 0]
    /\ cooldown = [u \in Users |-> FALSE]
    /\ request = [r \in Requests |-> NoRequest]
    /\ joining = FALSE
    /\ worker = [k \in Keys |-> NoWorker]
    /\ balance = [k \in Keys |-> InitBalance]
    /\ poolClaimed = 0
    /\ recentClaim = [k \in Keys |-> FALSE]
    /\ treasury = InitBalance * Cardinality(Keys)
    /\ ata \in [Users -> BOOLEAN]
    /\ tx = [k \in Keys |-> NoTx]
    /\ payout = [k \in Keys |-> 0]
    /\ debited = [k \in Keys |-> 0]
    /\ accepted = [u \in Users |-> FALSE]
    /\ mishap = {}

-----------------------------------------------------------------------------
(* The handlers.  Queue, cool-down and database are read one after the    *)
(* other and the queue is written last, so two requests interleave.  A     *)
(* check that fails ends the request with an error response.               *)

Goto(r, pc) == request' = [request EXCEPT ![r].pc = pc]
Reply(r)    == request' = [request EXCEPT ![r] = NoRequest]

\* Seeded fault: the queue is not looked at before the claim is accepted.
ArriveUnchecked(r, k, a, v2) ==
    /\ request[r].pc = "idle"
    /\ v2 => IsMiner(k)
    /\ request' = [request EXCEPT ![r] = [pc |-> "cooldown", key |-> k, amount |-> a, v2 |-> v2]]
    /\ UNCHANGED <<queue, cooldown, joining, worker, db, chain, history>>

\* A request arrives and finds no claim of its key in the queue.  v2 is
\* post_claim_v2; a request refused here ("QUEUED") changes nothing.
Arrive(r, k, a, v2) ==
    /\ request[r].pc = "idle"
    /\ queue[k] = 0
    /\ v2 => IsMiner(k)
    /\ request' = [request EXCEPT ![r] = [pc |-> "cooldown", key |-> k, amount |-> a, v2 |-> v2]]
    /\ UNCHANGED <<queue, cooldown, joining, worker, db, chain, history>>

\* Seeded fault: the cool-down is not looked at.
CheckCooldownSkipped(r) ==
    /\ request[r].pc = "cooldown"
    /\ IF request[r].amount < ClaimMinimum THEN Reply(r) ELSE Goto(r, "balance")
    /\ UNCHANGED <<queue, cooldown, joining, worker, db, chain, history>>

CheckCooldown(r) ==
    /\ request[r].pc = "cooldown"
    /\ IF cooldown[User(request[r].key)] \/ request[r].amount < ClaimMinimum
       THEN Reply(r)
       ELSE Goto(r, "balance")
    /\ UNCHANGED <<queue, cooldown, joining, worker, db, chain, history>>

CheckBalance(r) ==
    /\ request[r].pc = "balance"
    /\ \/ /\ request[r].amount <= balance[request[r].key]
          /\ Goto(r, IF request[r].v2 THEN "last_claim" ELSE "enqueue")
       \/ /\ request[r].amount > balance[request[r].key] \/ "db_read" \in Faults
          /\ Reply(r)
    /\ UNCHANGED <<queue, cooldown, joining, worker, db, chain, history>>

\* A failed lookup of the last claim lets the request pass.
CheckLastClaim(r) ==
    /\ request[r].pc = "last_claim"
    /\ \/ /\ recentClaim[request[r].key]
          /\ Reply(r)
       \/ /\ ~recentClaim[request[r].key] \/ "db_read" \in Faults
          /\ Goto(r, "enqueue")
    /\ UNCHANGED <<queue, cooldown, joining, worker, db, chain, history>>

\* HashMap::insert: replaces a claim another request queued meanwhile.
Enqueue(r) ==
    LET k == request[r].key IN
    /\ request[r].pc = "enqueue"
    /\ queue' = [queue EXCEPT ![k] = request[r].amount]
    /\ accepted' = [accepted EXCEPT ![User(k)] = TRUE]
    /\ Goto(r, "stamp")
    /\ UNCHANGED <<cooldown, joining, worker, db, chain, payout, debited, mishap>>

Stamp(r) ==
    /\ request[r].pc = "stamp"
    /\ cooldown' = [cooldown EXCEPT ![User(request[r].key)] = TRUE]
    /\ Reply(r)
    /\ UNCHANGED <<queue, joining, worker, db, chain, history>>

\* 48 hours pass; no request takes that long.
CooldownElapses(u) ==
    /\ accepted[u]
    /\ \A r \in Requests : request[r].pc # "idle" => User(request[r].key) # u
    /\ cooldown' = [cooldown EXCEPT ![u] = FALSE]
    /\ accepted' = [accepted EXCEPT ![u] = FALSE]
    /\ UNCHANGED <<queue, request, joining, worker, db, chain, payout, debited, mishap>>

-----------------------------------------------------------------------------
(* claim_system: spawn a task for up to BatchSize queued claims (the order *)
(* of a HashMap is arbitrary), then wait for all of them.                  *)

Queued == {k \in Keys : queue[k] # 0}

SelectBatch ==
    /\ ~joining
    /\ Queued # {}
    /\ \E B \in SUBSET Queued :
          /\ Cardinality(B) = IF Cardinality(Queued) < BatchSize
                              THEN Cardinality(Queued) ELSE BatchSize
          /\ worker' = [k \in Keys |-> IF k \in B THEN [pc |-> "check", amount |-> queue[k]]
                                                  ELSE worker[k]]
    /\ joining' = TRUE
    /\ UNCHANGED <<queue, cooldown, request, db, chain, history>>

JoinBatch ==
    /\ joining
    /\ \A k \in Keys : worker[k].pc = "none"
    /\ joining' = FALSE
    /\ UNCHANGED <<queue, cooldown, request, worker, db, chain, history>>

-----------------------------------------------------------------------------
(* process_claim *)

At(k, pc)   == worker[k].pc = pc
Step(k, pc) == worker' = [worker EXCEPT ![k].pc = pc]
Finish(k)   == worker' = [worker EXCEPT ![k] = NoWorker]
Dequeue(k)  == queue' = [queue EXCEPT ![k] = 0]

\* Seeded fault: the task trusts the check the handler made.
RecheckBalanceTrusting(k) ==
    /\ At(k, "check")
    /\ Step(k, "build")
    /\ UNCHANGED <<queue, cooldown, request, joining, db, chain, history>>

\* The balance is read again; too small or unreadable, the claim is dropped.
RecheckBalance(k) ==
    /\ At(k, "check")
    /\ \/ /\ worker[k].amount <= balance[k]
          /\ Step(k, "build")
          /\ UNCHANGED queue
       \/ /\ worker[k].amount > balance[k] \/ "db_read" \in Faults
          /\ Dequeue(k)
          /\ Finish(k)
    /\ UNCHANGED <<cooldown, request, joining, db, chain, history>>

AtaFee(k) == IF IsMiner(k) THEN MinerAtaFee ELSE StakerAtaFee

\* Seeded fault: subtraction over the integers.
LessUnbounded(a, b) == a - b

\* u64 subtraction as the release build does it: it wraps.
Less(a, b) == IF a >= b THEN a - b ELSE a + MaxU64 + 1 - b

\* What the lookup of the receiver's token account comes to: an account that does
\* not exist and a request that fails are the same Err; an answer may also come
\* without a readable amount.
Lookups(k) ==
    {IF ata[User(k)] THEN "valid" ELSE "err"}
        \cup (IF "rpc" \notin Faults THEN {}
              ELSE IF ata[User(k)] THEN {"err", "no_amount"} ELSE {"err"})

\* All but "valid" add the instruction that creates the account; its fee is kept
\* back after "err" only.  Then the blockhash is fetched; without it the claim
\* stays queued.
\* An earlier transaction of the key, orphaned by a restart, is resolved by
\* now (its blockhash lives for about a minute).
BuildTx(k) ==
    /\ At(k, "build")
    /\ tx[k].st \notin {"inflight", "lost"}
    /\ \/ \E found \in Lookups(k) :
             /\ tx' = [tx EXCEPT ![k] =
                         [st     |-> "built",
                          amount |-> worker[k].amount,
                          pay    |-> IF found = "err" THEN Less(worker[k].amount, AtaFee(k))
                                                      ELSE worker[k].amount,
                          create |-> found # "valid"]]
             /\ Step(k, "send")
       \/ /\ "rpc" \in Faults
          /\ Finish(k)
          /\ UNCHANGED tx
    /\ UNCHANGED <<queue, cooldown, request, joining, db, treasury, ata, history>>

\* What the chain requires of the transaction: the account it creates is
\* not there yet, and the pool's balance covers the claim.
Valid(k) == tx[k].create # ata[User(k)] /\ tx[k].pay <= treasury

\* send_transaction simulates first.  An Ok answer means the transaction is
\* on its way; one that is already on its way is accepted again.
SendOk(k) ==
    /\ At(k, "send")
    /\ tx[k].st \in {"built", "inflight", "lost"}
    /\ Valid(k)
    /\ tx' = [tx EXCEPT ![k].st = "inflight"]
    /\ Step(k, "poll")
    /\ UNCHANGED <<queue, cooldown, request, joining, db, treasury, ata, history>>

\* The transaction was forwarded but the answer got lost: sent again.
SendUnanswered(k) ==
    /\ At(k, "send")
    /\ "rpc" \in Faults
    /\ tx[k].st \in {"built", "lost"}
    /\ Valid(k)
    /\ tx' = [tx EXCEPT ![k].st = "inflight"]
    /\ UNCHANGED <<memory, db, treasury, ata, history>>

\* Seeded fault: a claim that cannot be sent stays queued.
GiveUpSendingKeeps(k) ==
    /\ At(k, "send")
    /\ "rpc" \in Faults \/ ~Valid(k)
    /\ Finish(k)
    /\ UNCHANGED <<queue, cooldown, request, joining, db, chain, history>>

\* The eleventh attempt failed too: RPC is down, or the transaction is
\* refused each time (invalid, or processed already).
GiveUpSending(k) ==
    /\ At(k, "send")
    /\ "rpc" \in Faults \/ ~Valid(k)
    /\ Dequeue(k)
    /\ Finish(k)
    /\ UNCHANGED <<cooldown, request, joining, db, chain, history>>

\* Seeded fault: status.err is tested the wrong way round.
PollFinalizedSwapped(k) ==
    /\ At(k, "poll")
    /\ tx[k].st \in {"landed", "reverted"}
    /\ IF tx[k].st = "reverted" THEN Step(k, "lookup") ELSE Finish(k)
    /\ UNCHANGED <<queue, cooldown, request, joining, db, chain, history>>

\* Seeded fault: status.err is not tested.
PollFinalizedBlind(k) ==
    /\ At(k, "poll")
    /\ tx[k].st \in {"landed", "reverted"}
    /\ Step(k, "lookup")
    /\ UNCHANGED <<queue, cooldown, request, joining, db, chain, history>>

\* The poll loop sees the transaction finalized.
PollFinalized(k) ==
    /\ At(k, "poll")
    /\ tx[k].st \in {"landed", "reverted"}
    /\ IF tx[k].st = "landed" THEN Step(k, "lookup") ELSE Finish(k)
    /\ UNCHANGED <<queue, cooldown, request, joining, db, chain, history>>

\* Seeded fault: an expired transaction is taken for a processed one.
PollExpiredAccepts(k) ==
    /\ At(k, "poll")
    /\ tx[k].st = "expired"
    /\ Step(k, "lookup")
    /\ UNCHANGED <<queue, cooldown, request, joining, db, chain, history>>

\* Ten minutes without a finalized status: the claim stays queued.  By then
\* the blockhash has expired; a landed transaction is missed only when the
\* status requests fail all the time.
PollExpired(k) ==
    /\ At(k, "poll")
    /\ \/ tx[k].st = "expired"
       \/ tx[k].st \in {"landed", "reverted"} /\ "rpc" \in Faults
    /\ Finish(k)
    /\ UNCHANGED <<queue, cooldown, request, joining, db, chain, history>>

\* The staker branch sends the transaction again on every turn of the loop.
Resend(k) ==
    /\ At(k, "poll")
    /\ ~IsMiner(k)
    /\ tx[k].st = "lost"
    /\ Valid(k)
    /\ tx' = [tx EXCEPT ![k].st = "inflight"]
    /\ UNCHANGED <<memory, db, treasury, ata, history>>

\* miner or stake account, and pool, are looked up with unwrap(): a failed
\* query panics, the task ends and the claim is still queued.
LookupAccounts(k) ==
    /\ At(k, "lookup")
    /\ \/ Step(k, "debit")
       \/ "db_read" \in Faults /\ Finish(k)
    /\ UNCHANGED <<queue, cooldown, request, joining, db, chain, history>>

\* A write in a `while let Err` loop: once it is applied the task goes on,
\* or misses the answer and applies it again (MaxTreasury bounds how often).
Applied(k, next) ==
    \/ Step(k, next) /\ UNCHANGED mishap
    \/ /\ "db_write" \in Faults
       /\ poolClaimed < MaxTreasury
       /\ mishap' = mishap \cup {"db_write"}
       /\ UNCHANGED worker

\* Seeded fault: the update matches no row, and nobody looks at the row count.
DecreaseNothing(k) ==
    /\ At(k, "debit")
    /\ debited' = [debited EXCEPT ![k] = @ + worker[k].amount]
    /\ Applied(k, "pool")
    /\ UNCHANGED <<queue, cooldown, request, joining, db, chain, payout, accepted>>

\* decrease_miner_reward, decrease_stakers_rewards.  The column is unsigned:
\* an update below zero is an error, retried for ever.
DecreaseReward(k) ==
    /\ At(k, "debit")
    /\ worker[k].amount <= balance[k]
    /\ balance' = [balance EXCEPT ![k] = @ - worker[k].amount]
    /\ debited' = [debited EXCEPT ![k] = @ + worker[k].amount]
    /\ Applied(k, "pool")
    /\ UNCHANGED <<queue, cooldown, request, joining, poolClaimed, recentClaim, chain, payout, accepted>>

\* Seeded fault: the amount sent is added instead of the amount claimed.
UpdatePoolSent(k) ==
    /\ At(k, "pool")
    /\ poolClaimed' = poolClaimed + tx[k].pay
    /\ Applied(k, IF IsMiner(k) THEN "record" ELSE "dequeue")
    /\ UNCHANGED <<queue, cooldown, request, joining, balance, recentClaim, chain, payout, debited, accepted>>

UpdatePoolClaimed(k) ==
    /\ At(k, "pool")
    /\ poolClaimed' = poolClaimed + worker[k].amount
    /\ Applied(k, IF IsMiner(k) THEN "record" ELSE "dequeue")
    /\ UNCHANGED <<queue, cooldown, request, joining, balance, recentClaim, chain, payout, debited, accepted>>

\* add_new_claim; stakers have no such table.
AddNewClaim(k) ==
    /\ At(k, "record")
    /\ recentClaim' = [recentClaim EXCEPT ![k] = TRUE]
    /\ Applied(k, "dequeue")
    /\ UNCHANGED <<queue, cooldown, request, joining, balance, poolClaimed, chain, payout, debited, accepted>>

RemoveProcessed(k) ==
    /\ At(k, "dequeue")
    /\ Dequeue(k)
    /\ Finish(k)
    /\ UNCHANGED <<cooldown, request, joining, db, chain, history>>

-----------------------------------------------------------------------------
(* The chain and the rest of the pool *)

\* A leader executes the transaction.
Execute(k) ==
    /\ tx[k].st = "inflight"
    /\ IF Valid(k)
       THEN /\ tx' = [tx EXCEPT ![k].st = "landed"]
            /\ treasury' = treasury - tx[k].pay
            /\ ata' = [ata EXCEPT ![User(k)] = TRUE]
            /\ payout' = [payout EXCEPT ![k] = @ + tx[k].amount]
       ELSE /\ tx' = [tx EXCEPT ![k].st = "reverted"]
            /\ UNCHANGED <<treasury, ata, payout>>
    /\ UNCHANGED <<memory, db, debited, accepted, mishap>>

Lose(k) ==
    /\ tx[k].st = "inflight"
    /\ tx' = [tx EXCEPT ![k].st = "lost"]
    /\ UNCHANGED <<memory, db, treasury, ata, history>>

BlockhashExpires(k) ==
    /\ tx[k].st \in {"inflight", "lost"}
    /\ tx' = [tx EXCEPT ![k].st = "expired"]
    /\ UNCHANGED <<memory, db, treasury, ata, history>>

Total(f) == SumFunctionOnSet(f, Keys)

\* Mining earns on chain what pool_mine_success_system then credits; bounded
\* by MaxTreasury, for what is there and for all that was ever earned.
Earn(k) ==
    /\ treasury < MaxTreasury
    /\ treasury + Total(payout) < MaxTreasury
    /\ treasury' = treasury + 1
    /\ balance' = [balance EXCEPT ![k] = @ + 1]
    /\ UNCHANGED <<memory, poolClaimed, recentClaim, ata, tx, history>>

\* 1800 seconds since the row was added.
ClaimAges(k) ==
    /\ recentClaim[k]
    /\ recentClaim' = [recentClaim EXCEPT ![k] = FALSE]
    /\ UNCHANGED <<memory, balance, poolClaimed, chain, history>>

Restart ==
    /\ "crash" \in Faults
    /\ queue' = [k \in Keys |-> 0]
    /\ cooldown' = [u \in Users |-> FALSE]
    /\ request' = [r \in Requests |-> NoRequest]
    /\ joining' = FALSE
    /\ worker' = [k \in Keys |-> NoWorker]
    /\ mishap' = mishap \cup {"crash"}
    /\ UNCHANGED <<db, chain, payout, debited, accepted>>

-----------------------------------------------------------------------------
Handler(r) ==
    \/ \E k \in Keys, a \in Amounts, v2 \in BOOLEAN : Arrive(r, k, a, v2)
    \/ CheckCooldown(r) \/ CheckBalance(r) \/ CheckLastClaim(r)
    \/ Enqueue(r) \/ Stamp(r)

ProcessClaim(k) ==
    \/ RecheckBalance(k) \/ BuildTx(k)
    \/ SendOk(k) \/ SendUnanswered(k) \/ GiveUpSending(k)
    \/ PollFinalized(k) \/ PollExpired(k) \/ Resend(k)
    \/ LookupAccounts(k) \/ DecreaseReward(k) \/ UpdatePoolClaimed(k)
    \/ AddNewClaim(k) \/ RemoveProcessed(k)

Chain(k) == Execute(k) \/ Lose(k) \/ BlockhashExpires(k)

Next ==
    \/ \E r \in Requests : Handler(r)
    \/ \E u \in Users : CooldownElapses(u)
    \/ SelectBatch \/ JoinBatch
    \/ \E k \in Keys : ProcessClaim(k) \/ Chain(k) \/ Earn(k) \/ ClaimAges(k)
    \/ Restart

Spec == Init /\ [][Next]_vars

\* The tokio runtime runs every ready task, and RPC nodes go on forwarding:
\* a transaction that is sent again and again is executed in the end.
FairSpec ==
    /\ Spec
    /\ WF_vars(SelectBatch)
    /\ WF_vars(JoinBatch)
    /\ \A k \in Keys :
          /\ WF_vars(ProcessClaim(k))
          /\ WF_vars(BlockhashExpires(k))
          /\ SF_vars(Execute(k))

-----------------------------------------------------------------------------
(* Properties *)

\* The claim whose transaction landed and is not taken off the balance yet.
Owed(k) ==
    IF tx[k].st = "landed" /\ worker[k].pc \in {"send", "poll", "lookup", "debit"}
    THEN worker[k].amount ELSE 0

\* Everything paid out for a key has been taken off its balance, or will be by
\* the task at work: no claim is paid twice (process_claim's retry "on next
\* iteration" builds a new transaction).  Holds when nothing fails.
NoOverpay == \A k \in Keys : payout[k] <= debited[k] + Owed(k)

\* A balance never loses what its owner did not receive: through RPC outages,
\* failed queries and restarts, until a write that was applied reports an
\* error and is repeated.
DebitBacked == "db_write" \notin mishap => \A k \in Keys : debited[k] <= payout[k]

\* Between its own check of the balance and the update, nothing makes the
\* balance too small: the `while let Err` loop around the unsigned column ends.
DebitCovered ==
    \A k \in Keys :
        worker[k].pc \in {"build", "send", "poll", "lookup", "debit"}
            => worker[k].amount <= balance[k]

\* The inductive invariant behind DebitBacked and DebitCovered: a task that goes
\* on to the debit does so for the transaction it built, after it landed.
DebitInvAt(k) ==
    /\ worker[k].pc \in {"send", "poll", "lookup", "debit"}
           => tx[k].amount = worker[k].amount
    /\ worker[k].pc \in {"lookup", "debit"} => tx[k].st = "landed"
    /\ worker[k].pc \in {"build", "send", "poll", "lookup", "debit"}
           => worker[k].amount <= balance[k]
    /\ debited[k] + Owed(k) <= payout[k]

DebitInv == "db_write" \notin mishap => \A k \in Keys : DebitInvAt(k)

\* The inductive invariant behind NoOverpay: when nothing fails, a transaction
\* is on its way only while its task waits for it.
OverpayInvAt(k) ==
    /\ worker[k].pc \in {"send", "poll", "lookup", "debit"}
           => tx[k].amount = worker[k].amount
    /\ ~joining => worker[k].pc = "none"
    /\ worker[k].pc = "send" => tx[k].st = "built"
    /\ tx[k].st \in {"inflight", "lost"} => worker[k].pc = "poll"
    /\ payout[k] <= debited[k] + Owed(k)

OverpayInv == \A k \in Keys : OverpayInvAt(k)

\* What ImplementsPayout rests on besides: a task works for a claim in the queue,
\* and its transaction asks for the claim or for what the fee leaves of it; the
\* pool's funds are far from the end of the u64 range.
PayoutInvAt(k) ==
    /\ worker[k].pc # "none" => queue[k] # 0 /\ worker[k].amount # 0
    /\ tx[k].pay \in {tx[k].amount, Less(tx[k].amount, AtaFee(k))}

PayoutInv ==
    /\ treasury <= MaxTreasury
    /\ mishap \subseteq Faults
    /\ \A r \in Requests :
          request[r].pc \in {"balance", "last_claim", "enqueue"} => request[r].amount # 0
    /\ \A k \in Keys : PayoutInvAt(k)

\* pools.claimed_rewards is the sum of what was taken off the balances, but
\* for the tasks between the two updates.  A restart between them breaks it,
\* and so does an update that is repeated.
PoolClaimedMatches ==
    mishap = {} =>
        poolClaimed + Total([k \in Keys |-> IF At(k, "pool") THEN worker[k].amount ELSE 0])
            = Total(debited)

\* A balance only shrinks while the transaction that pays for it has landed,
\* and by no more than that transaction claims; whatever fails.
DebitOnlyAfterLanding ==
    [][ \A k \in Keys : balance'[k] < balance[k]
            => tx[k].st = "landed" /\ balance[k] - balance'[k] <= tx[k].amount ]_vars

\* "claims only allowed once every 48 hours" (main.rs:1924): an accepted claim
\* is not followed by another one of the same user, unless the server restarts,
\* which forgets the cool-down.
CooldownEnforced ==
    [][ "crash" \notin mishap =>
        \A r \in Requests :
            request[r].pc = "enqueue" /\ request'[r].pc = "stamp"
                => ~accepted[User(request[r].key)] ]_vars

\* A claim answered with SUCCESS leaves the queue only by the hand of the task
\* that processes this very claim, or by a restart.  Holds for requests that
\* do not overlap.
AcceptedClaimKept ==
    [][ "crash" \notin mishap' => \A k \in Keys : queue[k] # 0 /\ queue'[k] # queue[k]
            => ~At(k, "none") /\ worker[k].amount = queue[k] ]_vars

\* "claim amount exceeds miner rewards balance" (main.rs:1947) refuses a claim
\* the balance does not cover: nobody is paid more than was ever earned.
PaidWithinEarned == \A k \in Keys : payout[k] <= debited[k] + balance[k]

\* A transaction never claims more than its owner asked for.  The fee kept back
\* from a miner without a token account is larger than the "claim minimum".
PayWithinClaim == \A k \in Keys : tx[k].pay <= tx[k].amount

\* The claim at work has been paid, and will leave the queue; one that another
\* request replaces it with by then leaves with it.
Settling(k) ==
    /\ tx[k].st = "landed"
    /\ worker[k].pc \in {"poll", "lookup", "debit", "pool", "record", "dequeue"}

StillOwed(k) == balance[k] - Owed(k)
Waiting(k)   == queue[k] # 0 /\ ~Settling(k)

Paying == INSTANCE Payout WITH
    Claimants <- Keys,
    owed  <- [k \in Keys |-> StillOwed(k)],
    paid  <- payout,
    claim <- [k \in Keys |-> Waiting(k)],
    funds <- treasury

\* Overlapping requests, the tasks, the transaction and the updates of the
\* database amount to this: an accepted claim is paid once, out of what its
\* owner is owed, or refused.  Holds when nothing fails.
ImplementsPayout == Paying!Spec

\* Every queued claim is removed in the end, paid or refused, unless the batches
\* pass it over for ever: the claims that are tried come out of a HashMap in any
\* order, but it takes claims of other keys that are accepted for ever.
ClaimServed ==
    \A k \in Keys :
        \/ queue[k] # 0 ~> queue[k] = 0
        \/ []<><<\E r \in Requests : Enqueue(r) /\ request[r].key # k>>_vars
=============================================================================
