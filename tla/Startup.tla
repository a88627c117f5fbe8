------------------------------ MODULE Startup ------------------------------
(***************************************************************************)
(* How the server starts: serve() checks, one after the other, what it     *)
(* needs on the chain and in the database, creates what it takes for       *)
(* missing, moves the funds of the old proof account if asked to, and      *)
(* gives up at the first failure.  It is then started again.  Once it      *)
(* serves, the two signup handlers insert miners; so does serve() itself   *)
(* for the receiver of the commission.                                     *)
(*                                                                         *)
(* A transaction whose sending ended with an error may have been lost, or  *)
(* may be executed after the server was restarted.  A query that ended     *)
(* with an error may have been applied.                                    *)
(***************************************************************************)
EXTENDS Integers

CONSTANTS
    Miners,       \* public keys of users
    Commission,   \* COMMISSION_PUBKEY
    Requests,     \* signup requests, each made once
    InitOriginal, \* what the old proof account holds at first
    InitWallet,   \* what the wallet's token account holds at first
    MaxFaults     \* bound: failures of RPC node, database and process

ASSUME StartupConstants ==
    /\ Commission \in Miners
    /\ "serve" \notin Requests
    /\ InitOriginal \in Nat /\ InitWallet \in Nat /\ MaxFaults \in Nat

VARIABLES
    \* the chain
    accounts,   \* accounts of the wallet that exist
    original,   \* balance of the old proof account
    wallet,     \* ORE in the wallet's token account
    staked,     \* ORE staked to the managed proof
    orphans,    \* transactions whose sender was told they failed
    \* the database
    pools,      \* how many pool rows have the wallet as authority
    miners,     \* miners rows
    rewards,    \* miners with a rewards row
    challenge,  \* the row of the current challenge is there
    \* the server
    pc,         \* where serve() is
    migrate,    \* args.migrate
    token_balance, original_balance,  \* locals of serve()
    signing,    \* signup_user_transaction, per caller
    request,    \* post_signup and post_signup_v2, per request
    \* history
    misread,    \* a failed query was taken for "no_pool"
    unsettled,  \* orphans were about when the balances were read
    budget      \* failures left

chain   == <<accounts, original, wallet, staked, orphans>>
db      == <<pools, miners, rewards, challenge>>
signups == <<signing, request>>
locals  == <<token_balance, original_balance>>
history == <<misread, unsettled>>
vars    == <<chain, db, pc, migrate, locals, signups, history, budget>>

-----------------------------------------------------------------------------
Callers  == Requests \cup {"serve"}
Accounts == {"proof", "stake", "token"}

\* The steps of serve() in their order; "exit" is a panic or an early return.
PCs == {"blockhash", "proof", "create_proof", "reload_proof", "stake", "create_stake",
        "token", "create_token", "wallet", "original", "claim", "delegate",
        "pool", "insert_pool", "commission", "sign", "commission_again", "pool_again",
        "challenge", "insert_challenge", "serving", "exit"}
Creating == [proof |-> "create_proof", stake |-> "create_stake", token |-> "create_token"]

\* Transactions are told apart by the failures left when they are sent.
Tx == [kind : Accounts, amount : {0}, id : 0 .. MaxFaults]
        \cup [kind : {"claim", "delegate"}, amount : Nat, id : 0 .. MaxFaults]

SigningPCs == {"none", "insert", "select", "reward", "commit", "ok", "error"}
NotSigning == [pc |-> "none", miner |-> Commission]

TypeOK ==
    /\ accounts \subseteq Accounts
    /\ original \in Nat /\ wallet \in Nat /\ staked \in Nat
    /\ orphans \subseteq Tx
    /\ pools \in Nat /\ miners \subseteq Miners /\ rewards \subseteq Miners
    /\ challenge \in BOOLEAN
    /\ pc \in PCs /\ migrate \in BOOLEAN
    /\ token_balance \in Nat /\ original_balance \in Nat
    /\ signing \in [Callers -> [pc : SigningPCs, miner : Miners]]
    /\ request \in [Requests -> [pc : {"none", "sign", "SUCCESS", "EXISTS", "ERROR"},
                                 miner : Miners]]
    /\ misread \in BOOLEAN /\ unsettled \in BOOLEAN
    /\ budget \in 0 .. MaxFaults

Init ==
    /\ accounts = {} /\ original = InitOriginal /\ wallet = InitWallet /\ staked = 0
    /\ orphans = {}
    /\ pools = 0 /\ miners = {} /\ rewards = {} /\ challenge = FALSE
    /\ pc = "blockhash" /\ migrate \in BOOLEAN
    /\ token_balance = 0 /\ original_balance = 0
    /\ signing = [c \in Callers |-> NotSigning]
    /\ request = [r \in Requests |-> [pc |-> "none", miner |-> Commission]]
    /\ misread = FALSE /\ unsettled = FALSE
    /\ budget = MaxFaults

\* A step that works as it should, and one that fails.
Works == budget' = budget
Fault == budget > 0 /\ budget' = budget - 1

-----------------------------------------------------------------------------
(* Transactions.                                                           *)

\* What the programs on the chain require.
Valid(tx) ==
    CASE tx.kind \in Accounts -> tx.kind \notin accounts
      [] tx.kind = "claim"    -> tx.amount <= original
      [] tx.kind = "delegate" -> tx.amount <= wallet

Execute(tx) ==
    /\ accounts' = accounts \cup ({tx.kind} \cap Accounts)
    /\ original' = IF tx.kind = "claim" THEN original - tx.amount ELSE original
    /\ wallet'   = CASE tx.kind = "claim"    -> wallet + tx.amount
                     [] tx.kind = "delegate" -> wallet - tx.amount
                     [] OTHER                -> wallet
    /\ staked'   = IF tx.kind = "delegate" THEN staked + tx.amount ELSE staked

\* send_and_confirm: the transaction is executed, or refused, or sending ends
\* with an error, be it that it is lost or that it is still under way.
SendAndConfirm(tx, ok, error) ==
    \/ /\ Valid(tx) /\ Execute(tx) /\ UNCHANGED orphans
       /\ pc' = ok /\ Works
    \/ /\ ~Valid(tx) /\ UNCHANGED chain
       /\ pc' = error /\ Works
    \/ /\ orphans' \in {orphans, orphans \cup {tx}}
       /\ UNCHANGED <<accounts, original, wallet, staked>>
       /\ pc' = error /\ Fault

\* Such a transaction is executed after all, or its blockhash expires.
OrphanEnds(tx) ==
    /\ tx \in orphans
    /\ orphans' = orphans \ {tx}
    /\ \/ Valid(tx) /\ Execute(tx)
       \/ UNCHANGED <<accounts, original, wallet, staked>>
    /\ UNCHANGED <<db, pc, migrate, locals, signups, history, budget>>

-----------------------------------------------------------------------------
(* serve(), up to the migration.                                           *)

Goto(step) == pc' = step /\ Works
GiveUp    == pc' = "exit" /\ Fault

\* The first blockhash is asked for until it comes; without a SOL balance the
\* server returns.
GetBlockhash ==
    /\ pc = "blockhash"
    /\ \/ Goto("proof")
       \/ UNCHANGED pc /\ Fault
       \/ GiveUp
    /\ UNCHANGED <<chain, db, migrate, locals, signups, history>>

\* An account that is there is used.  Any error counts as a missing account.
CheckAccount(k, there) ==
    /\ pc = k
    /\ \/ k \in accounts /\ Goto(there)
       \/ k \notin accounts /\ Goto(Creating[k])
       \/ k \in accounts /\ pc' = Creating[k] /\ Fault
    /\ UNCHANGED <<chain, db, migrate, locals, signups, history>>

CreateAccount(k, next) ==
    /\ pc = Creating[k]
    /\ SendAndConfirm([kind |-> k, amount |-> 0, id |-> budget], next, "exit")
    /\ UNCHANGED <<db, migrate, locals, signups, history>>

\* Without a blockhash the registration is left out, the other two panic.
NoBlockhash ==
    /\ \/ pc = "create_proof" /\ pc' = "reload_proof"
       \/ pc \in {"create_stake", "create_token"} /\ pc' = "exit"
    /\ Fault
    /\ UNCHANGED <<chain, db, migrate, locals, signups, history>>

\* Seeded fault: the proof is not loaded again.
ReloadProofTrusting ==
    /\ pc = "reload_proof"
    /\ \/ Goto("stake")
       \/ GiveUp
    /\ UNCHANGED <<chain, db, migrate, locals, signups, history>>

ReloadProof ==
    /\ pc = "reload_proof"
    /\ \/ "proof" \in accounts /\ Goto("stake")
       \/ "proof" \notin accounts /\ Goto("exit")
       \/ GiveUp
    /\ UNCHANGED <<chain, db, migrate, locals, signups, history>>

\* Seeded fault: an empty account becomes less than empty.
AsU64Unchecked(x) == {x, x - 1}

\* ui_amount * 10^decimals as u64: the product of floating point numbers may
\* lie below the integer it stands for and is then cut off.
AsU64(x) == {x, x - 1} \cap Nat

ReadWallet ==
    /\ pc = "wallet"
    /\ \/ /\ token_balance' \in AsU64(wallet)
          /\ unsettled' = (orphans # {})
          /\ Goto(IF migrate THEN "original" ELSE "pool")
       \/ GiveUp /\ UNCHANGED <<token_balance, unsettled>>
    /\ UNCHANGED <<chain, db, migrate, original_balance, signups, misread>>

-----------------------------------------------------------------------------
(* proof_migration                                                         *)

\* Seeded fault: only the old proof account decides.
ReadOriginalOnly ==
    /\ pc = "original"
    /\ \/ /\ original_balance' = original
          /\ Goto(IF original > 0 THEN "claim" ELSE "pool")
       \/ GiveUp /\ UNCHANGED original_balance
    /\ UNCHANGED <<chain, db, migrate, token_balance, signups, history>>

\* Funds that an earlier start claimed and did not stake are in the wallet.
ReadOriginal ==
    /\ pc = "original"
    /\ \/ /\ original_balance' = original
          /\ Goto(IF original > 0 \/ token_balance > 0 THEN "claim" ELSE "pool")
       \/ GiveUp /\ UNCHANGED original_balance
    /\ UNCHANGED <<chain, db, migrate, token_balance, signups, history>>

ClaimOriginal ==
    /\ pc = "claim"
    /\ \/ SendAndConfirm([kind |-> "claim", amount |-> original_balance, id |-> budget],
                         "delegate", "exit")
       \/ GiveUp /\ UNCHANGED chain
    /\ UNCHANGED <<db, migrate, locals, signups, history>>

DelegateStake ==
    /\ pc = "delegate"
    /\ \/ SendAndConfirm([kind |-> "delegate", amount |-> original_balance + token_balance,
                          id |-> budget], "pool", "exit")
       \/ GiveUp /\ UNCHANGED chain
    /\ UNCHANGED <<db, migrate, locals, signups, history>>

-----------------------------------------------------------------------------
(* serve(), the database.                                                  *)

\* Seeded fault: a missing connection counts as a missing pool too.
LookupPoolAnyhow ==
    /\ pc = "pool"
    /\ \/ Goto(IF pools > 0 THEN "commission" ELSE "insert_pool") /\ UNCHANGED misread
       \/ pc' = "insert_pool" /\ Fault /\ UNCHANGED misread
       \/ pc' = "insert_pool" /\ misread' = TRUE /\ Fault
    /\ UNCHANGED <<chain, db, migrate, locals, signups, unsettled>>

\* Without a connection the server panics; any other error is "Pool missing
\* from database. Inserting...".
LookupPool ==
    /\ pc = "pool"
    /\ \/ Goto(IF pools > 0 THEN "commission" ELSE "insert_pool") /\ UNCHANGED misread
       \/ GiveUp /\ UNCHANGED misread
       \/ pc' = "insert_pool" /\ misread' = TRUE /\ Fault
    /\ UNCHANGED <<chain, db, migrate, locals, signups, unsettled>>

\* No constraint keeps a second row of one authority out.
AddNewPool ==
    /\ pc = "insert_pool"
    /\ \/ pools' = pools + 1 /\ Goto("commission")
       \/ pools' \in {pools, pools + 1} /\ GiveUp
    /\ UNCHANGED <<chain, miners, rewards, challenge, migrate, locals, signups, history>>

\* Whatever the error, the miner is inserted.
LookupCommission ==
    /\ pc = "commission"
    /\ \/ Commission \in miners /\ Goto("pool_again") /\ UNCHANGED signing
       \/ /\ Commission \notin miners /\ Goto("sign")
          /\ signing' = [signing EXCEPT !["serve"] = [pc |-> "insert", miner |-> Commission]]
       \/ /\ pc' = "sign" /\ Fault
          /\ signing' = [signing EXCEPT !["serve"] = [pc |-> "insert", miner |-> Commission]]
    /\ UNCHANGED <<chain, db, migrate, locals, request, history>>

CommissionSigned ==
    /\ pc = "sign"
    /\ signing["serve"].pc \in {"ok", "error"}
    /\ Goto(IF signing["serve"].pc = "ok" THEN "commission_again" ELSE "exit")
    /\ signing' = [signing EXCEPT !["serve"] = NotSigning]
    /\ UNCHANGED <<chain, db, migrate, locals, request, history>>

LookupAgain ==
    /\ \/ pc = "commission_again" /\ Goto("pool_again")
       \/ pc = "pool_again" /\ Goto("challenge")
       \/ pc \in {"commission_again", "pool_again"} /\ GiveUp
    /\ UNCHANGED <<chain, db, migrate, locals, signups, history>>

\* Seeded fault: the challenge is inserted without a look.
LookupChallengeSkipped ==
    /\ pc = "challenge"
    /\ Goto("insert_challenge")
    /\ UNCHANGED <<chain, db, migrate, locals, signups, history>>

\* Here too only a missing connection is told from a missing row.
LookupChallenge ==
    /\ pc = "challenge"
    /\ \/ Goto(IF challenge THEN "serving" ELSE "insert_challenge")
       \/ GiveUp
       \/ pc' = "insert_challenge" /\ Fault
    /\ UNCHANGED <<chain, db, migrate, locals, signups, history>>

\* A challenge is UNIQUE.
AddNewChallenge ==
    /\ pc = "insert_challenge"
    /\ \/ ~challenge /\ challenge' = TRUE /\ Goto("serving")
       \/ challenge /\ UNCHANGED challenge /\ Goto("exit")
       \/ challenge' \in {challenge, TRUE} /\ GiveUp
    /\ UNCHANGED <<chain, pools, miners, rewards, migrate, locals, signups, history>>

Serve ==
    \/ GetBlockhash
    \/ CheckAccount("proof", "stake") \/ CreateAccount("proof", "reload_proof")
    \/ ReloadProof
    \/ CheckAccount("stake", "token") \/ CreateAccount("stake", "token")
    \/ CheckAccount("token", "wallet") \/ CreateAccount("token", "wallet")
    \/ NoBlockhash
    \/ ReadWallet \/ ReadOriginal \/ ClaimOriginal \/ DelegateStake
    \/ LookupPool \/ AddNewPool
    \/ LookupCommission \/ CommissionSigned \/ LookupAgain
    \/ LookupChallenge \/ AddNewChallenge

-----------------------------------------------------------------------------
(* signup_user_transaction, one database transaction.                      *)

At(c, step)   == signing[c].pc = step
Move(c, step) == signing' = [signing EXCEPT ![c].pc = step]
Uncommitted(c) == signing[c].pc \in {"select", "reward", "commit"}

rest == <<chain, pools, challenge, pc, migrate, locals, request, history>>

\* Seeded fault: the insert takes effect at once.
InsertMinerAtOnce(c) ==
    /\ At(c, "insert")
    /\ \A d \in Callers \ {c} : Uncommitted(d) => signing[d].miner # signing[c].miner
    /\ Move(c, IF signing[c].miner \in miners THEN "error" ELSE "select")
    /\ miners' = miners \cup {signing[c].miner}
    /\ Works
    /\ UNCHANGED <<rest, rewards>>

\* A pubkey is UNIQUE: the insert waits for another one of it that is not
\* committed, and fails when the row is there.
InsertMiner(c) ==
    /\ At(c, "insert")
    /\ \A d \in Callers \ {c} : Uncommitted(d) => signing[d].miner # signing[c].miner
    /\ Move(c, IF signing[c].miner \in miners THEN "error" ELSE "select")
    /\ Works
    /\ UNCHANGED <<rest, miners, rewards>>

SelectPool(c) ==
    /\ At(c, "select")
    /\ Move(c, IF pools > 0 THEN "reward" ELSE "error")
    /\ Works
    /\ UNCHANGED <<rest, miners, rewards>>

InsertReward(c) ==
    /\ At(c, "reward")
    /\ Move(c, "commit")
    /\ Works
    /\ UNCHANGED <<rest, miners, rewards>>

\* Both rows are there, whether the caller learns of it or not.
Commit(c) ==
    /\ At(c, "commit")
    /\ miners' = miners \cup {signing[c].miner}
    /\ rewards' = rewards \cup {signing[c].miner}
    /\ \/ Move(c, "ok") /\ Works
       \/ Move(c, "error") /\ Fault
    /\ UNCHANGED rest

\* A step fails, and what was inserted is rolled back.
RollBack(c) ==
    /\ signing[c].pc \in {"insert", "select", "reward", "commit"}
    /\ Move(c, "error")
    /\ Fault
    /\ UNCHANGED <<rest, miners, rewards>>

SignupUserTransaction(c) ==
    InsertMiner(c) \/ SelectPool(c) \/ InsertReward(c) \/ Commit(c) \/ RollBack(c)

-----------------------------------------------------------------------------
(* post_signup and post_signup_v2                                          *)

Answer(r, a) == request' = [request EXCEPT ![r].pc = a]

\* The miner is looked up; a failed query counts as a missing miner.
Signup(r, m) ==
    /\ pc = "serving"
    /\ request[r].pc = "none"
    /\ \/ /\ m \in miners
          /\ request' = [request EXCEPT ![r] = [pc |-> "EXISTS", miner |-> m]]
          /\ UNCHANGED signing /\ Works
       \/ /\ request' = [request EXCEPT ![r] = [pc |-> "ERROR", miner |-> m]]
          /\ UNCHANGED signing /\ Fault
       \/ /\ request' = [request EXCEPT ![r] = [pc |-> "sign", miner |-> m]]
          /\ signing' = [signing EXCEPT ![r] = [pc |-> "insert", miner |-> m]]
          /\ \/ m \notin miners /\ Works
             \/ m \in miners /\ Fault
    /\ UNCHANGED <<chain, db, pc, migrate, locals, history>>

SignupAnswered(r) ==
    /\ request[r].pc = "sign"
    /\ signing[r].pc \in {"ok", "error"}
    /\ Answer(r, IF signing[r].pc = "ok" THEN "SUCCESS" ELSE "ERROR")
    /\ signing' = [signing EXCEPT ![r] = NotSigning]
    /\ Works
    /\ UNCHANGED <<chain, db, pc, migrate, locals, history>>

-----------------------------------------------------------------------------
(* The process stops, and is started again, with or without --migrate; by   *)
(* then the proof may have the next challenge.                              *)

\* What is in a database transaction is rolled back, requests get no answer.
Crash ==
    /\ pc # "exit"
    /\ GiveUp
    /\ signing' = [c \in Callers |-> NotSigning]
    /\ request' = [r \in Requests |-> IF request[r].pc = "sign"
                                      THEN [request[r] EXCEPT !.pc = "ERROR"] ELSE request[r]]
    /\ UNCHANGED <<chain, db, migrate, locals, history>>

Restart ==
    /\ pc = "exit"
    /\ pc' = "blockhash"
    /\ migrate' \in BOOLEAN
    /\ token_balance' = 0 /\ original_balance' = 0
    /\ unsettled' = FALSE
    /\ challenge' \in {challenge, FALSE}
    /\ Works
    /\ UNCHANGED <<chain, pools, miners, rewards, signups, misread>>

Next ==
    \/ Serve \/ Crash \/ Restart
    \/ \E tx \in orphans : OrphanEnds(tx)
    \/ \E c \in Callers : SignupUserTransaction(c)
    \/ \E r \in Requests : SignupAnswered(r) \/ \E m \in Miners : Signup(r, m)

Spec == Init /\ [][Next]_vars

\* serve() runs, a stopped server is started again, and the chain decides about
\* every transaction.
FairSpec ==
    /\ Spec
    /\ WF_vars(Serve)
    /\ WF_vars(Restart)
    /\ WF_vars(SignupUserTransaction("serve"))
    /\ WF_vars(\E tx \in orphans : OrphanEnds(tx))

-----------------------------------------------------------------------------
(* Properties *)

\* A server that serves has all it works with, whichever of the checks failed
\* or were left out on the way, in this start or before.
ServingReady ==
    pc = "serving" =>
        /\ accounts = Accounts
        /\ pools > 0 /\ challenge
        /\ Commission \in miners \cap rewards

\* Nothing that was to be migrated is left behind, however often the server
\* gave up between claiming and staking, but for the unit the conversion of the
\* balance may lose.  The server reads the wallet first and the old proof
\* account second; a transaction of an earlier start that is executed in
\* between is overlooked.
Migrated == pc = "serving" /\ migrate /\ ~unsettled => original = 0 /\ wallet <= 1

\* The pool has one row, which its rewards and claims are added to, unless a
\* failed query was taken for a missing pool.
OnePool == pools > 1 => misread

\* A miner has its rewards row, one who was told so is signed up, and of several
\* requests for one miner only one is told that it did it.
SignedUp ==
    /\ miners = rewards
    /\ \A r \in Requests : request[r].pc \in {"SUCCESS", "EXISTS"} => request[r].miner \in miners
    /\ \A r, s \in Requests :
          r # s /\ request[r].pc = "SUCCESS" /\ request[s].pc = "SUCCESS"
             => request[r].miner # request[s].miner

\* When failures end, the server comes up: what an earlier start left behind
\* does not stop a later one.
ComesUp == <>[](pc = "serving")
=============================================================================
