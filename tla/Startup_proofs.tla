--------------------------- MODULE Startup_proofs ---------------------------
(***************************************************************************)
(* What holds of startup and signup for any number of miners and requests, *)
(* any funds and any number of failures.                                   *)
(***************************************************************************)
EXTENDS Startup, TLAPS

-----------------------------------------------------------------------------
(* Types.                                                                  *)

\* TypeOK in three parts, of which the provers take one each.
Flags == challenge \in BOOLEAN /\ migrate \in BOOLEAN /\ misread \in BOOLEAN
           /\ unsettled \in BOOLEAN

Funds ==
    /\ accounts \subseteq Accounts
    /\ original \in Nat /\ wallet \in Nat /\ staked \in Nat
    /\ orphans \subseteq Tx
    /\ pools \in Nat
    /\ pc \in PCs
    /\ token_balance \in Nat /\ original_balance \in Nat
    /\ budget \in 0 .. MaxFaults

Rows ==
    /\ miners \subseteq Miners /\ rewards \subseteq Miners
    /\ signing \in [Callers -> [pc : SigningPCs, miner : Miners]]
    /\ request \in [Requests -> [pc : {"none", "sign", "SUCCESS", "EXISTS", "ERROR"},
                                 miner : Miners]]

LEMMA TypeParts == TypeOK <=> Flags /\ Funds /\ Rows
BY Zenon DEF TypeOK, Flags, Funds, Rows

LEMMA InitTyped == Init => TypeOK
<1>1. Init => Flags
  BY Zenon DEF Init, Flags
<1>2. Init => Funds
  BY StartupConstants DEF Init, Funds, PCs
<1>3. Init => Rows
  BY StartupConstants DEF Init, Rows, NotSigning, SigningPCs
<1>4. QED
  BY <1>1, <1>2, <1>3, TypeParts

LEMMA FlagsTyped ==
    ASSUME Flags, [Next]_vars
    PROVE  Flags'
<1> USE DEF Flags, db, history
<1>1. CASE Serve
  BY <1>1, Zenon
     DEF Serve, GetBlockhash, CheckAccount, CreateAccount, ReloadProof, NoBlockhash, ReadWallet,
         ReadOriginal, ClaimOriginal, DelegateStake, LookupPool, AddNewPool, LookupCommission,
         CommissionSigned, LookupAgain, LookupChallenge, AddNewChallenge
<1>2. CASE Crash \/ Restart
  BY <1>2, Zenon DEF Crash, Restart
<1>3. ASSUME NEW tx \in orphans, OrphanEnds(tx) PROVE Flags'
  BY <1>3, Zenon DEF OrphanEnds
<1>4. ASSUME NEW c \in Callers, SignupUserTransaction(c) PROVE Flags'
  BY <1>4, Zenon DEF SignupUserTransaction, InsertMiner, SelectPool, InsertReward, Commit, RollBack, rest
<1>5. ASSUME NEW r \in Requests, SignupAnswered(r) \/ \E m \in Miners : Signup(r, m) PROVE Flags'
  BY <1>5, Zenon DEF SignupAnswered, Signup
<1>6. QED
  BY <1>1, <1>2, <1>3, <1>4, <1>5, Zenon DEF Next, vars

\* What the execution of a transaction does to the funds.
LEMMA ExecuteTyped ==
    ASSUME Funds, NEW tx \in Tx, Valid(tx), Execute(tx)
    PROVE  /\ accounts \subseteq accounts' /\ accounts' \subseteq Accounts
           /\ original' \in Nat /\ wallet' \in Nat /\ staked' \in Nat
<1>1. tx.amount \in Nat /\ tx.kind \in Accounts \cup {"claim", "delegate"}
  BY DEF Tx
<1>2. /\ tx.kind = "claim" => tx.amount <= original
      /\ tx.kind = "delegate" => tx.amount <= wallet
  BY DEF Valid, Accounts
<1>3. QED
  BY <1>1, <1>2 DEF Execute, Funds, Accounts

LEMMA BudgetTyped ==
    ASSUME budget \in 0 .. MaxFaults, Works \/ Fault
    PROVE  budget' \in 0 .. MaxFaults
BY StartupConstants DEF Works, Fault

\* The funds after a transaction was sent, however that ended.
LEMMA SendTyped ==
    ASSUME Funds, NEW tx \in Tx, NEW ok \in PCs, NEW error \in PCs, SendAndConfirm(tx, ok, error)
    PROVE  /\ accounts' \subseteq Accounts
           /\ original' \in Nat /\ wallet' \in Nat /\ staked' \in Nat
           /\ orphans' \subseteq Tx
           /\ pc' \in PCs
           /\ budget' \in 0 .. MaxFaults
<1>1. CASE Valid(tx) /\ Execute(tx) /\ UNCHANGED orphans /\ pc' = ok /\ Works
  BY <1>1, ExecuteTyped, BudgetTyped DEF Funds
<1>2. CASE ~Valid(tx) /\ UNCHANGED chain /\ pc' = error /\ Works
  BY <1>2, BudgetTyped DEF Funds, chain
<1>3. CASE /\ orphans' \in {orphans, orphans \cup {tx}}
           /\ UNCHANGED <<accounts, original, wallet, staked>>
           /\ pc' = error /\ Fault
  BY <1>3, BudgetTyped DEF Funds
<1>4. QED
  BY <1>1, <1>2, <1>3 DEF SendAndConfirm

LEMMA FundsTyped ==
    ASSUME Funds, [Next]_vars
    PROVE  Funds'
<1> USE DEF db, chain, locals
<1>0. budget \in 0 .. MaxFaults /\ (Works \/ Fault => budget' \in 0 .. MaxFaults)
  BY BudgetTyped DEF Funds
<1>1. CASE Serve
  <2>1. ASSUME UNCHANGED <<accounts, original, wallet, staked, orphans, pools, token_balance,
                           original_balance>>, pc' \in PCs, Works \/ Fault
        PROVE  Funds'
    BY <1>0, <2>1 DEF Funds
  <2>2. ASSUME NEW k \in Accounts, NEW next \in PCs, CreateAccount(k, next) PROVE Funds'
    <3>1. [kind |-> k, amount |-> 0, id |-> budget] \in Tx
      BY <1>0 DEF Tx
    <3>2. "exit" \in PCs
      BY DEF PCs
    <3>3. QED
      BY <2>2, <3>1, <3>2, SendTyped DEF CreateAccount, Funds
  <2>3. CASE ClaimOriginal
    <3>1. [kind |-> "claim", amount |-> original_balance, id |-> budget] \in Tx
      BY <1>0 DEF Tx, Funds
    <3>2. "exit" \in PCs /\ "delegate" \in PCs
      BY DEF PCs
    <3>3. QED
      BY <2>1, <2>3, <3>1, <3>2, SendTyped DEF ClaimOriginal, Funds, GiveUp
  <2>4. CASE DelegateStake
    <3>1. [kind |-> "delegate", amount |-> original_balance + token_balance, id |-> budget] \in Tx
      BY <1>0 DEF Tx, Funds
    <3>2. "exit" \in PCs /\ "pool" \in PCs
      BY DEF PCs
    <3>3. QED
      BY <2>1, <2>4, <3>1, <3>2, SendTyped DEF DelegateStake, Funds, GiveUp
  <2>5. CASE ReadWallet \/ ReadOriginal
    BY <1>0, <2>5 DEF ReadWallet, ReadOriginal, AsU64, Goto, GiveUp, Funds, PCs
  <2>6. CASE AddNewPool
    <3>1. /\ pools' \in {pools, pools + 1} /\ pc' \in {"commission", "exit"}
          /\ UNCHANGED <<accounts, original, wallet, staked, orphans, token_balance,
                         original_balance>>
      BY <2>6, Zenon DEF AddNewPool, Goto, GiveUp
    <3>2. budget' \in 0 .. MaxFaults
      BY <1>0, <2>6, Zenon DEF AddNewPool, Goto, GiveUp
    <3>3. pools' \in Nat
      BY <3>1 DEF Funds
    <3>4. pc' \in PCs
      BY <3>1 DEF PCs
    <3>5. QED
      BY <3>1, <3>2, <3>3, <3>4, Zenon DEF Funds
  <2>7. ASSUME NEW k \in Accounts, NEW there \in PCs, CheckAccount(k, there) PROVE Funds'
    <3>1. Creating[k] \in PCs
      <4>1. Creating.proof \in PCs /\ Creating.stake \in PCs /\ Creating.token \in PCs
        BY DEF Creating, PCs
      <4>2. QED
        BY <4>1 DEF Accounts
    <3>2. QED
      BY <2>1, <2>7, <3>1 DEF CheckAccount, Goto
  <2>8. CASE GetBlockhash \/ ReloadProof \/ NoBlockhash
    BY <2>1, <2>8 DEF GetBlockhash, ReloadProof, NoBlockhash, Goto, GiveUp, PCs, Funds
  <2>9. CASE LookupPool \/ LookupCommission \/ CommissionSigned \/ LookupAgain
    BY <2>1, <2>9 DEF LookupPool, LookupCommission, CommissionSigned, LookupAgain, Goto, GiveUp, PCs
  <2>10. CASE LookupChallenge \/ AddNewChallenge
    BY <2>1, <2>10 DEF LookupChallenge, AddNewChallenge, Goto, GiveUp, PCs
  <2>11. "proof" \in Accounts /\ "stake" \in Accounts /\ "token" \in Accounts
         /\ {"stake", "token", "wallet", "reload_proof"} \subseteq PCs
    BY DEF Accounts, PCs
  <2>12. QED
    BY <1>1, <2>2, <2>3, <2>4, <2>5, <2>6, <2>7, <2>8, <2>9, <2>10, <2>11 DEF Serve
<1>2. CASE Crash \/ Restart
  <2>1. /\ UNCHANGED <<accounts, original, wallet, staked, orphans, pools>>
        /\ pc' \in {"exit", "blockhash"}
        /\ token_balance' \in {token_balance, 0} /\ original_balance' \in {original_balance, 0}
    BY <1>2, Zenon DEF Crash, Restart, GiveUp
  <2>2. budget' \in 0 .. MaxFaults
    BY <1>0, <1>2, Zenon DEF Crash, Restart, GiveUp
  <2>3. pc' \in PCs
    BY <2>1 DEF PCs
  <2>4. token_balance' \in Nat /\ original_balance' \in Nat
    BY <2>1 DEF Funds
  <2>5. QED
    BY <2>1, <2>2, <2>3, <2>4, Zenon DEF Funds
<1>3. ASSUME NEW tx \in orphans, OrphanEnds(tx) PROVE Funds'
  <2>1. tx \in Tx
    BY DEF Funds
  <2>2. QED
    BY <1>3, <2>1, ExecuteTyped DEF OrphanEnds, Funds
<1>4. ASSUME NEW c \in Callers, SignupUserTransaction(c) PROVE Funds'
  BY <1>0, <1>4 DEF SignupUserTransaction, InsertMiner, SelectPool, InsertReward, Commit, RollBack, rest, Funds
<1>5. ASSUME NEW r \in Requests, SignupAnswered(r) \/ \E m \in Miners : Signup(r, m) PROVE Funds'
  BY <1>0, <1>5 DEF SignupAnswered, Signup, Funds
<1>6. CASE UNCHANGED vars
  BY <1>6 DEF vars, Funds
<1>7. QED
  BY <1>1, <1>2, <1>3, <1>4, <1>5, <1>6 DEF Next

LEMMA RowsTyped ==
    ASSUME Rows, [Next]_vars
    PROVE  Rows'
<1> USE DEF Rows, db, signups
<1>0. NotSigning \in [pc : SigningPCs, miner : Miners] /\ "serve" \in Callers /\ Requests \subseteq Callers
  BY StartupConstants DEF NotSigning, SigningPCs, Callers
<1>1. CASE Serve
  <2>1. CASE LookupCommission
    <3>1. [pc |-> "insert", miner |-> Commission] \in [pc : SigningPCs, miner : Miners]
      BY StartupConstants DEF SigningPCs
    <3>2. UNCHANGED <<miners, rewards, request>>
          /\ signing' \in {signing, [signing EXCEPT !["serve"] = [pc |-> "insert", miner |-> Commission]]}
      BY <2>1 DEF LookupCommission
    <3>3. QED
      BY <1>0, <3>1, <3>2
  <2>2. CASE CommissionSigned
    BY <1>0, <2>2 DEF CommissionSigned
  <2>3. QED
    BY <1>1, <2>1, <2>2
       DEF Serve, GetBlockhash, CheckAccount, CreateAccount, ReloadProof, NoBlockhash, ReadWallet,
           ReadOriginal, ClaimOriginal, DelegateStake, LookupPool, AddNewPool,
           LookupAgain, LookupChallenge, AddNewChallenge
<1>2. CASE Crash
  BY <1>0, <1>2 DEF Crash
<1>3. CASE Restart
  BY <1>3 DEF Restart
<1>4. ASSUME NEW c \in Callers, SignupUserTransaction(c) PROVE Rows'
  BY <1>4 DEF SignupUserTransaction, InsertMiner, SelectPool, InsertReward, Commit, RollBack, rest,
              Move, SigningPCs
<1>5. ASSUME NEW r \in Requests, SignupAnswered(r) PROVE Rows'
  BY <1>0, <1>5 DEF SignupAnswered, Answer
<1>6. ASSUME NEW r \in Requests, NEW m \in Miners, Signup(r, m) PROVE Rows'
  BY <1>0, <1>6 DEF Signup, SigningPCs
<1>7. QED
  BY <1>1, <1>2, <1>3, <1>4, <1>5, <1>6 DEF Next, vars, OrphanEnds

LEMMA StepTyped ==
    ASSUME TypeOK, [Next]_vars
    PROVE  TypeOK'
<1>1. Flags' /\ Funds' /\ Rows'
  BY FlagsTyped, FundsTyped, RowsTyped, TypeParts
<1>2. QED
  BY <1>1, Zenon DEF TypeOK, Flags, Funds, Rows

\* Every reachable state has the stated types: in particular no transaction,
\* in whatever start it was sent and is executed, takes more than there is.
THEOREM TypeCorrect == Spec => []TypeOK
BY InitTyped, StepTyped, PTL DEF Spec

-----------------------------------------------------------------------------
(* The pool's row.                                                         *)

\* A row is inserted only where none is there, unless a query was misread.
Single  == pools <= 1 /\ (pc = "insert_pool" => pools = 0)
PoolInv == misread \/ Single

LEMMA PoolStep ==
    ASSUME TypeOK, PoolInv, [Next]_vars
    PROVE  PoolInv'
<1> USE DEF db, locals, history
<1>0. pools \in Nat
  BY DEF TypeOK
<1>1. ASSUME UNCHANGED <<pools, misread>>, pc' = "insert_pool" => pc = "insert_pool"
      PROVE  PoolInv'
  <2>1. Single => Single'
    BY <1>1 DEF Single
  <2>2. QED
    BY <1>1, <2>1, Zenon DEF PoolInv
<1>2. CASE LookupPool
  <2>1. \/ misread' = TRUE
        \/ UNCHANGED <<misread, pools>> /\ pc' = "commission"
        \/ UNCHANGED <<misread, pools>> /\ pc' = "exit"
        \/ UNCHANGED <<misread, pools>> /\ ~(pools > 0)
    BY <1>2, Zenon DEF LookupPool, Goto, GiveUp
  <2>2. UNCHANGED pools /\ pc' \in {"commission", "exit"} => (Single => Single')
    BY DEF Single
  <2>3. UNCHANGED pools /\ ~(pools > 0) => (Single => Single')
    BY <1>0 DEF Single
  <2>4. QED
    BY <2>1, <2>2, <2>3, Zenon DEF PoolInv
<1>3. CASE AddNewPool
  <2>1. /\ pc = "insert_pool" /\ UNCHANGED misread
        /\ pools' \in {pools, pools + 1} /\ pc' \in {"commission", "exit"}
    BY <1>3, Zenon DEF AddNewPool, Goto, GiveUp
  <2>2. Single => Single'
    BY <1>0, <2>1 DEF Single
  <2>3. QED
    BY <2>1, <2>2, Zenon DEF PoolInv
<1>4. ASSUME NEW tx, NEW ok, NEW error, SendAndConfirm(tx, ok, error)
      PROVE  pc' = ok \/ pc' = error
  BY <1>4, Zenon DEF SendAndConfirm
<1>5. ASSUME NEW k \in Accounts, NEW step, step # "insert_pool",
             CheckAccount(k, step) \/ CreateAccount(k, step)
      PROVE  PoolInv'
  <2>1. Creating.proof # "insert_pool" /\ Creating.stake # "insert_pool" /\ Creating.token # "insert_pool"
    BY DEF Creating
  <2>2. Creating[k] # "insert_pool"
    BY <2>1 DEF Accounts
  <2>3. QED
    BY <1>1, <1>4, <1>5, <2>2 DEF CheckAccount, CreateAccount, Goto
<1>6. CASE ReadWallet \/ ReadOriginal \/ ClaimOriginal \/ DelegateStake
  BY <1>1, <1>4, <1>6, Zenon DEF ReadWallet, ReadOriginal, ClaimOriginal, DelegateStake, Goto, GiveUp
<1>7. CASE GetBlockhash \/ ReloadProof \/ NoBlockhash
  BY <1>1, <1>7 DEF GetBlockhash, ReloadProof, NoBlockhash, Goto, GiveUp
<1>8. CASE LookupCommission \/ CommissionSigned \/ LookupAgain
  BY <1>1, <1>8 DEF LookupCommission, CommissionSigned, LookupAgain, Goto, GiveUp
<1>9. CASE LookupChallenge \/ AddNewChallenge
  BY <1>1, <1>9 DEF LookupChallenge, AddNewChallenge, Goto, GiveUp
<1>10. "proof" \in Accounts /\ "stake" \in Accounts /\ "token" \in Accounts
  BY DEF Accounts
<1>11. CASE Serve
  BY <1>2, <1>3, <1>5, <1>6, <1>7, <1>8, <1>9, <1>10, <1>11 DEF Serve
<1>12. CASE Crash \/ Restart
  BY <1>1, <1>12 DEF Crash, Restart, GiveUp
<1>13. ASSUME NEW tx \in orphans, OrphanEnds(tx) PROVE PoolInv'
  BY <1>1, <1>13 DEF OrphanEnds
<1>14. ASSUME NEW c \in Callers, SignupUserTransaction(c) PROVE PoolInv'
  BY <1>1, <1>14 DEF SignupUserTransaction, InsertMiner, SelectPool, InsertReward, Commit, RollBack, rest
<1>15. ASSUME NEW r \in Requests, SignupAnswered(r) \/ \E m \in Miners : Signup(r, m) PROVE PoolInv'
  BY <1>1, <1>15 DEF SignupAnswered, Signup
<1>16. QED
  BY <1>1, <1>11, <1>12, <1>13, <1>14, <1>15 DEF Next, vars

\* However often the server is started, and whichever insert was applied
\* although it was reported as failed, there is one row of the pool, unless a
\* failed query was taken for a missing row.
THEOREM PoolIsOne == Spec => []OnePool
<1>1. Init => PoolInv
  BY DEF Init, PoolInv, Single
<1>2. TypeOK /\ PoolInv => OnePool
  <2>1. Single /\ pools \in Nat => ~(pools > 1)
    BY DEF Single
  <2>2. QED
    BY <2>1, Zenon DEF PoolInv, OnePool, TypeOK
<1>3. QED
  BY <1>1, <1>2, PoolStep, TypeCorrect, PTL DEF Spec

-----------------------------------------------------------------------------
(* Signup.                                                                 *)

\* Who has been signed up by request r, whether it was answered or not.
Done(r) == request[r].pc = "SUCCESS" \/ At(r, "ok")

\* The row of a miner that is inserted and not committed keeps others out; a
\* handler at work is where its transaction is, with the same miner.
SignupInv ==
    /\ miners = rewards
    /\ \A c, d \in Callers : c # d /\ Uncommitted(c) /\ Uncommitted(d)
                               => signing[c].miner # signing[d].miner
    /\ \A c \in Callers : /\ Uncommitted(c) => signing[c].miner \notin miners
                          /\ At(c, "ok") => signing[c].miner \in miners
    /\ \A r \in Requests :
          /\ request[r].pc = "sign" => request[r].miner = signing[r].miner
          /\ request[r].pc # "sign" => At(r, "none")
          /\ request[r].pc \in {"SUCCESS", "EXISTS"} => request[r].miner \in miners
    /\ \A r, s \in Requests : r # s /\ Done(r) /\ Done(s) => request[r].miner # request[s].miner
    /\ signing["serve"].miner = Commission

LEMMA SignupStep ==
    ASSUME TypeOK, SignupInv, [Next]_vars
    PROVE  SignupInv'
<1> USE DEF db, signups, At, Uncommitted
<1>0. /\ "serve" \in Callers /\ Requests \subseteq Callers /\ "serve" \notin Requests
      /\ Rows
  BY StartupConstants, TypeParts DEF Callers
<1>1. ASSUME UNCHANGED <<miners, rewards, signing, request>> PROVE SignupInv'
  BY <1>1 DEF SignupInv, Done
<1>2. CASE LookupCommission
  <2>1. \/ UNCHANGED <<miners, rewards, signing, request>>
        \/ /\ UNCHANGED <<miners, rewards, request>>
           /\ signing' = [signing EXCEPT !["serve"] = [pc |-> "insert", miner |-> Commission]]
    BY <1>2 DEF LookupCommission
  <2>2. ASSUME signing' = [signing EXCEPT !["serve"] = [pc |-> "insert", miner |-> Commission]],
               UNCHANGED <<miners, rewards, request>>
        PROVE  SignupInv'
    <3>1. /\ signing'["serve"].pc = "insert" /\ signing'["serve"].miner = Commission
          /\ \A c \in Callers \ {"serve"} : signing'[c] = signing[c]
      BY <1>0, <2>2 DEF Rows
    <3>2. QED
      BY <1>0, <2>2, <3>1 DEF SignupInv, Done
  <2>3. QED
    BY <1>1, <2>1, <2>2
<1>3. CASE CommissionSigned
  <2>1. /\ UNCHANGED <<miners, rewards, request>>
        /\ signing' = [signing EXCEPT !["serve"] = [pc |-> "none", miner |-> Commission]]
    BY <1>3 DEF CommissionSigned, NotSigning
  <2>2. QED
    BY <1>0, <2>1 DEF SignupInv, Done, Rows
<1>4. CASE Serve
  BY <1>1, <1>2, <1>3, <1>4
     DEF Serve, GetBlockhash, CheckAccount, CreateAccount, ReloadProof, NoBlockhash, ReadWallet,
         ReadOriginal, ClaimOriginal, DelegateStake, LookupPool, AddNewPool,
         LookupAgain, LookupChallenge, AddNewChallenge
<1>5. CASE Crash
  <2>1. UNCHANGED <<miners, rewards>>
    BY <1>5 DEF Crash
  <2>2. \A c \in Callers : signing'[c].pc = "none" /\ signing'[c].miner = Commission
    BY <1>5 DEF Crash, NotSigning
  <2>3. \A r \in Requests :
           \/ request[r].pc = "sign" /\ request'[r].pc = "ERROR"
           \/ request[r].pc # "sign" /\ request'[r] = request[r]
    BY <1>0, <1>5 DEF Crash, Rows
  <2>4. QED
    BY <1>0, <2>1, <2>2, <2>3 DEF SignupInv, Done
<1>6. ASSUME NEW c \in Callers, SignupUserTransaction(c) PROVE SignupInv'
  <2>0. request' = request
    BY <1>6 DEF SignupUserTransaction, InsertMiner, SelectPool, InsertReward, Commit, RollBack, rest
  <2>1. ASSUME NEW step, Move(c, step)
        PROVE  /\ signing'[c].pc = step /\ signing'[c].miner = signing[c].miner
               /\ \A d \in Callers \ {c} : signing'[d] = signing[d]
    BY <1>0, <2>1 DEF Move, Rows
  <2>2. CASE InsertMiner(c)
    <3>1. /\ \A d \in Callers \ {c} : Uncommitted(d) => signing[d].miner # signing[c].miner
          /\ UNCHANGED <<miners, rewards>>
          /\ At(c, "insert")
          /\ \/ Move(c, "error")
             \/ Move(c, "select") /\ signing[c].miner \notin miners
      BY <2>2 DEF InsertMiner
    <3>2. QED
      BY <1>0, <2>0, <2>1, <3>1 DEF SignupInv, Done
  <2>3. CASE SelectPool(c) \/ InsertReward(c) \/ RollBack(c)
    <3>1. /\ UNCHANGED <<miners, rewards>>
          /\ \/ Move(c, "error") /\ ~At(c, "ok") /\ ~At(c, "none")
             \/ Move(c, "reward") /\ At(c, "select")
             \/ Move(c, "commit") /\ At(c, "reward")
      BY <2>3 DEF SelectPool, InsertReward, RollBack
    <3>2. QED
      BY <1>0, <2>0, <2>1, <3>1 DEF SignupInv, Done
  <2>4. CASE Commit(c)
    <3>1. /\ At(c, "commit") /\ (Move(c, "ok") \/ Move(c, "error"))
          /\ miners' = miners \cup {signing[c].miner} /\ rewards' = rewards \cup {signing[c].miner}
      BY <2>4 DEF Commit
    <3>2. QED
      BY <1>0, <2>0, <2>1, <3>1 DEF SignupInv, Done
  <2>5. QED
    BY <1>6, <2>2, <2>3, <2>4 DEF SignupUserTransaction
<1>7. ASSUME NEW r \in Requests, SignupAnswered(r) PROVE SignupInv'
  <2>1. /\ request[r].pc = "sign" /\ UNCHANGED <<miners, rewards>>
        /\ request'[r].miner = request[r].miner
        /\ \/ At(r, "ok") /\ request'[r].pc = "SUCCESS"
           \/ request'[r].pc = "ERROR"
        /\ \A s \in Requests \ {r} : request'[s] = request[s]
    BY <1>0, <1>7 DEF SignupAnswered, Answer, Rows
  <2>2. /\ signing'[r].pc = "none"
        /\ \A d \in Callers \ {r} : signing'[d] = signing[d]
    BY <1>0, <1>7 DEF SignupAnswered, Rows, NotSigning
  <2>3. QED
    BY <1>0, <2>1, <2>2 DEF SignupInv, Done
<1>8. ASSUME NEW r \in Requests, NEW m \in Miners, Signup(r, m) PROVE SignupInv'
  <2>1. /\ request[r].pc = "none" /\ UNCHANGED <<miners, rewards>>
        /\ \A s \in Requests \ {r} : request'[s] = request[s]
        /\ \A d \in Callers \ {r} : signing'[d] = signing[d]
        /\ \/ /\ request'[r] = [pc |-> "EXISTS", miner |-> m] /\ m \in miners
              /\ signing'[r] = signing[r]
           \/ /\ request'[r] = [pc |-> "ERROR", miner |-> m]
              /\ signing'[r] = signing[r]
           \/ /\ request'[r] = [pc |-> "sign", miner |-> m]
              /\ signing'[r] = [pc |-> "insert", miner |-> m]
    BY <1>0, <1>8 DEF Signup, Rows
  <2>2. QED
    BY <1>0, <2>1 DEF SignupInv, Done
<1>9. QED
  BY <1>1, <1>4, <1>5, <1>6, <1>7, <1>8 DEF Next, vars, Restart, OrphanEnds

\* Whatever fails and however requests overlap, a miner has its rewards row,
\* whoever is told so is signed up, and one request of a miner is told that it
\* did it.
THEOREM MinersSignedUp == Spec => []SignedUp
<1>1. Init => SignupInv
  BY StartupConstants DEF Init, SignupInv, Done, At, Uncommitted, NotSigning, Callers
<1>2. SignupInv => SignedUp
  BY DEF SignupInv, SignedUp, Done
<1>3. QED
  BY <1>1, <1>2, SignupStep, TypeCorrect, PTL DEF Spec

-----------------------------------------------------------------------------
(* What serve() has seen to by the time it serves.                         *)

\* The steps from which each of them can be relied on.
InDatabase   == {"commission", "sign", "commission_again", "pool_again", "challenge",
                 "insert_challenge", "serving"}
WithAccounts == {"wallet", "original", "claim", "delegate", "pool", "insert_pool"} \cup InDatabase
WithStake    == {"token", "create_token"} \cup WithAccounts
WithProof    == {"stake", "create_stake"} \cup WithStake
Signed       == {"commission_again", "pool_again", "challenge", "insert_challenge", "serving"}

ReadyInv ==
    /\ pc \in WithProof => "proof" \in accounts
    /\ pc \in WithStake => "stake" \in accounts
    /\ pc \in WithAccounts => "token" \in accounts
    /\ pc \in InDatabase => pools > 0
    /\ pc \in Signed => Commission \in miners
    /\ pc = "serving" => challenge = TRUE

LEMMA ReadyStep ==
    ASSUME TypeOK, ReadyInv, SignupInv, [Next]_vars
    PROVE  ReadyInv'
<1> DEFINE Steps == InDatabase \cup WithAccounts \cup WithStake \cup WithProof \cup Signed
<1> USE DEF db, chain
<1>0. pools \in Nat
  BY DEF TypeOK
<1>1. ASSUME accounts \subseteq accounts', pools' \in {pools, pools + 1}, miners \subseteq miners',
             UNCHANGED <<pc, challenge>>
      PROVE  ReadyInv'
  BY <1>0, <1>1 DEF ReadyInv
<1>2. ASSUME accounts \subseteq accounts', pools' \in {pools, pools + 1}, miners \subseteq miners',
             pc' \in {"exit", "blockhash", "proof", "create_proof", "reload_proof"}
      PROVE  ReadyInv'
  BY <1>2 DEF ReadyInv, InDatabase, WithAccounts, WithStake, WithProof, Signed
<1>3. ASSUME NEW tx, NEW ok, SendAndConfirm(tx, ok, "exit")
      PROVE  /\ accounts \subseteq accounts'
             /\ \/ pc' = ok /\ accounts' = accounts \cup ({tx.kind} \cap Accounts)
                \/ pc' = "exit"
  BY <1>3, Zenon DEF SendAndConfirm, Execute, chain
<1>4. CASE GetBlockhash \/ ReloadProof \/ NoBlockhash
  <2>1. UNCHANGED <<accounts, pools, miners, challenge>>
    BY <1>4, Zenon DEF GetBlockhash, ReloadProof, NoBlockhash
  <2>2. \/ pc' \in {"exit", "blockhash", "proof", "reload_proof"}
        \/ pc' = "stake" /\ "proof" \in accounts
    BY <1>4 DEF GetBlockhash, ReloadProof, NoBlockhash, Goto, GiveUp
  <2>3. QED
    BY <1>2, <2>1, <2>2 DEF ReadyInv, InDatabase, WithAccounts, WithStake, WithProof, Signed
<1>5. CASE CheckAccount("proof", "stake") \/ CreateAccount("proof", "reload_proof")
  <2>1. /\ accounts \subseteq accounts' /\ UNCHANGED <<pools, miners, challenge>>
        /\ \/ pc' \in {"create_proof", "reload_proof", "exit"}
           \/ pc' = "stake" /\ "proof" \in accounts'
    BY <1>3, <1>5 DEF CheckAccount, CreateAccount, Goto, Creating, chain
  <2>2. QED
    BY <1>2, <2>1 DEF ReadyInv, InDatabase, WithAccounts, WithStake, WithProof, Signed
<1>6. CASE CheckAccount("stake", "token") \/ CreateAccount("stake", "token")
  <2>1. /\ accounts \subseteq accounts' /\ UNCHANGED <<pools, miners, challenge>>
        /\ pc \in {"stake", "create_stake"}
        /\ \/ pc' \in {"create_stake", "exit"}
           \/ pc' = "token" /\ "stake" \in accounts'
    <3>1. CASE CheckAccount("stake", "token")
      BY <3>1 DEF CheckAccount, Goto, Creating
    <3>2. CASE CreateAccount("stake", "token")
      <4> DEFINE tx == [kind |-> "stake", amount |-> 0, id |-> budget]
      <4>1. pc = "create_stake" /\ UNCHANGED <<pools, miners, challenge>> /\ SendAndConfirm(tx, "token", "exit")
        BY <3>2 DEF CreateAccount, Creating
      <4>2. "stake" \in {tx.kind} \cap Accounts
        BY DEF Accounts
      <4>3. QED
        BY <1>3, <4>1, <4>2
    <3>3. QED
      BY <1>6, <3>1, <3>2
  <2>2. QED
    BY <2>1 DEF ReadyInv, InDatabase, WithAccounts, WithStake, WithProof, Signed
<1>7. CASE CheckAccount("token", "wallet") \/ CreateAccount("token", "wallet")
  <2>1. /\ accounts \subseteq accounts' /\ UNCHANGED <<pools, miners, challenge>>
        /\ pc \in {"token", "create_token"}
        /\ \/ pc' \in {"create_token", "exit"}
           \/ pc' = "wallet" /\ "token" \in accounts'
    <3>1. CASE CheckAccount("token", "wallet")
      BY <3>1 DEF CheckAccount, Goto, Creating
    <3>2. CASE CreateAccount("token", "wallet")
      <4> DEFINE tx == [kind |-> "token", amount |-> 0, id |-> budget]
      <4>1. pc = "create_token" /\ UNCHANGED <<pools, miners, challenge>> /\ SendAndConfirm(tx, "wallet", "exit")
        BY <3>2 DEF CreateAccount, Creating
      <4>2. "token" \in {tx.kind} \cap Accounts
        BY DEF Accounts
      <4>3. QED
        BY <1>3, <4>1, <4>2
    <3>3. QED
      BY <1>7, <3>1, <3>2
  <2>2. QED
    BY <2>1 DEF ReadyInv, InDatabase, WithAccounts, WithStake, WithProof, Signed
<1>8. CASE ReadWallet \/ ReadOriginal \/ ClaimOriginal \/ DelegateStake
  <2>1. /\ UNCHANGED <<pools, miners, challenge>>
        /\ pc \in {"wallet", "original", "claim", "delegate"}
    BY <1>8, Zenon DEF ReadWallet, ReadOriginal, ClaimOriginal, DelegateStake
  <2>2. accounts \subseteq accounts' /\ pc' \in {"original", "claim", "delegate", "pool", "exit"}
    BY <1>3, <1>8, Zenon DEF ReadWallet, ReadOriginal, ClaimOriginal, DelegateStake, Goto, GiveUp, chain
  <2>3. QED
    BY <2>1, <2>2 DEF ReadyInv, InDatabase, WithAccounts, WithStake, WithProof, Signed
<1>9. CASE LookupPool \/ AddNewPool
  <2>1. /\ UNCHANGED <<accounts, miners, challenge>>
        /\ pc \in {"pool", "insert_pool"}
        /\ \/ pc' \in {"exit", "insert_pool"}
           \/ pc' = "commission" /\ pools' > 0
    BY <1>0, <1>9 DEF LookupPool, AddNewPool, Goto, GiveUp
  <2>2. QED
    BY <2>1 DEF ReadyInv, InDatabase, WithAccounts, WithStake, WithProof, Signed
<1>10. CASE LookupCommission \/ CommissionSigned \/ LookupAgain
  <2>1. /\ UNCHANGED <<accounts, pools, miners, challenge>>
        /\ pc \in {"commission", "sign", "commission_again", "pool_again"}
        /\ \/ pc' \in {"exit", "sign"}
           \/ pc' \in {"commission_again", "pool_again"} /\ Commission \in miners
           \/ pc' \in {"pool_again", "challenge"} /\ pc \in Signed
    <3>1. "serve" \in Callers
      BY DEF Callers
    <3>2. CommissionSigned => (pc' = "commission_again" => Commission \in miners)
      BY <3>1 DEF CommissionSigned, SignupInv, At, Goto
    <3>3. QED
      BY <1>10, <3>2 DEF LookupCommission, CommissionSigned, LookupAgain, Goto, GiveUp, Signed
  <2>2. QED
    BY <2>1 DEF ReadyInv, InDatabase, WithAccounts, WithStake, WithProof, Signed
<1>11. CASE LookupChallenge \/ AddNewChallenge
  <2>1. /\ UNCHANGED <<accounts, pools, miners>>
        /\ pc \in {"challenge", "insert_challenge"}
        /\ \/ pc' \in {"exit", "insert_challenge"}
           \/ pc' = "serving" /\ challenge' = TRUE
    <3>1. challenge \in BOOLEAN
      BY Zenon DEF TypeOK
    <3>2. QED
      BY <1>11, <3>1, Zenon DEF LookupChallenge, AddNewChallenge, Goto, GiveUp
  <2>2. QED
    BY <2>1 DEF ReadyInv, InDatabase, WithAccounts, WithStake, WithProof, Signed
<1>12. CASE Serve
  BY <1>4, <1>5, <1>6, <1>7, <1>8, <1>9, <1>10, <1>11, <1>12, Zenon DEF Serve
<1>13. CASE Crash \/ Restart
  BY <1>2, <1>13 DEF Crash, Restart, GiveUp
<1>14. ASSUME NEW tx \in orphans, OrphanEnds(tx) PROVE ReadyInv'
  BY <1>1, <1>14 DEF OrphanEnds, Execute
<1>15. ASSUME NEW c \in Callers, SignupUserTransaction(c) PROVE ReadyInv'
  BY <1>1, <1>15
     DEF SignupUserTransaction, InsertMiner, SelectPool, InsertReward, Commit, RollBack, rest
<1>16. ASSUME NEW r \in Requests, SignupAnswered(r) \/ \E m \in Miners : Signup(r, m) PROVE ReadyInv'
  BY <1>1, <1>16 DEF SignupAnswered, Signup
<1>17. QED
  BY <1>1, <1>12, <1>13, <1>14, <1>15, <1>16 DEF Next, vars

\* A server that serves has all it works with, whichever checks failed or were
\* taken for something else, in this start or an earlier one.
THEOREM ServesWhenReady == Spec => []ServingReady
<1>1. Init => SignupInv /\ ReadyInv
  BY StartupConstants
     DEF Init, SignupInv, Done, At, Uncommitted, NotSigning, Callers,
         ReadyInv, InDatabase, WithAccounts, WithStake, WithProof, Signed
<1>2. TypeOK /\ SignupInv /\ ReadyInv => ServingReady
  <2> SUFFICES ASSUME TypeOK, SignupInv, ReadyInv, pc = "serving"
               PROVE  /\ accounts = Accounts /\ pools > 0 /\ challenge
                      /\ Commission \in miners \cap rewards
    BY DEF ServingReady
  <2>1. /\ "proof" \in accounts /\ "stake" \in accounts /\ "token" \in accounts
        /\ pools > 0 /\ Commission \in miners
    BY DEF ReadyInv, InDatabase, WithAccounts, WithStake, WithProof, Signed
  <2>2. accounts = Accounts
    BY <2>1 DEF TypeOK, Accounts
  <2>3. challenge
    BY Zenon DEF ReadyInv
  <2>4. QED
    BY <2>1, <2>2, <2>3 DEF SignupInv
<1>3. QED
  BY <1>1, <1>2, SignupStep, ReadyStep, TypeCorrect, PTL DEF Spec

-----------------------------------------------------------------------------
(* The migration.                                                          *)

\* No transaction of an earlier start is about while this one migrates, if none
\* was when it read the wallet; so what it read is what there is.
Settled ==
    /\ pc \in {"original", "claim", "delegate", "pool", "insert_pool"} \cup InDatabase => orphans = {}
    /\ pc \in {"original", "claim"} => token_balance \in {wallet, wallet - 1}
    /\ pc = "claim" => original_balance = original
    /\ pc = "delegate" => original = 0 /\ original_balance + token_balance \in {wallet, wallet - 1}
    /\ pc \in {"pool", "insert_pool"} \cup InDatabase => (migrate => original = 0 /\ wallet <= 1)

MigrationInv == unsettled = TRUE \/ Settled

LEMMA MigrationStep ==
    ASSUME TypeOK, MigrationInv, [Next]_vars
    PROVE  MigrationInv'
<1> DEFINE Later == {"original", "claim", "delegate", "pool", "insert_pool"} \cup InDatabase
<1> USE DEF db, chain, locals, history
<1>0. /\ original \in Nat /\ wallet \in Nat /\ token_balance \in Nat /\ original_balance \in Nat
  BY DEF TypeOK
<1>1. ASSUME unsettled' = unsettled, Settled => Settled' PROVE MigrationInv'
  BY <1>1, Zenon DEF MigrationInv
<1>2. ASSUME pc' \notin Later PROVE MigrationInv'
  <2>1. Settled'
    BY <1>2 DEF Settled
  <2>2. QED
    BY <2>1, Zenon DEF MigrationInv
<1>3. ASSUME UNCHANGED <<original, wallet, orphans, token_balance, original_balance, migrate, unsettled>>,
             \/ UNCHANGED pc
             \/ /\ pc' \in {"pool", "insert_pool"} \cup InDatabase
                /\ pc \in {"pool", "insert_pool"} \cup InDatabase
      PROVE  MigrationInv'
  BY <1>1, <1>3 DEF Settled, InDatabase
<1>3a. ASSUME UNCHANGED <<pc, chain, locals, migrate, history>> PROVE MigrationInv'
  <2>1. /\ UNCHANGED original /\ UNCHANGED wallet /\ UNCHANGED orphans
        /\ UNCHANGED token_balance /\ UNCHANGED original_balance
    BY <1>3a, Zenon DEF chain, locals
  <2>2. UNCHANGED pc /\ UNCHANGED migrate /\ UNCHANGED unsettled
    BY <1>3a, Zenon DEF history
  <2>3. Settled => Settled'
    BY <2>1, <2>2 DEF Settled
  <2>4. QED
    BY <1>1, <2>2, <2>3
<1>4. CASE ReadWallet
  <2>1. CASE pc' = "exit"
    BY <1>2, <2>1 DEF InDatabase
  <2>2. CASE /\ token_balance' \in AsU64(wallet) /\ unsettled' = (orphans # {})
             /\ Goto(IF migrate THEN "original" ELSE "pool")
             /\ UNCHANGED <<original, wallet, orphans, migrate>>
    <3>1. token_balance' \in {wallet, wallet - 1}
      BY <2>2 DEF AsU64
    <3>2. CASE orphans # {}
      BY <2>2, <3>2, Zenon DEF MigrationInv
    <3>3. CASE orphans = {} /\ migrate
      <4>1. pc' = "original" /\ orphans' = {} /\ wallet' = wallet
        BY <2>2, <3>3, Zenon DEF Goto
      <4>2. Settled'
        BY <3>1, <4>1 DEF Settled, InDatabase
      <4>3. QED
        BY <4>2, Zenon DEF MigrationInv
    <3>4. CASE orphans = {} /\ ~migrate
      <4>1. ~migrate'
        BY <2>2, <3>4, Zenon
      <4>2. pc' = "pool" /\ orphans' = {}
        BY <2>2, <3>4, Zenon DEF Goto
      <4>3. /\ pc' \in {"pool", "insert_pool"} \cup InDatabase
            /\ pc' \notin {"original", "claim"} /\ pc' # "claim" /\ pc' # "delegate"
        BY <4>2 DEF InDatabase
      <4>4. Settled'
        BY <4>1, <4>2, <4>3 DEF Settled
      <4>5. QED
        BY <4>4, Zenon DEF MigrationInv
    <3>5. QED
      BY <3>2, <3>3, <3>4
  <2>3. QED
    BY <1>4, <2>1, <2>2, Zenon DEF ReadWallet, GiveUp
<1>5. CASE ReadOriginal
  <2>1. /\ pc = "original"
        /\ UNCHANGED <<original, wallet, orphans, token_balance, migrate, unsettled>>
        /\ \/ pc' = "exit"
           \/ pc' = "claim" /\ original_balance' = original
           \/ pc' = "pool" /\ ~(original > 0 \/ token_balance > 0)
    BY <1>5, Zenon DEF ReadOriginal, Goto, GiveUp
  <2>2. Settled => Settled'
    BY <1>0, <2>1 DEF Settled, InDatabase
  <2>3. QED
    BY <1>1, <2>1, <2>2
<1>6. ASSUME NEW tx, NEW ok, SendAndConfirm(tx, ok, "exit"), ok \in Later
      PROVE  (pc' = ok /\ Execute(tx) /\ UNCHANGED orphans) \/ pc' = "exit"
  BY <1>6, Zenon DEF SendAndConfirm
<1>7. CASE ClaimOriginal
  <2> DEFINE tx == [kind |-> "claim", amount |-> original_balance, id |-> budget]
  <2>1. /\ pc = "claim" /\ (pc' = "exit" \/ SendAndConfirm(tx, "delegate", "exit"))
        /\ UNCHANGED <<token_balance, original_balance, migrate, unsettled>>
    BY <1>7, Zenon DEF ClaimOriginal, GiveUp
  <2>2. CASE pc' = "exit"
    BY <1>2, <2>2 DEF InDatabase
  <2>3. CASE pc' = "delegate" /\ UNCHANGED orphans /\ Execute(tx)
    <3>1. original' = original - original_balance /\ wallet' = wallet + original_balance
      BY <2>3 DEF Execute
    <3>2. Settled => Settled'
      BY <1>0, <2>1, <2>3, <3>1 DEF Settled, InDatabase
    <3>3. QED
      BY <1>1, <2>1, <3>2
  <2>4. QED
    BY <1>6, <2>1, <2>2, <2>3
<1>8. CASE DelegateStake
  <2> DEFINE tx == [kind |-> "delegate", amount |-> original_balance + token_balance, id |-> budget]
  <2>1. /\ pc = "delegate" /\ (pc' = "exit" \/ SendAndConfirm(tx, "pool", "exit"))
        /\ UNCHANGED <<token_balance, original_balance, migrate, unsettled>>
    BY <1>8, Zenon DEF DelegateStake, GiveUp
  <2>2. CASE pc' = "exit"
    BY <1>2, <2>2 DEF InDatabase
  <2>3. CASE pc' = "pool" /\ UNCHANGED orphans /\ Execute(tx)
    <3>1. original' = original /\ wallet' = wallet - (original_balance + token_balance)
      BY <2>3 DEF Execute
    <3>2. Settled => Settled'
      BY <1>0, <2>1, <2>3, <3>1 DEF Settled, InDatabase
    <3>3. QED
      BY <1>1, <2>1, <3>2
  <2>4. QED
    BY <1>6, <2>1, <2>2, <2>3
<1>9. CASE GetBlockhash \/ ReloadProof \/ NoBlockhash
  <2>1. pc' \in {"blockhash", "proof", "stake", "reload_proof", "exit"}
    BY <1>9 DEF GetBlockhash, ReloadProof, NoBlockhash, Goto, GiveUp
  <2>2. QED
    BY <1>2, <2>1 DEF InDatabase
<1>10. ASSUME NEW k \in Accounts, NEW step \in {"stake", "reload_proof", "token", "wallet"},
              CheckAccount(k, step) \/ CreateAccount(k, step)
       PROVE  MigrationInv'
  <2>1. Creating.proof \notin Later /\ Creating.stake \notin Later /\ Creating.token \notin Later
    BY DEF Creating, InDatabase
  <2>2. Creating[k] \notin Later
    BY <2>1 DEF Accounts
  <2>3. pc' \in {step, Creating[k], "exit"}
    BY <1>10, Zenon DEF CheckAccount, CreateAccount, SendAndConfirm, Goto
  <2>4. pc' \notin Later
    BY <2>2, <2>3 DEF InDatabase
  <2>5. QED
    BY <1>2, <2>4
<1>11. CASE LookupPool \/ AddNewPool
  <2>1. /\ pc \in {"pool", "insert_pool"} /\ pc' \in {"exit", "insert_pool", "commission"}
        /\ UNCHANGED <<original, wallet, orphans, token_balance, original_balance, migrate, unsettled>>
    BY <1>11, Zenon DEF LookupPool, AddNewPool, Goto, GiveUp
  <2>2. QED
    BY <1>2, <1>3, <2>1 DEF InDatabase
<1>12. CASE LookupCommission \/ CommissionSigned \/ LookupAgain
  <2>1. /\ pc \in InDatabase /\ pc' \in {"exit", "sign", "commission_again", "pool_again", "challenge"}
        /\ UNCHANGED <<original, wallet, orphans, token_balance, original_balance, migrate, unsettled>>
    BY <1>12 DEF LookupCommission, CommissionSigned, LookupAgain, Goto, GiveUp, InDatabase
  <2>2. QED
    BY <1>2, <1>3, <2>1 DEF InDatabase
<1>13. CASE LookupChallenge \/ AddNewChallenge
  <2>1. /\ pc \in InDatabase /\ pc' \in {"exit", "insert_challenge", "serving"}
        /\ UNCHANGED <<original, wallet, orphans, token_balance, original_balance, migrate, unsettled>>
    BY <1>13 DEF LookupChallenge, AddNewChallenge, Goto, GiveUp, InDatabase
  <2>2. QED
    BY <1>2, <1>3, <2>1 DEF InDatabase
<1>14. "proof" \in Accounts /\ "stake" \in Accounts /\ "token" \in Accounts
  BY DEF Accounts
<1>15. CASE Serve
  BY <1>4, <1>5, <1>7, <1>8, <1>9, <1>10, <1>11, <1>12, <1>13, <1>14, <1>15 DEF Serve
<1>16. CASE Crash \/ Restart
  BY <1>2, <1>16 DEF Crash, Restart, GiveUp, InDatabase
<1>17. ASSUME NEW tx \in orphans, OrphanEnds(tx) PROVE MigrationInv'
  <2>1. orphans # {} /\ UNCHANGED <<pc, unsettled>>
    BY <1>17 DEF OrphanEnds
  <2>2. Settled => pc \notin Later
    BY <2>1 DEF Settled
  <2>3. QED
    BY <1>1, <2>1, <2>2 DEF Settled
<1>18. ASSUME NEW c \in Callers, SignupUserTransaction(c) PROVE MigrationInv'
  <2>1. UNCHANGED rest
    BY <1>18, Zenon
       DEF SignupUserTransaction, InsertMiner, SelectPool, InsertReward, Commit, RollBack, rest
  <2>2. QED
    BY <1>3a, <2>1, Zenon DEF rest
<1>19. ASSUME NEW r \in Requests, SignupAnswered(r) \/ \E m \in Miners : Signup(r, m) PROVE MigrationInv'
  <2>1. UNCHANGED <<pc, chain, locals, migrate, history>>
    BY <1>19, Zenon DEF SignupAnswered, Signup
  <2>2. QED
    BY <1>3a, <2>1
<1>20. CASE UNCHANGED vars
  BY <1>3a, <1>20, Zenon DEF vars
<1>21. QED
  BY <1>20, <1>15, <1>16, <1>17, <1>18, <1>19 DEF Next

\* After a start with --migrate that found no transaction of an earlier one
\* about, nothing is left in the old proof account, and in the wallet at most
\* the unit the conversion loses, however many starts gave up half way before.
THEOREM FundsMigrated == Spec => []Migrated
<1>1. Init => MigrationInv
  BY DEF Init, MigrationInv, Settled, InDatabase
<1>2. MigrationInv => Migrated
  <2>1. Settled /\ pc = "serving" => (migrate => original = 0 /\ wallet <= 1)
    BY DEF Settled, InDatabase
  <2>2. QED
    BY <2>1, Zenon DEF MigrationInv, Migrated
<1>3. QED
  BY <1>1, <1>2, MigrationStep, TypeCorrect, PTL DEF Spec
=============================================================================
