---------------------------- MODULE MiningRound ----------------------------
(***************************************************************************)
(* One mining round after the other: miners hand in solutions for the      *)
(* pool's challenge (client_submissions_handler), the main loop of         *)
(* pool_submission_system closes the submission window, sends the best     *)
(* solution to the chain and rewards the round, and three tasks move the   *)
(* server on to the next challenge: the main loop itself, the task that    *)
(* resends the transaction, and the websocket in proof_tracking_system.    *)
(*                                                                         *)
(* A challenge is its number; the chain moves from c to c + 1 when a       *)
(* solution for c lands.  A solution is the challenge it is for and its    *)
(* difficulty.  The nonce ranges have no part here: a solution outside its *)
(* miner's range is one that is never looked at.                           *)
(***************************************************************************)
EXTENDS Integers, Sequences

CONSTANTS
    Miners,       \* pubkeys of connected miners
    Diffs,        \* difficulties of solutions, MIN_DIFF and up
    Resenders,    \* bound: resending tasks alive at the same time
    MaxAttempts,  \* attempts to land a solution (10 in the code)
    MaxChallenge, \* bound: the last challenge
    Faults        \* what may go wrong, a subset of FaultKinds

FaultKinds ==
    { "rpc",         \* RPC requests fail or lose their answer
      "late_notice", \* the websocket delivers an update of the proof account
                     \* (its balance changed) after the challenge moved on
      "crash" }      \* the server restarts

ASSUME RoundConstants ==
    /\ Miners # {}
    /\ Diffs \subseteq Nat \ {0}
    /\ MaxAttempts \in Nat \ {0}
    /\ MaxChallenge \in Nat \ {0}
    /\ Faults \subseteq FaultKinds

VARIABLES
    \* memory of the server
    proof,          \* app_proof: the challenge miners are given
    lastChallenge,  \* app_last_challenge, 0 at the start
    epochChallenge, \* EpochHashes.challenge
    best,           \* EpochHashes.best_hash
    submissions,    \* EpochHashes.submissions
    closed,         \* SubmissionWindow.closed
    handler,        \* client_submissions_handler at work on a message
    main,           \* the loop of pool_submission_system
    resender,       \* the tasks that resend a transaction
    rewarding,      \* the reward tasks: landed rounds not announced yet
    tracker,        \* proof_tracking_system: the challenge it is about to store, or 0
    \* the database and the outside
    challenges,     \* rows of the challenges table
    chain,          \* the challenge of the pool's proof on chain
    tx,             \* the mine transaction last sent
    orphans,        \* challenges of transactions on their way nobody waits for
    notices,        \* updates on their way through the websocket
    \* history
    rewarded,       \* how often a reward task was started for a challenge
    setBack         \* the challenge during which a resending task of an earlier
                    \* round last reset the epoch to its own, or 0

epoch   == <<epochChallenge, best, submissions>>
outside == <<chain, tx, orphans, notices>>
vars    == <<proof, lastChallenge, epoch, closed, handler, main, resender, rewarding,
             tracker, challenges, outside, rewarded, setBack>>

-----------------------------------------------------------------------------
Challenges == 1 .. MaxChallenge + 1

Solution   == [ch : Challenges, diff : Diffs]
None       == [ch |-> 0, diff |-> 0]
NoSubmissions == [m \in Miners |-> None]

NoMessage  == [pc |-> "idle", miner |-> CHOOSE m \in Miners : TRUE, sol |-> None, old |-> 0]
Waiting    == [pc |-> "wait", old |-> 0, best |-> None, snapshot |-> NoSubmissions,
               attempt |-> 0, latest |-> 0]
NoResender == [pc |-> "idle", old |-> 0, latest |-> 0, stopped |-> FALSE]
NoTx       == [st |-> "none", ch |-> 0]

HandlerPCs  == {"idle", "validate", "clone", "write"}
MainPCs     == {"wait", "due", "close", "snapshot", "attempt", "send", "confirm",
                "refresh", "rpc_epoch", "rpc_open", "rpc_db", "compare", "ws_epoch",
                "ws_open", "ws_db", "drop_epoch", "drop_open"}
ResenderPCs == {"idle", "loop", "check", "rpc_last", "rpc_epoch", "rpc_open", "rpc_db",
                "ws_last", "ws_db", "ws_epoch", "ws_open"}

Maybe     == Solution \cup {None}
Handling  == [pc : HandlerPCs, miner : Miners, sol : Maybe, old : Diffs \cup {0}]
Looping   == [pc : MainPCs, old : Challenges \cup {0}, best : Maybe,
              snapshot : [Miners -> Maybe], attempt : 0 .. MaxAttempts - 1,
              latest : Challenges \cup {0}]
Resending == [pc : ResenderPCs, old : Challenges \cup {0}, latest : Challenges \cup {0},
              stopped : BOOLEAN]
Tx        == [st : {"inflight", "landed", "reverted", "expired"}, ch : Challenges] \cup {NoTx}

TypeOK ==
    /\ proof \in Challenges
    /\ lastChallenge \in Challenges \cup {0}
    /\ epochChallenge \in Challenges
    /\ best \in Maybe
    /\ submissions \in [Miners -> Maybe]
    /\ closed \in BOOLEAN
    /\ handler \in Handling
    /\ main \in Looping
    /\ resender \in [Resenders -> Resending]
    /\ rewarding \subseteq Challenges
    /\ tracker \in Challenges \cup {0}
    /\ challenges \subseteq Challenges
    /\ chain \in Challenges
    /\ tx \in Tx
    /\ orphans \subseteq Challenges
    /\ notices \in Seq(Challenges)
    /\ rewarded \in [Challenges -> Nat]
    /\ setBack \in Challenges \cup {0}

\* main.rs inserts the challenge it starts with.
Init ==
    /\ proof = 1
    /\ lastChallenge = 0
    /\ epochChallenge = 1
    /\ best = None
    /\ submissions = NoSubmissions
    /\ closed = FALSE
    /\ handler = NoMessage
    /\ main = Waiting
    /\ resender = [s \in Resenders |-> NoResender]
    /\ rewarding = {}
    /\ tracker = 0
    /\ challenges = {1}
    /\ chain = 1
    /\ tx = NoTx
    /\ orphans = {}
    /\ notices = <<>>
    /\ rewarded = [c \in Challenges |-> 0]
    /\ setBack = 0

-----------------------------------------------------------------------------
(* client_submissions_handler: one message after the other, but every      *)
(* shared value is read under a lock of its own and written later.         *)

\* A solution arrives while the window is open.  Its miner may take any
\* challenge from the chain; MIN_DIFF, range and socket are in order.
TakeMessage(m, sol) ==
    /\ handler.pc = "idle"
    /\ ~closed
    /\ sol.ch <= chain
    /\ handler' = [pc |-> "validate", miner |-> m, sol |-> sol, old |-> 0]
    /\ UNCHANGED <<proof, lastChallenge, epoch, closed, main, resender, rewarding,
                   tracker, challenges, outside, rewarded, setBack>>

\* solution.is_valid(&proof.challenge)
Validate ==
    /\ handler.pc = "validate"
    /\ handler' = IF handler.sol.ch = proof THEN [handler EXCEPT !.pc = "clone"] ELSE NoMessage
    /\ UNCHANGED <<proof, lastChallenge, epoch, closed, main, resender, rewarding,
                   tracker, challenges, outside, rewarded, setBack>>

\* submissions.clone(): a miner's second solution must beat the first.
CloneSubmissions ==
    /\ handler.pc = "clone"
    /\ LET old == submissions[handler.miner] IN
       handler' = IF old = None \/ handler.sol.diff > old.diff
                  THEN [handler EXCEPT !.pc = "write", !.old = old.diff] ELSE NoMessage
    /\ UNCHANGED <<proof, lastChallenge, epoch, closed, main, resender, rewarding,
                   tracker, challenges, outside, rewarded, setBack>>

\* Seeded fault: the last solution counts as the best one.
InsertSubmissionUnordered ==
    /\ handler.pc = "write"
    /\ submissions' = [submissions EXCEPT ![handler.miner] = handler.sol]
    /\ best' = handler.sol
    /\ handler' = NoMessage
    /\ UNCHANGED <<proof, lastChallenge, epochChallenge, closed, main, resender, rewarding,
                   tracker, challenges, outside, rewarded, setBack>>

InsertSubmission ==
    /\ handler.pc = "write"
    /\ submissions' = [submissions EXCEPT ![handler.miner] = handler.sol]
    /\ best' = IF handler.sol.diff > best.diff THEN handler.sol ELSE best
    /\ handler' = NoMessage
    /\ UNCHANGED <<proof, lastChallenge, epochChallenge, closed, main, resender, rewarding,
                   tracker, challenges, outside, rewarded, setBack>>

-----------------------------------------------------------------------------
(* What the tasks that move on to the next challenge share.                *)

MainGoto(pc)       == main' = [main EXCEPT !.pc = pc]
ResenderGoto(s, pc) == resender' = [resender EXCEPT ![s].pc = pc]
ResenderEnds(s)    == resender' = [resender EXCEPT ![s] = NoResender]

\* The write to EpochHashes under one lock.
ResetEpoch(c) ==
    /\ epochChallenge' = c
    /\ best' = None
    /\ submissions' = NoSubmissions

-----------------------------------------------------------------------------
(* pool_submission_system, the main loop                                   *)

\* get_cutoff reaches zero 57 seconds after the last hash: at any time.
ReadProof ==
    /\ main.pc = "wait"
    /\ main' = [main EXCEPT !.pc = "due", !.old = proof]
    /\ UNCHANGED <<proof, lastChallenge, epoch, closed, handler, resender, rewarding,
                   tracker, challenges, outside, rewarded, setBack>>

CheckSolution ==
    /\ main.pc = "due"
    /\ main' = IF best # None THEN [main EXCEPT !.pc = "close"] ELSE Waiting
    /\ UNCHANGED <<proof, lastChallenge, epoch, closed, handler, resender, rewarding,
                   tracker, challenges, outside, rewarded, setBack>>

CloseWindow ==
    /\ main.pc = "close"
    /\ closed' = TRUE
    /\ MainGoto("snapshot")
    /\ UNCHANGED <<proof, lastChallenge, epoch, handler, resender, rewarding,
                   tracker, challenges, outside, rewarded, setBack>>

\* Seeded fault: the check made before closing the window is relied on.
TakeSnapshotUnchecked ==
    /\ main.pc = "snapshot"
    /\ main' = [main EXCEPT !.pc = "attempt", !.best = best, !.snapshot = submissions]
    /\ UNCHANGED <<proof, lastChallenge, epoch, closed, handler, resender, rewarding,
                   tracker, challenges, outside, rewarded, setBack>>

\* Best solution and submissions are read under one lock.  Without a
\* solution (reset meanwhile) all attempts come to nothing.
TakeSnapshot ==
    /\ main.pc = "snapshot"
    /\ main' = [main EXCEPT !.pc = IF best = None THEN "drop_epoch" ELSE "attempt",
                            !.best = best, !.snapshot = submissions]
    /\ UNCHANGED <<proof, lastChallenge, epoch, closed, handler, resender, rewarding,
                   tracker, challenges, outside, rewarded, setBack>>

\* The latest proof is fetched; a solution it does not accept ends the round.
CheckStillValid ==
    /\ main.pc = "attempt"
    /\ \/ /\ main.best.ch # chain
          /\ proof' = chain
          /\ MainGoto("drop_epoch")
       \/ /\ main.best.ch = chain \/ "rpc" \in Faults
          /\ MainGoto("send")
          /\ UNCHANGED proof
    /\ UNCHANGED <<lastChallenge, epoch, closed, handler, resender, rewarding,
                   tracker, challenges, outside, rewarded, setBack>>

\* Seeded fault: one attempt too many.
NextAttemptOffByOne ==
    main' = IF main.attempt < MaxAttempts
            THEN [main EXCEPT !.pc = "attempt", !.attempt = @ + 1]
            ELSE [main EXCEPT !.pc = "drop_epoch"]

NextAttempt ==
    main' = IF main.attempt + 1 < MaxAttempts
            THEN [main EXCEPT !.pc = "attempt", !.attempt = @ + 1]
            ELSE [main EXCEPT !.pc = "drop_epoch"]

\* No blockhash: next attempt.
BlockhashFails ==
    /\ main.pc = "send"
    /\ "rpc" \in Faults
    /\ NextAttempt
    /\ UNCHANGED <<proof, lastChallenge, epoch, closed, handler, resender, rewarding,
                   tracker, challenges, outside, rewarded, setBack>>

\* The simulation answers Invalid Hash, or the transaction cannot be sent: the
\* round is given up.  A send whose answer was lost is on its way all the same.
\* Invalid Hash is looked for at two places in the transaction; where the mine
\* instruction is depends on the tip and on the reset put before it.
SendFails ==
    /\ main.pc = "send"
    /\ \/ main.best.ch # chain /\ UNCHANGED orphans
       \/ /\ "rpc" \in Faults
          /\ orphans' \in {orphans, orphans \cup {main.best.ch}}
    /\ MainGoto("drop_epoch")
    /\ UNCHANGED <<proof, lastChallenge, epoch, closed, handler, resender, rewarding,
                   tracker, challenges, chain, tx, notices, rewarded, setBack>>

\* The transaction is sent, also if the simulation failed or found an error it
\* does not look for, and a task spawned that resends it.
SendTx ==
    /\ main.pc = "send"
    /\ \E s \in Resenders :
          /\ resender[s].pc = "idle"
          /\ resender' = [resender EXCEPT ![s] = [pc |-> "loop", old |-> main.old,
                                                  latest |-> 0, stopped |-> FALSE]]
    /\ tx' = [st |-> "inflight", ch |-> main.best.ch]
    /\ MainGoto("confirm")
    /\ UNCHANGED <<proof, lastChallenge, epoch, closed, handler, rewarding,
                   tracker, challenges, chain, orphans, notices, rewarded, setBack>>

\* oneshot: the resender of this attempt is told to stop, if it still runs.
StopResender ==
    resender' = [s \in Resenders |->
                   IF resender[s].pc # "idle" THEN [resender[s] EXCEPT !.stopped = TRUE]
                                              ELSE resender[s]]

\* Seeded fault: the round is booked under the challenge of the current proof.
ConfirmOkCurrentProof ==
    /\ main.pc = "confirm"
    /\ tx.st = "landed"
    /\ StopResender
    /\ rewarding' = rewarding \cup {proof}
    /\ rewarded' = [rewarded EXCEPT ![proof] = @ + 1]
    /\ MainGoto("refresh")
    /\ UNCHANGED <<proof, lastChallenge, epoch, closed, handler, tracker, challenges, outside, setBack>>

\* Seeded fault: the error in the status is not looked at.
ConfirmOkWithError ==
    /\ main.pc = "confirm"
    /\ tx.st \in {"landed", "reverted"}
    /\ StopResender
    /\ rewarding' = rewarding \cup {main.old}
    /\ rewarded' = [rewarded EXCEPT ![main.old] = @ + 1]
    /\ MainGoto("refresh")
    /\ UNCHANGED <<proof, lastChallenge, epoch, closed, handler, tracker, challenges, outside, setBack>>

\* Finalized without an error: the round is rewarded by a task of its own.
ConfirmOk ==
    /\ main.pc = "confirm"
    /\ tx.st = "landed"
    /\ StopResender
    /\ rewarding' = rewarding \cup {main.old}
    /\ rewarded' = [rewarded EXCEPT ![main.old] = @ + 1]
    /\ MainGoto("refresh")
    /\ UNCHANGED <<proof, lastChallenge, epoch, closed, handler, tracker, challenges, outside, setBack>>

\* Finalized with an error, or no finalized status for 200 seconds.
ConfirmFails ==
    /\ main.pc = "confirm"
    /\ \/ tx.st \in {"reverted", "expired"}
       \/ tx.st = "landed" /\ "rpc" \in Faults
    /\ StopResender
    /\ NextAttempt
    /\ UNCHANGED <<proof, lastChallenge, epoch, closed, handler, rewarding,
                   tracker, challenges, outside, rewarded, setBack>>

\* After a success: until the proof has moved, ask for it.  The answer is
\* stored at once; lastChallenge is not.
RefreshFromRpc ==
    /\ main.pc = "refresh"
    /\ proof = main.old
    /\ chain # main.old
    /\ proof' = chain
    /\ main' = [main EXCEPT !.pc = "rpc_epoch", !.latest = chain]
    /\ UNCHANGED <<lastChallenge, epoch, closed, handler, resender, rewarding,
                   tracker, challenges, outside, rewarded, setBack>>

RefreshSeesUpdate ==
    /\ main.pc = "refresh"
    /\ proof # main.old
    /\ main' = [main EXCEPT !.pc = "compare", !.latest = proof]
    /\ UNCHANGED <<proof, lastChallenge, epoch, closed, handler, resender, rewarding,
                   tracker, challenges, outside, rewarded, setBack>>

\* Seeded fault: who moved the proof is taken to have reset the epoch as well.
CompareEpochTrusting ==
    /\ main.pc = "compare"
    /\ main' = Waiting
    /\ UNCHANGED <<proof, lastChallenge, epoch, closed, handler, resender, rewarding,
                   tracker, challenges, outside, rewarded, setBack>>

CompareEpoch ==
    /\ main.pc = "compare"
    /\ main' = IF main.latest = epochChallenge THEN Waiting ELSE [main EXCEPT !.pc = "ws_epoch"]
    /\ UNCHANGED <<proof, lastChallenge, epoch, closed, handler, resender, rewarding,
                   tracker, challenges, outside, rewarded, setBack>>

MainResetsEpoch ==
    /\ main.pc \in {"rpc_epoch", "ws_epoch"}
    /\ ResetEpoch(main.latest)
    /\ MainGoto(IF main.pc = "rpc_epoch" THEN "rpc_open" ELSE "ws_open")
    /\ UNCHANGED <<proof, lastChallenge, closed, handler, resender, rewarding,
                   tracker, challenges, outside, rewarded, setBack>>

\* Seeded fault: opening the window is left to the resending task.
MainLeavesWindow ==
    /\ main.pc \in {"rpc_open", "ws_open"}
    /\ MainGoto(IF main.pc = "rpc_open" THEN "rpc_db" ELSE "ws_db")
    /\ UNCHANGED <<proof, lastChallenge, epoch, closed, handler, resender, rewarding,
                   tracker, challenges, outside, rewarded, setBack>>

MainOpensWindow ==
    /\ main.pc \in {"rpc_open", "ws_open"}
    /\ closed' = FALSE
    /\ MainGoto(IF main.pc = "rpc_open" THEN "rpc_db" ELSE "ws_db")
    /\ UNCHANGED <<proof, lastChallenge, epoch, handler, resender, rewarding,
                   tracker, challenges, outside, rewarded, setBack>>

\* The branch that asked for the proof adds latest_proof, which it read before
\* it asked: the challenge of the round that is over.
MainAddsChallenge ==
    /\ main.pc \in {"rpc_db", "ws_db"}
    /\ challenges' = challenges \cup {IF main.pc = "rpc_db" THEN main.old ELSE main.latest}
    /\ main' = Waiting
    /\ UNCHANGED <<proof, lastChallenge, epoch, closed, handler, resender, rewarding,
                   tracker, outside, rewarded, setBack>>

\* No success: the solutions are discarded, the challenge stays.
DropRound ==
    /\ main.pc = "drop_epoch"
    /\ ResetEpoch(epochChallenge)
    /\ MainGoto("drop_open")
    /\ UNCHANGED <<proof, lastChallenge, closed, handler, resender, rewarding,
                   tracker, challenges, outside, rewarded, setBack>>

DropOpensWindow ==
    /\ main.pc = "drop_open"
    /\ closed' = FALSE
    /\ main' = Waiting
    /\ UNCHANGED <<proof, lastChallenge, epoch, handler, resender, rewarding,
                   tracker, challenges, outside, rewarded, setBack>>

\* The reward task: the challenge is looked up, added if necessary, and the
\* round announced to pool_mine_success_system.
Announce(c) ==
    /\ c \in rewarding
    /\ challenges' = challenges \cup {c}
    /\ rewarding' = rewarding \ {c}
    /\ UNCHANGED <<proof, lastChallenge, epoch, closed, handler, main, resender, tracker,
                   outside, rewarded, setBack>>

-----------------------------------------------------------------------------
(* The resending task.  It looks at the stop signal at the top of its loop *)
(* only; once it has seen the proof move it carries the reset through.     *)

ResenderLoop(s) ==
    /\ resender[s].pc = "loop"
    /\ IF resender[s].stopped THEN ResenderEnds(s) ELSE ResenderGoto(s, "check")
    /\ UNCHANGED <<proof, lastChallenge, epoch, closed, handler, main, rewarding,
                   tracker, challenges, outside, rewarded, setBack>>

\* The websocket has not moved the proof yet: ask for it.
ResenderAsks(s) ==
    /\ resender[s].pc = "check"
    /\ proof = resender[s].old
    /\ \/ /\ chain # resender[s].old
          /\ proof' = chain
          /\ resender' = [resender EXCEPT ![s].pc = "rpc_last", ![s].latest = chain]
       \/ /\ chain = resender[s].old \/ "rpc" \in Faults
          /\ ResenderGoto(s, "loop")
          /\ UNCHANGED proof
    /\ UNCHANGED <<lastChallenge, epoch, closed, handler, main, rewarding,
                   tracker, challenges, outside, rewarded, setBack>>

ResenderSeesUpdate(s) ==
    /\ resender[s].pc = "check"
    /\ proof # resender[s].old
    /\ resender' = [resender EXCEPT ![s].pc = "ws_last", ![s].latest = proof]
    /\ UNCHANGED <<proof, lastChallenge, epoch, closed, handler, main, rewarding,
                   tracker, challenges, outside, rewarded, setBack>>

\* Seeded fault: the new challenge is kept as the last one.
ResenderSetsLatest(s) ==
    /\ resender[s].pc \in {"rpc_last", "ws_last"}
    /\ lastChallenge' = resender[s].latest
    /\ ResenderGoto(s, IF resender[s].pc = "rpc_last" THEN "rpc_epoch" ELSE "ws_db")
    /\ UNCHANGED <<proof, epoch, closed, handler, main, rewarding,
                   tracker, challenges, outside, rewarded, setBack>>

ResenderSetsLast(s) ==
    /\ resender[s].pc \in {"rpc_last", "ws_last"}
    /\ lastChallenge' = resender[s].old
    /\ ResenderGoto(s, IF resender[s].pc = "rpc_last" THEN "rpc_epoch" ELSE "ws_db")
    /\ UNCHANGED <<proof, epoch, closed, handler, main, rewarding,
                   tracker, challenges, outside, rewarded, setBack>>

ResenderResetsEpoch(s) ==
    /\ resender[s].pc \in {"rpc_epoch", "ws_epoch"}
    /\ ResetEpoch(resender[s].latest)
    /\ setBack' = IF resender[s].latest < chain THEN chain ELSE setBack
    /\ ResenderGoto(s, IF resender[s].pc = "rpc_epoch" THEN "rpc_open" ELSE "ws_open")
    /\ UNCHANGED <<proof, lastChallenge, closed, handler, main, rewarding,
                   tracker, challenges, outside, rewarded>>

ResenderOpensWindow(s) ==
    /\ resender[s].pc \in {"rpc_open", "ws_open"}
    /\ closed' = FALSE
    /\ IF resender[s].pc = "rpc_open" THEN ResenderGoto(s, "rpc_db") ELSE ResenderEnds(s)
    /\ UNCHANGED <<proof, lastChallenge, epoch, handler, main, rewarding,
                   tracker, challenges, outside, rewarded, setBack>>

\* Repeated until it succeeds, however long that takes.  When the websocket
\* was first this comes before the reset, else after it.
ResenderAddsChallenge(s) ==
    /\ resender[s].pc \in {"rpc_db", "ws_db"}
    /\ challenges' = challenges \cup {resender[s].latest}
    /\ IF resender[s].pc = "ws_db" THEN ResenderGoto(s, "ws_epoch") ELSE ResenderEnds(s)
    /\ UNCHANGED <<proof, lastChallenge, epoch, closed, handler, main, rewarding,
                   tracker, outside, rewarded, setBack>>

-----------------------------------------------------------------------------
(* proof_tracking_system, the chain, and restarts                          *)

\* An update of the account: unless it is for the last challenge it will be
\* stored, under another lock.
TrackProof ==
    /\ notices # <<>>
    /\ tracker = 0
    /\ notices' = Tail(notices)
    /\ tracker' = IF Head(notices) = lastChallenge THEN 0 ELSE Head(notices)
    /\ UNCHANGED <<proof, lastChallenge, epoch, closed, handler, main, resender, rewarding,
                   challenges, chain, tx, orphans, rewarded, setBack>>

StoreProof ==
    /\ tracker # 0
    /\ proof' = tracker
    /\ tracker' = 0
    /\ UNCHANGED <<lastChallenge, epoch, closed, handler, main, resender, rewarding,
                   challenges, outside, rewarded, setBack>>

\* The connection breaks; what it would have delivered is gone.
LoseNotices ==
    /\ "rpc" \in Faults
    /\ notices # <<>>
    /\ notices' = <<>>
    /\ UNCHANGED <<proof, lastChallenge, epoch, closed, handler, main, resender, rewarding,
                   tracker, challenges, chain, tx, orphans, rewarded, setBack>>

\* The proof's balance changes (a claim), its challenge does not.
BalanceNotice ==
    /\ "late_notice" \in Faults
    /\ notices = <<>> /\ tracker = 0
    /\ notices' = <<chain>>
    /\ UNCHANGED <<proof, lastChallenge, epoch, closed, handler, main, resender, rewarding,
                   tracker, challenges, chain, tx, orphans, rewarded, setBack>>

\* A solution for the current challenge moves the proof on, and the websocket
\* is told.  A round takes a minute: notices of the one before have arrived.
Advance ==
    /\ chain <= MaxChallenge
    /\ \/ notices = <<>> /\ tracker = 0
       \/ "late_notice" \in Faults /\ Len(notices) <= 1
    /\ chain' = chain + 1
    /\ notices' = Append(notices, chain + 1)

Land ==
    /\ tx.st = "inflight"
    /\ \/ tx.ch = chain /\ Advance /\ tx' = [tx EXCEPT !.st = "landed"]
       \/ tx.ch # chain /\ tx' = [tx EXCEPT !.st = "reverted"] /\ UNCHANGED <<chain, notices>>
    /\ UNCHANGED <<proof, lastChallenge, epoch, closed, handler, main, resender, rewarding,
                   tracker, challenges, orphans, rewarded, setBack>>

Expire ==
    /\ tx.st = "inflight"
    /\ tx' = [tx EXCEPT !.st = "expired"]
    /\ UNCHANGED <<proof, lastChallenge, epoch, closed, handler, main, resender, rewarding,
                   tracker, challenges, chain, orphans, notices, rewarded, setBack>>

\* A transaction nobody waits for lands, or never will.
OrphanEnds(c) ==
    /\ c \in orphans
    /\ orphans' = orphans \ {c}
    /\ \/ c = chain /\ Advance
       \/ UNCHANGED <<chain, notices>>
    /\ UNCHANGED <<proof, lastChallenge, epoch, closed, handler, main, resender, rewarding,
                   tracker, challenges, tx, rewarded, setBack>>

\* main.rs starts from the proof on chain and makes sure it is in the database.
Restart ==
    /\ "crash" \in Faults
    /\ proof' = chain
    /\ lastChallenge' = 0
    /\ ResetEpoch(chain)
    /\ closed' = FALSE
    /\ handler' = NoMessage
    /\ main' = Waiting
    /\ resender' = [s \in Resenders |-> NoResender]
    /\ rewarding' = {}
    /\ challenges' = challenges \cup {chain}
    /\ orphans' = IF tx.st = "inflight" THEN orphans \cup {tx.ch} ELSE orphans
    /\ tx' = NoTx
    /\ notices' = <<>>
    /\ tracker' = 0
    /\ UNCHANGED <<chain, rewarded, setBack>>

-----------------------------------------------------------------------------
HandleSubmission ==
    \/ \E m \in Miners, sol \in Solution : TakeMessage(m, sol)
    \/ Validate \/ CloneSubmissions \/ InsertSubmission

SubmitRound ==
    \/ ReadProof \/ CheckSolution \/ CloseWindow \/ TakeSnapshot \/ CheckStillValid
    \/ BlockhashFails \/ SendFails \/ SendTx \/ ConfirmOk \/ ConfirmFails
    \/ RefreshFromRpc \/ RefreshSeesUpdate \/ CompareEpoch
    \/ MainResetsEpoch \/ MainOpensWindow \/ MainAddsChallenge
    \/ DropRound \/ DropOpensWindow

Resend(s) ==
    \/ ResenderLoop(s) \/ ResenderAsks(s) \/ ResenderSeesUpdate(s) \/ ResenderSetsLast(s)
    \/ ResenderResetsEpoch(s) \/ ResenderOpensWindow(s) \/ ResenderAddsChallenge(s)

Next ==
    \/ HandleSubmission
    \/ SubmitRound
    \/ \E c \in Challenges : Announce(c) \/ OrphanEnds(c)
    \/ \E s \in Resenders : Resend(s)
    \/ TrackProof \/ StoreProof \/ LoseNotices \/ BalanceNotice
    \/ Land \/ Expire
    \/ Restart

Spec == Init /\ [][Next]_vars

\* Ready tasks run, and a transaction sent is executed or expires.
FairSpec ==
    /\ Spec
    /\ WF_vars(SubmitRound)
    /\ \A s \in Resenders : WF_vars(Resend(s))
    /\ WF_vars(Land \/ Expire)

-----------------------------------------------------------------------------
(* Properties *)

\* The reward of a round is shared by the hashpower of the submissions and the
\* best one decides what is sent: reset and insertion, each under one lock, keep
\* the best solution among the submissions and ahead of them all, whatever the
\* handler still holds when a reset comes in between.
BestCoversSubmissions ==
    /\ \A m \in Miners : submissions[m].diff <= best.diff
    /\ best # None => \E m \in Miners : submissions[m] = best

\* What is sent is a solution of a miner who is in the list the reward is shared
\* among, even if the epoch was reset while the window was being closed: the
\* reward would go to others, or to nobody.
SnapshotHasBest ==
    main.pc \in {"attempt", "send", "confirm", "refresh"} =>
        /\ main.best # None
        /\ \E m \in Miners : main.snapshot[m] = main.best

\* Without faults every solution that lands is rewarded, once and as the round
\* of its challenge, before the main loop can start another.
LandedRewarded ==
    \A c \in 1 .. chain - 1 :
        \/ rewarded[c] = 1
        \/ /\ rewarded[c] = 0
           /\ main.pc = "confirm" /\ main.old = c
           /\ tx = [st |-> "landed", ch |-> c]

\* Whatever fails between sending and confirming, a round is rewarded at most
\* once and only if the chain has accepted a solution for its challenge; unless
\* an update of the websocket arrives when its challenge is over.
RewardedLanded ==
    \A c \in Challenges : rewarded[c] <= 1 /\ (rewarded[c] = 1 => c < chain)

\* proof_tracking_system throws away updates for the last challenge, so it must
\* never be the challenge miners should be working on.  An update that arrives
\* when its challenge is over breaks this, too.
LastChallengeBehind == lastChallenge < chain

\* Miners are not locked out: however the three tasks that move on share the
\* work, the submission window that was closed opens again.
WindowReopens == closed ~> ~closed

\* The next round is collected, and sent, under the challenge the chain is at,
\* whether the main loop, a resending task or the websocket noticed first that it
\* had moved; unless a resending task of an earlier round, kept in its database
\* loop until now, has set the epoch back to the challenge it waited for.
EpochCurrent ==
    main.pc \in {"wait", "due", "close", "snapshot", "attempt", "send"} =>
        epochChallenge = chain \/ setBack = chain

\* "Websocket tried to update proof with old challenge!" (proof_tracking_system):
\* the challenge given to miners is never replaced by an older one.
ProofNeverReverts == [][proof' >= proof]_vars
=============================================================================
