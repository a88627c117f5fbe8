---------------------------- MODULE MineSuccess ----------------------------
(***************************************************************************)
(* What happens to the reward of a round once its transaction has landed:  *)
(* the reward task that pool_submission_system spawns reads the reward     *)
(* from the chain, looks up or inserts the challenge, credits the pool's   *)
(* commission and sends a message; pool_mine_success_system takes one      *)
(* message after the other and writes submissions, the miners' shares, the *)
(* pool's total and the challenge's winner.                                *)
(*                                                                         *)
(* Every write is a query of its own, those of shares and of submissions   *)
(* one per batch, and is repeated until it is reported as done.  A round   *)
(* is the number of its challenge.                                         *)
(***************************************************************************)
EXTENDS Integers, Sequences, FiniteSets, Functions

CONSTANTS
    Miners,          \* miners with a row in the rewards table
    Commission,      \* commissions_miner_id, a row of the rewards table
    Pool,            \* the row of the pools table
    Diffs,           \* difficulties of submissions
    Nonces,          \* nonces; they start again with every challenge
    Rosters,         \* what a round's map of submissions may be
    Rewards,         \* net rewards of a mine event
    SubmissionBatch, \* submissions per query (1000 in the code)
    RewardBatch,     \* shares per query (400 in the code)
    Faults,          \* what may go wrong, a subset of FaultKinds
    MaxRound,        \* bound: rounds
    MaxFaults        \* bound: faults in a behaviour

MIN_DIFF                 == 12
MIN_HASHPOWER            == 80
MAX_CALCULATED_HASHPOWER == 327680

FaultKinds ==
    { "db",      \* a query is reported as failed
      "rpc",     \* the transaction comes without a mine event
      "crash" }  \* the server restarts

Submission == [diff : Diffs, nonce : Nonces]
None       == [diff |-> 0, nonce |-> 0]

\* The main loop has seen to it that a round has a submission.
Roster(subs) == \E m \in Miners : subs[m] # None

ASSUME MineSuccessConstants ==
    /\ IsFiniteSet(Miners)
    /\ Commission \notin Miners
    /\ Pool \notin Miners \cup {Commission}
    /\ Diffs \subseteq {d \in Nat : d >= MIN_DIFF}
    /\ Rosters \subseteq [Miners -> Submission \cup {None}]
    /\ \A subs \in Rosters : Roster(subs)
    /\ Rewards \subseteq Nat \ {0}
    /\ Faults \subseteq FaultKinds
    /\ SubmissionBatch \in Nat \ {0}
    /\ RewardBatch \in Nat \ {0}
    /\ MaxRound \in Nat
    /\ MaxFaults \in Nat

VARIABLES
    \* the environment
    exact,   \* whether a query that is reported as failed never has an effect
    budget,  \* faults that may still happen
    \* memory of the server
    round,   \* a round: how far it is, its reward, submissions and best nonce
    inbox,   \* messages on their way to pool_mine_success_system
    job,     \* the message pool_mine_success_system is at work on
    \* the database
    balance, \* rewards.balance and pools.total_rewards
    rows,    \* submissions_2: the rounds of the rows with a nonce, oldest first
    known,   \* rows of the challenges table
    earned,  \* challenges.rewards_earned, 0 for NULL
    winner,  \* challenges.submission_id: the round of that row, 0 for NULL
    \* history
    times    \* how often a round was credited to an account

environment == <<exact, budget>>
database    == <<balance, rows, known, earned, winner, times>>
vars        == <<environment, round, inbox, job, database>>

-----------------------------------------------------------------------------
Rounds   == 1 .. MaxRound
Accounts == Miners \cup {Commission, Pool}

NoSubmissions == [m \in Miners |-> None]
NotYet        == [st |-> "future", reward |-> 0, subs |-> NoSubmissions, best |-> 0]
NoJob         == [pc |-> "idle", round |-> 0, order |-> <<>>, at |-> 1, found |-> 0]

Stages == {"future", "event", "lookup", "insert", "commission", "send", "queued",
           "booked", "lost"}
JobPCs == {"idle", "submissions", "rewards", "pool", "find", "challenge"}

RoundState == [st : Stages, reward : Rewards \cup {0},
               subs : [Miners -> Submission \cup {None}], best : Nonces \cup {0}]
Job        == [pc : JobPCs, round : Rounds \cup {0}, order : Seq(Miners),
               at : Nat \ {0}, found : Rounds \cup {0}]

Took(c) == {m \in Miners : round[c].subs[m] # None}

Shape ==
    /\ exact \in BOOLEAN
    /\ budget \in 0 .. MaxFaults
    /\ round \in [Rounds -> RoundState]
    /\ inbox \in Seq(Rounds)
    /\ job \in Job
    /\ rows \in [Nonces -> Seq(Rounds)]
    /\ known \subseteq Rounds
    /\ earned \in [Rounds -> Rewards \cup {0}]
    /\ winner \in [Rounds -> Rounds \cup {0}]
    /\ times \in [Rounds -> [Accounts -> Nat]]

TypeOK == Shape /\ balance \in [Accounts -> Nat]

Init ==
    /\ exact \in BOOLEAN
    /\ budget = MaxFaults
    /\ round = [c \in Rounds |-> NotYet]
    /\ inbox = <<>>
    /\ job = NoJob
    /\ balance = [a \in Accounts |-> 0]
    /\ rows = [n \in Nonces |-> <<>>]
    /\ known = {}
    /\ earned = [c \in Rounds |-> 0]
    /\ winner = [c \in Rounds |-> 0]
    /\ times = [c \in Rounds |-> [a \in Accounts |-> 0]]

-----------------------------------------------------------------------------
(* The amounts *)

Hashpower(diff) ==
    LET hashpower == MIN_HASHPOWER * 2 ^ (diff - MIN_DIFF) IN
    IF hashpower > MAX_CALCULATED_HASHPOWER THEN MAX_CALCULATED_HASHPOWER ELSE hashpower

TotalHashpower(c) ==
    SumFunctionOnSet([m \in Miners |-> Hashpower(round[c].subs[m].diff)], Took(c))

\* Seeded fault: the percentage is not divided.
CommissionOfUndivided(c) == round[c].reward * 5

CommissionOf(c) == (round[c].reward * 5) \div 100

\* Seeded fault: the commission is not taken out first.
ShareOfAll(c, m) ==
    (round[c].reward * Hashpower(round[c].subs[m].diff)) \div TotalHashpower(c)

\* global_boosts_active is always true: stakers get nothing out of it.
Share(c, m) ==
    ((round[c].reward - CommissionOf(c)) * Hashpower(round[c].subs[m].diff))
        \div TotalHashpower(c)

\* What round c is to bring account a.
Due(c, a) ==
    CASE a = Pool       -> round[c].reward
      [] a = Commission -> CommissionOf(c)
      [] OTHER          -> IF a \in Took(c) THEN Share(c, a) ELSE 0

-----------------------------------------------------------------------------
(* Queries: done, failed without effect, or failed with it.                *)

Outcomes ==
    IF "db" \in Faults /\ budget > 0
    THEN {"done", "failed"} \cup (IF exact THEN {} ELSE {"unclear"})
    ELSE {"done"}

Applied(out) == out # "failed"
Settle(out)  == /\ budget' = IF out = "done" THEN budget ELSE budget - 1
                /\ UNCHANGED exact

\* UPDATE rewards SET balance = balance + ...: the accounts A of one query.
Credit(c, A, out) ==
    IF Applied(out)
    THEN /\ balance' = [a \in Accounts |->
                          IF a \in A THEN balance[a] + Due(c, a) ELSE balance[a]]
         /\ times' = [times EXCEPT ![c] = [a \in Accounts |->
                          IF a \in A THEN times[c][a] + 1 ELSE times[c][a]]]
    ELSE UNCHANGED <<balance, times>>

Stage(c, st) == round' = [round EXCEPT ![c].st = st]

-----------------------------------------------------------------------------
(* The reward task of a round *)

\* The round's transaction is finalized.  The challenge's row may have been added
\* by then or not.
Land(c, subs, best, reward) ==
    /\ round[c].st = "future"
    /\ c > 1 => round[c - 1].st # "future"
    /\ subs[best] # None
    /\ \A m \in Miners : subs[m].diff <= subs[best].diff
    /\ round' = [round EXCEPT ![c] = [st |-> "event", reward |-> reward, subs |-> subs,
                                      best |-> subs[best].nonce]]
    /\ known' \in {known, known \cup {c}}
    /\ UNCHANGED <<environment, inbox, job, balance, rows, earned, winner, times>>

\* Asked for until the node answers.
FetchEvent(c) ==
    /\ round[c].st = "event"
    /\ Stage(c, "lookup")
    /\ UNCHANGED <<environment, inbox, job, database>>

\* Without metadata (an unwrap) or with return data that is no mine event the
\* task ends.
EventMissing(c) ==
    /\ round[c].st = "event"
    /\ "rpc" \in Faults /\ budget > 0
    /\ budget' = budget - 1
    /\ Stage(c, "lost")
    /\ UNCHANGED <<exact, inbox, job, database>>

\* A query that fails and a row that is missing look the same.
LookupChallenge(c) ==
    /\ round[c].st = "lookup"
    /\ \E out \in Outcomes :
          /\ Settle(out)
          /\ Stage(c, IF out = "done" /\ c \in known THEN "commission" ELSE "insert")
    /\ UNCHANGED <<inbox, job, database>>

\* Seeded fault: a failed insert is repeated without looking what is there.
InsertChallengeBlindly(c) ==
    /\ round[c].st = "insert"
    /\ \E out \in Outcomes :
          /\ Settle(out)
          /\ known' = IF Applied(out) THEN known \cup {c} ELSE known
          /\ Stage(c, IF out = "done" /\ c \notin known THEN "lookup" ELSE "insert")
    /\ UNCHANGED <<inbox, job, balance, rows, earned, winner, times>>

\* Challenges are unique: an insert that fails is followed by a look whether the
\* row is there, and repeated if it is not.
InsertChallenge(c) ==
    /\ round[c].st = "insert"
    /\ \E out \in Outcomes :
          /\ Settle(out)
          /\ known' = IF Applied(out) THEN known \cup {c} ELSE known
          /\ Stage(c, IF c \in known' THEN "lookup" ELSE "insert")
    /\ UNCHANGED <<inbox, job, balance, rows, earned, winner, times>>

CreditCommission(c) ==
    /\ round[c].st = "commission"
    /\ \E out \in Outcomes :
          /\ Settle(out)
          /\ Credit(c, {Commission}, out)
          /\ Stage(c, IF out = "done" THEN "send" ELSE "commission")
    /\ UNCHANGED <<inbox, job, rows, known, earned, winner>>

SendMessage(c) ==
    /\ round[c].st = "send"
    /\ inbox' = Append(inbox, c)
    /\ Stage(c, "queued")
    /\ UNCHANGED <<environment, job, database>>

-----------------------------------------------------------------------------
(* pool_mine_success_system *)

\* A round's submissions are visited in the order of a hash map.
Receive ==
    /\ job.pc = "idle"
    /\ inbox # <<>>
    /\ LET c == Head(inbox) IN
       \E order \in Bijection(1 .. Cardinality(Took(c)), Took(c)) :
          job' = [NoJob EXCEPT !.pc = "submissions", !.round = c, !.order = order]
    /\ inbox' = Tail(inbox)
    /\ UNCHANGED <<environment, round, database>>

\* The chunk of n entries that starts at job.at.
Batch(n) == {job.order[i] : i \in {j \in DOMAIN job.order : job.at <= j /\ j < job.at + n}}

\* Seeded fault: the last chunk is left out.
NextBatchShort(n, out, pc) ==
    job' = IF out # "done" THEN job
           ELSE IF job.at + n < Len(job.order) THEN [job EXCEPT !.at = @ + n]
           ELSE [job EXCEPT !.pc = pc, !.at = 1]

\* Seeded fault: after an error all chunks are written again.
NextBatchFromStart(n, out, pc) ==
    job' = IF out # "done" THEN [job EXCEPT !.at = 1]
           ELSE IF job.at + n <= Len(job.order) THEN [job EXCEPT !.at = @ + n]
           ELSE [job EXCEPT !.pc = pc, !.at = 1]

\* After the query for a chunk of n: the same again, the next chunk, or on to pc.
NextBatch(n, out, pc) ==
    job' = IF out # "done" THEN job
           ELSE IF job.at + n <= Len(job.order) THEN [job EXCEPT !.at = @ + n]
           ELSE [job EXCEPT !.pc = pc, !.at = 1]

\* Of the rows of one batch with the same nonce one is kept: they are of one round.
AddSubmissions ==
    /\ job.pc = "submissions"
    /\ \E out \in Outcomes :
          /\ Settle(out)
          /\ LET nonces == {round[job.round].subs[m].nonce : m \in Batch(SubmissionBatch)} IN
             rows' = IF Applied(out)
                     THEN [n \in Nonces |-> IF n \in nonces THEN Append(rows[n], job.round)
                                                            ELSE rows[n]]
                     ELSE rows
          /\ NextBatch(SubmissionBatch, out, "rewards")
    /\ UNCHANGED <<round, inbox, balance, known, earned, winner, times>>

UpdateRewards ==
    /\ job.pc = "rewards"
    /\ \E out \in Outcomes :
          /\ Settle(out)
          /\ Credit(job.round, Batch(RewardBatch), out)
          /\ NextBatch(RewardBatch, out, "pool")
    /\ UNCHANGED <<round, inbox, rows, known, earned, winner>>

UpdatePoolRewards ==
    /\ job.pc = "pool"
    /\ \E out \in Outcomes :
          /\ Settle(out)
          /\ Credit(job.round, {Pool}, out)
          /\ job' = IF out = "done" THEN [job EXCEPT !.pc = "find"] ELSE job
    /\ UNCHANGED <<round, inbox, rows, known, earned, winner>>

Finish == /\ Stage(job.round, "booked")
          /\ job' = NoJob

\* Seeded fault: the oldest row.
RowWithNonceOldest(n) == Head(rows[n])

\* ORDER BY id DESC, the first of them.
RowWithNonce(n) == rows[n][Len(rows[n])]

\* The best solution's row; without it the challenge stays without a winner.
FindSubmission ==
    /\ job.pc = "find"
    /\ \E out \in Outcomes :
          /\ Settle(out)
          /\ LET best == round[job.round].best IN
             IF out = "done" /\ rows[best] # <<>>
             THEN /\ job' = [job EXCEPT !.pc = "challenge", !.found = RowWithNonce(best)]
                  /\ UNCHANGED round
             ELSE Finish
    /\ UNCHANGED <<inbox, database>>

\* Not repeated: "Skipping!"
UpdateChallenge ==
    /\ job.pc = "challenge"
    /\ \E out \in Outcomes :
          /\ Settle(out)
          /\ IF Applied(out) /\ job.round \in known
             THEN /\ earned' = [earned EXCEPT ![job.round] = round[job.round].reward]
                  /\ winner' = [winner EXCEPT ![job.round] = job.found]
             ELSE UNCHANGED <<earned, winner>>
    /\ Finish
    /\ UNCHANGED <<inbox, balance, rows, known, times>>

\* What has landed and is not booked is in memory only.
Restart ==
    /\ "crash" \in Faults /\ budget > 0
    /\ budget' = budget - 1
    /\ round' = [c \in Rounds |-> IF round[c].st \in {"future", "booked"} THEN round[c]
                                  ELSE [round[c] EXCEPT !.st = "lost"]]
    /\ inbox' = <<>>
    /\ job' = NoJob
    /\ UNCHANGED <<exact, database>>

-----------------------------------------------------------------------------
RewardTask(c) ==
    \/ FetchEvent(c) \/ EventMissing(c) \/ LookupChallenge(c) \/ InsertChallenge(c)
    \/ CreditCommission(c) \/ SendMessage(c)

MineSuccessSystem ==
    \/ Receive \/ AddSubmissions \/ UpdateRewards \/ UpdatePoolRewards
    \/ FindSubmission \/ UpdateChallenge

Next ==
    \/ \E c \in Rounds, subs \in Rosters, best \in Miners, reward \in Rewards :
          Land(c, subs, best, reward)
    \/ \E c \in Rounds : RewardTask(c)
    \/ MineSuccessSystem
    \/ Restart

Spec == Init /\ [][Next]_vars

\* Every task that is ready runs, and the database answers in the end.
FairSpec ==
    /\ Spec
    /\ \A c \in Rounds : WF_vars(RewardTask(c))
    /\ WF_vars(MineSuccessSystem)

-----------------------------------------------------------------------------
(* Properties *)

LedgerStage(c) ==
    CASE round[c].st \in {"future", "booked", "lost"} -> round[c].st
      [] OTHER                                        -> "landed"

\* What rounds that are still at work have brought an account so far.
Pending(a) ==
    SumFunction([c \in {d \in Rounds : LedgerStage(d) = "landed"} |-> times[c][a] * Due(c, a)])

Booked == INSTANCE Ledger WITH
    Earners <- Miners \cup {Commission},
    st      <- [c \in Rounds |-> LedgerStage(c)],
    reward  <- [c \in Rounds |-> round[c].reward],
    balance <- [a \in Accounts |-> balance[a] - Pending(a)]

\* Two reward tasks at work at once, messages, batches, retries and restarts
\* amount to this: a round is booked as a whole, with no more than it earned and
\* no less but for rounding, or lost, unless the database loses answers.
ImplementsLedger == Booked!Spec

\* "balance = balance + ..." is repeated on every error: as long as an error
\* means that nothing happened, nobody is credited twice for a round, whatever
\* tasks, batches and restarts come in between.
CreditedOnce ==
    exact => \A c \in Rounds, a \in Accounts : times[c][a] <= 1

\* Nonces start again with every challenge, so the row of the best nonce may be
\* one of several: the one that is written to the challenge is of its round.
WinnerOfRound == \A c \in Rounds : winner[c] \in {0, c}

\* The reward that a challenge shows was credited before, to the pool, the
\* commission and every miner of the round.
EarnedMeansCredited ==
    \A c \in Rounds : earned[c] # 0 =>
        \A a \in Took(c) \cup {Commission, Pool} : times[c][a] >= 1

\* A round that has landed is booked in the end, unless it is lost to a restart
\* or a transaction without a mine event.
RoundSettled ==
    \A c \in Rounds : round[c].st = "event" ~> round[c].st \in {"booked", "lost"}
=============================================================================
