------------------------- MODULE MineSuccess_proofs -------------------------
(***************************************************************************)
(* Proofs about MineSuccess, for any number of miners, rounds and faults,  *)
(* any rewards and any sizes of batches.                                   *)
(***************************************************************************)
EXTENDS MineSuccess, SumTheorems

-----------------------------------------------------------------------------
(* What single definitions do *)

LEMMA OutcomeMoves ==
    ASSUME NEW out \in Outcomes, budget \in 0 .. MaxFaults, Settle(out)
    PROVE  /\ budget' \in 0 .. MaxFaults
           /\ exact' = exact
           /\ exact /\ Applied(out) => out = "done"
           /\ out = "done" => Applied(out)
<1>1. out \in {"done", "failed", "unclear"}
  BY DEF Outcomes
<1>2. out # "done" => budget > 0
  BY DEF Outcomes
<1>3. exact => out # "unclear"
  BY DEF Outcomes
<1>4. QED
  BY <1>1, <1>2, <1>3, MineSuccessConstants DEF Settle, Applied

LEMMA StageMoves ==
    ASSUME NEW c \in Rounds, NEW s \in Stages, round \in [Rounds -> RoundState], Stage(c, s)
    PROVE  /\ round' \in [Rounds -> RoundState]
           /\ round'[c].st = s
           /\ \A d \in Rounds : d # c => round'[d] = round[d]
           /\ \A d \in Rounds : /\ round'[d].subs = round[d].subs
                                /\ round'[d].best = round[d].best
                                /\ round'[d].reward = round[d].reward
BY DEF Stage, RoundState

LEMMA CreditMoves ==
    ASSUME NEW c \in Rounds, NEW A, NEW out, times \in [Rounds -> [Accounts -> Nat]],
           Credit(c, A, out)
    PROVE  /\ times' \in [Rounds -> [Accounts -> Nat]]
           /\ \A d \in Rounds, a \in Accounts :
                 times'[d][a] = IF Applied(out) /\ d = c /\ a \in A THEN times[d][a] + 1
                                                                 ELSE times[d][a]
<1>1. CASE Applied(out)
  <2> DEFINE row == [a \in Accounts |-> IF a \in A THEN times[c][a] + 1 ELSE times[c][a]]
  <2>1. times' = [times EXCEPT ![c] = row]
    BY <1>1 DEF Credit
  <2>2. row \in [Accounts -> Nat]
    OBVIOUS
  <2> HIDE DEF row
  <2>3. times' \in [Rounds -> [Accounts -> Nat]]
    BY <2>1, <2>2
  <2>4. times'[c] = row /\ \A d \in Rounds : d # c => times'[d] = times[d]
    BY <2>1
  <2>5. \A a \in Accounts : row[a] = IF a \in A THEN times[c][a] + 1 ELSE times[c][a]
    BY DEF row
  <2>6. QED
    BY <1>1, <2>3, <2>4, <2>5
<1>2. CASE ~Applied(out)
  BY <1>2 DEF Credit
<1>3. QED
  BY <1>1, <1>2

LEMMA IdleJob == NoJob \in Job
BY DEF NoJob, Job, JobPCs

LEMMA NextBatchMoves ==
    ASSUME NEW n \in Nat \ {0}, NEW out, NEW pc \in JobPCs, job \in Job, NextBatch(n, out, pc)
    PROVE  /\ job' \in Job
           /\ job'.round = job.round /\ job'.order = job.order /\ job'.found = job.found
           /\ out # "done" => job' = job
           /\ out = "done" =>
                 \/ job'.pc = job.pc /\ job'.at = job.at + n
                 \/ job'.pc = pc /\ job.at + n > Len(job.order)
<1> DEFINE next == [job EXCEPT !.at = job.at + n]
           last == [job EXCEPT !.pc = pc, !.at = 1]
<1>1. job.order \in Seq(Miners) /\ job.at \in Nat \ {0}
  BY DEF Job
<1>2. Len(job.order) \in Nat /\ job.at + n \in Nat \ {0}
  BY <1>1
<1>3. /\ next \in Job /\ next.pc = job.pc /\ next.at = job.at + n
      /\ next.round = job.round /\ next.order = job.order /\ next.found = job.found
  BY <1>2 DEF Job
<1>4. /\ last \in Job /\ last.pc = pc
      /\ last.round = job.round /\ last.order = job.order /\ last.found = job.found
  <2> DEFINE mid == [job EXCEPT !.pc = pc]
  <2>1. /\ mid \in Job /\ mid.pc = pc
        /\ mid.round = job.round /\ mid.order = job.order /\ mid.found = job.found
    BY DEF Job
  <2>2. last = [mid EXCEPT !.at = 1]
    BY DEF Job
  <2> HIDE DEF mid, last
  <2>3. QED
    BY <2>1, <2>2 DEF Job
<1>5. job' = IF out # "done" THEN job ELSE IF job.at + n <= Len(job.order) THEN next ELSE last
  BY DEF NextBatch
<1> HIDE DEF next, last
<1>6. QED
  BY <1>2, <1>3, <1>4, <1>5

\* The order submissions are visited in: each of them once.
Enumerates(order, S) ==
    /\ \A i \in 1 .. Len(order) : order[i] \in S
    /\ \A i, j \in 1 .. Len(order) : order[i] = order[j] => i = j
    /\ \A m \in S : \E i \in 1 .. Len(order) : order[i] = m

LEMMA Orders ==
    ASSUME NEW S \in SUBSET Miners, NEW order \in Bijection(1 .. Cardinality(S), S)
    PROVE  order \in Seq(Miners) /\ Enumerates(order, S)
<1>1. Cardinality(S) \in Nat
  BY MineSuccessConstants, FS_Subset, FS_CardinalityType
<1>2. /\ order \in [1 .. Cardinality(S) -> S]
      /\ \A i, j \in 1 .. Cardinality(S) : order[i] = order[j] => i = j
      /\ \A m \in S : \E i \in 1 .. Cardinality(S) : order[i] = m
  BY DEF Bijection, Injection, Surjection, IsInjective
<1>3. order \in Seq(S) /\ order \in Seq(Miners) /\ Len(order) = Cardinality(S)
  BY <1>1, <1>2
<1>4. QED
  BY <1>2, <1>3 DEF Enumerates

-----------------------------------------------------------------------------
(* The shape of the state, and what the reward task does to it *)

\* A reward task touches no more than its own round, and does one of three things.
RewardEffect(c) ==
    /\ round[c].st \notin {"future", "queued", "booked", "lost"}
    /\ \A d \in Rounds : d # c => round'[d] = round[d]
    /\ \A d \in Rounds : round'[d].subs = round[d].subs /\ round'[d].best = round[d].best
    /\ UNCHANGED <<exact, job, rows, earned, winner>>
    /\ \/ /\ round[c].st \in {"event", "lookup", "insert"}
          /\ round'[c].st \in {"lookup", "insert", "commission", "lost"}
          /\ UNCHANGED <<inbox, times>>
       \/ /\ round[c].st = "commission"
          /\ \E out \in Outcomes :
                /\ Settle(out) /\ Credit(c, {Commission}, out)
                /\ round'[c].st = IF out = "done" THEN "send" ELSE "commission"
          /\ UNCHANGED inbox
       \/ /\ round[c].st = "send" /\ round'[c].st = "queued"
          /\ inbox' = Append(inbox, c)
          /\ UNCHANGED times

LEMMA RewardMoves ==
    ASSUME Shape, NEW c \in Rounds, RewardTask(c)
    PROVE  Shape' /\ RewardEffect(c)
<1> USE DEF Shape
<1>1. CASE FetchEvent(c)
  <2>1. round[c].st = "event" /\ Stage(c, "lookup")
    BY <1>1 DEF FetchEvent
  <2>2. /\ round' \in [Rounds -> RoundState] /\ round'[c].st = "lookup"
        /\ \A d \in Rounds : d # c => round'[d] = round[d]
        /\ \A d \in Rounds : round'[d].subs = round[d].subs /\ round'[d].best = round[d].best
    BY <2>1, StageMoves DEF Stages
  <2>3. QED
    BY <1>1, <2>1, <2>2 DEF FetchEvent, RewardEffect, environment, database
<1>2. CASE EventMissing(c)
  <2>1. round[c].st = "event" /\ Stage(c, "lost") /\ budget > 0 /\ budget' = budget - 1
    BY <1>2 DEF EventMissing
  <2>2. /\ round' \in [Rounds -> RoundState] /\ round'[c].st = "lost"
        /\ \A d \in Rounds : d # c => round'[d] = round[d]
        /\ \A d \in Rounds : round'[d].subs = round[d].subs /\ round'[d].best = round[d].best
    BY <2>1, StageMoves DEF Stages
  <2>3. budget' \in 0 .. MaxFaults
    BY <2>1, MineSuccessConstants
  <2>4. QED
    BY <1>2, <2>1, <2>2, <2>3 DEF EventMissing, RewardEffect, database
<1>3. CASE LookupChallenge(c)
  <2>1. PICK out \in Outcomes :
           /\ Settle(out)
           /\ Stage(c, IF out = "done" /\ c \in known THEN "commission" ELSE "insert")
    BY <1>3 DEF LookupChallenge
  <2>2. /\ round' \in [Rounds -> RoundState]
        /\ round'[c].st \in {"commission", "insert"}
        /\ \A d \in Rounds : d # c => round'[d] = round[d]
        /\ \A d \in Rounds : round'[d].subs = round[d].subs /\ round'[d].best = round[d].best
    BY <2>1, StageMoves DEF Stages
  <2>3. budget' \in 0 .. MaxFaults /\ exact' = exact
    BY <2>1, OutcomeMoves
  <2>4. QED
    BY <1>3, <2>2, <2>3 DEF LookupChallenge, RewardEffect, database
<1>4. CASE InsertChallenge(c)
  <2>1. PICK out \in Outcomes :
           /\ Settle(out)
           /\ known' = IF Applied(out) THEN known \cup {c} ELSE known
           /\ Stage(c, IF c \in known' THEN "lookup" ELSE "insert")
    BY <1>4 DEF InsertChallenge
  <2>2. /\ round' \in [Rounds -> RoundState]
        /\ round'[c].st \in {"lookup", "insert"}
        /\ \A d \in Rounds : d # c => round'[d] = round[d]
        /\ \A d \in Rounds : round'[d].subs = round[d].subs /\ round'[d].best = round[d].best
    BY <2>1, StageMoves DEF Stages
  <2>3. budget' \in 0 .. MaxFaults /\ exact' = exact
    BY <2>1, OutcomeMoves
  <2>4. known' \subseteq Rounds
    BY <2>1
  <2>5. QED
    BY <1>4, <2>2, <2>3, <2>4 DEF InsertChallenge, RewardEffect
<1>5. CASE CreditCommission(c)
  <2>1. PICK out \in Outcomes :
           /\ Settle(out)
           /\ Credit(c, {Commission}, out)
           /\ Stage(c, IF out = "done" THEN "send" ELSE "commission")
    BY <1>5 DEF CreditCommission
  <2>2. /\ round' \in [Rounds -> RoundState]
        /\ round'[c].st = IF out = "done" THEN "send" ELSE "commission"
        /\ \A d \in Rounds : d # c => round'[d] = round[d]
        /\ \A d \in Rounds : round'[d].subs = round[d].subs /\ round'[d].best = round[d].best
    BY <2>1, StageMoves DEF Stages
  <2>3. budget' \in 0 .. MaxFaults /\ exact' = exact
    BY <2>1, OutcomeMoves
  <2>4. times' \in [Rounds -> [Accounts -> Nat]]
    BY <2>1, CreditMoves
  <2>5. QED
    BY <1>5, <2>1, <2>2, <2>3, <2>4 DEF CreditCommission, RewardEffect
<1>6. CASE SendMessage(c)
  <2>1. round[c].st = "send" /\ Stage(c, "queued") /\ inbox' = Append(inbox, c)
    BY <1>6 DEF SendMessage
  <2>2. /\ round' \in [Rounds -> RoundState] /\ round'[c].st = "queued"
        /\ \A d \in Rounds : d # c => round'[d] = round[d]
        /\ \A d \in Rounds : round'[d].subs = round[d].subs /\ round'[d].best = round[d].best
    BY <2>1, StageMoves DEF Stages
  <2>3. inbox' \in Seq(Rounds)
    BY <2>1
  <2>4. QED
    BY <1>6, <2>1, <2>2, <2>3 DEF SendMessage, RewardEffect, environment, database
<1>7. QED
  BY <1>1, <1>2, <1>3, <1>4, <1>5, <1>6 DEF RewardTask

-----------------------------------------------------------------------------
(* Messages and the job: a round is in one place at a time *)

\* A round that is queued is in the inbox once, or it is the job.
Queue ==
    /\ \A i \in 1 .. Len(inbox) : round[inbox[i]].st = "queued"
    /\ \A i, j \in 1 .. Len(inbox) : inbox[i] = inbox[j] => i = j
    /\ job.pc # "idle" => /\ job.round \in Rounds
                          /\ round[job.round].st = "queued"
                          /\ \A i \in 1 .. Len(inbox) : inbox[i] # job.round
                          /\ Enumerates(job.order, Took(job.round))

\* The best nonce is the nonce of a submission.
BestTaken ==
    \A c \in Rounds : round[c].st # "future" =>
        \E m \in Took(c) : round[c].subs[m].nonce = round[c].best

Memory == Shape /\ Queue /\ BestTaken

LEMMA LandMoves ==
    ASSUME Memory, NEW c \in Rounds, NEW subs \in Rosters, NEW best \in Miners,
           NEW reward \in Rewards, Land(c, subs, best, reward)
    PROVE  /\ Memory'
           /\ round[c].st = "future" /\ round'[c].st = "event"
           /\ \A d \in Rounds : d # c => round'[d] = round[d]
<1> USE DEF Memory, Shape
<1> DEFINE new == [st |-> "event", reward |-> reward, subs |-> subs, best |-> subs[best].nonce]
<1>1. /\ round[c].st = "future" /\ subs[best] # None
      /\ round' = [round EXCEPT ![c] = new]
      /\ known' \in {known, known \cup {c}}
      /\ UNCHANGED <<environment, inbox, job, balance, rows, earned, winner, times>>
  BY DEF Land
<1>2. subs \in [Miners -> Submission \cup {None}]
  BY MineSuccessConstants
<1>3. subs[best].nonce \in Nonces
  BY <1>1, <1>2 DEF Submission
<1>4. new \in RoundState
  BY <1>2, <1>3 DEF RoundState, Stages
<1>5. new.st = "event" /\ new.subs = subs /\ new.best = subs[best].nonce
  OBVIOUS
<1> HIDE DEF new
<1>6. /\ round' \in [Rounds -> RoundState] /\ round'[c] = new
      /\ \A d \in Rounds : d # c => round'[d] = round[d]
  BY <1>1, <1>4
<1>7. Shape'
  BY <1>1, <1>6 DEF environment
<1>8. BestTaken'
  <2> SUFFICES ASSUME NEW d \in Rounds, round'[d].st # "future"
               PROVE  \E m \in Took(d)' : round'[d].subs[m].nonce = round'[d].best
    BY DEF BestTaken
  <2>1. CASE d = c
    BY <2>1, <1>1, <1>5, <1>6 DEF Took
  <2>2. CASE d # c
    BY <2>2, <1>6 DEF BestTaken, Took
  <2>3. QED
    BY <2>1, <2>2
<1>9. Queue'
  <2>1. \A i \in 1 .. Len(inbox) : inbox[i] \in Rounds /\ inbox[i] # c
    BY <1>1 DEF Queue
  <2>2. job.pc # "idle" => job.round # c /\ Took(job.round)' = Took(job.round)
    BY <1>1, <1>6 DEF Queue, Took
  <2>3. QED
    BY <1>1, <1>6, <2>1, <2>2 DEF Queue
<1>10. QED
  BY <1>1, <1>5, <1>6, <1>7, <1>8, <1>9

\* Rounds keep their submissions; a round that is queued is not landing.
LEMMA BestStaysTaken ==
    ASSUME BestTaken,
           \A d \in Rounds : /\ round'[d].subs = round[d].subs /\ round'[d].best = round[d].best
                             /\ round[d].st = "future" => round'[d].st = "future"
    PROVE  BestTaken' /\ \A d \in Rounds : Took(d)' = Took(d)
BY DEF BestTaken, Took

LEMMA TaskKeepsMemory ==
    ASSUME Memory, NEW c \in Rounds, RewardTask(c)
    PROVE  Memory' /\ \A d \in Rounds : Took(d)' = Took(d)
<1> USE DEF Memory
<1>1. Shape' /\ RewardEffect(c)
  BY RewardMoves
<1>2. BestTaken' /\ \A d \in Rounds : Took(d)' = Took(d)
  <2>1. \A d \in Rounds : /\ round'[d].subs = round[d].subs /\ round'[d].best = round[d].best
                          /\ round[d].st = "future" => round'[d].st = "future"
    BY <1>1 DEF RewardEffect
  <2>2. QED
    BY <2>1, BestStaysTaken
<1>3. inbox \in Seq(Rounds) /\ round[c].st # "queued" /\ job' = job
      /\ \A d \in Rounds : d # c => round'[d] = round[d]
  BY <1>1 DEF Shape, RewardEffect
<1>4. job.pc # "idle" => job.round \in Rounds /\ job.round # c
                         /\ round'[job.round].st = "queued"
                         /\ Enumerates(job.order, Took(job.round)')
  <2> SUFFICES ASSUME job.pc # "idle"
               PROVE  job.round \in Rounds /\ job.round # c
                      /\ round'[job.round].st = "queued"
                      /\ Enumerates(job.order, Took(job.round)')
    OBVIOUS
  <2>1. /\ job.round \in Rounds /\ round[job.round].st = "queued"
        /\ Enumerates(job.order, Took(job.round))
    BY DEF Queue
  <2>2. Took(job.round)' = Took(job.round)
    BY <2>1, <1>2, <1>3
  <2>3. QED
    BY <2>1, <2>2, <1>3
<1>5. CASE UNCHANGED inbox
  BY <1>2, <1>1, <1>3, <1>4, <1>5 DEF Queue
<1>6. CASE inbox' = Append(inbox, c) /\ round'[c].st = "queued"
  <2>1. /\ Len(inbox') = Len(inbox) + 1 /\ Len(inbox) \in Nat
        /\ inbox'[Len(inbox) + 1] = c
        /\ \A i \in 1 .. Len(inbox) : inbox'[i] = inbox[i] /\ inbox[i] \in Rounds /\ inbox[i] # c
    BY <1>3, <1>6 DEF Queue
  <2>2. \A i \in 1 .. Len(inbox') : round'[inbox'[i]].st = "queued"
    BY <2>1, <1>3, <1>6 DEF Queue
  <2>3. \A i, j \in 1 .. Len(inbox') : inbox'[i] = inbox'[j] => i = j
    BY <2>1 DEF Queue
  <2>4. job.pc # "idle" => \A i \in 1 .. Len(inbox') : inbox'[i] # job.round
    BY <2>1, <1>4 DEF Queue
  <2>5. QED
    BY <1>1, <1>2, <1>3, <1>4, <2>2, <2>3, <2>4 DEF Queue
<1>7. QED
  BY <1>1, <1>2, <1>5, <1>6 DEF RewardEffect

LEMMA ReceiveKeepsMemory ==
    ASSUME Memory, Receive
    PROVE  /\ Memory' /\ \A d \in Rounds : Took(d)' = Took(d)
           /\ job'.pc = "submissions" /\ job'.at = 1 /\ job'.round \in Rounds
<1> USE DEF Memory
<1> DEFINE c == Head(inbox)
<1>1. PICK order \in Bijection(1 .. Cardinality(Took(c)), Took(c)) :
         job' = [NoJob EXCEPT !.pc = "submissions", !.round = c, !.order = order]
  BY DEF Receive
<1>2. /\ job.pc = "idle" /\ inbox # <<>> /\ inbox' = Tail(inbox)
      /\ UNCHANGED <<environment, round, database>> /\ inbox \in Seq(Rounds)
  BY DEF Receive, Shape
<1>3. /\ c = inbox[1] /\ c \in Rounds /\ Len(inbox) \in Nat \ {0}
      /\ inbox' \in Seq(Rounds) /\ Len(inbox') = Len(inbox) - 1
      /\ \A i \in 1 .. Len(inbox') : inbox'[i] = inbox[i + 1]
  BY <1>2
<1> HIDE DEF c
<1>4. order \in Seq(Miners) /\ Enumerates(order, Took(c))
  BY Orders DEF Took
<1>5. job' = [pc |-> "submissions", round |-> c, order |-> order, at |-> 1, found |-> 0]
  BY <1>1 DEF NoJob
<1>6. job' \in Job
  BY <1>3, <1>4, <1>5 DEF Job, JobPCs
<1>7. Shape'
  BY <1>2, <1>3, <1>6 DEF Shape, environment, database
<1>8. BestTaken' /\ \A d \in Rounds : Took(d)' = Took(d)
  BY <1>2, BestStaysTaken
<1>9. Queue'
  <2>1. \A i \in 1 .. Len(inbox') : round'[inbox'[i]].st = "queued"
    BY <1>2, <1>3 DEF Queue
  <2>2. \A i, j \in 1 .. Len(inbox') : inbox'[i] = inbox'[j] => i = j
    BY <1>3 DEF Queue
  <2>3. \A i \in 1 .. Len(inbox') : inbox'[i] # c
    BY <1>3 DEF Queue
  <2>4. round'[c].st = "queued"
    BY <1>2, <1>3 DEF Queue
  <2>5. QED
    BY <1>3, <1>4, <1>5, <1>8, <2>1, <2>2, <2>3, <2>4 DEF Queue
<1>10. QED
  BY <1>3, <1>5, <1>7, <1>8, <1>9

\* The job goes on with its round.
LEMMA JobKeepsMemory ==
    ASSUME Memory, Shape', UNCHANGED <<round, inbox>>, job.pc # "idle",
           job'.round = job.round, job'.order = job.order
    PROVE  Memory' /\ \A d \in Rounds : Took(d)' = Took(d)
<1>1. BestTaken' /\ \A d \in Rounds : Took(d)' = Took(d)
  BY BestStaysTaken DEF Memory
<1>2. Queue'
  BY <1>1 DEF Memory, Queue
<1>3. QED
  BY <1>1, <1>2 DEF Memory

LEMMA FinishKeepsMemory ==
    ASSUME Memory, Finish, job.pc # "idle", UNCHANGED inbox
    PROVE  /\ round' \in [Rounds -> RoundState] /\ job' \in Job
           /\ job'.pc = "idle" /\ round'[job.round].st = "booked"
           /\ \A d \in Rounds : d # job.round => round'[d] = round[d]
           /\ Queue' /\ BestTaken' /\ \A d \in Rounds : Took(d)' = Took(d)
<1> USE DEF Memory
<1>1. /\ job.round \in Rounds /\ round[job.round].st = "queued" /\ job' = NoJob
      /\ Stage(job.round, "booked") /\ inbox \in Seq(Rounds)
  BY DEF Queue, Finish, Shape
<1>2. /\ round' \in [Rounds -> RoundState] /\ round'[job.round].st = "booked"
      /\ \A d \in Rounds : d # job.round => round'[d] = round[d]
      /\ \A d \in Rounds : round'[d].subs = round[d].subs /\ round'[d].best = round[d].best
  BY <1>1, StageMoves DEF Stages, Shape
<1>3. job' \in Job /\ job'.pc = "idle"
  BY <1>1, IdleJob DEF NoJob
<1>4. BestTaken' /\ \A d \in Rounds : Took(d)' = Took(d)
  BY <1>1, <1>2, BestStaysTaken
<1>5. Queue'
  <2>1. \A i \in 1 .. Len(inbox) : inbox[i] \in Rounds /\ inbox[i] # job.round
    BY <1>1 DEF Queue
  <2>2. QED
    BY <1>2, <1>3, <2>1 DEF Queue
<1>6. QED
  BY <1>2, <1>3, <1>4, <1>5

LEMMA AddKeepsMemory ==
    ASSUME Memory, AddSubmissions
    PROVE  Memory' /\ \A d \in Rounds : Took(d)' = Took(d)
<1> USE DEF Memory
<1>1. PICK out \in Outcomes :
         /\ Settle(out)
         /\ LET nonces == {round[job.round].subs[m].nonce : m \in Batch(SubmissionBatch)} IN
            rows' = IF Applied(out)
                    THEN [n \in Nonces |-> IF n \in nonces THEN Append(rows[n], job.round)
                                                           ELSE rows[n]]
                    ELSE rows
         /\ NextBatch(SubmissionBatch, out, "rewards")
  BY DEF AddSubmissions
<1>2. /\ job.pc = "submissions" /\ job.round \in Rounds
      /\ UNCHANGED <<round, inbox, balance, known, earned, winner, times>>
  BY DEF AddSubmissions, Queue
<1>3. budget' \in 0 .. MaxFaults /\ exact' = exact
  BY <1>1, OutcomeMoves DEF Shape
<1>4. job' \in Job /\ job'.round = job.round /\ job'.order = job.order
  BY <1>1, NextBatchMoves, MineSuccessConstants DEF Shape, JobPCs
<1>5. rows' \in [Nonces -> Seq(Rounds)]
  <2>1. \A n \in Nonces : rows[n] \in Seq(Rounds) /\ Append(rows[n], job.round) \in Seq(Rounds)
    BY <1>2 DEF Shape
  <2>2. QED
    BY <1>1, <2>1 DEF Shape
<1>6. Shape'
  BY <1>2, <1>3, <1>4, <1>5 DEF Shape
<1>7. QED
  BY <1>2, <1>4, <1>6, JobKeepsMemory

LEMMA RewardsKeepMemory ==
    ASSUME Memory, UpdateRewards
    PROVE  Memory' /\ \A d \in Rounds : Took(d)' = Took(d)
<1> USE DEF Memory
<1>1. PICK out \in Outcomes :
         /\ Settle(out)
         /\ Credit(job.round, Batch(RewardBatch), out)
         /\ NextBatch(RewardBatch, out, "pool")
  BY DEF UpdateRewards
<1>2. /\ job.pc = "rewards" /\ job.round \in Rounds
      /\ UNCHANGED <<round, inbox, rows, known, earned, winner>>
  BY DEF UpdateRewards, Queue
<1>3. budget' \in 0 .. MaxFaults /\ exact' = exact
  BY <1>1, OutcomeMoves DEF Shape
<1>4. job' \in Job /\ job'.round = job.round /\ job'.order = job.order
  BY <1>1, NextBatchMoves, MineSuccessConstants DEF Shape, JobPCs
<1>5. times' \in [Rounds -> [Accounts -> Nat]]
  BY <1>1, <1>2, CreditMoves DEF Shape
<1>6. Shape'
  BY <1>2, <1>3, <1>4, <1>5 DEF Shape
<1>7. QED
  BY <1>2, <1>4, <1>6, JobKeepsMemory

LEMMA PoolKeepsMemory ==
    ASSUME Memory, UpdatePoolRewards
    PROVE  Memory' /\ \A d \in Rounds : Took(d)' = Took(d)
<1> USE DEF Memory
<1>1. PICK out \in Outcomes :
         /\ Settle(out)
         /\ Credit(job.round, {Pool}, out)
         /\ job' = IF out = "done" THEN [job EXCEPT !.pc = "find"] ELSE job
  BY DEF UpdatePoolRewards
<1>2. /\ job.pc = "pool" /\ job.round \in Rounds
      /\ UNCHANGED <<round, inbox, rows, known, earned, winner>>
  BY DEF UpdatePoolRewards, Queue
<1>3. budget' \in 0 .. MaxFaults /\ exact' = exact
  BY <1>1, OutcomeMoves DEF Shape
<1>4. job' \in Job /\ job'.round = job.round /\ job'.order = job.order
  BY <1>1 DEF Shape, Job, JobPCs
<1>5. times' \in [Rounds -> [Accounts -> Nat]]
  BY <1>1, <1>2, CreditMoves DEF Shape
<1>6. Shape'
  BY <1>2, <1>3, <1>4, <1>5 DEF Shape
<1>7. QED
  BY <1>2, <1>4, <1>6, JobKeepsMemory

\* The row is found, or the round is finished without a winner.
FindEffect ==
    /\ job.pc = "find" /\ job.round \in Rounds
    /\ UNCHANGED <<exact, inbox, database>>
    /\ \/ /\ rows[round[job.round].best] # <<>>
          /\ job'.pc = "challenge" /\ job'.found = RowWithNonce(round[job.round].best)
          /\ job'.round = job.round /\ job'.order = job.order
          /\ UNCHANGED round
       \/ Finish

LEMMA FindKeepsMemory ==
    ASSUME Memory, FindSubmission
    PROVE  Memory' /\ (\A d \in Rounds : Took(d)' = Took(d)) /\ FindEffect
<1> USE DEF Memory
<1> DEFINE best == round[job.round].best
           next == [job EXCEPT !.pc = "challenge", !.found = RowWithNonce(best)]
<1>1. PICK out \in Outcomes :
         /\ Settle(out)
         /\ IF out = "done" /\ rows[best] # <<>> THEN job' = next /\ UNCHANGED round
            ELSE Finish
  BY DEF FindSubmission
<1>2. job.pc = "find" /\ job.round \in Rounds /\ UNCHANGED <<inbox, database>>
  BY DEF FindSubmission, Queue
<1>3. budget' \in 0 .. MaxFaults /\ exact' = exact
  BY <1>1, OutcomeMoves DEF Shape
<1>4. CASE job' = next /\ UNCHANGED round /\ rows[best] # <<>>
  <2>1. best \in Nonces
    <3>1. PICK m \in Took(job.round) : round[job.round].subs[m].nonce = best
      BY <1>2 DEF BestTaken, Queue
    <3>2. round[job.round].subs \in [Miners -> Submission \cup {None}]
      BY <1>2 DEF Shape, RoundState
    <3>3. round[job.round].subs[m] \in Submission
      BY <3>2 DEF Took
    <3>4. QED
      BY <3>1, <3>3 DEF Submission
  <2>2. rows[best] \in Seq(Rounds)
    BY <2>1 DEF Shape
  <2>3. RowWithNonce(best) \in Rounds
    BY <2>2, <1>4 DEF RowWithNonce
  <2>4. /\ job' \in Job /\ job'.pc = "challenge" /\ job'.found = RowWithNonce(best)
        /\ job'.round = job.round /\ job'.order = job.order
    <3> DEFINE mid == [job EXCEPT !.pc = "challenge"]
    <3>1. /\ mid \in Job /\ mid.pc = "challenge"
          /\ mid.round = job.round /\ mid.order = job.order
      BY DEF Shape, Job, JobPCs
    <3>2. job' = [mid EXCEPT !.found = RowWithNonce(best)]
      BY <1>4 DEF Shape, Job
    <3> HIDE DEF mid, next, best
    <3>3. QED
      BY <3>1, <3>2, <2>3 DEF Job
  <2>5. Shape'
    BY <1>2, <1>3, <1>4, <2>4 DEF Shape, database
  <2>6. QED
    BY <1>2, <1>3, <1>4, <2>4, <2>5, JobKeepsMemory DEF FindEffect
<1>5. CASE Finish
  <2>1. /\ round' \in [Rounds -> RoundState] /\ job' \in Job
        /\ Queue' /\ BestTaken' /\ \A d \in Rounds : Took(d)' = Took(d)
    BY <1>2, <1>5, FinishKeepsMemory
  <2>2. Shape'
    BY <1>2, <1>3, <2>1 DEF Shape, database
  <2>3. QED
    BY <1>2, <1>3, <1>5, <2>1, <2>2 DEF FindEffect
<1>6. QED
  BY <1>1, <1>4, <1>5

\* The challenge shows reward and winner, or neither.
ChallengeEffect ==
    /\ job.pc = "challenge" /\ job.round \in Rounds /\ Finish
    /\ UNCHANGED <<exact, inbox, rows, times>>
    /\ \A d \in Rounds : d # job.round => earned'[d] = earned[d] /\ winner'[d] = winner[d]
    /\ winner'[job.round] \in {winner[job.round], job.found}

LEMMA ChallengeKeepsMemory ==
    ASSUME Memory, UpdateChallenge
    PROVE  Memory' /\ (\A d \in Rounds : Took(d)' = Took(d)) /\ ChallengeEffect
<1> USE DEF Memory
<1>1. PICK out \in Outcomes :
         /\ Settle(out)
         /\ IF Applied(out) /\ job.round \in known
            THEN /\ earned' = [earned EXCEPT ![job.round] = round[job.round].reward]
                 /\ winner' = [winner EXCEPT ![job.round] = job.found]
            ELSE UNCHANGED <<earned, winner>>
  BY DEF UpdateChallenge
<1>2. /\ job.pc = "challenge" /\ job.round \in Rounds /\ Finish
      /\ UNCHANGED <<inbox, balance, rows, known, times>>
  BY DEF UpdateChallenge, Queue
<1>3. budget' \in 0 .. MaxFaults /\ exact' = exact
  BY <1>1, OutcomeMoves DEF Shape
<1>4. /\ round' \in [Rounds -> RoundState] /\ job' \in Job
      /\ Queue' /\ BestTaken' /\ \A d \in Rounds : Took(d)' = Took(d)
  BY <1>2, FinishKeepsMemory
<1>5. round[job.round].reward \in Rewards \cup {0} /\ job.found \in Rounds \cup {0}
  BY <1>2 DEF Shape, RoundState, Job
<1>6. /\ earned' \in [Rounds -> Rewards \cup {0}] /\ winner' \in [Rounds -> Rounds \cup {0}]
      /\ \A d \in Rounds : d # job.round => earned'[d] = earned[d] /\ winner'[d] = winner[d]
      /\ winner'[job.round] \in {winner[job.round], job.found}
  BY <1>1, <1>2, <1>5 DEF Shape
<1>7. Shape'
  BY <1>2, <1>3, <1>4, <1>6 DEF Shape
<1>8. QED
  BY <1>2, <1>3, <1>4, <1>6, <1>7 DEF ChallengeEffect

LEMMA RestartKeepsMemory ==
    ASSUME Memory, Restart
    PROVE  /\ Memory' /\ \A d \in Rounds : Took(d)' = Took(d)
           /\ job'.pc = "idle" /\ UNCHANGED <<exact, database>>
           /\ \A d \in Rounds : round'[d].st = IF round[d].st \in {"future", "booked"}
                                              THEN round[d].st ELSE "lost"
<1> USE DEF Memory
<1>1. /\ budget > 0 /\ budget' = budget - 1
      /\ round' = [c \in Rounds |-> IF round[c].st \in {"future", "booked"} THEN round[c]
                                   ELSE [round[c] EXCEPT !.st = "lost"]]
      /\ inbox' = <<>> /\ job' = NoJob /\ UNCHANGED <<exact, database>>
  BY DEF Restart
<1>2. \A d \in Rounds : /\ [round[d] EXCEPT !.st = "lost"] \in RoundState
                        /\ [round[d] EXCEPT !.st = "lost"].st = "lost"
                        /\ [round[d] EXCEPT !.st = "lost"].subs = round[d].subs
                        /\ [round[d] EXCEPT !.st = "lost"].best = round[d].best
  BY DEF Shape, RoundState, Stages
<1>3. /\ round' \in [Rounds -> RoundState]
      /\ \A d \in Rounds : /\ round'[d].st = IF round[d].st \in {"future", "booked"}
                                            THEN round[d].st ELSE "lost"
                           /\ round'[d].subs = round[d].subs /\ round'[d].best = round[d].best
  BY <1>1, <1>2 DEF Shape
<1>4. BestTaken' /\ \A d \in Rounds : Took(d)' = Took(d)
  <2>1. \A d \in Rounds : round[d].st = "future" => round'[d].st = "future"
    BY <1>3
  <2>2. QED
    BY <1>3, <2>1, BestStaysTaken
<1>5. job' \in Job /\ job'.pc = "idle" /\ Len(inbox') = 0 /\ inbox' \in Seq(Rounds)
  BY <1>1, IdleJob DEF NoJob
<1>6. Queue'
  BY <1>5 DEF Queue
<1>7. budget' \in 0 .. MaxFaults
  BY <1>1, MineSuccessConstants DEF Shape
<1>8. Shape'
  BY <1>1, <1>3, <1>5, <1>7 DEF Shape, database
<1>9. QED
  BY <1>1, <1>3, <1>4, <1>5, <1>6, <1>8

LEMMA InitMemory == Init => Memory
<1> SUFFICES ASSUME Init PROVE Memory
  OBVIOUS
<1> USE DEF Init
<1>1. NotYet \in RoundState
  BY DEF NotYet, RoundState, Stages, NoSubmissions
<1>2. \A c \in Rounds : round[c].st = "future"
  BY DEF NotYet
<1>3. job \in Job /\ job.pc = "idle"
  BY IdleJob DEF NoJob
<1>4. Shape
  BY <1>1, <1>3, MineSuccessConstants DEF Shape
<1>5. Queue /\ BestTaken
  BY <1>2, <1>3 DEF Queue, BestTaken
<1>6. QED
  BY <1>4, <1>5 DEF Memory

LEMMA StutterKeepsMemory ==
    ASSUME Memory, UNCHANGED vars
    PROVE  Memory' /\ \A d \in Rounds : Took(d)' = Took(d)
BY DEF Memory, Shape, Queue, BestTaken, Took, vars, environment, database

LEMMA MemoryStep == Memory /\ [Next]_vars => Memory'
<1> SUFFICES ASSUME Memory, [Next]_vars PROVE Memory'
  OBVIOUS
<1>1. ASSUME NEW c \in Rounds, NEW subs \in Rosters, NEW best \in Miners,
             NEW reward \in Rewards, Land(c, subs, best, reward)
      PROVE  Memory'
  BY <1>1, LandMoves
<1>2. ASSUME NEW c \in Rounds, RewardTask(c) PROVE Memory'
  BY <1>2, TaskKeepsMemory
<1>3. CASE MineSuccessSystem
  BY <1>3, ReceiveKeepsMemory, AddKeepsMemory, RewardsKeepMemory, PoolKeepsMemory,
     FindKeepsMemory, ChallengeKeepsMemory DEF MineSuccessSystem
<1>4. CASE Restart
  BY <1>4, RestartKeepsMemory
<1>5. CASE UNCHANGED vars
  BY <1>5, StutterKeepsMemory
<1>6. QED
  BY <1>1, <1>2, <1>3, <1>4, <1>5 DEF Next

\* The messages, the job and the rows of the database keep their types, a round is
\* in the queue once, and the best nonce is that of a submission.
THEOREM MemoryCorrect == Spec => []Memory
<1>1. QED
  BY InitMemory, MemoryStep, PTL DEF Spec

-----------------------------------------------------------------------------
(* Chunks: the queries of a job cover each entry once                      *)

\* m is in a chunk before the current one.
Written(m) == \E i \in 1 .. Len(job.order) : i < job.at /\ job.order[i] = m

LEMMA BatchIsNew ==
    ASSUME NEW n \in Nat \ {0}, NEW S, job \in Job, Enumerates(job.order, S),
           NEW m \in Batch(n)
    PROVE  m \in S /\ ~Written(m)
<1>1. job.order \in Seq(Miners) /\ job.at \in Nat
  BY DEF Job
<1>2. PICK i \in DOMAIN job.order : job.at <= i /\ job.order[i] = m
  BY DEF Batch
<1>3. i \in 1 .. Len(job.order) /\ Len(job.order) \in Nat
  BY <1>1, <1>2
<1>4. QED
  BY <1>1, <1>2, <1>3 DEF Enumerates, Written

LEMMA ChunkDone ==
    ASSUME NEW n \in Nat \ {0}, NEW pc \in JobPCs, NEW out, out = "done", NEW S,
           job \in Job, Enumerates(job.order, S), NextBatch(n, out, pc), NEW m \in S
    PROVE  \/ job'.pc = job.pc /\ (Written(m)' <=> Written(m) \/ m \in Batch(n))
           \/ job'.pc = pc /\ (Written(m) \/ m \in Batch(n))
<1>1. /\ job.order \in Seq(Miners) /\ job.at \in Nat /\ Len(job.order) \in Nat
      /\ DOMAIN job.order = 1 .. Len(job.order)
  BY DEF Job
<1>2. /\ job'.order = job.order
      /\ \/ job'.pc = job.pc /\ job'.at = job.at + n
         \/ job'.pc = pc /\ job.at + n > Len(job.order)
  BY NextBatchMoves
<1>3. m \in Batch(n) <=> \E i \in 1 .. Len(job.order) :
                            job.at <= i /\ i < job.at + n /\ job.order[i] = m
  BY <1>1 DEF Batch
<1>4. CASE job'.pc = job.pc /\ job'.at = job.at + n
  BY <1>1, <1>2, <1>3, <1>4 DEF Written
<1>5. CASE job'.pc = pc /\ job.at + n > Len(job.order)
  <2>1. PICK i \in 1 .. Len(job.order) : job.order[i] = m
    BY DEF Enumerates
  <2>2. QED
    BY <1>1, <1>3, <1>5, <2>1 DEF Written
<1>6. QED
  BY <1>2, <1>4, <1>5

-----------------------------------------------------------------------------
(* Nobody is credited twice                                                *)

AtWork(c) == job.pc # "idle" /\ job.round = c
Paid(m)   == \/ job.pc \in {"pool", "find", "challenge"}
             \/ job.pc = "rewards" /\ Written(m)

\* Where a credit of round c may come from: each is given at one place only.
Once(c) ==
    /\ \A a \in Accounts : times[c][a] <= 1
    /\ round[c].st \in {"future", "event", "lookup", "insert", "commission"}
         => \A a \in Accounts : times[c][a] = 0
    /\ round[c].st \in {"send", "queued"} =>
         /\ times[c][Pool] # 0 => AtWork(c) /\ job.pc \in {"find", "challenge"}
         /\ \A m \in Miners : times[c][m] # 0 => AtWork(c) /\ Paid(m)

OnceInv == exact => \A c \in Rounds : Once(c)

LEMMA AccountsDiffer ==
    /\ Pool \in Accounts /\ Commission \in Accounts /\ Pool # Commission
    /\ \A m \in Miners : m \in Accounts /\ m # Pool /\ m # Commission
    /\ \A a \in Accounts : a \in Miners \/ a = Commission \/ a = Pool
BY MineSuccessConstants DEF Accounts

\* A round that is not the job's and does not change.
LEMMA OtherOnce ==
    ASSUME NEW c, Once(c), times'[c] = times[c], round'[c].st = round[c].st,
           ~AtWork(c)
    PROVE  Once(c)'
BY DEF Once

LEMMA LandOnce ==
    ASSUME Memory, OnceInv, NEW c \in Rounds, NEW subs \in Rosters, NEW best \in Miners,
           NEW reward \in Rewards, Land(c, subs, best, reward)
    PROVE  OnceInv'
<1>1. /\ round[c].st = "future" /\ round'[c].st = "event"
      /\ \A d \in Rounds : d # c => round'[d] = round[d]
  BY LandMoves
<1>2. UNCHANGED <<exact, job, times>>
  BY DEF Land, environment
<1>3. QED
  BY <1>1, <1>2 DEF OnceInv, Once, AtWork, Paid, Written

LEMMA TaskOnce ==
    ASSUME Memory, OnceInv, NEW c \in Rounds, RewardTask(c)
    PROVE  OnceInv'
<1>1. Shape /\ RewardEffect(c)
  BY RewardMoves DEF Memory
<1>2. /\ exact' = exact /\ job' = job
      /\ \A d \in Rounds : d # c => round'[d] = round[d]
  BY <1>1 DEF RewardEffect
<1>3. SUFFICES ASSUME exact, NEW d \in Rounds PROVE Once(d)'
  BY <1>2 DEF OnceInv
<1>4. \A e \in Rounds : Once(e)
  BY <1>3 DEF OnceInv
<1>5. CASE /\ UNCHANGED times
           /\ \/ round[c].st \in {"event", "lookup", "insert"}
              \/ round[c].st = "send" /\ round'[c].st = "queued"
  <2>1. CASE d # c
    BY <2>1, <1>2, <1>4, <1>5 DEF Once, AtWork, Paid, Written
  <2>2. CASE d = c /\ round[c].st = "send"
    BY <2>2, <1>2, <1>4, <1>5 DEF Once, AtWork, Paid, Written
  <2>3. CASE d = c /\ round[c].st \in {"event", "lookup", "insert"}
    <3>1. \A a \in Accounts : times'[d][a] = 0
      BY <2>3, <1>4, <1>5 DEF Once
    <3>2. QED
      BY <3>1, AccountsDiffer DEF Once
  <2>4. QED
    BY <1>5, <2>1, <2>2, <2>3
<1>6. CASE round[c].st = "commission"
  <2>1. PICK out \in Outcomes :
           /\ Settle(out) /\ Credit(c, {Commission}, out)
           /\ round'[c].st = IF out = "done" THEN "send" ELSE "commission"
    BY <1>1, <1>6 DEF RewardEffect
  <2>2. Applied(out) => out = "done"
    BY <2>1, <1>1, <1>3, OutcomeMoves DEF Shape
  <2>3. \A e \in Rounds, a \in Accounts :
           times'[e][a] = IF Applied(out) /\ e = c /\ a = Commission THEN times[e][a] + 1
                                                                   ELSE times[e][a]
    <3>1. times \in [Rounds -> [Accounts -> Nat]]
      BY <1>1 DEF Shape
    <3>2. QED
      BY <2>1, <3>1, CreditMoves
  <2>4. CASE d # c
    <3>1. \A a \in Accounts : times'[d][a] = times[d][a]
      BY <2>3, <2>4
    <3>2. QED
      BY <3>1, <2>4, <1>2, <1>4, AccountsDiffer DEF Once, AtWork, Paid, Written
  <2>5. CASE d = c
    <3>1. \A a \in Accounts : times[c][a] = 0
      BY <1>4, <1>6 DEF Once
    <3>2. \A a \in Accounts : times'[c][a] = IF Applied(out) /\ a = Commission THEN 1 ELSE 0
      BY <2>3, <3>1
    <3>3. QED
      BY <2>1, <2>2, <2>5, <3>2, AccountsDiffer DEF Once
  <2>6. QED
    BY <2>4, <2>5
<1>7. \/ /\ UNCHANGED times
         /\ \/ round[c].st \in {"event", "lookup", "insert"}
            \/ round[c].st = "send" /\ round'[c].st = "queued"
      \/ round[c].st = "commission"
  BY <1>1 DEF RewardEffect
<1>8. QED
  BY <1>5, <1>6, <1>7

\* The job's own round, when its credits are written: the accounts of this query
\* have not been credited, and count as paid after it.
LEMMA JobCredits ==
    ASSUME Memory, OnceInv, exact, exact' = exact, UNCHANGED round, job.pc # "idle",
           NEW A \in SUBSET (Miners \cup {Pool}), NEW out, Credit(job.round, A, out),
           job'.round = job.round, job'.pc # "idle",
           \A a \in A : times[job.round][a] = 0,
           \A m \in Miners : times'[job.round][m] # 0 => Paid(m)',
           times'[job.round][Pool] # 0 => job'.pc \in {"find", "challenge"}
    PROVE  OnceInv'
<1>1. job.round \in Rounds /\ round[job.round].st = "queued" /\ Shape
  BY DEF Memory, Queue
<1>2. \A d \in Rounds, a \in Accounts :
         times'[d][a] = IF Applied(out) /\ d = job.round /\ a \in A THEN times[d][a] + 1
                                                                 ELSE times[d][a]
  BY <1>1, CreditMoves DEF Shape
<1>3. \A d \in Rounds : Once(d)
  BY DEF OnceInv
<1>4. SUFFICES ASSUME NEW d \in Rounds PROVE Once(d)'
  BY DEF OnceInv
<1>5. CASE d = job.round
  <2>1. \A a \in Accounts : times'[d][a] <= 1
    BY <1>2, <1>3, <1>5 DEF Once
  <2>2. QED
    BY <1>1, <1>5, <2>1 DEF Once, AtWork
<1>6. CASE d # job.round
  <2>1. \A a \in Accounts : times'[d][a] = times[d][a]
    BY <1>2, <1>6
  <2>2. QED
    BY <1>3, <1>6, <2>1, AccountsDiffer DEF Once, AtWork
<1>7. QED
  BY <1>5, <1>6

LEMMA RewardsOnce ==
    ASSUME Memory, OnceInv, UpdateRewards
    PROVE  OnceInv'
<1>1. PICK out \in Outcomes :
         /\ Settle(out)
         /\ Credit(job.round, Batch(RewardBatch), out)
         /\ NextBatch(RewardBatch, out, "pool")
  BY DEF UpdateRewards
<1>2. /\ job.pc = "rewards" /\ job.round \in Rounds /\ round[job.round].st = "queued"
      /\ Enumerates(job.order, Took(job.round)) /\ UNCHANGED round /\ Shape /\ job \in Job
  BY DEF UpdateRewards, Memory, Queue, Shape
<1>3. exact' = exact /\ (exact /\ Applied(out) => out = "done") /\ (out = "done" => Applied(out))
  BY <1>1, <1>2, OutcomeMoves DEF Shape
<1>4. SUFFICES ASSUME exact PROVE OnceInv'
  BY <1>3 DEF OnceInv
<1>5. RewardBatch \in Nat \ {0} /\ "pool" \in JobPCs
  BY MineSuccessConstants DEF JobPCs
<1>6. /\ job'.round = job.round /\ (out # "done" => job' = job)
      /\ (out = "done" => job'.pc \in {"rewards", "pool"})
  BY <1>1, <1>2, <1>5, NextBatchMoves
<1>7. \A m \in Batch(RewardBatch) : m \in Took(job.round) /\ ~Written(m)
  BY <1>2, <1>5, BatchIsNew
<1>8. Once(job.round)
  BY <1>2, <1>4 DEF OnceInv
<1>9. /\ \A m \in Batch(RewardBatch) : m \in Miners /\ times[job.round][m] = 0
      /\ times[job.round][Pool] = 0
      /\ \A m \in Miners : times[job.round][m] # 0 => Written(m)
  BY <1>2, <1>7, <1>8 DEF Once, Paid, Took
<1>10. \A a \in Accounts :
          times'[job.round][a] = IF Applied(out) /\ a \in Batch(RewardBatch)
                                 THEN times[job.round][a] + 1 ELSE times[job.round][a]
  <2>1. times \in [Rounds -> [Accounts -> Nat]]
    BY <1>2 DEF Shape
  <2>2. QED
    BY <1>1, <1>2, <2>1, CreditMoves
<1>11. \A m \in Miners : times'[job.round][m] # 0 => Paid(m)'
  <2> SUFFICES ASSUME NEW m \in Miners, times'[job.round][m] # 0 PROVE Paid(m)'
    OBVIOUS
  <2>1. Written(m) \/ (Applied(out) /\ m \in Batch(RewardBatch))
    BY <1>9, <1>10, AccountsDiffer
  <2>2. CASE out # "done"
    BY <2>1, <2>2, <1>2, <1>3, <1>4, <1>6 DEF Paid, Written
  <2>3. CASE out = "done"
    <3>1. m \in Took(job.round)
      BY <2>1, <1>2, <1>7 DEF Written, Enumerates
    <3>2. \/ job'.pc = job.pc /\ (Written(m)' <=> Written(m) \/ m \in Batch(RewardBatch))
          \/ job'.pc = "pool"
      <4>1. /\ job \in Job /\ Enumerates(job.order, Took(job.round))
            /\ NextBatch(RewardBatch, out, "pool")
        BY <1>1, <1>2
      <4> HIDE <1>1, <1>2
      <4>2. QED
        BY <2>3, <3>1, <4>1, <1>5, ChunkDone DEF Written
    <3>3. QED
      BY <2>1, <3>2, <1>2 DEF Paid
  <2>4. QED
    BY <2>2, <2>3
<1>12. times'[job.round][Pool] = 0
  BY <1>9, <1>10, AccountsDiffer
<1>13. job'.pc # "idle"
  BY <1>2, <1>6
<1>14. Batch(RewardBatch) \in SUBSET (Miners \cup {Pool})
  BY <1>9
<1>15. QED
  BY <1>1, <1>2, <1>3, <1>4, <1>6, <1>9, <1>11, <1>12, <1>13, <1>14, JobCredits

LEMMA PoolOnce ==
    ASSUME Memory, OnceInv, UpdatePoolRewards
    PROVE  OnceInv'
<1>1. PICK out \in Outcomes :
         /\ Settle(out)
         /\ Credit(job.round, {Pool}, out)
         /\ job' = IF out = "done" THEN [job EXCEPT !.pc = "find"] ELSE job
  BY DEF UpdatePoolRewards
<1>2. /\ job.pc = "pool" /\ job.round \in Rounds /\ round[job.round].st = "queued"
      /\ UNCHANGED round /\ Shape /\ job \in Job
  BY DEF UpdatePoolRewards, Memory, Queue, Shape
<1>3. exact' = exact /\ (exact /\ Applied(out) => out = "done")
  BY <1>1, <1>2, OutcomeMoves DEF Shape
<1>4. SUFFICES ASSUME exact PROVE OnceInv'
  BY <1>3 DEF OnceInv
<1>5. job'.round = job.round /\ job'.pc = IF out = "done" THEN "find" ELSE "pool"
  BY <1>1, <1>2 DEF Job
<1>6. times[job.round][Pool] = 0
  <2>1. Once(job.round)
    BY <1>2, <1>4 DEF OnceInv
  <2>2. QED
    BY <1>2, <2>1 DEF Once
<1>7. times'[job.round][Pool] = IF Applied(out) THEN 1 ELSE 0
  <2>1. times \in [Rounds -> [Accounts -> Nat]]
    BY <1>2 DEF Shape
  <2>2. times'[job.round][Pool] = IF Applied(out) THEN times[job.round][Pool] + 1
                                                  ELSE times[job.round][Pool]
    BY <1>1, <1>2, <2>1, CreditMoves, AccountsDiffer
  <2>3. QED
    BY <1>6, <2>2
<1>8. \A m \in Miners : Paid(m)'
  BY <1>5 DEF Paid
<1>9. QED
  <2>1. {Pool} \in SUBSET (Miners \cup {Pool}) /\ \A a \in {Pool} : times[job.round][a] = 0
    BY <1>6
  <2>2. job'.pc # "idle" /\ (times'[job.round][Pool] # 0 => job'.pc \in {"find", "challenge"})
    BY <1>3, <1>4, <1>5, <1>7
  <2>3. QED
    BY <1>1, <1>2, <1>3, <1>4, <1>5, <1>8, <2>1, <2>2, JobCredits DEF Paid

\* The job is finished, or goes on without crediting anybody.
LEMMA FinishOnce ==
    ASSUME Memory, OnceInv, Finish, job.pc \in {"find", "challenge"},
           UNCHANGED <<exact, inbox, times>>
    PROVE  OnceInv'
<1>1. /\ job'.pc = "idle" /\ round'[job.round].st = "booked"
      /\ \A d \in Rounds : d # job.round => round'[d] = round[d]
  BY FinishKeepsMemory
<1>2. QED
  BY <1>1 DEF OnceInv, Once, AtWork

LEMMA OnceStep == Memory /\ OnceInv /\ [Next]_vars => OnceInv'
<1> SUFFICES ASSUME Memory, OnceInv, [Next]_vars PROVE OnceInv'
  OBVIOUS
<1>1. ASSUME NEW c \in Rounds, NEW subs \in Rosters, NEW best \in Miners,
             NEW reward \in Rewards, Land(c, subs, best, reward)
      PROVE  OnceInv'
  BY <1>1, LandOnce
<1>2. ASSUME NEW c \in Rounds, RewardTask(c) PROVE OnceInv'
  BY <1>2, TaskOnce
<1>3. CASE Receive
  <2>1. job.pc = "idle" /\ UNCHANGED <<exact, round, times>>
    BY <1>3 DEF Receive, environment, database
  <2>2. QED
    BY <2>1 DEF OnceInv, Once, AtWork
<1>4. CASE AddSubmissions
  <2>1. PICK out \in Outcomes : Settle(out) /\ NextBatch(SubmissionBatch, out, "rewards")
    BY <1>4 DEF AddSubmissions
  <2>2. job.pc = "submissions" /\ UNCHANGED <<round, times>> /\ Shape
    BY <1>4 DEF AddSubmissions, Memory
  <2>3. exact' = exact
    BY <2>1, <2>2, OutcomeMoves DEF Shape
  <2>4. QED
    BY <2>2, <2>3 DEF OnceInv, Once, AtWork, Paid
<1>5. CASE UpdateRewards
  BY <1>5, RewardsOnce
<1>6. CASE UpdatePoolRewards
  BY <1>6, PoolOnce
<1>7. CASE FindSubmission
  <2>1. FindEffect
    BY <1>7, FindKeepsMemory
  <2>2. CASE Finish
    BY <2>1, <2>2, FinishOnce DEF FindEffect, database
  <2>3. CASE ~Finish
    <3>1. /\ job.pc = "find" /\ job'.pc = "challenge" /\ job'.round = job.round
          /\ UNCHANGED <<exact, round, times>>
      BY <2>1, <2>3 DEF FindEffect, database
    <3>2. ASSUME NEW c \in Rounds, Once(c) PROVE Once(c)'
      <4>1. /\ AtWork(c)' <=> AtWork(c)
            /\ \A m \in Miners : Paid(m)'
        BY <3>1 DEF AtWork, Paid
      <4>2. QED
        BY <3>1, <3>2, <4>1 DEF Once, AtWork, Paid
    <3>3. QED
      BY <3>1, <3>2 DEF OnceInv
  <2>4. QED
    BY <2>2, <2>3
<1>8. CASE UpdateChallenge
  <2>1. ChallengeEffect
    BY <1>8, ChallengeKeepsMemory
  <2>2. QED
    BY <2>1, FinishOnce DEF ChallengeEffect
<1>9. CASE Restart
  <2>1. /\ UNCHANGED <<exact, times>>
        /\ \A d \in Rounds : round'[d].st = IF round[d].st \in {"future", "booked"}
                                           THEN round[d].st ELSE "lost"
    BY <1>9, RestartKeepsMemory DEF database
  <2>2. QED
    BY <2>1 DEF OnceInv, Once
<1>10. CASE UNCHANGED vars
  BY <1>10 DEF OnceInv, Once, AtWork, Paid, Written, vars, environment, database
<1>11. QED
  BY <1>1, <1>2, <1>3, <1>4, <1>5, <1>6, <1>7, <1>8, <1>9, <1>10 DEF Next, MineSuccessSystem

LEMMA InitOnce == Init => OnceInv
BY DEF Init, OnceInv, Once, NotYet

\* As long as an error means that nothing was written, no account is credited
\* twice for a round, through any retries, batches and restarts.
THEOREM NobodyCreditedTwice == Spec => []CreditedOnce
<1>1. Memory /\ OnceInv => CreditedOnce
  BY DEF OnceInv, Once, CreditedOnce
<1>2. QED
  BY InitMemory, MemoryStep, InitOnce, OnceStep, <1>1, PTL DEF Spec

-----------------------------------------------------------------------------
(* The winner of a challenge is a submission of its round                  *)

\* m's submission is among the rows.
Added(m) == \/ job.pc \in {"rewards", "pool", "find", "challenge"}
            \/ job.pc = "submissions" /\ Written(m)

\* Of the rows r, the newest with nonce n is of round c.
NewestOf(r, n, c) == r[n] # <<>> /\ r[n][Len(r[n])] = c

RowsInv ==
    /\ job.pc # "idle" => \A m \in Took(job.round) :
          Added(m) => NewestOf(rows, round[job.round].subs[m].nonce, job.round)
    /\ job.pc = "challenge" => job.found = job.round
    /\ WinnerOfRound

\* Steps that leave rows and winners alone, and do not make the job go on.
LEMMA RowsKept ==
    ASSUME Memory, RowsInv, UNCHANGED <<rows, winner>>,
           \/ job'.pc = "idle"
           \/ /\ job'.round = job.round /\ job.pc # "idle"
              /\ Took(job.round)' = Took(job.round)
              /\ round'[job.round].subs = round[job.round].subs
              /\ job'.pc = "challenge" => job'.found = job'.round
              /\ \A m \in Took(job.round) : Added(m)' => Added(m)
    PROVE  RowsInv'
<1>1. WinnerOfRound'
  BY DEF RowsInv, WinnerOfRound
<1>2. CASE job'.pc = "idle"
  BY <1>1, <1>2 DEF RowsInv
<1>3. CASE /\ job'.round = job.round /\ job.pc # "idle"
           /\ Took(job.round)' = Took(job.round)
           /\ round'[job.round].subs = round[job.round].subs
           /\ job'.pc = "challenge" => job'.found = job'.round
           /\ \A m \in Took(job.round) : Added(m)' => Added(m)
  BY <1>1, <1>3 DEF RowsInv, NewestOf
<1>4. QED
  BY <1>2, <1>3

LEMMA NonceOf ==
    ASSUME Memory, NEW c \in Rounds, NEW m \in Took(c)
    PROVE  round[c].subs[m].nonce \in Nonces
<1>1. round[c].subs \in [Miners -> Submission \cup {None}]
  BY DEF Memory, Shape, RoundState
<1>2. round[c].subs[m] \in Submission
  BY <1>1 DEF Took
<1>3. QED
  BY <1>2 DEF Submission

LEMMA AddRows ==
    ASSUME Memory, RowsInv, AddSubmissions
    PROVE  RowsInv'
<1> DEFINE c == job.round
           nonce(m) == round[c].subs[m].nonce
           nonces == {nonce(m) : m \in Batch(SubmissionBatch)}
<1>1. PICK out \in Outcomes :
         /\ Settle(out)
         /\ rows' = IF Applied(out)
                    THEN [n \in Nonces |-> IF n \in nonces THEN Append(rows[n], c) ELSE rows[n]]
                    ELSE rows
         /\ NextBatch(SubmissionBatch, out, "rewards")
  BY DEF AddSubmissions
<1>2. /\ job.pc = "submissions" /\ c \in Rounds /\ job \in Job
      /\ rows \in [Nonces -> Seq(Rounds)] /\ Enumerates(job.order, Took(c))
      /\ UNCHANGED <<round, winner>>
  BY DEF AddSubmissions, Memory, Queue, Shape
<1>3. out = "done" => Applied(out)
  BY DEF Applied
<1>4. SubmissionBatch \in Nat \ {0} /\ "rewards" \in JobPCs
  BY MineSuccessConstants DEF JobPCs
<1>5. /\ job'.round = c /\ (out # "done" => job' = job)
      /\ (out = "done" => job'.pc \in {"submissions", "rewards"})
  BY <1>1, <1>2, <1>4, NextBatchMoves
<1>6. job'.pc \in {"submissions", "rewards"}
  BY <1>2, <1>5
<1>7. \A n \in Nonces : NewestOf(rows, n, c) => NewestOf(rows', n, c)
  <2> SUFFICES ASSUME NEW n \in Nonces, NewestOf(rows, n, c)
               PROVE  rows'[n] # <<>> /\ rows'[n][Len(rows'[n])] = c
    BY DEF NewestOf
  <2>1. rows[n] \in Seq(Rounds) /\ rows[n] # <<>> /\ rows[n][Len(rows[n])] = c
    BY <1>2 DEF NewestOf
  <2>2. rows'[n] = rows[n] \/ rows'[n] = Append(rows[n], c)
    BY <1>1
  <2> HIDE DEF c
  <2>3. QED
    BY <1>2, <2>1, <2>2
<1>8. \A m \in Took(c) : m \in Batch(SubmissionBatch) /\ Applied(out)
                           => NewestOf(rows', nonce(m), c)
  <2> SUFFICES ASSUME NEW m \in Took(c), m \in Batch(SubmissionBatch), Applied(out)
               PROVE  rows'[nonce(m)] # <<>> /\ rows'[nonce(m)][Len(rows'[nonce(m)])] = c
    BY <1>2 DEF NewestOf
  <2>1. nonce(m) \in Nonces /\ nonce(m) \in nonces
    BY <1>2, NonceOf
  <2>2. rows'[nonce(m)] = Append(rows[nonce(m)], c)
    BY <1>1, <2>1
  <2>3. rows[nonce(m)] \in Seq(Rounds)
    BY <1>2, <2>1
  <2> HIDE DEF c, nonce
  <2>4. QED
    BY <1>2, <2>2, <2>3
<1>9. \A m \in Took(c) : Added(m)' => Written(m) \/ (m \in Batch(SubmissionBatch) /\ Applied(out))
  <2> SUFFICES ASSUME NEW m \in Took(c), Added(m)'
               PROVE  Written(m) \/ (m \in Batch(SubmissionBatch) /\ Applied(out))
    OBVIOUS
  <2>1. CASE out # "done"
    BY <2>1, <1>2, <1>5 DEF Added, Written
  <2>2. CASE out = "done"
    <3>1. \/ job'.pc = job.pc /\ (Written(m)' <=> Written(m) \/ m \in Batch(SubmissionBatch))
          \/ job'.pc = "rewards" /\ (Written(m) \/ m \in Batch(SubmissionBatch))
      <4>1. /\ job \in Job /\ Enumerates(job.order, Took(c))
            /\ NextBatch(SubmissionBatch, out, "rewards")
        BY <1>1, <1>2
      <4> HIDE DEF c
      <4>2. QED
        BY <2>2, <4>1, <1>4, ChunkDone DEF Written
    <3>2. QED
      BY <2>2, <3>1, <1>2, <1>3 DEF Added
  <2>3. QED
    BY <2>1, <2>2
<1>10. \A m \in Took(c) : Written(m) => NewestOf(rows, nonce(m), c) /\ nonce(m) \in Nonces
  BY <1>2, NonceOf DEF RowsInv, Added
<1>11. \A m \in Took(c) : Added(m)' => NewestOf(rows', nonce(m), c)
  <2> SUFFICES ASSUME NEW m \in Took(c), Added(m)' PROVE NewestOf(rows', nonce(m), c)
    OBVIOUS
  <2>1. CASE Written(m)
    BY <2>1, <1>7, <1>10
  <2>2. CASE m \in Batch(SubmissionBatch) /\ Applied(out)
    BY <2>2, <1>8
  <2>3. QED
    BY <2>1, <2>2, <1>9
<1>12. Took(c)' = Took(c)
  BY <1>2, <1>5 DEF Took
<1>13. WinnerOfRound'
  BY <1>2 DEF RowsInv, WinnerOfRound
<1>14. QED
  BY <1>2, <1>5, <1>6, <1>11, <1>12, <1>13 DEF RowsInv, Took

LEMMA RowsStep == Memory /\ RowsInv /\ [Next]_vars => RowsInv'
<1> SUFFICES ASSUME Memory, RowsInv, [Next]_vars PROVE RowsInv'
  OBVIOUS
<1>1. ASSUME NEW c \in Rounds, NEW subs \in Rosters, NEW best \in Miners,
             NEW reward \in Rewards, Land(c, subs, best, reward)
      PROVE  RowsInv'
  <2>1. /\ round[c].st = "future" /\ UNCHANGED <<job, rows, winner>>
        /\ \A d \in Rounds : d # c => round'[d] = round[d]
    BY <1>1, LandMoves DEF Land
  <2>2. job.pc # "idle" => job.round \in Rounds /\ job.round # c
    BY <2>1 DEF Memory, Queue
  <2>3. QED
    BY <2>1, <2>2, RowsKept DEF RowsInv, Took, Added, Written
<1>2. ASSUME NEW c \in Rounds, RewardTask(c) PROVE RowsInv'
  <2>1. RewardEffect(c) /\ \A d \in Rounds : Took(d)' = Took(d)
    BY <1>2, RewardMoves, TaskKeepsMemory DEF Memory
  <2>2. /\ UNCHANGED <<job, rows, winner>>
        /\ \A d \in Rounds : round'[d].subs = round[d].subs
    BY <2>1 DEF RewardEffect
  <2>3. job.pc # "idle" => job.round \in Rounds
    BY DEF Memory, Queue
  <2>4. QED
    BY <2>1, <2>2, <2>3, RowsKept DEF RowsInv, Added, Written
<1>3. CASE Receive
  <2>1. /\ job'.pc = "submissions" /\ job'.at = 1 /\ UNCHANGED winner
    BY <1>3, ReceiveKeepsMemory DEF Receive, database
  <2>2. \A m : ~Added(m)'
    BY <2>1 DEF Added, Written
  <2>3. QED
    BY <2>1, <2>2 DEF RowsInv, WinnerOfRound
<1>4. CASE AddSubmissions
  BY <1>4, AddRows
<1>5. CASE UpdateRewards \/ UpdatePoolRewards
  <2>1. /\ job.pc \in {"rewards", "pool"} /\ UNCHANGED <<round, rows, winner>>
        /\ job'.round = job.round /\ job'.pc \in {"rewards", "pool", "find"}
    <3>1. CASE UpdateRewards
      <4>1. PICK out \in Outcomes : NextBatch(RewardBatch, out, "pool")
        BY <3>1 DEF UpdateRewards
      <4>2. RewardBatch \in Nat \ {0} /\ "pool" \in JobPCs /\ job \in Job
        BY MineSuccessConstants DEF JobPCs, Memory, Shape
      <4>3. QED
        BY <3>1, <4>1, <4>2, NextBatchMoves DEF UpdateRewards
    <3>2. CASE UpdatePoolRewards
      BY <3>2 DEF UpdatePoolRewards, Memory, Shape, Job
    <3>3. QED
      BY <1>5, <3>1, <3>2
  <2>2. \A m : Added(m)
    BY <2>1 DEF Added
  <2>3. QED
    BY <2>1, <2>2, RowsKept DEF Took
<1>6. CASE FindSubmission
  <2>1. FindEffect
    BY <1>6, FindKeepsMemory
  <2>2. CASE Finish
    BY <2>1, <2>2, FinishKeepsMemory, RowsKept DEF FindEffect, database
  <2>3. CASE ~Finish
    <3>1. /\ job.pc = "find" /\ job.round \in Rounds /\ UNCHANGED <<round, rows, winner>>
          /\ job'.pc = "challenge" /\ job'.round = job.round
          /\ job'.found = RowWithNonce(round[job.round].best)
      BY <2>1, <2>3 DEF FindEffect, database
    <3>2. PICK m \in Took(job.round) :
             round[job.round].subs[m].nonce = round[job.round].best
      BY <3>1 DEF Memory, Queue, BestTaken
    <3>3. RowWithNonce(round[job.round].best) = job.round
      BY <3>1, <3>2 DEF RowsInv, Added, NewestOf, RowWithNonce
    <3>4. \A n : Added(n)
      BY <3>1 DEF Added
    <3>5. QED
      BY <3>1, <3>3, <3>4, RowsKept DEF Took
  <2>4. QED
    BY <2>2, <2>3
<1>7. CASE UpdateChallenge
  <2>1. ChallengeEffect
    BY <1>7, ChallengeKeepsMemory
  <2>2. job'.pc = "idle"
    BY <2>1, FinishKeepsMemory DEF ChallengeEffect
  <2>3. WinnerOfRound'
    BY <2>1 DEF ChallengeEffect, RowsInv, WinnerOfRound
  <2>4. QED
    BY <2>2, <2>3 DEF RowsInv
<1>8. CASE Restart
  BY <1>8, RestartKeepsMemory, RowsKept DEF database
<1>9. CASE UNCHANGED vars
  BY <1>9 DEF RowsInv, Added, Written, NewestOf, RowWithNonce, WinnerOfRound, Took,
              vars, environment, database
<1>10. QED
  BY <1>1, <1>2, <1>3, <1>4, <1>5, <1>6, <1>7, <1>8, <1>9 DEF Next, MineSuccessSystem

LEMMA InitRows == Init => RowsInv
BY DEF Init, RowsInv, WinnerOfRound, NoJob

\* The submission that is written to a challenge as its winner is one of that
\* challenge's round, although its nonce may occur in many.
THEOREM WinnerIsOfRound == Spec => []WinnerOfRound
<1>1. RowsInv => WinnerOfRound
  BY DEF RowsInv
<1>2. QED
  BY InitMemory, MemoryStep, InitRows, RowsStep, <1>1, PTL DEF Spec

-----------------------------------------------------------------------------
(* What a challenge shows as earned has been credited                      *)

\* Round c's credits so far: what the stage of its task or job says.
Credited(c) ==
    /\ round[c].st \in {"send", "queued", "booked"} => times[c][Commission] >= 1
    /\ AtWork(c) => \A m \in Took(c) : Paid(m) => times[c][m] >= 1
    /\ AtWork(c) /\ job.pc \in {"find", "challenge"} => times[c][Pool] >= 1
    /\ earned[c] # 0 => /\ round[c].st = "booked"
                        /\ \A a \in Took(c) \cup {Commission, Pool} : times[c][a] >= 1

CreditedInv == \A c \in Rounds : Credited(c)

\* A step that only adds credits, under which neither round nor job moves on.
LEMMA CreditedKept ==
    ASSUME Memory, NEW c \in Rounds, Credited(c), earned'[c] = earned[c],
           \A a \in Accounts : times'[c][a] >= times[c][a],
           times \in [Rounds -> [Accounts -> Nat]], times' \in [Rounds -> [Accounts -> Nat]],
           Took(c)' = Took(c),
           round[c].st = "booked" => round'[c].st = "booked",
           round'[c].st \in {"send", "queued", "booked"}
             => round[c].st \in {"send", "queued", "booked"},
           AtWork(c)' => /\ AtWork(c)
                         /\ \A m \in Took(c) : Paid(m)' => Paid(m)
                         /\ job'.pc \in {"find", "challenge"}
                              => job.pc \in {"find", "challenge"}
    PROVE  Credited(c)'
<1>1. \A a \in Accounts : times[c][a] >= 1 => times'[c][a] >= 1
  OBVIOUS
<1>2. Took(c) \subseteq Accounts /\ Commission \in Accounts /\ Pool \in Accounts
  BY AccountsDiffer DEF Took
<1>3. QED
  BY <1>1, <1>2 DEF Credited

LEMMA TaskCredits ==
    ASSUME Memory, CreditedInv, NEW c \in Rounds, RewardTask(c)
    PROVE  CreditedInv'
<1>1. Memory' /\ RewardEffect(c) /\ \A d \in Rounds : Took(d)' = Took(d)
  BY RewardMoves, TaskKeepsMemory DEF Memory
<1>2. /\ UNCHANGED <<exact, job, earned>>
      /\ \A d \in Rounds : d # c => round'[d] = round[d]
      /\ round[c].st \notin {"future", "queued", "booked", "lost"}
  BY <1>1 DEF RewardEffect
<1>3. /\ times \in [Rounds -> [Accounts -> Nat]] /\ times' \in [Rounds -> [Accounts -> Nat]]
      /\ budget \in 0 .. MaxFaults
  BY <1>1 DEF Memory, Shape
<1>4. SUFFICES ASSUME NEW d \in Rounds, Credited(d) PROVE Credited(d)'
  BY DEF CreditedInv
<1>5. AtWork(d)' => /\ AtWork(d) /\ (\A m \in Took(d) : Paid(m)' => Paid(m))
                    /\ job.pc \in {"find", "challenge"} <=> job'.pc \in {"find", "challenge"}
  BY <1>2 DEF AtWork, Paid, Written
<1>6. CASE round[c].st # "commission"
  <2>1. times' = times /\ (round'[c].st \in {"send", "queued", "booked"} => round[c].st = "send")
    BY <1>1, <1>6 DEF RewardEffect
  <2>2. QED
    BY <1>1, <1>2, <1>3, <1>4, <1>5, <2>1, CreditedKept
<1>7. CASE round[c].st = "commission"
  <2>1. PICK out \in Outcomes :
           /\ Settle(out) /\ Credit(c, {Commission}, out)
           /\ round'[c].st = IF out = "done" THEN "send" ELSE "commission"
    BY <1>1, <1>7 DEF RewardEffect
  <2>2. \A e \in Rounds, a \in Accounts :
           times'[e][a] = IF Applied(out) /\ e = c /\ a = Commission THEN times[e][a] + 1
                                                                   ELSE times[e][a]
    BY <2>1, <1>3, CreditMoves
  <2>3. \A e \in Rounds, a \in Accounts : times'[e][a] >= times[e][a]
    BY <2>2, <1>3
  <2>4. CASE d # c
    BY <2>3, <2>4, <1>1, <1>2, <1>3, <1>4, <1>5, CreditedKept
  <2>5. CASE d = c
    <3>1. ~AtWork(c)' /\ earned'[c] = 0
      BY <1>2, <1>4, <1>7, <2>5 DEF Credited, AtWork, Memory, Queue
    <3>2. out = "done" => times'[c][Commission] >= 1
      BY <2>2, <1>3, AccountsDiffer DEF Applied
    <3>3. QED
      BY <2>1, <2>5, <3>1, <3>2 DEF Credited
  <2>6. QED
    BY <2>4, <2>5
<1>8. QED
  BY <1>6, <1>7

\* The job's round when its own credits are written.
LEMMA JobsCredits ==
    ASSUME Memory, Memory', CreditedInv, UNCHANGED <<round, earned>>, job.pc # "idle",
           NEW A, NEW out, Credit(job.round, A, out), job'.round = job.round,
           \A d \in Rounds : Took(d)' = Took(d),
           \A m \in Took(job.round) : Paid(m)' => Paid(m) \/ (Applied(out) /\ m \in A),
           job'.pc \in {"find", "challenge"}
             => job.pc \in {"find", "challenge"} \/ (Applied(out) /\ Pool \in A)
    PROVE  CreditedInv'
<1>1. /\ times \in [Rounds -> [Accounts -> Nat]] /\ times' \in [Rounds -> [Accounts -> Nat]]
      /\ job.round \in Rounds
  BY DEF Memory, Shape, Queue
<1>2. \A e \in Rounds, a \in Accounts :
         times'[e][a] = IF Applied(out) /\ e = job.round /\ a \in A THEN times[e][a] + 1
                                                                 ELSE times[e][a]
  BY <1>1, CreditMoves
<1>3. \A e \in Rounds, a \in Accounts : times'[e][a] >= times[e][a]
  BY <1>1, <1>2
<1>4. SUFFICES ASSUME NEW d \in Rounds, Credited(d) PROVE Credited(d)'
  BY DEF CreditedInv
<1>5. CASE d # job.round
  <2>1. ~AtWork(d)'
    BY <1>5 DEF AtWork
  <2>2. QED
    BY <2>1, <1>1, <1>3, <1>4, CreditedKept
<1>6. CASE d = job.round
  <2>1. \A a \in Accounts : /\ times[d][a] >= 1 => times'[d][a] >= 1
                            /\ Applied(out) /\ a \in A => times'[d][a] >= 1
    BY <1>1, <1>2, <1>6
  <2>2. Took(d) \subseteq Accounts /\ Commission \in Accounts /\ Pool \in Accounts
    BY AccountsDiffer DEF Took
  <2>3. AtWork(d)
    BY <1>6 DEF AtWork
  <2>4. \A m \in Took(d) : Paid(m)' => times'[d][m] >= 1
    BY <1>4, <1>6, <2>1, <2>2, <2>3 DEF Credited
  <2>5. job'.pc \in {"find", "challenge"} => times'[d][Pool] >= 1
    BY <1>4, <2>1, <2>2, <2>3 DEF Credited
  <2>6. /\ round'[d].st \in {"send", "queued", "booked"} => times'[d][Commission] >= 1
        /\ earned'[d] # 0 => /\ round'[d].st = "booked"
                             /\ \A a \in Took(d) \cup {Commission, Pool} : times'[d][a] >= 1
    BY <1>4, <2>1, <2>2 DEF Credited
  <2>7. QED
    BY <2>4, <2>5, <2>6 DEF Credited
<1>7. QED
  BY <1>5, <1>6

LEMMA RewardsCredit ==
    ASSUME Memory, CreditedInv, UpdateRewards
    PROVE  CreditedInv'
<1>1. PICK out \in Outcomes :
         /\ Credit(job.round, Batch(RewardBatch), out)
         /\ NextBatch(RewardBatch, out, "pool")
  BY DEF UpdateRewards
<1>2. /\ job.pc = "rewards" /\ job \in Job /\ Enumerates(job.order, Took(job.round))
      /\ UNCHANGED <<round, earned>>
  BY DEF UpdateRewards, Memory, Queue, Shape
<1>3. RewardBatch \in Nat \ {0} /\ "pool" \in JobPCs
  BY MineSuccessConstants DEF JobPCs
<1>4. /\ job'.round = job.round /\ (out # "done" => job' = job)
      /\ (out = "done" => job'.pc \in {"rewards", "pool"})
  BY <1>1, <1>2, <1>3, NextBatchMoves
<1>5. Memory' /\ \A d \in Rounds : Took(d)' = Took(d)
  BY RewardsKeepMemory
<1>6. \A m \in Took(job.round) :
         Paid(m)' => Paid(m) \/ (Applied(out) /\ m \in Batch(RewardBatch))
  <2> SUFFICES ASSUME NEW m \in Took(job.round), Paid(m)'
               PROVE  Paid(m) \/ (Applied(out) /\ m \in Batch(RewardBatch))
    OBVIOUS
  <2>1. CASE out # "done"
    BY <2>1, <1>4 DEF Paid, Written
  <2>2. CASE out = "done"
    <3>1. \/ job'.pc = job.pc /\ (Written(m)' <=> Written(m) \/ m \in Batch(RewardBatch))
          \/ job'.pc = "pool" /\ (Written(m) \/ m \in Batch(RewardBatch))
      <4>1. NextBatch(RewardBatch, out, "pool")
        BY <1>1
      <4>2. QED
        BY <2>2, <4>1, <1>2, <1>3, ChunkDone DEF Written
    <3>2. QED
      BY <2>2, <3>1, <1>2 DEF Paid, Applied
  <2>3. QED
    BY <2>1, <2>2
<1>7. job'.pc \notin {"find", "challenge"}
  BY <1>2, <1>4
<1>8. QED
  BY <1>1, <1>2, <1>4, <1>5, <1>6, <1>7, JobsCredits

LEMMA PoolCredits ==
    ASSUME Memory, CreditedInv, UpdatePoolRewards
    PROVE  CreditedInv'
<1>1. PICK out \in Outcomes :
         /\ Credit(job.round, {Pool}, out)
         /\ job' = IF out = "done" THEN [job EXCEPT !.pc = "find"] ELSE job
  BY DEF UpdatePoolRewards
<1>2. job.pc = "pool" /\ job \in Job /\ UNCHANGED <<round, earned>>
  BY DEF UpdatePoolRewards, Memory, Shape
<1>3. job'.round = job.round /\ job'.pc = IF out = "done" THEN "find" ELSE "pool"
  BY <1>1, <1>2 DEF Job
<1>4. Memory' /\ \A d \in Rounds : Took(d)' = Took(d)
  BY PoolKeepsMemory
<1>5. \A m : Paid(m)
  BY <1>2 DEF Paid
<1>6. job'.pc \in {"find", "challenge"} => Applied(out) /\ Pool \in {Pool}
  BY <1>3 DEF Applied
<1>7. QED
  BY <1>1, <1>2, <1>3, <1>4, <1>5, <1>6, JobsCredits

LEMMA CreditedStep == Memory /\ CreditedInv /\ [Next]_vars => CreditedInv'
<1> SUFFICES ASSUME Memory, CreditedInv, [Next]_vars PROVE CreditedInv'
  OBVIOUS
<1>0. /\ Memory' /\ times \in [Rounds -> [Accounts -> Nat]]
      /\ times' \in [Rounds -> [Accounts -> Nat]]
  BY MemoryStep DEF Memory, Shape
<1>1. ASSUME NEW c \in Rounds, NEW subs \in Rosters, NEW best \in Miners,
             NEW reward \in Rewards, Land(c, subs, best, reward)
      PROVE  CreditedInv'
  <2>1. /\ round[c].st = "future" /\ round'[c].st = "event"
        /\ \A d \in Rounds : d # c => round'[d] = round[d]
        /\ UNCHANGED <<job, times, earned>>
    BY <1>1, LandMoves DEF Land
  <2> SUFFICES ASSUME NEW d \in Rounds, Credited(d) PROVE Credited(d)'
    BY DEF CreditedInv
  <2>2. CASE d = c
    <3>1. earned'[c] = 0 /\ ~AtWork(c)'
      BY <2>1, <2>2 DEF Credited, AtWork, Memory, Queue
    <3>2. QED
      BY <2>1, <2>2, <3>1 DEF Credited
  <2>3. CASE d # c
    BY <2>1, <2>3 DEF Credited, AtWork, Paid, Written, Took
  <2>4. QED
    BY <2>2, <2>3
<1>2. ASSUME NEW c \in Rounds, RewardTask(c) PROVE CreditedInv'
  BY <1>2, TaskCredits
<1>3. CASE Receive
  <2>1. /\ job'.pc = "submissions" /\ UNCHANGED <<round, times, earned>>
        /\ \A d \in Rounds : Took(d)' = Took(d)
    BY <1>3, ReceiveKeepsMemory DEF Receive, database
  <2>2. \A m : ~Paid(m)'
    BY <2>1 DEF Paid
  <2>3. QED
    BY <2>1, <2>2 DEF CreditedInv, Credited
<1>4. CASE AddSubmissions
  <2>1. PICK out \in Outcomes : NextBatch(SubmissionBatch, out, "rewards")
    BY <1>4 DEF AddSubmissions
  <2>2. /\ job.pc = "submissions" /\ UNCHANGED <<round, times, earned>> /\ job \in Job
        /\ \A d \in Rounds : Took(d)' = Took(d)
    BY <1>4, AddKeepsMemory DEF AddSubmissions, Memory, Shape
  <2>3. SubmissionBatch \in Nat \ {0} /\ "rewards" \in JobPCs
    BY MineSuccessConstants DEF JobPCs
  <2>4. \/ job'.pc = "submissions"
        \/ job'.pc = "rewards" /\ job'.at = 1
    BY <2>1, <2>2 DEF NextBatch, Job
  <2>5. \A m : ~Paid(m)'
    BY <2>4 DEF Paid, Written
  <2>6. QED
    BY <2>2, <2>4, <2>5 DEF CreditedInv, Credited
<1>5. CASE UpdateRewards
  BY <1>5, RewardsCredit
<1>6. CASE UpdatePoolRewards
  BY <1>6, PoolCredits
<1>7. CASE FindSubmission
  <2>1. FindEffect /\ \A d \in Rounds : Took(d)' = Took(d)
    BY <1>7, FindKeepsMemory
  <2>2. CASE Finish
    <3>1. /\ job'.pc = "idle" /\ job.pc = "find" /\ UNCHANGED <<times, earned>>
          /\ round[job.round].st = "queued"
          /\ \A d \in Rounds : d # job.round => round'[d] = round[d]
      BY <2>1, <2>2, FinishKeepsMemory DEF FindEffect, database, Memory, Queue
    <3>2. QED
      BY <2>1, <3>1 DEF CreditedInv, Credited, AtWork
  <2>3. CASE ~Finish
    <3>1. /\ job.pc = "find" /\ job'.pc = "challenge" /\ job'.round = job.round
          /\ UNCHANGED <<round, times, earned>>
      BY <2>1, <2>3 DEF FindEffect, database
    <3>2. \A m : Paid(m)
      BY <3>1 DEF Paid
    <3>3. QED
      BY <2>1, <3>1, <3>2 DEF CreditedInv, Credited, AtWork
  <2>4. QED
    BY <2>2, <2>3
<1>8. CASE UpdateChallenge
  <2>1. ChallengeEffect /\ \A d \in Rounds : Took(d)' = Took(d)
    BY <1>8, ChallengeKeepsMemory
  <2>2. /\ job.pc = "challenge" /\ job'.pc = "idle" /\ UNCHANGED times
        /\ job.round \in Rounds /\ round[job.round].st = "queued"
        /\ round'[job.round].st = "booked"
        /\ \A d \in Rounds : d # job.round => round'[d] = round[d] /\ earned'[d] = earned[d]
    BY <2>1, FinishKeepsMemory DEF ChallengeEffect, Memory, Queue
  <2> SUFFICES ASSUME NEW d \in Rounds, Credited(d) PROVE Credited(d)'
    BY DEF CreditedInv
  <2>3. CASE d = job.round
    <3>1. \A a \in Took(d) \cup {Commission, Pool} : times[d][a] >= 1
      BY <2>2, <2>3 DEF Credited, AtWork, Paid
    <3>2. QED
      BY <2>1, <2>2, <2>3, <3>1 DEF Credited, AtWork
  <2>4. CASE d # job.round
    BY <2>1, <2>2, <2>4 DEF Credited, AtWork
  <2>5. QED
    BY <2>3, <2>4
<1>9. CASE Restart
  <2>1. /\ job'.pc = "idle" /\ UNCHANGED <<times, earned>>
        /\ \A d \in Rounds : Took(d)' = Took(d)
        /\ \A d \in Rounds : round'[d].st = IF round[d].st \in {"future", "booked"}
                                           THEN round[d].st ELSE "lost"
    BY <1>9, RestartKeepsMemory DEF database
  <2>2. QED
    BY <2>1 DEF CreditedInv, Credited, AtWork
<1>10. CASE UNCHANGED vars
  BY <1>10 DEF CreditedInv, Credited, AtWork, Paid, Written, Took, vars, environment, database
<1>11. QED
  BY <1>1, <1>2, <1>3, <1>4, <1>5, <1>6, <1>7, <1>8, <1>9, <1>10 DEF Next, MineSuccessSystem

LEMMA InitCredited == Init => CreditedInv
BY DEF Init, CreditedInv, Credited, AtWork, NotYet, NoJob

\* A challenge shows a reward only after the pool, the commission and every miner
\* of the round were credited, whatever was retried or lost on the way.
THEOREM EarnedIsCredited == Spec => []EarnedMeansCredited
<1>1. CreditedInv => EarnedMeansCredited
  BY DEF CreditedInv, Credited, EarnedMeansCredited
<1>2. QED
  BY InitMemory, MemoryStep, InitCredited, CreditedStep, <1>1, PTL DEF Spec

-----------------------------------------------------------------------------
(* The amounts: nothing is divided by zero, nobody's share is negative     *)

\* As large as the set of all subsets of 1 .. n.
LEMMA PowerPositive == ASSUME NEW n \in Nat PROVE 2 ^ n \in Nat \ {0}
<1>1. IsFiniteSet(1 .. n) /\ Cardinality(1 .. n) = n
  BY FS_Interval
<1>2. IsFiniteSet(SUBSET (1 .. n)) /\ Cardinality(SUBSET (1 .. n)) = 2 ^ n
  BY <1>1, FS_SUBSET
<1>3. {} \in SUBSET (1 .. n)
  OBVIOUS
<1>4. Cardinality(SUBSET (1 .. n)) \in Nat
  BY <1>2, FS_CardinalityType
<1>5. Cardinality(SUBSET (1 .. n)) # 0
  BY <1>2, <1>3, FS_EmptySet
<1>6. QED
  BY <1>2, <1>4, <1>5

LEMMA HashpowerPositive ==
    ASSUME NEW d \in Diffs
    PROVE  Hashpower(d) \in Nat \ {0}
<1>1. d \in Nat /\ d >= MIN_DIFF
  BY MineSuccessConstants
<1>2. d - MIN_DIFF \in Nat
  BY <1>1 DEF MIN_DIFF
<1>3. 2 ^ (d - MIN_DIFF) \in Nat \ {0}
  BY <1>2, PowerPositive
<1> DEFINE p == 2 ^ (d - MIN_DIFF)
<1>4. p \in Nat \ {0}
  BY <1>3
<1>5. Hashpower(d) = IF MIN_HASHPOWER * p > MAX_CALCULATED_HASHPOWER
                     THEN MAX_CALCULATED_HASHPOWER ELSE MIN_HASHPOWER * p
  BY DEF Hashpower
<1> HIDE DEF p
<1>6. QED
  BY <1>4, <1>5 DEF MIN_HASHPOWER, MAX_CALCULATED_HASHPOWER

\* The hashpower of m in round c.
Power(c) == [m \in Miners |-> Hashpower(round[c].subs[m].diff)]

\* A round that is not to come has submissions, each with a hashpower.
LEMMA PowersPositive ==
    ASSUME Memory, NEW c \in Rounds
    PROVE  /\ IsFiniteSet(Took(c)) /\ Took(c) \subseteq Miners
           /\ \A m \in Took(c) : Power(c)[m] \in Nat \ {0}
           /\ TotalHashpower(c) \in Nat
           /\ Took(c) # {} => TotalHashpower(c) \in Nat \ {0}
<1>1. IsFiniteSet(Took(c)) /\ Took(c) \subseteq Miners
  BY MineSuccessConstants, FS_Subset DEF Took
<1>2. \A m \in Took(c) : Power(c)[m] \in Nat \ {0}
  <2> SUFFICES ASSUME NEW m \in Took(c) PROVE Power(c)[m] \in Nat \ {0}
    OBVIOUS
  <2>1. round[c].subs \in [Miners -> Submission \cup {None}]
    BY DEF Memory, Shape, RoundState
  <2>2. round[c].subs[m] \in Submission
    BY <2>1 DEF Took
  <2>3. round[c].subs[m].diff \in Diffs
    BY <2>2 DEF Submission
  <2>4. QED
    BY <1>1, <2>3, HashpowerPositive DEF Power
<1>3. TotalHashpower(c) = SumFunctionOnSet(Power(c), Took(c))
  BY DEF TotalHashpower, Power
<1>4. /\ TotalHashpower(c) \in Nat
      /\ \A m \in Took(c) : Power(c)[m] <= TotalHashpower(c)
  <2>1. \A m \in Took(c) : Power(c)[m] \in Nat
    BY <1>2
  <2>2. QED
    BY <1>1, <1>3, <2>1, SumNat
<1>5. ASSUME Took(c) # {} PROVE TotalHashpower(c) # 0
  <2>1. PICK m \in Took(c) : TRUE
    BY <1>5
  <2>2. Power(c)[m] \in Nat \ {0} /\ Power(c)[m] <= TotalHashpower(c)
    BY <1>2, <1>4, <2>1
  <2>3. QED
    BY <1>4, <2>2
<1>6. QED
  BY <1>1, <1>2, <1>4, <1>5

LEMMA CommissionTyped ==
    ASSUME Memory, NEW c \in Rounds
    PROVE  /\ round[c].reward \in Nat
           /\ CommissionOf(c) \in Nat /\ CommissionOf(c) <= round[c].reward
<1>1. round[c].reward \in Nat
  <2>1. round[c].reward \in Rewards \cup {0}
    BY DEF Memory, Shape, RoundState
  <2>2. CASE round[c].reward = 0
    BY <2>2
  <2>3. CASE round[c].reward \in Rewards
    BY <2>3, MineSuccessConstants
  <2>4. QED
    BY <2>1, <2>2, <2>3
<1> DEFINE r == round[c].reward
<1>2. CommissionOf(c) = (r * 5) \div 100 /\ r \in Nat
  BY <1>1 DEF CommissionOf
<1> HIDE DEF r
<1>3. CommissionOf(c) \in Nat /\ CommissionOf(c) <= r
  BY <1>2
<1>4. QED
  BY <1>1, <1>3 DEF r

\* The quotient is what the code's division of u128 gives.
LEMMA QuotientTyped ==
    ASSUME NEW x \in Nat, NEW y \in Nat \ {0}
    PROVE  /\ x \div y \in Nat
           /\ y * (x \div y) <= x /\ x < y * (x \div y) + y
OBVIOUS

LEMMA DueTyped ==
    ASSUME Memory, NEW c \in Rounds, NEW a \in Accounts
    PROVE  Due(c, a) \in Nat
<1>1. CASE a = Pool
  BY <1>1, CommissionTyped DEF Due
<1>2. CASE a = Commission
  BY <1>2, CommissionTyped, AccountsDiffer DEF Due
<1>3. CASE a \in Miners /\ a \notin Took(c)
  BY <1>3, AccountsDiffer DEF Due
<1>4. CASE a \in Took(c)
  <2> DEFINE x == round[c].reward - CommissionOf(c)
             h == Power(c)[a]
  <2>1. x \in Nat
    BY CommissionTyped
  <2>2. h \in Nat \ {0} /\ TotalHashpower(c) \in Nat \ {0} /\ a \in Miners
    BY <1>4, PowersPositive
  <2>3. Share(c, a) = (x * h) \div TotalHashpower(c)
    BY <2>2 DEF Share, Power
  <2>4. Due(c, a) = Share(c, a)
    BY <1>4, <2>2, AccountsDiffer DEF Due
  <2> HIDE DEF x, h
  <2>5. x * h \in Nat
    BY <2>1, <2>2
  <2>6. (x * h) \div TotalHashpower(c) \in Nat
    BY <2>2, <2>5, QuotientTyped
  <2>7. QED
    BY <2>3, <2>4, <2>6
<1>5. QED
  BY <1>1, <1>2, <1>3, <1>4, AccountsDiffer
-----------------------------------------------------------------------------
(* What is written to the balances *)

LEMMA CreditPays ==
    ASSUME Memory, balance \in [Accounts -> Nat], NEW c \in Rounds, NEW A, NEW out,
           Credit(c, A, out)
    PROVE  /\ balance' \in [Accounts -> Nat]
           /\ \A a \in Accounts :
                 balance'[a] = IF Applied(out) /\ a \in A THEN balance[a] + Due(c, a)
                                                         ELSE balance[a]
<1>1. CASE Applied(out)
  <2>1. balance' = [a \in Accounts |->
                     IF a \in A THEN balance[a] + Due(c, a) ELSE balance[a]]
    BY <1>1 DEF Credit
  <2>2. \A a \in Accounts : balance[a] \in Nat /\ balance[a] + Due(c, a) \in Nat
    BY DueTyped
  <2>3. QED
    BY <1>1, <2>1, <2>2
<1>2. CASE ~Applied(out)
  BY <1>2 DEF Credit
<1>3. QED
  BY <1>1, <1>2

\* Balances change only where credits are counted: for one round, that is at work.
CreditsRound(c) ==
    /\ round[c].st \in {"commission", "queued"}
    /\ round'[c].st \in {"commission", "send", "queued"}
    /\ \A d \in Rounds \ {c} : round'[d] = round[d]
    /\ \A d \in Rounds : /\ round'[d].subs = round[d].subs
                        /\ round'[d].reward = round[d].reward
    /\ exact' = exact
    /\ \E A \in SUBSET Accounts, out \in Outcomes : Credit(c, A, out)

LEMMA BatchAccounts == Memory /\ job.pc # "idle" => Batch(RewardBatch) \subseteq Accounts
<1> SUFFICES ASSUME Memory, job.pc # "idle", NEW m \in Batch(RewardBatch)
             PROVE  m \in Accounts
  OBVIOUS
<1>1. job \in Job /\ Enumerates(job.order, Took(job.round)) /\ RewardBatch \in Nat \ {0}
  BY MineSuccessConstants DEF Memory, Shape, Queue
<1>2. m \in Took(job.round)
  BY <1>1, BatchIsNew
<1>3. QED
  BY <1>2, AccountsDiffer DEF Took

LEMMA CommissionCredits ==
    ASSUME Memory, NEW c \in Rounds, CreditCommission(c)
    PROVE  CreditsRound(c)
<1>1. PICK out \in Outcomes :
         /\ Settle(out)
         /\ Credit(c, {Commission}, out)
         /\ Stage(c, IF out = "done" THEN "send" ELSE "commission")
  BY DEF CreditCommission
<1>2. round[c].st = "commission" /\ round \in [Rounds -> RoundState] /\ exact' = exact
  BY <1>1 DEF CreditCommission, Settle, Memory, Shape
<1>3. /\ round'[c].st \in {"send", "commission"}
      /\ \A d \in Rounds : d # c => round'[d] = round[d]
      /\ \A d \in Rounds : round'[d].subs = round[d].subs /\ round'[d].reward = round[d].reward
  BY <1>1, <1>2, StageMoves DEF Stages
<1>4. {Commission} \in SUBSET Accounts
  BY AccountsDiffer
<1>5. QED
  BY <1>1, <1>2, <1>3, <1>4 DEF CreditsRound

LEMMA JobCreditsRound ==
    ASSUME Memory, UpdateRewards \/ UpdatePoolRewards
    PROVE  job.round \in Rounds /\ CreditsRound(job.round)
<1>1. /\ job.pc # "idle" /\ UNCHANGED round
      /\ job.round \in Rounds /\ round[job.round].st = "queued"
  BY DEF UpdateRewards, UpdatePoolRewards, Memory, Queue
<1>2. \E A \in SUBSET Accounts, out \in Outcomes : Settle(out) /\ Credit(job.round, A, out)
  <2>1. CASE UpdateRewards
    <3>1. Batch(RewardBatch) \in SUBSET Accounts
      BY <1>1, BatchAccounts
    <3>2. QED
      BY <2>1, <3>1 DEF UpdateRewards
  <2>2. CASE UpdatePoolRewards
    <3>1. {Pool} \in SUBSET Accounts
      BY AccountsDiffer
    <3>2. QED
      BY <2>2, <3>1 DEF UpdatePoolRewards
  <2>3. QED
    BY <2>1, <2>2
<1>3. QED
  BY <1>1, <1>2 DEF CreditsRound, Settle

LEMMA CreditsOnly ==
    ASSUME Memory, [Next]_vars
    PROVE  UNCHANGED <<balance, times>> \/ \E c \in Rounds : CreditsRound(c)
<1>1. ASSUME NEW c \in Rounds, NEW subs \in Rosters, NEW best \in Miners,
             NEW reward \in Rewards, Land(c, subs, best, reward)
      PROVE  UNCHANGED <<balance, times>>
  BY <1>1 DEF Land
<1>2. ASSUME NEW c \in Rounds, RewardTask(c), ~CreditCommission(c)
      PROVE  UNCHANGED <<balance, times>>
  BY <1>2 DEF RewardTask, FetchEvent, EventMissing, LookupChallenge, InsertChallenge,
              SendMessage, database
<1>3. CASE Receive \/ AddSubmissions \/ FindSubmission \/ UpdateChallenge \/ Restart
           \/ UNCHANGED vars
  BY <1>3 DEF Receive, AddSubmissions, FindSubmission, UpdateChallenge, Restart, vars, database
<1>4. QED
  BY <1>1, <1>2, <1>3, CommissionCredits, JobCreditsRound DEF Next, MineSuccessSystem

BalanceTyped == balance \in [Accounts -> Nat]

LEMMA BalanceStep == Memory /\ BalanceTyped /\ [Next]_vars => BalanceTyped'
<1> SUFFICES ASSUME Memory, BalanceTyped, [Next]_vars PROVE BalanceTyped'
  OBVIOUS
<1>1. ASSUME NEW c \in Rounds, CreditsRound(c) PROVE BalanceTyped'
  BY <1>1, CreditPays DEF CreditsRound, BalanceTyped
<1>2. QED
  BY <1>1, CreditsOnly DEF BalanceTyped

LEMMA InitBalance == Init => BalanceTyped
BY DEF Init, BalanceTyped

\* State and balances keep their types: no share is negative, none is divided by
\* the hashpower of nobody.
THEOREM TypeCorrect == Spec => []TypeOK
<1>1. Memory /\ BalanceTyped => TypeOK
  BY DEF Memory, TypeOK, BalanceTyped
<1>2. QED
  BY InitMemory, MemoryStep, InitBalance, BalanceStep, <1>1, PTL DEF Spec

-----------------------------------------------------------------------------
(* What the shares of a round add up to                                    *)

\* Quotients by the total of the weights: together no more than the whole, and less
\* than one for each of them below it.
LEMMA QuotientsAddUp ==
    ASSUME NEW S, IsFiniteSet(S), S # {}, NEW w, NEW q, NEW x \in Nat, NEW total \in Nat \ {0},
           total = SumFunctionOnSet(w, S),
           \A m \in S : w[m] \in Nat /\ q[m] = (x * w[m]) \div total
    PROVE  /\ SumFunctionOnSet(q, S) \in Nat
           /\ SumFunctionOnSet(q, S) <= x
           /\ x < SumFunctionOnSet(q, S) + Cardinality(S)
<1> DEFINE low  == [m \in S |-> total * q[m]]
           mid  == [m \in S |-> x * w[m]]
           more == [m \in S |-> total - 1]
           high == [m \in S |-> total * q[m] + (total - 1)]
           sum  == SumFunctionOnSet(q, S)
           n    == Cardinality(S)
<1>1. ASSUME NEW m \in S
      PROVE  /\ q[m] \in Nat /\ total * q[m] \in Int /\ x * w[m] \in Int
             /\ total * q[m] <= x * w[m] /\ x * w[m] <= total * q[m] + (total - 1)
  <2>1. x * w[m] \in Nat
    OBVIOUS
  <2> DEFINE y == x * w[m]
  <2>2. y \in Nat /\ q[m] = y \div total
    BY <2>1
  <2> HIDE DEF y
  <2>3. q[m] \in Nat /\ total * q[m] <= y /\ y < total * q[m] + total
    BY <2>2, QuotientTyped
  <2>4. total * q[m] \in Int
    BY <2>3
  <2>5. y <= total * q[m] + (total - 1)
    BY <2>2, <2>3, <2>4
  <2>6. QED
    BY <2>2, <2>3, <2>4, <2>5 DEF y
<1>2. sum \in Nat /\ SumFunctionOnSet(low, S) = total * sum
  <2>1. \A m \in S : q[m] \in Nat /\ q[m] \in Int /\ low[m] = total * q[m]
    BY <1>1
  <2>2. total \in Int
    OBVIOUS
  <2> HIDE DEF low
  <2>3. QED
    BY <2>1, <2>2, SumNat, SumScale
<1>3. SumFunctionOnSet(mid, S) = x * total
  <2>1. \A m \in S : w[m] \in Int /\ mid[m] = x * w[m]
    OBVIOUS
  <2>2. x \in Int
    OBVIOUS
  <2> HIDE DEF mid
  <2>3. QED
    BY <2>1, <2>2, SumScale
<1>4. SumFunctionOnSet(high, S) = total * sum + (total - 1) * n
  <2>1. /\ \A m \in S : more[m] = total - 1
        /\ \A m \in S : low[m] \in Int /\ more[m] \in Int /\ high[m] = low[m] + more[m]
    BY <1>1
  <2>2. total - 1 \in Int
    OBVIOUS
  <2> HIDE DEF low, more, high
  <2>3. SumFunctionOnSet(more, S) = (total - 1) * n
    BY <2>1, <2>2, SumConstant
  <2>4. SumFunctionOnSet(high, S) = SumFunctionOnSet(low, S) + SumFunctionOnSet(more, S)
    BY <2>1, SumPlus
  <2>5. QED
    BY <1>2, <2>3, <2>4
<1>5. SumFunctionOnSet(low, S) <= SumFunctionOnSet(mid, S)
  <2>1. \A m \in S : low[m] \in Int /\ mid[m] \in Int /\ low[m] <= mid[m]
    BY <1>1
  <2> HIDE DEF low, mid
  <2>2. QED
    BY <2>1, SumMonotonic
<1>6. SumFunctionOnSet(mid, S) <= SumFunctionOnSet(high, S)
  <2>1. \A m \in S : mid[m] \in Int /\ high[m] \in Int /\ mid[m] <= high[m]
    BY <1>1
  <2> HIDE DEF high, mid
  <2>2. QED
    BY <2>1, SumMonotonic
<1>7. n \in Nat \ {0}
  BY FS_CardinalityType, FS_EmptySet
<1>8. sum \in Nat
  BY <1>2
<1> HIDE DEF low, mid, more, high, sum, n
<1>9. sum <= x
  <2> SUFFICES ASSUME sum >= x + 1 PROVE FALSE
    BY <1>8
  <2>1. total * sum >= total * (x + 1)
    BY <1>8
  <2>2. total * (x + 1) = x * total + total
    OBVIOUS
  <2>3. total * sum <= x * total
    BY <1>2, <1>3, <1>5
  <2>4. x * total \in Int /\ total * sum \in Int
    BY <1>8
  <2>5. QED
    BY <2>1, <2>2, <2>3, <2>4
<1>10. x < sum + n
  <2> SUFFICES ASSUME x >= sum + n PROVE FALSE
    BY <1>7, <1>8
  <2>1. x * total >= (sum + n) * total
    BY <1>7, <1>8
  <2>2. (sum + n) * total = total * sum + (total - 1) * n + n
    BY <1>7, <1>8
  <2>3. x * total <= total * sum + (total - 1) * n
    BY <1>3, <1>4, <1>6
  <2>4. x * total \in Int /\ total * sum \in Int /\ (total - 1) * n \in Int
    BY <1>7, <1>8
  <2>5. QED
    BY <2>1, <2>2, <2>3, <2>4, <1>7
<1>11. QED
  BY <1>8, <1>9, <1>10 DEF sum, n

Earners == Miners \cup {Commission}
Dues(c) == [a \in Accounts |-> Due(c, a)]

\* Miners and commission share the reward, but for what rounding leaves.
LEMMA DuesAddUp ==
    ASSUME Memory, NEW c \in Rounds, Took(c) # {}
    PROVE  /\ SumFunctionOnSet(Dues(c), Earners) \in Nat
           /\ SumFunctionOnSet(Dues(c), Earners) <= round[c].reward
           /\ round[c].reward - Cardinality(Earners) < SumFunctionOnSet(Dues(c), Earners)
<1> DEFINE S == Took(c)
           x == round[c].reward - CommissionOf(c)
           total == TotalHashpower(c)
           shares == SumFunctionOnSet(Dues(c), S)
           most == SumFunctionOnSet(Dues(c), Earners)
<1>1. /\ IsFiniteSet(S) /\ S # {} /\ S \subseteq Miners /\ total \in Nat \ {0} /\ x \in Nat
      /\ \A m \in S : Power(c)[m] \in Nat
  BY PowersPositive, CommissionTyped
<1>2. total = SumFunctionOnSet(Power(c), S)
  BY DEF TotalHashpower, Power
<1>3. \A m \in S : Dues(c)[m] = (x * Power(c)[m]) \div total
  <2> SUFFICES ASSUME NEW m \in S PROVE Dues(c)[m] = (x * Power(c)[m]) \div total
    OBVIOUS
  <2>1. m \in Miners /\ m \in Accounts /\ m # Pool /\ m # Commission
    BY <1>1, AccountsDiffer
  <2>2. Dues(c)[m] = Share(c, m)
    BY <2>1 DEF Dues, Due
  <2>3. Power(c)[m] = Hashpower(round[c].subs[m].diff)
    BY <2>1 DEF Power
  <2>4. QED
    BY <2>2, <2>3 DEF Share
<1>4. shares \in Nat /\ shares <= x /\ x < shares + Cardinality(S)
  <2> HIDE DEF S, x, total
  <2>1. QED
    BY <1>1, <1>2, <1>3, QuotientsAddUp
<1>5. /\ IsFiniteSet(Earners) /\ IsFiniteSet(Miners) /\ Commission \in Earners
      /\ Earners \ {Commission} = Miners /\ Commission \notin Miners
      /\ Cardinality(Miners) \in Nat /\ Cardinality(Earners) = Cardinality(Miners) + 1
  <2>1. IsFiniteSet(Miners) /\ Commission \notin Miners
    BY MineSuccessConstants
  <2>2. QED
    BY <2>1, FS_AddElement, FS_CardinalityType DEF Earners
<1>6. Cardinality(S) \in Nat /\ Cardinality(S) <= Cardinality(Miners)
  BY <1>1, <1>5, FS_Subset, FS_CardinalityType
<1>7. \A a \in Earners : a \in Accounts /\ Dues(c)[a] \in Int
  BY DueTyped DEF Dues, Earners, Accounts
<1>8. most = Dues(c)[Commission] + SumFunctionOnSet(Dues(c), Miners)
  BY <1>5, <1>7, SumRemove
<1>9. SumFunctionOnSet(Dues(c), Miners) = shares
  <2>1. \A m \in Miners : Dues(c)[m] \in Int
    BY <1>7 DEF Earners
  <2>2. \A m \in Miners \ S : Dues(c)[m] = 0
    BY AccountsDiffer DEF Dues, Due
  <2> HIDE DEF S
  <2>3. QED
    BY <1>1, <1>5, <2>1, <2>2, SumWithoutZeros
<1>10. Dues(c)[Commission] = CommissionOf(c)
  BY AccountsDiffer DEF Dues, Due
<1>11. CommissionOf(c) \in Nat /\ CommissionOf(c) <= round[c].reward /\ round[c].reward \in Nat
  BY CommissionTyped
<1> DEFINE r == round[c].reward
           k == CommissionOf(c)
<1>12. most = k + shares /\ k \in Nat /\ r \in Nat /\ x = r - k
  BY <1>8, <1>9, <1>10, <1>11
<1> HIDE DEF most, shares, x, k, r, S
<1>13. most \in Nat /\ most <= r /\ r - Cardinality(Earners) < most
  BY <1>4, <1>5, <1>6, <1>12
<1>14. QED
  BY <1>13 DEF most, r

-----------------------------------------------------------------------------
(* What a step does to the ledger *)

Landed == {c \in Rounds : LedgerStage(c) = "landed"}

\* The submissions and the reward of rounds stay what they are.
Keeps == \A d \in Rounds : /\ round'[d].subs = round[d].subs
                           /\ round'[d].reward = round[d].reward

LandsRound(c) ==
    /\ round[c].st = "future" /\ round'[c].st = "event"
    /\ round'[c].reward \in Nat \ {0}
    /\ \A d \in Rounds \ {c} : round'[d] = round[d]
    /\ UNCHANGED <<exact, balance, times>>

\* The rounds C are settled: they get to the stage to.  Other steps are those with
\* an empty C.
Settles(C, to) ==
    /\ \A d \in Rounds : LedgerStage(d)' = IF d \in C THEN to ELSE LedgerStage(d)
    /\ Keeps
    /\ UNCHANGED <<exact, balance, times>>

BooksRound(c) ==
    /\ c \in Landed /\ AtWork(c) /\ job.pc \in {"find", "challenge"}
    /\ round[c].st = "queued"
    /\ Settles({c}, "booked")

LedgerStep ==
    \/ \E c \in Rounds : LandsRound(c) \/ CreditsRound(c) \/ BooksRound(c)
    \/ \E C \in SUBSET Landed : Settles(C, "lost")

\* All that a stage's name says to the ledger.
LEMMA StageOf ==
    ASSUME NEW c
    PROVE  /\ round[c].st \in {"future", "booked", "lost"} => LedgerStage(c) = round[c].st
           /\ round[c].st \notin {"future", "booked", "lost"} => LedgerStage(c) = "landed"
           /\ round'[c].st \in {"future", "booked", "lost"} => LedgerStage(c)' = round'[c].st
           /\ round'[c].st \notin {"future", "booked", "lost"} => LedgerStage(c)' = "landed"
BY DEF LedgerStage

LEMMA StageKept ==
    ASSUME NEW c, round'[c].st = round[c].st
    PROVE  LedgerStage(c)' = LedgerStage(c)
BY DEF LedgerStage

\* The reward task: at work, or lost.
LEMMA TaskSettles ==
    ASSUME Memory, NEW c \in Rounds, RewardTask(c), ~CreditCommission(c)
    PROVE  \E C \in SUBSET Landed : Settles(C, "lost")
<1>1. PICK s \in {"lookup", "insert", "commission", "queued", "lost"} :
         /\ Stage(c, s) /\ round[c].st \in {"event", "lookup", "insert", "send"}
         /\ UNCHANGED <<exact, balance, times>>
  <2>1. CASE FetchEvent(c) \/ EventMissing(c) \/ SendMessage(c)
    BY <2>1 DEF FetchEvent, EventMissing, SendMessage, environment, database
  <2>2. CASE LookupChallenge(c) \/ InsertChallenge(c)
    BY <2>2 DEF LookupChallenge, InsertChallenge, Settle, database
  <2>3. QED
    BY <2>1, <2>2 DEF RewardTask
<1>2. s \in Stages /\ round \in [Rounds -> RoundState]
  BY DEF Stages, Memory, Shape
<1>3. /\ round'[c].st = s /\ Keeps
      /\ \A d \in Rounds : d # c => round'[d] = round[d]
  BY <1>1, <1>2, StageMoves DEF Keeps
<1>4. LedgerStage(c) = "landed" /\ c \in Landed
  BY <1>1, StageOf DEF Landed
<1>5. \A d \in Rounds : d # c => LedgerStage(d)' = LedgerStage(d)
  BY <1>3, StageKept
<1>6. CASE s = "lost"
  <2>1. LedgerStage(c)' = "lost"
    BY <1>3, <1>6, StageOf
  <2>2. Settles({c}, "lost")
    BY <1>1, <1>3, <1>5, <2>1 DEF Settles
  <2>3. QED
    BY <1>4, <2>2
<1>7. CASE s # "lost"
  <2>1. LedgerStage(c)' = "landed"
    BY <1>1, <1>3, <1>7, StageOf
  <2>2. Settles({}, "lost")
    BY <1>1, <1>3, <1>4, <1>5, <2>1 DEF Settles
  <2>3. QED
    BY <2>2
<1>8. QED
  BY <1>6, <1>7

LEMMA FinishBooks ==
    ASSUME Memory, Finish, job.pc \in {"find", "challenge"},
           UNCHANGED <<exact, balance, times>>
    PROVE  job.round \in Rounds /\ BooksRound(job.round)
<1>1. PICK c \in Rounds : c = job.round
  BY DEF Memory, Queue
<1>2. /\ round[c].st = "queued" /\ Stage(c, "booked")
      /\ round \in [Rounds -> RoundState] /\ "booked" \in Stages
  BY <1>1 DEF Memory, Queue, Finish, Shape, Stages
<1>3. /\ round'[c].st = "booked" /\ Keeps
      /\ \A d \in Rounds : d # c => round'[d] = round[d]
  BY <1>2, StageMoves DEF Keeps
<1>4. LedgerStage(c) = "landed" /\ LedgerStage(c)' = "booked"
  BY <1>2, <1>3, StageOf
<1>5. \A d \in Rounds : d # c => LedgerStage(d)' = LedgerStage(d)
  BY <1>3, StageKept
<1>6. BooksRound(c)
  BY <1>1, <1>2, <1>3, <1>4, <1>5 DEF BooksRound, Landed, Settles, AtWork
<1>7. QED
  BY <1>1, <1>6

LEMMA RestartSettles ==
    ASSUME Memory, Restart
    PROVE  Settles(Landed, "lost")
<1>1. /\ round' = [c \in Rounds |-> IF round[c].st \in {"future", "booked"} THEN round[c]
                                   ELSE [round[c] EXCEPT !.st = "lost"]]
      /\ UNCHANGED <<exact, balance, times>> /\ round \in [Rounds -> RoundState]
  BY DEF Restart, database, Memory, Shape
<1>2. \A d \in Rounds : /\ [round[d] EXCEPT !.st = "lost"].st = "lost"
                        /\ [round[d] EXCEPT !.st = "lost"].subs = round[d].subs
                        /\ [round[d] EXCEPT !.st = "lost"].reward = round[d].reward
  BY <1>1 DEF RoundState
<1>3. /\ Keeps
      /\ \A d \in Rounds : round'[d].st = IF round[d].st \in {"future", "booked"}
                                         THEN round[d].st ELSE "lost"
  BY <1>1, <1>2 DEF Keeps
<1>4. ASSUME NEW d \in Rounds
      PROVE  LedgerStage(d)' = IF d \in Landed THEN "lost" ELSE LedgerStage(d)
  <2>1. CASE round[d].st \in {"future", "booked", "lost"}
    BY <1>3, <2>1, StageOf DEF Landed
  <2>2. CASE round[d].st \notin {"future", "booked", "lost"}
    <3>1. LedgerStage(d) = "landed" /\ round'[d].st = "lost"
      BY <1>3, <2>2, StageOf
    <3>2. QED
      BY <3>1, StageOf DEF Landed
  <2>3. QED
    BY <2>1, <2>2
<1>5. QED
  BY <1>1, <1>3, <1>4 DEF Settles

\* Steps that touch neither rounds nor balances.
LEMMA NothingSettles ==
    ASSUME UNCHANGED <<exact, round, balance, times>>
    PROVE  Settles({}, "lost")
BY DEF Settles, Keeps, LedgerStage

LEMMA StepKinds ==
    ASSUME Memory, [Next]_vars
    PROVE  LedgerStep
<1>1. ASSUME NEW c \in Rounds, NEW subs \in Rosters, NEW best \in Miners,
             NEW reward \in Rewards, Land(c, subs, best, reward)
      PROVE  LandsRound(c)
  <2> DEFINE new == [st |-> "event", reward |-> reward, subs |-> subs, best |-> subs[best].nonce]
  <2>1. /\ round[c].st = "future" /\ round' = [round EXCEPT ![c] = new]
        /\ UNCHANGED <<exact, balance, times>> /\ round \in [Rounds -> RoundState]
    BY <1>1 DEF Land, environment, Memory, Shape
  <2>2. new.st = "event" /\ new.reward = reward
    OBVIOUS
  <2> HIDE DEF new
  <2>3. round'[c] = new /\ \A d \in Rounds \ {c} : round'[d] = round[d]
    BY <2>1
  <2>4. reward \in Nat \ {0}
    BY MineSuccessConstants
  <2>5. QED
    BY <2>1, <2>2, <2>3, <2>4 DEF LandsRound
<1>2. ASSUME NEW c \in Rounds, RewardTask(c) PROVE LedgerStep
  BY <1>2, TaskSettles, CommissionCredits DEF LedgerStep
<1>3. CASE UpdateRewards \/ UpdatePoolRewards
  BY <1>3, JobCreditsRound DEF LedgerStep
<1>4. CASE Receive \/ AddSubmissions \/ UNCHANGED vars
  <2>1. UNCHANGED <<exact, round, balance, times>>
    BY <1>4 DEF Receive, AddSubmissions, Settle, vars, environment, database
  <2>2. QED
    BY <2>1, NothingSettles DEF LedgerStep
<1>5. CASE FindSubmission \/ UpdateChallenge
  <2>1. /\ job.pc \in {"find", "challenge"} /\ UNCHANGED <<exact, balance, times>>
        /\ UNCHANGED round \/ Finish
    BY <1>5 DEF FindSubmission, UpdateChallenge, Settle, database
  <2>2. QED
    BY <2>1, NothingSettles, FinishBooks DEF LedgerStep
<1>6. CASE Restart
  BY <1>6, RestartSettles DEF LedgerStep
<1>7. QED
  BY <1>1, <1>2, <1>3, <1>4, <1>5, <1>6 DEF Next, MineSuccessSystem, LedgerStep

\* Nobody was credited for a round that is still to land.
FreshInv == \A c \in Rounds : round[c].st = "future" => \A a \in Accounts : times[c][a] = 0

LEMMA FreshStep == Memory /\ FreshInv /\ [Next]_vars => FreshInv'
<1> SUFFICES ASSUME Memory, FreshInv, [Next]_vars, NEW d \in Rounds, round'[d].st = "future"
             PROVE  \A a \in Accounts : times'[d][a] = 0
  BY DEF FreshInv
<1>1. LedgerStep
  BY StepKinds
<1>2. ASSUME NEW c \in Rounds, LandsRound(c) PROVE d # c /\ round[d].st = "future" /\ times' = times
  BY <1>2 DEF LandsRound
<1>3. ASSUME NEW c \in Rounds, CreditsRound(c)
      PROVE  round[d].st = "future" /\ \A a \in Accounts : times'[d][a] = times[d][a]
  <2>1. d # c /\ round'[d] = round[d]
    BY <1>3 DEF CreditsRound
  <2>2. PICK A \in SUBSET Accounts, out \in Outcomes : Credit(c, A, out)
    BY <1>3 DEF CreditsRound
  <2>3. times \in [Rounds -> [Accounts -> Nat]]
    BY DEF Memory, Shape
  <2>4. \A a \in Accounts : times'[d][a] = times[d][a]
    BY <2>1, <2>2, <2>3, CreditMoves
  <2>5. QED
    BY <2>1, <2>4
<1>4. ASSUME NEW C, NEW to \in {"booked", "lost"}, Settles(C, to)
      PROVE  round[d].st = "future" /\ times' = times
  <2>1. LedgerStage(d)' = "future" /\ times' = times
    BY <1>4, StageOf DEF Settles
  <2>2. LedgerStage(d) = "future"
    BY <1>4, <2>1 DEF Settles
  <2>3. QED
    BY <2>1, <2>2 DEF LedgerStage
<1>5. QED
  BY <1>1, <1>2, <1>3, <1>4 DEF LedgerStep, BooksRound, FreshInv

LEMMA InitFresh == Init => FreshInv
BY DEF Init, FreshInv

-----------------------------------------------------------------------------
(* The ledger's balances: what was written, without rounds still at work   *)

\* What round c has brought account a.
Paying(c, a) == times[c][a] * Due(c, a)
Part(a)      == [c \in Landed |-> Paying(c, a)]
Net(a)       == balance[a] - Pending(a)

LedgerInv == Memory /\ BalanceTyped /\ OnceInv /\ CreditedInv /\ FreshInv

LEMMA PendingIsSum ==
    ASSUME NEW a
    PROVE  /\ Pending(a) = SumFunctionOnSet(Part(a), Landed)
           /\ Pending(a)' = SumFunctionOnSet(Part(a)', Landed')
BY DEF Pending, SumFunction, Part, Paying, Landed

LEMMA RoundsFinite == IsFiniteSet(Rounds) /\ \A C \in SUBSET Rounds : IsFiniteSet(C)
<1>1. IsFiniteSet(Rounds)
  BY MineSuccessConstants, FS_Interval DEF Rounds
<1>2. QED
  BY <1>1, FS_Subset

LEMMA ProductTyped == ASSUME NEW x \in Nat, NEW y \in Nat PROVE x * y \in Nat
OBVIOUS

DuesAreNat == \A c \in Rounds, a \in Accounts : Due(c, a) \in Nat

LEMMA DuesTyped == /\ Memory => DuesAreNat
                   /\ Memory' => DuesAreNat'
<1>1. Memory => DuesAreNat
  BY DueTyped DEF DuesAreNat
<1>2. QED
  BY <1>1, PTL

LEMMA PayingTyped ==
    ASSUME Memory, NEW c \in Rounds, NEW a \in Accounts
    PROVE  Paying(c, a) \in Nat /\ times[c][a] \in Nat /\ Due(c, a) \in Nat
<1>1. times[c][a] \in Nat
  BY DEF Memory, Shape
<1>2. Due(c, a) \in Nat
  BY DueTyped
<1>3. QED
  BY <1>1, <1>2, ProductTyped DEF Paying

\* What is due depends on submissions and reward alone.
LEMMA DueKept ==
    ASSUME NEW c, NEW a, round'[c].subs = round[c].subs, round'[c].reward = round[c].reward
    PROVE  Due(c, a)' = Due(c, a) /\ Took(c)' = Took(c)
<1>1. Took(c)' = Took(c)
  BY DEF Took
<1>2. TotalHashpower(c)' = TotalHashpower(c)
  BY <1>1 DEF TotalHashpower
<1>3. CommissionOf(c)' = CommissionOf(c)
  BY DEF CommissionOf
<1>4. Share(c, a)' = Share(c, a)
  BY <1>2, <1>3 DEF Share
<1>5. QED
  BY <1>1, <1>3, <1>4 DEF Due

LEMMA PendingTyped ==
    ASSUME Memory, NEW a \in Accounts
    PROVE  Pending(a) \in Nat /\ \A c \in Landed : Part(a)[c] \in Nat
<1>1. \A c \in Landed : Part(a)[c] \in Nat
  BY PayingTyped DEF Part, Landed
<1>2. IsFiniteSet(Landed)
  BY RoundsFinite DEF Landed
<1>3. QED
  BY <1>1, <1>2, PendingIsSum, SumNat

\* A round that lands has brought nobody anything.
LEMMA LandKeepsNet ==
    ASSUME LedgerInv, Memory', NEW c \in Rounds, LandsRound(c), NEW a \in Accounts
    PROVE  Net(a)' = Net(a)
<1>1. Memory /\ BalanceTyped /\ FreshInv
  BY DEF LedgerInv
<1>2. \A d \in Rounds \ {c} : LedgerStage(d)' = LedgerStage(d)
  BY StageKept DEF LandsRound
<1>3. LedgerStage(c) = "future" /\ LedgerStage(c)' = "landed"
  BY StageOf DEF LandsRound
<1>4. Landed' = Landed \cup {c} /\ c \notin Landed /\ Landed \subseteq Rounds
  BY <1>2, <1>3 DEF Landed
<1>5. times'[c][a] = 0
  BY <1>1 DEF LandsRound, FreshInv
<1>6. \A d \in Landed : Part(a)'[d] = Part(a)[d]
  <2> SUFFICES ASSUME NEW d \in Landed PROVE Part(a)'[d] = Part(a)[d]
    OBVIOUS
  <2>1. d \in Rounds \ {c} /\ d \in Landed'
    BY <1>4
  <2>2. Part(a)'[d] = Paying(d, a)' /\ Part(a)[d] = Paying(d, a)
    BY <2>1 DEF Part
  <2>3. round'[d].subs = round[d].subs /\ round'[d].reward = round[d].reward /\ times' = times
    BY <2>1 DEF LandsRound
  <2>4. Paying(d, a)' = Paying(d, a)
    BY <2>3, DueKept DEF Paying
  <2>5. QED
    BY <2>2, <2>4
<1>7. Part(a)'[c] = 0
  <2>1. Part(a)'[c] = times'[c][a] * Due(c, a)'
    BY <1>4 DEF Part, Paying
  <2>2. Due(c, a)' \in Nat
    BY DuesTyped DEF DuesAreNat
  <2>3. QED
    BY <1>5, <2>1, <2>2
<1>8. IsFiniteSet(Landed) /\ IsFiniteSet(Landed')
  BY <1>4, RoundsFinite
<1>9. SumFunctionOnSet(Part(a)', Landed') = SumFunctionOnSet(Part(a), Landed)
  <2>1. \A d \in Landed : Part(a)[d] \in Int
    BY <1>1, PendingTyped
  <2>2. \A d \in Landed' : Part(a)'[d] \in Int
    BY <1>4, <1>6, <1>7, <2>1
  <2>3. Landed \in SUBSET Landed' /\ \A d \in Landed' \ Landed : Part(a)'[d] = 0
    BY <1>4, <1>7
  <2>4. SumFunctionOnSet(Part(a)', Landed') = SumFunctionOnSet(Part(a)', Landed)
    BY <1>8, <2>2, <2>3, SumWithoutZeros
  <2>5. SumFunctionOnSet(Part(a)', Landed) = SumFunctionOnSet(Part(a), Landed)
    BY <1>6, <1>8, SumSame
  <2>6. QED
    BY <2>4, <2>5
<1>10. QED
  BY <1>9, PendingIsSum DEF Net, LandsRound

\* A credit counts as pending as long as its round is at work.
LEMMA CreditKeepsNet ==
    ASSUME LedgerInv, NEW c \in Rounds, CreditsRound(c), NEW a \in Accounts
    PROVE  Net(a)' = Net(a) /\ \A d \in Rounds : LedgerStage(d)' = LedgerStage(d)
<1>1. /\ Memory /\ balance \in [Accounts -> Nat] /\ times \in [Rounds -> [Accounts -> Nat]]
  BY DEF LedgerInv, BalanceTyped, Memory, Shape
<1>2. \A d \in Rounds : LedgerStage(d)' = LedgerStage(d)
  <2>1. LedgerStage(c)' = "landed" /\ LedgerStage(c) = "landed"
    BY StageOf DEF CreditsRound
  <2>2. QED
    BY <2>1, StageKept DEF CreditsRound
<1>3. /\ Landed' = Landed /\ c \in Landed /\ Landed \subseteq Rounds /\ IsFiniteSet(Landed)
  BY <1>2, RoundsFinite, StageOf DEF Landed, CreditsRound
<1>4. \A d \in Rounds : Due(d, a)' = Due(d, a)
  BY DueKept DEF CreditsRound
<1>5. PICK A \in SUBSET Accounts, out \in Outcomes : Credit(c, A, out)
  BY DEF CreditsRound
<1> DEFINE paid == Applied(out) /\ a \in A
<1>6. balance'[a] = IF paid THEN balance[a] + Due(c, a) ELSE balance[a]
  BY <1>1, <1>5, CreditPays
<1>7. \A d \in Rounds : times'[d][a] = IF paid /\ d = c THEN times[d][a] + 1 ELSE times[d][a]
  <2>1. \A d \in Rounds, b \in Accounts :
           times'[d][b] = IF Applied(out) /\ d = c /\ b \in A THEN times[d][b] + 1
                                                             ELSE times[d][b]
    BY <1>1, <1>5, CreditMoves
  <2>2. QED
    BY <2>1
<1> HIDE DEF paid
<1>8. \A d \in Landed : /\ Part(a)[d] = times[d][a] * Due(d, a)
                       /\ Part(a)'[d] = times'[d][a] * Due(d, a)
                       /\ times[d][a] \in Nat /\ Due(d, a) \in Nat
                       /\ Part(a)[d] \in Int
  BY <1>1, <1>3, <1>4, PayingTyped DEF Part, Paying
<1>9. CASE ~paid
  <2>1. \A d \in Landed : Part(a)'[d] = Part(a)[d]
    BY <1>3, <1>7, <1>8, <1>9
  <2>2. SumFunctionOnSet(Part(a)', Landed) = SumFunctionOnSet(Part(a), Landed)
    BY <1>3, <2>1, SumSame
  <2>3. QED
    BY <1>2, <1>3, <1>6, <1>9, <2>2, PendingIsSum DEF Net
<1>10. CASE paid
  <2>1. \A d \in Landed \ {c} : Part(a)'[d] = Part(a)[d]
    BY <1>3, <1>7, <1>8
  <2>2. Part(a)'[c] = Part(a)[c] + Due(c, a)
    <3> DEFINE n == times[c][a]
               u == Due(c, a)
    <3>1. Part(a)'[c] = (n + 1) * u /\ Part(a)[c] = n * u /\ n \in Nat /\ u \in Nat
      BY <1>3, <1>7, <1>8, <1>10
    <3> HIDE DEF n, u
    <3>2. (n + 1) * u = n * u + u
      BY <3>1
    <3>3. Part(a)'[c] = Part(a)[c] + u
      BY <3>1, <3>2
    <3>4. QED
      BY <3>3 DEF u
  <2>3. \A d \in Landed : Part(a)[d] \in Int /\ Part(a)'[d] \in Int
    BY <1>3, <1>8, <2>1, <2>2
  <2>4. SumFunctionOnSet(Part(a)', Landed)
          = SumFunctionOnSet(Part(a), Landed) - Part(a)[c] + Part(a)'[c]
    <3> DEFINE f == Part(a)
               g == Part(a)'
               S == Landed
    <3>1. /\ IsFiniteSet(S) /\ c \in S
          /\ \A d \in S : f[d] \in Int /\ g[d] \in Int
          /\ \A d \in S \ {c} : f[d] = g[d]
      BY <1>3, <2>1, <2>3
    <3> HIDE DEF f, g, S
    <3>2. SumFunctionOnSet(g, S) = SumFunctionOnSet(f, S) - f[c] + g[c]
      BY <3>1, SumChange
    <3>3. QED
      BY <3>2 DEF f, g, S
  <2>5. Pending(a)' = Pending(a) + Due(c, a)
    <3>1. SumFunctionOnSet(Part(a), Landed) \in Int
      BY <1>3, <1>8, SumInt
    <3>2. QED
      BY <1>3, <1>8, <2>2, <2>4, <3>1, PendingIsSum
  <2>6. Pending(a) \in Nat /\ balance[a] \in Nat /\ Due(c, a) \in Nat
    BY <1>1, PendingTyped, DueTyped
  <2>7. QED
    BY <1>2, <1>6, <1>10, <2>5, <2>6 DEF Net
<1>11. QED
  BY <1>9, <1>10

\* Rounds that are settled leave what they have brought.
LEMMA SettleReleases ==
    ASSUME LedgerInv, NEW C \in SUBSET Landed, NEW to \in {"booked", "lost"},
           Settles(C, to), NEW a \in Accounts
    PROVE  Net(a)' - Net(a) = SumFunctionOnSet(Part(a), C)
<1>1. Memory /\ balance[a] \in Nat
  BY DEF LedgerInv, BalanceTyped
<1>2. Landed' = Landed \ C /\ Landed \subseteq Rounds
  BY DEF Landed, Settles
<1>3. IsFiniteSet(Landed) /\ IsFiniteSet(Landed \ C) /\ IsFiniteSet(C)
  BY <1>2, RoundsFinite
<1>4. \A d \in Landed : Part(a)[d] \in Int
  BY <1>1, PendingTyped
<1>5. \A d \in Landed \ C : Part(a)'[d] = Part(a)[d]
  <2> SUFFICES ASSUME NEW d \in Landed \ C PROVE Part(a)'[d] = Part(a)[d]
    OBVIOUS
  <2>1. Part(a)'[d] = Paying(d, a)' /\ Part(a)[d] = Paying(d, a)
    BY <1>2 DEF Part
  <2>2. Due(d, a)' = Due(d, a)
    BY <1>2, DueKept DEF Settles, Keeps
  <2>3. QED
    BY <2>1, <2>2 DEF Paying, Settles
<1>6. Pending(a)' = SumFunctionOnSet(Part(a), Landed \ C)
  BY <1>2, <1>3, <1>5, PendingIsSum, SumSame
<1>7. Pending(a) = SumFunctionOnSet(Part(a), Landed \ C) + SumFunctionOnSet(Part(a), C)
  BY <1>3, <1>4, PendingIsSum, SumSplit
<1>8. SumFunctionOnSet(Part(a), Landed \ C) \in Int /\ SumFunctionOnSet(Part(a), C) \in Int
  BY <1>3, <1>4, SumInt
<1>9. balance' = balance
  BY DEF Settles
<1>10. QED
  BY <1>1, <1>6, <1>7, <1>8, <1>9 DEF Net

-----------------------------------------------------------------------------
(* Every step of the model is one of the ledger                            *)

\* The instance has the library's operators under names of its own.
LEMMA BookedLibrary ==
    /\ \A f, S : Booked!SumFunctionOnSet(f, S) = SumFunctionOnSet(f, S)
    /\ \A S : Booked!Cardinality(S) = Cardinality(S)
<1>1. ASSUME NEW f, NEW S PROVE Booked!SumFunctionOnSet(f, S) = SumFunctionOnSet(f, S)
  BY DEF Booked!SumFunctionOnSet, Booked!FoldFunctionOnSet, Booked!MapThenFoldSet,
         SumFunctionOnSet, FoldFunctionOnSet, MapThenFoldSet
<1>2. ASSUME NEW S PROVE Booked!Cardinality(S) = Cardinality(S)
  BY DEF Booked!Cardinality, Booked!IsFiniteSet, Cardinality, IsFiniteSet
<1>3. QED
  BY <1>1, <1>2

LEMMA SpreadIsSum == Booked!Spread = SumFunctionOnSet(Booked!Gain, Earners)
BY BookedLibrary DEF Booked!Spread, Earners

LEMMA GainIsNet ==
    /\ Booked!Accounts = Accounts
    /\ \A a \in Accounts : Booked!Gain[a] = Net(a)' - Net(a)
<1>1. Booked!Accounts = Accounts
  BY DEF Booked!Accounts, Accounts
<1>2. Booked!Gain = [a \in Accounts |-> Net(a)' - Net(a)]
  BY <1>1 DEF Booked!Gain, Net
<1>3. QED
  BY <1>1, <1>2

LEMMA LandIsLand ==
    ASSUME LedgerInv, Memory', NEW c \in Rounds, LandsRound(c)
    PROVE  Booked!Land(c)
<1>1. LedgerStage(c) = "future" /\ LedgerStage(c)' = "landed"
  BY StageOf DEF LandsRound
<1>2. \A d \in Rounds : d # c => LedgerStage(d)' = LedgerStage(d) /\ round'[d] = round[d]
  BY StageKept DEF LandsRound
<1>3. \A a \in Accounts : balance'[a] - Pending(a)' = balance[a] - Pending(a)
  BY LandKeepsNet DEF Net
<1>4. exact' = exact /\ round'[c].reward \in Nat \ {0}
  BY DEF LandsRound
<1>5. [d \in Rounds |-> LedgerStage(d)'] = [[d \in Rounds |-> LedgerStage(d)] EXCEPT ![c] = "landed"]
  BY <1>1, <1>2
<1>6. [d \in Rounds |-> round'[d].reward]
         = [[d \in Rounds |-> round[d].reward] EXCEPT ![c] = round'[c].reward]
  BY <1>2
<1>7. [a \in Accounts |-> balance'[a] - Pending(a)'] = [a \in Accounts |-> balance[a] - Pending(a)]
  BY <1>3
<1>8. QED
  BY <1>1, <1>4, <1>5, <1>6, <1>7 DEF Booked!Land

LEMMA CreditIsNothing ==
    ASSUME LedgerInv, NEW c \in Rounds, CreditsRound(c)
    PROVE  UNCHANGED Booked!vars
<1>1. /\ \A d \in Rounds : LedgerStage(d)' = LedgerStage(d)
      /\ \A d \in Rounds : round'[d].reward = round[d].reward
      /\ exact' = exact
  BY CreditKeepsNet, AccountsDiffer DEF CreditsRound
<1>2. \A a \in Accounts : balance'[a] - Pending(a)' = balance[a] - Pending(a)
  BY CreditKeepsNet DEF Net
<1>3. QED
  BY <1>1, <1>2 DEF Booked!vars

LEMMA LandedHasSubmissions == Memory => \A c \in Landed : Took(c) # {}
<1> SUFFICES ASSUME Memory, NEW c \in Landed PROVE Took(c) # {}
  OBVIOUS
<1>1. c \in Rounds /\ round[c].st # "future"
  BY StageOf DEF Landed
<1>2. QED
  BY <1>1 DEF Memory, BestTaken

\* What a round has brought the rows of the rewards table together.
Spent(c) == [a \in Earners |-> Paying(c, a)]

LEMMA EarnersAre ==
    /\ IsFiniteSet(Earners) /\ Cardinality(Earners) \in Nat
    /\ \A a \in Earners : a \in Accounts /\ (a \in Miners \/ a = Commission)
<1>1. IsFiniteSet(Miners)
  BY MineSuccessConstants
<1>2. QED
  BY <1>1, FS_AddElement, FS_CardinalityType DEF Earners, Accounts

LEMMA SpentAddsUp ==
    ASSUME Memory, NEW c \in Landed
    PROVE  /\ SumFunctionOnSet(Spent(c), Earners) \in Nat
           /\ (\A a \in Earners : times[c][a] <= 1)
                 => SumFunctionOnSet(Spent(c), Earners) <= round[c].reward
           /\ (\A a \in Took(c) \cup {Commission} : times[c][a] >= 1)
                 => SumFunctionOnSet(Spent(c), Earners) > round[c].reward - Cardinality(Earners)
<1>1. c \in Rounds /\ Took(c) # {}
  BY LandedHasSubmissions DEF Landed
<1> DEFINE spent == SumFunctionOnSet(Spent(c), Earners)
           dues  == SumFunctionOnSet(Dues(c), Earners)
           r     == round[c].reward
           n     == Cardinality(Earners)
<1>2. /\ dues \in Nat /\ dues <= r /\ r - n < dues /\ r \in Nat /\ n \in Nat
      /\ IsFiniteSet(Earners)
  BY <1>1, DuesAddUp, CommissionTyped, EarnersAre
<1>3. \A a \in Earners : /\ Spent(c)[a] = times[c][a] * Dues(c)[a]
                         /\ Spent(c)[a] \in Nat /\ Dues(c)[a] \in Nat /\ times[c][a] \in Nat
  <2> SUFFICES ASSUME NEW a \in Earners
               PROVE  /\ Spent(c)[a] = times[c][a] * Dues(c)[a]
                      /\ Spent(c)[a] \in Nat /\ Dues(c)[a] \in Nat /\ times[c][a] \in Nat
    OBVIOUS
  <2>1. a \in Accounts
    BY EarnersAre
  <2>2. Spent(c)[a] = Paying(c, a) /\ Dues(c)[a] = Due(c, a)
    BY <2>1 DEF Spent, Dues
  <2>3. QED
    BY <1>1, <2>1, <2>2, PayingTyped DEF Paying
<1>4. spent \in Nat
  BY <1>2, <1>3, SumNat
<1>5. ASSUME \A a \in Earners : times[c][a] <= 1
      PROVE  spent <= r
  <2>1. ASSUME NEW a \in Earners
        PROVE  Spent(c)[a] \in Int /\ Dues(c)[a] \in Int /\ Spent(c)[a] <= Dues(c)[a]
    <3>1. times[c][a] = 0 \/ times[c][a] = 1
      BY <1>3, <1>5
    <3>2. QED
      BY <1>3, <3>1
  <2>2. spent <= dues
    BY <1>2, <2>1, SumMonotonic
  <2> HIDE DEF spent, dues, r, n
  <2>3. QED
    BY <1>2, <1>4, <2>2
<1>6. ASSUME \A a \in Took(c) \cup {Commission} : times[c][a] >= 1
      PROVE  spent > r - n
  <2>1. ASSUME NEW a \in Earners
        PROVE  Spent(c)[a] \in Int /\ Dues(c)[a] \in Int /\ Dues(c)[a] <= Spent(c)[a]
    <3> DEFINE t == times[c][a]
               u == Dues(c)[a]
    <3>1. t \in Nat /\ u \in Nat /\ Spent(c)[a] = t * u
      BY <1>3
    <3>2. t >= 1 \/ u = 0
      <4>1. CASE a \in Took(c) \cup {Commission}
        BY <1>6, <4>1
      <4>2. CASE a \notin Took(c) \cup {Commission}
        BY <4>2, EarnersAre, AccountsDiffer DEF Dues, Due
      <4>3. QED
        BY <4>1, <4>2
    <3> HIDE DEF t, u
    <3>3. t * u \in Nat /\ u <= t * u
      BY <3>1, <3>2
    <3>4. QED
      BY <3>1, <3>3 DEF u
  <2>2. dues <= spent
    BY <1>2, <2>1, SumMonotonic
  <2> HIDE DEF spent, dues, r, n
  <2>3. QED
    BY <1>2, <1>4, <2>2
<1>7. QED
  BY <1>4, <1>5, <1>6

\* What settled rounds have brought the rows of the rewards table together, round by
\* round instead of account by account.
LEMMA SpreadIsSpent ==
    ASSUME Memory, NEW C \in SUBSET Landed, NEW gain,
           \A a \in Earners : gain[a] = SumFunctionOnSet(Part(a), C)
    PROVE  SumFunctionOnSet(gain, Earners)
             = SumFunctionOnSet([c \in C |-> SumFunctionOnSet(Spent(c), Earners)], C)
<1> DEFINE table == [a \in Earners |-> Part(a)]
           row   == [a \in Earners |-> SumFunctionOnSet(table[a], C)]
           col   == [c \in C |-> SumFunctionOnSet([a \in Earners |-> table[a][c]], Earners)]
<1>1. IsFiniteSet(C) /\ IsFiniteSet(Earners) /\ C \subseteq Rounds
  BY RoundsFinite, EarnersAre DEF Landed
<1>2. \A a \in Earners, c \in C : table[a][c] \in Int
  <2> SUFFICES ASSUME NEW a \in Earners, NEW c \in C PROVE table[a][c] \in Int
    OBVIOUS
  <2>1. Part(a)[c] \in Nat
    BY PendingTyped, EarnersAre
  <2>2. QED
    BY <2>1
<1>3. SumFunctionOnSet(row, Earners) = SumFunctionOnSet(col, C)
  <2> HIDE DEF table
  <2>1. QED
    BY <1>1, <1>2, SumSwap
<1>4. SumFunctionOnSet(gain, Earners) = SumFunctionOnSet(row, Earners)
  <2>1. \A a \in Earners : gain[a] = row[a]
    OBVIOUS
  <2> HIDE DEF row
  <2>2. QED
    BY <1>1, <2>1, SumSame
<1>5. \A c \in C : [a \in Earners |-> table[a][c]] = Spent(c)
  <2> SUFFICES ASSUME NEW c \in C PROVE [a \in Earners |-> table[a][c]] = Spent(c)
    OBVIOUS
  <2>1. \A a \in Earners : table[a][c] = Paying(c, a)
    BY DEF Part
  <2>2. QED
    BY <2>1 DEF Spent
<1>6. col = [c \in C |-> SumFunctionOnSet(Spent(c), Earners)]
  BY <1>5
<1>7. QED
  BY <1>3, <1>4, <1>6

LEMMA LostIsLost ==
    ASSUME LedgerInv, NEW C \in SUBSET Landed, Settles(C, "lost")
    PROVE  Booked!Lose(C)
<1>1. Memory /\ C \subseteq Rounds /\ IsFiniteSet(C)
  BY RoundsFinite DEF LedgerInv, Landed
<1> DEFINE reward == [c \in Rounds |-> round[c].reward]
           most   == SumFunctionOnSet(reward, C)
           spent  == [c \in C |-> SumFunctionOnSet(Spent(c), Earners)]
<1>2. ASSUME NEW a \in Accounts
      PROVE  /\ Booked!Gain[a] = SumFunctionOnSet(Part(a), C)
             /\ SumFunctionOnSet(Part(a), C) \in Nat
  <2>1. \A c \in C : Part(a)[c] \in Nat
    BY <1>1, PendingTyped
  <2>2. SumFunctionOnSet(Part(a), C) \in Nat
    BY <1>1, <2>1, SumNat
  <2>3. QED
    BY <2>2, SettleReleases, GainIsNet
<1>3. ASSUME exact PROVE Booked!Gain[Pool] <= most
  <2>1. ASSUME NEW c \in C
        PROVE  Part(Pool)[c] \in Int /\ reward[c] \in Int /\ Part(Pool)[c] <= reward[c]
    <3>1. Part(Pool)[c] = times[c][Pool] * round[c].reward
      BY AccountsDiffer DEF Part, Paying, Due
    <3>2. times[c][Pool] = 0 \/ times[c][Pool] = 1
      <4>1. times[c][Pool] \in Nat /\ times[c][Pool] <= 1
        BY <1>1, <1>3, PayingTyped, AccountsDiffer DEF LedgerInv, OnceInv, Once
      <4>2. QED
        BY <4>1
    <3>3. round[c].reward \in Nat
      BY <1>1, CommissionTyped
    <3>4. QED
      BY <1>1, <3>1, <3>2, <3>3
  <2>2. SumFunctionOnSet(Part(Pool), C) <= most
    <3> HIDE DEF reward
    <3>1. QED
      BY <1>1, <2>1, SumMonotonic
  <2>3. QED
    BY <1>2, <2>2, AccountsDiffer
<1>4. ASSUME exact PROVE Booked!Spread <= most
  <2>1. \A a \in Earners : Booked!Gain[a] = SumFunctionOnSet(Part(a), C)
    BY <1>2, EarnersAre
  <2>2. SumFunctionOnSet(Booked!Gain, Earners) = SumFunctionOnSet(spent, C)
    BY <1>1, <2>1, SpreadIsSpent
  <2>3. ASSUME NEW c \in C
        PROVE  spent[c] \in Int /\ reward[c] \in Int /\ spent[c] <= reward[c]
    <3>1. \A a \in Earners : times[c][a] <= 1
      BY <1>1, <1>4, EarnersAre DEF LedgerInv, OnceInv, Once
    <3>2. round[c].reward \in Nat /\ reward[c] = round[c].reward
      BY <1>1, CommissionTyped
    <3>3. QED
      BY <1>1, <3>1, <3>2, SpentAddsUp
  <2>4. SumFunctionOnSet(spent, C) <= most
    <3> HIDE DEF reward, spent
    <3>1. QED
      BY <1>1, <2>3, SumMonotonic
  <2>5. QED
    BY <2>2, <2>4, SpreadIsSum
<1>5. \A a \in Booked!Accounts : Booked!Gain[a] >= 0
  BY <1>2, GainIsNet
<1>6. /\ \A c \in C : [d \in Rounds |-> LedgerStage(d)][c] = "landed"
      /\ [d \in Rounds |-> LedgerStage(d)']
           = [c \in Rounds |-> IF c \in C THEN "lost" ELSE [d \in Rounds |-> LedgerStage(d)][c]]
  BY <1>1 DEF Settles, Landed
<1>7. /\ exact' = exact
      /\ [c \in Rounds |-> round'[c].reward] = [c \in Rounds |-> round[c].reward]
  BY DEF Settles, Keeps
<1>8. QED
  BY <1>3, <1>4, <1>5, <1>6, <1>7, BookedLibrary DEF Booked!Lose

LEMMA BookIsBook ==
    ASSUME LedgerInv, NEW c \in Rounds, BooksRound(c)
    PROVE  Booked!Book(c)
<1>1. /\ Memory /\ c \in Landed /\ {c} \in SUBSET Landed /\ Settles({c}, "booked")
  BY DEF LedgerInv, BooksRound
<1>2. ASSUME NEW a \in Accounts
      PROVE  Booked!Gain[a] = Paying(c, a) /\ Paying(c, a) \in Nat
  <2>1. Part(a)[c] = Paying(c, a) /\ Paying(c, a) \in Nat /\ Part(a)[c] \in Int
    BY <1>1, PayingTyped DEF Part
  <2>2. SumFunctionOnSet(Part(a), {c}) = Part(a)[c]
    BY <2>1, SumSingle
  <2>3. Net(a)' - Net(a) = SumFunctionOnSet(Part(a), {c})
    BY <1>1, SettleReleases
  <2>4. QED
    BY <2>1, <2>2, <2>3, GainIsNet
<1>3. \A a \in Took(c) \cup {Commission, Pool} : times[c][a] >= 1
  <2>1. Credited(c)
    BY DEF LedgerInv, CreditedInv
  <2>2. \A m \in Took(c) : Paid(m)
    BY DEF Paid, BooksRound
  <2>3. QED
    BY <2>1, <2>2 DEF Credited, BooksRound
<1>4. exact => \A a \in Accounts : times[c][a] <= 1
  BY DEF LedgerInv, OnceInv, Once
<1>5. Booked!Spread = SumFunctionOnSet(Spent(c), Earners)
  <2>1. \A a \in Earners : Booked!Gain[a] = Spent(c)[a]
    BY <1>2, EarnersAre DEF Spent
  <2>2. SumFunctionOnSet(Booked!Gain, Earners) = SumFunctionOnSet(Spent(c), Earners)
    BY <2>1, EarnersAre, SumSame
  <2>3. QED
    BY <2>2, SpreadIsSum
<1>6. /\ Booked!Spread > round[c].reward - Booked!Cardinality(Miners \cup {Commission})
      /\ exact => Booked!Spread <= round[c].reward
  <2>1. exact => \A a \in Earners : times[c][a] <= 1
    BY <1>4, EarnersAre
  <2>2. QED
    BY <1>1, <1>3, <1>5, <2>1, SpentAddsUp, BookedLibrary DEF Earners
<1>7. Booked!Gain[Pool] >= round[c].reward /\ (exact => Booked!Gain[Pool] = round[c].reward)
  <2> DEFINE t == times[c][Pool]
             r == round[c].reward
             g == Booked!Gain[Pool]
  <2>1. t \in Nat /\ t >= 1 /\ (exact => t <= 1) /\ r \in Nat /\ g = t * r
    <3>1. g = Paying(c, Pool) /\ Paying(c, Pool) = t * r
      BY <1>2, AccountsDiffer DEF Paying, Due
    <3>2. t \in Nat /\ r \in Nat
      BY <1>1, PayingTyped, CommissionTyped, AccountsDiffer
    <3>3. QED
      BY <1>3, <1>4, <3>1, <3>2, AccountsDiffer
  <2> HIDE DEF t, r, g
  <2>2. g >= r
    BY <2>1
  <2>3. t = 1 => g = r
    BY <2>1
  <2>4. exact => t = 1
    BY <2>1
  <2>5. QED
    BY <2>2, <2>3, <2>4 DEF g, r
<1>8. \A a \in Booked!Accounts : Booked!Gain[a] >= 0
  BY <1>2, GainIsNet
<1>9. /\ LedgerStage(c) = "landed"
      /\ [d \in Rounds |-> LedgerStage(d)']
           = [[d \in Rounds |-> LedgerStage(d)] EXCEPT ![c] = "booked"]
  BY <1>1 DEF Settles, Landed
<1>10. /\ exact' = exact
       /\ [d \in Rounds |-> round'[d].reward] = [d \in Rounds |-> round[d].reward]
  BY <1>1 DEF Settles, Keeps
<1>11. QED
  BY <1>6, <1>7, <1>8, <1>9, <1>10 DEF Booked!Book

LEMMA InitIsInit == Init => Booked!Init
<1> SUFFICES ASSUME Init PROVE Booked!Init
  OBVIOUS
<1>1. \A c \in Rounds : round[c].st = "future" /\ round[c].reward = 0
  BY DEF Init, NotYet
<1>2. \A c \in Rounds : LedgerStage(c) = "future"
  BY <1>1 DEF LedgerStage
<1>3. Landed = {}
  BY <1>2 DEF Landed
<1>4. \A a \in Accounts : balance[a] - Pending(a) = 0
  BY <1>3, PendingIsSum, SumEmpty DEF Init
<1>5. exact \in BOOLEAN /\ Booked!Accounts = Accounts
  BY GainIsNet DEF Init
<1>6. QED
  BY <1>1, <1>2, <1>4, <1>5 DEF Booked!Init

LEMMA StepIsStep == LedgerInv /\ Memory' /\ [Next]_vars => [Booked!Next]_(Booked!vars)
<1> SUFFICES ASSUME LedgerInv, Memory', [Next]_vars PROVE [Booked!Next]_(Booked!vars)
  OBVIOUS
<1>1. LedgerStep
  BY StepKinds DEF LedgerInv
<1>2. ASSUME NEW C \in SUBSET Landed, Settles(C, "lost") PROVE Booked!Next
  <2>1. Booked!Lose(C) /\ C \in SUBSET Rounds
    BY <1>2, LostIsLost DEF Landed
  <2>2. QED
    BY <2>1 DEF Booked!Next
<1>3. ASSUME NEW c \in Rounds, LandsRound(c) \/ BooksRound(c) PROVE Booked!Next
  BY <1>3, LandIsLand, BookIsBook DEF Booked!Next
<1>4. ASSUME NEW c \in Rounds, CreditsRound(c) PROVE UNCHANGED Booked!vars
  BY <1>4, CreditIsNothing
<1>5. QED
  BY <1>1, <1>2, <1>3, <1>4 DEF LedgerStep

\* Reward tasks, batches, retries and restarts amount to the ledger: a round is
\* booked as a whole, with the reward to the pool and to those who are paid no more
\* than it and no less but for rounding, or is lost.
THEOREM LedgerImplemented == Spec => ImplementsLedger
<1>1. Init => LedgerInv
  BY InitMemory, InitBalance, InitOnce, InitCredited, InitFresh DEF LedgerInv
<1>2. LedgerInv /\ [Next]_vars => LedgerInv'
  BY MemoryStep, BalanceStep, OnceStep, CreditedStep, FreshStep DEF LedgerInv
<1>3. LedgerInv' => Memory'
  BY DEF LedgerInv
<1>4. QED
  BY <1>1, <1>2, <1>3, InitIsInit, StepIsStep, PTL DEF Spec, ImplementsLedger, Booked!Spec
=============================================================================
