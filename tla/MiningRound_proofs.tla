------------------------- MODULE MiningRound_proofs -------------------------
(***************************************************************************)
(* Proofs about MiningRound, for any number of miners, difficulties,       *)
(* resending tasks, attempts and challenges, and any faults.               *)
(***************************************************************************)
EXTENDS MiningRound, TLAPS

\* What a task holds by the time it is going to use it.
HandlerReady == handler.pc # "idle" => handler.sol \in Solution

MainReady ==
    /\ main.pc # "wait" => main.old \in Challenges
    /\ main.pc \in {"attempt", "send", "confirm", "refresh"} => main.best \in Solution
    /\ main.pc \in {"rpc_epoch", "rpc_open", "rpc_db", "compare", "ws_epoch", "ws_open", "ws_db"}
         => main.latest \in Challenges

ResendersReady ==
    \A s \in Resenders :
        /\ resender[s].pc # "idle" => resender[s].old \in Challenges
        /\ resender[s].pc \notin {"idle", "loop", "check"} => resender[s].latest \in Challenges

Ready == TypeOK /\ HandlerReady /\ MainReady /\ ResendersReady

LEMMA ChallengeNumbers ==
    /\ 1 \in Challenges
    /\ 0 \notin Challenges
    /\ \A c \in Challenges : c <= MaxChallenge => c + 1 \in Challenges
BY RoundConstants DEF Challenges

LEMMA Solutions ==
    /\ None \notin Solution
    /\ None \in Maybe
    /\ NoSubmissions \in [Miners -> Maybe]
    /\ \A sol \in Solution : sol \in Maybe /\ sol.diff \in Nat /\ sol.diff > 0
    /\ \A sol \in Maybe : sol.diff \in Diffs \cup {0} /\ sol.diff \in Nat
<1>1. \A sol \in Solution : sol.ch \in Challenges /\ sol.diff \in Diffs
  BY DEF Solution
<1>2. None \notin Solution
  BY <1>1, ChallengeNumbers DEF None
<1>3. \A sol \in Solution : sol.diff \in Nat /\ sol.diff > 0
  <2>1. \A d \in Diffs : d \in Nat /\ d > 0
    BY RoundConstants
  <2>2. QED
    BY <1>1, <2>1
<1>4. None.diff = 0
  BY DEF None
<1>5. QED
  BY <1>1, <1>2, <1>3, <1>4 DEF Maybe, NoSubmissions

LEMMA IdleStates ==
    /\ NoMessage \in Handling
    /\ Waiting \in Looping
    /\ NoResender \in Resending
    /\ NoTx \in Tx
<1>1. \E w \in Miners : TRUE
  BY RoundConstants
<1>2. (CHOOSE m \in Miners : TRUE) \in Miners
  BY <1>1
<1>3. 0 \in 0 .. MaxAttempts - 1
  BY RoundConstants
<1>4. QED
  BY <1>2, <1>3, Solutions
     DEF NoMessage, Waiting, NoResender, NoTx, Handling, Looping, Resending, Tx,
         HandlerPCs, MainPCs, ResenderPCs

\* What the steps of the tasks do to their own record.
LEMMA MainMoves ==
    ASSUME main \in Looping, NEW pc \in MainPCs
    PROVE  MainGoto(pc) =>
             main' \in Looping /\ main'.pc = pc /\ main'.old = main.old
             /\ main'.best = main.best /\ main'.snapshot = main.snapshot
             /\ main'.latest = main.latest
BY DEF MainGoto, Looping

LEMMA NextAttemptMoves ==
    ASSUME main \in Looping, NextAttempt
    PROVE  /\ main' \in Looping /\ main'.pc \in {"attempt", "drop_epoch"}
           /\ main'.old = main.old /\ main'.best = main.best /\ main'.snapshot = main.snapshot
<1>1. main.attempt \in 0 .. MaxAttempts - 1
  BY DEF Looping
<1>2. main.attempt + 1 < MaxAttempts => main.attempt + 1 \in 0 .. MaxAttempts - 1
  BY <1>1, RoundConstants
<1>3. QED
  BY <1>2 DEF NextAttempt, Looping, MainPCs

LEMMA ResenderMoves ==
    ASSUME Ready, NEW s \in Resenders, NEW pc \in ResenderPCs
    PROVE  /\ ResenderEnds(s) => resender' \in [Resenders -> Resending] /\ ResendersReady'
           /\ ResenderGoto(s, pc)
                /\ (\/ pc \in {"loop", "check"} /\ resender[s].pc # "idle"
                    \/ resender[s].pc \notin {"idle", "loop", "check"})
              => resender' \in [Resenders -> Resending] /\ ResendersReady'
<1> USE DEF Ready, TypeOK
<1>1. resender[s] \in Resending
  OBVIOUS
<1>2. [resender[s] EXCEPT !.pc = pc] \in Resending
  BY <1>1 DEF Resending
<1>3. ASSUME ResenderEnds(s) PROVE resender' \in [Resenders -> Resending] /\ ResendersReady'
  BY <1>3, IdleStates DEF ResenderEnds, ResendersReady, NoResender
<1>4. ASSUME ResenderGoto(s, pc),
             \/ pc \in {"loop", "check"} /\ resender[s].pc # "idle"
             \/ resender[s].pc \notin {"idle", "loop", "check"}
      PROVE  resender' \in [Resenders -> Resending] /\ ResendersReady'
  <2>1. resender' = [resender EXCEPT ![s] = [resender[s] EXCEPT !.pc = pc]]
    BY <1>4 DEF ResenderGoto
  <2>2. resender' \in [Resenders -> Resending]
    BY <1>2, <2>1
  <2>3. /\ resender'[s].pc = pc
        /\ resender'[s].old = resender[s].old
        /\ resender'[s].latest = resender[s].latest
    BY <1>1, <2>1 DEF Resending
  <2>4. \A t \in Resenders \ {s} : resender'[t] = resender[t]
    BY <2>1
  <2>5. QED
    BY <1>4, <2>2, <2>3, <2>4 DEF ResendersReady
<1>5. QED
  BY <1>3, <1>4

LEMMA StopMoves ==
    ASSUME Ready, StopResender
    PROVE  resender' \in [Resenders -> Resending] /\ ResendersReady'
<1> USE DEF Ready, TypeOK
<1>1. ASSUME NEW s \in Resenders
      PROVE  /\ resender'[s] \in Resending
             /\ resender'[s].pc = resender[s].pc
             /\ resender'[s].old = resender[s].old
             /\ resender'[s].latest = resender[s].latest
  BY DEF StopResender, Resending
<1>2. resender' \in [Resenders -> Resending]
  BY <1>1 DEF StopResender
<1>3. QED
  BY <1>1, <1>2 DEF ResendersReady

LEMMA ResetMoves ==
    ASSUME TypeOK, NEW c \in Challenges, ResetEpoch(c)
    PROVE  epochChallenge' \in Challenges /\ best' \in Maybe /\ submissions' \in [Miners -> Maybe]
BY Solutions DEF ResetEpoch

LEMMA HandlerKeepsReady == Ready /\ HandleSubmission => Ready'
<1> SUFFICES ASSUME Ready, HandleSubmission PROVE Ready'
  OBVIOUS
<1> USE DEF Ready, TypeOK, epoch, outside
<1>m. UNCHANGED <<main, resender>>
  BY DEF HandleSubmission, TakeMessage, Validate, CloneSubmissions, InsertSubmission
<1>0. MainReady' /\ ResendersReady'
  BY <1>m DEF MainReady, ResendersReady
<1>a. /\ handler.pc \in HandlerPCs /\ handler.miner \in Miners
      /\ handler.sol \in Maybe /\ handler.old \in Diffs \cup {0}
  BY DEF Handling
<1>b. NoMessage \in Handling /\ NoMessage.pc = "idle"
  BY IdleStates DEF NoMessage
<1>1. ASSUME NEW m \in Miners, NEW sol \in Solution, TakeMessage(m, sol) PROVE Ready'
  <2>1. sol \in Maybe
    BY Solutions
  <2>2. handler' \in Handling /\ handler'.sol = sol
    BY <1>1, <2>1 DEF TakeMessage, Handling, HandlerPCs
  <2>3. QED
    BY <1>0, <1>1, <2>2 DEF TakeMessage, HandlerReady
<1>2. CASE Validate
  <2>1. [handler EXCEPT !.pc = "clone"] \in Handling
    BY DEF Handling, HandlerPCs
  <2>2. handler' \in Handling /\ HandlerReady'
    BY <1>2, <1>b, <2>1 DEF Validate, HandlerReady, Handling
  <2>3. QED
    BY <1>0, <1>2, <2>2 DEF Validate
<1>3. CASE CloneSubmissions
  <2>1. submissions[handler.miner].diff \in Diffs \cup {0}
    BY <1>a, Solutions
  <2>2. [handler EXCEPT !.pc = "write", !.old = submissions[handler.miner].diff] \in Handling
    BY <2>1 DEF Handling, HandlerPCs
  <2>3. handler' \in Handling /\ HandlerReady'
    BY <1>3, <1>b, <2>2 DEF CloneSubmissions, HandlerReady, Handling
  <2>4. QED
    BY <1>0, <1>3, <2>3 DEF CloneSubmissions
<1>4. CASE InsertSubmission
  <2>1. submissions' \in [Miners -> Maybe] /\ best' \in Maybe
    BY <1>4, <1>a DEF InsertSubmission
  <2>2. QED
    BY <1>0, <1>4, <1>b, <2>1 DEF InsertSubmission, HandlerReady
<1>5. QED
  BY <1>1, <1>2, <1>3, <1>4 DEF HandleSubmission

LEMMA MainKeepsReady == Ready /\ SubmitRound => Ready'
<1> SUFFICES ASSUME Ready, SubmitRound PROVE Ready'
  OBVIOUS
<1> USE DEF Ready, TypeOK, epoch, outside
<1>h. UNCHANGED handler
  BY DEF SubmitRound, ReadProof, CheckSolution, CloseWindow, TakeSnapshot, CheckStillValid,
         BlockhashFails, SendFails, SendTx, ConfirmOk, ConfirmFails, RefreshFromRpc,
         RefreshSeesUpdate, CompareEpoch, MainResetsEpoch, MainOpensWindow,
         MainAddsChallenge, DropRound, DropOpensWindow
<1>0. HandlerReady' /\ (UNCHANGED resender => ResendersReady')
  BY <1>h DEF HandlerReady, ResendersReady
<1>w. Waiting \in Looping /\ Waiting.pc = "wait"
  BY IdleStates DEF Waiting
<1>c. 0 \in Challenges \cup {0} /\ proof \in Challenges /\ chain \in Challenges
  OBVIOUS
<1>1. CASE ReadProof
  <2>1. [main EXCEPT !.pc = "due", !.old = proof] \in Looping
    BY DEF Looping, MainPCs
  <2>2. main' \in Looping /\ MainReady'
    BY <1>1, <2>1 DEF ReadProof, MainReady, Looping
  <2>3. QED
    BY <1>0, <1>1, <2>2 DEF ReadProof
<1>2. CASE CheckSolution
  <2>1. [main EXCEPT !.pc = "close"] \in Looping
    BY DEF Looping, MainPCs
  <2>2. main' \in Looping /\ MainReady'
    BY <1>2, <1>w, <2>1 DEF CheckSolution, MainReady, Looping
  <2>3. QED
    BY <1>0, <1>2, <2>2 DEF CheckSolution
<1>3. CASE CloseWindow
  <2>1. main' \in Looping /\ MainReady'
    BY <1>3, MainMoves DEF CloseWindow, MainReady, MainPCs
  <2>2. QED
    BY <1>0, <1>3, <2>1 DEF CloseWindow
<1>4. CASE TakeSnapshot
  <2>1. best # None => best \in Solution
    BY DEF Maybe
  <2>2. main' \in Looping /\ MainReady'
    BY <1>4, <2>1 DEF TakeSnapshot, MainReady, Looping, MainPCs
  <2>3. QED
    BY <1>0, <1>4, <2>2 DEF TakeSnapshot
<1>5. CASE CheckStillValid
  <2>1. main' \in Looping /\ MainReady'
    BY <1>5, MainMoves DEF CheckStillValid, MainReady, MainPCs
  <2>2. QED
    BY <1>0, <1>5, <2>1 DEF CheckStillValid
<1>6. CASE BlockhashFails
  <2>1. main' \in Looping /\ MainReady'
    BY <1>6, NextAttemptMoves DEF BlockhashFails, MainReady
  <2>2. QED
    BY <1>0, <1>6, <2>1 DEF BlockhashFails
<1>7. CASE SendFails
  <2>1. main' \in Looping /\ MainReady'
    BY <1>7, MainMoves DEF SendFails, MainReady, MainPCs
  <2>2. main.best.ch \in Challenges
    BY <1>7 DEF SendFails, MainReady, Solution
  <2>3. orphans' \subseteq Challenges
    BY <1>7, <2>2 DEF SendFails
  <2>4. QED
    BY <1>0, <1>7, <2>1, <2>3 DEF SendFails
<1>8. CASE SendTx
  <2>1. main' \in Looping /\ MainReady'
    BY <1>8, MainMoves DEF SendTx, MainReady, MainPCs
  <2>2. main.best.ch \in Challenges /\ main.old \in Challenges
    BY <1>8 DEF SendTx, MainReady, Solution
  <2>3. tx' \in Tx
    BY <1>8, <2>2 DEF SendTx, Tx
  <2>4. [pc |-> "loop", old |-> main.old, latest |-> 0, stopped |-> FALSE] \in Resending
    BY <2>2 DEF Resending, ResenderPCs
  <2>5. PICK s \in Resenders :
          resender' = [resender EXCEPT ![s] = [pc |-> "loop", old |-> main.old,
                                               latest |-> 0, stopped |-> FALSE]]
    BY <1>8 DEF SendTx
  <2>6. resender' \in [Resenders -> Resending] /\ ResendersReady'
    BY <2>2, <2>4, <2>5 DEF ResendersReady
  <2>7. QED
    BY <1>0, <1>8, <2>1, <2>3, <2>6 DEF SendTx
<1>9. CASE ConfirmOk
  <2>1. main' \in Looping /\ MainReady'
    BY <1>9, MainMoves DEF ConfirmOk, MainReady, MainPCs
  <2>2. main.old \in Challenges
    BY <1>9 DEF ConfirmOk, MainReady
  <2>3. rewarding' \subseteq Challenges /\ rewarded' \in [Challenges -> Nat]
    BY <1>9, <2>2 DEF ConfirmOk
  <2>4. QED
    BY <1>0, <1>9, <2>1, <2>3, StopMoves DEF ConfirmOk
<1>10. CASE ConfirmFails
  <2>1. main' \in Looping /\ MainReady'
    BY <1>10, NextAttemptMoves DEF ConfirmFails, MainReady
  <2>2. QED
    BY <1>0, <1>10, <2>1, StopMoves DEF ConfirmFails
<1>11. CASE RefreshFromRpc
  <2>1. main' \in Looping /\ MainReady'
    BY <1>11 DEF RefreshFromRpc, MainReady, Looping, MainPCs
  <2>2. QED
    BY <1>0, <1>11, <2>1 DEF RefreshFromRpc
<1>12. CASE RefreshSeesUpdate
  <2>1. main' \in Looping /\ MainReady'
    BY <1>12 DEF RefreshSeesUpdate, MainReady, Looping, MainPCs
  <2>2. QED
    BY <1>0, <1>12, <2>1 DEF RefreshSeesUpdate
<1>13. CASE CompareEpoch
  <2>1. main' \in Looping /\ MainReady'
    BY <1>13, <1>w DEF CompareEpoch, MainReady, Looping, MainPCs
  <2>2. QED
    BY <1>0, <1>13, <2>1 DEF CompareEpoch
<1>14. CASE MainResetsEpoch
  <2>1. main' \in Looping /\ MainReady'
    BY <1>14, MainMoves DEF MainResetsEpoch, MainReady, MainPCs
  <2>2. main.latest \in Challenges
    BY <1>14 DEF MainResetsEpoch, MainReady
  <2>3. QED
    BY <1>0, <1>14, <2>1, <2>2, ResetMoves DEF MainResetsEpoch
<1>15. CASE MainOpensWindow
  <2>1. main' \in Looping /\ MainReady'
    BY <1>15, MainMoves DEF MainOpensWindow, MainReady, MainPCs
  <2>2. QED
    BY <1>0, <1>15, <2>1 DEF MainOpensWindow
<1>16. CASE MainAddsChallenge
  <2>1. main.latest \in Challenges /\ main.old \in Challenges
    BY <1>16 DEF MainAddsChallenge, MainReady
  <2>2. QED
    BY <1>0, <1>16, <1>w, <2>1 DEF MainAddsChallenge, MainReady
<1>17. CASE DropRound
  <2>1. main' \in Looping /\ MainReady'
    BY <1>17, MainMoves DEF DropRound, MainReady, MainPCs
  <2>2. QED
    BY <1>0, <1>17, <2>1, ResetMoves DEF DropRound
<1>18. CASE DropOpensWindow
  BY <1>0, <1>18, <1>w DEF DropOpensWindow, MainReady
<1>19. QED
  BY <1>1, <1>2, <1>3, <1>4, <1>5, <1>6, <1>7, <1>8, <1>9, <1>10, <1>11, <1>12, <1>13, <1>14,
     <1>15, <1>16, <1>17, <1>18 DEF SubmitRound

LEMMA ResenderKeepsReady ==
    ASSUME Ready, NEW s \in Resenders, Resend(s)
    PROVE  Ready'
<1> USE DEF Ready, TypeOK, epoch, outside
<1>m. UNCHANGED <<main, handler>>
  BY DEF Resend, ResenderLoop, ResenderAsks, ResenderSeesUpdate, ResenderSetsLast,
         ResenderResetsEpoch, ResenderOpensWindow, ResenderAddsChallenge
<1>0. MainReady' /\ HandlerReady'
  BY <1>m DEF MainReady, HandlerReady
<1>r. /\ resender[s].pc # "idle" => resender[s].old \in Challenges
      /\ resender[s].pc \notin {"idle", "loop", "check"} => resender[s].latest \in Challenges
  BY DEF ResendersReady
<1>p. {"loop", "check", "rpc_last", "rpc_epoch", "rpc_open", "rpc_db", "ws_last", "ws_db",
       "ws_epoch", "ws_open"} \subseteq ResenderPCs
  BY DEF ResenderPCs
\* Seeing the proof move: the task remembers the challenge it moved to.
<1>l. ASSUME NEW c \in Challenges, NEW pc \in {"rpc_last", "ws_last"}, resender[s].pc = "check",
             resender' = [resender EXCEPT ![s].pc = pc, ![s].latest = c]
      PROVE  resender' \in [Resenders -> Resending] /\ ResendersReady'
  <2>1. /\ resender'[s] \in Resending /\ resender'[s].latest = c
        /\ resender'[s].old = resender[s].old
    BY <1>l, <1>p DEF Resending
  <2>2. \A t \in Resenders \ {s} : resender'[t] = resender[t]
    BY <1>l
  <2>3. resender' \in [Resenders -> Resending]
    BY <1>l, <2>1, <2>2
  <2>4. QED
    BY <1>l, <1>r, <2>1, <2>2, <2>3 DEF ResendersReady
<1>1. CASE ResenderLoop(s)
  <2>1. resender' \in [Resenders -> Resending] /\ ResendersReady'
    BY <1>1, <1>p, ResenderMoves DEF ResenderLoop
  <2>2. QED
    BY <1>0, <1>1, <2>1 DEF ResenderLoop
<1>2. CASE ResenderAsks(s)
  <2>1. CASE ResenderGoto(s, "loop") /\ UNCHANGED proof
    <3>1. resender' \in [Resenders -> Resending] /\ ResendersReady'
      BY <1>2, <2>1, <1>p, ResenderMoves DEF ResenderAsks
    <3>2. QED
      BY <1>0, <1>2, <2>1, <3>1 DEF ResenderAsks
  <2>2. CASE /\ proof' = chain
             /\ resender' = [resender EXCEPT ![s].pc = "rpc_last", ![s].latest = chain]
    <3>1. resender' \in [Resenders -> Resending] /\ ResendersReady'
      BY <1>2, <2>2, <1>l DEF ResenderAsks
    <3>2. QED
      BY <1>0, <1>2, <2>2, <3>1 DEF ResenderAsks
  <2>3. QED
    BY <1>2, <2>1, <2>2 DEF ResenderAsks
<1>3. CASE ResenderSeesUpdate(s)
  <2>1. resender' \in [Resenders -> Resending] /\ ResendersReady'
    BY <1>3, <1>l DEF ResenderSeesUpdate
  <2>2. QED
    BY <1>0, <1>3, <2>1 DEF ResenderSeesUpdate
<1>4. CASE ResenderSetsLast(s)
  <2>1. resender' \in [Resenders -> Resending] /\ ResendersReady'
    BY <1>4, <1>p, ResenderMoves DEF ResenderSetsLast
  <2>2. lastChallenge' \in Challenges
    BY <1>4, <1>r DEF ResenderSetsLast
  <2>3. QED
    BY <1>0, <1>4, <2>1, <2>2 DEF ResenderSetsLast
<1>5. CASE ResenderResetsEpoch(s)
  <2>1. resender' \in [Resenders -> Resending] /\ ResendersReady'
    BY <1>5, <1>p, ResenderMoves DEF ResenderResetsEpoch
  <2>2. resender[s].latest \in Challenges
    BY <1>5, <1>r DEF ResenderResetsEpoch
  <2>3. QED
    BY <1>0, <1>5, <2>1, <2>2, ResetMoves DEF ResenderResetsEpoch
<1>6. CASE ResenderOpensWindow(s)
  <2>1. resender' \in [Resenders -> Resending] /\ ResendersReady'
    BY <1>6, <1>p, ResenderMoves DEF ResenderOpensWindow
  <2>2. QED
    BY <1>0, <1>6, <2>1 DEF ResenderOpensWindow
<1>7. CASE ResenderAddsChallenge(s)
  <2>1. resender' \in [Resenders -> Resending] /\ ResendersReady'
    BY <1>7, <1>p, ResenderMoves DEF ResenderAddsChallenge
  <2>2. challenges' \subseteq Challenges
    BY <1>7, <1>r DEF ResenderAddsChallenge
  <2>3. QED
    BY <1>0, <1>7, <2>1, <2>2 DEF ResenderAddsChallenge
<1>8. QED
  BY <1>1, <1>2, <1>3, <1>4, <1>5, <1>6, <1>7 DEF Resend

\* The tracker, the chain and the reward tasks.
Outside ==
    \/ \E c \in Challenges : Announce(c) \/ OrphanEnds(c)
    \/ TrackProof \/ StoreProof \/ LoseNotices \/ BalanceNotice
    \/ Land \/ Expire

LEMMA OutsideKeepsReady == Ready /\ Outside => Ready'
<1> SUFFICES ASSUME Ready, Outside PROVE Ready'
  OBVIOUS
<1> USE DEF Ready, TypeOK, epoch, outside
<1>0. MainReady' /\ HandlerReady' /\ ResendersReady'
  <2>1. UNCHANGED <<main, handler, resender>>
    BY DEF Outside, Announce, OrphanEnds, TrackProof, StoreProof, LoseNotices, BalanceNotice,
           Land, Expire
  <2>2. QED
    BY <2>1 DEF MainReady, HandlerReady, ResendersReady
<1>a. Advance => chain' \in Challenges /\ notices' \in Seq(Challenges)
  BY ChallengeNumbers DEF Advance
<1>t. tx.st = "inflight" =>
        \A st \in {"landed", "reverted", "expired"} : [tx EXCEPT !.st = st] \in Tx
  BY DEF Tx, NoTx
<1>1. ASSUME NEW c \in Challenges, Announce(c) PROVE Ready'
  BY <1>0, <1>1 DEF Announce
<1>2. ASSUME NEW c \in Challenges, OrphanEnds(c) PROVE Ready'
  BY <1>0, <1>2, <1>a DEF OrphanEnds
<1>3. CASE TrackProof
  <2>1. Head(notices) \in Challenges /\ Tail(notices) \in Seq(Challenges)
    BY <1>3 DEF TrackProof
  <2>2. QED
    BY <1>0, <1>3, <2>1 DEF TrackProof
<1>4. CASE StoreProof
  BY <1>0, <1>4 DEF StoreProof
<1>5. CASE LoseNotices
  BY <1>0, <1>5 DEF LoseNotices
<1>6. CASE BalanceNotice
  BY <1>0, <1>6 DEF BalanceNotice
<1>7. CASE Land
  BY <1>0, <1>7, <1>a, <1>t DEF Land
<1>8. CASE Expire
  BY <1>0, <1>8, <1>t DEF Expire
<1>9. QED
  BY <1>1, <1>2, <1>3, <1>4, <1>5, <1>6, <1>7, <1>8 DEF Outside

LEMMA RestartIsReady == Ready /\ Restart => Ready'
<1> SUFFICES ASSUME Ready, Restart PROVE Ready'
  OBVIOUS
<1> USE DEF Ready, TypeOK, epoch, outside
<1>1. orphans' \subseteq Challenges
  <2>1. ASSUME tx.st = "inflight" PROVE tx.ch \in Challenges
    BY <2>1 DEF Tx, NoTx
  <2>2. QED
    BY <2>1 DEF Restart
<1>2. MainReady' /\ HandlerReady'
  BY DEF Restart, MainReady, HandlerReady, Waiting, NoMessage
<1>3. resender' \in [Resenders -> Resending] /\ ResendersReady'
  <2>1. resender' = [s \in Resenders |-> NoResender]
    BY DEF Restart
  <2>2. \A s \in Resenders : resender'[s] = NoResender
    BY <2>1
  <2>3. NoResender.pc = "idle"
    BY DEF NoResender
  <2>4. QED
    BY <2>1, <2>2, <2>3, IdleStates DEF ResendersReady
<1>4. epochChallenge' \in Challenges /\ best' \in Maybe /\ submissions' \in [Miners -> Maybe]
  BY ResetMoves DEF Restart
<1>5. notices' \in Seq(Challenges) /\ challenges' \subseteq Challenges
  BY DEF Restart
<1>6. handler' \in Handling /\ main' \in Looping /\ tx' \in Tx
  BY IdleStates DEF Restart
<1>7. QED
  BY <1>1, <1>2, <1>3, <1>4, <1>5, <1>6 DEF Restart

LEMMA InitIsReady == Init => Ready
<1> SUFFICES ASSUME Init PROVE Ready
  OBVIOUS
<1>1. MainReady /\ HandlerReady /\ ResendersReady
  BY DEF Init, MainReady, HandlerReady, ResendersReady, Waiting, NoMessage, NoResender
<1>2. resender \in [Resenders -> Resending] /\ handler \in Handling /\ main \in Looping /\ tx \in Tx
  BY IdleStates DEF Init
<1>3. notices \in Seq(Challenges) /\ challenges \subseteq Challenges /\ rewarded \in [Challenges -> Nat]
  BY ChallengeNumbers DEF Init
<1>4. submissions \in [Miners -> Maybe] /\ best \in Maybe
  BY Solutions DEF Init
<1>5. QED
  BY <1>1, <1>2, <1>3, <1>4, ChallengeNumbers DEF Init, Ready, TypeOK

LEMMA StaysReady == Ready /\ [Next]_vars => Ready'
<1>1. Ready /\ UNCHANGED vars => Ready'
  BY DEF Ready, TypeOK, MainReady, HandlerReady, ResendersReady, vars, epoch, outside
<1>2. Next => \/ HandleSubmission \/ SubmitRound \/ \E s \in Resenders : Resend(s)
              \/ Outside \/ Restart
  BY DEF Next, Outside
<1>3. QED
  BY <1>1, <1>2, HandlerKeepsReady, MainKeepsReady, ResenderKeepsReady, OutsideKeepsReady,
     RestartIsReady

LEMMA AlwaysReady == Spec => []Ready
BY InitIsReady, StaysReady, PTL DEF Spec

\* Every variable keeps its type; a task never acts on a challenge or a solution
\* it has not got, whatever fails and whenever the server restarts.
THEOREM TypeCorrect == Spec => []TypeOK
<1>1. Ready => TypeOK
  BY DEF Ready
<1>2. QED
  BY <1>1, AlwaysReady, PTL

-----------------------------------------------------------------------------
\* A reset may come between reading the old submission of a miner and storing
\* the new one, but nothing that the new one does not beat.
HandlerAhead ==
    handler.pc = "write" => submissions[handler.miner].diff < handler.sol.diff

LEMMA ResetCovers ==
    ASSUME Ready, NEW c, ResetEpoch(c)
    PROVE  BestCoversSubmissions'
BY DEF ResetEpoch, BestCoversSubmissions, NoSubmissions, None

LEMMA ResetKeepsHandlerAhead ==
    ASSUME Ready, NEW c, ResetEpoch(c), UNCHANGED handler
    PROVE  HandlerAhead'
<1>1. handler.pc = "write" => handler.sol \in Solution /\ handler.miner \in Miners
  BY DEF Ready, HandlerReady, TypeOK, Handling
<1>2. handler.pc = "write" => submissions'[handler.miner].diff = 0
  BY <1>1 DEF ResetEpoch, NoSubmissions, None
<1>3. QED
  BY <1>1, <1>2, Solutions DEF HandlerAhead

LEMMA CoverStep ==
    Ready /\ BestCoversSubmissions /\ HandlerAhead /\ [Next]_vars
      => BestCoversSubmissions' /\ HandlerAhead'
<1> SUFFICES ASSUME Ready, BestCoversSubmissions, HandlerAhead, [Next]_vars
             PROVE  BestCoversSubmissions' /\ HandlerAhead'
  OBVIOUS
<1> USE DEF epoch, outside
<1>1. CASE UNCHANGED <<submissions, best, handler>>
  BY <1>1 DEF BestCoversSubmissions, HandlerAhead
<1>2. ASSUME NEW c, ResetEpoch(c), UNCHANGED handler
      PROVE  BestCoversSubmissions' /\ HandlerAhead'
  BY <1>2, ResetCovers, ResetKeepsHandlerAhead
<1>3. CASE HandleSubmission
  <2>1. ASSUME NEW m \in Miners, NEW sol \in Solution, TakeMessage(m, sol)
        PROVE  BestCoversSubmissions' /\ HandlerAhead'
    BY <2>1 DEF TakeMessage, BestCoversSubmissions, HandlerAhead
  <2>2. CASE Validate
    <3>1. handler'.pc # "write"
      BY <2>2 DEF Validate, NoMessage, Ready, TypeOK, Handling
    <3>2. QED
      BY <2>2, <3>1 DEF Validate, BestCoversSubmissions, HandlerAhead
  <2>3. CASE CloneSubmissions
    <3>1. handler.sol.diff > 0
      BY <2>3, Solutions DEF CloneSubmissions, Ready, HandlerReady
    <3>2. /\ submissions[handler.miner] \in Maybe
          /\ handler.sol.diff \in Nat
      BY <2>3, Solutions DEF CloneSubmissions, Ready, HandlerReady, TypeOK, Handling
    <3>3. handler'.pc = "write" =>
            /\ handler'.miner = handler.miner /\ handler'.sol = handler.sol
            /\ submissions[handler.miner].diff < handler.sol.diff
      BY <2>3, <3>1, <3>2, Solutions DEF CloneSubmissions, NoMessage, None, Ready, TypeOK, Handling
    <3>4. QED
      BY <2>3, <3>3 DEF CloneSubmissions, BestCoversSubmissions, HandlerAhead
  <2>4. CASE InsertSubmission
    <3> DEFINE m0 == handler.miner
    <3>1. /\ m0 \in Miners /\ handler.sol.diff \in Nat
          /\ submissions \in [Miners -> Maybe] /\ best \in Maybe
      BY <2>4, Solutions DEF InsertSubmission, Ready, HandlerReady, TypeOK, Handling
    <3>2. best.diff \in Nat /\ \A m \in Miners : submissions[m].diff \in Nat
      BY <3>1, Solutions
    <3>3. /\ submissions'[m0] = handler.sol
          /\ \A m \in Miners \ {m0} : submissions'[m] = submissions[m]
      BY <2>4, <3>1 DEF InsertSubmission
    <3>4. CASE handler.sol.diff > best.diff
      <4>1. best' = handler.sol
        BY <2>4, <3>4 DEF InsertSubmission
      <4>2. \A m \in Miners : submissions'[m].diff <= best'.diff
        BY <3>1, <3>2, <3>3, <3>4, <4>1 DEF BestCoversSubmissions
      <4>3. QED
        BY <2>4, <3>1, <3>3, <4>1, <4>2
           DEF BestCoversSubmissions, HandlerAhead, InsertSubmission, NoMessage
    <3>5. CASE ~(handler.sol.diff > best.diff)
      <4>1. best' = best
        BY <2>4, <3>5 DEF InsertSubmission
      <4>2. submissions[m0] # best
        BY <2>4, <3>1, <3>2, <3>5 DEF HandlerAhead, InsertSubmission
      <4>3. \A m \in Miners : submissions'[m].diff <= best'.diff
        BY <3>1, <3>2, <3>3, <3>5, <4>1 DEF BestCoversSubmissions
      <4>4. best' # None => \E m \in Miners : submissions'[m] = best'
        BY <3>3, <4>1, <4>2 DEF BestCoversSubmissions
      <4>5. QED
        BY <2>4, <4>3, <4>4 DEF BestCoversSubmissions, HandlerAhead, InsertSubmission, NoMessage
    <3>6. QED
      BY <3>4, <3>5
  <2>5. QED
    BY <1>3, <2>1, <2>2, <2>3, <2>4 DEF HandleSubmission
<1>4. CASE SubmitRound
  <2>1. \/ UNCHANGED <<submissions, best, handler>>
        \/ UNCHANGED handler /\ \E c \in {main.latest, epochChallenge} : ResetEpoch(c)
    BY <1>4
       DEF SubmitRound, ReadProof, CheckSolution, CloseWindow, TakeSnapshot, CheckStillValid,
           BlockhashFails, SendFails, SendTx, ConfirmOk, ConfirmFails, RefreshFromRpc,
           RefreshSeesUpdate, CompareEpoch, MainResetsEpoch, MainOpensWindow,
           MainAddsChallenge, DropRound, DropOpensWindow
  <2>2. QED
    BY <1>1, <1>2, <2>1
<1>5. ASSUME NEW s \in Resenders, Resend(s) PROVE BestCoversSubmissions' /\ HandlerAhead'
  <2>1. \/ UNCHANGED <<submissions, best, handler>>
        \/ UNCHANGED handler /\ ResetEpoch(resender[s].latest)
    BY <1>5 DEF Resend, ResenderLoop, ResenderAsks, ResenderSeesUpdate, ResenderSetsLast,
                ResenderResetsEpoch, ResenderOpensWindow, ResenderAddsChallenge
  <2>2. QED
    BY <1>1, <1>2, <2>1
<1>6. CASE Outside
  <2>1. UNCHANGED <<submissions, best, handler>>
    BY <1>6 DEF Outside, Announce, OrphanEnds, TrackProof, StoreProof, LoseNotices,
                BalanceNotice, Land, Expire
  <2>2. QED
    BY <1>1, <2>1
<1>7. CASE Restart
  <2>1. BestCoversSubmissions'
    BY <1>7, ResetCovers DEF Restart
  <2>2. HandlerAhead'
    BY <1>7 DEF Restart, HandlerAhead, NoMessage
  <2>3. QED
    BY <2>1, <2>2
<1>8. CASE UNCHANGED vars
  BY <1>1, <1>8 DEF vars
<1>9. QED
  BY <1>3, <1>4, <1>5, <1>6, <1>7, <1>8 DEF Next, Outside

LEMMA InitCovers == Init => BestCoversSubmissions /\ HandlerAhead
BY DEF Init, BestCoversSubmissions, HandlerAhead, NoSubmissions, None, NoMessage

\* The best solution is that of a miner in the list and none in the list is
\* better, even though the old submission is read under a lock given back
\* before the new one is stored.
THEOREM BestCovered == Spec => []BestCoversSubmissions
BY AlwaysReady, InitCovers, CoverStep, PTL DEF Spec

-----------------------------------------------------------------------------
LEMMA SnapshotStep ==
    Ready /\ BestCoversSubmissions /\ SnapshotHasBest /\ [Next]_vars => SnapshotHasBest'
<1> SUFFICES ASSUME Ready, BestCoversSubmissions, SnapshotHasBest, [Next]_vars
             PROVE  SnapshotHasBest'
  OBVIOUS
<1> DEFINE Sending == {"attempt", "send", "confirm", "refresh"}
<1>l. main \in Looping
  BY DEF Ready, TypeOK
<1>1. CASE UNCHANGED main
  BY <1>1 DEF SnapshotHasBest
<1>2. CASE main'.pc \notin Sending
  BY <1>2 DEF SnapshotHasBest
<1>3. CASE main.pc \in Sending /\ main'.best = main.best /\ main'.snapshot = main.snapshot
  BY <1>3 DEF SnapshotHasBest
<1>4. CASE TakeSnapshot
  <2>1. CASE best = None
    <3>1. main'.pc = "drop_epoch"
      BY <1>4, <1>l, <2>1 DEF TakeSnapshot, Looping
    <3>2. QED
      BY <1>2, <3>1
  <2>2. CASE best # None
    <3>1. main'.best = best /\ main'.snapshot = submissions
      BY <1>4, <1>l DEF TakeSnapshot, Looping
    <3>2. QED
      BY <2>2, <3>1 DEF SnapshotHasBest, BestCoversSubmissions
  <2>3. QED
    BY <2>1, <2>2
<1>5. CASE CheckStillValid \/ SendFails \/ SendTx \/ ConfirmOk
  <2>1. /\ main.pc \in Sending
        /\ \E pc \in MainPCs : MainGoto(pc)
    BY <1>5 DEF CheckStillValid, SendFails, SendTx, ConfirmOk, MainPCs
  <2>2. QED
    BY <1>3, <1>l, <2>1, MainMoves
<1>6. CASE BlockhashFails \/ ConfirmFails
  <2>1. main.pc \in Sending /\ NextAttempt
    BY <1>6 DEF BlockhashFails, ConfirmFails
  <2>2. QED
    BY <1>3, <1>l, <2>1, NextAttemptMoves
<1>7. CASE \/ CloseWindow \/ MainResetsEpoch \/ MainOpensWindow \/ DropRound
  <2>1. \E pc \in MainPCs \ Sending : MainGoto(pc)
    BY <1>7 DEF CloseWindow, MainResetsEpoch, MainOpensWindow, DropRound, MainPCs
  <2>2. QED
    BY <1>2, <1>l, <2>1, MainMoves
<1>w. CASE \/ ReadProof \/ CheckSolution \/ RefreshFromRpc \/ RefreshSeesUpdate \/ CompareEpoch
           \/ MainAddsChallenge \/ DropOpensWindow \/ Restart
  <2>1. Waiting.pc = "wait"
    BY DEF Waiting
  <2>2. ReadProof => main'.pc = "due"
    BY <1>l DEF ReadProof, Looping
  <2>3. CheckSolution => main'.pc \in {"close", "wait"}
    BY <1>l, <2>1 DEF CheckSolution, Looping
  <2>4. RefreshFromRpc => main'.pc = "rpc_epoch"
    BY <1>l DEF RefreshFromRpc, Looping
  <2>5. RefreshSeesUpdate => main'.pc = "compare"
    BY <1>l DEF RefreshSeesUpdate, Looping
  <2>6. CompareEpoch => main'.pc \in {"ws_epoch", "wait"}
    BY <1>l, <2>1 DEF CompareEpoch, Looping
  <2>7. MainAddsChallenge \/ DropOpensWindow \/ Restart => main'.pc = "wait"
    BY <2>1 DEF MainAddsChallenge, DropOpensWindow, Restart
  <2>8. QED
    BY <1>2, <1>w, <2>2, <2>3, <2>4, <2>5, <2>6, <2>7
<1>8. CASE \/ HandleSubmission \/ Outside \/ \E s \in Resenders : Resend(s)
  <2>1. HandleSubmission \/ Outside => UNCHANGED main
    BY DEF HandleSubmission, TakeMessage, Validate, CloneSubmissions, InsertSubmission,
           Outside, Announce, OrphanEnds, TrackProof, StoreProof, LoseNotices, BalanceNotice,
           Land, Expire
  <2>2. \A s \in Resenders : Resend(s) => UNCHANGED main
    BY DEF Resend, ResenderLoop, ResenderAsks, ResenderSeesUpdate, ResenderSetsLast,
           ResenderResetsEpoch, ResenderOpensWindow, ResenderAddsChallenge
  <2>3. QED
    BY <1>1, <1>8, <2>1, <2>2
<1>9. CASE UNCHANGED vars
  BY <1>1, <1>9 DEF vars
<1>10. QED
  BY <1>4, <1>5, <1>6, <1>7, <1>w, <1>8, <1>9 DEF Next, SubmitRound, Outside

\* Whatever a reset takes away, the solution sent to the chain belongs to one of
\* the miners the reward will be shared among: the total is never zero.
THEOREM SnapshotCovered == Spec => []SnapshotHasBest
<1>1. Init => SnapshotHasBest
  BY DEF Init, SnapshotHasBest, Waiting
<1>2. Spec => [](Ready /\ BestCoversSubmissions)
  BY AlwaysReady, BestCovered, PTL
<1>3. QED
  BY <1>1, <1>2, SnapshotStep, PTL DEF Spec

-----------------------------------------------------------------------------
(* The challenge of the server and that of the chain, as long as updates   *)
(* of the websocket are not for a challenge that is over.                  *)

\* What is on its way to the server is the current challenge.
CurrentInv ==
    /\ proof <= chain
    /\ tracker \in {0, chain}
    /\ notices = <<>> \/ (notices = <<chain>> /\ tracker = 0)

LEMMA OneNotice ==
    /\ \A c : Append(<<>>, c) = <<c>> /\ Head(<<c>>) = c /\ Tail(<<c>>) = <<>> /\ <<c>> # <<>>
OBVIOUS

LEMMA ChallengesAreNat == Challenges \subseteq Nat \ {0}
BY RoundConstants DEF Challenges

\* The steps that move one of the four.
Moving ==
    \/ CheckStillValid \/ RefreshFromRpc \/ \E s \in Resenders : ResenderAsks(s)
    \/ TrackProof \/ StoreProof \/ LoseNotices \/ BalanceNotice
    \/ Land \/ \E c \in Challenges : OrphanEnds(c)
    \/ Restart

LEMMA NotMoving == [Next]_vars => Moving \/ UNCHANGED <<proof, chain, tracker, notices>>
BY DEF Moving, Next, vars, epoch, outside, HandleSubmission, TakeMessage, Validate, CloneSubmissions,
       InsertSubmission, SubmitRound, ReadProof, CheckSolution, CloseWindow, TakeSnapshot,
       BlockhashFails, SendFails, SendTx, ConfirmOk, ConfirmFails, RefreshSeesUpdate, CompareEpoch,
       MainResetsEpoch, MainOpensWindow, MainAddsChallenge, DropRound, DropOpensWindow, Announce,
       Resend, ResenderLoop, ResenderSeesUpdate, ResenderSetsLast, ResenderResetsEpoch,
       ResenderOpensWindow, ResenderAddsChallenge, Expire

LEMMA CurrentStep ==
    ASSUME TypeOK, CurrentInv, [Next]_vars, "late_notice" \notin Faults
    PROVE  /\ CurrentInv'
           /\ proof <= proof'
           /\ chain <= chain'
<1>0. /\ proof \in Nat \ {0} /\ chain \in Nat \ {0} /\ tracker \in Nat
  BY ChallengesAreNat DEF TypeOK
<1>1. ASSUME UNCHANGED <<chain, tracker, notices>>, proof' \in {proof, chain}
      PROVE  CurrentInv' /\ proof <= proof' /\ chain <= chain'
  BY <1>0, <1>1 DEF CurrentInv
<1>2. ASSUME Advance, UNCHANGED <<proof, tracker>>
      PROVE  CurrentInv' /\ proof <= proof' /\ chain <= chain'
  <2>1. notices = <<>> /\ tracker = 0 /\ chain' = chain + 1
    BY <1>2 DEF Advance
  <2>2. notices' = <<chain'>>
    BY <1>2, <2>1, OneNotice DEF Advance
  <2>3. QED
    BY <1>0, <1>2, <2>1, <2>2 DEF CurrentInv
<1>3. CASE CheckStillValid \/ RefreshFromRpc \/ \E s \in Resenders : ResenderAsks(s)
  BY <1>1, <1>3 DEF CheckStillValid, RefreshFromRpc, ResenderAsks, outside
<1>4. CASE TrackProof
  <2>1. notices = <<chain>> /\ tracker = 0 /\ UNCHANGED <<proof, chain>>
    BY <1>4 DEF TrackProof, CurrentInv
  <2>2. notices' = <<>> /\ tracker' \in {0, chain}
    BY <1>4, <2>1, OneNotice DEF TrackProof
  <2>3. QED
    BY <1>0, <2>1, <2>2 DEF CurrentInv
<1>5. CASE StoreProof
  BY <1>0, <1>5 DEF StoreProof, CurrentInv, outside
<1>6. CASE LoseNotices
  BY <1>0, <1>6 DEF LoseNotices, CurrentInv
<1>7. CASE BalanceNotice
  BY <1>7 DEF BalanceNotice
<1>8. CASE Land
  BY <1>1, <1>2, <1>8 DEF Land
<1>9. CASE \E c \in Challenges : OrphanEnds(c)
  BY <1>1, <1>2, <1>9 DEF OrphanEnds
<1>10. CASE Restart
  BY <1>0, <1>10 DEF Restart, CurrentInv
<1>11. CASE UNCHANGED <<proof, chain, tracker, notices>>
  BY <1>1, <1>11
<1>12. QED
  BY <1>3, <1>4, <1>5, <1>6, <1>7, <1>8, <1>9, <1>10, <1>11, NotMoving DEF Moving

LEMMA InitCurrent == Init => CurrentInv
BY DEF Init, CurrentInv

\* Miners are never sent back to a challenge that is over, however the main loop,
\* the resending tasks and the websocket share the work and whatever else fails,
\* unless the websocket reports on the proof account after the challenge moved on.
THEOREM ProofMovesOn ==
    ASSUME "late_notice" \notin Faults
    PROVE  Spec => ProofNeverReverts
<1>1. Ready /\ CurrentInv /\ [Next]_vars => CurrentInv' /\ [proof' >= proof]_vars
  <2> SUFFICES ASSUME Ready, CurrentInv, [Next]_vars PROVE CurrentInv' /\ proof' >= proof
    OBVIOUS
  <2>1. TypeOK /\ TypeOK'
    BY StaysReady DEF Ready
  <2>2. proof \in Nat /\ proof' \in Nat
    BY <2>1, ChallengesAreNat DEF TypeOK
  <2>3. QED
    BY <2>1, <2>2, CurrentStep
<1>2. QED
  BY <1>1, InitCurrent, AlwaysReady, PTL DEF Spec, ProofNeverReverts
-----------------------------------------------------------------------------
(* The challenges the tasks remember, and the rounds that are rewarded.    *)

\* The main loop works on a round that is not decided yet.
Deciding == {"due", "close", "snapshot", "attempt", "send", "confirm"}

\* The main loop is done with the round.
Decided == MainPCs \ (Deciding \cup {"wait", "refresh"})

\* The ways of the main loop.
LEMMA MainPath ==
    ASSUME Ready, SubmitRound
    PROVE  \/ /\ ReadProof /\ main'.pc = "due" /\ main'.old = proof
           \/ /\ main'.pc = "wait" /\ main'.old = 0
              /\ main.pc \notin {"confirm", "refresh"}
           \/ /\ main'.old = main.old
              /\ \/ main.pc \in Deciding \ {"confirm"} /\ main'.pc \in Deciding \ {"due", "confirm"}
                 \/ main.pc \in Deciding \ {"confirm"} /\ main'.pc = "drop_epoch"
                 \/ SendTx /\ main.pc = "send" /\ main'.pc = "confirm"
                 \/ ConfirmOk /\ main.pc = "confirm" /\ main'.pc = "refresh"
                 \/ ConfirmFails /\ main.pc = "confirm" /\ main'.pc \in {"attempt", "drop_epoch"}
                 \/ RefreshFromRpc /\ main.pc = "refresh" /\ main'.pc \in Decided
                 \/ RefreshSeesUpdate /\ main.pc = "refresh" /\ main'.pc \in Decided
                 \/ main.pc \in Decided /\ main'.pc \in Decided
<1>l. main \in Looping
  BY DEF Ready, TypeOK
<1>p. /\ {"rpc_epoch", "rpc_open", "rpc_db", "compare", "ws_epoch", "ws_open", "ws_db",
          "drop_epoch", "drop_open"} \subseteq Decided
      /\ Deciding \subseteq MainPCs
      /\ Decided \subseteq MainPCs
  BY DEF Deciding, Decided, MainPCs
<1>w. Waiting.pc = "wait" /\ Waiting.old = 0
  BY DEF Waiting
<1>1. ReadProof => main'.pc = "due" /\ main'.old = proof
  BY <1>l DEF ReadProof, Looping
<1>2. CheckSolution => /\ main.pc = "due"
                       /\ \/ main' = Waiting
                          \/ main'.pc = "close" /\ main'.old = main.old
  BY <1>l DEF CheckSolution, Looping
<1>3. CloseWindow => main.pc = "close" /\ main'.pc = "snapshot" /\ main'.old = main.old
  BY <1>l DEF CloseWindow, MainGoto, Looping
<1>4. TakeSnapshot => /\ main.pc = "snapshot" /\ main'.pc \in {"attempt", "drop_epoch"}
                      /\ main'.old = main.old
  BY <1>l DEF TakeSnapshot, Looping
<1>5. CheckStillValid => /\ main.pc = "attempt" /\ main'.pc \in {"send", "drop_epoch"}
                         /\ main'.old = main.old
  BY <1>l DEF CheckStillValid, MainGoto, Looping
<1>6. BlockhashFails => /\ main.pc = "send" /\ main'.pc \in {"attempt", "drop_epoch"}
                        /\ main'.old = main.old
  BY <1>l, NextAttemptMoves DEF BlockhashFails
<1>7. SendFails => main.pc = "send" /\ main'.pc = "drop_epoch" /\ main'.old = main.old
  BY <1>l DEF SendFails, MainGoto, Looping
<1>8. SendTx => main.pc = "send" /\ main'.pc = "confirm" /\ main'.old = main.old
  BY <1>l DEF SendTx, MainGoto, Looping
<1>9. ConfirmOk => main.pc = "confirm" /\ main'.pc = "refresh" /\ main'.old = main.old
  BY <1>l DEF ConfirmOk, MainGoto, Looping
<1>10. ConfirmFails => /\ main.pc = "confirm" /\ main'.pc \in {"attempt", "drop_epoch"}
                       /\ main'.old = main.old
  BY <1>l, NextAttemptMoves DEF ConfirmFails
<1>11. RefreshFromRpc => main.pc = "refresh" /\ main'.pc = "rpc_epoch" /\ main'.old = main.old
  BY <1>l DEF RefreshFromRpc, Looping
<1>12. RefreshSeesUpdate => main.pc = "refresh" /\ main'.pc = "compare" /\ main'.old = main.old
  BY <1>l DEF RefreshSeesUpdate, Looping
<1>13. CompareEpoch => /\ main.pc = "compare"
                       /\ \/ main' = Waiting
                          \/ main'.pc = "ws_epoch" /\ main'.old = main.old
  BY <1>l DEF CompareEpoch, Looping
<1>14. MainResetsEpoch => /\ main.pc \in {"rpc_epoch", "ws_epoch"}
                          /\ main'.pc \in {"rpc_open", "ws_open"} /\ main'.old = main.old
  BY <1>l DEF MainResetsEpoch, MainGoto, Looping
<1>15. MainOpensWindow => /\ main.pc \in {"rpc_open", "ws_open"}
                          /\ main'.pc \in {"rpc_db", "ws_db"} /\ main'.old = main.old
  BY <1>l DEF MainOpensWindow, MainGoto, Looping
<1>16. MainAddsChallenge => main.pc \in {"rpc_db", "ws_db"} /\ main' = Waiting
  BY DEF MainAddsChallenge
<1>17. DropRound => main.pc = "drop_epoch" /\ main'.pc = "drop_open" /\ main'.old = main.old
  BY <1>l DEF DropRound, MainGoto, Looping
<1>18. DropOpensWindow => main.pc = "drop_open" /\ main' = Waiting
  BY DEF DropOpensWindow
<1>19. CASE ReadProof
  BY <1>19, <1>1
<1>20. CASE CheckSolution \/ CompareEpoch \/ MainAddsChallenge \/ DropOpensWindow
  BY <1>20, <1>2, <1>13, <1>16, <1>18, <1>p, <1>w DEF Deciding
<1>21. CASE CloseWindow \/ TakeSnapshot \/ CheckStillValid \/ BlockhashFails \/ SendFails
  BY <1>21, <1>3, <1>4, <1>5, <1>6, <1>7 DEF Deciding
<1>22. CASE SendTx \/ ConfirmOk \/ ConfirmFails
  BY <1>22, <1>8, <1>9, <1>10
<1>23. CASE RefreshFromRpc \/ RefreshSeesUpdate
  BY <1>23, <1>11, <1>12, <1>p
<1>24. CASE MainResetsEpoch \/ MainOpensWindow \/ DropRound
  BY <1>24, <1>14, <1>15, <1>17, <1>p
<1>25. QED
  BY <1>19, <1>20, <1>21, <1>22, <1>23, <1>24 DEF SubmitRound

\* What else the main loop changes, and what it leaves to the others.
LEMMA MainTouches ==
    ASSUME SubmitRound
    PROVE  /\ UNCHANGED <<lastChallenge, tracker, chain, notices>>
           /\ CheckStillValid \/ RefreshFromRpc \/ UNCHANGED proof
           /\ SendTx \/ ConfirmOk \/ ConfirmFails \/ UNCHANGED resender
           /\ SendTx \/ UNCHANGED tx
           /\ SendFails \/ UNCHANGED orphans
           /\ ConfirmOk \/ UNCHANGED rewarded
BY DEF SubmitRound, ReadProof, CheckSolution, CloseWindow, TakeSnapshot, CheckStillValid,
       BlockhashFails, SendFails, SendTx, ConfirmOk, ConfirmFails, RefreshFromRpc,
       RefreshSeesUpdate, CompareEpoch, MainResetsEpoch, MainOpensWindow,
       MainAddsChallenge, DropRound, DropOpensWindow, outside

LEMMA OthersTouch ==
    ASSUME [Next]_vars, ~SubmitRound, ~Restart
    PROVE  /\ UNCHANGED <<main, rewarded>>
           /\ (\E s \in Resenders : Resend(s)) \/ UNCHANGED <<resender, lastChallenge>>
           /\ Land \/ Expire \/ UNCHANGED tx
           /\ (\E c \in Challenges : OrphanEnds(c)) \/ UNCHANGED orphans
           /\ Land \/ (\E c \in Challenges : OrphanEnds(c)) \/ UNCHANGED chain
BY DEF Next, vars, epoch, outside, HandleSubmission, TakeMessage, Validate, CloneSubmissions,
       InsertSubmission, Announce, OrphanEnds, TrackProof, StoreProof, LoseNotices, BalanceNotice,
       Land, Expire, Resend, ResenderLoop, ResenderAsks, ResenderSeesUpdate, ResenderSetsLast,
       ResenderResetsEpoch, ResenderOpensWindow, ResenderAddsChallenge

\* No task remembers a challenge that is ahead of the server's; the one that is
\* about to become, or is, the last challenge is over on chain.
OldsInv ==
    /\ main.old <= proof
    /\ \A s \in Resenders : resender[s].old <= proof
    /\ \A s \in Resenders : resender[s].pc \in {"rpc_last", "ws_last"} => resender[s].old < chain
    /\ lastChallenge < chain

LEMMA OldsAreNat ==
    /\ TypeOK  => main.old \in Nat /\ \A s \in Resenders : resender[s].old \in Nat
    /\ TypeOK' => main'.old \in Nat /\ \A s \in Resenders : resender'[s].old \in Nat
<1>1. \A c \in Challenges \cup {0} : c \in Nat
  BY ChallengesAreNat
<1>2. \A r \in Resending : r.old \in Nat
  BY <1>1 DEF Resending
<1>3. \A r \in Looping : r.old \in Nat
  BY <1>1 DEF Looping
<1>4. QED
  BY <1>2, <1>3 DEF TypeOK

LEMMA InitOlds == Init => OldsInv
BY DEF Init, OldsInv, Waiting, NoResender

\* The ways of a resending task.
LEMMA ResenderPath ==
    ASSUME Ready, NEW s \in Resenders, Resend(s)
    PROVE  /\ \A t \in Resenders \ {s} : resender'[t] = resender[t]
           /\ resender'[s].old \in {resender[s].old, 0}
           /\ resender'[s].pc \in {"rpc_last", "ws_last"} =>
                \/ resender'[s].old # chain /\ UNCHANGED chain
                \/ resender'[s].old # proof /\ UNCHANGED <<proof, chain>>
           /\ \/ UNCHANGED lastChallenge
              \/ /\ resender[s].pc \in {"rpc_last", "ws_last"}
                 /\ lastChallenge' = resender[s].old
           /\ UNCHANGED chain
<1>0. resender \in [Resenders -> Resending] /\ resender[s] \in Resending
  BY DEF Ready, TypeOK
<1>g. ASSUME NEW pc, ResenderGoto(s, pc)
      PROVE  /\ \A t \in Resenders \ {s} : resender'[t] = resender[t]
             /\ resender'[s].old = resender[s].old
             /\ resender'[s].pc = pc
  BY <1>0, <1>g DEF ResenderGoto, Resending
<1>e. ASSUME ResenderEnds(s)
      PROVE  /\ \A t \in Resenders \ {s} : resender'[t] = resender[t]
             /\ resender'[s].old = 0
             /\ resender'[s].pc = "idle"
  BY <1>0, <1>e DEF ResenderEnds, NoResender
<1>1. CASE ResenderLoop(s)
  BY <1>1, <1>g, <1>e DEF ResenderLoop, outside
<1>2. CASE ResenderAsks(s)
  <2>1. CASE ResenderGoto(s, "loop")
    BY <1>2, <1>g, <2>1 DEF ResenderAsks, outside
  <2>2. CASE /\ chain # resender[s].old
             /\ resender' = [resender EXCEPT ![s].pc = "rpc_last", ![s].latest = chain]
    <3>1. /\ \A t \in Resenders \ {s} : resender'[t] = resender[t]
          /\ resender'[s].old = resender[s].old
      BY <1>0, <2>2 DEF Resending
    <3>2. QED
      BY <1>2, <2>2, <3>1 DEF ResenderAsks, outside
  <2>3. QED
    BY <1>2, <2>1, <2>2 DEF ResenderAsks
<1>3. CASE ResenderSeesUpdate(s)
  <2>1. /\ \A t \in Resenders \ {s} : resender'[t] = resender[t]
        /\ resender'[s].old = resender[s].old
    BY <1>0, <1>3 DEF ResenderSeesUpdate, Resending
  <2>2. QED
    BY <1>3, <2>1 DEF ResenderSeesUpdate, outside
<1>4. CASE ResenderSetsLast(s)
  BY <1>4, <1>g DEF ResenderSetsLast, outside
<1>5. CASE ResenderResetsEpoch(s)
  BY <1>5, <1>g DEF ResenderResetsEpoch, outside
<1>6. CASE ResenderOpensWindow(s)
  BY <1>6, <1>g, <1>e DEF ResenderOpensWindow, outside
<1>7. CASE ResenderAddsChallenge(s)
  BY <1>7, <1>g, <1>e DEF ResenderAddsChallenge, outside
<1>8. QED
  BY <1>1, <1>2, <1>3, <1>4, <1>5, <1>6, <1>7 DEF Resend

\* What the main loop makes of the resending tasks: a new one, with its own
\* challenge, or a signal to stop.
LEMMA MainResenders ==
    ASSUME Ready, SubmitRound, NEW s \in Resenders
    PROVE  \/ resender'[s].pc = resender[s].pc /\ resender'[s].old = resender[s].old
           \/ resender'[s].pc = "loop" /\ resender'[s].old = main.old
<1>0. resender \in [Resenders -> Resending] /\ resender[s] \in Resending
  BY DEF Ready, TypeOK
<1>1. StopResender => resender'[s].pc = resender[s].pc /\ resender'[s].old = resender[s].old
  BY <1>0 DEF StopResender, Resending
<1>2. SendTx => \/ resender'[s] = resender[s]
                \/ resender'[s].pc = "loop" /\ resender'[s].old = main.old
  BY <1>0 DEF SendTx
<1>3. QED
  BY <1>1, <1>2, MainTouches DEF ConfirmOk, ConfirmFails

LEMMA OldsStep ==
    ASSUME Ready, CurrentInv, OldsInv, [Next]_vars, "late_notice" \notin Faults
    PROVE  OldsInv'
<1>t. TypeOK /\ TypeOK'
  BY StaysReady DEF Ready
<1>n. /\ proof \in Nat \ {0} /\ proof' \in Nat \ {0}
      /\ chain \in Nat \ {0} /\ chain' \in Nat \ {0}
      /\ lastChallenge \in Nat /\ lastChallenge' \in Nat
      /\ main.old \in Nat /\ main'.old \in Nat
      /\ \A s \in Resenders : resender[s].old \in Nat /\ resender'[s].old \in Nat
  <2>1. main.old \in Nat /\ \A s \in Resenders : resender[s].old \in Nat
    BY <1>t, OldsAreNat
  <2>2. main'.old \in Nat /\ \A s \in Resenders : resender'[s].old \in Nat
    BY <1>t, OldsAreNat
  <2>3. /\ proof \in Challenges /\ proof' \in Challenges
        /\ chain \in Challenges /\ chain' \in Challenges
        /\ lastChallenge \in Challenges \cup {0} /\ lastChallenge' \in Challenges \cup {0}
    BY <1>t DEF TypeOK
  <2>4. \A c \in Challenges : c \in Nat \ {0}
    BY ChallengesAreNat
  <2>5. QED
    BY <2>1, <2>2, <2>3, <2>4
<1>g. proof <= proof' /\ chain <= chain' /\ proof <= chain
  BY <1>t, CurrentStep DEF CurrentInv
<1>1. CASE SubmitRound
  <2>1. main'.old <= proof'
    <3>1. main'.old \in {main.old, 0} \/ (ReadProof /\ main'.old = proof)
      BY <1>1, MainPath
    <3>2. QED
      BY <1>n, <1>g, <3>1 DEF OldsInv
  <2>2. ASSUME NEW s \in Resenders
        PROVE  /\ resender'[s].old <= proof'
               /\ resender'[s].pc \in {"rpc_last", "ws_last"} => resender'[s].old < chain'
    <3>1. \/ resender'[s].pc = resender[s].pc /\ resender'[s].old = resender[s].old
          \/ resender'[s].pc = "loop" /\ resender'[s].old = main.old
      BY <1>1, MainResenders
    <3>2. resender'[s].old <= proof'
      BY <1>n, <1>g, <3>1 DEF OldsInv
    <3>3. resender'[s].pc \in {"rpc_last", "ws_last"} => resender'[s].old < chain'
      BY <1>n, <1>g, <3>1 DEF OldsInv
    <3>4. QED
      BY <3>2, <3>3
  <2>3. lastChallenge' < chain'
    BY <1>1, <1>n, <1>g, MainTouches DEF OldsInv
  <2>4. QED
    BY <2>1, <2>2, <2>3 DEF OldsInv
<1>2. CASE Restart
  <2>1. /\ main'.old = 0 /\ lastChallenge' = 0
        /\ \A s \in Resenders : resender'[s].old = 0 /\ resender'[s].pc = "idle"
    BY <1>2 DEF Restart, Waiting, NoResender
  <2>2. QED
    BY <1>n, <2>1 DEF OldsInv
<1>3. CASE ~SubmitRound /\ ~Restart
  <2>1. main'.old <= proof'
    BY <1>3, <1>n, <1>g, OthersTouch DEF OldsInv
  <2>2. CASE UNCHANGED <<resender, lastChallenge>>
    BY <1>n, <1>g, <2>1, <2>2 DEF OldsInv
  <2>3. ASSUME NEW s \in Resenders, Resend(s) PROVE OldsInv'
    <3>1. \A t \in Resenders \ {s} : resender'[t] = resender[t]
      BY <2>3, ResenderPath
    <3>2. resender'[s].old \in {resender[s].old, 0}
      BY <2>3, ResenderPath
    <3>3. resender'[s].old <= proof
      BY <1>n, <3>2 DEF OldsInv
    <3>4. resender'[s].pc \in {"rpc_last", "ws_last"} => resender'[s].old < chain'
      <4>1. resender'[s].pc \in {"rpc_last", "ws_last"} =>
              resender'[s].old # chain \/ resender'[s].old # proof
        BY <2>3, ResenderPath
      <4>2. QED
        BY <1>n, <1>g, <3>3, <4>1
    <3>5. lastChallenge' < chain'
      BY <1>n, <1>g, <2>3, ResenderPath DEF OldsInv
    <3>6. QED
      BY <1>n, <1>g, <2>1, <3>1, <3>3, <3>4, <3>5 DEF OldsInv
  <2>4. QED
    BY <1>3, <2>2, <2>3, OthersTouch
<1>4. QED
  BY <1>1, <1>2, <1>3

LEMMA AlwaysCurrent ==
    ASSUME "late_notice" \notin Faults
    PROVE  Spec => [](Ready /\ CurrentInv /\ OldsInv)
<1>1. Ready /\ CurrentInv /\ OldsInv /\ [Next]_vars => CurrentInv' /\ OldsInv'
  BY CurrentStep, OldsStep DEF Ready
<1>2. QED
  BY <1>1, InitCurrent, InitOlds, AlwaysReady, PTL DEF Spec

\* The websocket never throws away the challenge miners should be working on as
\* the last one, whichever task noticed first that the challenge moved on.
THEOREM LastBehind ==
    ASSUME "late_notice" \notin Faults
    PROVE  Spec => []LastChallengeBehind
<1>1. OldsInv => LastChallengeBehind
  BY DEF OldsInv, LastChallengeBehind
<1>2. QED
  BY <1>1, AlwaysCurrent, PTL

\* A round that is rewarded is over: the one main is at while the proof has not
\* moved, else one before the server's challenge; so the round being decided has
\* not been rewarded yet.
RewardInv ==
    /\ \A c \in Challenges :
          /\ rewarded[c] <= 1
          /\ rewarded[c] = 1 =>
               /\ c < chain
               /\ IF main.pc = "refresh" THEN c <= main.old ELSE c < proof
               /\ main.pc \in Deciding => c < main.old
    /\ main.pc = "confirm" /\ tx.st = "landed" => main.old < chain

LEMMA InitReward == Init => RewardInv
BY DEF Init, RewardInv, Waiting, NoTx

LEMMA RewardStep ==
    ASSUME Ready, CurrentInv, OldsInv, RewardInv, [Next]_vars, "late_notice" \notin Faults
    PROVE  RewardInv'
<1>t. TypeOK /\ TypeOK'
  BY StaysReady DEF Ready
<1>m. main.old \in Nat /\ main'.old \in Nat
  BY <1>t, OldsAreNat
<1>n. /\ proof \in Nat /\ proof' \in Nat
      /\ chain \in Nat /\ chain' \in Nat
      /\ main.old \in Nat /\ main'.old \in Nat
      /\ \A c \in Challenges : c \in Nat /\ rewarded[c] \in Nat /\ rewarded'[c] \in Nat
  BY <1>t, <1>m, ChallengesAreNat DEF TypeOK
<1>g. proof <= proof' /\ chain <= chain' /\ proof <= chain /\ main.old <= proof
  BY <1>t, CurrentStep DEF CurrentInv, OldsInv
<1>d. "refresh" \notin Deciding /\ "wait" \notin Deciding /\ "confirm" \in Deciding
      /\ "due" \in Deciding /\ "refresh" \notin Decided /\ (Deciding \cap Decided = {})
      /\ "drop_epoch" \notin Deciding /\ "attempt" \in Deciding
  BY DEF Deciding, Decided
\* A round that was rewarded before.
<1>1. ASSUME UNCHANGED rewarded,
             \/ UNCHANGED main
             \/ main'.pc \notin Deciding \cup {"refresh"} /\ main.pc # "refresh"
             \/ main'.pc \notin Deciding \cup {"refresh"} /\ main.old < proof'
             \/ /\ main'.pc \in Deciding /\ main.pc \in Deciding /\ main'.old = main.old
             \/ /\ main'.pc \in Deciding /\ main.pc # "refresh" /\ main'.old = proof,
             main'.pc = "confirm" /\ tx'.st = "landed" => main'.old < chain'
      PROVE  RewardInv'
  <2>1. ASSUME NEW c \in Challenges, rewarded'[c] = 1
        PROVE  /\ c < chain'
               /\ IF main'.pc = "refresh" THEN c <= main'.old ELSE c < proof'
               /\ main'.pc \in Deciding => c < main'.old
    <3>1. /\ c < chain
          /\ IF main.pc = "refresh" THEN c <= main.old ELSE c < proof
          /\ main.pc \in Deciding => c < main.old
      BY <1>1, <2>1 DEF RewardInv
    <3>2. c < chain'
      BY <1>n, <1>g, <3>1
    <3>3. CASE UNCHANGED main
      BY <1>n, <1>g, <3>1, <3>2, <3>3
    <3>4. CASE main'.pc \notin Deciding \cup {"refresh"} /\ main.pc # "refresh"
      BY <1>n, <1>g, <3>1, <3>2, <3>4
    <3>5. CASE main'.pc \notin Deciding \cup {"refresh"} /\ main.old < proof'
      BY <1>n, <1>g, <3>1, <3>2, <3>5
    <3>6. CASE main'.pc \in Deciding /\ main.pc \in Deciding /\ main'.old = main.old
      BY <1>n, <1>g, <1>d, <3>1, <3>2, <3>6
    <3>7. CASE main'.pc \in Deciding /\ main.pc # "refresh" /\ main'.old = proof
      BY <1>n, <1>g, <1>d, <3>1, <3>2, <3>7
    <3>8. QED
      BY <1>1, <3>3, <3>4, <3>5, <3>6, <3>7
  <2>2. \A c \in Challenges : rewarded'[c] <= 1
    BY <1>1 DEF RewardInv
  <2>3. QED
    BY <1>1, <2>1, <2>2 DEF RewardInv
<1>2. CASE ConfirmOk
  <2>1. /\ main.pc = "confirm" /\ main.old < chain /\ main.old \in Challenges
        /\ UNCHANGED <<chain, proof>>
    BY <1>2 DEF ConfirmOk, RewardInv, Ready, MainReady, outside
  <2>2. /\ rewarded'[main.old] = rewarded[main.old] + 1
        /\ \A c \in Challenges \ {main.old} : rewarded'[c] = rewarded[c]
    BY <1>2, <1>t, <2>1 DEF ConfirmOk, TypeOK
  <2>3. main'.pc = "refresh" /\ main'.old = main.old
    BY <1>2, <1>t, MainMoves DEF ConfirmOk, TypeOK, MainPCs
  <2>4. rewarded[main.old] = 0
    <3>1. rewarded[main.old] <= 1 /\ (rewarded[main.old] = 1 => main.old < main.old)
      BY <1>d, <2>1 DEF RewardInv
    <3>2. QED
      BY <1>n, <2>1, <3>1
  <2>5. ASSUME NEW c \in Challenges
        PROVE  rewarded'[c] <= 1 /\ (rewarded'[c] = 1 => c < chain' /\ c <= main'.old)
    <3>1. CASE c = main.old
      BY <1>n, <2>1, <2>2, <2>3, <2>4, <3>1
    <3>2. CASE c # main.old
      BY <1>n, <1>d, <2>1, <2>2, <2>3, <3>2 DEF RewardInv
    <3>3. QED
      BY <3>1, <3>2
  <2>6. QED
    BY <1>d, <2>3, <2>5 DEF RewardInv
<1>3. CASE SubmitRound /\ ~ConfirmOk
  <2>1. UNCHANGED <<rewarded, chain>> /\ (SendTx \/ UNCHANGED tx)
        /\ (CheckStillValid \/ RefreshFromRpc \/ UNCHANGED proof)
    BY <1>3, MainTouches
  <2>2. SendTx => tx'.st = "inflight"
    BY DEF SendTx
  <2>3. CASE ReadProof /\ main'.pc = "due" /\ main'.old = proof
    BY <1>1, <1>d, <2>1, <2>3 DEF ReadProof
  <2>4. CASE main'.pc = "wait" /\ main'.old = 0 /\ main.pc \notin {"confirm", "refresh"}
    BY <1>1, <1>d, <2>1, <2>4
  <2>5. CASE main'.old = main.old
    <3>1. CASE main.pc \in Deciding \ {"confirm"} /\ main'.pc \in Deciding \ {"due", "confirm"}
      BY <1>1, <1>d, <2>1, <2>5, <3>1
    <3>2. CASE main.pc \in Deciding \ {"confirm"} /\ main'.pc = "drop_epoch"
      BY <1>1, <1>d, <2>1, <2>5, <3>2
    <3>3. CASE SendTx /\ main.pc = "send" /\ main'.pc = "confirm"
      BY <1>1, <2>1, <2>2, <2>5, <3>3 DEF Deciding
    <3>4. CASE ConfirmFails /\ main.pc = "confirm" /\ main'.pc \in {"attempt", "drop_epoch"}
      BY <1>1, <1>d, <2>1, <2>5, <3>4
    <3>5. CASE RefreshFromRpc /\ main.pc = "refresh" /\ main'.pc \in Decided
      <4>1. main.old < proof'
        BY <1>n, <1>g, <3>5 DEF RefreshFromRpc
      <4>2. QED
        BY <1>1, <1>d, <2>1, <3>5, <4>1
    <3>6. CASE RefreshSeesUpdate /\ main.pc = "refresh" /\ main'.pc \in Decided
      <4>1. main.old < proof'
        BY <1>n, <1>g, <3>6 DEF RefreshSeesUpdate
      <4>2. QED
        BY <1>1, <1>d, <2>1, <3>6, <4>1
    <3>7. CASE main.pc \in Decided /\ main'.pc \in Decided
      BY <1>1, <1>d, <2>1, <3>7
    <3>8. QED
      BY <1>3, <2>3, <2>4, <2>5, <3>1, <3>2, <3>3, <3>4, <3>5, <3>6, <3>7, MainPath
  <2>6. QED
    BY <1>3, <2>3, <2>4, <2>5, MainPath
<1>4. CASE Restart
  <2>1. main'.pc = "wait" /\ proof' = chain /\ UNCHANGED <<rewarded, chain>>
    BY <1>4 DEF Restart, Waiting
  <2>2. \A c \in Challenges : rewarded'[c] = 1 => c < chain' /\ c < proof'
    BY <2>1 DEF RewardInv
  <2>3. QED
    BY <1>d, <2>1, <2>2 DEF RewardInv
<1>5. CASE ~SubmitRound /\ ~Restart
  <2>1. UNCHANGED <<main, rewarded>> /\ (Land \/ Expire \/ UNCHANGED tx)
    BY <1>5, OthersTouch
  <2>2. main'.pc = "confirm" /\ tx'.st = "landed" => main'.old < chain'
    <3>1. CASE Land
      <4>1. tx \in Tx
        BY <1>t DEF TypeOK
      <4>2. tx'.st = "landed" => chain' = chain + 1
        BY <3>1, <4>1 DEF Land, Advance, Tx, NoTx
      <4>3. QED
        BY <1>n, <1>g, <2>1, <4>2
    <3>2. CASE Expire
      <4>1. tx'.st = "expired"
        BY <1>t, <3>2 DEF Expire, TypeOK, Tx, NoTx
      <4>2. QED
        BY <4>1
    <3>3. CASE UNCHANGED tx
      BY <1>n, <1>g, <2>1, <3>3 DEF RewardInv
    <3>4. QED
      BY <2>1, <3>1, <3>2, <3>3
  <2>3. QED
    BY <1>1, <2>1, <2>2
<1>6. QED
  BY <1>2, <1>3, <1>4, <1>5

LEMMA AlwaysRewarded ==
    ASSUME "late_notice" \notin Faults
    PROVE  Spec => [](Ready /\ CurrentInv /\ OldsInv /\ RewardInv)
<1>1. Spec => [](Ready /\ CurrentInv /\ OldsInv)
  BY AlwaysCurrent
<1>2. Ready /\ CurrentInv /\ OldsInv /\ RewardInv /\ [Next]_vars => RewardInv'
  BY RewardStep
<1>3. QED
  BY <1>1, <1>2, InitReward, PTL DEF Spec

\* A round is rewarded at most once, and only if the chain took a solution for
\* its challenge, whatever requests fail, transactions expire or land after all,
\* and whenever the server restarts.
THEOREM RewardsLanded ==
    ASSUME "late_notice" \notin Faults
    PROVE  Spec => []RewardedLanded
<1>1. RewardInv => RewardedLanded
  BY DEF RewardInv, RewardedLanded
<1>2. QED
  BY <1>1, AlwaysRewarded, PTL

-----------------------------------------------------------------------------
(* When nothing fails, the chain moves only while main waits for its       *)
(* transaction, and everyone knows before the next round begins.           *)

CalmInv ==
    /\ orphans = {}
    /\ tx.st = "inflight" => main.pc = "confirm"
    /\ main.pc \notin {"confirm", "refresh"} => proof = chain
    /\ main.pc \in Deciding \ {"confirm"} => main.old = chain
    /\ main.pc = "confirm" =>
         \/ tx.st # "landed" /\ main.old = chain
         \/ tx.st = "landed" /\ tx.ch = main.old /\ chain = main.old + 1
    /\ main.pc = "refresh" => chain = main.old + 1

\* Every round that is over has been rewarded, but for the one in doubt.
PaidInv ==
    \A c \in Challenges : c < chain =>
        rewarded[c] = 1 \/ (main.pc = "confirm" /\ main.old = c)

LEMMA InitCalm == Init => CalmInv /\ PaidInv
<1>1. \A c \in Challenges : ~(c < 1)
  BY ChallengesAreNat
<1>2. QED
  BY <1>1 DEF Init, CalmInv, PaidInv, Waiting, NoTx, Deciding

LEMMA CalmStep ==
    ASSUME Ready, CurrentInv, OldsInv, RewardInv, CalmInv, PaidInv, [Next]_vars, Faults = {}
    PROVE  CalmInv' /\ PaidInv'
<1>t. TypeOK /\ TypeOK'
  BY StaysReady DEF Ready
<1>m. main.old \in Nat /\ main'.old \in Nat
  BY <1>t, OldsAreNat
<1>n. /\ proof \in Nat /\ proof' \in Nat
      /\ chain \in Nat /\ chain' \in Nat
      /\ main.old \in Nat /\ main'.old \in Nat
      /\ \A c \in Challenges : c \in Nat /\ rewarded[c] \in Nat
  BY <1>t, <1>m, ChallengesAreNat DEF TypeOK
<1>g. proof <= proof' /\ chain <= chain' /\ proof <= chain /\ proof' <= chain' /\ main.old <= proof
  BY <1>t, CurrentStep DEF CurrentInv, OldsInv
<1>d. /\ Deciding \ {"confirm"} = {"due", "close", "snapshot", "attempt", "send"}
      /\ \A pc \in Decided : pc \notin Deciding \cup {"wait", "refresh"}
      /\ "confirm" \in Deciding
  BY DEF Deciding, Decided
<1>1. CASE SubmitRound
  <2>1. UNCHANGED chain /\ (SendTx \/ UNCHANGED tx) /\ (ConfirmOk \/ UNCHANGED rewarded)
        /\ (SendFails \/ UNCHANGED orphans)
    BY <1>1, MainTouches
  <2>2. CASE ReadProof /\ main'.pc = "due" /\ main'.old = proof
    <3>1. main.pc = "wait" /\ UNCHANGED <<proof, tx, orphans, rewarded>>
      BY <2>2 DEF ReadProof, outside
    <3>2. QED
      BY <1>d, <2>1, <2>2, <3>1 DEF CalmInv, PaidInv
  <2>3. CASE main'.pc = "wait" /\ main'.old = 0 /\ main.pc \notin {"confirm", "refresh"}
    <3>1. proof' = chain
      BY <1>n, <1>g, <2>1, <2>3 DEF CalmInv
    <3>2. ~SendTx /\ ~ConfirmOk /\ ~SendFails
      BY <1>t, <2>3, MainMoves DEF SendTx, ConfirmOk, SendFails, TypeOK, MainPCs
    <3>3. QED
      BY <1>d, <2>1, <2>3, <3>1, <3>2 DEF CalmInv, PaidInv
  <2>4. CASE main.pc \in Deciding \ {"confirm"} /\ main'.old = main.old /\ ~SendTx
             /\ (main'.pc \in Deciding \ {"confirm"} \/ main'.pc = "drop_epoch")
    <3>1. proof' = chain
      BY <1>n, <1>d, <1>g, <2>1, <2>4 DEF CalmInv
    <3>2. ~ConfirmOk
      BY <2>4 DEF ConfirmOk
    <3>3. UNCHANGED orphans
      <4>1. SendFails => main.best.ch # chain /\ UNCHANGED orphans
        BY DEF SendFails
      <4>2. QED
        BY <2>1, <4>1
    <3>4. QED
      BY <1>d, <2>1, <2>4, <3>1, <3>2, <3>3 DEF CalmInv, PaidInv, Deciding
  <2>5. CASE SendTx /\ main.pc = "send" /\ main'.pc = "confirm" /\ main'.old = main.old
    <3>1. tx'.st = "inflight" /\ UNCHANGED <<orphans, proof, rewarded>>
      BY <2>5 DEF SendTx
    <3>2. main.old = chain
      BY <1>d, <2>5 DEF CalmInv
    <3>3. QED
      BY <1>d, <2>1, <2>5, <3>1, <3>2 DEF CalmInv, PaidInv
  <2>6. CASE ConfirmOk /\ main.pc = "confirm" /\ main'.pc = "refresh" /\ main'.old = main.old
    <3>1. /\ tx.st = "landed" /\ UNCHANGED <<tx, orphans, proof>>
          /\ rewarded' = [rewarded EXCEPT ![main.old] = @ + 1]
          /\ main.old \in Challenges
      BY <2>6 DEF ConfirmOk, outside, Ready, MainReady
    <3>2. chain = main.old + 1
      BY <2>6, <3>1 DEF CalmInv
    <3>3. rewarded[main.old] = 0
      <4>1. rewarded[main.old] <= 1 /\ (rewarded[main.old] = 1 => main.old < main.old)
        BY <1>d, <2>6, <3>1 DEF RewardInv
      <4>2. QED
        BY <1>n, <3>1, <4>1
    <3>4. /\ rewarded'[main.old] = 1
          /\ \A c \in Challenges \ {main.old} : rewarded'[c] = rewarded[c]
      BY <1>t, <3>1, <3>3 DEF TypeOK
    <3>5. PaidInv'
      BY <2>1, <2>6, <3>4 DEF PaidInv
    <3>6. CalmInv'
      BY <1>d, <2>1, <2>6, <3>1, <3>2 DEF CalmInv
    <3>7. QED
      BY <3>5, <3>6
  <2>7. CASE ConfirmFails /\ main.pc = "confirm" /\ main'.old = main.old
             /\ main'.pc \in {"attempt", "drop_epoch"}
    <3>1. /\ tx.st \in {"reverted", "expired"}
          /\ UNCHANGED <<tx, orphans, proof, rewarded>>
      BY <2>7 DEF ConfirmFails, outside
    <3>2. main.old = chain
      BY <2>7, <3>1 DEF CalmInv
    <3>3. proof = chain
      BY <1>n, <1>g, <3>2
    <3>4. QED
      BY <1>n, <1>d, <2>1, <2>7, <3>1, <3>2, <3>3 DEF CalmInv, PaidInv, Deciding
  <2>8. CASE /\ RefreshFromRpc \/ RefreshSeesUpdate
             /\ main.pc = "refresh" /\ main'.pc \in Decided /\ main'.old = main.old
    <3>1. /\ UNCHANGED <<tx, orphans, rewarded>>
          /\ main.old # proof'
      BY <2>8 DEF RefreshFromRpc, RefreshSeesUpdate, outside
    <3>2. chain = main.old + 1
      BY <2>8 DEF CalmInv
    <3>3. proof' = chain'
      BY <1>n, <1>g, <2>1, <3>1, <3>2
    <3>4. QED
      BY <1>d, <2>1, <2>8, <3>1, <3>3 DEF CalmInv, PaidInv
  <2>9. CASE main.pc \in Decided /\ main'.pc \in Decided /\ main'.old = main.old
    <3>1. proof' = chain
      BY <1>n, <1>d, <1>g, <2>1, <2>9 DEF CalmInv
    <3>2. ~SendTx /\ ~ConfirmOk /\ ~SendFails
      BY <1>d, <2>9 DEF SendTx, ConfirmOk, SendFails, Deciding
    <3>3. QED
      BY <1>d, <2>1, <2>9, <3>1, <3>2 DEF CalmInv, PaidInv
  <2>10. SendTx => main.pc = "send" /\ main'.pc = "confirm"
    BY <1>t, MainMoves DEF SendTx, TypeOK, MainPCs
  <2>11. QED
    BY <1>1, <2>2, <2>3, <2>4, <2>5, <2>6, <2>7, <2>8, <2>9, <2>10, MainPath
<1>2. CASE ~SubmitRound
  <2>0. ~Restart
    BY DEF Restart
  <2>1. /\ UNCHANGED <<main, rewarded>>
        /\ Land \/ Expire \/ UNCHANGED tx
    BY <1>2, <2>0, OthersTouch
  <2>2. \A c \in Challenges : ~OrphanEnds(c)
    BY DEF OrphanEnds, CalmInv
  <2>3. UNCHANGED orphans /\ (Land \/ UNCHANGED chain)
    BY <1>2, <2>0, <2>2, OthersTouch
  <2>4. CASE Land
    <3>1. main.pc = "confirm" /\ main.old = chain
      BY <2>4 DEF Land, CalmInv
    <3>2. tx \in Tx /\ tx.st = "inflight"
      BY <1>t, <2>4 DEF TypeOK, Land
    <3>3. CASE tx.ch = chain
      <4>1. /\ chain' = chain + 1
            /\ tx'.st = "landed" /\ tx'.ch = main.old
        BY <2>4, <3>1, <3>2, <3>3 DEF Land, Advance, Tx, NoTx
      <4>2. PaidInv'
        BY <1>n, <2>1, <3>1, <4>1 DEF PaidInv
      <4>3. QED
        BY <1>d, <2>1, <2>3, <3>1, <4>1, <4>2 DEF CalmInv
    <3>4. CASE tx.ch # chain
      <4>1. chain' = chain /\ tx'.st = "reverted"
        BY <2>4, <3>2, <3>4 DEF Land, Tx, NoTx
      <4>2. QED
        BY <1>d, <2>1, <2>3, <3>1, <4>1 DEF CalmInv, PaidInv
    <3>5. QED
      BY <3>3, <3>4
  <2>5. CASE ~Land
    <3>1. UNCHANGED chain
      BY <2>3, <2>5
    <3>2. main.pc \notin {"confirm", "refresh"} => proof' = chain
      BY <1>n, <1>g, <3>1 DEF CalmInv
    <3>3. \/ UNCHANGED tx
          \/ main.pc = "confirm" /\ main.old = chain /\ tx'.st = "expired"
      <4>1. Expire => tx.st = "inflight" /\ tx'.st = "expired"
        BY <1>t DEF Expire, TypeOK, Tx, NoTx
      <4>2. QED
        BY <2>1, <2>5, <4>1 DEF CalmInv
    <3>4. QED
      BY <1>d, <2>1, <2>3, <3>1, <3>2, <3>3 DEF CalmInv, PaidInv
  <2>6. QED
    BY <2>4, <2>5
<1>3. QED
  BY <1>1, <1>2

\* Without faults no solution that lands goes unrewarded: by the time the main
\* loop is back at the top, each round that is over was rewarded exactly once and
\* under its own challenge.
THEOREM LandingsRewarded ==
    ASSUME Faults = {}
    PROVE  Spec => []LandedRewarded
<1>1. RewardInv /\ CalmInv /\ PaidInv /\ Ready => LandedRewarded
  <2> SUFFICES ASSUME RewardInv, CalmInv, PaidInv, Ready, NEW c \in 1 .. chain - 1
               PROVE  \/ rewarded[c] = 1
                      \/ /\ rewarded[c] = 0
                         /\ main.pc = "confirm" /\ main.old = c
                         /\ tx = [st |-> "landed", ch |-> c]
    BY DEF LandedRewarded
  <2>1. chain \in Challenges /\ rewarded \in [Challenges -> Nat] /\ tx \in Tx
    BY DEF Ready, TypeOK
  <2>2. c \in Challenges /\ c \in Nat /\ c < chain /\ chain \in Nat
    BY <2>1, RoundConstants DEF Challenges
  <2>3. CASE main.pc = "confirm" /\ main.old = c
    <3>1. tx.st = "landed" /\ tx.ch = c
      BY <2>2, <2>3 DEF CalmInv
    <3>2. tx = [st |-> "landed", ch |-> c]
      BY <2>1, <3>1 DEF Tx, NoTx
    <3>3. rewarded[c] <= 1 /\ (rewarded[c] = 1 => c < c)
      BY <2>2, <2>3 DEF RewardInv, Deciding
    <3>4. rewarded[c] = 0
      BY <2>1, <2>2, <3>3
    <3>5. QED
      BY <2>3, <3>2, <3>4
  <2>4. CASE ~(main.pc = "confirm" /\ main.old = c)
    BY <2>2, <2>4 DEF PaidInv
  <2>5. QED
    BY <2>3, <2>4
<1>2. Spec => [](Ready /\ CurrentInv /\ OldsInv /\ RewardInv)
  BY AlwaysRewarded
<1>3. Ready /\ CurrentInv /\ OldsInv /\ RewardInv /\ CalmInv /\ PaidInv /\ [Next]_vars
        => CalmInv' /\ PaidInv'
  BY CalmStep
<1>4. QED
  BY <1>1, <1>2, <1>3, InitCalm, PTL DEF Spec

-----------------------------------------------------------------------------
(* The epoch the next round is collected under.                            *)

\* The main loop has not made up its mind about the epoch yet.
Unsettled ==
    \/ main.pc \in {"refresh", "compare", "rpc_epoch", "ws_epoch"}
    \/ main.pc = "confirm" /\ tx.st = "landed"

EpochInv ==
    /\ \A s \in Resenders : resender[s].latest <= chain
    /\ main.pc \in {"compare", "rpc_epoch", "ws_epoch"} => main.latest = chain
    /\ Unsettled \/ epochChallenge = chain \/ setBack = chain

LEMMA InitEpoch == Init => EpochInv
BY DEF Init, EpochInv, Waiting, NoResender

\* A task only ever remembers a proof the chain has had.
LEMMA LatestStep ==
    ASSUME Ready, CurrentInv, EpochInv, [Next]_vars, Faults = {}
    PROVE  \A s \in Resenders : resender'[s].latest <= chain'
<1>t. TypeOK /\ TypeOK'
  BY StaysReady DEF Ready
<1>n. /\ proof \in Nat /\ chain \in Nat /\ chain' \in Nat
      /\ resender \in [Resenders -> Resending]
      /\ \A s \in Resenders : resender[s].latest \in Nat
  <2>1. \A c \in Challenges \cup {0} : c \in Nat
    BY ChallengesAreNat
  <2>2. \A r \in Resending : r.latest \in Nat
    BY <2>1 DEF Resending
  <2>3. QED
    BY <1>t, <2>1, <2>2 DEF TypeOK
<1>g. chain <= chain' /\ proof <= chain
  BY <1>t, CurrentStep DEF CurrentInv
<1>1. CASE SubmitRound
  <2>1. \A s \in Resenders : resender'[s].latest \in {resender[s].latest, 0}
    <3>1. StopResender => \A s \in Resenders : resender'[s].latest = resender[s].latest
      BY <1>n DEF StopResender, Resending
    <3>2. SendTx => \A s \in Resenders : resender'[s].latest \in {resender[s].latest, 0}
      BY <1>n DEF SendTx
    <3>3. QED
      BY <1>1, <3>1, <3>2, MainTouches DEF ConfirmOk, ConfirmFails
  <2>2. QED
    BY <1>n, <1>g, <2>1 DEF EpochInv
<1>2. ASSUME NEW s \in Resenders, Resend(s)
      PROVE  \A r \in Resenders : resender'[r].latest <= chain'
  <2>1. \A r \in Resenders \ {s} : resender'[r] = resender[r]
    BY <1>2, ResenderPath
  <2>2. resender'[s].latest \in {resender[s].latest, 0, proof, chain}
    BY <1>2, <1>n DEF Resend, ResenderLoop, ResenderAsks, ResenderSeesUpdate, ResenderSetsLast,
       ResenderResetsEpoch, ResenderOpensWindow, ResenderAddsChallenge, ResenderGoto,
       ResenderEnds, NoResender, Resending
  <2>3. QED
    BY <1>n, <1>g, <2>1, <2>2 DEF EpochInv
<1>3. CASE UNCHANGED resender
  BY <1>n, <1>g, <1>3 DEF EpochInv
<1>4. QED
  <2>1. ~Restart
    BY DEF Restart
  <2>2. QED
    BY <1>1, <1>2, <1>3, <2>1, OthersTouch

\* What the main loop does to the epoch, and where that leaves it.
LEMMA MainSettles ==
    ASSUME Ready, CurrentInv, OldsInv, CalmInv, EpochInv, SubmitRound, Faults = {}
    PROVE  /\ main'.pc \in {"compare", "rpc_epoch", "ws_epoch"} => main'.latest = chain
           /\ Unsettled' \/ epochChallenge' = chain \/ setBack' = chain
<1>t. main \in Looping /\ Waiting.pc = "wait"
  BY DEF Ready, TypeOK, Waiting
<1>n. proof \in Nat /\ chain \in Nat /\ main.old \in Nat
  BY ChallengesAreNat, OldsAreNat DEF Ready, TypeOK
<1> DEFINE Settled == epochChallenge = chain \/ setBack = chain
<1>1. CASE ReadProof \/ CheckSolution \/ CloseWindow \/ TakeSnapshot \/ CheckStillValid \/ SendFails
  <2>1. /\ main.pc \in {"wait", "due", "close", "snapshot", "attempt", "send"}
        /\ main'.pc \notin {"compare", "rpc_epoch", "ws_epoch"}
        /\ UNCHANGED <<epochChallenge, setBack>>
    BY <1>1, <1>t DEF ReadProof, CheckSolution, CloseWindow, TakeSnapshot, CheckStillValid,
       SendFails, MainGoto, Looping, epoch
  <2>2. QED
    BY <2>1 DEF EpochInv, Unsettled
<1>2. CASE BlockhashFails \/ ConfirmFails
  <2>1. /\ main.pc = "send" \/ (main.pc = "confirm" /\ tx.st \in {"reverted", "expired"})
        /\ main'.pc \notin {"compare", "rpc_epoch", "ws_epoch"}
        /\ UNCHANGED <<epochChallenge, setBack>>
    BY <1>2, <1>t, NextAttemptMoves DEF BlockhashFails, ConfirmFails, epoch
  <2>2. QED
    BY <2>1 DEF EpochInv, Unsettled
<1>3. CASE SendTx
  <2>1. /\ main.pc = "send" /\ main'.pc = "confirm"
        /\ UNCHANGED <<epochChallenge, setBack>>
    BY <1>3, <1>t DEF SendTx, MainGoto, Looping, epoch
  <2>2. QED
    BY <2>1 DEF EpochInv, Unsettled
<1>4. CASE ConfirmOk
  <2>1. main'.pc = "refresh"
    BY <1>4, <1>t DEF ConfirmOk, MainGoto, Looping
  <2>2. QED
    BY <2>1 DEF Unsettled
<1>5. CASE RefreshFromRpc
  <2>1. main'.pc = "rpc_epoch" /\ main'.latest = chain
    BY <1>5, <1>t DEF RefreshFromRpc, Looping
  <2>2. QED
    BY <2>1 DEF Unsettled
<1>6. CASE RefreshSeesUpdate
  <2>1. main'.pc = "compare" /\ main'.latest = proof /\ main.pc = "refresh" /\ proof # main.old
    BY <1>6, <1>t DEF RefreshSeesUpdate, Looping
  <2>2. proof = chain
    BY <1>n, <2>1 DEF CurrentInv, OldsInv, CalmInv
  <2>3. QED
    BY <2>1, <2>2 DEF Unsettled
<1>7. CASE CompareEpoch
  <2>1. /\ main.pc = "compare" /\ main.latest = chain
        /\ UNCHANGED <<epochChallenge, setBack>>
    BY <1>7 DEF CompareEpoch, EpochInv, epoch
  <2>2. \/ main' = Waiting /\ epochChallenge = chain
        \/ main'.pc = "ws_epoch" /\ main'.latest = chain
    BY <1>7, <1>t, <2>1 DEF CompareEpoch, Looping
  <2>3. QED
    BY <1>t, <2>1, <2>2 DEF Unsettled
<1>8. CASE MainResetsEpoch
  <2>1. /\ epochChallenge' = chain
        /\ main'.pc \notin {"compare", "rpc_epoch", "ws_epoch"}
    BY <1>8, <1>t DEF MainResetsEpoch, ResetEpoch, MainGoto, Looping, EpochInv
  <2>2. QED
    BY <2>1
<1>9. CASE MainOpensWindow \/ MainAddsChallenge \/ DropRound \/ DropOpensWindow
  <2>1. /\ main.pc \in {"rpc_open", "ws_open", "rpc_db", "ws_db", "drop_epoch", "drop_open"}
        /\ main'.pc \notin {"compare", "rpc_epoch", "ws_epoch"}
        /\ UNCHANGED <<epochChallenge, setBack>>
    BY <1>9, <1>t DEF MainOpensWindow, MainAddsChallenge, DropRound, DropOpensWindow,
       ResetEpoch, MainGoto, Looping, epoch
  <2>2. QED
    BY <2>1 DEF EpochInv, Unsettled
<1>10. QED
  BY <1>1, <1>2, <1>3, <1>4, <1>5, <1>6, <1>7, <1>8, <1>9 DEF SubmitRound

LEMMA EpochStep ==
    ASSUME Ready, CurrentInv, OldsInv, CalmInv, EpochInv, [Next]_vars, Faults = {}
    PROVE  EpochInv'
<1>t. TypeOK /\ TypeOK'
  BY StaysReady DEF Ready
<1>n. chain \in Nat /\ \A s \in Resenders : resender[s].latest \in Nat
  <2>1. \A c \in Challenges \cup {0} : c \in Nat
    BY ChallengesAreNat
  <2>2. \A r \in Resending : r.latest \in Nat
    BY <2>1 DEF Resending
  <2>3. QED
    BY <1>t, <2>1, <2>2 DEF TypeOK
<1>1. \A s \in Resenders : resender'[s].latest <= chain'
  BY LatestStep
<1>2. CASE SubmitRound
  BY <1>1, <1>2, MainTouches, MainSettles DEF EpochInv
<1>3. CASE ~SubmitRound
  <2>0. ~Restart
    BY DEF Restart
  <2>1. UNCHANGED main /\ (Land \/ Expire \/ UNCHANGED tx)
    BY <1>3, <2>0, OthersTouch
  <2>2. \A c \in Challenges : ~OrphanEnds(c)
    BY DEF OrphanEnds, CalmInv
  <2>3. Land \/ UNCHANGED chain
    BY <1>3, <2>0, <2>2, OthersTouch
  <2>4. CASE Land
    <3>1. /\ main.pc = "confirm" /\ UNCHANGED <<epochChallenge, setBack>>
          /\ tx \in Tx /\ tx.st = "inflight"
      BY <1>t, <2>4 DEF Land, CalmInv, epoch, TypeOK
    <3>2. \/ tx'.st = "landed"
          \/ tx'.st = "reverted" /\ UNCHANGED chain
      BY <2>4, <3>1 DEF Land, Tx, NoTx
    <3>3. QED
      BY <1>1, <2>1, <3>1, <3>2 DEF EpochInv, Unsettled
  <2>5. CASE ~Land
    <3>1. UNCHANGED chain
      BY <2>3, <2>5
    <3>2. Unsettled => Unsettled'
      BY <2>1, <2>5 DEF Unsettled, Expire
    <3>3. \/ UNCHANGED <<epochChallenge, setBack>>
          \/ epochChallenge' = chain
          \/ setBack' = chain
      <4>1. ASSUME NEW s \in Resenders, ResenderResetsEpoch(s)
            PROVE  epochChallenge' = chain \/ setBack' = chain
        BY <1>n, <4>1 DEF ResenderResetsEpoch, ResetEpoch, EpochInv
      <4>2. \/ UNCHANGED <<epochChallenge, setBack>>
            \/ \E s \in Resenders : ResenderResetsEpoch(s)
        BY <1>3, <2>0 DEF Next, vars, epoch, outside, HandleSubmission, TakeMessage, Validate,
           CloneSubmissions, InsertSubmission, Announce, OrphanEnds, TrackProof, StoreProof,
           LoseNotices, BalanceNotice, Land, Expire, Resend, ResenderLoop, ResenderAsks,
           ResenderSeesUpdate, ResenderSetsLast, ResenderOpensWindow, ResenderAddsChallenge
      <4>3. QED
        BY <4>1, <4>2
    <3>4. QED
      BY <1>1, <2>1, <3>1, <3>2, <3>3 DEF EpochInv
  <2>6. QED
    BY <2>4, <2>5
<1>4. QED
  BY <1>2, <1>3

\* When nothing fails, the next round is collected and sent under the challenge the
\* chain is at, whoever noticed first that it had moved, unless a resending task of
\* an earlier round set the epoch back since.
THEOREM EpochsCurrent ==
    ASSUME Faults = {}
    PROVE  Spec => []EpochCurrent
<1>1. EpochInv => EpochCurrent
  BY DEF EpochInv, EpochCurrent, Unsettled
<1>2. Spec => [](Ready /\ CurrentInv /\ OldsInv /\ CalmInv)
  <2>1. Spec => [](Ready /\ CurrentInv /\ OldsInv /\ RewardInv)
    BY AlwaysRewarded
  <2>2. Ready /\ CurrentInv /\ OldsInv /\ RewardInv /\ CalmInv /\ PaidInv /\ [Next]_vars
          => CalmInv' /\ PaidInv'
    BY CalmStep
  <2>3. QED
    BY <2>1, <2>2, InitCalm, PTL DEF Spec
<1>3. Ready /\ CurrentInv /\ OldsInv /\ CalmInv /\ EpochInv /\ [Next]_vars => EpochInv'
  BY EpochStep
<1>4. QED
  BY <1>1, <1>2, <1>3, InitEpoch, PTL DEF Spec
=============================================================================
