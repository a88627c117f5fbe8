--------------------------- MODULE MCMiningRound ---------------------------
(* Small instances of MiningRound for TLC. *)
EXTENDS MiningRound, TLC

CONSTANTS alice, bob, r1, r2

OneMiner     == {alice}
TwoMiners    == {alice, bob}
OneResender  == {r1}
TwoResenders == {r1, r2}

\* Miners are interchangeable, and so are resending tasks.
Symmetry == Permutations(Miners) \cup Permutations(Resenders)

\* What the future of a round depends on.  The challenges table and the reward
\* tasks that are to add to it are read by no guard and no other update; the
\* main loop's solution, list and attempt matter until the round is decided; a
\* transaction that has ended, and a resender's old challenge and stop signal,
\* matter until they have been looked at for the last time.
LiveMain ==
    IF main.pc \in {"attempt", "send", "confirm", "refresh"} THEN main
    ELSE [main EXCEPT !.best = None, !.snapshot = NoSubmissions, !.attempt = 0,
                      !.old = IF main.pc \in {"drop_epoch", "drop_open"} THEN 0 ELSE @]

LiveTx == IF main.pc = "confirm" \/ tx.st = "inflight" THEN tx ELSE NoTx

LiveResender(s) ==
    IF resender[s].pc \in {"idle", "loop", "check"} THEN resender[s]
    ELSE [resender[s] EXCEPT !.stopped = FALSE,
                             !.old = IF resender[s].pc \in {"rpc_last", "ws_last"} THEN @ ELSE 0]

LiveHandler == [handler EXCEPT !.old = 0]

Memory == <<proof, lastChallenge, epoch, closed, LiveHandler, LiveMain, tracker,
            [s \in Resenders |-> LiveResender(s)], chain, LiveTx, orphans, notices, rewarded, setBack>>

\* All but the challenges table and the reward tasks.  No action but Announce,
\* which changes nothing else, reads them: without them every behaviour, the
\* fairness it satisfies and the properties of the others stay what they are.
WithoutTable == <<proof, lastChallenge, epoch, closed, handler, main, resender, tracker,
                  outside, rewarded, setBack>>
=============================================================================
