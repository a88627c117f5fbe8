---------------------------- MODULE NonceRanges ----------------------------
(***************************************************************************)
(* Who may search where: handle_ready_clients_system takes the clients     *)
(* that asked for work, cuts a range of nonces off the common counter for  *)
(* each, and spawns a task that tells the client its range and then enters *)
(* it in the map client_submissions_handler looks solutions up in.  The    *)
(* main loop of pool_submission_system and its resending task start the    *)
(* counter and the map anew with every round.                              *)
(*                                                                         *)
(* Every lock is taken for one access, so every access is an action.  Of a *)
(* round only what decides when counter and map are reset is here; module  *)
(* MiningRound has the rest.  Whether a client is connected is a choice    *)
(* here, made where the code looks; module Connections has the sockets.  A *)
(* miner may mine from several addresses, whose ranges are kept together   *)
(* under its pubkey.                                                       *)
(***************************************************************************)
EXTENDS Integers

CONSTANTS
    Addrs,     \* socket addresses of clients
    Pubkeys,   \* miners
    KeyOf,     \* the miner that connects from an address
    Size,      \* NONCE_RANGE_SIZE
    MaxReady,  \* bound: Ready messages
    MaxSol     \* bound: solutions come in during the first MaxSol rounds

ASSUME RangeConstants ==
    /\ Addrs # {}
    /\ KeyOf \in [Addrs -> Pubkeys]
    /\ Size \in Nat \ {0}
    /\ MaxReady \in Nat
    /\ MaxSol \in Nat

VARIABLES
    \* shared
    ready,    \* addresses that asked for work
    proof,    \* app_proof: the number of its challenge
    soon,     \* less than ten seconds are left (get_cutoff)
    epoch,    \* EpochHashes.challenge
    best,     \* EpochHashes has a best solution
    closed,   \* SubmissionWindow.closed
    nonce,    \* app_nonce
    ranges,   \* app_client_nonce_ranges
    \* tasks
    ready_loop,  \* handle_ready_clients_system
    telling,  \* the tasks it spawned
    handler,  \* client_submissions_handler
    main,     \* pool_submission_system
    resender, \* its task that resends the transaction
    \* history
    era,      \* how often the counter was reset
    asked,    \* how many Ready messages came in
    handed,   \* the ranges handed out, with the address
    late      \* ranges entered in the map in a later era than their own

shared  == <<ready, proof, soon, epoch, best, closed, nonce, ranges>>
history == <<era, asked, handed, late>>
vars    == <<shared, ready_loop, telling, handler, main, resender, history>>

-----------------------------------------------------------------------------
\* A range is its first nonce; the era tells apart what was cut off before
\* and after a reset of the counter.
Range == [start : Nat, era : Nat]

\* start..end of Rust excludes the end, and the end is start + SIZE - 1.
Nonces(r) == r.start .. r.start + Size - 2

NoClient   == CHOOSE a \in Addrs : TRUE
Asleep     == [pc |-> "pause", clients |-> {}, client |-> NoClient, challenge |-> 0]
Idle       == [pc |-> "idle", old |-> 0, new |-> 0]

ReadyPCs == {"pause", "paused", "collect", "cutoff", "best", "window", "challenge", "hand", "remove"}
ResetPCs == {"idle", "close", "sent", "nonce", "ranges", "epoch", "open"}

TypeOK ==
    /\ soon \in BOOLEAN /\ best \in BOOLEAN /\ closed \in BOOLEAN
    /\ ready \subseteq Addrs
    /\ proof \in Nat /\ epoch \in Nat /\ nonce \in Nat /\ era \in Nat /\ asked \in Nat
    /\ ranges \in [Pubkeys -> SUBSET Range]
    /\ ready_loop \in [pc : ReadyPCs, clients : SUBSET Addrs, client : Addrs, challenge : Nat]
    /\ telling \subseteq [pc : {"tell", "write"}, addr : Addrs, range : Range, seen : SUBSET Range,
                          challenge : Nat]
    /\ handler \in {"idle", "range", "insert"}
    /\ main \in [pc : ResetPCs, old : Nat, new : Nat]
    /\ resender \in [pc : ResetPCs, old : Nat, new : Nat]
    /\ handed \subseteq [addr : Addrs, range : Range]
    /\ late \subseteq Range

Init ==
    /\ soon = FALSE /\ best = FALSE /\ closed = FALSE
    /\ ready = {}
    /\ proof = 1 /\ epoch = 1 /\ nonce = 0 /\ era = 0 /\ asked = 0
    /\ ranges = [p \in Pubkeys |-> {}]
    /\ ready_loop = Asleep
    /\ telling = {}
    /\ handler = "idle"
    /\ main = Idle
    /\ resender = Idle
    /\ handed = {} /\ late = {}

-----------------------------------------------------------------------------
(* Clients, the operator and time.                                         *)

\* client_message_handler_system takes a Ready message off its channel; the
\* connection it came through may be gone.
ReadyMessage(a) ==
    /\ asked < MaxReady
    /\ ready' = ready \cup {a}
    /\ asked' = asked + 1
    /\ UNCHANGED <<proof, soon, epoch, best, closed, nonce, ranges,
                   ready_loop, telling, handler, main, resender, era, handed, late>>

CutoffNears ==
    /\ soon' = TRUE
    /\ UNCHANGED <<ready, proof, epoch, best, closed, nonce, ranges,
                   ready_loop, telling, handler, main, resender, history>>

-----------------------------------------------------------------------------
(* handle_ready_clients_system                                             *)

\* The operator may have paused the server (post_pause); nothing takes it back.
PausedOrNot == {"paused", "collect"}

CheckPaused ==
    /\ ready_loop.pc = "pause"
    /\ \E pc \in PausedOrNot : ready_loop' = [ready_loop EXCEPT !.pc = pc]
    /\ UNCHANGED <<shared, telling, handler, main, resender, history>>

CollectClients ==
    /\ ready_loop.pc = "collect"
    /\ ready_loop' = IF ready = {} THEN Asleep
                     ELSE [ready_loop EXCEPT !.pc = "cutoff", !.clients = ready]
    /\ UNCHANGED <<shared, telling, handler, main, resender, history>>

\* Seeded fault: close to the cut-off nobody is given work.
ReadCutoffStrictly ==
    /\ ready_loop.pc = "cutoff"
    /\ ready_loop' = IF soon THEN Asleep ELSE [ready_loop EXCEPT !.pc = "window"]
    /\ UNCHANGED <<shared, telling, handler, main, resender, history>>

\* "only distribute challenge if 10 seconds or more is left or if there is no
\* best_hash yet": the time is read off app_proof, and only if it is short the
\* best solution is looked for, under another lock.
ReadCutoff ==
    /\ ready_loop.pc = "cutoff"
    /\ ready_loop' = [ready_loop EXCEPT !.pc = IF soon THEN "best" ELSE "window"]
    /\ UNCHANGED <<shared, telling, handler, main, resender, history>>

LookForBest ==
    /\ ready_loop.pc = "best"
    /\ ready_loop' = IF best THEN Asleep ELSE [ready_loop EXCEPT !.pc = "window"]
    /\ UNCHANGED <<shared, telling, handler, main, resender, history>>

CheckWindow ==
    /\ ready_loop.pc = "window"
    /\ ready_loop' = IF closed THEN Asleep ELSE [ready_loop EXCEPT !.pc = "challenge"]
    /\ UNCHANGED <<shared, telling, handler, main, resender, history>>

\* app_proof is read again, for the challenge every client of the pass is told;
\* by the time a client is told it, it may not be the latest.
ReadChallenge ==
    /\ ready_loop.pc = "challenge"
    /\ ready_loop' = [ready_loop EXCEPT !.pc = "hand", !.challenge = proof]
    /\ UNCHANGED <<shared, telling, handler, main, resender, history>>

\* The task of a range, as it is spawned.
Task(a, r) == [pc |-> "tell", addr |-> a, range |-> r, seen |-> {}, challenge |-> ready_loop.challenge]

\* Seeded fault: the counter is read under one lock, advanced under another:
\* two clients of one pass are given the same range.
HandOutUncounted(a) ==
    LET r == [start |-> nonce, era |-> era] IN
    /\ ready_loop.pc = "hand"
    /\ a \in ready_loop.clients
    /\ ready_loop' = [ready_loop EXCEPT !.pc = "remove", !.client = a]
    /\ \/ /\ nonce' = IF ready_loop.clients = {a} THEN nonce + Size ELSE nonce
          /\ telling' = telling \cup {Task(a, r)}
          /\ handed' = handed \cup {[addr |-> a, range |-> r]}
       \/ UNCHANGED <<nonce, telling, handed>>
    /\ UNCHANGED <<ready, proof, soon, epoch, best, closed, ranges,
                   handler, main, resender, era, asked, late>>

\* Seeded fault: the range of a client that is gone is taken back, which was
\* not given out.
HandOutTakenBack(a) ==
    LET r == [start |-> nonce, era |-> era] IN
    /\ ready_loop.pc = "hand"
    /\ a \in ready_loop.clients
    /\ ready_loop' = [ready_loop EXCEPT !.pc = "remove", !.client = a]
    /\ \/ /\ nonce' = nonce + Size
          /\ telling' = telling \cup {Task(a, r)}
          /\ handed' = handed \cup {[addr |-> a, range |-> r]}
       \/ nonce' = nonce - Size /\ UNCHANGED <<telling, handed>>
    /\ UNCHANGED <<ready, proof, soon, epoch, best, closed, ranges,
                   handler, main, resender, era, asked, late>>

\* A range is cut off for a client that was connected when the sockets were
\* cloned, and a task spawned that tells it.
HandOut(a) ==
    LET r == [start |-> nonce, era |-> era] IN
    /\ ready_loop.pc = "hand"
    /\ a \in ready_loop.clients
    /\ ready_loop' = [ready_loop EXCEPT !.pc = "remove", !.client = a]
    /\ \/ /\ nonce' = nonce + Size
          /\ telling' = telling \cup {Task(a, r)}
          /\ handed' = handed \cup {[addr |-> a, range |-> r]}
       \/ UNCHANGED <<nonce, telling, handed>>
    /\ UNCHANGED <<ready, proof, soon, epoch, best, closed, ranges,
                   handler, main, resender, era, asked, late>>

\* "remove ready client from list", and go on to the next one of the pass.
RemoveReady ==
    LET left == ready_loop.clients \ {ready_loop.client} IN
    /\ ready_loop.pc = "remove"
    /\ ready' = ready \ {ready_loop.client}
    /\ ready_loop' = IF left = {} THEN Asleep
                     ELSE [ready_loop EXCEPT !.pc = "hand", !.clients = left, !.client = NoClient]
    /\ UNCHANGED <<proof, soon, epoch, best, closed, nonce, ranges,
                   telling, handler, main, resender, history>>

ReadyLoop ==
    \/ CheckPaused \/ CollectClients \/ ReadCutoff \/ LookForBest \/ CheckWindow \/ ReadChallenge
    \/ \E a \in Addrs : HandOut(a)
    \/ RemoveReady

-----------------------------------------------------------------------------
(* The task of a range: tell, read the map, write the map.                 *)

Becomes(t, u) == telling' = (telling \ {t}) \cup {u}

\* The client is sent challenge and range, and whether that works or not the
\* ranges its miner has are read.
ReadRanges(t) ==
    /\ t.pc = "tell"
    /\ Becomes(t, [t EXCEPT !.pc = "write", !.seen = ranges[KeyOf[t.addr]], !.challenge = 0])
    /\ UNCHANGED <<shared, ready_loop, handler, main, resender, history>>

\* Seeded fault: the ranges the miner already has are forgotten.
InsertRangeOnly(t) ==
    /\ t.pc = "write"
    /\ ranges' = [ranges EXCEPT ![KeyOf[t.addr]] = {t.range}]
    /\ late' = late \cup {r \in {t.range} : r.era # era}
    /\ telling' = telling \ {t}
    /\ UNCHANGED <<ready, proof, soon, epoch, best, closed, nonce,
                   ready_loop, handler, main, resender, era, asked, handed>>

\* The list read a moment ago and the new range replace what is there now.
InsertRange(t) ==
    LET new == t.seen \cup {t.range} IN
    /\ t.pc = "write"
    /\ ranges' = [ranges EXCEPT ![KeyOf[t.addr]] = new]
    /\ late' = late \cup {r \in new : r.era # era}
    /\ telling' = telling \ {t}
    /\ UNCHANGED <<ready, proof, soon, epoch, best, closed, nonce,
                   ready_loop, handler, main, resender, era, asked, handed>>

Tell(t) == ReadRanges(t) \/ InsertRange(t)

-----------------------------------------------------------------------------
(* client_submissions_handler, as far as ranges are concerned.             *)

\* A message is taken while the window is open; a late one is refused.  Whose
\* it is and what it holds is chosen where it is looked at.
TakeMessage ==
    /\ handler = "idle"
    /\ ~closed
    /\ era < MaxSol
    /\ handler' = "range"
    /\ UNCHANGED <<shared, ready_loop, telling, main, resender, history>>

\* Seeded fault: any client's range will do.
CheckRangeOfAll(a, n) ==
    /\ handler = "range"
    /\ handler' = IF \E p \in Pubkeys : \E r \in ranges[p] : n \in Nonces(r)
                  THEN "insert" ELSE "idle"
    /\ UNCHANGED <<shared, ready_loop, telling, main, resender, history>>

\* The nonce must be in one of the ranges of the miner.
CheckRange(a, n) ==
    /\ handler = "range"
    /\ handler' = IF \E r \in ranges[KeyOf[a]] : n \in Nonces(r) THEN "insert" ELSE "idle"
    /\ UNCHANGED <<shared, ready_loop, telling, main, resender, history>>

\* The client has disconnected, or the solution is not for the challenge of
\* app_proof.
Refuse ==
    /\ handler = "insert"
    /\ handler' = "idle"
    /\ UNCHANGED <<shared, ready_loop, telling, main, resender, history>>

InsertSubmission ==
    /\ handler = "insert"
    /\ best' = TRUE
    /\ handler' = "idle"
    /\ UNCHANGED <<ready, proof, soon, epoch, closed, nonce, ranges,
                   ready_loop, telling, main, resender, history>>

\* Bound: the nonces that can have been handed out, and one more.
Submitted == 0 .. MaxReady * Size

HandleSubmission ==
    \/ \E a \in Addrs, n \in Submitted : CheckRange(a, n)
    \/ Refuse \/ InsertSubmission

-----------------------------------------------------------------------------
(* When counter and map are reset: by the main loop, by the resending      *)
(* task, or by both.                                                       *)

\* The cut-off is reached and there is a solution.
RoundDue ==
    /\ main.pc = "idle"
    /\ soon /\ best
    /\ main' = [pc |-> "close", old |-> proof, new |-> 0]
    /\ UNCHANGED <<shared, ready_loop, telling, handler, resender, history>>

\* The window is closed, the solution sent, and a task resends it (bound: one
\* such task at a time).  An attempt whose solution was reset meanwhile, or
\* cannot be sent, has no such task.
CloseWindow ==
    /\ main.pc = "close"
    /\ closed' = TRUE
    /\ main' = [main EXCEPT !.pc = "sent"]
    /\ \/ resender.pc = "idle" /\ best /\ resender' = [pc |-> "sent", old |-> main.old, new |-> 0]
       \/ UNCHANGED resender
    /\ UNCHANGED <<ready, proof, soon, epoch, best, nonce, ranges,
                   ready_loop, telling, handler, history>>

\* The solution lands and the websocket, or the resending task, moves the proof
\* (bound: while the main loop still waits for it).
ProofMoves ==
    /\ main.pc = "sent"
    /\ proof = main.old
    /\ proof' = proof + 1
    /\ soon' = FALSE
    /\ UNCHANGED <<ready, epoch, best, closed, nonce, ranges,
                   ready_loop, telling, handler, main, resender, history>>

\* The main loop asks for the new proof before anybody else noticed it.
MainMovesProof ==
    /\ main.pc = "sent"
    /\ proof = main.old
    /\ proof' = proof + 1
    /\ soon' = FALSE
    /\ main' = [main EXCEPT !.pc = "nonce", !.new = proof + 1]
    /\ UNCHANGED <<ready, epoch, best, closed, nonce, ranges,
                   ready_loop, telling, handler, resender, history>>

\* Somebody else did: the reset is made unless the hashes are up to date.
MainComparesEpoch ==
    /\ main.pc = "sent"
    /\ proof # main.old
    /\ main' = IF epoch = proof THEN Idle ELSE [main EXCEPT !.pc = "nonce", !.new = proof]
    /\ UNCHANGED <<shared, ready_loop, telling, handler, resender, history>>

\* No attempt succeeds.  There is no new challenge: that of the hashes is left as
\* it is when the reset comes to them.
MainGivesUp ==
    /\ main.pc = "sent"
    /\ main' = [main EXCEPT !.pc = "nonce", !.new = 0]
    /\ UNCHANGED <<shared, ready_loop, telling, handler, resender, history>>

ResenderSeesProof ==
    /\ resender.pc = "sent"
    /\ proof # resender.old
    /\ resender' = [resender EXCEPT !.pc = "nonce", !.new = proof]
    /\ UNCHANGED <<shared, ready_loop, telling, handler, main, history>>

\* The main loop has decided about the attempt and tells the task to stop.
ResenderStops ==
    /\ resender.pc = "sent"
    /\ main.pc # "sent"
    /\ resender' = Idle
    /\ UNCHANGED <<shared, ready_loop, telling, handler, main, history>>

\* The steps of a reset, by whichever task: `task` is main or resender.
At(task, pc)    == task.pc = pc
Goto(task, pc)  == [task EXCEPT !.pc = pc]

ResetNonce(task) ==
    /\ At(task, "nonce")
    /\ nonce' = 0
    /\ era' = era + 1
    /\ UNCHANGED <<ready, proof, soon, epoch, best, closed, ranges,
                   ready_loop, telling, handler, asked, handed, late>>

\* Seeded fault: the map is left as it is.
ResetRangesForgotten(task) ==
    /\ At(task, "ranges")
    /\ UNCHANGED <<shared, ready_loop, telling, handler, history>>

ResetRanges(task) ==
    /\ At(task, "ranges")
    /\ ranges' = [p \in Pubkeys |-> {}]
    /\ UNCHANGED <<ready, proof, soon, epoch, best, closed, nonce,
                   ready_loop, telling, handler, history>>

ResetEpoch(task) ==
    /\ At(task, "epoch")
    /\ epoch' = IF task.new = 0 THEN epoch ELSE task.new
    /\ best' = FALSE
    /\ UNCHANGED <<ready, proof, soon, closed, nonce, ranges,
                   ready_loop, telling, handler, history>>

OpenWindow(task) ==
    /\ At(task, "open")
    /\ closed' = FALSE
    /\ UNCHANGED <<ready, proof, soon, epoch, best, nonce, ranges,
                   ready_loop, telling, handler, history>>

\* One step of the reset, and where it leaves the task.
ResetStep(task, after) ==
    \/ ResetNonce(task)  /\ after = Goto(task, "ranges")
    \/ ResetRanges(task) /\ after = Goto(task, "epoch")
    \/ ResetEpoch(task)  /\ after = Goto(task, "open")
    \/ OpenWindow(task)  /\ after = Idle

MainResets     == ResetStep(main, main') /\ UNCHANGED resender
ResenderResets == ResetStep(resender, resender') /\ UNCHANGED main

SubmitRound ==
    \/ RoundDue \/ CloseWindow \/ MainMovesProof \/ MainComparesEpoch \/ MainGivesUp
    \/ MainResets

Resend == ResenderSeesProof \/ ResenderStops \/ ResenderResets

-----------------------------------------------------------------------------
Next ==
    \/ \E a \in Addrs : ReadyMessage(a)
    \/ CutoffNears
    \/ ReadyLoop
    \/ \E t \in telling : Tell(t)
    \/ TakeMessage \/ HandleSubmission
    \/ SubmitRound \/ ProofMoves \/ Resend

Spec == Init /\ [][Next]_vars

\* The loops run; nothing is assumed of clients, solutions or the chain, and the
\* property below needs nothing of the other tasks.
FairSpec ==
    /\ Spec
    /\ WF_vars(ReadyLoop)
    /\ WF_vars(SubmitRound)
    /\ WF_vars(Resend)

-----------------------------------------------------------------------------
(* Properties *)

\* A nonce is accepted from one client's range only: no two ranges in the map
\* overlap, although the counter starts anew several times in one round (main
\* loop, resending task, failed attempt) and the same nonces of one challenge are
\* then told to a second client.  That is safe because every reset of the counter
\* is followed by one of the map, which takes the first client's range out.  The
\* exceptions are the moment between the two, and a range that a task enters
\* after the reset it was cut off before.
RangesDisjoint ==
    \A p, q \in Pubkeys : \A r \in ranges[p], s \in ranges[q] :
        \/ p = q /\ r = s
        \/ Nonces(r) \cap Nonces(s) = {}
        \/ r \in late \/ s \in late
        \/ At(main, "ranges") \/ At(resender, "ranges")

\* The map holds ranges of the rounds before only where a task that was told
\* its range, or read the map, before the reset entered them after it.  This is
\* why the counter is reset before the map.
OldRangesOnlyLate ==
    \A p \in Pubkeys : \A r \in ranges[p] :
        r.era = era \/ r \in late \/ At(main, "ranges") \/ At(resender, "ranges")

\* A solution that passes the range check is one the miner was given the nonce
\* for, whichever round the range was cut off in.
SearchedOwnRange ==
    [][ \A a \in Addrs, n \in Submitted :
            CheckRange(a, n) /\ handler' = "insert" =>
                \E x \in handed : KeyOf[x.addr] = KeyOf[a] /\ n \in Nonces(x.range) ]_vars

\* A range entered in the map stays until a reset.  The exception is the task
\* of another address of the same miner that read the map before: it writes
\* back what it read, and the solutions of the address that lost its range are
\* refused.
RangeKept ==
    [][ \A p \in Pubkeys : \A r \in ranges[p] \ ranges'[p] :
            \/ At(main, "ranges") \/ At(resender, "ranges")
            \/ \E t \in telling : KeyOf[t.addr] = p /\ t.pc = "write" /\ r \notin t.seen ]_vars

\* Whoever asked for work is given some, or found to be gone, unless the
\* server is paused.  Requests are bounded, so this is every one of them.
ReadyServed == (ready # {}) ~> (ready = {} \/ ready_loop.pc = "paused")
=============================================================================
