------------------------- MODULE NonceRanges_proofs -------------------------
(***************************************************************************)
(* What holds of the ranges for any number of clients and miners, any      *)
(* range size, and any number of rounds.                                   *)
(***************************************************************************)
EXTENDS NonceRanges, TLAPS

LEMMA NoClientTyped == NoClient \in Addrs
BY RangeConstants DEF NoClient

-----------------------------------------------------------------------------
(* Types.                                                                  *)

\* TypeOK in two parts, of which the provers take one each.
Flags == soon \in BOOLEAN /\ best \in BOOLEAN /\ closed \in BOOLEAN

Data ==
    /\ ready \subseteq Addrs
    /\ proof \in Nat /\ epoch \in Nat /\ nonce \in Nat /\ era \in Nat /\ asked \in Nat
    /\ ranges \in [Pubkeys -> SUBSET Range]
    /\ ready_loop \in [pc : ReadyPCs, clients : SUBSET Addrs, client : Addrs, challenge : Nat]
    /\ telling \subseteq [pc : {"tell", "write"}, addr : Addrs, range : Range, seen : SUBSET Range,
                          challenge : Nat]
    /\ handler \in {"idle", "range", "insert"}
    /\ main \in [pc : ResetPCs, old : Nat, new : Nat]
    /\ resender \in [pc : ResetPCs, old : Nat, new : Nat]
    /\ handed \subseteq [addr : Addrs, range : Range]
    /\ late \subseteq Range

LEMMA TypeParts == TypeOK <=> Flags /\ Data
BY DEF TypeOK, Flags, Data

LEMMA InitTyped == Init => TypeOK
<1>1. Init => Flags
  BY Zenon DEF Init, Flags
<1>2. Init => Data
  BY NoClientTyped DEF Init, Data, Asleep, Idle, ReadyPCs, ResetPCs
<1>3. QED
  BY <1>1, <1>2, TypeParts

LEMMA FlagsTyped ==
    ASSUME Flags, [Next]_vars
    PROVE  Flags'
<1> USE DEF Flags, shared, history
<1>1. CASE ReadyLoop
  BY <1>1, Zenon DEF ReadyLoop, CheckPaused, CollectClients, ReadCutoff, LookForBest,
                     CheckWindow, ReadChallenge, HandOut, RemoveReady
<1>2. ASSUME NEW t \in telling, Tell(t) PROVE Flags'
  BY <1>2, Zenon DEF Tell, ReadRanges, InsertRange
<1>3. CASE TakeMessage \/ HandleSubmission
  BY <1>3, Zenon DEF TakeMessage, HandleSubmission, CheckRange, Refuse, InsertSubmission
<1>4. ASSUME NEW task, NEW after, ResetStep(task, after) PROVE Flags'
  BY <1>4, Zenon DEF ResetStep, ResetNonce, ResetRanges, ResetEpoch, OpenWindow
<1>5. CASE SubmitRound \/ Resend
  BY <1>4, <1>5, Zenon DEF SubmitRound, RoundDue, CloseWindow, MainMovesProof, MainComparesEpoch,
                     MainGivesUp, MainResets, Resend, ResenderSeesProof, ResenderStops,
                     ResenderResets
<1>6. QED
  BY <1>1, <1>2, <1>3, <1>5, Zenon DEF Next, ReadyMessage, CutoffNears, ProofMoves, vars

\* The steps of a reset, whichever task makes it.
LEMMA ResetStepTyped ==
    ASSUME Data, NEW task \in [pc : ResetPCs, old : Nat, new : Nat], NEW after,
           ResetStep(task, after)
    PROVE  /\ after \in [pc : ResetPCs, old : Nat, new : Nat]
           /\ nonce' \in Nat /\ era' \in Nat /\ epoch' \in Nat
           /\ ranges' \in [Pubkeys -> SUBSET Range]
           /\ UNCHANGED <<ready, proof, ready_loop, telling, handler, asked, handed, late>>
<1> USE DEF shared, history, Data, ResetPCs
<1>1. CASE ResetNonce(task) /\ after = Goto(task, "ranges")
  BY <1>1 DEF ResetNonce, Goto
<1>2. CASE ResetRanges(task) /\ after = Goto(task, "epoch")
  BY <1>2 DEF ResetRanges, Goto
<1>3. CASE ResetEpoch(task) /\ after = Goto(task, "open")
  BY <1>3 DEF ResetEpoch, Goto
<1>4. CASE OpenWindow(task) /\ after = Idle
  BY <1>4 DEF OpenWindow, Idle
<1>5. QED
  BY <1>1, <1>2, <1>3, <1>4 DEF ResetStep

LEMMA DataTyped ==
    ASSUME Data, [Next]_vars
    PROVE  Data'
<1> USE DEF Data, shared, history
<1>1. ASSUME NEW a \in Addrs, ReadyMessage(a) PROVE Data'
  BY <1>1 DEF ReadyMessage
<1>2. CASE CutoffNears \/ ProofMoves
  BY <1>2 DEF CutoffNears, ProofMoves
<1>3. CASE ReadyLoop
  <2>1. CASE CheckPaused
    BY <2>1 DEF CheckPaused, PausedOrNot, ReadyPCs
  <2>2. CASE CollectClients
    BY <2>2, NoClientTyped DEF CollectClients, Asleep, ReadyPCs
  <2>3. CASE ReadCutoff \/ LookForBest
    BY <2>3, NoClientTyped DEF ReadCutoff, LookForBest, Asleep, ReadyPCs
  <2>4. CASE CheckWindow
    BY <2>4, NoClientTyped DEF CheckWindow, Asleep, ReadyPCs
  <2>8. CASE ReadChallenge
    <3>1. \A n \in Nat : [ready_loop EXCEPT !.pc = "hand", !.challenge = n]
              \in [pc : ReadyPCs, clients : SUBSET Addrs, client : Addrs, challenge : Nat]
      BY DEF ReadyPCs
    <3>2. QED
      BY <2>8, <3>1 DEF ReadChallenge
  <2>5. ASSUME NEW a \in Addrs, HandOut(a) PROVE Data'
    <3> DEFINE r == [start |-> nonce, era |-> era]
    <3>1. r \in Range /\ nonce + Size \in Nat
      BY RangeConstants DEF Range
    <3>2. [addr |-> a, range |-> r] \in [addr : Addrs, range : Range]
      BY <3>1
    <3>3. Task(a, r)
            \in [pc : {"tell", "write"}, addr : Addrs, range : Range, seen : SUBSET Range,
                 challenge : Nat]
      BY <3>1 DEF Task
    <3>4. ready_loop' \in [pc : ReadyPCs, clients : SUBSET Addrs, client : Addrs, challenge : Nat]
      BY <2>5 DEF HandOut, ReadyPCs
    <3> HIDE DEF r
    <3>5. /\ nonce' \in {nonce, nonce + Size}
          /\ telling' \subseteq telling \cup {Task(a, r)}
          /\ handed' \subseteq handed \cup {[addr |-> a, range |-> r]}
          /\ UNCHANGED <<ready, proof, soon, epoch, best, closed, ranges,
                   handler, main, resender, era, asked, late>>
      BY <2>5 DEF HandOut, r
    <3>6. QED
      BY <3>1, <3>2, <3>3, <3>4, <3>5
  <2>6. CASE RemoveReady
    BY <2>6, NoClientTyped DEF RemoveReady, Asleep, ReadyPCs
  <2>7. QED
    BY <1>3, <2>1, <2>2, <2>3, <2>4, <2>5, <2>6, <2>8 DEF ReadyLoop
<1>4. ASSUME NEW t \in telling, Tell(t) PROVE Data'
  <2>1. t.addr \in Addrs /\ KeyOf[t.addr] \in Pubkeys /\ t.range \in Range /\ t.seen \subseteq Range
    BY RangeConstants
  <2>2. CASE ReadRanges(t)
    <3> DEFINE u == [t EXCEPT !.pc = "write", !.seen = ranges[KeyOf[t.addr]], !.challenge = 0]
    <3>1. u \in [pc : {"tell", "write"}, addr : Addrs, range : Range, seen : SUBSET Range,
                 challenge : Nat]
      BY <2>1
    <3>2. telling' = (telling \ {t}) \cup {u}
      BY <2>2 DEF ReadRanges, Becomes
    <3> HIDE DEF u
    <3>3. QED
      BY <2>2, <3>1, <3>2 DEF ReadRanges
  <2>3. CASE InsertRange(t)
    BY <2>1, <2>3 DEF InsertRange
  <2>4. QED
    BY <1>4, <2>2, <2>3 DEF Tell
<1>5. CASE TakeMessage \/ HandleSubmission
  BY <1>5 DEF TakeMessage, HandleSubmission, CheckRange, Refuse, InsertSubmission
<1>6. CASE SubmitRound
  <2>1. CASE RoundDue
    BY <2>1 DEF RoundDue, ResetPCs
  <2>2. CASE CloseWindow
    BY <2>2 DEF CloseWindow, ResetPCs
  <2>3. CASE MainMovesProof
    <3>1. \A n \in Nat : [main EXCEPT !.pc = "nonce", !.new = n] \in [pc : ResetPCs, old : Nat, new : Nat]
      BY DEF ResetPCs
    <3>2. proof + 1 \in Nat
      OBVIOUS
    <3>3. proof' \in Nat /\ main' \in [pc : ResetPCs, old : Nat, new : Nat]
      BY <2>3, <3>1, <3>2 DEF MainMovesProof
    <3>4. QED
      BY <2>3, <3>3 DEF MainMovesProof
  <2>4. CASE MainComparesEpoch
    BY <2>4 DEF MainComparesEpoch, ResetPCs, Idle
  <2>5. CASE MainGivesUp
    BY <2>5 DEF MainGivesUp, ResetPCs
  <2>6. CASE MainResets
    BY <2>6, ResetStepTyped DEF MainResets
  <2>7. QED
    BY <1>6, <2>1, <2>2, <2>3, <2>4, <2>5, <2>6 DEF SubmitRound
<1>7. CASE Resend
  <2>1. CASE ResenderSeesProof
    BY <2>1 DEF ResenderSeesProof, ResetPCs
  <2>2. CASE ResenderStops
    BY <2>2 DEF ResenderStops, ResetPCs, Idle
  <2>3. CASE ResenderResets
    BY <2>3, ResetStepTyped DEF ResenderResets
  <2>4. QED
    BY <1>7, <2>1, <2>2, <2>3 DEF Resend
<1>8. CASE UNCHANGED vars
  BY <1>8 DEF vars
<1>9. QED
  BY <1>1, <1>2, <1>3, <1>4, <1>5, <1>6, <1>7, <1>8 DEF Next

LEMMA StepTyped ==
    ASSUME TypeOK, [Next]_vars
    PROVE  TypeOK'
<1>1. Flags' /\ Data'
  BY FlagsTyped, DataTyped, TypeParts
<1>2. QED
  BY <1>1 DEF TypeOK, Flags, Data

\* Every reachable state has the stated types: in particular the counter, which
\* HandOut advances and the resets set back, stays a natural number, and nobody
\* is in the map with anything but ranges.
THEOREM TypeCorrect == Spec => []TypeOK
BY InitTyped, StepTyped, PTL DEF Spec

-----------------------------------------------------------------------------
(* No nonce is accepted from two clients.                                  *)

\* What was handed out since the counter was reset lies below the counter, and
\* nothing comes from a reset that is still to be made.
HandedBelow ==
    \A x \in handed : /\ x.range.era <= era
                      /\ x.range.era = era => x.range.start + Size <= nonce

\* Between two resets of the counter every nonce is handed out at most once.
HandedDisjoint ==
    \A x, y \in handed :
        x # y /\ x.range.era = y.range.era => Nonces(x.range) \cap Nonces(y.range) = {}

HandedInv == HandedBelow /\ HandedDisjoint

LEMMA HandedStep ==
    ASSUME TypeOK, HandedInv, [Next]_vars
    PROVE  HandedInv'
<1> USE DEF HandedInv, shared, history
<1>0. /\ nonce \in Nat /\ era \in Nat
      /\ \A x \in handed : x.range \in Range /\ x.range.start \in Nat /\ x.range.era \in Nat
  BY DEF TypeOK, Range
<1>1. ASSUME UNCHANGED <<handed, era, nonce>> PROVE HandedInv'
  BY <1>1 DEF HandedBelow, HandedDisjoint, Nonces
<1>2. ASSUME NEW a \in Addrs, HandOut(a) PROVE HandedInv'
  <2> DEFINE r == [start |-> nonce, era |-> era]
             y == [addr |-> a, range |-> r]
  <2>1. /\ y.range.start = nonce /\ y.range.era = era
        /\ era' = era
    BY <1>2 DEF HandOut
  <2>2. CASE UNCHANGED <<nonce, handed>>
    BY <1>1, <2>1, <2>2
  <2>3. CASE nonce' = nonce + Size /\ handed' = handed \cup {y}
    <3> HIDE DEF y
    <3>1. HandedBelow'
      BY <1>0, <2>1, <2>3, RangeConstants DEF HandedBelow
    <3>2. \A x \in handed : x.range.era = era => Nonces(x.range) \cap Nonces(y.range) = {}
      BY <1>0, <2>1, RangeConstants DEF HandedBelow, Nonces
    <3>3. HandedDisjoint'
      <4> SUFFICES ASSUME NEW u \in handed', NEW v \in handed', u # v,
                          u.range.era = v.range.era
                   PROVE  Nonces(u.range) \cap Nonces(v.range) = {}
        BY DEF HandedDisjoint, Nonces
      <4>1. CASE u \in handed /\ v \in handed
        BY <4>1 DEF HandedDisjoint
      <4>2. CASE u = y \/ v = y
        BY <2>1, <2>3, <3>2, <4>2
      <4>3. QED
        BY <2>3, <4>1, <4>2
    <3>4. QED
      BY <3>1, <3>3
  <2>4. QED
    BY <1>2, <2>2, <2>3 DEF HandOut
<1>3. ASSUME UNCHANGED handed, nonce' = 0, era' = era + 1 PROVE HandedInv'
  BY <1>0, <1>3 DEF HandedBelow, HandedDisjoint, Nonces
<1>4. ASSUME NEW task, NEW after, ResetStep(task, after) PROVE HandedInv'
  BY <1>1, <1>3, <1>4 DEF ResetStep, ResetNonce, ResetRanges, ResetEpoch, OpenWindow
<1>5. CASE ReadyLoop
  BY <1>1, <1>2, <1>5 DEF ReadyLoop, CheckPaused, CollectClients, ReadCutoff, LookForBest,
                          CheckWindow, ReadChallenge, RemoveReady
<1>6. ASSUME NEW t \in telling, Tell(t) PROVE HandedInv'
  BY <1>1, <1>6 DEF Tell, ReadRanges, InsertRange
<1>7. CASE SubmitRound
  BY <1>1, <1>4, <1>7 DEF SubmitRound, RoundDue, CloseWindow, MainMovesProof, MainComparesEpoch,
                          MainGivesUp, MainResets
<1>8. CASE Resend
  BY <1>1, <1>4, <1>8 DEF Resend, ResenderSeesProof, ResenderStops, ResenderResets
<1>9. CASE TakeMessage \/ HandleSubmission
  BY <1>1, <1>9 DEF TakeMessage, HandleSubmission, CheckRange, Refuse, InsertSubmission
<1>10. QED
  BY <1>1, <1>5, <1>6, <1>7, <1>8, <1>9 DEF Next, ReadyMessage, CutoffNears, ProofMoves, vars

-----------------------------------------------------------------------------
(* Where the ranges in the map come from.                                  *)

LEMMA OldRangesStep ==
    ASSUME TypeOK, OldRangesOnlyLate, [Next]_vars
    PROVE  OldRangesOnlyLate'
<1> USE DEF shared, history, At
<1>0. ranges \in [Pubkeys -> SUBSET Range]
  BY DEF TypeOK
<1>1. ASSUME UNCHANGED <<ranges, era, late>>,
             main.pc = "ranges" => main'.pc = "ranges",
             resender.pc = "ranges" => resender'.pc = "ranges"
      PROVE  OldRangesOnlyLate'
  BY <1>1 DEF OldRangesOnlyLate
<1>2. ASSUME NEW t \in telling, Tell(t) PROVE OldRangesOnlyLate'
  <2>1. CASE ReadRanges(t)
    BY <1>1, <2>1 DEF ReadRanges
  <2>2. CASE InsertRange(t)
    <3> DEFINE new == t.seen \cup {t.range}
    <3>1. /\ ranges' = [ranges EXCEPT ![KeyOf[t.addr]] = new]
          /\ late' = late \cup {r \in new : r.era # era}
          /\ UNCHANGED <<main, resender, era>>
      BY <2>2 DEF InsertRange
    <3> HIDE DEF new
    <3>2. QED
      BY <1>0, <3>1 DEF OldRangesOnlyLate
  <2>3. QED
    BY <1>2, <2>1, <2>2 DEF Tell
<1>3. ASSUME NEW task, NEW after, ResetStep(task, after),
             after.pc = "ranges" \/ task.pc # "nonce"
      PROVE  \/ \A p \in Pubkeys : ranges'[p] = {}
             \/ UNCHANGED <<ranges, era, late>> /\ task.pc # "ranges"
             \/ after.pc = "ranges" /\ UNCHANGED <<ranges, late>> /\ task.pc # "ranges"
  BY <1>3 DEF ResetStep, ResetNonce, ResetRanges, ResetEpoch, OpenWindow
<1>4. CASE SubmitRound
  <2>1. CASE MainResets
    <3>1. main'.pc = "ranges" \/ main.pc # "nonce"
      BY <2>1 DEF MainResets, ResetStep, Goto, ResetNonce, ResetRanges, ResetEpoch, OpenWindow, TypeOK
    <3>2. UNCHANGED resender /\ ResetStep(main, main')
      BY <2>1 DEF MainResets
    <3>3. QED
      BY <1>1, <1>3, <3>1, <3>2 DEF OldRangesOnlyLate
  <2>2. QED
    BY <1>1, <1>4, <2>1 DEF SubmitRound, RoundDue, CloseWindow, MainMovesProof, MainComparesEpoch,
                            MainGivesUp
<1>5. CASE Resend
  <2>1. CASE ResenderResets
    <3>1. resender'.pc = "ranges" \/ resender.pc # "nonce"
      BY <2>1 DEF ResenderResets, ResetStep, Goto, ResetNonce, ResetRanges, ResetEpoch, OpenWindow, TypeOK
    <3>2. UNCHANGED main /\ ResetStep(resender, resender')
      BY <2>1 DEF ResenderResets
    <3>3. QED
      BY <1>1, <1>3, <3>1, <3>2 DEF OldRangesOnlyLate
  <2>2. QED
    BY <1>1, <1>5, <2>1 DEF Resend, ResenderSeesProof, ResenderStops
<1>6. CASE ReadyLoop
  BY <1>1, <1>6 DEF ReadyLoop, CheckPaused, CollectClients, ReadCutoff, LookForBest,
                    CheckWindow, ReadChallenge, HandOut, RemoveReady
<1>7. CASE TakeMessage \/ HandleSubmission
  BY <1>1, <1>7 DEF TakeMessage, HandleSubmission, CheckRange, Refuse, InsertSubmission
<1>8. QED
  BY <1>1, <1>2, <1>4, <1>5, <1>6, <1>7 DEF Next, ReadyMessage, CutoffNears, ProofMoves, vars

\* Ranges of earlier rounds are in the map only if the task of one client put
\* them there after the reset, be it of the main loop or of a resending task.
THEOREM OldRangesAreLate == Spec => []OldRangesOnlyLate
<1>1. Init => OldRangesOnlyLate
  BY DEF Init, OldRangesOnlyLate
<1>2. QED
  BY <1>1, OldRangesStep, TypeCorrect, PTL DEF Spec

\* The ranges cut off for a miner, whichever of its addresses asked.
HandedTo(p) == {x.range : x \in {y \in handed : KeyOf[y.addr] = p}}

\* Map and tasks hold what was handed to the miner they hold it for.
RangesOwned ==
    /\ \A p \in Pubkeys : ranges[p] \subseteq HandedTo(p)
    /\ \A t \in telling : {t.range} \cup t.seen \subseteq HandedTo(KeyOf[t.addr])

LEMMA RangesOwnedStep ==
    ASSUME TypeOK, RangesOwned, [Next]_vars
    PROVE  RangesOwned'
<1> USE DEF shared, history
<1>0. /\ ranges \in [Pubkeys -> SUBSET Range]
      /\ \A t \in telling : t.addr \in Addrs /\ KeyOf[t.addr] \in Pubkeys
  BY RangeConstants DEF TypeOK
<1>1. handed \subseteq handed'
  BY DEF Next, ReadyMessage, CutoffNears, ReadyLoop, CheckPaused, CollectClients, ReadCutoff,
         LookForBest, CheckWindow, ReadChallenge, HandOut, RemoveReady, Tell, ReadRanges,
         InsertRange, TakeMessage,
         HandleSubmission, CheckRange, Refuse, InsertSubmission, SubmitRound, RoundDue,
         CloseWindow, MainMovesProof, MainComparesEpoch, MainGivesUp, MainResets, ProofMoves,
         Resend, ResenderSeesProof, ResenderStops, ResenderResets, ResetStep, ResetNonce,
         ResetRanges, ResetEpoch, OpenWindow, vars
<1>2. \A p : HandedTo(p) \subseteq HandedTo(p)'
  BY <1>1 DEF HandedTo
<1>3. ASSUME telling' = telling, ranges' = ranges \/ ranges' = [p \in Pubkeys |-> {}]
      PROVE  RangesOwned'
  BY <1>2, <1>3 DEF RangesOwned
<1>4. ASSUME NEW a \in Addrs, HandOut(a) PROVE RangesOwned'
  <2> DEFINE r == [start |-> nonce, era |-> era]
             u == Task(a, r)
  <2>1. CASE UNCHANGED telling
    BY <1>3, <1>4, <2>1 DEF HandOut
  <2>2. CASE telling' = telling \cup {u} /\ handed' = handed \cup {[addr |-> a, range |-> r]}
    <3>1. \E y \in handed' : y.addr = a /\ y.range = r
      <4> DEFINE y == [addr |-> a, range |-> r]
      <4>1. y \in handed' /\ y.addr = a /\ y.range = r
        BY <2>2
      <4> HIDE DEF y
      <4>2. QED
        BY <4>1
    <3>2. r \in HandedTo(KeyOf[a])'
      BY <3>1 DEF HandedTo
    <3>3. ranges' = ranges
      BY <1>4 DEF HandOut
    <3>4. SUFFICES ASSUME NEW t \in telling'
                   PROVE  {t.range} \cup t.seen \subseteq HandedTo(KeyOf[t.addr])'
      BY <1>2, <3>3 DEF RangesOwned
    <3>5. CASE t = u
      BY <3>2, <3>5 DEF Task
    <3>6. CASE t \in telling
      BY <1>2, <3>6 DEF RangesOwned
    <3>7. QED
      BY <2>2, <3>5, <3>6
  <2>3. QED
    BY <1>4, <2>1, <2>2 DEF HandOut
<1>5. ASSUME NEW t \in telling, Tell(t) PROVE RangesOwned'
  <2>1. CASE ReadRanges(t)
    <3> DEFINE u == [t EXCEPT !.pc = "write", !.seen = ranges[KeyOf[t.addr]], !.challenge = 0]
    <3>1. u.addr = t.addr /\ u.range = t.range /\ u.seen = ranges[KeyOf[t.addr]]
      BY DEF TypeOK
    <3>2. telling' = (telling \ {t}) \cup {u} /\ ranges' = ranges
      BY <2>1 DEF ReadRanges, Becomes
    <3> HIDE DEF u
    <3>3. QED
      BY <1>0, <1>2, <3>1, <3>2 DEF RangesOwned
  <2>2. CASE InsertRange(t)
    <3>1. /\ telling' = telling \ {t}
          /\ ranges' = [ranges EXCEPT ![KeyOf[t.addr]] = t.seen \cup {t.range}]
      BY <2>2 DEF InsertRange
    <3>2. QED
      BY <1>0, <1>2, <3>1 DEF RangesOwned
  <2>3. QED
    BY <1>5, <2>1, <2>2 DEF Tell
<1>6. ASSUME NEW task, NEW after, ResetStep(task, after) PROVE RangesOwned'
  BY <1>3, <1>6 DEF ResetStep, ResetNonce, ResetRanges, ResetEpoch, OpenWindow
<1>7. CASE ReadyLoop
  BY <1>3, <1>4, <1>7 DEF ReadyLoop, CheckPaused, CollectClients, ReadCutoff, LookForBest,
                          CheckWindow, ReadChallenge, RemoveReady
<1>8. CASE SubmitRound
  BY <1>3, <1>6, <1>8 DEF SubmitRound, RoundDue, CloseWindow, MainMovesProof, MainComparesEpoch,
                          MainGivesUp, MainResets
<1>9. CASE Resend
  BY <1>3, <1>6, <1>9 DEF Resend, ResenderSeesProof, ResenderStops, ResenderResets
<1>10. CASE TakeMessage \/ HandleSubmission
  BY <1>3, <1>10 DEF TakeMessage, HandleSubmission, CheckRange, Refuse, InsertSubmission
<1>11. QED
  BY <1>3, <1>5, <1>7, <1>8, <1>9, <1>10 DEF Next, ReadyMessage, CutoffNears, ProofMoves, vars

\* Whatever passes, tasks and resets overlap, and however often the counter is
\* reset in one round, no two ranges in the map overlap, except while the map is
\* being reset and where a task entered a range after the reset.
THEOREM MapDisjoint == Spec => []RangesDisjoint
<1>1. Init => HandedInv /\ OldRangesOnlyLate /\ RangesOwned
  BY DEF Init, HandedInv, HandedBelow, HandedDisjoint, OldRangesOnlyLate, RangesOwned
<1>2. HandedInv /\ OldRangesOnlyLate /\ RangesOwned => RangesDisjoint
  <2> SUFFICES ASSUME HandedDisjoint, OldRangesOnlyLate, RangesOwned,
                      NEW p \in Pubkeys, NEW q \in Pubkeys,
                      NEW r \in ranges[p], NEW s \in ranges[q],
                      p # q \/ r # s, r \notin late, s \notin late,
                      ~At(main, "ranges"), ~At(resender, "ranges")
               PROVE  Nonces(r) \cap Nonces(s) = {}
    BY DEF HandedInv, RangesDisjoint
  <2>1. r.era = era /\ s.era = era
    BY DEF OldRangesOnlyLate
  <2>2. PICK x \in handed : KeyOf[x.addr] = p /\ x.range = r
    BY DEF RangesOwned, HandedTo
  <2>3. PICK y \in handed : KeyOf[y.addr] = q /\ y.range = s
    BY DEF RangesOwned, HandedTo
  <2>4. x # y
    BY <2>2, <2>3
  <2>5. QED
    BY <2>1, <2>2, <2>3, <2>4 DEF HandedDisjoint
<1>3. QED
  BY <1>1, <1>2, HandedStep, OldRangesStep, RangesOwnedStep, TypeCorrect, PTL DEF Spec

\* A solution passes the range check only with a nonce that was handed to its
\* own miner, in this round or before.
THEOREM SolutionsSearched == Spec => SearchedOwnRange
<1>1. Init => RangesOwned
  BY DEF Init, RangesOwned
<1>2. ASSUME TypeOK, RangesOwned, NEW a \in Addrs, NEW n \in Submitted,
             CheckRange(a, n), handler' = "insert"
      PROVE  \E x \in handed : KeyOf[x.addr] = KeyOf[a] /\ n \in Nonces(x.range)
  <2>1. PICK r \in ranges[KeyOf[a]] : n \in Nonces(r)
    BY <1>2 DEF CheckRange
  <2>2. r \in HandedTo(KeyOf[a])
    BY <1>2, <2>1, RangeConstants DEF RangesOwned
  <2>3. QED
    BY <2>1, <2>2 DEF HandedTo
<1>3. TypeOK /\ RangesOwned =>
        [ \A a \in Addrs, n \in Submitted :
            CheckRange(a, n) /\ handler' = "insert" =>
                \E x \in handed : KeyOf[x.addr] = KeyOf[a] /\ n \in Nonces(x.range) ]_vars
  BY <1>2
<1>4. QED
  BY <1>1, <1>3, RangesOwnedStep, TypeCorrect, PTL DEF Spec, SearchedOwnRange

-----------------------------------------------------------------------------
(* Which ranges are lost.                                                  *)

\* Only resets and insertions take a range out of the map.
LEMMA RangeStays ==
    ASSUME TypeOK, [Next]_vars, NEW p \in Pubkeys, NEW r \in ranges[p], r \notin ranges'[p]
    PROVE  \/ At(main, "ranges") \/ At(resender, "ranges")
           \/ \E t \in telling : KeyOf[t.addr] = p /\ t.pc = "write" /\ r \notin t.seen
<1> USE DEF shared, history, At
<1>1. ranges' # ranges
  OBVIOUS
<1>2. ASSUME NEW t \in telling, Tell(t)
      PROVE  \E u \in telling : KeyOf[u.addr] = p /\ u.pc = "write" /\ r \notin u.seen
  <2>1. InsertRange(t)
    BY <1>1, <1>2 DEF Tell, ReadRanges
  <2>2. KeyOf[t.addr] = p /\ r \notin t.seen /\ t.pc = "write"
    BY <2>1 DEF InsertRange, TypeOK
  <2>3. QED
    BY <2>2
<1>3. ASSUME NEW task, NEW after, ResetStep(task, after)
      PROVE  task.pc = "ranges"
  BY <1>1, <1>3 DEF ResetStep, ResetNonce, ResetRanges, ResetEpoch, OpenWindow
<1>4. QED
  BY <1>1, <1>2, <1>3
     DEF Next, ReadyMessage, CutoffNears, ReadyLoop, CheckPaused, CollectClients, ReadCutoff,
         LookForBest, CheckWindow, ReadChallenge, HandOut, RemoveReady, TakeMessage,
         HandleSubmission, CheckRange, Refuse,
         InsertSubmission, SubmitRound, RoundDue, CloseWindow, MainMovesProof,
         MainComparesEpoch, MainGivesUp, MainResets, ProofMoves, Resend, ResenderSeesProof,
         ResenderStops, ResenderResets, vars

\* A range leaves the map by a reset, or because a task of the same miner writes
\* back what it read before the range was entered.
THEOREM RangesStay == Spec => RangeKept
<1>1. TypeOK /\ [Next]_vars =>
        [ \A p \in Pubkeys : \A r \in ranges[p] \ ranges'[p] :
            \/ At(main, "ranges") \/ At(resender, "ranges")
            \/ \E t \in telling : KeyOf[t.addr] = p /\ t.pc = "write" /\ r \notin t.seen ]_vars
  BY RangeStays
<1>2. QED
  BY <1>1, TypeCorrect, PTL DEF Spec, RangeKept
=============================================================================
