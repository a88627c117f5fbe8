------------------------ MODULE Connections_proofs ------------------------
(***************************************************************************)
(* Proofs about Connections: what the map of connections holds, and when a *)
(* connection is taken out of it, for any number of connections and        *)
(* addresses.                                                              *)
(***************************************************************************)
EXTENDS Connections, TLAPS

-----------------------------------------------------------------------------
(* Types.                                                                  *)

LEMMA InitTypes == Init => TypeOK
<1>1. Doze \in [pc : {"sleep", "visit", "socket", "pong"}, old : SUBSET Addrs, addr : Addrs]
  <2>1. (CHOOSE a \in Addrs : TRUE) \in Addrs
    BY ConnectionConstants
  <2>2. QED
    BY <2>1 DEF Doze
<1>2. Never \in Ages
  BY ConnectionConstants DEF Never, Ages
<1>3. Rest \in [pc : {"sleep", "await"}, due : BOOLEAN,
                waiting : SUBSET Conns, failed : SUBSET Conns]
  BY DEF Rest
<1>4. QED
  BY <1>1, <1>2, <1>3 DEF Init, TypeOK

\* What each group of tasks may disturb keeps its type.
LEMMA ClientTypes ==
    ASSUME TypeOK, NEW c \in Conns,
           \/ Connect(c) \/ Reject(c) \/ Silent(c) \/ Resume(c) \/ Leave(c) \/ Pong(c)
           \/ ReceiverPanics(c)
    PROVE  TypeOK'
<1>1. 0 \in Ages /\ AddrOf[c] \in Addrs
  BY ConnectionConstants DEF Ages
<1>2. UNCHANGED <<sockets, ping, tracker, sending, stalled>>
  BY Zenon DEF Connect, Reject, Silent, Resume, Leave, Pong, ReceiverPanics
<1>3. /\ client' \in [Conns -> {"away", "up", "silent", "gone"}]
      /\ conn' \in [Conns -> {"none", "upgraded", "greeted", "open", "ended", "done"}]
      /\ pongs' \in [Addrs -> Ages]
      /\ owes' \subseteq Conns
      /\ faulty' \subseteq Stopping
  BY <1>1 DEF TypeOK, Connect, Reject, Silent, Resume, Leave, Pong, ReceiverPanics, ends
<1>4. QED
  BY <1>2, <1>3, Zenon DEF TypeOK

LEMMA SocketTypes ==
    ASSUME TypeOK, NEW c \in Conns, HandleSocket(c)
    PROVE  TypeOK'
<1>1. AddrOf[c] \in Addrs
  BY ConnectionConstants
<1>2. UNCHANGED <<faulty, pongs, ping, tracker, sending, stalled>>
  BY Zenon DEF HandleSocket, Greet, Register, ReceiverEnds, Deregister, ends
<1>3. /\ client' \in [Conns -> {"away", "up", "silent", "gone"}]
      /\ conn' \in [Conns -> {"none", "upgraded", "greeted", "open", "ended", "done"}]
      /\ sockets' \in [Addrs -> Conns \cup {None}]
      /\ owes' \subseteq Conns
  <2>1. CASE Greet(c)
    BY <2>1 DEF Greet, TypeOK, ends
  <2>2. CASE Register(c)
    BY <1>1, <2>2 DEF Register, TypeOK
  <2>3. CASE ReceiverEnds(c) \/ Deregister(c)
    BY <1>1, <2>3 DEF ReceiverEnds, Deregister, TypeOK, ends
  <2>4. QED
    BY <2>1, <2>2, <2>3 DEF HandleSocket
<1>4. QED
  BY <1>2, <1>3, Zenon DEF TypeOK

LEMMA PingTypes ==
    ASSUME TypeOK, PingCheck
    PROVE  TypeOK'
<1>1. UNCHANGED <<ends, conn, pongs, tracker, sending, stalled>>
  BY Zenon DEF PingCheck, StartPings, EndPings, SendPing, RemoveFailed
<1>2. /\ sockets' \in [Addrs -> Conns \cup {None}]
      /\ owes' \subseteq Conns
      /\ ping' \in [pc : {"sleep", "await"}, due : BOOLEAN,
                    waiting : SUBSET Conns, failed : SUBSET Conns]
  <2>0. ping \in [pc : {"sleep", "await"}, due : BOOLEAN,
                  waiting : SUBSET Conns, failed : SUBSET Conns]
    BY DEF TypeOK
  <2>1. CASE StartPings \/ EndPings
    <3>1. UNCHANGED <<sockets, owes>>
      BY <2>1, Zenon DEF StartPings, EndPings
    <3>2. CASE StartPings
      <4>1. {c \in Conns : sockets[AddrOf[c]] = c} \subseteq Conns
        OBVIOUS
      <4>2. ASSUME NEW W \in SUBSET Conns
            PROVE  [ping EXCEPT !.pc = "await", !.due = FALSE, !.waiting = W]
                      \in [pc : {"sleep", "await"}, due : BOOLEAN,
                           waiting : SUBSET Conns, failed : SUBSET Conns]
        BY <2>0
      <4>3. QED
        BY <3>1, <3>2, <4>1, <4>2, Zenon DEF StartPings, TypeOK
    <3>3. CASE EndPings
      BY <2>0, <3>1, <3>3 DEF EndPings, TypeOK
    <3>4. QED
      BY <2>1, <3>2, <3>3
  <2>2. ASSUME NEW c \in Conns, SendPing(c) \/ RemoveFailed(c)
        PROVE  /\ sockets' \in [Addrs -> Conns \cup {None}]
               /\ owes' \subseteq Conns
               /\ ping' \in [pc : {"sleep", "await"}, due : BOOLEAN,
                             waiting : SUBSET Conns, failed : SUBSET Conns]
    <3>1. AddrOf[c] \in Addrs
      BY ConnectionConstants
    <3>2. /\ sockets' \in [Addrs -> Conns \cup {None}]
          /\ owes' \subseteq Conns
      BY <2>2, <3>1 DEF SendPing, RemoveFailed, TypeOK
    <3>3. /\ [ping EXCEPT !.waiting = @ \ {c}] \in [pc : {"sleep", "await"}, due : BOOLEAN,
                                                   waiting : SUBSET Conns, failed : SUBSET Conns]
          /\ [ping EXCEPT !.failed = @ \ {c}] \in [pc : {"sleep", "await"}, due : BOOLEAN,
                                                  waiting : SUBSET Conns, failed : SUBSET Conns]
          /\ [ping EXCEPT !.waiting = @ \ {c}, !.failed = @ \cup {c}]
                \in [pc : {"sleep", "await"}, due : BOOLEAN,
                     waiting : SUBSET Conns, failed : SUBSET Conns]
      BY <2>0
    <3>4. \/ ping' = [ping EXCEPT !.waiting = @ \ {c}]
          \/ ping' = [ping EXCEPT !.failed = @ \ {c}]
          \/ ping' = [ping EXCEPT !.waiting = @ \ {c}, !.failed = @ \cup {c}]
      BY <2>2, Zenon DEF SendPing, RemoveFailed
    <3>5. ping' \in [pc : {"sleep", "await"}, due : BOOLEAN,
                     waiting : SUBSET Conns, failed : SUBSET Conns]
      BY <3>3, <3>4, Zenon
    <3>6. QED
      BY <3>2, <3>5
  <2>3. QED
    BY <2>1, <2>2 DEF PingCheck
<1>3. QED
  BY <1>1, <1>2, Zenon DEF TypeOK, ends

LEMMA TrackerTypes ==
    ASSUME TypeOK, TrackPongs
    PROVE  TypeOK'
<1>1. UNCHANGED <<ends, conn, owes, ping, sending, stalled>>
  BY Zenon DEF TrackPongs, CopyPongs, VisitPong, RemoveSocket, RemovePong, EndVisits
<1>2. Doze.addr \in Addrs /\ Doze \in [pc : {"sleep"}, old : {{}}, addr : Addrs]
  <2>1. (CHOOSE a \in Addrs : TRUE) \in Addrs
    BY ConnectionConstants
  <2>2. QED
    BY <2>1 DEF Doze
<1>3. Never \in Ages
  BY ConnectionConstants DEF Never, Ages
<1>4. /\ sockets' \in [Addrs -> Conns \cup {None}]
      /\ pongs' \in [Addrs -> Ages]
      /\ tracker' \in [pc : {"sleep", "visit", "socket", "pong"}, old : SUBSET Addrs, addr : Addrs]
  <2>0. /\ tracker \in [pc : {"sleep", "visit", "socket", "pong"}, old : SUBSET Addrs, addr : Addrs]
        /\ sockets \in [Addrs -> Conns \cup {None}]
        /\ pongs \in [Addrs -> Ages]
    BY DEF TypeOK
  <2>1. CASE CopyPongs \/ \E a \in Addrs : VisitPong(a)
    <3>1. TooOld \subseteq Addrs /\ UNCHANGED <<sockets, pongs>>
      BY <2>1 DEF TooOld, CopyPongs, VisitPong
    <3>2. CASE CopyPongs
      <4>1. ASSUME NEW O \in SUBSET Addrs
            PROVE  [tracker EXCEPT !.pc = "visit", !.old = O]
                      \in [pc : {"sleep", "visit", "socket", "pong"}, old : SUBSET Addrs, addr : Addrs]
        BY <2>0
      <4>2. QED
        BY <2>0, <3>1, <3>2, <4>1, Zenon DEF CopyPongs
    <3>3. QED
      BY <2>0, <2>1, <3>1, <3>2 DEF VisitPong
  <2>2. CASE RemovePong
    BY <1>2, <1>3, <2>0, <2>2 DEF RemovePong
  <2>4. CASE EndVisits
    BY <1>2, <2>0, <2>4 DEF EndVisits
  <2>5. CASE RemoveSocket
    BY <2>0, <2>5 DEF RemoveSocket
  <2>3. QED
    BY <2>1, <2>2, <2>4, <2>5 DEF TrackPongs
<1>5. QED
  BY <1>1, <1>4, Zenon DEF TypeOK, ends

LEMMA OlderAges == \A age \in Ages : Older(age) \in Ages
  BY ConnectionConstants DEF Ages, Older

LEMMA TickTypes ==
    ASSUME TypeOK, Tick
    PROVE  TypeOK'
<1>1. UNCHANGED <<ends, conn, sockets, owes, sending>>
  BY Zenon DEF Tick
<1>2. pongs' \in [Addrs -> Ages]
  BY OlderAges DEF Tick, TypeOK
<1>3. tracker' \in [pc : {"sleep", "visit", "socket", "pong"}, old : SUBSET Addrs, addr : Addrs]
  BY DEF Tick, TypeOK
<1>4. ping' \in [pc : {"sleep", "await"}, due : BOOLEAN,
                 waiting : SUBSET Conns, failed : SUBSET Conns]
  BY DEF Tick, TypeOK
<1>5. stalled' \in BOOLEAN
  BY Zenon DEF Tick
<1>6. QED
  BY <1>1, <1>2, <1>3, <1>4, <1>5, Zenon DEF TypeOK, ends

LEMMA NextTypes ==
    ASSUME TypeOK, [Next]_vars
    PROVE  TypeOK'
<1>1. ASSUME NEW a \in Addrs, StartNotice(a) PROVE TypeOK'
  BY <1>1 DEF StartNotice, TypeOK, ends
<1>2. CASE EndNotice
  BY <1>2 DEF EndNotice, TypeOK, ends
<1>3. CASE UNCHANGED vars
  BY <1>3, Zenon DEF vars, ends, TypeOK
<1>4. QED
  BY <1>1, <1>2, <1>3, ClientTypes, SocketTypes, PingTypes, TrackerTypes, TickTypes DEF Next

\* Every variable keeps its type.
THEOREM TypeCorrect == Spec => []TypeOK
  BY InitTypes, NextTypes, PTL DEF Spec

-----------------------------------------------------------------------------
(* The map of connections.                                                 *)

\* A connection exists once the client came for it, and its handler is done
\* with it only when the client is gone, or the receiving task panicked.
ClientShape == \A c \in Conns :
    /\ client[c] = "away" => conn[c] = "none"
    /\ conn[c] \in {"ended", "done"} => client[c] = "gone" \/ c \in faulty
    /\ client[c] = "silent" => c \in faulty

ShapeInv == ClientShape /\ EntryOwned

LEMMA ShapeByClients ==
    ASSUME TypeOK, ShapeInv, NEW c \in Conns,
           \/ Connect(c) \/ Reject(c) \/ Silent(c) \/ Resume(c) \/ Leave(c) \/ Pong(c)
           \/ ReceiverPanics(c)
    PROVE  ShapeInv'
<1>1. UNCHANGED sockets
  BY Zenon DEF Connect, Reject, Silent, Resume, Leave, Pong, ReceiverPanics
<1>2. ClientShape'
  BY DEF TypeOK, ShapeInv, ClientShape, Connect, Reject, Silent, Resume, Leave, Pong,
         ReceiverPanics, ends
<1>3. \A a \in Addrs : sockets[a] # None =>
          conn'[sockets[a]] = conn[sockets[a]] \/ conn'[sockets[a]] = "ended"
  <2>1. CASE Connect(c)
    BY <2>1 DEF TypeOK, ShapeInv, ClientShape, EntryOwned, Connect
  <2>2. CASE UNCHANGED conn
    BY <2>2
  <2>3. CASE ReceiverPanics(c)
    BY <2>3 DEF TypeOK, ReceiverPanics
  <2>4. QED
    BY <2>1, <2>2, <2>3, Zenon DEF Reject, Silent, Resume, Leave, Pong
<1>4. EntryOwned'
  BY <1>1, <1>3 DEF ShapeInv, EntryOwned
<1>5. QED
  BY <1>2, <1>4 DEF ShapeInv

LEMMA ShapeBySockets ==
    ASSUME TypeOK, ShapeInv, NEW c \in Conns, HandleSocket(c)
    PROVE  ShapeInv'
<1>0. AddrOf[c] \in Addrs /\ c # None
  BY ConnectionConstants
<1>1. CASE Greet(c) \/ ReceiverEnds(c)
  <2>1. ClientShape'
    BY <1>1 DEF TypeOK, ShapeInv, ClientShape, Greet, ReceiverEnds, ends
  <2>2. EntryOwned'
    BY <1>1 DEF TypeOK, ShapeInv, EntryOwned, Greet, ReceiverEnds
  <2>3. QED
    BY <2>1, <2>2 DEF ShapeInv
<1>2. CASE Register(c)
  <2>1. ClientShape'
    BY <1>2 DEF TypeOK, ShapeInv, ClientShape, Register, ends
  <2>2. EntryOwned'
    BY <1>0, <1>2 DEF TypeOK, ShapeInv, EntryOwned, Register
  <2>3. QED
    BY <2>1, <2>2 DEF ShapeInv
<1>3. CASE Deregister(c)
  <2>1. ClientShape'
    BY <1>3 DEF TypeOK, ShapeInv, ClientShape, Deregister, ends
  <2>2. EntryOwned'
    BY <1>0, <1>3 DEF TypeOK, ShapeInv, EntryOwned, Deregister
  <2>3. QED
    BY <2>1, <2>2 DEF ShapeInv
<1>4. QED
  BY <1>1, <1>2, <1>3 DEF HandleSocket

LEMMA ShapeStep ==
    ASSUME TypeOK, ShapeInv, [Next]_vars
    PROVE  ShapeInv'
<1>1. ASSUME UNCHANGED <<ends, conn>>,
             \/ UNCHANGED sockets
             \/ \E a \in Addrs : sockets' = [sockets EXCEPT ![a] = None]
      PROVE  ShapeInv'
  <2>1. ClientShape'
    BY <1>1 DEF ShapeInv, ClientShape, ends
  <2>2. EntryOwned'
    BY <1>1 DEF TypeOK, ShapeInv, EntryOwned
  <2>3. QED
    BY <2>1, <2>2 DEF ShapeInv
<1>2. CASE PingCheck
  <2>1. ASSUME NEW c \in Conns PROVE AddrOf[c] \in Addrs
    BY ConnectionConstants
  <2>2. QED
    BY <1>1, <1>2, <2>1, Zenon DEF PingCheck, StartPings, EndPings, SendPing, RemoveFailed
<1>3. CASE TrackPongs
  <2>1. tracker.addr \in Addrs
    BY DEF TypeOK
  <2>2. QED
    BY <1>1, <1>3, <2>1, Zenon
       DEF TrackPongs, CopyPongs, VisitPong, RemoveSocket, RemovePong, EndVisits
<1>4. CASE (\E a \in Addrs : StartNotice(a)) \/ EndNotice \/ Tick
  BY <1>1, <1>4, Zenon DEF StartNotice, EndNotice, Tick
<1>5. CASE UNCHANGED vars
  BY <1>1, <1>5, Zenon DEF vars
<1>6. QED
  BY <1>2, <1>3, <1>4, <1>5, ShapeByClients, ShapeBySockets DEF Next

\* What the map holds under an address is a connection that came from there, and
\* whose handler has yet to take it out, whoever else takes out by address.
THEOREM EntriesOwned == Spec => []EntryOwned
<1>1. Init => ShapeInv
  BY DEF Init, ShapeInv, ClientShape, EntryOwned
<1>2. ShapeInv => EntryOwned
  BY DEF ShapeInv
<1>3. QED
  BY <1>1, <1>2, ShapeStep, TypeCorrect, PTL DEF Spec

-----------------------------------------------------------------------------
(* A client that answers stays in the map.                                 *)

Opened == {"open", "ended", "done"}

\* A pong came from the address, or may have.
Met(a) == \E d \in Conns : AddrOf[d] = a /\ conn[d] \in Opened

\* Why a connection may be taken out of the map.
Excused(c) == client[c] = "gone" \/ c \in faulty \/ stalled \/ Reused(c)

\* A pong of the connection is on its way, or will be within the period.
Soon(c) == c \in owes \/ c \in ping.waiting \/ ping.due

\* The connection is in the map and its last pong of this period or the one before.
Answers(c) ==
    /\ conn[c] = "open" => sockets[AddrOf[c]] = c
    /\ AddrOf[c] \notin tracker.old
    /\ tracker.pc = "socket" => tracker.addr # AddrOf[c]
    /\ pongs[AddrOf[c]] \in {0, Never} \/ (pongs[AddrOf[c]] = 1 /\ Soon(c))

PingInv ==
    /\ \A c \in ping.waiting \cup ping.failed : conn[c] # "none"
    /\ \A c \in ping.failed : client[c] = "gone"

MetInv == \A a \in Addrs :
    (pongs[a] # Never \/ a \in tracker.old \/ (tracker.pc = "socket" /\ a = tracker.addr))
        => Met(a)

AnswerInv == \A c \in Conns : conn[c] # "none" => Excused(c) \/ Answers(c)

\* What has happened to a connection stays so.
LEMMA Forward ==
    ASSUME TypeOK, ShapeInv, [Next]_vars, NEW c \in Conns
    PROVE  /\ conn[c] # "none" => conn'[c] # "none"
           /\ conn[c] \in Opened => conn'[c] \in Opened
           /\ client[c] = "gone" => client'[c] = "gone"
           /\ c \in faulty => c \in faulty'
           /\ stalled => stalled'
<1> DEFINE Stays == /\ conn[c] # "none" => conn'[c] # "none"
                    /\ conn[c] \in Opened => conn'[c] \in Opened
                    /\ client[c] = "gone" => client'[c] = "gone"
                    /\ c \in faulty => c \in faulty'
<1> SUFFICES Stays /\ (stalled => stalled')
  OBVIOUS
<1>1. ASSUME NEW d \in Conns,
             \/ Connect(d) \/ Reject(d) \/ Silent(d) \/ Resume(d) \/ Leave(d) \/ Pong(d)
             \/ ReceiverPanics(d)
      PROVE  Stays /\ UNCHANGED stalled
  <2>1. Stays
    BY <1>1 DEF TypeOK, ShapeInv, ClientShape, Opened, Connect, Reject, Silent, Resume, Leave,
                Pong, ReceiverPanics, ends
  <2>2. UNCHANGED stalled
    BY <1>1, Zenon DEF Connect, Reject, Silent, Resume, Leave, Pong, ReceiverPanics
  <2>3. QED
    BY <2>1, <2>2
<1>2. ASSUME NEW d \in Conns, HandleSocket(d)
      PROVE  Stays /\ UNCHANGED stalled
  <2>1. Stays
    BY <1>2 DEF TypeOK, Opened, HandleSocket, Greet, Register, ReceiverEnds, Deregister, ends
  <2>2. UNCHANGED stalled
    BY <1>2, Zenon DEF HandleSocket, Greet, Register, ReceiverEnds, Deregister
  <2>3. QED
    BY <2>1, <2>2
<1>3. CASE \/ PingCheck \/ TrackPongs \/ EndNotice
           \/ \E a \in Addrs : StartNotice(a)
  <2>1. UNCHANGED <<ends, conn, stalled>>
    BY <1>3, Zenon DEF PingCheck, StartPings, EndPings, SendPing, RemoveFailed,
          TrackPongs, CopyPongs, VisitPong, RemoveSocket, RemovePong, EndVisits, EndNotice, StartNotice
  <2>2. QED
    BY <2>1, Zenon DEF ends
<1>4. CASE Tick \/ UNCHANGED vars
  <2>1. UNCHANGED <<ends, conn>>
    BY <1>4, Zenon DEF Tick, vars
  <2>2. stalled => stalled'
    <3>1. CASE stalled' = (stalled \/ Held)
      BY <3>1
    <3>2. CASE UNCHANGED stalled
      BY <3>2, Zenon
    <3>3. QED
      BY <1>4, <3>1, <3>2, Zenon DEF Tick, vars
  <2>3. QED
    BY <2>1, <2>2, Zenon DEF ends
<1>5. QED
  BY <1>1, <1>2, <1>3, <1>4, Zenon DEF Next

LEMMA ExcusedStays ==
    ASSUME TypeOK, ShapeInv, [Next]_vars, NEW c \in Conns, Excused(c)
    PROVE  Excused(c)'
<1>1. Reused(c) => Reused(c)'
  BY Forward DEF Reused
<1>2. QED
  BY <1>1, Forward, Zenon DEF Excused

LEMMA MetStays ==
    ASSUME TypeOK, ShapeInv, [Next]_vars, NEW a, Met(a)
    PROVE  Met(a)'
  BY Forward DEF Met

\* Who is pinged has a connection, and who could not be reached is gone.
LEMMA PingStep ==
    ASSUME TypeOK, ShapeInv, PingInv, [Next]_vars
    PROVE  PingInv'
<1>0. ping.waiting \subseteq Conns /\ ping.failed \subseteq Conns
  BY DEF TypeOK
<1>1. ASSUME ping'.waiting \subseteq ping.waiting, ping'.failed \subseteq ping.failed
      PROVE  PingInv'
  BY <1>0, <1>1, Forward DEF PingInv
<1>2. CASE StartPings
  <2>1. ping'.waiting = {c \in Conns : sockets[AddrOf[c]] = c} /\ ping'.failed = ping.failed
    BY <1>2 DEF StartPings, TypeOK
  <2>2. \A c \in ping'.waiting : c \in Conns /\ conn[c] # "none"
    BY <2>1, ConnectionConstants DEF ShapeInv, EntryOwned
  <2>3. QED
    BY <1>0, <2>1, <2>2, Forward DEF PingInv
<1>3. ASSUME NEW c \in Conns, SendPing(c)
      PROVE  PingInv'
  <2>1. CASE ping' = [ping EXCEPT !.waiting = @ \ {c}]
    <3>1. ping'.waiting \subseteq ping.waiting /\ ping'.failed = ping.failed
      BY <2>1 DEF TypeOK
    <3>2. QED
      BY <1>1, <3>1
  <2>2. CASE client[c] = "gone" /\ ping' = [ping EXCEPT !.waiting = @ \ {c}, !.failed = @ \cup {c}]
    <3>1. /\ ping'.waiting = ping.waiting \ {c} /\ ping'.failed = ping.failed \cup {c}
          /\ c \in ping.waiting
      BY <1>3, <2>2 DEF TypeOK, SendPing
    <3>2. QED
      BY <1>0, <2>2, <3>1, Forward DEF PingInv
  <2>3. QED
    BY <1>3, <2>1, <2>2, Zenon DEF SendPing
<1>4. CASE (\E c \in Conns : RemoveFailed(c)) \/ EndPings \/ Tick
  <2>1. ping'.waiting \subseteq ping.waiting /\ ping'.failed \subseteq ping.failed
    BY <1>4 DEF TypeOK, RemoveFailed, EndPings, Tick
  <2>2. QED
    BY <1>1, <2>1
<1>5. ASSUME UNCHANGED ping PROVE PingInv'
  BY <1>1, <1>5
<1>6. ASSUME NEW c \in Conns,
             \/ Connect(c) \/ Reject(c) \/ Silent(c) \/ Resume(c) \/ Leave(c) \/ Pong(c)
             \/ ReceiverPanics(c) \/ HandleSocket(c)
      PROVE  PingInv'
  BY <1>5, <1>6, Zenon DEF Connect, Reject, Silent, Resume, Leave, Pong, ReceiverPanics,
       HandleSocket, Greet, Register, ReceiverEnds, Deregister
<1>7. CASE TrackPongs \/ EndNotice \/ (\E a \in Addrs : StartNotice(a)) \/ UNCHANGED vars
  BY <1>5, <1>7, Zenon DEF TrackPongs, CopyPongs, VisitPong, RemoveSocket, RemovePong, EndVisits,
       EndNotice, StartNotice, vars
<1>8. QED
  BY <1>2, <1>3, <1>4, <1>6, <1>7, Zenon DEF Next, PingCheck

\* An address whose pong counts was met.
LEMMA MetStep ==
    ASSUME TypeOK, ShapeInv, MetInv, [Next]_vars
    PROVE  MetInv'
<1> DEFINE Counts(a) == pongs[a] # Never \/ a \in tracker.old
                          \/ (tracker.pc = "socket" /\ a = tracker.addr)
<1>0. \A a \in Addrs : Counts(a) => Met(a)
  BY DEF MetInv
<1>1. ASSUME \A a \in Addrs : Counts(a)' => Counts(a) \/ Met(a) PROVE MetInv'
  <2> SUFFICES ASSUME NEW a \in Addrs, Counts(a)' PROVE Met(a)'
    BY DEF MetInv
  <2>1. Met(a)
    BY <1>0, <1>1
  <2>2. QED
    BY <2>1, MetStays
<1>2. ASSUME UNCHANGED pongs, UNCHANGED tracker PROVE MetInv'
  BY <1>1, <1>2
<1>3. ASSUME NEW c \in Conns, Pong(c) PROVE MetInv'
  <2>1. Met(AddrOf[c])
    BY <1>3 DEF Pong, Met, Opened
  <2>2. UNCHANGED tracker /\ \A a \in Addrs \ {AddrOf[c]} : pongs'[a] = pongs[a]
    BY <1>3 DEF Pong, TypeOK
  <2>3. QED
    BY <1>1, <2>1, <2>2
<1>4. CASE CopyPongs
  <2>1. UNCHANGED pongs /\ tracker'.old = TooOld /\ tracker'.pc = "visit"
    BY <1>4 DEF CopyPongs, TypeOK
  <2>2. QED
    BY <1>1, <2>1 DEF TooOld
<1>5. ASSUME NEW b \in Addrs, VisitPong(b) PROVE MetInv'
  <2>1. /\ UNCHANGED pongs /\ b \in tracker.old
        /\ tracker'.old = tracker.old \ {b} /\ tracker'.addr = b
    BY <1>5 DEF VisitPong
  <2>2. QED
    BY <1>1, <2>1
<1>6. CASE RemoveSocket
  <2>1. UNCHANGED pongs /\ tracker'.old = tracker.old /\ tracker'.pc = "pong"
    BY <1>6 DEF RemoveSocket, TypeOK
  <2>2. QED
    BY <1>1, <2>1
<1>7. CASE RemovePong
  <2>1. /\ tracker'.old = tracker.old /\ tracker'.pc = "visit"
        /\ \A a \in Addrs : pongs'[a] \in {pongs[a], Never}
    BY <1>7 DEF RemovePong, TypeOK
  <2>2. QED
    BY <1>1, <2>1
<1>8. CASE EndVisits
  <2>1. UNCHANGED pongs /\ tracker'.old = {} /\ tracker'.pc = "sleep"
    BY <1>8 DEF EndVisits, Doze
  <2>2. QED
    BY <1>1, <2>1
<1>9. CASE Tick
  <2>1. \A a \in Addrs : pongs[a] = Never => pongs'[a] = Never
    BY <1>9, ConnectionConstants DEF Tick, Older, Never
  <2>2. /\ tracker'.pc = tracker.pc /\ tracker'.addr = tracker.addr
        /\ tracker'.old \subseteq tracker.old \cup {a \in Addrs : pongs[a] # Never}
    BY <1>9 DEF Tick, TypeOK
  <2>3. QED
    BY <1>1, <2>1, <2>2
<1>10. ASSUME NEW c \in Conns,
              \/ Connect(c) \/ Reject(c) \/ Silent(c) \/ Resume(c) \/ Leave(c)
              \/ ReceiverPanics(c) \/ HandleSocket(c)
       PROVE  MetInv'
  BY <1>2, <1>10, Zenon DEF Connect, Reject, Silent, Resume, Leave,
       ReceiverPanics, HandleSocket, Greet, Register, ReceiverEnds, Deregister
<1>11. CASE PingCheck \/ EndNotice \/ (\E a \in Addrs : StartNotice(a)) \/ UNCHANGED vars
  BY <1>2, <1>11, Zenon DEF PingCheck, StartPings, EndPings, SendPing, RemoveFailed,
       EndNotice, StartNotice, vars
<1>12. QED
  BY <1>3, <1>4, <1>5, <1>6, <1>7, <1>8, <1>9, <1>10, <1>11, Zenon DEF Next, TrackPongs

-----------------------------------------------------------------------------
(* A connection nothing excuses.                                           *)

\* Its client is up, and it is the only one its address had.
LEMMA Unexcused ==
    ASSUME TypeOK, ShapeInv, MetInv, NEW c \in Conns, conn[c] # "none", ~Excused(c)
    PROVE  /\ client[c] = "up" /\ ~stalled
           /\ \A d \in Conns \ {c} : AddrOf[d] = AddrOf[c] => conn[d] = "none"
           /\ conn[c] \in {"upgraded", "greeted", "open"}
           /\ conn[c] \in {"upgraded", "greeted"} => pongs[AddrOf[c]] = Never
<1>1. client[c] # "gone" /\ c \notin faulty /\ ~stalled /\ ~Reused(c)
  BY Zenon DEF Excused
<1>2. \A d \in Conns \ {c} : AddrOf[d] = AddrOf[c] => conn[d] = "none"
  BY <1>1 DEF Reused
<1>3. client[c] = "up" /\ conn[c] \in {"upgraded", "greeted", "open"}
  BY <1>1 DEF TypeOK, ShapeInv, ClientShape
<1>4. conn[c] \in {"upgraded", "greeted"} => ~Met(AddrOf[c])
  BY <1>2 DEF Met, Opened
<1>5. QED
  BY <1>1, <1>2, <1>3, <1>4, ConnectionConstants DEF MetInv

\* Nobody takes it out of the map.
LEMMA EntryStays ==
    ASSUME TypeOK, ShapeInv, PingInv, MetInv, AnswerInv, [Next]_vars,
           NEW c \in Conns, ~Excused(c), sockets[AddrOf[c]] = c
    PROVE  sockets'[AddrOf[c]] = c
<1>0. AddrOf[c] \in Addrs /\ c # None
  BY ConnectionConstants
<1>1. conn[c] = "open" /\ ~stalled /\ client[c] = "up"
      /\ \A d \in Conns \ {c} : AddrOf[d] = AddrOf[c] => conn[d] = "none"
  BY <1>0, Unexcused DEF ShapeInv, EntryOwned
<1>2. Answers(c)
  BY <1>1 DEF AnswerInv
<1>3. ASSUME NEW d \in Conns, Deregister(d) PROVE sockets'[AddrOf[c]] = c
  BY <1>0, <1>1, <1>3 DEF Deregister, TypeOK
<1>4. ASSUME NEW d \in Conns, Register(d) PROVE sockets'[AddrOf[c]] = c
  BY <1>0, <1>4 DEF Register, TypeOK
<1>5. ASSUME NEW d \in Conns, RemoveFailed(d) PROVE sockets'[AddrOf[c]] = c
  BY <1>0, <1>1, <1>5 DEF RemoveFailed, TypeOK, PingInv
<1>6. CASE RemoveSocket
  BY <1>0, <1>2, <1>6 DEF RemoveSocket, TypeOK, Answers
<1>7. CASE UNCHANGED sockets
  BY <1>7
<1>8. QED
  BY <1>3, <1>4, <1>5, <1>6, <1>7, Zenon
     DEF Next, Connect, Reject, Silent, Resume, Leave, Pong, ReceiverPanics, HandleSocket,
         Greet, ReceiverEnds, PingCheck, StartPings, EndPings, SendPing, TrackPongs, CopyPongs, VisitPong, RemovePong,
         EndVisits, EndNotice, StartNotice, Tick, vars

\* A connection that is new at an address where nothing was before.
LEMMA AnswersNew ==
    ASSUME TypeOK, ShapeInv, MetInv, [Next]_vars, NEW c \in Conns, Connect(c),
           ~Reused(c)
    PROVE  Answers(c)'
<1>1. AddrOf[c] \in Addrs
  BY ConnectionConstants
<1>2. conn[c] = "none"
  BY DEF Connect, ShapeInv, ClientShape
<1>3. ~Met(AddrOf[c])
  BY <1>2 DEF Met, Opened, Reused
<1>4. /\ pongs[AddrOf[c]] = Never /\ AddrOf[c] \notin tracker.old
      /\ tracker.pc = "socket" => tracker.addr # AddrOf[c]
  BY <1>1, <1>3 DEF MetInv
<1>5. conn'[c] = "upgraded" /\ UNCHANGED <<pongs, tracker>>
  BY DEF Connect, TypeOK
<1>6. QED
  BY <1>4, <1>5 DEF Answers

\* It stays in the map, whatever step follows.
LEMMA OpenStays ==
    ASSUME TypeOK, ShapeInv, PingInv, MetInv, AnswerInv, [Next]_vars,
           NEW c \in Conns, ~Excused(c), conn[c] # "none", conn'[c] = "open"
    PROVE  sockets'[AddrOf[c]] = c
<1>0. AddrOf[c] \in Addrs
  BY ConnectionConstants
<1>1. CASE conn[c] = "open"
  BY <1>1, EntryStays DEF AnswerInv, Answers
<1>2. CASE conn[c] # "open"
  <2>1. ASSUME NEW d \in Conns,
               \/ Connect(d) \/ Greet(d) \/ ReceiverEnds(d) \/ Deregister(d)
               \/ ReceiverPanics(d)
        PROVE  FALSE
    BY <1>2, <2>1 DEF TypeOK, Connect, Greet, ReceiverEnds, Deregister, ReceiverPanics
  <2>2. ASSUME NEW d \in Conns, Register(d) PROVE sockets'[AddrOf[c]] = c
    BY <1>0, <1>2, <2>2 DEF TypeOK, Register
  <2>3. CASE UNCHANGED conn
    BY <1>2, <2>3
  <2>4. QED
    BY <2>1, <2>2, <2>3, Zenon
       DEF Next, Reject, Silent, Resume, Leave, Pong, HandleSocket,
           PingCheck, StartPings, EndPings, SendPing, RemoveFailed, TrackPongs, CopyPongs,
           VisitPong, RemoveSocket, RemovePong, EndVisits, EndNotice, StartNotice, Tick, vars
<1>3. QED
  BY <1>1, <1>2

\* No period ends before its pong has come, so that none is ever too old.
LEMMA AnswersTick ==
    ASSUME TypeOK, ShapeInv, MetInv, Tick, NEW c \in Conns, ~Excused(c), ~stalled',
           conn[c] # "none", Answers(c), conn'[c] = "open" => sockets'[AddrOf[c]] = c
    PROVE  Answers(c)'
<1> DEFINE a == AddrOf[c]
<1>0. a \in Addrs /\ Limit \in Nat /\ Limit > 0
  BY ConnectionConstants
<1>1. ~Held
  BY Zenon DEF Tick
<1>2. client[c] = "up" /\ (conn[c] # "open" => pongs[a] = Never)
  BY Unexcused
<1>3. sending = None /\ tracker.pc = "sleep" /\ ping.pc = "sleep"
  <2>1. sending = None
    BY <1>1 DEF Held
  <2>2. QED
    BY <1>1, <2>1 DEF Tick
<1>4. ~ping.due
  BY <1>1, Zenon DEF Tick
<1>5. c \notin ping.waiting
  BY <1>2 DEF Tick, CanSend
<1>6. pongs[a] \in {0, Never}
  <2>1. ASSUME conn[c] = "open" PROVE c \notin owes
    BY <1>2, <2>1 DEF Tick
  <2>2. CASE pongs[a] = 1 /\ Soon(c)
    <3>1. pongs[a] # Never
      BY <1>0, <2>2 DEF Never
    <3>2. c \notin owes
      BY <1>2, <2>1, <3>1
    <3>3. ~Soon(c)
      BY <1>4, <1>5, <3>2, Zenon DEF Soon
    <3>4. QED
      BY <2>2, <3>3
  <2>3. QED
    BY <2>2 DEF Answers
<1>7. pongs'[a] \in {1, Never}
  BY <1>0, <1>6 DEF Tick, TypeOK, Older, Never
<1>8. UNCHANGED tracker
  BY <1>3 DEF Tick
<1>9. ping'.due
  BY DEF Tick, TypeOK
<1>10. Soon(c)'
  BY <1>9, Zenon DEF Soon
<1>11. QED
  BY <1>7, <1>8, <1>10 DEF Answers

LEMMA AnswerStep ==
    ASSUME TypeOK, ShapeInv, PingInv, MetInv, AnswerInv, [Next]_vars
    PROVE  AnswerInv'
<1> SUFFICES ASSUME NEW c \in Conns, conn'[c] # "none", ~Excused(c)'
             PROVE  Answers(c)'
  BY Zenon DEF AnswerInv
<1> DEFINE a == AddrOf[c]
<1>0. /\ a \in Addrs /\ Limit \in Nat /\ Limit > 0
      /\ ~Excused(c)
      /\ ~stalled' /\ ~Reused(c)'
  <2>1. ~stalled' /\ ~Reused(c)'
    BY Zenon DEF Excused
  <2>2. QED
    BY <2>1, ExcusedStays, ConnectionConstants
<1>1. CASE conn[c] = "none"
  <2>1. Connect(c)
    <3>1. ASSUME NEW d \in Conns, Connect(d) PROVE d = c
      BY <1>1, <3>1 DEF TypeOK, Connect
    <3>2. ASSUME NEW d \in Conns, HandleSocket(d) \/ ReceiverPanics(d) PROVE FALSE
      BY <1>1, <3>2 DEF TypeOK, HandleSocket, Greet, Register, ReceiverEnds, Deregister,
                        ReceiverPanics
    <3>3. CASE UNCHANGED conn
      BY <1>1, <3>3
    <3>4. QED
      BY <3>1, <3>2, <3>3, Zenon
         DEF Next, Reject, Silent, Resume, Leave, Pong, PingCheck, StartPings, EndPings,
             SendPing, RemoveFailed, TrackPongs, CopyPongs, VisitPong, RemoveSocket, RemovePong, EndVisits,
             EndNotice, StartNotice, Tick, vars
  <2>2. ~Reused(c)
    BY <1>0, Zenon DEF Excused
  <2>3. QED
    BY <2>1, <2>2, AnswersNew
<1>2. CASE conn[c] # "none"
  <2>0. Answers(c)
    BY <1>0, <1>2 DEF AnswerInv
  <2>1. conn'[c] = "open" => sockets'[a] = c
    BY <1>0, <1>2, OpenStays
  <2>2. client[c] = "up"
    BY <1>0, <1>2, Unexcused
  <2>3. ASSUME /\ a \notin tracker'.old
               /\ tracker'.pc = "socket" => tracker'.addr # a,
               pongs'[a] \in {0, Never} \/ (pongs'[a] = pongs[a] /\ (Soon(c) => Soon(c)'))
        PROVE  Answers(c)'
    BY <2>0, <2>1, <2>3 DEF Answers
  <2>4. /\ a \notin tracker.old
        /\ tracker.pc = "socket" => tracker.addr # a
    BY <2>0 DEF Answers
  <2>5. ASSUME UNCHANGED <<pongs, tracker>>, Soon(c) => Soon(c)' PROVE Answers(c)'
    BY <2>3, <2>4, <2>5
  <2>6. ASSUME UNCHANGED <<pongs, tracker>>, UNCHANGED owes, UNCHANGED ping PROVE Answers(c)'
    BY <2>5, <2>6, Zenon DEF Soon
  <2>7. ASSUME NEW d \in Conns, Pong(d) PROVE Answers(c)'
    <3>1. CASE AddrOf[d] = a
      <4>1. pongs'[a] = 0 /\ UNCHANGED tracker
        BY <1>0, <2>7, <3>1 DEF Pong, TypeOK
      <4>2. QED
        BY <2>3, <2>4, <4>1
    <3>2. CASE AddrOf[d] # a
      <4>1. pongs'[a] = pongs[a] /\ UNCHANGED tracker /\ (c \in owes => c \in owes') /\ UNCHANGED ping
        BY <1>0, <2>7, <3>2 DEF Pong, TypeOK
      <4>2. Soon(c) => Soon(c)'
        BY <4>1, Zenon DEF Soon
      <4>3. QED
        BY <2>3, <2>4, <4>1, <4>2
    <3>3. QED
      BY <3>1, <3>2
  <2>8. ASSUME NEW d \in Conns, Connect(d) \/ Reject(d) \/ Silent(d) \/ Resume(d) PROVE Answers(c)'
    BY <2>6, <2>8, Zenon DEF Connect, Reject, Silent, Resume
  <2>9. ASSUME NEW d \in Conns, Leave(d) \/ HandleSocket(d) \/ ReceiverPanics(d) PROVE Answers(c)'
    <3>1. client'[c] # "gone"
      BY <1>0, Zenon DEF Excused
    <3>2. c \in owes => c \in owes'
      BY <2>9, <3>1 DEF TypeOK, Leave, ReceiverPanics, HandleSocket, Greet, Register,
           ReceiverEnds, Deregister
    <3>3. UNCHANGED <<pongs, tracker>> /\ UNCHANGED ping
      BY <2>9, Zenon DEF Leave, ReceiverPanics, HandleSocket, Greet, Register,
           ReceiverEnds, Deregister
    <3>4. QED
      BY <2>5, <3>2, <3>3, Zenon DEF Soon
  <2>10. CASE StartPings
    <3>1. UNCHANGED <<pongs, tracker>>
      BY <2>10, Zenon DEF StartPings
    <3>2. CASE conn[c] = "open"
      <4>1. c \in ping'.waiting
        BY <2>0, <2>10, <3>2 DEF StartPings, TypeOK, Answers
      <4>2. QED
        BY <2>5, <3>1, <4>1, Zenon DEF Soon
    <3>3. CASE conn[c] # "open"
      <4>1. pongs[a] = Never
        BY <1>0, <1>2, <3>3, Unexcused
      <4>2. QED
        BY <2>3, <2>4, <3>1, <4>1
    <3>4. QED
      BY <3>2, <3>3
  <2>11. ASSUME NEW d \in Conns, SendPing(d) PROVE Answers(c)'
    <3>1. UNCHANGED <<pongs, tracker>>
      BY <2>11, Zenon DEF SendPing
    <3>2. /\ c \in owes => c \in owes'
          /\ c \in ping.waiting => (c \in owes' \/ c \in ping'.waiting)
      <4>1. owes \subseteq owes'
        BY <2>11 DEF SendPing
      <4>2. CASE d = c
        BY <2>2, <2>11, <4>1, <4>2 DEF SendPing
      <4>3. CASE d # c
        <5>1. ping'.waiting = ping.waiting \ {d}
          BY <2>11 DEF SendPing, TypeOK
        <5>2. QED
          BY <4>1, <4>3, <5>1
      <4>4. QED
        BY <4>2, <4>3
    <3>3. ping'.due = ping.due
      BY <2>11 DEF SendPing, TypeOK
    <3>4. QED
      BY <2>5, <3>1, <3>2, <3>3, Zenon DEF Soon
  <2>12. CASE EndPings \/ \E d \in Conns : RemoveFailed(d)
    <3>1. UNCHANGED <<pongs, tracker>> /\ UNCHANGED owes
      BY <2>12, Zenon DEF EndPings, RemoveFailed
    <3>2. ping'.due = ping.due /\ ping'.waiting = ping.waiting
      BY <2>12 DEF EndPings, RemoveFailed, TypeOK
    <3>3. QED
      BY <2>5, <3>1, <3>2, Zenon DEF Soon
  <2>13. CASE CopyPongs
    <3>1. a \notin TooOld
      BY <1>0, <2>0 DEF Answers, TooOld
    <3>2. UNCHANGED pongs /\ tracker'.old = TooOld /\ tracker'.pc = "visit"
      BY <2>13 DEF CopyPongs, TypeOK
    <3>3. UNCHANGED <<owes, ping>>
      BY <2>13, Zenon DEF CopyPongs
    <3>4. Soon(c) => Soon(c)'
      BY <3>3, Zenon DEF Soon
    <3>5. QED
      BY <2>3, <3>1, <3>2, <3>4
  <2>14. CASE TrackPongs /\ ~CopyPongs
    <3>1. UNCHANGED <<owes, ping>>
      BY <2>14, Zenon DEF TrackPongs, VisitPong, RemoveSocket, RemovePong, EndVisits
    <3>2. Soon(c) => Soon(c)'
      BY <3>1, Zenon DEF Soon
    <3>3. pongs'[a] \in {pongs[a], Never}
      BY <1>0, <2>14 DEF TrackPongs, VisitPong, RemoveSocket, RemovePong, EndVisits, TypeOK
    <3>4. /\ a \notin tracker'.old
          /\ tracker'.pc = "socket" => tracker'.addr # a
      <4>1. ASSUME NEW b \in Addrs, VisitPong(b)
            PROVE  a \notin tracker'.old /\ tracker'.addr # a
        BY <2>4, <4>1 DEF VisitPong
      <4>2. CASE EndVisits
        BY <4>2 DEF EndVisits, Doze
      <4>3. CASE RemoveSocket \/ RemovePong
        <5>1. tracker'.old = tracker.old /\ tracker'.pc \in {"pong", "visit"}
          BY <4>3 DEF RemoveSocket, RemovePong, TypeOK
        <5>2. QED
          BY <2>4, <5>1
      <4>4. QED
        BY <2>14, <4>1, <4>2, <4>3 DEF TrackPongs
    <3>5. QED
      BY <2>3, <3>2, <3>3, <3>4
  <2>15. CASE Tick
    BY <1>0, <1>2, <2>0, <2>1, <2>15, AnswersTick
  <2>16. CASE EndNotice \/ (\E b \in Addrs : StartNotice(b)) \/ UNCHANGED vars
    BY <2>6, <2>16, Zenon DEF EndNotice, StartNotice, vars
  <2>17. QED
    BY <2>7, <2>8, <2>9, <2>10, <2>11, <2>12, <2>13, <2>14, <2>15, <2>16, Zenon DEF Next, PingCheck
<1>3. QED
  BY <1>1, <1>2

\* A client that is there, reads and answers stays in the map: no ping, no pong
\* and no removal by address reaches it, unless the address had another
\* connection or somebody was kept waiting by a client that does not read.
THEOREM AnsweringClientStays == Spec => AnsweringStays
<1>1. Init => PingInv /\ MetInv /\ AnswerInv
  BY DEF Init, PingInv, MetInv, AnswerInv, Rest, Doze
<1>2. Init => ShapeInv
  BY DEF Init, ShapeInv, ClientShape, EntryOwned
<1>3. TypeOK /\ ShapeInv /\ PingInv /\ MetInv /\ AnswerInv /\ [Next]_vars
        => [\A c \in Conns :
               sockets[AddrOf[c]] = c /\ sockets'[AddrOf[c]] # c =>
                   client[c] = "gone" \/ c \in faulty \/ stalled \/ Reused(c)]_vars
  BY EntryStays, Zenon DEF Excused
<1>4. QED
  BY <1>1, <1>2, <1>3, ShapeStep, PingStep, MetStep, AnswerStep, TypeCorrect, PTL
     DEF Spec, AnsweringStays
=============================================================================
