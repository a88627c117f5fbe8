---------------------------- MODULE Connections ----------------------------
(***************************************************************************)
(* The clients' connections: handle_socket enters a connection in          *)
(* AppState.sockets under the client's address and takes it out when the   *)
(* connection ends; ping_check_system pings every 30 seconds whom it finds *)
(* there and takes out whom it cannot reach; pong_tracking_system takes    *)
(* out whose last pong is older than 90 seconds.  Each does so by address. *)
(*                                                                         *)
(* app_state is a read-write lock.  client_submissions_handler keeps its   *)
(* read lock while it sends to a client; all others hold theirs for one    *)
(* access, which is one action here.                                       *)
(*                                                                         *)
(* Time is counted in periods of ping_check_system.  Whatever is not kept  *)
(* waiting by a client or by the lock is done within the period.           *)
(***************************************************************************)
EXTENDS Integers

CONSTANTS
    Conns,     \* connections; each is opened and closed once
    Addrs,     \* socket addresses
    AddrOf,    \* the address a connection comes from
    None,      \* no connection
    Limit,     \* periods after which a pong is too old, 90 seconds in the code
    Stopping   \* bound: connections whose client may leave, or be faulty once

ASSUME ConnectionConstants ==
    /\ Addrs # {}
    /\ AddrOf \in [Conns -> Addrs]
    /\ None \notin Conns
    /\ Limit \in Nat \ {0}
    /\ Stopping \subseteq Conns

VARIABLES
    client,    \* what the other end of a connection does
    conn,      \* handle_socket, per connection
    sockets,   \* AppState.sockets: the connection of an address
    pongs,     \* LastPong: periods since the last pong of an address
    owes,      \* connections that were sent a ping and have not answered
    ping,      \* ping_check_system
    tracker,   \* pong_tracking_system
    sending,   \* whom client_submissions_handler sends to under its lock
    stalled,   \* history: a period ended while somebody had to wait
    faulty     \* history: connections whose client did not read for a while, or sent
               \* what the server cannot take apart

ends == <<client, faulty>>
vars == <<ends, conn, sockets, pongs, owes, ping, tracker, sending, stalled>>

-----------------------------------------------------------------------------
Never == Limit + 2    \* no pong has come from the address
Ages  == 0 .. Limit + 2
Older(age) == IF age > Limit THEN age ELSE age + 1

Rest == [pc |-> "sleep", due |-> TRUE, waiting |-> {}, failed |-> {}]
Doze == [pc |-> "sleep", old |-> {}, addr |-> CHOOSE a \in Addrs : TRUE]

TypeOK ==
    /\ client \in [Conns -> {"away", "up", "silent", "gone"}]
    /\ conn \in [Conns -> {"none", "upgraded", "greeted", "open", "ended", "done"}]
    /\ sockets \in [Addrs -> Conns \cup {None}]
    /\ pongs \in [Addrs -> Ages]
    /\ owes \subseteq Conns
    /\ ping \in [pc : {"sleep", "await"}, due : BOOLEAN,
                 waiting : SUBSET Conns, failed : SUBSET Conns]
    /\ tracker \in [pc : {"sleep", "visit", "socket", "pong"},
                    old : SUBSET Addrs, addr : Addrs]
    /\ sending \in Conns \cup {None}
    /\ stalled \in BOOLEAN
    /\ faulty \subseteq Stopping

Init ==
    /\ client = [c \in Conns |-> "away"]
    /\ conn = [c \in Conns |-> "none"]
    /\ sockets = [a \in Addrs |-> None]
    /\ pongs = [a \in Addrs |-> Never]
    /\ owes = {}
    /\ ping = Rest
    /\ tracker = Doze
    /\ sending = None
    /\ stalled = FALSE /\ faulty = {}

\* A send ends when the client reads, or is gone.
CanSend(c) == client[c] # "silent"

\* Who wants to write app_state; readers wait behind (tokio's RwLock is fair).
WriterWaits ==
    \/ \E c \in Conns : conn[c] \in {"greeted", "ended"}
    \/ ping.failed # {}
    \/ tracker.pc = "socket"

\* Seeded fault: ping_check_system does not copy the map but keeps its read lock
\* until every ping is sent and every failure dealt with.
MayWriteUnlessPinging == sending = None /\ ping.pc = "sleep"

MayWrite == sending = None
MayRead  == sending = None \/ ~WriterWaits

-----------------------------------------------------------------------------
(* The clients.                                                            *)

\* ws_handler, ws_handler_v2: the client shows that it is a miner who is signed
\* up and enabled, and the connection is upgraded.
Connect(c) ==
    /\ client[c] = "away"
    /\ \A d \in Conns \ {c} : AddrOf[d] = AddrOf[c] => client[d] \in {"away", "gone"}
    /\ client' = [client EXCEPT ![c] = "up"]
    /\ conn' = [conn EXCEPT ![c] = "upgraded"]
    /\ UNCHANGED <<faulty, sockets, pongs, owes, ping, tracker, sending, stalled>>

\* Or it does not, or the database does not answer.
Reject(c) ==
    /\ client[c] = "away"
    /\ client' = [client EXCEPT ![c] = "gone"]
    /\ UNCHANGED <<faulty, conn, sockets, pongs, owes, ping, tracker, sending, stalled>>

Silent(c) ==
    /\ client[c] = "up" /\ c \in Stopping \ faulty
    /\ client' = [client EXCEPT ![c] = "silent"]
    /\ faulty' = faulty \cup {c}
    /\ UNCHANGED <<conn, sockets, pongs, owes, ping, tracker, sending, stalled>>

Resume(c) ==
    /\ client[c] = "silent"
    /\ client' = [client EXCEPT ![c] = "up"]
    /\ UNCHANGED <<faulty, conn, sockets, pongs, owes, ping, tracker, sending, stalled>>

\* The client leaves, TCP gives it up, or the server has dropped the connection.
Leave(c) ==
    /\ client[c] \in {"up", "silent"} /\ (c \in Stopping \/ conn[c] = "done")
    /\ client' = [client EXCEPT ![c] = "gone"]
    /\ owes' = owes \ {c}
    /\ UNCHANGED <<faulty, conn, sockets, pongs, ping, tracker, sending, stalled>>

\* Seeded fault: only the first pong of an address is noted.
PongOnce(c) ==
    /\ c \in owes /\ client[c] = "up" /\ conn[c] = "open"
    /\ owes' = owes \ {c}
    /\ pongs' = [pongs EXCEPT ![AddrOf[c]] = IF @ = Never THEN 0 ELSE @]
    /\ UNCHANGED <<ends, conn, sockets, ping, tracker, sending, stalled>>

\* Seeded fault: a pong is dated ahead of the time it comes at.
PongAhead(c) ==
    /\ c \in owes /\ client[c] = "up" /\ conn[c] = "open"
    /\ owes' = owes \ {c}
    /\ pongs' = [pongs EXCEPT ![AddrOf[c]] = -1]
    /\ UNCHANGED <<ends, conn, sockets, ping, tracker, sending, stalled>>

\* process_message passes the pong on, client_message_handler_system notes it.
Pong(c) ==
    /\ c \in owes /\ client[c] = "up" /\ conn[c] = "open"
    /\ owes' = owes \ {c}
    /\ pongs' = [pongs EXCEPT ![AddrOf[c]] = 0]
    /\ UNCHANGED <<ends, conn, sockets, ping, tracker, sending, stalled>>

-----------------------------------------------------------------------------
(* handle_socket                                                           *)

\* The client is pinged; if that fails the connection is closed.
Greet(c) ==
    /\ conn[c] = "upgraded" /\ CanSend(c)
    /\ \/ /\ conn' = [conn EXCEPT ![c] = "greeted"]
          /\ owes' = IF client[c] = "up" THEN owes \cup {c} ELSE owes
       \/ /\ client[c] = "gone"
          /\ conn' = [conn EXCEPT ![c] = "done"]
          /\ UNCHANGED owes
    /\ UNCHANGED <<ends, sockets, pongs, ping, tracker, sending, stalled>>

\* The connection is entered, unless its address is already there.
Register(c) ==
    LET a == AddrOf[c] IN
    /\ conn[c] = "greeted" /\ MayWrite
    /\ IF sockets[a] = None
       THEN /\ sockets' = [sockets EXCEPT ![a] = c]
            /\ conn' = [conn EXCEPT ![c] = "open"]
            /\ UNCHANGED <<client, owes>>
       ELSE /\ conn' = [conn EXCEPT ![c] = "done"]
            /\ client' = [client EXCEPT ![c] = "gone"]
            /\ owes' = owes \ {c}
            /\ UNCHANGED sockets
    /\ UNCHANGED <<faulty, pongs, ping, tracker, sending, stalled>>

\* The receiving task panics: process_message indexes a binary message without
\* looking how long it is.  handle_socket, which awaits the task, ignores how it
\* ended.
ReceiverPanics(c) ==
    /\ conn[c] = "open" /\ client[c] = "up" /\ c \in Stopping \ faulty
    /\ conn' = [conn EXCEPT ![c] = "ended"]
    /\ faulty' = faulty \cup {c}
    /\ UNCHANGED <<client, sockets, pongs, owes, ping, tracker, sending, stalled>>

\* The client has closed the connection, and the receiving task ends.
ReceiverEnds(c) ==
    /\ conn[c] = "open" /\ client[c] = "gone"
    /\ conn' = [conn EXCEPT ![c] = "ended"]
    /\ UNCHANGED <<ends, sockets, pongs, owes, ping, tracker, sending, stalled>>

\* Seeded fault: what was entered under the address stays.
DeregisterNothing(c) ==
    /\ conn[c] = "ended" /\ MayWrite
    /\ conn' = [conn EXCEPT ![c] = "done"]
    /\ UNCHANGED <<ends, sockets, pongs, owes, ping, tracker, sending, stalled>>

\* Whatever is entered under the address is removed; the pong stays.
Deregister(c) ==
    /\ conn[c] = "ended" /\ MayWrite
    /\ conn' = [conn EXCEPT ![c] = "done"]
    /\ sockets' = [sockets EXCEPT ![AddrOf[c]] = None]
    /\ UNCHANGED <<ends, pongs, owes, ping, tracker, sending, stalled>>

HandleSocket(c) == Greet(c) \/ Register(c) \/ ReceiverEnds(c) \/ Deregister(c)

-----------------------------------------------------------------------------
(* ping_check_system                                                       *)

StartPings ==
    /\ ping.pc = "sleep" /\ ping.due /\ MayRead
    /\ ping' = [ping EXCEPT !.pc = "await", !.due = FALSE,
                            !.waiting = {c \in Conns : sockets[AddrOf[c]] = c}]
    /\ UNCHANGED <<ends, conn, sockets, pongs, owes, tracker, sending, stalled>>

\* The tasks send at the same time.  Sending to one that has left may fail.
SendPing(c) ==
    /\ c \in ping.waiting /\ CanSend(c)
    /\ \/ /\ ping' = [ping EXCEPT !.waiting = @ \ {c}]
          /\ owes' = IF client[c] = "up" THEN owes \cup {c} ELSE owes
       \/ /\ client[c] = "gone"
          /\ ping' = [ping EXCEPT !.waiting = @ \ {c}, !.failed = @ \cup {c}]
          /\ UNCHANGED owes
    /\ UNCHANGED <<ends, conn, sockets, pongs, tracker, sending, stalled>>

\* Whatever is entered under its address by now is removed.
RemoveFailed(c) ==
    /\ c \in ping.failed /\ MayWrite
    /\ sockets' = [sockets EXCEPT ![AddrOf[c]] = None]
    /\ ping' = [ping EXCEPT !.failed = @ \ {c}]
    /\ UNCHANGED <<ends, conn, pongs, owes, tracker, sending, stalled>>

\* Every task has been waited for.
EndPings ==
    /\ ping.pc = "await" /\ ping.waiting = {} /\ ping.failed = {}
    /\ ping' = [ping EXCEPT !.pc = "sleep"]
    /\ UNCHANGED <<ends, conn, sockets, pongs, owes, tracker, sending, stalled>>

PingCheck ==
    \/ StartPings \/ EndPings
    \/ \E c \in Conns : SendPing(c) \/ RemoveFailed(c)

-----------------------------------------------------------------------------
(* pong_tracking_system                                                    *)

TooOld == {a \in Addrs : Limit < pongs[a] /\ pongs[a] # Never}

\* The pongs are cloned, and those that are too old are looked for in the copy.
CopyPongs ==
    /\ tracker.pc = "sleep" /\ TooOld # {}
    /\ tracker' = [tracker EXCEPT !.pc = "visit", !.old = TooOld]
    /\ UNCHANGED <<ends, conn, sockets, pongs, owes, ping, sending, stalled>>

VisitPong(a) ==
    /\ tracker.pc = "visit" /\ a \in tracker.old
    /\ tracker' = [pc |-> "socket", old |-> tracker.old \ {a}, addr |-> a]
    /\ UNCHANGED <<ends, conn, sockets, pongs, owes, ping, sending, stalled>>

\* The connection stays open.
RemoveSocket ==
    /\ tracker.pc = "socket" /\ MayWrite
    /\ sockets' = [sockets EXCEPT ![tracker.addr] = None]
    /\ tracker' = [tracker EXCEPT !.pc = "pong"]
    /\ UNCHANGED <<ends, conn, pongs, owes, ping, sending, stalled>>

RemovePong ==
    /\ tracker.pc = "pong"
    /\ pongs' = [pongs EXCEPT ![tracker.addr] = Never]
    /\ tracker' = [tracker EXCEPT !.pc = "visit", !.addr = Doze.addr]
    /\ UNCHANGED <<ends, conn, sockets, owes, ping, sending, stalled>>

EndVisits ==
    /\ tracker.pc = "visit" /\ tracker.old = {}
    /\ tracker' = Doze
    /\ UNCHANGED <<ends, conn, sockets, pongs, owes, ping, sending, stalled>>

TrackPongs ==
    \/ CopyPongs \/ RemoveSocket \/ RemovePong \/ EndVisits
    \/ \E a \in Addrs : VisitPong(a)

-----------------------------------------------------------------------------
(* client_submissions_handler, where it tells a client that its solution   *)
(* was late or invalid.                                                    *)

StartNotice(a) ==
    /\ sending = None /\ ~WriterWaits
    /\ sockets[a] # None
    /\ sending' = sockets[a]
    /\ UNCHANGED <<ends, conn, sockets, pongs, owes, ping, tracker, stalled>>

\* The message is sent or has failed, and the lock released.
EndNotice ==
    /\ sending # None /\ CanSend(sending)
    /\ sending' = None
    /\ UNCHANGED <<ends, conn, sockets, pongs, owes, ping, tracker, stalled>>

-----------------------------------------------------------------------------
\* Somebody is kept waiting by a client that does not read.
Held == sending # None \/ \E c \in ping.waiting : ~CanSend(c)

\* A period ends: whoever is not kept waiting is done.  How much time has passed
\* since a pong is computed when its turn comes, from the copy: while the task
\* waits for the lock, any pong of the copy may become too old.
Tick ==
    /\ sending # None => ~CanSend(sending)
    /\ (ping.pc = "sleep" /\ ~ping.due) \/ Held
    /\ \A c \in ping.waiting : ~CanSend(c)
    /\ tracker.pc = "sleep" \/ (tracker.pc = "socket" /\ sending # None)
    /\ \A c \in owes : client[c] # "up" \/ conn[c] # "open"
    /\ \A c \in Conns : /\ conn[c] = "upgraded" => ~CanSend(c)
                      /\ conn[c] \in {"greeted", "ended"} => sending # None
    /\ pongs' = [a \in Addrs |-> Older(pongs[a])]
    /\ \E older \in SUBSET {a \in Addrs : pongs[a] # Never} :
          tracker' = IF tracker.pc = "sleep" THEN tracker
                     ELSE [tracker EXCEPT !.old = @ \cup older]
    /\ ping' = [ping EXCEPT !.due = TRUE]
    /\ stalled' = (stalled \/ Held)
    /\ UNCHANGED <<ends, conn, sockets, owes, sending>>

Next ==
    \/ \E c \in Conns : Connect(c) \/ Reject(c) \/ Silent(c) \/ Resume(c) \/ Leave(c) \/ Pong(c)
    \/ \E c \in Conns : HandleSocket(c) \/ ReceiverPanics(c)
    \/ PingCheck \/ TrackPongs
    \/ \E a \in Addrs : StartNotice(a)
    \/ EndNotice \/ Tick

Spec == Init /\ [][Next]_vars

\* The server's tasks run.  Nothing is assumed of the clients: no send has a
\* timeout, and one that does not read may keep its sender waiting for ever.
FairSpec ==
    /\ Spec
    /\ \A c \in Conns : WF_vars(HandleSocket(c))
    /\ WF_vars(PingCheck)
    /\ WF_vars(EndNotice)

-----------------------------------------------------------------------------
(* Properties *)

\* An entry of the map belongs to a connection whose handler will remove it.
EntryOwned == \A a \in Addrs : sockets[a] # None =>
    AddrOf[sockets[a]] = a /\ conn[sockets[a]] \in {"open", "ended"}

\* Had the address another connection before?
Reused(c) == \E d \in Conns \ {c} : AddrOf[d] = AddrOf[c] /\ conn[d] # "none"

\* A client that is there, always answered and sent nothing the receiving task
\* panics on is not taken out of the map, provided that nobody had to wait for a
\* client that does not read, and that its address had no other connection:
\* handlers, ping and pong tasks of an earlier one remove by address, and its last
\* pong is not forgotten.
AnsweringStays ==
    [][ \A c \in Conns :
            sockets[AddrOf[c]] = c /\ sockets'[AddrOf[c]] # c =>
                client[c] = "gone" \/ c \in faulty \/ stalled \/ Reused(c) ]_vars

\* A new connection is entered or refused, and one that has ended is taken out,
\* unless the first ping to that very client, or client_submissions_handler's
\* message under its read lock, is for ever kept waiting by a client that does not
\* read.  Nothing else stops the map: not the pings of ping_check_system to such a
\* client, nor the tasks that remove by address, nor any wait for one another.
MapMovesOn ==
    \A c \in Conns :
        \/ conn[c] \in {"upgraded", "greeted", "ended"} ~> conn[c] \in {"open", "done"}
        \/ <>[](conn[c] = "upgraded" /\ client[c] = "silent")
        \/ <>[](sending # None /\ client[sending] = "silent")
=============================================================================
