--------------------------------- MODULE Hub ---------------------------------
(***************************************************************************)
(* stream.Hub: the WebSocket fan-out of the gateway.  Broadcast holds the  *)
(* read lock of Hub.mu while it writes to every client; Register and       *)
(* Unregister take the write lock; a failed write starts a goroutine that  *)
(* unregisters the client.  Connections are those of handleStream.         *)
(*                                                                         *)
(* Hub.mu is a sync.RWMutex: a goroutine waiting for the write lock is     *)
(* announced, and readers that come later are blocked until it has had the *)
(* lock, then all of them go before the next writer.  The write sections   *)
(* only touch the map, so each is one step (Grant).                        *)
(***************************************************************************)
EXTENDS FiniteSets, Naturals

CONSTANTS Conns,         \* WebSocket connections; each connects once
          Broadcasters,  \* goroutines that call Broadcast: handlers and Kafka consumers
          None

\* What a goroutine asks the write lock for.
Tasks == [kind : {"register", "unregister", "drop"}, conn : Conns]

ASSUME HubAssumption == None \notin Conns \cup Tasks

VARIABLES clients,    \* Hub.clients
          announced,  \* the task waiting for, or next to get, the write lock
          dropping,   \* clients whose drop goroutine has not got the lock yet
          closing,    \* clients whose drop goroutine is about to close them
          closed,     \* connections the server has closed
          session,    \* where each connection's handleStream is
          peer,       \* the other end of each connection
          cast        \* what each broadcaster does: clients left, client written to

hubVars == <<clients, announced, dropping, closing, closed, session, peer, cast>>

Sessions == {"out", "register", "reading", "unregister", "close", "done"}
IdleCast == [pc |-> "idle", left |-> {}, conn |-> None]

Init == /\ clients = {} /\ announced = None
        /\ dropping = {} /\ closing = {} /\ closed = {}
        /\ session = [c \in Conns |-> "out"]
        /\ peer = [c \in Conns |-> "alive"]
        /\ cast = [p \in Broadcasters |-> IdleCast]

\* The goroutines that ask for the write lock.
Wants == {[kind |-> session[c], conn |-> c] :
             c \in {d \in Conns : session[d] \in {"register", "unregister"}}}
         \cup {[kind |-> "drop", conn |-> c] : c \in dropping}

Reading(p) == cast[p].pc \in {"loop", "write"}
Looping(left) == [pc |-> "loop", left |-> left, conn |-> None]
-----------------------------------------------------------------------------
\* handleStream: the upgrade, Register, the read loop and the deferred
\* Unregister, which takes the client out of the map and then closes it.
Connect(c) ==
    /\ session[c] = "out"
    /\ session' = [session EXCEPT ![c] = "register"]
    /\ UNCHANGED <<clients, announced, dropping, closing, closed, peer, cast>>

ReadFailsOnClose(c) ==      \* slip: nobody reads, so a peer that left is not noticed
    /\ session[c] = "reading" /\ c \in closed
    /\ session' = [session EXCEPT ![c] = "unregister"]
    /\ UNCHANGED <<clients, announced, dropping, closing, closed, peer, cast>>
ReadFails(c) ==
    /\ session[c] = "reading"
    /\ peer[c] = "gone" \/ c \in closed
    /\ session' = [session EXCEPT ![c] = "unregister"]
    /\ UNCHANGED <<clients, announced, dropping, closing, closed, peer, cast>>

HandlerCloses(c) ==
    /\ session[c] = "close"
    /\ session' = [session EXCEPT ![c] = "done"]
    /\ closed' = closed \cup {c}
    /\ UNCHANGED <<clients, announced, dropping, closing, peer, cast>>

\* h.mu.Lock: one goroutine at a time announces itself ...
Announce(t) ==
    /\ announced = None /\ t \in Wants
    /\ announced' = t
    /\ UNCHANGED <<clients, dropping, closing, closed, session, peer, cast>>

\* ... and has the lock when the readers before it are done.  Readers blocked
\* meanwhile get the read lock when it unlocks.
Admit(registered) ==
    cast' = [p \in Broadcasters |->
                IF cast[p].pc = "blocked" THEN Looping(registered) ELSE cast[p]]

LockFree == \A p \in Broadcasters : ~Reading(p)

\* Slips: a drop that does not wait for the readers; an unregistration that
\* closes the client and leaves it in the map.
GrantAnyTime(c) ==
    /\ announced = [kind |-> "drop", conn |-> c]
    /\ announced' = None
    /\ clients' = clients \ {c}
    /\ dropping' = dropping \ {c}
    /\ closing' = closing \cup {c}
    /\ Admit(clients')
    /\ UNCHANGED <<closed, session, peer>>

GrantUnregisterKeeping(c) ==
    /\ announced = [kind |-> "unregister", conn |-> c] /\ LockFree
    /\ announced' = None
    /\ session' = [session EXCEPT ![c] = "close"]
    /\ Admit(clients)
    /\ UNCHANGED <<clients, dropping, closing, closed, peer>>

GrantRegister(c) ==
    /\ announced = [kind |-> "register", conn |-> c] /\ LockFree
    /\ announced' = None
    /\ clients' = clients \cup {c}
    /\ session' = [session EXCEPT ![c] = "reading"]
    /\ Admit(clients')
    /\ UNCHANGED <<dropping, closing, closed, peer>>

GrantUnregister(c) ==
    /\ announced = [kind |-> "unregister", conn |-> c] /\ LockFree
    /\ announced' = None
    /\ clients' = clients \ {c}
    /\ session' = [session EXCEPT ![c] = "close"]
    /\ Admit(clients')
    /\ UNCHANGED <<dropping, closing, closed, peer>>

GrantDrop(c) ==
    /\ announced = [kind |-> "drop", conn |-> c] /\ LockFree
    /\ announced' = None
    /\ clients' = clients \ {c}
    /\ dropping' = dropping \ {c}
    /\ closing' = closing \cup {c}
    /\ Admit(clients')
    /\ UNCHANGED <<closed, session, peer>>

DropCloses(c) ==
    /\ c \in closing
    /\ closing' = closing \ {c}
    /\ closed' = closed \cup {c}
    /\ UNCHANGED <<clients, announced, dropping, session, peer, cast>>
-----------------------------------------------------------------------------
\* Broadcast takes the read lock, at once or after an announced writer.
StartCast(p) ==
    /\ cast[p].pc = "idle"
    /\ cast' = [cast EXCEPT ![p] = IF announced = None THEN Looping(clients)
                                   ELSE [IdleCast EXCEPT !.pc = "blocked"]]
    /\ UNCHANGED <<clients, announced, dropping, closing, closed, session, peer>>

\* The map is ranged over in any order.
BeginWrite(p) ==
    /\ cast[p].pc = "loop"
    /\ \E c \in cast[p].left :
          cast' = [cast EXCEPT ![p] = [pc |-> "write", left |-> @.left \ {c}, conn |-> c]]
    /\ UNCHANGED <<clients, announced, dropping, closing, closed, session, peer>>

\* WriteMessage has no deadline: it succeeds if the peer reads, fails if the
\* peer is gone or the connection closed, and waits for a peer that is stalled.
WriteOkKeepingConn(p) ==      \* slip: the loop keeps hold of the client it has served
    /\ cast[p].pc = "write"
    /\ peer[cast[p].conn] = "alive" /\ cast[p].conn \notin closed
    /\ cast' = [cast EXCEPT ![p].pc = "loop"]
    /\ UNCHANGED <<clients, announced, dropping, closing, closed, session, peer>>
WriteOk(p) ==
    /\ cast[p].pc = "write"
    /\ peer[cast[p].conn] = "alive" /\ cast[p].conn \notin closed
    /\ cast' = [cast EXCEPT ![p] = Looping(@.left)]
    /\ UNCHANGED <<clients, announced, dropping, closing, closed, session, peer>>

\* Slip: the drop runs in the broadcast, not in a goroutine of its own.
WriteFailsDropInline(p) ==
    LET c == cast[p].conn
    IN  /\ cast[p].pc = "write"
        /\ peer[c] = "gone" \/ c \in closed
        /\ dropping' = IF c \in clients THEN dropping \cup {c} ELSE dropping
        /\ cast' = IF c \in clients THEN cast ELSE [cast EXCEPT ![p] = Looping(@.left)]
        /\ UNCHANGED <<clients, announced, closing, closed, session, peer>>
WriteFails(p) ==
    /\ cast[p].pc = "write"
    /\ peer[cast[p].conn] = "gone" \/ cast[p].conn \in closed
    /\ dropping' = dropping \cup {cast[p].conn}
    /\ cast' = [cast EXCEPT ![p] = Looping(@.left)]
    /\ UNCHANGED <<clients, announced, closing, closed, session, peer>>

\* Two broadcasts hold the read lock and write to one connection, which allows
\* one writer: the connection may panic, and the deferred RUnlock runs.
WritePanics(p) ==
    /\ cast[p].pc = "write"
    /\ \E q \in Broadcasters \ {p} : cast[q].pc = "write" /\ cast[q].conn = cast[p].conn
    /\ cast' = [cast EXCEPT ![p] = IdleCast]
    /\ UNCHANGED <<clients, announced, dropping, closing, closed, session, peer>>

EndCast(p) ==
    /\ cast[p].pc = "loop" /\ cast[p].left = {}
    /\ cast' = [cast EXCEPT ![p] = IdleCast]
    /\ UNCHANGED <<clients, announced, dropping, closing, closed, session, peer>>

\* The peer stops reading, reads again, or leaves.
Peer(c, from, to) ==
    /\ session[c] # "out" /\ peer[c] \in from
    /\ peer' = [peer EXCEPT ![c] = to]
    /\ UNCHANGED <<clients, announced, dropping, closing, closed, session, cast>>
Stall(c) == Peer(c, {"alive"}, "stalled")
Resume(c) == Peer(c, {"stalled"}, "alive")
Leave(c) == Peer(c, {"alive", "stalled"}, "gone")

SessionStep(c) == ReadFails(c) \/ HandlerCloses(c) \/ DropCloses(c)
Grant(c) == GrantRegister(c) \/ GrantUnregister(c) \/ GrantDrop(c)
CastStep(p) == BeginWrite(p) \/ WriteOk(p) \/ WriteFails(p) \/ WritePanics(p) \/ EndCast(p)

Next == \/ \E c \in Conns : \/ Connect(c) \/ SessionStep(c) \/ Grant(c)
                            \/ Stall(c) \/ Resume(c) \/ Leave(c)
        \/ \E t \in Tasks : Announce(t)
        \/ \E p \in Broadcasters : StartCast(p) \/ CastStep(p)

Spec == Init /\ [][Next]_hubVars

\* Goroutines that can run do run.  A goroutine waiting for sync.Mutex is not
\* passed over forever: the mutex hands itself to a waiter that starves.
Fairness == /\ \A c \in Conns : WF_hubVars(SessionStep(c)) /\ WF_hubVars(Grant(c))
            /\ \A t \in Tasks : SF_hubVars(Announce(t))
            /\ \A p \in Broadcasters : WF_hubVars(CastStep(p))
FairSpec == Spec /\ Fairness
-----------------------------------------------------------------------------
\* Every variable has its type; a broadcast holds a client just while it writes.
TypeOK == /\ clients \cup dropping \cup closing \cup closed \subseteq Conns
          /\ announced \in Tasks \cup {None}
          /\ session \in [Conns -> Sessions]
          /\ peer \in [Conns -> {"alive", "stalled", "gone"}]
          /\ cast \in [Broadcasters -> [pc : {"idle", "blocked", "loop", "write"},
                                        left : SUBSET Conns, conn : Conns \cup {None}]]
          /\ \A p \in Broadcasters : cast[p].pc = "write" <=> cast[p].conn # None

\* A client is closed only after it left the map, and it leaves the map only
\* when no broadcast is going through it: no broadcast writes, or is still
\* going to write, to a connection the server has closed.
NoWriteAfterClose ==
    \A p \in Broadcasters : (cast[p].left \cup {cast[p].conn}) \cap closed = {}

\* A connection is in the map only while its handler can still take it out: no
\* client stays behind its handler, whichever of handler and drop came first.
NoLeak == \A c \in clients : session[c] \in {"reading", "unregister"}

\* Once no peer is stalled any more, ...
NoPeerStalls == <>[](\A c \in Conns : peer[c] # "stalled")

\* ... a client that has left is unregistered and closed, found out by its
\* reader or by a failed write, ...
GoneIsClosed ==
    NoPeerStalls => \A c \in Conns :
        c \in clients /\ peer[c] = "gone" ~> c \notin clients /\ c \in closed

\* ... and Broadcast returns, however many goroutines broadcast, register and
\* drop: nobody waits for the lock for ever.
BroadcastReturns ==
    NoPeerStalls => \A p \in Broadcasters : cast[p].pc # "idle" ~> cast[p].pc = "idle"

\* "Broadcast sends a message to all clients; slow clients are dropped"
\* (hub.go:60): a peer that stops reading does not hold up a broadcast.
SlowClientsAreDropped ==
    \A p \in Broadcasters, c \in Conns :
        cast[p].conn = c /\ peer[c] = "stalled" ~> cast[p].conn # c \/ peer[c] # "stalled"
=============================================================================
