------------------------------ MODULE HubProofs ------------------------------
(***************************************************************************)
(* What holds of the hub for any connections and any number of             *)
(* broadcasting goroutines, with no fairness assumed.                      *)
(***************************************************************************)
EXTENDS Hub, TLAPS

\* The goroutine next in line for the write lock still wants it.
AnnouncedWants == announced \in Wants \cup {None}

\* What a broadcast holds while it has the read lock are clients of the map; a
\* broadcast without the lock holds nothing.
CastHolds ==
    \A p \in Broadcasters :
        /\ Reading(p) => (cast[p].left \cup {cast[p].conn}) \subseteq clients \cup {None}
        /\ ~Reading(p) => cast[p].left = {}

\* No client of the map is being closed or closed.
ClientsAreOpen == clients \cap (closing \cup closed) = {}

\* A connection that has not been registered yet is nobody's client: no
\* broadcast can have failed on it and nothing closes it.
UnregisteredIsFresh ==
    \A c \in Conns :
        session[c] \in {"out", "register"} =>
            c \notin clients \cup dropping \cup closing \cup closed

\* The inductive invariant.  NoLeak is what makes a handler's own close safe,
\* AnnouncedWants and UnregisteredIsFresh what makes a registration safe, and
\* CastHolds says that the map does not change under a broadcast.
IInv == /\ TypeOK
        /\ NoLeak
        /\ AnnouncedWants
        /\ CastHolds
        /\ ClientsAreOpen
        /\ UnregisteredIsFresh
-----------------------------------------------------------------------------
\* At the start nobody is connected and nobody broadcasts.
LEMMA InitIInv == Init => IInv
  BY DEF Init, IInv, TypeOK, NoLeak, AnnouncedWants, CastHolds, ClientsAreOpen,
         UnregisteredIsFresh, IdleCast, Sessions, Reading

\* The task that is granted the lock asked for it: a registration comes from a
\* handler that is registering, a drop from a drop goroutine.
LEMMA GrantedTask ==
    ASSUME IInv, NEW c \in Conns, NEW kind \in {"register", "unregister", "drop"},
           announced = [kind |-> kind, conn |-> c]
    PROVE  /\ kind # "drop" => session[c] = kind
           /\ kind = "drop" => c \in dropping
  <1>1. [kind |-> kind, conn |-> c] \in Wants
    BY HubAssumption DEF IInv, AnnouncedWants, Tasks
  <1>. QED
    BY <1>1 DEF IInv, TypeOK, Wants

\* A writer that waited for the readers admits the blocked ones to the map it
\* leaves behind.
LEMMA AdmitHolds ==
    ASSUME TypeOK, CastHolds, LockFree, Admit(clients')
    PROVE  CastHolds'
  BY DEF TypeOK, CastHolds, LockFree, Admit, Reading, Looping

\* The steps of a connection's handler and peer keep the invariant.
LEMMA SessionKeeps ==
    ASSUME IInv, NEW c \in Conns,
           Connect(c) \/ SessionStep(c) \/ Stall(c) \/ Resume(c) \/ Leave(c)
    PROVE  IInv'
  <1> USE DEF IInv, TypeOK, Sessions, NoLeak, AnnouncedWants, Wants, CastHolds, Reading,
              ClientsAreOpen, UnregisteredIsFresh
  <1>1. CASE Connect(c)
    BY <1>1 DEF Connect
  <1>2. CASE ReadFails(c)
    BY <1>2 DEF ReadFails
  <1>3. CASE HandlerCloses(c)
    BY <1>3 DEF HandlerCloses
  <1>4. CASE DropCloses(c)
    BY <1>4 DEF DropCloses
  <1>5. CASE Stall(c) \/ Resume(c) \/ Leave(c)
    BY <1>5 DEF Stall, Resume, Leave, Peer
  <1>. QED
    BY <1>1, <1>2, <1>3, <1>4, <1>5 DEF SessionStep

\* The write sections keep the invariant.
LEMMA GrantKeeps ==
    ASSUME IInv, NEW c \in Conns, Grant(c)
    PROVE  IInv'
  <1>1. CASE GrantRegister(c)
    <2>1. session[c] = "register" /\ CastHolds'
      BY <1>1, GrantedTask, AdmitHolds DEF GrantRegister, IInv
    <2>2. TypeOK' /\ AnnouncedWants'
      BY <1>1, HubAssumption DEF GrantRegister, Admit, Looping, IInv, TypeOK, Sessions,
                                 AnnouncedWants
    <2>3. NoLeak' /\ ClientsAreOpen' /\ UnregisteredIsFresh'
      BY <1>1, <2>1 DEF GrantRegister, IInv, TypeOK, NoLeak, ClientsAreOpen,
                        UnregisteredIsFresh
    <2>. QED
      BY <2>1, <2>2, <2>3 DEF IInv
  <1>2. CASE GrantUnregister(c)
    <2>1. session[c] = "unregister" /\ CastHolds'
      BY <1>2, GrantedTask, AdmitHolds DEF GrantUnregister, IInv
    <2>2. TypeOK' /\ AnnouncedWants'
      BY <1>2, HubAssumption DEF GrantUnregister, Admit, Looping, IInv, TypeOK, Sessions,
                                 AnnouncedWants
    <2>3. NoLeak' /\ ClientsAreOpen' /\ UnregisteredIsFresh'
      BY <1>2, <2>1 DEF GrantUnregister, IInv, TypeOK, NoLeak, ClientsAreOpen,
                        UnregisteredIsFresh
    <2>. QED
      BY <2>1, <2>2, <2>3 DEF IInv
  <1>3. CASE GrantDrop(c)
    <2>1. c \in dropping /\ CastHolds'
      BY <1>3, GrantedTask, AdmitHolds DEF GrantDrop, IInv
    <2>2. TypeOK' /\ AnnouncedWants'
      BY <1>3, HubAssumption DEF GrantDrop, Admit, Looping, IInv, TypeOK, AnnouncedWants
    <2>3. NoLeak' /\ ClientsAreOpen' /\ UnregisteredIsFresh'
      BY <1>3, <2>1 DEF GrantDrop, IInv, TypeOK, NoLeak, ClientsAreOpen,
                        UnregisteredIsFresh
    <2>. QED
      BY <2>1, <2>2, <2>3 DEF IInv
  <1>. QED
    BY <1>1, <1>2, <1>3 DEF Grant

\* The steps of a broadcast keep the invariant.
LEMMA CastKeeps ==
    ASSUME IInv, NEW p \in Broadcasters, StartCast(p) \/ CastStep(p)
    PROVE  IInv'
  <1> USE DEF IInv, TypeOK, NoLeak, AnnouncedWants, Wants, CastHolds, Reading,
              ClientsAreOpen, UnregisteredIsFresh, Looping, IdleCast
  <1>1. CASE StartCast(p)
    BY <1>1, HubAssumption DEF StartCast
  <1>2. CASE BeginWrite(p)
    BY <1>2, HubAssumption DEF BeginWrite
  <1>3. CASE WriteOk(p)
    BY <1>3, HubAssumption DEF WriteOk
  <1>4. CASE WriteFails(p)
    BY <1>4, HubAssumption DEF WriteFails
  <1>5. CASE WritePanics(p)
    BY <1>5, HubAssumption DEF WritePanics
  <1>6. CASE EndCast(p)
    BY <1>6, HubAssumption DEF EndCast
  <1>. QED
    BY <1>1, <1>2, <1>3, <1>4, <1>5, <1>6 DEF CastStep

\* Every step keeps the invariant.
LEMMA NextIInv == IInv /\ [Next]_hubVars => IInv'
  <1> SUFFICES ASSUME IInv, [Next]_hubVars PROVE IInv'
    OBVIOUS
  <1>1. ASSUME NEW t \in Tasks, Announce(t) PROVE IInv'
    BY <1>1 DEF Announce, IInv, TypeOK, NoLeak, AnnouncedWants, Wants, CastHolds, Reading,
                ClientsAreOpen, UnregisteredIsFresh
  <1>2. CASE UNCHANGED hubVars
    BY <1>2 DEF hubVars, IInv, TypeOK, NoLeak, AnnouncedWants, Wants, CastHolds, Reading,
                ClientsAreOpen, UnregisteredIsFresh
  <1>. QED
    BY <1>1, <1>2, SessionKeeps, GrantKeeps, CastKeeps DEF Next

\* The invariant holds of the hub whatever is fair.
THEOREM Invariance == Spec => []IInv
  BY InitIInv, NextIInv, PTL DEF Spec
-----------------------------------------------------------------------------
\* The map, the goroutines and the broadcasts keep their types.
THEOREM TypeCorrect == Spec => []TypeOK
  BY Invariance, PTL DEF IInv

\* Whichever of the handler and the drop goroutine gets the lock first, no
\* connection stays in the map once its handler can no longer take it out.
THEOREM NothingLeaks == Spec => []NoLeak
  BY Invariance, PTL DEF IInv

\* However broadcasts, registrations, failures and drops interleave, no broadcast
\* writes or is still going to write to a connection the server has closed.
THEOREM ClosedIsNotWritten == Spec => []NoWriteAfterClose
<1>1. IInv => NoWriteAfterClose
  <2> SUFFICES ASSUME IInv, NEW p \in Broadcasters
               PROVE  (cast[p].left \cup {cast[p].conn}) \cap closed = {}
    BY DEF NoWriteAfterClose
  <2>1. None \notin closed
    BY HubAssumption DEF IInv, TypeOK
  <2>2. (cast[p].left \cup {cast[p].conn}) \subseteq clients \cup {None}
    BY DEF IInv, TypeOK, CastHolds, Reading
  <2>. QED
    BY <2>1, <2>2 DEF IInv, ClientsAreOpen
<1>. QED
  BY <1>1, Invariance, PTL

-----------------------------------------------------------------------------
\* A connection the server has closed never comes back: it is closed for good
\* and is not a client again.
ClosedForGood == [][\A c \in closed : c \in closed' /\ c \notin clients']_hubVars

\* No late drop, registration or panic brings a closed connection back.
THEOREM StaysClosed == Spec => ClosedForGood
<1>1. IInv /\ [Next]_hubVars => closed \subseteq closed'
  BY DEF Next, Connect, SessionStep, ReadFails, HandlerCloses, DropCloses, Announce,
         Grant, GrantRegister, GrantUnregister, GrantDrop, StartCast, CastStep, BeginWrite,
         WriteOk, WriteFails, WritePanics, EndCast, Stall, Resume, Leave, Peer, hubVars
<1>2. IInv /\ IInv' /\ [Next]_hubVars => [\A c \in closed : c \in closed' /\ c \notin clients']_hubVars
  BY <1>1 DEF IInv, ClientsAreOpen
<1>. QED
  BY <1>2, NextIInv, Invariance, PTL DEF Spec, ClosedForGood
-----------------------------------------------------------------------------
\* A broadcast that is blocked stands behind a goroutine that wants the write
\* lock and will be granted it when the readers are done: the readers that
\* came late are never left waiting behind nobody.
BlockedBehindWriter == \A p \in Broadcasters : cast[p].pc = "blocked" => announced \in Wants

\* No wakeup is lost: whichever goroutine unlocks admits every broadcast that
\* was blocked, and the announced one cannot lose its wish while it waits.
THEOREM NoWakeupLost == Spec => []BlockedBehindWriter
<1> DEFINE Behind == \A p \in Broadcasters : cast[p].pc = "blocked" => announced # None
<1>1. Init => Behind
  BY DEF Init, IdleCast
<1>2. IInv /\ Behind /\ [Next]_hubVars => Behind'
  <2> SUFFICES ASSUME IInv, Behind, [Next]_hubVars, NEW p \in Broadcasters,
                      cast'[p].pc = "blocked"
               PROVE  announced' # None
    OBVIOUS
  <2>1. ASSUME NEW c \in Conns, Grant(c) PROVE FALSE
    <3>1. Admit(clients')
      BY <2>1 DEF Grant, GrantRegister, GrantUnregister, GrantDrop
    <3>. QED
      BY <3>1 DEF Admit, Looping, IInv, TypeOK
  <2>2. ASSUME NEW q \in Broadcasters, StartCast(q) PROVE announced' # None
    BY <2>2 DEF StartCast, Looping, IInv, TypeOK
  <2>3. ASSUME NEW q \in Broadcasters, CastStep(q) PROVE announced' # None
    BY <2>3 DEF CastStep, BeginWrite, WriteOk, WriteFails, WritePanics, EndCast, Looping,
                IdleCast, IInv, TypeOK
  <2>4. ASSUME NEW t \in Tasks, Announce(t) PROVE announced' # None
    BY <2>4, HubAssumption DEF Announce
  <2>. QED
    BY <2>1, <2>2, <2>3, <2>4 DEF Next, Connect, SessionStep, ReadFails, HandlerCloses,
       DropCloses, Stall, Resume, Leave, Peer, hubVars
<1>3. IInv /\ Behind => BlockedBehindWriter
  BY DEF IInv, AnnouncedWants, BlockedBehindWriter
<1>. QED
  BY <1>1, <1>2, <1>3, Invariance, PTL DEF Spec
=============================================================================
