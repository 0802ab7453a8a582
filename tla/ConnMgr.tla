------------------------------ MODULE ConnMgr ------------------------------
(***************************************************************************)
(* The connection manager of src/rpc/src/conn_mgr.{h,cpp}: the cache of    *)
(* channels by address and the addresses by session, over the sessions of  *)
(* an llbc service.  The network thread of a session reports its creation  *)
(* and its end by events, in this order, which a later Tick handles; those *)
(* of different sessions come in any order.  A channel is known by the     *)
(* session it was made for.                                                *)
(***************************************************************************)
EXTENDS Naturals

CONSTANTS
    Addrs,          \* ip:port
    Callers,        \* the code that calls GetRpcChannel
    AddrOf,         \* the address each caller asks for
    Keepers,        \* the callers that keep the channel they got (client.cpp)
    None,           \* nullptr, or no entry
    MaxSessions     \* bound: connections made

ASSUME ConnAssumption ==
    /\ AddrOf \in [Callers -> Addrs] /\ Keepers \subseteq Callers
    /\ MaxSessions \in Nat
    /\ None \notin Nat /\ None \notin Addrs

VARIABLES
    issued,         \* session ids handed out by the service
    peer,           \* the address a session was connected to
    ready,          \* _readySessionInfos of the service
    open,           \* the sessions whose connection stands
    closing,        \* the sessions the network thread was told to close
    creates,        \* the sessions whose create event no Tick has handled
    destroys,       \* the sessions whose destroy event no Tick has handled
    session2Addr, addr2Channel,
    held            \* the channel each caller has

service == <<issued, peer, ready, open, closing, creates, destroys>>
vars == <<service, session2Addr, addr2Channel, held>>

Sessions == 1..MaxSessions

TypeOK ==
    /\ issued \in 0..MaxSessions
    /\ peer \in [Sessions -> Addrs \cup {None}]
    /\ ready \subseteq 1..issued /\ open \subseteq 1..issued /\ closing \subseteq 1..issued
    /\ creates \subseteq 1..issued /\ destroys \subseteq 1..issued
    /\ session2Addr \in [Sessions -> Addrs \cup {None}]
    /\ addr2Channel \in [Addrs -> Sessions \cup {None}]
    /\ held \in [Callers -> Sessions \cup {None}]

Init ==
    /\ issued = 0 /\ peer = [s \in Sessions |-> None]
    /\ ready = {} /\ open = {} /\ closing = {} /\ creates = {} /\ destroys = {}
    /\ session2Addr = [s \in Sessions |-> None]
    /\ addr2Channel = [a \in Addrs |-> None]
    /\ held = [h \in Callers |-> None]

-----------------------------------------------------------------------------
(* The service.                                                            *)

\* Connect returns a new session id; a caller handles its failure.
Connect(a) ==
    /\ issued < MaxSessions
    /\ issued' = issued + 1 /\ peer' = [peer EXCEPT ![issued + 1] = a]
    /\ ready' = ready \cup {issued + 1} /\ open' = open \cup {issued + 1}
    /\ creates' = creates \cup {issued + 1}
    /\ UNCHANGED <<closing, destroys>>

KeepReady(s) == UNCHANGED <<ready, closing>>       \* mutant: no RemoveSession

\* RemoveSession: the network thread is told to close a ready session.
RemoveSession(s) ==
    /\ ready' = ready \ {s}
    /\ closing' = IF s \in ready THEN closing \cup {s} ELSE closing

\* The network thread closes a session: the peer is gone, the connection broke,
\* or RemoveSession asked for it.
Break(s) ==
    /\ s \in open
    /\ open' = open \ {s} /\ destroys' = destroys \cup {s}
    /\ UNCHANGED <<issued, peer, ready, closing, creates, session2Addr, addr2Channel, held>>

\* Tick handles a create event.  A session that was removed in the meantime
\* becomes ready again, until its destroy event.
TickCreate(s) ==
    /\ s \in creates /\ creates' = creates \ {s}
    /\ ready' = ready \cup {s}
    /\ UNCHANGED <<issued, peer, open, closing, destroys, session2Addr, addr2Channel, held>>

-----------------------------------------------------------------------------
(* The manager.                                                            *)

RecordSession(a) == session2Addr' = [session2Addr EXCEPT ![issued + 1] = a]

\* mutant: the key is not compared
AnyChannel(a) ==
    LET full == {b \in Addrs : addr2Channel[b] # None}
    IN  IF full = {} THEN None ELSE addr2Channel[CHOOSE b \in full : TRUE]

Cached(a) == addr2Channel[a]

\* mutant: a channel for the session id 0
Unchecked(h) == held' = [held EXCEPT ![h] = 0]

\* Connect returned 0: no channel.
NoChannel(h) == held' = [held EXCEPT ![h] = None]

\* GetRpcChannel, called by h.
GetRpcChannel(h) ==
    LET a == AddrOf[h]
    IN  \/ /\ Cached(a) # None
           /\ held' = [held EXCEPT ![h] = Cached(a)]
           /\ UNCHANGED <<service, session2Addr, addr2Channel>>
        \/ /\ Cached(a) = None /\ Connect(a)
           /\ RecordSession(a)
           /\ addr2Channel' = [addr2Channel EXCEPT ![a] = issued + 1]
           /\ held' = [held EXCEPT ![h] = issued + 1]
        \/ /\ Cached(a) = None /\ NoChannel(h)
           /\ UNCHANGED <<service, session2Addr, addr2Channel>>

\* A keeper asks while it has no channel, the others for every call.
Ask(h) == (h \in Keepers => held[h] = None) /\ GetRpcChannel(h)

KeepChannel(s) == UNCHANGED addr2Channel    \* mutant: only one map is cleaned

EraseChannel(s) == addr2Channel' = [addr2Channel EXCEPT ![session2Addr[s]] = None]

\* CloseSession up to its RemoveSession, which the callers add: a session that
\* is not in the map is left alone.
CloseSession(s) ==
    IF session2Addr[s] = None
      THEN UNCHANGED <<session2Addr, addr2Channel>>
      ELSE EraseChannel(s) /\ session2Addr' = [session2Addr EXCEPT ![s] = None]

\* CloseSession called by the program; it is public, though no program of the
\* repository calls it.
Close(s) ==
    /\ session2Addr[s] # None
    /\ CloseSession(s) /\ RemoveSession(s)
    /\ UNCHANGED <<issued, peer, open, creates, destroys, held>>

StayReady(s) == UNCHANGED ready                                  \* mutant

RemoveReadySession(s) == ready' = ready \ {s}

IgnoreDestroy(s) == UNCHANGED <<session2Addr, addr2Channel>>     \* mutant

OnSessionDestroy(s) == CloseSession(s)

\* Tick handles a destroy event: the service forgets the session, then
\* ConnComp::OnSessionDestroy runs; its RemoveSession finds nothing.
TickDestroy(s) ==
    /\ s \in destroys \ creates /\ destroys' = destroys \ {s}
    /\ RemoveReadySession(s)
    /\ OnSessionDestroy(s)
    /\ UNCHANGED <<issued, peer, open, closing, creates, held>>

-----------------------------------------------------------------------------
Next ==
    \/ \E h \in Callers : Ask(h)
    \/ \E s \in Sessions : Break(s) \/ Close(s) \/ TickCreate(s) \/ TickDestroy(s)

Spec == Init /\ [][Next]_vars

\* The main loop keeps calling Tick, callers keep calling, and the network
\* thread does what RemoveSession asks for.
FairSpec ==
    /\ Spec
    /\ \A s \in Sessions :
         /\ WF_vars(TickCreate(s)) /\ WF_vars(TickDestroy(s))
         /\ WF_vars(s \in closing /\ Break(s))
    /\ \A h \in Callers : WF_vars(Ask(h))

-----------------------------------------------------------------------------
(* Properties.                                                             *)

\* The two maps of ConnMgr mirror each other at all times, also when the event
\* of an old session arrives after a new one took its address.
MapsAgree ==
    /\ \A s \in Sessions :
         session2Addr[s] # None => addr2Channel[session2Addr[s]] = s
    /\ \A a \in Addrs :
         addr2Channel[a] # None => session2Addr[addr2Channel[a]] = a

\* A session that the service would send on is the one its address leads to,
\* unless it is being closed.  So no connection is lost while it stands, and
\* there is one to an address at a time, although Connect, CloseSession and the
\* events of Tick come in any order.
ReadyIsCached == \A s \in ready \ closing : addr2Channel[peer[s]] = s

\* A channel leads to the address it was asked for, however old it is.
ChannelReachesItsAddress ==
    \A h \in Callers : held[h] # None => peer[held[h]] = AddrOf[h]

\* A caller that asks again for every call (RelayEcho) gets rid of a channel
\* whose session is closed or was removed; what it then has is a channel that
\* works, or the nullptr of a failed Connect.
CallerRecovers ==
    LET working == (open \cap ready) \ closing
    IN  \A h \in Callers \ Keepers :
          (held[h] \notin working \cup {None}) ~> (held[h] \in working \cup {None})

\* A session that CloseSession gave up is forgotten by the service for good,
\* also when its create event makes it ready once more.
ClosedIsForgotten == \A s \in Sessions : (s \in closing) ~> [](s \notin ready)
=============================================================================
