--------------------------- MODULE ConnMgrProofs ---------------------------
(***************************************************************************)
(* The invariants of ConnMgr, for any addresses, callers and number of     *)
(* connections.                                                            *)
(***************************************************************************)
EXTENDS ConnMgr, TLAPS

\* A leaf that names no prover is tried with SMT, then with Zenon, then once more.
USE SMTT(30), ZenonT(30), SMTT(60)

\* What the invariants rest on besides each other: a session has the address it
\* was connected to, and the manager has no entry for an id not handed out yet.
SessionsAreIssued ==
    /\ \A s \in Sessions : session2Addr[s] # None => s <= issued /\ peer[s] = session2Addr[s]
    /\ \A h \in Callers : held[h] # None => held[h] <= issued

\* ReadyIsCached with the sessions that a create event will make ready, and its
\* converse.
StandingIsCached ==
    /\ \A s \in (ready \cup creates) \ closing :
         peer[s] \in Addrs /\ addr2Channel[peer[s]] = s
    /\ \A s \in Sessions : session2Addr[s] # None => s \in ready \ closing

\* The inductive invariant.
CInv ==
    /\ TypeOK
    /\ MapsAgree
    /\ StandingIsCached
    /\ ChannelReachesItsAddress
    /\ SessionsAreIssued

\* No session, channel or map entry exists at the start.
LEMMA InitCInv == Init => CInv
BY ConnAssumption DEF Init, CInv, TypeOK, MapsAgree, StandingIsCached,
   ChannelReachesItsAddress, SessionsAreIssued, Sessions

\* A GetRpcChannel call, whichever way it returns, preserves the invariant.
LEMMA AskCInv ==
    ASSUME CInv, NEW h \in Callers, GetRpcChannel(h)
    PROVE  CInv'
<1> DEFINE a == AddrOf[h]
<1>0. a \in Addrs /\ None \notin Addrs /\ None \notin Nat /\ MaxSessions \in Nat
  BY ConnAssumption
<1>1. CASE /\ Cached(a) # None
           /\ held' = [held EXCEPT ![h] = Cached(a)]
           /\ UNCHANGED <<service, session2Addr, addr2Channel>>
  <2>1. Cached(a) \in Sessions /\ session2Addr[Cached(a)] = a
    BY <1>0, <1>1 DEF CInv, TypeOK, MapsAgree, Cached
  <2>2. peer[Cached(a)] = a /\ Cached(a) <= issued
    BY <2>1, <1>0, <1>1 DEF CInv, SessionsAreIssued
  <2> QED
    BY <1>0, <1>1, <2>1, <2>2 DEF CInv, TypeOK, MapsAgree, StandingIsCached,
       ChannelReachesItsAddress, SessionsAreIssued, Sessions, service
<1>2. CASE /\ Cached(a) = None /\ Connect(a)
           /\ RecordSession(a)
           /\ addr2Channel' = [addr2Channel EXCEPT ![a] = issued + 1]
           /\ held' = [held EXCEPT ![h] = issued + 1]
  <2> DEFINE n == issued + 1
  <2>1. n \in Sessions /\ issued \in Nat
    BY <1>0, <1>2 DEF CInv, TypeOK, Connect, Sessions
  <2>2. ASSUME NEW s \in Sessions, session2Addr[s] = a
        PROVE  FALSE
    <3>1. addr2Channel[a] = s
      BY <1>0, <2>2, ConnAssumption DEF CInv, MapsAgree
    <3>2. s \in Nat /\ addr2Channel[a] = None
      BY <1>2 DEF Cached, Sessions
    <3> QED  BY <3>1, <3>2, ConnAssumption
  <2>3. TypeOK'
    BY <1>0, <1>2, <2>1 DEF CInv, TypeOK, Connect, RecordSession, Sessions
  <2>4. session2Addr[n] = None
    BY <2>1, <1>0 DEF CInv, SessionsAreIssued, TypeOK
  <2>5. MapsAgree'
    BY <1>0, <1>2, <2>1, <2>2, <2>4 DEF CInv, TypeOK, MapsAgree, RecordSession, Cached
  <2>6. StandingIsCached'
    <3>1. \A s \in (ready \cup creates) \ closing : s \in Sessions /\ s # n /\ peer[s] # a
      BY <1>0, <1>2, <2>1 DEF CInv, TypeOK, StandingIsCached, Cached, Sessions
    <3>2. n \notin closing
      BY <2>1 DEF CInv, TypeOK
    <3>3. \A s \in (ready' \cup creates') \ closing' :
            peer'[s] \in Addrs /\ addr2Channel'[peer'[s]] = s
      BY <1>0, <1>2, <2>1, <3>1 DEF CInv, TypeOK, StandingIsCached, Connect
    <3>4. \A s \in Sessions : session2Addr'[s] # None => s \in ready' \ closing'
      BY <1>0, <1>2, <2>1, <3>2 DEF CInv, TypeOK, StandingIsCached, Connect, RecordSession
    <3> QED  BY <3>3, <3>4 DEF StandingIsCached
  <2>7. ChannelReachesItsAddress' /\ SessionsAreIssued'
    BY <1>0, <1>2, <2>1 DEF CInv, TypeOK, ChannelReachesItsAddress,
       SessionsAreIssued, Connect, RecordSession, Sessions
  <2> QED  BY <2>3, <2>5, <2>6, <2>7 DEF CInv
<1>3. CASE /\ Cached(a) = None /\ NoChannel(h)
           /\ UNCHANGED <<service, session2Addr, addr2Channel>>
  BY <1>0, <1>3 DEF CInv, TypeOK, MapsAgree, StandingIsCached,
     ChannelReachesItsAddress, SessionsAreIssued, Sessions, service, NoChannel
<1> QED  BY <1>1, <1>2, <1>3 DEF GetRpcChannel

\* CloseSession keeps the maps mirrored, and takes from the cache no session
\* but the one it closes.
LEMMA CloseMaps ==
    ASSUME CInv, NEW s \in Sessions, CloseSession(s)
    PROVE  /\ MapsAgree'
           /\ session2Addr' \in [Sessions -> Addrs \cup {None}]
           /\ addr2Channel' \in [Addrs -> Sessions \cup {None}]
           /\ session2Addr'[s] = None
           /\ \A t \in Sessions : session2Addr'[t] \in {session2Addr[t], None}
           /\ \A a \in Addrs : addr2Channel[a] # s => addr2Channel'[a] = addr2Channel[a]
<1>0. None \notin Addrs /\ None \notin Sessions
  BY ConnAssumption DEF Sessions
<1>1. CASE session2Addr[s] = None
  BY <1>0, <1>1 DEF CInv, TypeOK, MapsAgree, CloseSession
<1>2. CASE session2Addr[s] # None
  <2>1. session2Addr[s] \in Addrs /\ addr2Channel[session2Addr[s]] = s
    BY <1>2 DEF CInv, TypeOK, MapsAgree
  <2> QED
    BY <1>0, <1>2, <2>1 DEF CInv, TypeOK, MapsAgree, CloseSession, EraseChannel
<1> QED  BY <1>1, <1>2

\* A close, asked for by the program or learnt from an event, preserves the
\* invariant: the session is no longer among those that stand.
LEMMA CloseCInv ==
    ASSUME CInv, NEW s \in Sessions, CloseSession(s), ready' = ready \ {s},
           UNCHANGED <<issued, peer, open, creates, held>>, destroys' \subseteq destroys,
           s \in creates => s \in closing', closing \subseteq closing',
           closing' \subseteq closing \cup {s}, closing' \subseteq 1..issued
    PROVE  CInv'
<1>0. MaxSessions \in Nat /\ None \notin Addrs
  BY ConnAssumption
<1>1. TypeOK' /\ MapsAgree'
  BY CloseMaps DEF CInv, TypeOK
<1>2. StandingIsCached'
  <2>1. ASSUME NEW t \in (ready' \cup creates') \ closing'
        PROVE  peer'[t] \in Addrs /\ addr2Channel'[peer'[t]] = t
    <3>1. t # s /\ t \in (ready \cup creates) \ closing
      OBVIOUS
    <3>2. peer[t] \in Addrs /\ addr2Channel[peer[t]] = t
      BY <3>1 DEF CInv, StandingIsCached
    <3> QED  BY <3>1, <3>2, CloseMaps
  <2>2. ASSUME NEW t \in Sessions, session2Addr'[t] # None
        PROVE  t \in ready' \ closing'
    <3>1. t # s /\ session2Addr[t] # None
      BY <2>2, CloseMaps
    <3> QED  BY <3>1 DEF CInv, StandingIsCached
  <2> QED  BY <2>1, <2>2 DEF StandingIsCached
<1>3. ChannelReachesItsAddress' /\ SessionsAreIssued'
  BY CloseMaps, <1>0 DEF CInv, ChannelReachesItsAddress, SessionsAreIssued
<1> QED  BY <1>1, <1>2, <1>3 DEF CInv

\* Every step of the specification preserves the invariant.
LEMMA NextCInv == CInv /\ [Next]_vars => CInv'
<1> SUFFICES ASSUME CInv, [Next]_vars PROVE CInv'
  OBVIOUS
<1>1. ASSUME NEW h \in Callers, Ask(h) PROVE CInv'
  BY <1>1, AskCInv DEF Ask
<1>2. ASSUME NEW s \in Sessions, Break(s) PROVE CInv'
  BY <1>2 DEF Break, CInv, TypeOK, MapsAgree, StandingIsCached,
     ChannelReachesItsAddress, SessionsAreIssued, Sessions
<1>3. ASSUME NEW s \in Sessions, Close(s) PROVE CInv'
  <2>1. s \in ready /\ ready \subseteq 1..issued /\ closing \subseteq 1..issued
    BY <1>3 DEF Close, CInv, TypeOK, StandingIsCached
  <2>2. closing' = closing \cup {s} /\ ready' = ready \ {s} /\ CloseSession(s)
    BY <1>3, <2>1 DEF Close, RemoveSession
  <2> QED  BY <1>3, <2>1, <2>2, CloseCInv DEF Close
<1>4. ASSUME NEW s \in Sessions, TickDestroy(s) PROVE CInv'
  BY <1>4, CloseCInv DEF TickDestroy, RemoveReadySession, OnSessionDestroy, CInv, TypeOK
<1>5. ASSUME NEW s \in Sessions, TickCreate(s) PROVE CInv'
  BY <1>5 DEF TickCreate, CInv, TypeOK, MapsAgree, StandingIsCached,
     ChannelReachesItsAddress, SessionsAreIssued, Sessions
<1>6. CASE UNCHANGED vars
  BY <1>6 DEF vars, service, CInv, TypeOK, MapsAgree, StandingIsCached,
     ChannelReachesItsAddress, SessionsAreIssued, Sessions
<1> QED  BY <1>1, <1>2, <1>3, <1>4, <1>5, <1>6 DEF Next

\* The invariant holds in every reachable state.
THEOREM CInvariant == Spec => []CInv
BY InitCInv, NextCInv, PTL DEF Spec

\* The maps hold sessions and addresses that exist, whatever the order of the
\* service's events.
THEOREM TypesStay == Spec => []TypeOK
<1>1. CInv => TypeOK  BY DEF CInv
<1> QED  BY <1>1, CInvariant, PTL

\* The maps of ConnMgr mirror each other, whatever the order of connects,
\* closes and late destroy events.
THEOREM MapsAlwaysAgree == Spec => []MapsAgree
<1>1. CInv => MapsAgree  BY DEF CInv
<1> QED  BY <1>1, CInvariant, PTL

\* Every session the service would send on, and is not closing, is cached under
\* its address.
THEOREM ReadyAlwaysCached == Spec => []ReadyIsCached
<1>1. CInv => ReadyIsCached  BY DEF CInv, StandingIsCached, ReadyIsCached
<1> QED  BY <1>1, CInvariant, PTL

\* GetRpcChannel never gives a caller a channel to another address.
THEOREM ChannelsReachTheirAddress == Spec => []ChannelReachesItsAddress
<1>1. CInv => ChannelReachesItsAddress  BY DEF CInv
<1> QED  BY <1>1, CInvariant, PTL

=============================================================================
