SPECIFICATION FairSpec
CONSTANTS
    a1 = a1
    a2 = a2
    client = client
    relay1 = relay1
    relay2 = relay2
    Addrs = {a1, a2}
    Callers = {client, relay1, relay2}
    AddrOf <- MCAddrOf
    Keepers = {client}
    None = none
    MaxSessions = 3
INVARIANTS
    TypeOK
    MapsAgree
    ReadyIsCached
    ChannelReachesItsAddress
PROPERTIES
    CallerRecovers
    ClosedIsForgotten
