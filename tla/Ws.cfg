CONSTANTS
    Tickets = {t1, t2}
    Upgrades = {u1, u2, u3}
    NoTicket = NoTicket
    TTL = 1
    MaxTime = 3
CONSTANTS
    Clients = {c1, c2}
    c1 = c1
    c2 = c2
    Topics = {a}
    Messages = {m1, m2, m3}
    m1 = m1
    m2 = m2
    m3 = m3
    SendCap = 2
SPECIFICATION MCSpec
INVARIANTS
    OneUpgradePerTicket
    MapsAgree
    WireInOrder
PROPERTIES
    ExpiredTicketsLeave
    PublishNeverBlocks
    ConnectionsCleanedUp
    ShutdownEmptiesHub
CHECK_DEADLOCK FALSE
