CONSTANTS
    Users = {u1}
    Requests = {r1, r2}
    Tokens = {t1, t2, t3}
    NoToken = NoToken
    NoUser = NoUser
    AccessTTL = 1
    RefreshTTL = 1
    Leeway = 1
    PurgeGrace = 1
    MaxTime = 3
SPECIFICATION Spec
SYMMETRY AuthSymmetry
INVARIANTS
    OneUnspentPerSession
    QuietSessionsStayEnded
    ReplayDetected
    HeldTokensTracked
PROPERTY
    DeadTokensStayDead
