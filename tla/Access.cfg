CONSTANTS
    Users = {a, u}
    Admins = {a}
    Rooms = {c1, c2}
    Reqs = {r1, r2}
    Passwords = {p0, p1}
    Initial = p0
SYMMETRY ReqSymmetry
SPECIFICATION Spec
INVARIANTS
    AccessJustified
    ListsAgree
PROPERTY
    PasswordByOwner
