SPECIFICATION Spec
CONSTANTS
    Users = {u1, u2, u3}
    NoUser = NoUser
    Requests = {r1, r2}
    Granted = {"owner", "admin", "member"}
SYMMETRY Symmetry
INVARIANTS TypeOK OwnerUnlessRaced
PROPERTY PrivilegedByOwners
\* A workspace that has lost every owner and admin is managed by nobody.
CHECK_DEADLOCK FALSE
