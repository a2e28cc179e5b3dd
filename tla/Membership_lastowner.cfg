SPECIFICATION Spec
CONSTANTS
    Users = {u1, u2}
    NoUser = NoUser
    Requests = {r1, r2}
    Granted = {"owner", "member"}
INVARIANT LastOwnerStays
