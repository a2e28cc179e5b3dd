SPECIFICATION Spec
CONSTANTS
    Users = {u1, u2}
    NoUser = NoUser
    Requests = {r1, r2}
    MaxTokens = 3
SYMMETRY Symmetry
INVARIANTS TypeOK OneTokenPerSession LoggedOutStaysOut
