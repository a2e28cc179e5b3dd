SPECIFICATION Spec
CONSTANTS
    Users = {u1}
    NoUser = NoUser
    Requests = {r1}
    MaxTokens = 3
PROPERTY ReuseEndsEverySession
