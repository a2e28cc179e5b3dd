------------------------------ MODULE Sessions ------------------------------
(***************************************************************************)
(* Accounts and refresh-token sessions (app/auth/service.py behind the     *)
(* routes of app/routes/auth.py): registration, login, rotation, the       *)
(* handling of a revoked token that comes back, logout.                    *)
(*                                                                         *)
(* A request is one database transaction.  It reads at READ COMMITTED,     *)
(* keeps what it has read and what it is going to write; get_db_session    *)
(* commits when the route returns and rolls back when the route raises.    *)
(* Writes go by primary key and recheck nothing, so row locks only order   *)
(* them, and all of a transaction's writes can be put in its commit step.  *)
(*                                                                         *)
(* A user is an email address; a token is its hash, numbered in the order  *)
(* of the rows.  Whether a password is right is not modelled: a login with *)
(* a wrong one reads a row and ends.                                       *)
(***************************************************************************)
EXTENDS Naturals

CONSTANTS
    Users,      \* email addresses
    NoUser,     \* none of them: a row not yet stored, a request not yet made
    Requests,   \* requests that may be open at the same time
    MaxTokens   \* bound: refresh tokens ever stored

ASSUME MaxTokensAssumption == MaxTokens \in Nat
ASSUME NoUserAssumption == NoUser \notin Users

Tokens == 1..MaxTokens
NoToken == 0

VARIABLES
    \* committed rows
    registered, \* emails with a users row
    active,     \* users.is_active
    issued,     \* number of refresh_tokens rows
    owner,      \* refresh_tokens.user_id
    revoked,    \* rows with revoked_at set
    expired,    \* rows whose expires_at has passed
    \* open requests
    phase,      \* how far the request is
    op,         \* which route it serves
    subject,    \* the user it works for
    token,      \* the refresh token it was sent, or NoToken
    revoking,   \* rows whose revoked_at its transaction sets
    \* bookkeeping that no code reads
    session,    \* the login token this token descends from by rotation
    ended,      \* sessions a logout has ended
    raced       \* sessions one token of which two open requests held as usable

rowVars     == <<registered, active, issued, owner, revoked, expired>>
requestVars == <<phase, op, subject, token, revoking>>
ghostVars   == <<session, ended, raced>>
vars == <<rowVars, requestVars, ghostVars>>

\* loaded: the token's row was read and is usable.  accepted: nothing is left
\* to read, the route will return.  refused: the route will raise.
Phases == {"idle", "loaded", "accepted", "refused"}
Ops    == {"register", "login", "refresh", "logout"}

Stored  == 1..issued
Live(u) == {t \in Stored : owner[t] = u /\ t \notin revoked}

\* r has found t usable and will use it up when it commits.
Using(r, t) == token[r] = t /\ phase[r] \in {"loaded", "accepted"}

Init ==
    /\ registered = {}
    /\ active = Users
    /\ issued = 0
    /\ owner = [t \in Tokens |-> NoUser]
    /\ revoked = {}
    /\ expired = {}
    /\ phase = [r \in Requests |-> "idle"]
    /\ op = [r \in Requests |-> "login"]
    /\ subject = [r \in Requests |-> NoUser]
    /\ token = [r \in Requests |-> NoToken]
    /\ revoking = [r \in Requests |-> {}]
    /\ session = [t \in Tokens |-> NoToken]
    /\ ended = {}
    /\ raced = {}

-----------------------------------------------------------------------------
(* The reads of a request, up to the point where its outcome is fixed.     *)

Open(r, o, u, t, p, rows) ==
    /\ phase[r] = "idle"
    /\ phase' = [phase EXCEPT ![r] = p]
    /\ op' = [op EXCEPT ![r] = o]
    /\ subject' = [subject EXCEPT ![r] = u]
    /\ token' = [token EXCEPT ![r] = t]
    /\ revoking' = [revoking EXCEPT ![r] = rows]
    /\ UNCHANGED rowVars

\* An unknown email is free to register; a registered one raises, which is
\* the end of it (nothing was written).
BeginRegister(r, u) ==
    /\ u \notin registered
    /\ Open(r, "register", u, NoToken, "accepted", {})
    /\ UNCHANGED ghostVars

BeginLogin(r, u) ==
    /\ u \in registered \cap active
    /\ Open(r, "login", u, NoToken, "accepted", {})
    /\ UNCHANGED ghostVars

\* Two open requests now hold t as usable.
NoteRace(r, t) ==
    /\ raced' = IF \E q \in Requests \ {r} : Using(q, t)
                THEN raced \cup {session[t]} ELSE raced
    /\ UNCHANGED <<session, ended>>

\* What rotate_session writes before it raises, for a row it will not rotate.
RevokedBeforeRefusal(t) == IF t \in revoked THEN Live(owner[t]) ELSE {t}

\* The row is missing: refused with nothing written, no action.
RefuseRefresh(r, t) ==
    /\ t \in Stored
    /\ t \in revoked \cup expired
    /\ Open(r, "refresh", owner[t], t, "refused", RevokedBeforeRefusal(t))
    /\ UNCHANGED ghostVars

BeginRefresh(r, t) ==
    /\ t \in Stored \ (revoked \cup expired)
    /\ Open(r, "refresh", owner[t], t, "loaded", {t})
    /\ NoteRace(r, t)

\* The second read of rotate_session, a separate statement: the user's row.
CheckUser(r) ==
    /\ phase[r] = "loaded"
    /\ phase' = [phase EXCEPT ![r] = IF subject[r] \in registered \cap active
                                     THEN "accepted" ELSE "refused"]
    /\ UNCHANGED <<rowVars, ghostVars, op, subject, token, revoking>>

\* Fault: the row is loaded and never written.
BeginLogoutUnwritten(r, t) ==
    /\ t \in Stored \ revoked
    /\ Open(r, "logout", owner[t], t, "accepted", {})
    /\ NoteRace(r, t)

\* A missing or revoked row leaves nothing to do; logout looks at no expiry.
BeginLogout(r, t) ==
    /\ t \in Stored \ revoked
    /\ Open(r, "logout", owner[t], t, "accepted", {t})
    /\ NoteRace(r, t)

-----------------------------------------------------------------------------
(* The end of a request.                                                   *)

\* What it held is forgotten; op is a don't-care between requests.
Close(r) ==
    /\ phase' = [phase EXCEPT ![r] = "idle"]
    /\ token' = [token EXCEPT ![r] = NoToken]
    /\ revoking' = [revoking EXCEPT ![r] = {}]
    /\ op' = [op EXCEPT ![r] = "login"]
    /\ subject' = [subject EXCEPT ![r] = NoUser]

\* Fault: the presented token stays usable when its replacement is issued.
RevokeNothing(r) == UNCHANGED revoked

\* RefreshTokenRepository.revoke, flushed with the rest of the transaction.
Revoke(r) == revoked' = revoked \cup revoking[r]

CommitRegister(r) ==
    /\ phase[r] = "accepted" /\ op[r] = "register"
    /\ subject[r] \notin registered
    /\ registered' = registered \cup {subject[r]}
    /\ Close(r)
    /\ UNCHANGED <<active, issued, owner, revoked, expired, ghostVars>>

\* A concurrent registration was first: the unique email fails the flush.
RegisterConflict(r) ==
    /\ phase[r] = "accepted" /\ op[r] = "register"
    /\ subject[r] \in registered
    /\ Close(r)
    /\ UNCHANGED <<rowVars, ghostVars>>

\* Fault: the new row is never added to the database session.
IssueSessionUnstored(r, c) ==
    /\ c \in Tokens
    /\ UNCHANGED issued
    /\ owner' = [owner EXCEPT ![c] = subject[r]]
    /\ session' = [session EXCEPT ![c] = c]

\* issue_session: a new row, for a login or in place of the presented token.
IssueSession(r, c) ==
    /\ c \in Tokens
    /\ issued' = c
    /\ owner' = [owner EXCEPT ![c] = subject[r]]
    /\ session' = [session EXCEPT ![c] =
                       IF op[r] = "login" THEN c ELSE session[token[r]]]

CommitSession(r) ==
    /\ phase[r] = "accepted" /\ op[r] \in {"login", "refresh"}
    /\ IssueSession(r, issued + 1)
    /\ Revoke(r)
    /\ Close(r)
    /\ UNCHANGED <<registered, active, expired, ended, raced>>

CommitLogout(r) ==
    /\ phase[r] = "accepted" /\ op[r] = "logout"
    /\ Revoke(r)
    /\ ended' = ended \cup {session[token[r]]}
    /\ Close(r)
    /\ UNCHANGED <<registered, active, issued, owner, expired, session, raced>>

\* The route answers 401 by raising, and session_scope rolls back: whatever
\* rotate_session wrote before it raised is gone.
Rollback(r) ==
    /\ phase[r] = "refused"
    /\ Close(r)
    /\ UNCHANGED <<rowVars, ghostVars>>

\* The process dies, the client goes away or the database fails.
Abort(r) ==
    /\ phase[r] \in {"loaded", "accepted"}
    /\ Close(r)
    /\ UNCHANGED <<rowVars, ghostVars>>

-----------------------------------------------------------------------------
(* Time and the operator.                                                  *)

Expire(t) ==
    /\ t \in Stored \ expired
    /\ expired' = expired \cup {t}
    /\ UNCHANGED <<registered, active, issued, owner, revoked, requestVars, ghostVars>>

\* No code in src/ writes is_active; an operator does, in the database.
SetActive(u) ==
    /\ u \in registered
    /\ active' = IF u \in active THEN active \ {u} ELSE active \cup {u}
    /\ UNCHANGED <<registered, issued, owner, revoked, expired, requestVars, ghostVars>>

Next ==
    \/ \E r \in Requests, u \in Users : BeginRegister(r, u) \/ BeginLogin(r, u)
    \/ \E r \in Requests, t \in Tokens :
           BeginRefresh(r, t) \/ RefuseRefresh(r, t) \/ BeginLogout(r, t)
    \/ \E r \in Requests :
           \/ CheckUser(r)
           \/ CommitRegister(r) \/ RegisterConflict(r)
           \/ CommitSession(r) \/ CommitLogout(r)
           \/ Rollback(r) \/ Abort(r)
    \/ \E t \in Tokens : Expire(t)
    \/ \E u \in Users : SetActive(u)

Spec == Init /\ [][Next]_vars

-----------------------------------------------------------------------------
(* Properties.                                                             *)

\* Types, and the ids in use: rows are numbered without gaps, and nothing
\* refers to a token that is not stored.
RowTypes ==
    /\ registered \subseteq Users /\ active \subseteq Users
    /\ issued \in 0..MaxTokens
    /\ owner \in [Tokens -> Users \cup {NoUser}]
    /\ revoked \subseteq Stored /\ expired \subseteq Stored
    /\ session \in [Tokens -> Stored \cup {NoToken}]
    /\ ended \subseteq Stored /\ raced \subseteq Stored

RequestTypes ==
    /\ phase \in [Requests -> Phases] /\ op \in [Requests -> Ops]
    /\ subject \in [Requests -> Users \cup {NoUser}]
    /\ token \in [Requests -> Stored \cup {NoToken}]
    /\ revoking \in [Requests -> SUBSET Stored]

TypeOK == RowTypes /\ RequestTypes

\* One login is one session: rotation, however many requests, aborts and
\* expiries it goes through, never leaves two usable refresh tokens that
\* descend from the same login - unless two requests once held the same token
\* as usable between their SELECT and their commit (rotate_session takes no
\* lock), which is the only way to fork a session.
OneTokenPerSession ==
    \A s, t \in Stored \ revoked :
        session[s] = session[t] /\ session[t] \notin raced => s = t

\* Logout ends the session, not only the row it was sent: no token of it is
\* usable any more or becomes usable later, through a rotation that was
\* already open or otherwise - with the same exception.
LoggedOutStaysOut ==
    \A t \in Stored \ revoked : session[t] \in ended => session[t] \in raced

\* docs/DEVELOPMENT.md: "reusing a revoked token revokes every session for
\* that account".  When the refresh that found its token revoked has been
\* answered, what was usable when it looked is usable no more.
ReuseEndsEverySession ==
    [][\A r \in Requests :
           phase[r] = "refused" /\ token[r] \in revoked /\ phase'[r] = "idle"
                => revoking[r] \subseteq revoked']_vars
=============================================================================
