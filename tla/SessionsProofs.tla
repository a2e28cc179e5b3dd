--------------------------- MODULE SessionsProofs ---------------------------
(***************************************************************************)
(* Proofs about Sessions, for any users, any number of concurrent requests *)
(* and any number of tokens.                                               *)
(*                                                                         *)
(* SessionInv is inductive.  OneTokenPerSession alone is not: that the     *)
(* token a rotation replaces was the usable one of its session is known    *)
(* only through HeldIsUsable, which survives other requests' commits only  *)
(* because of HeldByOne - two holders of a token have noted their race -   *)
(* and LoggedOutStaysOut needs OneTokenPerSession to know that the row a   *)
(* logout writes is the last usable one.                                   *)
(***************************************************************************)
EXTENDS Sessions, TLAPS

-----------------------------------------------------------------------------
\* The inductive invariant: what an open request holds is what it
\* read, and is still usable unless somebody else held it as well.
HoldsWhatItRead ==
    \A r \in Requests : phase[r] \in {"loaded", "accepted"} =>
        \/ /\ op[r] \in {"refresh", "logout"}
           /\ token[r] \in Stored /\ revoking[r] = {token[r]}
        \/ /\ op[r] \in {"register", "login"} /\ token[r] = NoToken
           /\ revoking[r] = {} /\ phase[r] = "accepted" /\ subject[r] \in Users

HeldIsUsable ==
    \A r \in Requests, t \in Stored :
        Using(r, t) /\ session[t] \notin raced => t \notin revoked

HeldByOne ==
    \A q, r \in Requests, t \in Stored :
        Using(q, t) /\ Using(r, t) /\ q # r => session[t] \in raced

SessionsKnown == \A t \in Stored : session[t] \in Stored

SessionInv == /\ TypeOK /\ HoldsWhatItRead /\ HeldIsUsable /\ HeldByOne
              /\ SessionsKnown /\ OneTokenPerSession /\ LoggedOutStaysOut

USE DEF Stored, Tokens, NoToken, Phases, Ops

-----------------------------------------------------------------------------
(* Types of what every operation does with its request.                    *)

\* Opening a request with well-typed contents.
LEMMA OpenTypes ==
  ASSUME TypeOK, NEW r \in Requests, NEW o \in Ops, NEW u \in Users \cup {NoUser},
         NEW t \in Stored \cup {NoToken}, NEW p \in Phases, NEW rows \in SUBSET Stored,
         Open(r, o, u, t, p, rows)
  PROVE  RequestTypes'
  <1>1. issued' = issued
    BY DEF Open, rowVars
  <1> QED BY <1>1 DEF TypeOK, RequestTypes, Open

\* Closing one, while rows may be added but not removed.
LEMMA CloseTypes ==
  ASSUME TypeOK, NEW r \in Requests, Stored \subseteq Stored', Close(r)
  PROVE  RequestTypes'
  <1> DEFINE S == Stored  T == Stored'
  <1>1. S \subseteq T /\ token \in [Requests -> S \cup {0}] /\ revoking \in [Requests -> SUBSET S]
    BY DEF TypeOK, RequestTypes
  <1> HIDE DEF S, T
  <1>2. token' \in [Requests -> T \cup {0}] /\ revoking' \in [Requests -> SUBSET T]
    BY <1>1 DEF Close
  <1>3. phase' \in [Requests -> Phases] /\ op' \in [Requests -> Ops]
        /\ subject' \in [Requests -> Users \cup {NoUser}]
    BY DEF TypeOK, RequestTypes, Close
  <1> QED BY <1>2, <1>3 DEF RequestTypes, S, T

-----------------------------------------------------------------------------
(* One lemma per kind of step.                                             *)

\* The first state satisfies the invariant.
LEMMA InitHolds == Init => SessionInv
  BY MaxTokensAssumption DEF Init, SessionInv, TypeOK, RowTypes, RequestTypes, HoldsWhatItRead,
     HeldIsUsable, HeldByOne, SessionsKnown, OneTokenPerSession,
     LoggedOutStaysOut, Using

\* Opening a request that holds no token: it only adds a request to the rows.
LEMMA OpenWithoutToken ==
  ASSUME SessionInv, NEW r \in Requests, NEW u \in Users,
         BeginRegister(r, u) \/ BeginLogin(r, u)
  PROVE  SessionInv'
  <1>1. TypeOK'
    <2>1. PICK o \in Ops : Open(r, o, u, NoToken, "accepted", {}) /\ UNCHANGED ghostVars
      BY DEF BeginRegister, BeginLogin
    <2>2. RequestTypes'
      BY <2>1, OpenTypes DEF SessionInv
    <2>3. RowTypes'
      BY <2>1 DEF SessionInv, TypeOK, RowTypes, Open, rowVars, ghostVars
    <2> QED BY <2>2, <2>3 DEF TypeOK
  <1>2. HoldsWhatItRead'
    BY DEF SessionInv, TypeOK, RowTypes, RequestTypes, HoldsWhatItRead, BeginRegister, BeginLogin, Open,
       rowVars, ghostVars
  <1>3. \A q \in Requests, t \in Stored : Using(q, t)' => Using(q, t)
    BY DEF SessionInv, TypeOK, RowTypes, RequestTypes, BeginRegister, BeginLogin, Open, Using, rowVars
  <1>4. UNCHANGED <<rowVars, ghostVars>>
    BY DEF BeginRegister, BeginLogin, Open
  <1>5. HeldIsUsable' /\ HeldByOne'
    BY <1>3, <1>4 DEF SessionInv, HeldIsUsable, HeldByOne, rowVars, ghostVars
  <1>6. SessionsKnown' /\ OneTokenPerSession' /\ LoggedOutStaysOut'
    BY <1>4 DEF SessionInv, SessionsKnown, OneTokenPerSession, LoggedOutStaysOut,
       rowVars, ghostVars
  <1> QED BY <1>1, <1>2, <1>5, <1>6 DEF SessionInv

\* Opening a request that finds a token usable: the race is noted if there is
\* one, so the token still has one holder or belongs to a raced session.
LEMMA OpenWithToken ==
  ASSUME SessionInv, NEW r \in Requests, NEW t \in Tokens,
         BeginRefresh(r, t) \/ BeginLogout(r, t)
  PROVE  SessionInv'
  <1>1. /\ t \in Stored /\ t \notin revoked
        /\ phase[r] = "idle" /\ UNCHANGED rowVars
        /\ UNCHANGED <<session, ended>>
        /\ raced' = IF \E q \in Requests \ {r} : Using(q, t)
                    THEN raced \cup {session[t]} ELSE raced
    BY DEF BeginRefresh, BeginLogout, Open, NoteRace
  <1>2. session[t] \in Stored
    BY <1>1 DEF SessionInv, SessionsKnown
  <1>3. TypeOK'
    <2>1. PICK o \in Ops, p \in Phases : Open(r, o, owner[t], t, p, {t})
      BY DEF BeginRefresh, BeginLogout
    <2>2. owner[t] \in Users \cup {NoUser}
      BY DEF SessionInv, TypeOK, RowTypes
    <2>3. RequestTypes'
      BY <1>1, <2>1, <2>2, OpenTypes DEF SessionInv
    <2>4. RowTypes'
      BY <1>1, <1>2 DEF SessionInv, TypeOK, RowTypes, rowVars
    <2> QED BY <2>3, <2>4 DEF TypeOK
  <1>4. HoldsWhatItRead'
    BY <1>1 DEF SessionInv, TypeOK, RowTypes, RequestTypes, HoldsWhatItRead, BeginRefresh, BeginLogout,
       Open, rowVars
  <1>5. \A q \in Requests, s \in Stored :
          Using(q, s)' <=> (Using(q, s) /\ q # r) \/ (q = r /\ s = t)
    BY <1>1 DEF SessionInv, TypeOK, RowTypes, RequestTypes, BeginRefresh, BeginLogout, Open, Using
  <1>6. raced \subseteq raced'
    BY <1>1
  <1>7. HeldIsUsable'
    BY <1>1, <1>5, <1>6 DEF SessionInv, HeldIsUsable, rowVars
  <1>8. HeldByOne'
    <2> SUFFICES ASSUME NEW p \in Requests, NEW q \in Requests, NEW s \in Stored,
                        Using(p, s)', Using(q, s)', p # q
                 PROVE  session[s] \in raced'
      BY <1>1 DEF HeldByOne, rowVars
    <2>1. CASE p # r /\ q # r
      BY <2>1, <1>5, <1>6 DEF SessionInv, HeldByOne
    <2>2. CASE p = r \/ q = r
      <3>1. s = t /\ \E o \in Requests \ {r} : Using(o, t)
        BY <2>2, <1>5
      <3> QED BY <3>1, <1>1
    <2> QED BY <2>1, <2>2
  <1>9. SessionsKnown' /\ OneTokenPerSession' /\ LoggedOutStaysOut'
    BY <1>1, <1>2, <1>6 DEF SessionInv, SessionsKnown, OneTokenPerSession,
       LoggedOutStaysOut, rowVars
  <1> QED BY <1>3, <1>4, <1>7, <1>8, <1>9 DEF SessionInv

\* Steps that write no row and hold no token anew: a refusal, the second read,
\* every end of a request that commits nothing.
LEMMA HoldNothingNew ==
  ASSUME SessionInv, NEW r \in Requests,
         \/ \E t \in Tokens : RefuseRefresh(r, t)
         \/ CheckUser(r) \/ RegisterConflict(r) \/ Rollback(r) \/ Abort(r)
  PROVE  SessionInv'
  <1>1. UNCHANGED <<rowVars, ghostVars>>
    BY DEF RefuseRefresh, CheckUser, RegisterConflict, Rollback, Abort, Open
  <1>2. TypeOK'
    <2>1. ASSUME NEW t \in Tokens, RefuseRefresh(r, t) PROVE TypeOK'
      BY <2>1 DEF SessionInv, TypeOK, RowTypes, RequestTypes, RefuseRefresh, RevokedBeforeRefusal, Live,
         Open, rowVars, ghostVars
    <2>2. CASE CheckUser(r) \/ RegisterConflict(r) \/ Rollback(r) \/ Abort(r)
      BY <2>2 DEF SessionInv, TypeOK, RowTypes, RequestTypes, CheckUser, RegisterConflict, Rollback,
         Abort, Close, rowVars, ghostVars
    <2> QED BY <2>1, <2>2
  <1>3. HoldsWhatItRead'
    BY DEF SessionInv, TypeOK, RowTypes, RequestTypes, HoldsWhatItRead, RefuseRefresh, CheckUser,
       RegisterConflict, Rollback, Abort, Close, Open, rowVars, ghostVars
  <1>4. \A q \in Requests, t \in Stored : Using(q, t)' => Using(q, t)
    BY DEF SessionInv, TypeOK, RowTypes, RequestTypes, RefuseRefresh, CheckUser, RegisterConflict,
       Rollback, Abort, Close, Open, Using, rowVars
  <1>5. HeldIsUsable' /\ HeldByOne'
    BY <1>1, <1>4 DEF SessionInv, HeldIsUsable, HeldByOne, rowVars, ghostVars
  <1>6. SessionsKnown' /\ OneTokenPerSession' /\ LoggedOutStaysOut'
    BY <1>1 DEF SessionInv, SessionsKnown, OneTokenPerSession, LoggedOutStaysOut,
       rowVars, ghostVars
  <1> QED BY <1>2, <1>3, <1>5, <1>6 DEF SessionInv

\* Registration, expiry and the operator do not touch a token's validity.
LEMMA OtherRows ==
  ASSUME SessionInv,
         \/ \E r \in Requests : CommitRegister(r)
         \/ \E t \in Tokens : Expire(t)
         \/ \E u \in Users : SetActive(u)
  PROVE  SessionInv'
  <1>1. UNCHANGED <<issued, owner, revoked>> /\ UNCHANGED ghostVars
    BY DEF CommitRegister, Expire, SetActive
  <1>6. TypeOK'
    <2>1. RequestTypes'
      BY <1>1, CloseTypes DEF SessionInv, TypeOK, RequestTypes, CommitRegister,
         Expire, SetActive, requestVars
    <2>2. subject \in [Requests -> Users \cup {NoUser}]
      BY DEF SessionInv, TypeOK, RequestTypes
    <2>3. registered' \subseteq Users
      <3>1. ASSUME NEW r \in Requests, CommitRegister(r) PROVE registered' \subseteq Users
        <4>1. subject[r] \in Users
          BY <3>1 DEF SessionInv, HoldsWhatItRead, CommitRegister
        <4> QED BY <3>1, <4>1 DEF SessionInv, TypeOK, RowTypes, CommitRegister
      <3> QED BY <3>1 DEF SessionInv, TypeOK, RowTypes, Expire, SetActive
    <2>4. active' \subseteq Users /\ expired' \subseteq Stored
      BY DEF SessionInv, TypeOK, RowTypes, CommitRegister, Expire, SetActive
    <2> QED BY <1>1, <2>1, <2>3, <2>4 DEF SessionInv, TypeOK, RowTypes, ghostVars
  <1>2. HoldsWhatItRead'
    BY <1>1 DEF SessionInv, TypeOK, RowTypes, RequestTypes, HoldsWhatItRead, CommitRegister, Expire,
       SetActive, Close, requestVars
  <1>3. \A q \in Requests, t \in Stored : Using(q, t)' => Using(q, t)
    BY DEF SessionInv, TypeOK, RowTypes, RequestTypes, CommitRegister, Expire, SetActive, Close, Using,
       requestVars
  <1>4. HeldIsUsable' /\ HeldByOne'
    BY <1>1, <1>3 DEF SessionInv, HeldIsUsable, HeldByOne, ghostVars
  <1>5. SessionsKnown' /\ OneTokenPerSession' /\ LoggedOutStaysOut'
    BY <1>1 DEF SessionInv, SessionsKnown, OneTokenPerSession, LoggedOutStaysOut,
       ghostVars
  <1> QED BY <1>6, <1>2, <1>4, <1>5 DEF SessionInv

\* What a commit that revokes the token it holds leaves of that token's
\* session: nothing usable, unless the session was raced.
LEMMA RevokedTheLast ==
  ASSUME SessionInv, NEW r \in Requests, phase[r] = "accepted",
         op[r] \in {"refresh", "logout"}
  PROVE  /\ token[r] \in Stored /\ revoking[r] = {token[r]}
         /\ \A s \in Stored \ (revoked \cup revoking[r]) :
               session[s] = session[token[r]] => session[s] \in raced
         /\ \A q \in Requests \ {r}, s \in Stored :
               Using(q, s) /\ session[s] = session[token[r]] => session[s] \in raced
         /\ session[token[r]] \in ended => session[token[r]] \in raced
  <1>1. token[r] \in Stored /\ revoking[r] = {token[r]} /\ Using(r, token[r])
    BY DEF SessionInv, HoldsWhatItRead, Using
  <1>2. session[token[r]] \notin raced => token[r] \notin revoked
    BY <1>1 DEF SessionInv, HeldIsUsable
  <1>3. ASSUME NEW s \in Stored, s \notin revoked, s # token[r],
               session[s] = session[token[r]]
        PROVE  session[s] \in raced
    BY <1>1, <1>2, <1>3 DEF SessionInv, OneTokenPerSession
  <1>4. ASSUME NEW q \in Requests, q # r, NEW s \in Stored, Using(q, s),
               session[s] = session[token[r]]
        PROVE  session[s] \in raced
    <2>1. CASE s = token[r]
      BY <2>1, <1>1, <1>4 DEF SessionInv, HeldByOne
    <2>2. CASE s # token[r]
      BY <2>2, <1>3, <1>4 DEF SessionInv, HeldIsUsable
    <2> QED BY <2>1, <2>2
  <1>5. session[token[r]] \in ended => session[token[r]] \in raced
    BY <1>1, <1>2 DEF SessionInv, LoggedOutStaysOut
  <1> QED BY <1>1, <1>3, <1>4, <1>5

\* Logout.
LEMMA LogoutStep ==
  ASSUME SessionInv, NEW r \in Requests, CommitLogout(r)
  PROVE  SessionInv'
  <1>1. /\ phase[r] = "accepted" /\ op[r] = "logout"
        /\ revoked' = revoked \cup revoking[r]
        /\ ended' = ended \cup {session[token[r]]}
        /\ UNCHANGED <<issued, session, raced>>
    BY DEF CommitLogout, Revoke
  <1>2. /\ token[r] \in Stored /\ revoking[r] = {token[r]}
        /\ \A s \in Stored \ (revoked \cup revoking[r]) :
               session[s] = session[token[r]] => session[s] \in raced
        /\ \A q \in Requests \ {r}, s \in Stored :
               Using(q, s) /\ session[s] = session[token[r]] => session[s] \in raced
    BY <1>1, RevokedTheLast
  <1>3. \A q \in Requests, t \in Stored : Using(q, t)' => Using(q, t) /\ q # r
    BY DEF SessionInv, TypeOK, RowTypes, RequestTypes, CommitLogout, Close, Using
  <1>4. SessionsKnown'
    BY <1>1, <1>2 DEF SessionInv, SessionsKnown
  <1>5. TypeOK'
    <2>1. RequestTypes'
      BY <1>1, CloseTypes DEF SessionInv, CommitLogout
    <2> QED BY <1>1, <1>2, <2>1 DEF SessionInv, TypeOK, RowTypes, SessionsKnown,
               CommitLogout
  <1>6. HoldsWhatItRead'
    BY <1>1 DEF SessionInv, TypeOK, RowTypes, RequestTypes, HoldsWhatItRead, CommitLogout, Close
  <1>7. HeldIsUsable' /\ HeldByOne'
    BY <1>1, <1>2, <1>3 DEF SessionInv, HeldIsUsable, HeldByOne
  <1>8. OneTokenPerSession' /\ LoggedOutStaysOut'
    BY <1>1, <1>2 DEF SessionInv, OneTokenPerSession, LoggedOutStaysOut
  <1> QED BY <1>4, <1>5, <1>6, <1>7, <1>8 DEF SessionInv

\* Login and rotation: one new row, and for a rotation one revoked one.
LEMMA SessionStep ==
  ASSUME SessionInv, NEW r \in Requests, CommitSession(r)
  PROVE  SessionInv'
  <1> DEFINE c == issued + 1
             f == IF op[r] = "login" THEN c ELSE session[token[r]]
  <1>1. /\ phase[r] = "accepted" /\ op[r] \in {"login", "refresh"}
        /\ revoked' = revoked \cup revoking[r]
        /\ issued' = c /\ c \in Tokens /\ c \notin Stored
        /\ issued \in Nat /\ Stored' = Stored \cup {c}
        /\ session' = [session EXCEPT ![c] = f]
        /\ UNCHANGED <<ended, raced>>
    <2>1. issued \in Nat
      BY MaxTokensAssumption DEF SessionInv, TypeOK, RowTypes, RequestTypes
    <2> QED BY <2>1 DEF CommitSession, Revoke, IssueSession
  <1>2. /\ session \in [Tokens -> Stored \cup {NoToken}]
        /\ \A t \in Stored : session'[t] = session[t] /\ session[t] \in Stored
        /\ session'[c] = f
        /\ revoked \subseteq Stored /\ raced \subseteq Stored /\ ended \subseteq Stored
    BY <1>1, MaxTokensAssumption DEF SessionInv, TypeOK, RowTypes, RequestTypes, SessionsKnown
  <1>3. /\ revoking[r] \subseteq Stored
        /\ op[r] = "refresh" => f \in Stored
    BY <1>1, <1>2 DEF SessionInv, TypeOK, RowTypes, RequestTypes, HoldsWhatItRead
  <1>4. \A s \in Stored \ revoked' : session[s] = f => f \in raced
    <2>1. CASE op[r] = "login"
      BY <1>1, <1>2, <2>1
    <2>2. CASE op[r] = "refresh"
      BY <1>1, <2>2, RevokedTheLast
    <2> QED BY <1>1, <2>1, <2>2
  <1>5. \A q \in Requests \ {r}, s \in Stored :
          Using(q, s) /\ s \in revoking[r] => session[s] \in raced
    <2>1. CASE op[r] = "login"
      BY <1>1, <2>1 DEF SessionInv, HoldsWhatItRead
    <2>2. CASE op[r] = "refresh"
      <3>1. revoking[r] = {token[r]}
        BY <1>1, <2>2, RevokedTheLast
      <3> QED BY <3>1, <1>1, <2>2, RevokedTheLast
    <2> QED BY <1>1, <2>1, <2>2
  <1>6. f \in ended => f \in raced
    <2>1. CASE op[r] = "login"
      BY <1>1, <1>2, <2>1
    <2>2. CASE op[r] = "refresh"
      BY <1>1, <2>2, RevokedTheLast
    <2> QED BY <1>1, <2>1, <2>2
  <1>7. \A q \in Requests, t \in Stored' :
          Using(q, t)' => Using(q, t) /\ q # r /\ t \in Stored
    BY <1>1 DEF SessionInv, TypeOK, RowTypes, RequestTypes, CommitSession, Close, Using
  <1>8. SessionsKnown'
    BY <1>1, <1>2, <1>3 DEF SessionsKnown
  <1>9. TypeOK'
    <2>1. RequestTypes'
      BY <1>1, CloseTypes DEF SessionInv, CommitSession
    <2>2. owner' \in [Tokens -> Users \cup {NoUser}]
      BY <1>1 DEF SessionInv, TypeOK, RowTypes, RequestTypes, CommitSession, IssueSession
    <2>3. session' \in [Tokens -> Stored' \cup {NoToken}]
      BY <1>1, <1>2, <1>3
    <2>4. registered' \subseteq Users /\ active' \subseteq Users
          /\ expired' \subseteq Stored'
      BY <1>1 DEF SessionInv, TypeOK, RowTypes, CommitSession
    <2>5. issued' \in 0..MaxTokens
      <3>1. issued' \in 1..MaxTokens
        BY <1>1
      <3> QED BY <3>1, MaxTokensAssumption
    <2>6. revoked' \subseteq Stored'
      <3>1. Stored \subseteq Stored' /\ revoking[r] \subseteq Stored /\ revoked \subseteq Stored
        BY <1>1, <1>2, <1>3
      <3> HIDE DEF Stored
      <3> QED BY <3>1, <1>1
    <2> QED BY <1>1, <1>2, <2>1, <2>2, <2>3, <2>4, <2>5, <2>6 DEF TypeOK, RowTypes
  <1>10. HoldsWhatItRead'
    BY <1>1 DEF SessionInv, TypeOK, RowTypes, RequestTypes, HoldsWhatItRead, CommitSession, Close
  <1>11. HeldIsUsable' /\ HeldByOne'
    BY <1>1, <1>2, <1>5, <1>7 DEF SessionInv, HeldIsUsable, HeldByOne
  <1>12. OneTokenPerSession'
    BY <1>1, <1>2, <1>4 DEF SessionInv, OneTokenPerSession
  <1>13. LoggedOutStaysOut'
    BY <1>1, <1>2, <1>6 DEF SessionInv, LoggedOutStaysOut
  <1> QED BY <1>8, <1>9, <1>10, <1>11, <1>12, <1>13 DEF SessionInv

\* Every step keeps the invariant.
LEMMA NextKeeps == SessionInv /\ [Next]_vars => SessionInv'
  <1> SUFFICES ASSUME SessionInv, [Next]_vars PROVE SessionInv'
    OBVIOUS
  <1>1. CASE UNCHANGED vars
    BY <1>1 DEF vars, rowVars, requestVars, ghostVars, SessionInv, TypeOK, RowTypes, RequestTypes,
       HoldsWhatItRead, HeldIsUsable, HeldByOne, SessionsKnown,
       OneTokenPerSession, LoggedOutStaysOut, Using
  <1>2. CASE Next
    BY <1>2, OpenWithoutToken, OpenWithToken, HoldNothingNew, OtherRows,
       LogoutStep, SessionStep DEF Next
  <1> QED BY <1>1, <1>2

\* So it holds in every reachable state.
LEMMA Inductive == Spec => []SessionInv
  BY InitHolds, NextKeeps, PTL DEF Spec

\* Every variable keeps its type, for any number of requests and tokens.
THEOREM SessionsTyped == Spec => []TypeOK
  <1>1. SessionInv => TypeOK BY DEF SessionInv
  <1> QED BY <1>1, Inductive, PTL

\* A session that no two requests raced for has at most one usable refresh
\* token, whatever rotations, aborts, expiries and logouts it goes through.
THEOREM SessionsNeverFork == Spec => []OneTokenPerSession
  <1>1. SessionInv => OneTokenPerSession BY DEF SessionInv
  <1> QED BY <1>1, Inductive, PTL

\* After a logout no token of a session that nobody raced for is usable.
THEOREM LogoutIsFinal == Spec => []LoggedOutStaysOut
  <1>1. SessionInv => LoggedOutStaysOut BY DEF SessionInv
  <1> QED BY <1>1, Inductive, PTL

-----------------------------------------------------------------------------
(* Requests that do not overlap.  The exception both properties make is    *)
(* for sessions that were raced for; where requests are served one after   *)
(* another there are none, and neither promise needs it.                   *)

OneRequest == \A q, r \in Requests : q = r
NoRaces == raced = {}

NoSessionForks ==
    \A s, t \in Stored \ revoked : session[s] = session[t] => s = t

NoSessionReturns == \A t \in Stored \ revoked : session[t] \notin ended

\* A race takes two requests.
LEMMA NobodyRaces == ASSUME OneRequest PROVE Spec => []NoRaces
  <1>1. Init => NoRaces
    BY DEF Init, NoRaces
  <1>2. NoRaces /\ [Next]_vars => NoRaces'
    <2> SUFFICES ASSUME NoRaces, [Next]_vars PROVE NoRaces'
      OBVIOUS
    <2>1. ASSUME NEW r \in Requests, NEW t \in Tokens, NoteRace(r, t) PROVE NoRaces'
      BY <2>1 DEF NoteRace, OneRequest, NoRaces
    <2>2. CASE UNCHANGED vars
      BY <2>2 DEF vars, ghostVars, NoRaces
    <2>3. CASE Next
      BY <2>1, <2>3 DEF NoRaces, Next, BeginRegister, BeginLogin, BeginRefresh, RefuseRefresh,
         BeginLogout, CheckUser, CommitRegister, RegisterConflict, CommitSession,
         CommitLogout, Rollback, Abort, Expire, SetActive, ghostVars
    <2> QED BY <2>2, <2>3
  <1> QED BY <1>1, <1>2, PTL DEF Spec

\* One request at a time: a login has at most one usable refresh token, ever.
THEOREM SerialSessionsNeverFork == ASSUME OneRequest PROVE Spec => []NoSessionForks
  <1>1. OneTokenPerSession /\ NoRaces => NoSessionForks
    BY DEF OneTokenPerSession, NoSessionForks, NoRaces
  <1> QED BY <1>1, SessionsNeverFork, NobodyRaces, PTL

\* One request at a time: no token of a session is usable after its logout.
THEOREM SerialLogoutIsFinal == ASSUME OneRequest PROVE Spec => []NoSessionReturns
  <1>1. LoggedOutStaysOut /\ NoRaces => NoSessionReturns
    BY DEF LoggedOutStaysOut, NoSessionReturns, NoRaces
  <1> QED BY <1>1, LogoutIsFinal, NobodyRaces, PTL
=============================================================================
