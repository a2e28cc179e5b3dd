----------------------------- MODULE RateLimit -----------------------------
(***************************************************************************)
(* What a request of one client passes before its route runs: the global   *)
(* rate limit, the body cap and, on the authentication routes, a second    *)
(* limiter (app/security/middleware.py, app/auth/rate_limit.py,            *)
(* app/auth/dependencies.py).                                              *)
(*                                                                         *)
(* The middleware runs on the event loop, so one call of the global        *)
(* limiter is one step.  enforce_auth_rate_limit is not a coroutine:       *)
(* FastAPI runs it in a thread pool, where calls for one key interleave    *)
(* between any two operations on the deque they share.                     *)
(***************************************************************************)
EXTENDS Integers, Sequences, FiniteSets

CONSTANTS
    Threads,        \* of the pool
    Attempts, Window,           \* global_rate_limit_*
    AuthAttempts, AuthWindow,   \* auth_rate_limit_*
    Undeclared, Malformed,      \* Content-Length: none, or not a number
    Lengths,        \* Content-Length of the requests that may come
    MaxBody,        \* max_request_body_bytes
    MaxNow          \* bound: the clock stops

ASSUME RateLimitAssumption ==
    /\ Attempts \in Nat \ {0} /\ AuthAttempts \in Nat \ {0}
    /\ Window \in Nat \ {0} /\ AuthWindow \in Nat \ {0}
    /\ MaxNow \in Nat
    /\ Lengths \subseteq Nat \cup {Undeclared, Malformed}

Idle == [step |-> "idle", now |-> 0]

VARIABLES
    clock,      \* time.monotonic
    events,     \* the client's deque of the global limiter
    authEvents, \* the deque of the authentication limiter for the client and a path
    thread,     \* what each thread of the pool does, and the time it has read
    \* bookkeeping that no code reads
    admitted,       \* times at which the global limiter said yes
    authAdmitted,   \* and those of the authentication limiter, as it read them
    shared          \* two threads have been in the authentication limiter at a time

limits == <<clock, events, authEvents, thread, admitted, authAdmitted, shared>>

Steps == {"idle", "clock", "test", "pop", "count", "append"}

LimitInit ==
    /\ clock = 0
    /\ events = <<>> /\ authEvents = <<>>
    /\ thread = [t \in Threads |-> Idle]
    /\ admitted = <<>> /\ authAdmitted = <<>> /\ shared = FALSE

Tick ==
    /\ clock < MaxNow
    /\ clock' = clock + 1
    /\ UNCHANGED <<events, authEvents, thread, admitted, authAdmitted, shared>>

-----------------------------------------------------------------------------
(* The middleware, on the event loop. *)

\* Fault: an event leaves one unit of time too early.
ExpiredEarly(e, now) == e <= now - Window + 1

Expired(e, now) == e <= now - Window

\* `old` events leave the deque: popleft as long as the head has expired.
Pops(old) ==
    /\ \A i \in 1..old : Expired(events[i], clock)
    /\ old < Len(events) => ~Expired(events[old + 1], clock)

\* RequestBodyLimitMiddleware
BodyPasses(length) ==
    \/ length = Undeclared
    \/ length # Malformed /\ length <= MaxBody

\* The route is an ordinary one, or its dependency waits for a thread.
Route ==
    \/ UNCHANGED thread
    \/ \E t \in Threads : /\ thread[t] = Idle
                          /\ thread' = [thread EXCEPT ![t] = [Idle EXCEPT !.step = "clock"]]

\* Fault: what is refused counts as well.
RefuseRecording(old) ==
    /\ Pops(old)
    /\ Len(events) - old >= Attempts
    /\ events' = Append(SubSeq(events, old + 1, Len(events)), clock)
    /\ UNCHANGED <<clock, authEvents, thread, admitted, authAdmitted, shared>>

\* A request that the global limiter refuses; what it has popped is gone.
Refuse(old) ==
    /\ Pops(old)
    /\ Len(events) - old >= Attempts
    /\ events' = SubSeq(events, old + 1, Len(events))
    /\ UNCHANGED <<clock, authEvents, thread, admitted, authAdmitted, shared>>

\* One that it admits is recorded, whatever the body cap and the route do with it.
Admit(old, length) ==
    /\ Pops(old)
    /\ Len(events) - old < Attempts
    /\ events' = Append(SubSeq(events, old + 1, Len(events)), clock)
    /\ admitted' = Append(admitted, clock)
    /\ IF BodyPasses(length) THEN Route ELSE UNCHANGED thread
    /\ UNCHANGED <<clock, authEvents, authAdmitted, shared>>

-----------------------------------------------------------------------------
(* SlidingWindowRateLimiter.allow in a thread. *)

Goes(t, step) == thread' = [thread EXCEPT ![t].step = step]

Inside == {t \in Threads : thread[t].step \notin {"idle", "clock"}}

ReadClock(t) ==
    /\ thread[t].step = "clock"
    /\ thread' = [thread EXCEPT ![t] = [step |-> "test", now |-> clock]]
    /\ shared' = (shared \/ Inside # {})
    /\ UNCHANGED <<clock, events, authEvents, admitted, authAdmitted>>

\* while events and events[0] <= cutoff
TestHead(t) ==
    /\ thread[t].step = "test"
    /\ IF authEvents # <<>> /\ Head(authEvents) <= thread[t].now - AuthWindow
       THEN Goes(t, "pop") ELSE Goes(t, "count")
    /\ UNCHANGED <<clock, events, authEvents, admitted, authAdmitted, shared>>

\* Another thread may have popped the head that was tested; on an empty deque popleft
\* raises, and the request ends in an error.
PopHead(t) ==
    /\ thread[t].step = "pop"
    /\ IF authEvents = <<>>
       THEN thread' = [thread EXCEPT ![t] = Idle] /\ UNCHANGED authEvents
       ELSE Goes(t, "test") /\ authEvents' = Tail(authEvents)
    /\ UNCHANGED <<clock, events, admitted, authAdmitted, shared>>

\* Fault: one more than the limit.
OpenAtLimit == Len(authEvents) <= AuthAttempts

HasRoom == Len(authEvents) < AuthAttempts

Count(t) ==
    /\ thread[t].step = "count"
    /\ IF HasRoom THEN Goes(t, "append") ELSE thread' = [thread EXCEPT ![t] = Idle]
    /\ UNCHANGED <<clock, events, authEvents, admitted, authAdmitted, shared>>

Record(t) ==
    /\ thread[t].step = "append"
    /\ authEvents' = Append(authEvents, thread[t].now)
    /\ authAdmitted' = Append(authAdmitted, thread[t].now)
    /\ thread' = [thread EXCEPT ![t] = Idle]
    /\ UNCHANGED <<clock, events, admitted, shared>>

LimitNext ==
    \/ Tick
    \/ \E old \in 0..Len(events) : Refuse(old)
    \/ \E old \in 0..Len(events), length \in Lengths : Admit(old, length)
    \/ \E t \in Threads : ReadClock(t) \/ TestHead(t) \/ PopHead(t) \/ Count(t) \/ Record(t)

LimitSpec == LimitInit /\ [][LimitNext]_limits

-----------------------------------------------------------------------------
(* Properties. *)

LimitTypeOK ==
    /\ clock \in 0..MaxNow
    /\ events \in Seq(0..MaxNow) /\ authEvents \in Seq(0..MaxNow)
    /\ thread \in [Threads -> [step : Steps, now : 0..MaxNow]]
    /\ Len(events) <= Attempts

\* Between an admission and the one `Attempts` later at least a window passes: no window,
\* wherever it begins, holds more than the limit ("Allows at most `attempts` events per
\* `window_seconds` for each key").
WindowHolds ==
    \A i \in 1..(Len(admitted) - Attempts) : admitted[i + Attempts] >= admitted[i] + Window

\* A client is refused only if it was let in `Attempts` times in the last window: what has
\* been refused or has expired does not keep it out (SlidingWindowRateLimiter.allow).
RefusalsAreDue ==
    (\E old \in 0..Len(events) : Pops(old) /\ Len(events) - old >= Attempts) =>
        Cardinality({i \in DOMAIN admitted : admitted[i] > clock - Window}) >= Attempts

\* "Allows at most `attempts` events per `window_seconds` for each key", of the limiter of
\* the authentication routes.  Nothing locks its deque: threads that count it before either
\* appends are both let in, and one that pops after another has popped the head it tested
\* takes away an event that still counts (enforce_auth_rate_limit).
AuthLimit ==
    \A i \in 1..(Len(authAdmitted) - AuthAttempts) :
        authAdmitted[i + AuthAttempts] >= authAdmitted[i] + AuthWindow

\* The authentication limiter keeps its limit as long as no two threads have been in it at
\* the same time (SlidingWindowRateLimiter.allow).
AuthHoldsUnshared == ~shared => AuthLimit
=============================================================================
