-------------------------------- MODULE ApiFront --------------------------------
(***************************************************************************)
(* What every request meets before its handler: the API instances that     *)
(* start, drain and die (server, PM2), and the rate limiters whose         *)
(* counters they share in Redis (app, rateLimiter, the routes).            *)
(*                                                                         *)
(* A handler is one step here.  The counters of different addresses never  *)
(* meet, so there is one client, of any number of connections.  Time is    *)
(* counted in ticks and kept as ages.  PM2, Redis with its append-only     *)
(* file, and the script of rate-limit-redis are external.                  *)
(***************************************************************************)
EXTENDS Naturals

CONSTANTS Instances,    \* processes of the PM2 cluster
          Requests,     \* requests under way at once
          Routes,       \* the routes that are called
          Window,       \* RATE_LIMIT_WINDOW_MS, in ticks
          Max,          \* the requests each limiter lets through
          ForceAfter,   \* the 10 seconds of the forced exit, in ticks
          MaxCrashes,   \* bound on crashes and kills
          RedisMayFail  \* whether Redis may fail or lose a reply

Limiters == {"general", "enquiry", "webhook"}

ASSUME ConstantsAssumption ==
  /\ Routes \subseteq {"enquiry", "property", "webhook", "other", "health"}
  /\ Window \in Nat \ {0}
  /\ Max \in [Limiters -> Nat \ {0}]
  /\ ForceAfter \in Nat \ {0}
  /\ MaxCrashes \in Nat
  /\ RedisMayFail \in BOOLEAN

\* The limiters on the way to a route's handler.  /api has the general one; the
\* property routes have it once more, the other reads and the invalidation do not.
LimitersOf(route) ==
  CASE route = "enquiry"  -> <<"general", "enquiry">>
    [] route = "webhook"  -> <<"general", "webhook">>
    [] route = "property" -> <<"general", "general">>
    [] route = "other"    -> <<"general">>
    [] route = "health"   -> <<>>

States == {"down", "starting", "up", "draining", "closing"}

\* at: the limiter it stands at is the step-th; working; its handler was rejected
\* and nobody answers (idempotency.ts); or its client is gone.
Request == [at : {"limiting", "working", "hung", "orphan"}, on : Instances,
            route : Routes, step : 1 .. 2]
None == [at |-> "none"]

VARIABLES state,    \* of each instance
          draining, \* ticks since its SIGTERM
          request,  \* what becomes of each request
          hits,     \* Redis: the counter of each limiter; 0: there is none
          age,      \* Redis: ticks since the counter's window began
          passed,   \* requests each limiter let through in the last a + 1 ticks (for the properties)
          crashes   \* so far

redis == <<hits, age>>
instances == <<state, draining>>
vars == <<instances, request, redis, passed, crashes>>

Ages == 0 .. Window - 1

Init ==
  /\ state = [i \in Instances |-> "down"]
  /\ draining = [i \in Instances |-> 0]
  /\ request = [q \in Requests |-> None]
  /\ hits = [l \in Limiters |-> 0]
  /\ age = [l \in Limiters |-> 0]
  /\ passed = [l \in Limiters |-> [a \in Ages |-> 0]]
  /\ crashes = 0

-----------------------------------------------------------------------------
(* A request *)

Limiter(q) == LimitersOf(request[q].route)[request[q].step]

Leave(q) == request' = [request EXCEPT ![q] = None]

\* FAULT: the server listens before the database is verified.
ArriveEarly(q, i, route) ==
  /\ request[q] = None
  /\ state[i] \in {"starting", "up", "draining"}
  /\ request' = [request EXCEPT ![q] =
       [at |-> "working", on |-> i, route |-> route, step |-> 1]]
  /\ UNCHANGED <<instances, redis, passed, crashes>>

\* A draining instance still serves the connections that are open.
Arrive(q, i, route) ==
  /\ request[q] = None
  /\ state[i] \in {"up", "draining"}
  /\ request' = [request EXCEPT ![q] =
       [at |-> IF LimitersOf(route) = <<>> THEN "working" ELSE "limiting",
        on |-> i, route |-> route, step |-> 1]]
  /\ UNCHANGED <<instances, redis, passed, crashes>>

\* INCR, and PEXPIRE for the first hit.  More than Max + 1 hits are like Max + 1.
CountHits(l, n) ==
  /\ hits' = [hits EXCEPT ![l] = IF @ + n <= Max[l] THEN @ + n ELSE Max[l] + 1]
  /\ age' = [age EXCEPT ![l] = IF hits[l] = 0 THEN 0 ELSE @]

Pass(q) ==
  /\ request' = IF request[q].step + 1 \in DOMAIN LimitersOf(request[q].route)
                THEN [request EXCEPT ![q].step = @ + 1]
                ELSE [request EXCEPT ![q].at = "working"]
  /\ passed' = [passed EXCEPT ![Limiter(q)] = [a \in Ages |-> passed[Limiter(q)][a] + 1]]

\* The limiter's middleware: one hit, or two when Redis's reply was lost and the
\* command was sent again; then the handler or a 429.
Limit(q) ==
  /\ request[q].at = "limiting"
  /\ \E n \in IF RedisMayFail THEN 1 .. 2 ELSE {1} :
       /\ CountHits(Limiter(q), n)
       /\ IF hits[Limiter(q)] + n <= Max[Limiter(q)]
          THEN Pass(q)
          ELSE Leave(q) /\ UNCHANGED passed
  /\ UNCHANGED <<instances, crashes>>

\* A store error is answered with 500; the hit may have been counted.
LimitFails(q) ==
  /\ RedisMayFail
  /\ request[q].at = "limiting"
  /\ \E n \in 0 .. 1 :
       IF n = 0 THEN UNCHANGED redis ELSE CountHits(Limiter(q), 1)
  /\ Leave(q)
  /\ UNCHANGED <<instances, passed, crashes>>

\* The handler ends; nobody hears it when the client is gone.
Serve(q) ==
  /\ request[q].at \in {"working", "orphan"}
  /\ Leave(q)
  /\ UNCHANGED <<instances, redis, passed, crashes>>

Hang(q) ==
  /\ request[q].at = "working"
  /\ request[q].route = "enquiry"
  /\ request' = [request EXCEPT ![q].at = "hung"]
  /\ UNCHANGED <<instances, redis, passed, crashes>>

\* The client closes the connection; the handler goes on.
Abandon(q) ==
  /\ request[q].at \in {"working", "hung"}
  /\ IF request[q].at = "hung" THEN Leave(q)
     ELSE request' = [request EXCEPT ![q].at = "orphan"]
  /\ UNCHANGED <<instances, redis, passed, crashes>>

-----------------------------------------------------------------------------
(* An instance *)

On(i) == {q \in Requests : request[q] # None /\ request[q].on = i}

\* The requests whose connection server.close waits for.
Connected(i) == {q \in On(i) : request[q].at # "orphan"}

Down(i) ==
  /\ state' = [state EXCEPT ![i] = "down"]
  /\ draining' = [draining EXCEPT ![i] = 0]
  /\ request' = [q \in Requests |-> IF q \in On(i) THEN None ELSE request[q]]
  /\ UNCHANGED <<redis, passed>>

\* FAULT: the counters are in the memory of the processes.
StartCounting(i) ==
  /\ state[i] = "down"
  /\ state' = [state EXCEPT ![i] = "starting"]
  /\ hits' = [l \in Limiters |-> 0]
  /\ UNCHANGED <<draining, request, age, passed, crashes>>

\* PM2 or Docker starts the process.
Start(i) ==
  /\ state[i] = "down"
  /\ state' = [state EXCEPT ![i] = "starting"]
  /\ UNCHANGED <<draining, request, redis, passed, crashes>>

\* verifyDbConnection succeeds, and the server listens ...
Listen(i) ==
  /\ state[i] = "starting"
  /\ state' = [state EXCEPT ![i] = "up"]
  /\ UNCHANGED <<draining, request, redis, passed, crashes>>

\* ... or it fails, and the process exits, as on a signal nobody handles yet.
StartFails(i) ==
  /\ state[i] = "starting"
  /\ Down(i)
  /\ UNCHANGED crashes

\* SIGTERM or SIGINT; a second one only adds another callback.
Shutdown(i) ==
  /\ state[i] = "up"
  /\ state' = [state EXCEPT ![i] = "draining"]
  /\ UNCHANGED <<draining, request, redis, passed, crashes>>

\* FAULT: pool.end is not called from server.close's callback but after it.
ClosedAtOnce(i) ==
  /\ state[i] = "draining"
  /\ state' = [state EXCEPT ![i] = "closing"]
  /\ UNCHANGED <<draining, request, redis, passed, crashes>>

\* server.close calls back: no connection is left.
Closed(i) ==
  /\ state[i] = "draining"
  /\ Connected(i) = {}
  /\ state' = [state EXCEPT ![i] = "closing"]
  /\ UNCHANGED <<draining, request, redis, passed, crashes>>

\* pool.end is over, and process.exit takes the handlers of gone clients along.
Exit(i) ==
  /\ state[i] = "closing"
  /\ Down(i)
  /\ UNCHANGED crashes

\* FAULT: there is no timer.
NeverForced(i) == FALSE

ForceDue(i) == state[i] \in {"draining", "closing"} /\ draining[i] = ForceAfter

ForceExit(i) ==
  /\ ForceDue(i)
  /\ Down(i)
  /\ UNCHANGED crashes

\* An uncaught exception, an OOM kill, or a SIGKILL of PM2, Docker or the host,
\* during a shutdown too.
Crash(i) ==
  /\ crashes < MaxCrashes
  /\ state[i] # "down"
  /\ Down(i)
  /\ crashes' = crashes + 1

-----------------------------------------------------------------------------
(* Time *)

RunsOut(l) == age[l] + 1 >= Window

Tick ==
  /\ \A i \in Instances : ~ForceDue(i)
  /\ draining' = [i \in Instances |->
       IF state[i] \in {"draining", "closing"} /\ draining[i] < ForceAfter
       THEN draining[i] + 1 ELSE draining[i]]
  /\ hits' = [l \in Limiters |-> IF RunsOut(l) THEN 0 ELSE hits[l]]
  /\ age' = [l \in Limiters |-> IF hits[l] = 0 \/ RunsOut(l) THEN 0 ELSE age[l] + 1]
  /\ passed' = [l \in Limiters |-> [a \in Ages |-> IF a = 0 THEN 0 ELSE passed[l][a - 1]]]
  /\ UNCHANGED <<state, request, crashes>>

Next ==
  \/ \E q \in Requests :
       \/ \E i \in Instances, route \in Routes : Arrive(q, i, route)
       \/ Limit(q)
       \/ LimitFails(q)
       \/ Serve(q)
       \/ Hang(q)
       \/ Abandon(q)
  \/ \E i \in Instances :
       \/ Start(i)
       \/ Listen(i)
       \/ StartFails(i)
       \/ Shutdown(i)
       \/ Closed(i)
       \/ Exit(i)
       \/ ForceExit(i)
       \/ Crash(i)
  \/ Tick

Spec == Init /\ [][Next]_vars

\* Time passes and the timer fires.  Nothing is asked of handlers, clients, the
\* pool or PM2.
Fairness == WF_vars(Tick) /\ \A i \in Instances : WF_vars(ForceExit(i))

FairSpec == Spec /\ Fairness
=============================================================================
