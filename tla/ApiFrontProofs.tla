----------------------------- MODULE ApiFrontProofs -----------------------------
(***************************************************************************)
(* Proofs about ApiFront: its types, what a shutdown does to requests and  *)
(* what the limiters let through, for any number of instances, requests    *)
(* and crashes, any limits, window and timeout.                            *)
(***************************************************************************)
EXTENDS ApiFrontProperties, TLAPS

USE ConstantsAssumption

\* Once server.close has called back, no connection comes.
ClosedIsEmpty == \A i \in Instances : state[i] = "closing" => Connected(i) = {}

SInv == TypeOK /\ ClosedIsEmpty

LEMMA InitOK == Init => SInv
<1> SUFFICES ASSUME Init PROVE SInv
  OBVIOUS
<1>1. \A i \in Instances : On(i) = {}
  BY DEF Init, On
<1>2. TypeOK
  BY <1>1 DEF Init, TypeOK, States, None, Ages
<1> QED BY <1>2 DEF Init, SInv, ClosedIsEmpty

-----------------------------------------------------------------------------
(* What the steps keep *)

\* A step that starts no request on an instance and leaves its state alone.
LEMMA EmptyStays ==
  ASSUME SInv, UNCHANGED state,
         \A i \in Instances : /\ On(i)' \subseteq On(i)
                              /\ Connected(i)' \subseteq Connected(i)
  PROVE  /\ \A i \in Instances : state'[i] \in {"down", "starting"} => On(i)' = {}
         /\ ClosedIsEmpty'
BY DEF SInv, TypeOK, ClosedIsEmpty

LEMMA CountTypes ==
  ASSUME TypeOK, NEW l, NEW n \in Nat, CountHits(l, n)
  PROVE  hits' \in [Limiters -> Nat] /\ age' \in [Limiters -> Ages]
<1>1. CASE l \in Limiters
  <2>1. hits[l] + n \in Nat /\ Max[l] + 1 \in Nat /\ 0 \in Ages
    BY <1>1 DEF TypeOK, Ages
  <2> QED BY <1>1, <2>1 DEF TypeOK, CountHits
<1>2. CASE l \notin Limiters
  BY <1>2 DEF TypeOK, CountHits
<1> QED BY <1>1, <1>2

LEMMA ArriveStep ==
  ASSUME SInv, NEW q \in Requests, NEW i \in Instances, NEW route \in Routes, Arrive(q, i, route)
  PROVE  SInv'
<1>1. request' \in [Requests -> Request \cup {None}]
  BY DEF SInv, TypeOK, Arrive, Request
<1>2. \A j \in Instances : j # i => On(j)' \subseteq On(j) /\ Connected(j)' \subseteq Connected(j)
  BY DEF SInv, TypeOK, Arrive, On, Connected
<1>3. state[i] \in {"up", "draining"} /\ UNCHANGED state
  BY DEF Arrive, instances
<1>4. \A j \in Instances : state[j] \in {"down", "starting"} => On(j)' = {}
  BY <1>2, <1>3 DEF SInv, TypeOK
<1>5. ClosedIsEmpty'
  BY <1>2, <1>3 DEF SInv, ClosedIsEmpty
<1>6. TypeOK'
  BY <1>1, <1>3, <1>4 DEF SInv, TypeOK, Arrive, instances, redis
<1> QED BY <1>5, <1>6 DEF SInv

\* What becomes of a request under way: it ends, or goes on where it is.
MovesOn(q) ==
  \E r \in Request \cup {None} :
    /\ request' = [request EXCEPT ![q] = r]
    /\ r # None => r.on = request[q].on /\ request[q].at # "orphan"

LEMMA RequestStep ==
  ASSUME SInv, NEW q \in Requests, request[q] # None, MovesOn(q)
  PROVE  /\ request' \in [Requests -> Request \cup {None}]
         /\ \A i \in Instances : On(i)' \subseteq On(i) /\ Connected(i)' \subseteq Connected(i)
<1>1. PICK r \in Request \cup {None} :
        /\ request' = [request EXCEPT ![q] = r]
        /\ r # None => r.on = request[q].on /\ request[q].at # "orphan"
  BY DEF MovesOn
<1>2. request \in [Requests -> Request \cup {None}]
  BY DEF SInv, TypeOK
<1>3. request'[q] = r /\ \A p \in Requests : p # q => request'[p] = request[p]
  BY <1>1, <1>2
<1> QED BY <1>1, <1>2, <1>3 DEF On, Connected

\* The limiter, the handler and the client.
LEMMA UnderWayStep ==
  ASSUME SInv, NEW q \in Requests,
         Limit(q) \/ LimitFails(q) \/ Serve(q) \/ Hang(q) \/ Abandon(q)
  PROVE  SInv'
<1>1. /\ request[q] # None /\ request[q] \in Request
      /\ UNCHANGED <<state, draining, crashes>>
  BY DEF SInv, TypeOK, Limit, LimitFails, Serve, Hang, Abandon, None, instances
<1>2. MovesOn(q)
  <2>1. CASE Leave(q)
    BY <2>1 DEF Leave, MovesOn
  <2>2. CASE Pass(q) /\ request[q].at = "limiting"
    <3>1. CASE request[q].step + 1 \in DOMAIN LimitersOf(request[q].route)
      <4> DEFINE r == [request[q] EXCEPT !.step = request[q].step + 1]
      <4>1. request[q].step + 1 \in 1 .. 2
        BY <1>1, <3>1 DEF LimitersOf, Request
      <4>2. r \in Request /\ r.on = request[q].on
        BY <1>1, <4>1 DEF Request
      <4>3. request' = [request EXCEPT ![q] = r]
        BY <2>2, <3>1 DEF SInv, TypeOK, Pass
      <4> HIDE DEF r
      <4> QED BY <2>2, <4>2, <4>3 DEF MovesOn
    <3>2. CASE request[q].step + 1 \notin DOMAIN LimitersOf(request[q].route)
      <4> DEFINE r == [request[q] EXCEPT !.at = "working"]
      <4>1. r \in Request /\ r.on = request[q].on
        BY <1>1 DEF Request
      <4>2. request' = [request EXCEPT ![q] = r]
        BY <2>2, <3>2 DEF SInv, TypeOK, Pass
      <4> HIDE DEF r
      <4> QED BY <2>2, <4>1, <4>2 DEF MovesOn
    <3> QED BY <3>1, <3>2
  <2>3. ASSUME NEW a \in {"hung", "orphan"}, request[q].at = "working",
               request' = [request EXCEPT ![q].at = a]
        PROVE  MovesOn(q)
    <3> DEFINE r == [request[q] EXCEPT !.at = a]
    <3>1. r \in Request /\ r.on = request[q].on
      BY <1>1 DEF Request
    <3>2. request' = [request EXCEPT ![q] = r]
      BY <2>3 DEF SInv, TypeOK
    <3> HIDE DEF r
    <3> QED BY <2>3, <3>1, <3>2 DEF MovesOn
  <2> QED BY <2>1, <2>2, <2>3 DEF Limit, LimitFails, Serve, Hang, Abandon
<1>3. /\ request' \in [Requests -> Request \cup {None}]
      /\ \A i \in Instances : On(i)' \subseteq On(i) /\ Connected(i)' \subseteq Connected(i)
  BY <1>1, <1>2, RequestStep
<1>4. hits' \in [Limiters -> Nat] /\ age' \in [Limiters -> Ages]
  <2>1. UNCHANGED redis \/ \E n \in Nat : CountHits(Limiter(q), n)
    <3>1. 1 .. 2 \subseteq Nat /\ {1} \subseteq Nat
      OBVIOUS
    <3> QED BY <3>1 DEF Limit, LimitFails, Serve, Hang, Abandon
  <2> QED BY <2>1, CountTypes DEF SInv, TypeOK, redis
<1>5. passed' \in [Limiters -> [Ages -> Nat]]
  <2> DEFINE p == [a \in Ages |-> passed[Limiter(q)][a] + 1]
  <2>1. UNCHANGED passed \/ passed' = [passed EXCEPT ![Limiter(q)] = p]
    BY DEF Limit, LimitFails, Serve, Hang, Abandon, Pass
  <2>2. Limiter(q) \in Limiters => p \in [Ages -> Nat]
    BY DEF SInv, TypeOK
  <2> HIDE DEF p
  <2> QED BY <2>1, <2>2 DEF SInv, TypeOK
<1> QED BY <1>1, <1>3, <1>4, <1>5, EmptyStays DEF SInv, TypeOK

-----------------------------------------------------------------------------
(* Instances *)

\* A process that ends takes its requests along.
LEMMA DownStep ==
  ASSUME SInv, NEW i \in Instances, Down(i), crashes' \in 0 .. MaxCrashes
  PROVE  SInv'
<1>1. /\ state' \in [Instances -> States] /\ draining' \in [Instances -> 0 .. ForceAfter]
      /\ request' \in [Requests -> Request \cup {None}] /\ UNCHANGED <<hits, age, passed>>
  BY DEF SInv, TypeOK, Down, States, redis
<1>2. state'[i] = "down" /\ \A j \in Instances : j # i => state'[j] = state[j]
  BY DEF SInv, TypeOK, Down
<1>3. /\ On(i)' = {}
      /\ \A j \in Instances : On(j)' \subseteq On(j) /\ Connected(j)' \subseteq Connected(j)
  BY DEF SInv, TypeOK, Down, On, Connected
<1>4. \A j \in Instances : state'[j] \in {"down", "starting"} => On(j)' = {}
  BY <1>2, <1>3 DEF SInv, TypeOK
<1>5. ClosedIsEmpty'
  BY <1>2, <1>3 DEF SInv, ClosedIsEmpty
<1> QED BY <1>1, <1>4, <1>5 DEF SInv, TypeOK

LEMMA InstanceStep ==
  ASSUME SInv, NEW i \in Instances,
         \/ Start(i) \/ Listen(i) \/ StartFails(i) \/ Shutdown(i)
         \/ Closed(i) \/ Exit(i) \/ ForceExit(i) \/ Crash(i)
  PROVE  SInv'
<1>1. CASE StartFails(i) \/ Exit(i) \/ ForceExit(i) \/ Crash(i)
  <2>1. Down(i) /\ crashes' \in 0 .. MaxCrashes
    BY <1>1 DEF SInv, TypeOK, StartFails, Exit, ForceExit, Crash
  <2> QED BY <2>1, DownStep
<1>2. CASE Start(i) \/ Listen(i) \/ Shutdown(i) \/ Closed(i)
  <2>1. /\ state' \in [Instances -> States]
        /\ UNCHANGED <<draining, request, hits, age, passed, crashes>>
        /\ \A j \in Instances : j # i => state'[j] = state[j]
        /\ state'[i] = "starting" => state[i] = "down"
        /\ state'[i] # "down"
        /\ state'[i] = "closing" => Connected(i) = {}
    BY <1>2 DEF SInv, TypeOK, States, Start, Listen, Shutdown, Closed, redis
  <2>2. \A j \in Instances : On(j)' = On(j) /\ Connected(j)' = Connected(j)
    BY <2>1 DEF On, Connected
  <2>3. \A j \in Instances : state'[j] \in {"down", "starting"} => On(j)' = {}
    BY <2>1, <2>2 DEF SInv, TypeOK
  <2>4. ClosedIsEmpty'
    BY <2>1, <2>2 DEF SInv, ClosedIsEmpty
  <2> QED BY <2>1, <2>3, <2>4 DEF SInv, TypeOK
<1> QED BY <1>1, <1>2

LEMMA TickStep == SInv /\ Tick => SInv'
<1> SUFFICES ASSUME SInv, Tick PROVE SInv'
  OBVIOUS
<1>1. UNCHANGED <<state, request, crashes>>
  BY DEF Tick
<1>2. \A i \in Instances : On(i)' = On(i) /\ Connected(i)' = Connected(i)
  BY <1>1 DEF On, Connected
<1>3. draining' \in [Instances -> 0 .. ForceAfter]
  BY DEF SInv, TypeOK, Tick
<1>4. hits' \in [Limiters -> Nat]
  BY DEF SInv, TypeOK, Tick
<1>5. age' \in [Limiters -> Ages]
  BY DEF SInv, TypeOK, Tick, RunsOut, Ages
<1>6. passed' \in [Limiters -> [Ages -> Nat]]
  <2>1. \A a \in Ages : a # 0 => a - 1 \in Ages
    BY DEF Ages
  <2> QED BY <2>1 DEF SInv, TypeOK, Tick
<1> QED BY <1>1, <1>2, <1>3, <1>4, <1>5, <1>6 DEF SInv, TypeOK, ClosedIsEmpty

LEMMA NextStep == SInv /\ [Next]_vars => SInv'
<1> SUFFICES ASSUME SInv, [Next]_vars PROVE SInv'
  OBVIOUS
<1>1. CASE Next
  BY <1>1, ArriveStep, UnderWayStep, InstanceStep, TickStep DEF Next
<1>2. CASE UNCHANGED vars
  <2>1. \A i \in Instances : On(i)' = On(i) /\ Connected(i)' = Connected(i)
    BY <1>2 DEF vars, On, Connected
  <2> QED BY <1>2, <2>1 DEF vars, instances, redis, SInv, TypeOK, ClosedIsEmpty
<1> QED BY <1>1, <1>2

-----------------------------------------------------------------------------
(* What the limiters let through *)

\* The counts add up with age.  While a counter lives, it has counted what its limiter
\* let through since its window began, and what went before is at most one window's
\* worth; when it is gone, at most one window's worth has not aged out.
WindowOK(l) ==
  /\ \A a, b \in Ages : a <= b => passed[l][a] <= passed[l][b]
  /\ hits[l] = 0 => passed[l][0] = 0 /\ passed[l][Window - 1] <= Max[l]
  /\ hits[l] # 0 => /\ passed[l][age[l]] <= hits[l]
                    /\ passed[l][age[l]] <= Max[l]
                    /\ passed[l][Window - 1] <= Max[l] + passed[l][age[l]]

WInv == \A l \in Limiters : WindowOK(l)

LEMMA AgesAre == 0 \in Ages /\ Window - 1 \in Ages /\ Ages \subseteq Nat
BY DEF Ages

LEMMA WindowSame ==
  ASSUME NEW l \in Limiters, WindowOK(l),
         hits'[l] = hits[l], age'[l] = age[l], passed'[l] = passed[l]
  PROVE  WindowOK(l)'
BY DEF WindowOK

\* A hit is counted before the request is let through, and only then.
LEMMA WindowCounts ==
  ASSUME TypeOK, NEW l \in Limiters, WindowOK(l), NEW n \in Nat \ {0}, CountHits(l, n),
         \/ UNCHANGED passed
         \/ /\ hits[l] + n <= Max[l]
            /\ passed' = [passed EXCEPT ![l] = [a \in Ages |-> passed[l][a] + 1]]
  PROVE  WindowOK(l)'
<1> DEFINE h == hits[l]
           m == Max[l]
           p == passed[l]
           g == age[l]
<1>1. h \in Nat /\ m \in Nat \ {0} /\ p \in [Ages -> Nat] /\ g \in Ages
  BY DEF TypeOK
<1>2. /\ hits'[l] = IF h + n <= m THEN h + n ELSE m + 1
      /\ age'[l] = IF h = 0 THEN 0 ELSE g
  BY DEF TypeOK, CountHits
<1>3. \/ passed'[l] = p
      \/ h + n <= m /\ passed'[l] = [a \in Ages |-> p[a] + 1]
  BY DEF TypeOK
<1>4. /\ \A a, b \in Ages : a <= b => p[a] <= p[b]
      /\ h = 0 => p[0] = 0 /\ p[Window - 1] <= m
      /\ h # 0 => p[g] <= h /\ p[g] <= m /\ p[Window - 1] <= m + p[g]
  BY DEF WindowOK
<1> HIDE DEF h, m, p, g
<1>5. hits'[l] \in Nat \ {0} /\ (h + n <= m => hits'[l] = h + n)
      /\ (~ (h + n <= m) => hits'[l] = m + 1)
  BY <1>1, <1>2
<1>6. age'[l] \in Ages /\ (h = 0 => age'[l] = 0) /\ (h # 0 => age'[l] = g)
  BY <1>1, <1>2, AgesAre
<1>7. CASE passed'[l] = p
  <2>1. p[age'[l]] <= hits'[l] /\ p[age'[l]] <= m /\ p[Window - 1] <= m + p[age'[l]]
    BY <1>1, <1>4, <1>5, <1>6, AgesAre
  <2> QED BY <1>4, <1>5, <1>7, <2>1 DEF WindowOK, m
<1>8. CASE h + n <= m /\ passed'[l] = [a \in Ages |-> p[a] + 1]
  <2>1. \A a \in Ages : passed'[l][a] = p[a] + 1 /\ p[a] \in Nat
    BY <1>1, <1>8
  <2>2. \A a, b \in Ages : a <= b => passed'[l][a] <= passed'[l][b]
    BY <1>4, <2>1
  <2>3. p[age'[l]] <= h /\ p[Window - 1] <= m + p[age'[l]]
    BY <1>1, <1>4, <1>6, AgesAre
  <2>4. /\ passed'[l][age'[l]] <= hits'[l] /\ passed'[l][age'[l]] <= m
        /\ passed'[l][Window - 1] <= m + passed'[l][age'[l]]
    BY <1>1, <1>5, <1>6, <1>8, <2>1, <2>3, AgesAre
  <2> QED BY <1>5, <2>2, <2>4 DEF WindowOK, m
<1> QED BY <1>3, <1>7, <1>8

LEMMA LimitWindows ==
  ASSUME TypeOK, WInv, NEW q \in Requests, Limit(q) \/ LimitFails(q)
  PROVE  WInv'
<1> DEFINE l == Limiter(q)
<1>1. \/ UNCHANGED <<hits, age, passed>>
      \/ \E n \in Nat \ {0} :
           /\ CountHits(l, n)
           /\ \/ UNCHANGED passed
              \/ /\ hits[l] + n <= Max[l]
                 /\ passed' = [passed EXCEPT ![l] = [a \in Ages |-> passed[l][a] + 1]]
  <2>1. CASE Limit(q)
    <3>1. PICK n \in IF RedisMayFail THEN 1 .. 2 ELSE {1} :
            /\ CountHits(l, n)
            /\ IF hits[l] + n <= Max[l] THEN Pass(q) ELSE Leave(q) /\ UNCHANGED passed
      BY <2>1 DEF Limit
    <3>2. n \in Nat \ {0}
      OBVIOUS
    <3> QED BY <3>1, <3>2 DEF Pass
  <2>2. CASE LimitFails(q)
    BY <2>2 DEF LimitFails, redis
  <2> QED BY <2>1, <2>2
<1> HIDE DEF l
<1>2. CASE UNCHANGED <<hits, age, passed>>
  BY <1>2, WindowSame DEF WInv
<1>3. ASSUME NEW n \in Nat \ {0}, CountHits(l, n),
             \/ UNCHANGED passed
             \/ /\ hits[l] + n <= Max[l]
                /\ passed' = [passed EXCEPT ![l] = [a \in Ages |-> passed[l][a] + 1]]
      PROVE  WInv'
  <2> SUFFICES ASSUME NEW k \in Limiters PROVE WindowOK(k)'
    BY DEF WInv
  <2>1. WindowOK(k)
    BY DEF WInv
  <2>2. CASE k # l
    <3>1. hits'[k] = hits[k] /\ age'[k] = age[k] /\ passed'[k] = passed[k]
      BY <1>3, <2>2 DEF TypeOK, CountHits
    <3> QED BY <2>1, <3>1, WindowSame
  <2>3. CASE k = l
    <3>1. /\ CountHits(k, n)
          /\ \/ UNCHANGED passed
             \/ /\ hits[k] + n <= Max[k]
                /\ passed' = [passed EXCEPT ![k] = [a \in Ages |-> passed[k][a] + 1]]
      BY <1>3, <2>3 DEF CountHits
    <3> QED BY <2>1, <3>1, WindowCounts
  <2> QED BY <2>2, <2>3
<1> QED BY <1>1, <1>2, <1>3

\* A tick ages the counts; a counter runs out when its window is over.
LEMMA TickWindows == TypeOK /\ WInv /\ Tick => WInv'
<1> SUFFICES ASSUME TypeOK, WInv, Tick, NEW l \in Limiters PROVE WindowOK(l)'
  BY DEF WInv
<1> DEFINE h == hits[l]
           m == Max[l]
           p == passed[l]
           g == age[l]
           r == passed'[l]
<1>1. h \in Nat /\ m \in Nat \ {0} /\ p \in [Ages -> Nat] /\ g \in Ages
  BY DEF TypeOK
<1>2. /\ hits'[l] = IF g + 1 >= Window THEN 0 ELSE h
      /\ age'[l] = IF h = 0 \/ g + 1 >= Window THEN 0 ELSE g + 1
      /\ r = [a \in Ages |-> IF a = 0 THEN 0 ELSE p[a - 1]]
  BY DEF Tick, RunsOut
<1>3. /\ \A a, b \in Ages : a <= b => p[a] <= p[b]
      /\ h = 0 => p[0] = 0 /\ p[Window - 1] <= m
      /\ h # 0 => p[g] <= h /\ p[g] <= m /\ p[Window - 1] <= m + p[g]
  BY DEF WInv, WindowOK
<1> HIDE DEF h, m, p, g, r
<1>4. r[0] = 0 /\ \A a \in Ages : a # 0 => a - 1 \in Ages /\ r[a] = p[a - 1] /\ r[a] \in Nat
  BY <1>1, <1>2 DEF Ages
<1>5. \A a, b \in Ages : a <= b => r[a] <= r[b]
  <2> SUFFICES ASSUME NEW a \in Ages, NEW b \in Ages, a <= b PROVE r[a] <= r[b]
    OBVIOUS
  <2>1. a \in Nat /\ b \in Nat /\ a - 1 <= b - 1
    BY DEF Ages
  <2>2. CASE a = 0
    BY <1>4, <2>1, <2>2
  <2>3. CASE a # 0
    BY <1>3, <1>4, <2>1, <2>3
  <2> QED BY <2>2, <2>3
<1>6. r[Window - 1] <= p[Window - 1]
  <2>1. CASE Window - 1 = 0
    BY <1>1, <1>4, <2>1, AgesAre
  <2>2. CASE Window - 1 # 0
    <3>1. Window - 1 - 1 \in Ages /\ Window - 1 - 1 <= Window - 1
      BY <2>2 DEF Ages
    <3>2. r[Window - 1] = p[Window - 1 - 1]
      BY <1>4, <2>2, AgesAre
    <3> QED BY <1>3, <3>1, <3>2, AgesAre
  <2> QED BY <2>1, <2>2
<1>7. r[Window - 1] \in Nat /\ p[Window - 1] \in Nat
  BY <1>1, <1>4, AgesAre
<1>8. CASE hits'[l] = 0
  <2>1. p[Window - 1] <= m
    <3>1. CASE h = 0
      BY <1>3, <3>1
    <3>2. CASE h # 0
      <4>1. g = Window - 1
        BY <1>1, <1>2, <1>8, <3>2 DEF Ages
      <4> QED BY <1>3, <3>2, <4>1
    <3> QED BY <3>1, <3>2
  <2>2. r[Window - 1] <= m
    BY <1>1, <1>6, <1>7, <2>1
  <2> QED BY <1>4, <1>5, <1>8, <2>2 DEF WindowOK, m, r
<1>9. CASE hits'[l] # 0
  <2>1. h # 0 /\ hits'[l] = h /\ g + 1 < Window /\ age'[l] = g + 1
    BY <1>1, <1>2, <1>9 DEF Ages
  <2>2. g + 1 \in Ages /\ r[g + 1] = p[g] /\ p[g] \in Nat
    BY <1>1, <1>4, <2>1 DEF Ages
  <2>3. r[Window - 1] <= m + r[g + 1]
    BY <1>1, <1>3, <1>6, <1>7, <2>1, <2>2
  <2> QED BY <1>3, <1>5, <1>9, <2>1, <2>2, <2>3 DEF WindowOK, m, r
<1> QED BY <1>8, <1>9

LEMMA InitWindows == Init => WInv
<1> SUFFICES ASSUME Init, NEW l \in Limiters PROVE WindowOK(l)
  BY DEF WInv
<1>1. hits[l] = 0 /\ \A a \in Ages : passed[l][a] = 0
  BY DEF Init
<1> QED BY <1>1, AgesAre DEF WindowOK

LEMMA NextWindows == TypeOK /\ WInv /\ [Next]_vars => WInv'
<1> SUFFICES ASSUME TypeOK, WInv, [Next]_vars PROVE WInv'
  OBVIOUS
<1>1. CASE UNCHANGED <<hits, age, passed>>
  BY <1>1, WindowSame DEF WInv
<1>2. CASE UNCHANGED vars
  BY <1>1, <1>2 DEF vars, redis
<1>3. ASSUME NEW q \in Requests, NEW i \in Instances, NEW route \in Routes, Arrive(q, i, route)
      PROVE  WInv'
  BY <1>1, <1>3 DEF Arrive, redis
<1>4. ASSUME NEW q \in Requests, Serve(q) \/ Hang(q) \/ Abandon(q)
      PROVE  WInv'
  BY <1>1, <1>4 DEF Serve, Hang, Abandon, redis
<1>5. ASSUME NEW i \in Instances,
             \/ Start(i) \/ Listen(i) \/ StartFails(i) \/ Shutdown(i)
             \/ Closed(i) \/ Exit(i) \/ ForceExit(i) \/ Crash(i)
      PROVE  WInv'
  BY <1>1, <1>5 DEF Start, Listen, StartFails, Shutdown, Closed, Exit, ForceExit, Crash, Down, redis
<1> QED BY <1>2, <1>3, <1>4, <1>5, LimitWindows, TickWindows DEF Next

-----------------------------------------------------------------------------
(* Theorems *)

THEOREM Invariance == Spec => []SInv
BY InitOK, NextStep, PTL DEF Spec

\* Every variable keeps its type, and only instances that listened have requests.
THEOREM TypeCorrect == Spec => []TypeOK
<1>1. SInv => TypeOK
  BY DEF SInv
<1> QED BY <1>1, Invariance, PTL

\* shutdown: unless it crashes or its ten seconds are over, a process that ends leaves
\* no connected client without an answer, whatever arrives while it drains.
THEOREM NobodyIsCut == Spec => ShutdownCutsNobody
<1> DEFINE A == \A i \in Instances :
                  state[i] # "down" /\ state'[i] = "down" /\ crashes' = crashes =>
                    Connected(i) = {} \/ draining[i] = ForceAfter
<1>1. SInv /\ [Next]_vars => [A]_vars
  <2> SUFFICES ASSUME SInv, Next, NEW i \in Instances,
                      state[i] # "down", state'[i] = "down", crashes' = crashes
               PROVE  Connected(i) = {} \/ draining[i] = ForceAfter
    OBVIOUS
  <2>1. state # state'
    OBVIOUS
  <2>2. PICK j \in Instances :
          \/ Start(j) \/ Listen(j) \/ StartFails(j) \/ Shutdown(j)
          \/ Closed(j) \/ Exit(j) \/ ForceExit(j) \/ Crash(j)
    BY <2>1 DEF Next, Arrive, Limit, LimitFails, Serve, Hang, Abandon, Tick, instances
  <2>3. j = i /\ (StartFails(i) \/ Exit(i) \/ ForceExit(i))
    BY <2>2 DEF SInv, TypeOK, Start, Listen, Shutdown, Closed, StartFails, Exit, ForceExit, Crash, Down
  <2>4. CASE StartFails(i)
    <3>1. On(i) = {}
      BY <2>4 DEF SInv, TypeOK, StartFails
    <3> QED BY <3>1 DEF Connected
  <2>5. CASE Exit(i)
    BY <2>5 DEF SInv, ClosedIsEmpty, Exit
  <2>6. CASE ForceExit(i)
    BY <2>6 DEF ForceExit, ForceDue
  <2> QED BY <2>3, <2>4, <2>5, <2>6
<1>2. [][A]_vars => ShutdownCutsNobody
  BY DEF ShutdownCutsNobody
<1> HIDE DEF A
<1> QED BY <1>1, <1>2, Invariance, PTL DEF Spec

THEOREM Windows == Spec => []WInv
<1>1. SInv => TypeOK
  BY DEF SInv
<1> QED BY <1>1, InitWindows, NextWindows, Invariance, PTL DEF Spec

\* rateLimiter: in the window its counter stands for, a limiter lets at most Max requests
\* through, whatever instances start or die and whatever commands are sent again.
THEOREM LimitsHold == Spec => []LimitHolds
<1>1. WInv => LimitHolds
  BY DEF WInv, WindowOK, LimitHolds
<1> QED BY <1>1, Windows, PTL

\* rateLimiter: windows are fixed, and in a window's time, wherever it begins, a limiter
\* lets at most twice Max requests through.
THEOREM TwiceTheLimit == Spec => []TwiceTheLimitAtMost
<1>1. TypeOK /\ WInv => TwiceTheLimitAtMost
  <2> SUFFICES ASSUME TypeOK, WInv, NEW l \in Limiters
               PROVE  passed[l][Window - 1] <= 2 * Max[l]
    BY DEF TwiceTheLimitAtMost
  <2>1. passed[l] \in [Ages -> Nat] /\ age[l] \in Ages /\ Max[l] \in Nat
    BY DEF TypeOK
  <2>2. passed[l][Window - 1] \in Nat /\ passed[l][age[l]] \in Nat
    BY <2>1, AgesAre
  <2> QED BY <2>1, <2>2 DEF WInv, WindowOK
<1> QED BY <1>1, Windows, TypeCorrect, PTL
=============================================================================
