--------------------------- MODULE ApiFrontProperties ---------------------------
(***************************************************************************)
(* What ApiFront guarantees.                                               *)
(***************************************************************************)
EXTENDS ApiFront

\* Every variable has its type, and only instances that listened have requests.
TypeOK ==
  /\ state \in [Instances -> States]
  /\ draining \in [Instances -> 0 .. ForceAfter]
  /\ request \in [Requests -> Request \cup {None}]
  /\ hits \in [Limiters -> Nat]
  /\ age \in [Limiters -> Ages]
  /\ passed \in [Limiters -> [Ages -> Nat]]
  /\ crashes \in 0 .. MaxCrashes
  /\ \A i \in Instances : state[i] \in {"down", "starting"} => On(i) = {}

\* "Counters must survive a process restart", and be shared by the cluster
\* (rateLimiter.ts): whatever instances die or start meanwhile, and whatever
\* commands are sent again, a limiter lets at most Max requests through in the
\* window its counter stands for.
LimitHolds ==
  \A l \in Limiters : hits[l] # 0 => passed[l][age[l]] <= Max[l]

\* Windows are fixed, not sliding: around the end of one a client gets through up
\* to twice the limit in a window's time, and never more.
TwiceTheLimitAtMost == \A l \in Limiters : passed[l][Window - 1] <= 2 * Max[l]

\* Shutdown lets requests in flight finish (server.ts): unless the process
\* crashes or the ten seconds are over, an instance that goes down leaves no
\* connected client without an answer.  A process that PM2 kills because it takes
\* too long to close is one that crashes.
ShutdownCutsNobody ==
  [][\A i \in Instances :
       state[i] # "down" /\ state'[i] = "down" /\ crashes' = crashes =>
         Connected(i) = {} \/ draining[i] = ForceAfter]_vars

\* A shutdown ends, though a request hangs, a handler never returns, a client
\* keeps its connection busy or the pool does not close.
ShutdownEnds == \A i \in Instances : state[i] = "draining" ~> state[i] = "down"
=============================================================================
