------------------------------ MODULE RateLimiter ------------------------------
(***************************************************************************)
(* The sliding-window limiter of the gateway routes (rate_limiter.go), for *)
(* one client address: a Lua script, which Redis runs as one step, keeps a *)
(* sorted set of requests and their times, and the middleware decides by   *)
(* the count that the script returns.                                      *)
(*                                                                         *)
(* A member of the set is named by the nanosecond of its arrival: the      *)
(* middleware asks its context for "X-Request-ID", which nothing sets      *)
(* (the id that a client may choose is kept there as "request_id"), and    *)
(* takes the clock instead.  Arrivals are taken to differ in it.           *)
(***************************************************************************)
EXTENDS Integers, FiniteSets

CONSTANTS
  Arrivals,       \* requests
  WindowSeconds,  \* 60 by default
  MaxRequests,    \* 100 by default
  LastSecond      \* bounds the clock

ASSUME LimiterAssumption ==
  /\ IsFiniteSet(Arrivals)
  /\ WindowSeconds \in Nat \ {0} /\ MaxRequests \in Nat \ {0} /\ LastSecond \in Nat

VARIABLES
  failMode,  \* what becomes of requests while Redis fails
  second,    \* the clock
  zset,      \* the sorted set: requests with the time they were added
  verdict,   \* what became of a request
  decided    \* history: when its script ran

limiterVars == <<failMode, second, zset, verdict, decided>>

Verdicts == {"new", "passed", "refused", "waved", "unavailable"}
-------------------------------------------------------------------------------
(* A definition named after a mistake is a mutant that PROJECT.json lists. *)
LimiterInit ==
  /\ failMode \in {"fail_open", "fail_close"}
  /\ second = 0
  /\ zset = {}
  /\ verdict = [q \in Arrivals |-> "new"]
  /\ decided = [q \in Arrivals |-> 0]

(* ZREMRANGEBYSCORE: what is a window old, or more, is removed. *)
InWindow(set) == {e \in set : e.at > second - WindowSeconds}

HasRoom(set) == Cardinality(set) < MaxRequests

(* The script adds the request when there is room, and returns the count.  *)
(* The middleware refuses a count above the maximum.                       *)
Limit(q) ==
  /\ verdict[q] = "new"
  /\ zset' = IF HasRoom(InWindow(zset)) THEN InWindow(zset) \cup {[request |-> q, at |-> second]}
                                        ELSE InWindow(zset)
  /\ verdict' = [verdict EXCEPT ![q] = IF Cardinality(zset') > MaxRequests THEN "refused"
                                                                         ELSE "passed"]
  /\ decided' = [decided EXCEPT ![q] = second]
  /\ UNCHANGED <<failMode, second>>

LimitFails(q) ==
  /\ verdict[q] = "new"
  /\ verdict' = [verdict EXCEPT ![q] = IF failMode = "fail_close" THEN "unavailable" ELSE "waved"]
  /\ UNCHANGED <<failMode, second, zset, decided>>

(* The key expires a window after its last request. *)
KeyExpires ==
  /\ zset # {}
  /\ InWindow(zset) = {}
  /\ zset' = {}
  /\ UNCHANGED <<failMode, second, verdict, decided>>

SecondPasses ==
  /\ second < LastSecond
  /\ second' = second + 1
  /\ UNCHANGED <<failMode, zset, verdict, decided>>

LimiterNext ==
  \/ \E q \in Arrivals : Limit(q) \/ LimitFails(q)
  \/ KeyExpires \/ SecondPasses

LimiterSpec == LimiterInit /\ [][LimiterNext]_limiterVars
-------------------------------------------------------------------------------
LimiterTypeOK ==
  /\ failMode \in {"fail_open", "fail_close"}
  /\ second \in 0..LastSecond
  /\ zset \subseteq [request : Arrivals, at : 0..LastSecond]
  /\ verdict \in [Arrivals -> Verdicts]
  /\ decided \in [Arrivals -> 0..LastSecond]

PassedIn(from) ==
  {q \in Arrivals : verdict[q] = "passed" /\ decided[q] \in from..(from + WindowSeconds - 1)}

(* "the maximum number of requests in the window" (MaxRequests): no window *)
(* passes more of the requests that Redis counted.                         *)
WindowRespected == \A from \in 0..LastSecond : Cardinality(PassedIn(from)) <= MaxRequests
===============================================================================
