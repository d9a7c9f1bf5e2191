----------------------------- MODULE HealthMonitor -----------------------------
(***************************************************************************)
(* The account health monitor (health_monitor.go): the last results of     *)
(* every account in a ring, its success rate, and a health that falls      *)
(* below one threshold and comes back at a higher one.  One mutex makes    *)
(* every operation a step.  Rates are compared as products of integers,    *)
(* thresholds are in tenths.                                               *)
(***************************************************************************)
EXTENDS Integers, Sequences, FiniteSets

CONSTANTS
  Monitored,   \* the accounts
  WindowSize,  \* 100 by default
  Thresholds,  \* what the setters may be given, 0.8 and 0.9 by default
  NoWindow     \* an account the monitor does not know

ASSUME HealthAssumption ==
  /\ WindowSize \in Nat \ {0}
  /\ Thresholds \subseteq 0..10 /\ {8, 9} \subseteq Thresholds
  /\ NoWindow \notin [results : [0..(WindowSize - 1) -> BOOLEAN],
                      index : 0..(WindowSize - 1), count : 0..WindowSize,
                      successes : 0..WindowSize]

VARIABLES
  windows,            \* the ring of an account
  healthyState,       \* the accounts marked healthy, of those with a window
  disableThreshold,
  recoveryThreshold,
  stale,              \* the accounts nobody reported on for 30 minutes
  recent,             \* history: the last WindowSize results since the window began
  retuned             \* history: the accounts not judged since a threshold changed

healthVars == <<windows, healthyState, disableThreshold, recoveryThreshold, stale,
                recent, retuned>>

Slots == 0..(WindowSize - 1)

Window == [results : [Slots -> BOOLEAN], index : Slots, count : 0..WindowSize,
           successes : 0..WindowSize]
-------------------------------------------------------------------------------
(* A definition named after a mistake is a mutant that PROJECT.json lists. *)
HealthInit ==
  /\ windows = [a \in Monitored |-> NoWindow]
  /\ healthyState = {}
  /\ disableThreshold = 8
  /\ recoveryThreshold = 9
  /\ stale = {}
  /\ recent = [a \in Monitored |-> <<>>]
  /\ retuned = {}

NewSlidingWindow ==
  [results |-> [i \in Slots |-> FALSE], index |-> 0, count |-> 0, successes |-> 0]

One(success) == IF success THEN 1 ELSE 0

(* slidingWindow.record: a full ring loses the result it overwrites. *)
Record(w, success) ==
  [results   |-> [w.results EXCEPT ![w.index] = success],
   index     |-> (w.index + 1) % WindowSize,
   count     |-> IF w.count < WindowSize THEN w.count + 1 ELSE w.count,
   successes |-> w.successes + One(success)
                 - (IF w.count < WindowSize THEN 0 ELSE One(w.results[w.index]))]

(* successRate() < t, and 1.0 when nothing is recorded. *)
RateBelow(w, t) == IF w.count = 0 THEN 10 < t ELSE w.successes * 10 < t * w.count

(* Results from the latest one backwards until a success. *)
ConsecutiveFailures(w) ==
  LET Back(i) == (w.index - 1 - i + 2 * WindowSize) % WindowSize
      Failing == {n \in 0..w.count : \A i \in 0..(n - 1) : ~w.results[Back(i)]}
  IN  CHOOSE n \in Failing : \A k \in Failing : k <= n

WindowOf(a) == IF windows[a] = NoWindow THEN NewSlidingWindow ELSE windows[a]
Healthy(a)  == windows[a] = NoWindow \/ a \in healthyState  \* IsHealthy

LastResults(s) == IF Len(s) <= WindowSize THEN s ELSE Tail(s)

JudgedBeforeRecord(a, w) ==
  IF Healthy(a) THEN ~RateBelow(WindowOf(a), disableThreshold)
                ELSE ~RateBelow(WindowOf(a), recoveryThreshold)

(* Healthy until the rate is below disableThreshold, unhealthy until it is *)
(* at least recoveryThreshold.                                             *)
Judged(a, w) ==
  IF Healthy(a) THEN ~RateBelow(w, disableThreshold) ELSE ~RateBelow(w, recoveryThreshold)

RecordResult(a, success) ==
  LET w == Record(WindowOf(a), success)
  IN  /\ windows' = [windows EXCEPT ![a] = w]
      /\ healthyState' = IF Judged(a, w) THEN healthyState \cup {a} ELSE healthyState \ {a}
      /\ stale' = stale \ {a}
      /\ recent' = [recent EXCEPT ![a] = LastResults(Append(@, success))]
      /\ retuned' = retuned \ {a}
      /\ UNCHANGED <<disableThreshold, recoveryThreshold>>

HalfAnHourPasses(a) ==
  /\ windows[a] # NoWindow
  /\ a \notin stale
  /\ stale' = stale \cup {a}
  /\ UNCHANGED <<windows, healthyState, disableThreshold, recoveryThreshold, recent, retuned>>

(* cleanup forgets the accounts that are stale, unhealthy ones too. *)
Cleanup ==
  /\ stale # {}
  /\ windows' = [a \in Monitored |-> IF a \in stale THEN NoWindow ELSE windows[a]]
  /\ healthyState' = healthyState \ stale
  /\ recent' = [a \in Monitored |-> IF a \in stale THEN <<>> ELSE recent[a]]
  /\ retuned' = retuned \ stale
  /\ stale' = {}
  /\ UNCHANGED <<disableThreshold, recoveryThreshold>>

(* The setters judge nobody again. *)
SetThreshold(t) ==
  /\ disableThreshold' = t
  /\ retuned' = Monitored
  /\ UNCHANGED <<windows, healthyState, recoveryThreshold, stale, recent>>

SetRecoveryThreshold(t) ==
  /\ recoveryThreshold' = t
  /\ retuned' = Monitored
  /\ UNCHANGED <<windows, healthyState, disableThreshold, stale, recent>>

HealthNext ==
  \/ \E a \in Monitored : \E success \in BOOLEAN : RecordResult(a, success)
  \/ \E a \in Monitored : HalfAnHourPasses(a)
  \/ Cleanup
  \/ \E t \in Thresholds : SetThreshold(t) \/ SetRecoveryThreshold(t)

HealthSpec == HealthInit /\ [][HealthNext]_healthVars
-------------------------------------------------------------------------------
HealthTypeOK ==
  /\ windows \in [Monitored -> Window \cup {NoWindow}]
  /\ healthyState \subseteq Monitored
  /\ {disableThreshold, recoveryThreshold} \subseteq Thresholds
  /\ stale \subseteq Monitored
  /\ recent \in [Monitored -> Seq(BOOLEAN)]
  /\ retuned \subseteq Monitored

Successes(s) == Cardinality({i \in 1..Len(s) : s[i]})

RecentBelow(s, t) == IF s = <<>> THEN 10 < t ELSE Successes(s) * 10 < t * Len(s)

EndsFailing(s) ==
  LET Failing == {n \in 0..Len(s) : \A i \in 1..Len(s) : i > Len(s) - n => ~s[i]}
  IN  CHOOSE n \in Failing : \A k \in Failing : k <= n

LowerThreshold  == IF disableThreshold < recoveryThreshold THEN disableThreshold
                                                           ELSE recoveryThreshold
HigherThreshold == IF disableThreshold < recoveryThreshold THEN recoveryThreshold
                                                           ELSE disableThreshold

(* What the monitor answers follows the last WindowSize results, whatever  *)
(* the ring has overwritten: the consecutive failures are those the        *)
(* results end with, a healthy account is not below the lower threshold,   *)
(* and an unhealthy one not at the higher, unless a threshold changed      *)
(* since its last result.                                                  *)
HealthFollowsRecent ==
  \A a \in Monitored :
    windows[a] # NoWindow =>
      /\ ConsecutiveFailures(windows[a]) = EndsFailing(recent[a])
      /\ a \in retuned \/ IF Healthy(a) THEN ~RecentBelow(recent[a], LowerThreshold)
                                         ELSE RecentBelow(recent[a], HigherThreshold)
===============================================================================
