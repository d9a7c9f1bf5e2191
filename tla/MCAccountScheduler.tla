-------------------------- MODULE MCAccountScheduler --------------------------
(***************************************************************************)
(* Instances of AccountScheduler for TLC: two accounts of one platform, or *)
(* one account of each of two platforms, and two or three requests.        *)
(***************************************************************************)
EXTENDS AccountScheduler, TLC

CONSTANTS a1, a2, t1

ClaudeOnly == [a \in Accounts |-> "claude"]
OpenAIOnly == [a \in Accounts |-> "openai"]
TwoPlatforms == [a \in Accounts |-> IF a = a1 THEN "claude" ELSE "openai"]
NoTiers    == [a \in Accounts |-> {}]
SecondTier == [a \in Accounts |-> IF a = a2 THEN {t1} ELSE {}]

RequestSymmetry == Permutations(Requests)
===============================================================================
