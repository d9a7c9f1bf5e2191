---------------------------- MODULE MCAccountParts ----------------------------
(***************************************************************************)
(* Two payments that may name one order, each of 2.  Validations, keys and *)
(* the calls that change keys or concern payments are interchangeable.     *)
(* Two chats and two adjustments share an idempotency key, and one chat    *)
(* has none.                                                               *)
(***************************************************************************)
EXTENDS AccountParts, TLC

CONSTANTS b1, b2, b3, j1, j2, i1

Two == [p \in Payments |-> 2]

Interchangeable ==
  Permutations(Validations) \cup Permutations(KeyCalls) \cup Permutations(Keys)
  \cup Permutations(Calls)

SharedKey == [c \in Billed |-> IF c = b3 THEN NoKey ELSE i1]
Prices    == [c \in Billed |-> IF c = j2 THEN -1 ELSE 2]
===============================================================================
