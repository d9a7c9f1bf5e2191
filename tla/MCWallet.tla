------------------------------- MODULE MCWallet -------------------------------
(***************************************************************************)
(* Instances of Wallet.  u1 starts with 3 and pays for requests that cost  *)
(* 2 (a token of a cheap model, raised to the least unit) or 3 (a token of *)
(* the default price); u2 is a user u1 invites.                            *)
(***************************************************************************)
EXTENDS Wallet, TLC

CONSTANTS u1, u2, r1, r2, r3, a1, a2, t1, t2, b1, c1, c2, k1, k2, k3, d1,
          g1, i1, p1, w1, w2, id1, id2, cheap

Three    == [u \in Users |-> IF u = u1 THEN 3 ELSE 0]
PaidByU1 == [x \in Requests \cup Adjustments \cup TopUps \cup Readers |-> u1]
Retried  == [r \in Requests |-> IF r = r3 THEN id2 ELSE id1]
Prices   == [m \in Models |-> 1]
Calls3   == [r \in Requests |->
  CASE r = r1 -> [handler |-> "Messages", model |-> cheap, prompt |-> 0, completion |-> 1]
    [] r = r2 -> [handler |-> "Embeddings", model |-> UnknownModel, prompt |-> 1, completion |-> 0]
    [] OTHER  -> [handler |-> "Responses", model |-> cheap, prompt |-> 1, completion |-> 1]]
Amounts  == [x \in Adjustments \cup TopUps |-> CASE x \in {a1, t2} -> -2 [] x = a2 -> 1 [] OTHER -> 2]
Values   == [c \in Codes |-> IF c = c1 THEN 2 ELSE 3]
ToU1     == [k \in Redemptions |-> u1]
OnCode   == [k \in Redemptions |-> IF k = k3 THEN c2 ELSE c1]
OffCode  == [d \in Disablings |-> c1]
ForUser  == [x \in Calls |-> IF x \in {i1, p1} THEN u2 ELSE u1]
OneEach  == [x \in Recharges |-> 1]
OneOut   == [x \in Transfers |-> 1]
===============================================================================
