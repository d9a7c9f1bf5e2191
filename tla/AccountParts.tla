------------------------------ MODULE AccountParts -----------------------------
(***************************************************************************)
(* Four parts of a user's account that share no state and call none of     *)
(* each other: payment orders, API keys, the rate limiter and the balance  *)
(* in the Python backend.  As in GatewayParts, a behaviour runs one.       *)
(***************************************************************************)
EXTENDS PaymentOrder, APIKeys, RateLimiter, ChatBilling

VARIABLE part  \* which of them runs

vars == <<part, paymentVars, keyVars, limiterVars, chatVars>>

Init ==
  /\ part \in {"payment", "keys", "limiter", "chat"}
  /\ PaymentInit /\ KeyInit /\ LimiterInit /\ ChatInit
  /\ part # "limiter" => failMode = "fail_open"  \* a part that does not run begins in one way

Runs(p) ==
  /\ part = p
  /\ UNCHANGED part
  /\ p # "payment" => UNCHANGED paymentVars
  /\ p # "keys" => UNCHANGED keyVars
  /\ p # "limiter" => UNCHANGED limiterVars
  /\ p # "chat" => UNCHANGED chatVars

Next ==
  \/ Runs("payment") /\ PaymentNext
  \/ Runs("keys") /\ KeyNext
  \/ Runs("limiter") /\ LimiterNext
  \/ Runs("chat") /\ ChatNext

Spec == Init /\ [][Next]_vars
-------------------------------------------------------------------------------
AccountTypeOK == PaymentTypeOK /\ KeyTypeOK /\ LimiterTypeOK /\ ChatTypeOK
===============================================================================
