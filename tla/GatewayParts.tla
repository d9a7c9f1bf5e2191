------------------------------ MODULE GatewayParts -----------------------------
(***************************************************************************)
(* Four parts of the gateway that share no state and call none of each     *)
(* other: the batch writer, the health monitor, the retry loop and the     *)
(* sweep of the providers' balances.  A behaviour runs one of them and     *)
(* leaves the others as they begin, which loses nothing and saves TLC the  *)
(* product of their states.                                                *)
(***************************************************************************)
EXTENDS BatchWriter, HealthMonitor, RetryLoop, ProviderBalances

VARIABLE part  \* which of them runs

vars == <<part, batchVars, healthVars, retryVars, balanceVars>>

Init ==
  /\ part \in {"batch", "health", "retry", "balances"}
  /\ BatchInit /\ HealthInit /\ RetryInit /\ BalanceInit
  /\ part # "retry" => ~streams  \* a part that does not run begins in one way
  /\ part # "balances" => \A a \in Providers : redisBalance[a] = "none"

Runs(p) ==
  /\ part = p
  /\ UNCHANGED part
  /\ p # "batch" => UNCHANGED batchVars
  /\ p # "health" => UNCHANGED healthVars
  /\ p # "retry" => UNCHANGED retryVars
  /\ p # "balances" => UNCHANGED balanceVars

Next ==
  \/ Runs("batch") /\ BatchNext
  \/ Runs("health") /\ HealthNext
  \/ Runs("retry") /\ RetryNext
  \/ Runs("balances") /\ BalanceNext

Spec == Init /\ [][Next]_vars

(* Goroutines that can run do, a ticker ticks, and calls to the upstream   *)
(* or a provider and to SelectAccount return (they have timeouts).         *)
FairSpec ==
  /\ Spec
  /\ \A r \in Records : WF_vars(Runs("batch") /\ Submitting(r))
  /\ \A f \in Flushers : WF_vars(Runs("batch") /\ Flushing(f))
  /\ WF_vars(Runs("batch") /\ Tick)
  /\ WF_vars(Runs("retry") /\ Attempting) /\ WF_vars(Runs("retry") /\ Answering)
  /\ \A j \in Jobs : WF_vars(Runs("balances") /\ Working(j))
  /\ WF_vars(Runs("balances") /\ SweepReturns)
-------------------------------------------------------------------------------
PartsTypeOK == BatchTypeOK /\ HealthTypeOK /\ RetryTypeOK /\ BalancesTypeOK

(* Every request comes to an end and answers its client, also when the     *)
(* client hangs up between two attempts or every account fails.            *)
RequestEnds == part = "retry" ~> client # "nothing"
===============================================================================
