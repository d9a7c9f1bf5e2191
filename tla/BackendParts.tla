------------------------------ MODULE BackendParts -----------------------------
(***************************************************************************)
(* Seven parts of the Go backend that share no state in what is modelled   *)
(* of them: router rules, sessions, sign-up, the administrators' tables,   *)
(* the gateway handlers, complexity analysis and model aliases.  As in     *)
(* GatewayParts, a behaviour runs one.                                     *)
(***************************************************************************)
EXTENDS RouterRules, Sessions, SignUp, AdminTables, HandlerCalls, Complexity, ModelMapping

VARIABLE part  \* which of them runs

vars == <<part, ruleVars, sessionVars, signUpVars, adminVars, handlerVars, complexityVars,
          mappingVars>>

Init ==
  /\ part \in {"rules", "sessions", "sign_up", "tables", "handlers", "complexity", "mapping"}
  /\ RuleInit /\ SessionInit /\ SignUpInit /\ AdminInit /\ HandlerInit /\ ComplexityInit
  /\ MappingInit
  /\ part # "complexity" => mode = "local"  \* a part that does not run begins in one way

Runs(p) ==
  /\ part = p
  /\ UNCHANGED part
  /\ p # "rules" => UNCHANGED ruleVars
  /\ p # "sessions" => UNCHANGED sessionVars
  /\ p # "sign_up" => UNCHANGED signUpVars
  /\ p # "tables" => UNCHANGED adminVars
  /\ p # "handlers" => UNCHANGED handlerVars
  /\ p # "complexity" => UNCHANGED complexityVars
  /\ p # "mapping" => UNCHANGED mappingVars

Next ==
  \/ Runs("rules") /\ RuleNext
  \/ Runs("sessions") /\ SessionNext
  \/ Runs("sign_up") /\ SignUpNext
  \/ Runs("tables") /\ AdminNext
  \/ Runs("handlers") /\ HandlerNext
  \/ Runs("complexity") /\ ComplexityNext
  \/ Runs("mapping") /\ MappingNext

Spec == Init /\ [][Next]_vars
-------------------------------------------------------------------------------
BackendTypeOK ==
  /\ RuleTypeOK /\ SessionTypeOK /\ SignUpTypeOK /\ AdminTypeOK /\ HandlerTypeOK
  /\ ComplexityTypeOK /\ MappingTypeOK
===============================================================================
