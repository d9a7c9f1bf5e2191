------------------------------ MODULE RouterRules -----------------------------
(***************************************************************************)
(* Router rules (router_service.go): the table router_rules, the list of   *)
(* active rules that one process caches without a lock, evaluations of     *)
(* requests against it, and calls that change the table, through the       *)
(* service (which clears the cache) or through the administrator's handler *)
(* and its repository (which do not).                                      *)
(***************************************************************************)
EXTENDS Integers, Sequences, FiniteSets

CONSTANTS
  MaxRules,      \* bounds the ids that are given out
  Drafts,        \* rules as they may be sent: records without an id
  FirstRules,    \* the drafts the table starts with, by id
  ImportData,    \* the drafts of an import
  RouteRequests, \* requests: a model and a platform, which may be ""
  Mentions,      \* for each model, the platforms whose names are in its name
  Hours,         \* hours of the day at which a rule may be matched
  Evaluations,   \* calls of EvaluateRules
  RuleCalls,     \* calls that change the table
  NoRules,       \* a nil cache
  NoRule,        \* no row, no decision
  NotAList,      \* a condition of another type than a list
  Unset          \* a field that an action does not have, or that is not sent

RuleIDs == 1..MaxRules

(* The rules that requests, the first migration and an import write.       *)
AllDrafts ==
  Drafts \cup {FirstRules[i] : i \in DOMAIN FirstRules} \cup {ImportData[k] : k \in DOMAIN ImportData}

(* RouterRuleCreate.                                                       *)
DraftRecords ==
  [priority : Int, condition : {d.condition : d \in AllDrafts},
   action : {d.action : d \in AllDrafts}, active : BOOLEAN]

(* Those with the id the table gives them.                                 *)
RuleRows ==
  [id : RuleIDs, priority : Int, condition : {d.condition : d \in AllDrafts},
   action : {d.action : d \in AllDrafts}, active : BOOLEAN]

ASSUME RuleAssumption ==
  /\ MaxRules \in Nat /\ DOMAIN FirstRules \subseteq RuleIDs
  /\ AllDrafts \subseteq DraftRecords /\ ImportData \in Seq(AllDrafts)
  /\ NoRules \notin Seq(RuleRows)

VARIABLES
  rules,       \* the table
  lastRule,    \* the last id that was given out
  rulesCache,  \* NoRules, or the rules of a query
  fresh,       \* whether cacheTime is less than five minutes ago
  eval,        \* where an evaluation is, and the rules it holds
  current,     \* history: no row changed since the evaluation ran its query
  quiet,       \* history: nothing disturbed the evaluation since it began
  behind,      \* history: the cache was passed by, or filled late
  ruleCall     \* where another call is

ruleVars == <<rules, lastRule, rulesCache, fresh, eval, current, quiet, behind, ruleCall>>

EvalPCs == {"idle", "returning", "querying", "storing", "stamping", "matching", "decided", "failed"}
CallPCs == {"idle", "found", "importing", "written", "clearing", "done"}

Row(id, d) == [id |-> id, priority |-> d.priority, condition |-> d.condition,
               action |-> d.action, active |-> d.active]

Rows == {rules[i] : i \in {j \in RuleIDs : rules[j] # NoRule}}

ActiveRows == {r \in Rows : r.active}

(* Lists of a set of rows by priority; rows of one priority come in any order. *)
ByPriority(S) ==
  {l \in [1..Cardinality(S) -> S] :
     \A i, k \in 1..Cardinality(S) : i < k => l[i] # l[k] /\ l[i].priority >= l[k].priority}
-------------------------------------------------------------------------------
(* A definition named after a mistake is a mutant that PROJECT.json lists. *)
RuleInit ==
  /\ rules = [i \in RuleIDs |-> IF i \in DOMAIN FirstRules THEN Row(i, FirstRules[i]) ELSE NoRule]
  /\ lastRule = Cardinality(DOMAIN FirstRules)
  /\ rulesCache = NoRules
  /\ fresh = FALSE
  /\ eval = [e \in Evaluations |-> [pc |-> "idle", list |-> <<>>, decision |-> NoRule]]
  /\ current = [e \in Evaluations |-> TRUE]
  /\ quiet = [e \in Evaluations |-> TRUE]
  /\ behind = FALSE
  /\ ruleCall = [c \in RuleCalls |-> [pc |-> "idle", by |-> "service", rule |-> 0, left |-> <<>>]]

(* A list that is missing, empty or of another type restricts nothing. *)
Allows(list, x) == list = NotAList \/ list = {} \/ x \in list

(* hours is a pair, or Unset: from the first hour until before the second. *)
matchTimeRange(hours, h) == hours = Unset \/ (hours[1] <= h /\ h < hours[2])

(* user_ids and days are lists like platforms, and left out. *)
matchRule(r, req, h) ==
  /\ r.condition # Unset
  /\ Allows(r.condition.models, req.model)
  /\ Allows(r.condition.platforms, req.platform)
  /\ matchTimeRange(r.condition.hours, h)

(* The group, account, multiplier and limits of an action are copied like  *)
(* its platform, and left out.                                             *)
parseAction(r, req) ==
  LET a == r.action
      Or(x, y) == IF a = Unset \/ x = Unset THEN y ELSE x
  IN [rule     |-> r.id,
      platform |-> IF a = Unset THEN req.platform ELSE Or(a.platform, req.platform),
      model    |-> IF a = Unset THEN req.model
                   ELSE IF req.model \in DOMAIN a.mapping THEN a.mapping[req.model]
                   ELSE Or(a.model, req.model)]

inferPlatform(m) ==
  IF "claude" \in Mentions[m] THEN "claude"
  ELSE IF "openai" \in Mentions[m] THEN "openai"
  ELSE IF "gemini" \in Mentions[m] THEN "gemini" ELSE "claude"

getDefaultRoute(req) ==
  [rule     |-> 0,
   platform |-> IF req.platform = "" THEN inferPlatform(req.model) ELSE req.platform,
   model    |-> req.model]

EvaluateLast(list, req, h) ==
  LET hits == {i \in DOMAIN list : matchRule(list[i], req, h)}
  IN IF hits = {} THEN getDefaultRoute(req)
     ELSE parseAction(list[CHOOSE i \in hits : \A k \in hits : k <= i], req)

(* The first rule of the list that matches decides. *)
EvaluateRules(list, req, h) ==
  LET hits == {i \in DOMAIN list : matchRule(list[i], req, h)}
  IN IF hits = {} THEN getDefaultRoute(req)
     ELSE parseAction(list[CHOOSE i \in hits : \A k \in hits : i <= k], req)

(* AddRule alone asks for it. *)
validateRule(d) ==
  /\ d.condition # Unset => d.condition.models # NotAList /\ d.condition.platforms # NotAList
-------------------------------------------------------------------------------
Pending == {c \in RuleCalls : ruleCall[c].pc \in {"importing", "written"}}

(* GetActiveRules *)
CheckRulesCache(e) ==
  /\ eval[e].pc = "idle"
  /\ eval' = [eval EXCEPT ![e].pc = IF rulesCache # NoRules /\ fresh THEN "returning" ELSE "querying"]
  /\ quiet' = [quiet EXCEPT ![e] = Pending = {} /\ ~behind]
  /\ UNCHANGED <<rules, lastRule, rulesCache, fresh, current, behind, ruleCall>>

Length(list) == IF list = NoRules THEN 0 ELSE Len(list)

(* A slice header is read while another goroutine writes it: the pointer   *)
(* of one value and the length of the other.  An index past the end, or a  *)
(* nil pointer with a length, is a panic.                                  *)
Headers ==
  {rulesCache} \cup {eval[x].list : x \in {y \in Evaluations : eval[y].pc = "storing"}}
               \cup {NoRules : c \in Pending}

(* The cache is read a second time: it may be nil by now. *)
ReturnCache(e) ==
  /\ eval[e].pc = "returning"
  /\ \E p, l \in Headers :
       /\ rulesCache \in {p, l}
       /\ eval' = IF Length(l) > Length(p) THEN [eval EXCEPT ![e].pc = "failed"]
                  ELSE [eval EXCEPT ![e].pc = "matching",
                                    ![e].list = IF Length(l) = 0 THEN <<>> ELSE SubSeq(p, 1, Length(l))]
  /\ quiet' = [quiet EXCEPT ![e] = @ /\ \A x \in Evaluations : eval[x].pc = "storing" => current[x]]
  /\ UNCHANGED <<rules, lastRule, rulesCache, fresh, current, behind, ruleCall>>

QueryRules(e) ==
  /\ eval[e].pc = "querying"
  /\ \E l \in ByPriority(ActiveRows) : eval' = [eval EXCEPT ![e].pc = "storing", ![e].list = l]
  /\ current' = [current EXCEPT ![e] = TRUE]
  /\ UNCHANGED <<rules, lastRule, rulesCache, fresh, quiet, behind, ruleCall>>

QueryRulesFails(e) ==
  /\ eval[e].pc = "querying"
  /\ eval' = [eval EXCEPT ![e].pc = "failed"]
  /\ UNCHANGED <<rules, lastRule, rulesCache, fresh, current, quiet, behind, ruleCall>>

StoreRules(e) ==
  /\ eval[e].pc = "storing"
  /\ rulesCache' = eval[e].list
  /\ eval' = [eval EXCEPT ![e].pc = "stamping"]
  /\ behind' = ~current[e]
  /\ quiet' = [x \in Evaluations |-> quiet[x] /\ (x = e \/ current[e])]
  /\ UNCHANGED <<rules, lastRule, fresh, current, ruleCall>>

StampRules(e) ==
  /\ eval[e].pc = "stamping"
  /\ fresh' = TRUE
  /\ eval' = [eval EXCEPT ![e].pc = "matching"]
  /\ UNCHANGED <<rules, lastRule, rulesCache, current, quiet, behind, ruleCall>>

Decide(e, req, h) ==
  /\ eval[e].pc = "matching"
  /\ eval' = [eval EXCEPT ![e].pc = "decided", ![e].list = <<>>,
                          ![e].decision = [request |-> req, hour |-> h,
                                           route |-> EvaluateRules(eval[e].list, req, h)]]
  /\ UNCHANGED <<rules, lastRule, rulesCache, fresh, current, quiet, behind, ruleCall>>

(* Five minutes after cacheTime. *)
RulesExpire ==
  /\ fresh
  /\ fresh' = FALSE
  /\ UNCHANGED <<rules, lastRule, rulesCache, eval, current, quiet, behind, ruleCall>>
-------------------------------------------------------------------------------
(* A write of the table by the service or by the handler. *)
Write(new, by) ==
  /\ rules' = new
  /\ current' = [e \in Evaluations |-> FALSE]
  /\ quiet' = [e \in Evaluations |-> FALSE]
  /\ behind' = (behind \/ (by = "handler" /\ rulesCache # NoRules))
  /\ UNCHANGED <<rulesCache, fresh, eval>>

(* The whole of it: the service's calls go on to clear the cache. *)
Change(c, new, by) ==
  /\ Write(new, by)
  /\ ruleCall' = [ruleCall EXCEPT ![c].pc = IF by = "service" THEN "written" ELSE "done"]

Insert(d) == [rules EXCEPT ![lastRule + 1] = Row(lastRule + 1, d)]

Insertable == lastRule < MaxRules

AddRule(c, d) ==
  /\ ruleCall[c].pc = "idle" /\ Insertable
  /\ validateRule(d)
  /\ Change(c, Insert(d), "service")
  /\ lastRule' = lastRule + 1

(* The handler's Create validates nothing. *)
CreateRule(c, d) ==
  /\ ruleCall[c].pc = "idle" /\ Insertable
  /\ Change(c, Insert(d), "handler")
  /\ lastRule' = lastRule + 1

(* DeleteRule, EnableRule and DisableRule of the service. *)
DeleteRule(c, i) ==
  /\ ruleCall[c].pc = "idle" /\ rules[i] # NoRule
  /\ Change(c, [rules EXCEPT ![i] = NoRule], "service")
  /\ UNCHANGED lastRule

SetRuleActiveUncleared(c, i, on) ==
  /\ ruleCall[c].pc = "idle" /\ rules[i] # NoRule
  /\ Write([rules EXCEPT ![i].active = on], "service")
  /\ ruleCall' = [ruleCall EXCEPT ![c].pc = "done"]
  /\ UNCHANGED lastRule

SetRuleActive(c, i, on) ==
  /\ ruleCall[c].pc = "idle" /\ rules[i] # NoRule
  /\ Change(c, [rules EXCEPT ![i].active = on], "service")
  /\ UNCHANGED lastRule

(* One transaction: the further to the front, the higher the priority. *)
ReorderRules(c, order) ==
  /\ ruleCall[c].pc = "idle"
  /\ \A k \in DOMAIN order : rules[order[k]] # NoRule
  /\ Change(c, [i \in RuleIDs |->
                  IF \E k \in DOMAIN order : order[k] = i
                  THEN [rules[i] EXCEPT !.priority =
                          Len(order) + 1 - (CHOOSE k \in DOMAIN order : order[k] = i)]
                  ELSE rules[i]], "service")
  /\ UNCHANGED lastRule

(* UpdateRule of the service, Update and Delete of the handler, first read *)
(* the row, to refuse a rule that is not there.                            *)
FindRule(c, i, by) ==
  /\ ruleCall[c].pc = "idle" /\ rules[i] # NoRule
  /\ ruleCall' = [ruleCall EXCEPT ![c] = [pc |-> "found", by |-> by, rule |-> i, left |-> <<>>]]
  /\ UNCHANGED <<rules, lastRule, rulesCache, fresh, eval, current, quiet, behind>>

(* The fields that are set: not a nil condition or action, and not, by the *)
(* handler, a priority of 0.                                               *)
SentFields(F, d, by) ==
  {f \in F : d[f] # Unset /\ ~(f = "priority" /\ d[f] = 0 /\ by = "handler")}

UpdateRule(c, F, d) ==
  /\ ruleCall[c].pc = "found" /\ rules[ruleCall[c].rule] # NoRule
  /\ LET by == ruleCall[c].by
         i  == ruleCall[c].rule
     IN Change(c, [rules EXCEPT ![i] = [f \in DOMAIN @ |->
                     IF f \in SentFields(F, d, by) THEN d[f] ELSE @[f]]],
               by)
  /\ UNCHANGED lastRule

HandlerDelete(c) ==
  /\ ruleCall[c].pc = "found" /\ ruleCall[c].by = "handler"
  /\ rules[ruleCall[c].rule] # NoRule
  /\ Change(c, [rules EXCEPT ![ruleCall[c].rule] = NoRule], "handler")
  /\ UNCHANGED lastRule

RuleIsGone(c) ==
  /\ ruleCall[c].pc = "found" /\ rules[ruleCall[c].rule] = NoRule
  /\ ruleCall' = [ruleCall EXCEPT ![c].pc = "done"]
  /\ UNCHANGED <<rules, lastRule, rulesCache, fresh, eval, current, quiet, behind>>

(* ImportRules deletes everything if it is to overwrite, and then inserts  *)
(* one rule after the other, outside a transaction.                        *)
ImportRules(c, overwrite) ==
  /\ ruleCall[c].pc = "idle"
  /\ Write(IF overwrite THEN [i \in RuleIDs |-> NoRule] ELSE rules, "service")
  /\ ruleCall' = [ruleCall EXCEPT ![c].pc = IF ImportData = <<>> THEN "written" ELSE "importing",
                                  ![c].left = ImportData]
  /\ UNCHANGED lastRule

ImportNext(c) ==
  ruleCall' = [ruleCall EXCEPT ![c].left = Tail(@),
                               ![c].pc = IF Len(ruleCall[c].left) = 1 THEN "written" ELSE @]

ImportRule(c) ==
  /\ ruleCall[c].pc = "importing" /\ Insertable
  /\ Write(Insert(Head(ruleCall[c].left)), "service")
  /\ lastRule' = lastRule + 1
  /\ ImportNext(c)

(* An insert that fails is logged, and the import goes on. *)
ImportRuleFails(c) ==
  /\ ruleCall[c].pc = "importing"
  /\ ImportNext(c)
  /\ UNCHANGED <<rules, lastRule, rulesCache, fresh, eval, current, quiet, behind>>

(* invalidateCache writes the list and then its time. *)
ClearRules(c) ==
  /\ ruleCall[c].pc = "written"
  /\ rulesCache' = NoRules
  /\ behind' = FALSE
  /\ ruleCall' = [ruleCall EXCEPT ![c].pc = "clearing"]
  /\ UNCHANGED <<rules, lastRule, fresh, eval, current, quiet>>

ClearTime(c) ==
  /\ ruleCall[c].pc = "clearing"
  /\ fresh' = FALSE
  /\ ruleCall' = [ruleCall EXCEPT ![c].pc = "done"]
  /\ UNCHANGED <<rules, lastRule, rulesCache, eval, current, quiet, behind>>

Evaluating(e) ==
  \/ CheckRulesCache(e) \/ ReturnCache(e) \/ QueryRules(e) \/ QueryRulesFails(e)
  \/ StoreRules(e) \/ StampRules(e)
  \/ \E req \in RouteRequests, h \in Hours : Decide(e, req, h)

ChangingRules(c) ==
  \/ \E d \in Drafts : AddRule(c, d) \/ CreateRule(c, d)
  \/ \E i \in RuleIDs : \/ DeleteRule(c, i)
                          \/ \E on \in BOOLEAN : SetRuleActive(c, i, on)
                          \/ \E by \in {"service", "handler"} : FindRule(c, i, by)
                          \/ \E k \in RuleIDs \ {i} : ReorderRules(c, <<i, k>>)
  \/ \E d \in Drafts, F \in SUBSET {"priority", "condition", "action", "active"} : UpdateRule(c, F, d)
  \/ HandlerDelete(c) \/ RuleIsGone(c)
  \/ \E overwrite \in BOOLEAN : ImportRules(c, overwrite)
  \/ ImportRule(c) \/ ImportRuleFails(c) \/ ClearRules(c) \/ ClearTime(c)

RuleNext ==
  \/ \E e \in Evaluations : Evaluating(e)
  \/ \E c \in RuleCalls : ChangingRules(c)
  \/ RulesExpire

RuleSpec == RuleInit /\ [][RuleNext]_ruleVars
-------------------------------------------------------------------------------
RuleTypeOK ==
  /\ \A i \in RuleIDs : rules[i] # NoRule => rules[i].id = i
  /\ lastRule \in 0..MaxRules
  /\ fresh \in BOOLEAN /\ behind \in BOOLEAN
  /\ \A e \in Evaluations : eval[e].pc \in EvalPCs
  /\ current \in [Evaluations -> BOOLEAN] /\ quiet \in [Evaluations -> BOOLEAN]
  /\ \A c \in RuleCalls : ruleCall[c].pc \in CallPCs

(* A request is routed by the table as it is: by an active rule that        *)
(* matches it and that no other one precedes, and by default only if there  *)
(* is none.  The evaluation may have used the cache, begun just after a     *)
(* change, or run beside one that filled the cache; it is not held to the   *)
(* table when that changed meanwhile, when the handler changed it past the  *)
(* cache, or when a fill stored what an earlier table held.                 *)
RoutesByTable ==
  \A e \in Evaluations : eval[e].pc = "decided" /\ quiet[e] =>
    LET d == eval[e].decision
        best == {r \in ActiveRows : matchRule(r, d.request, d.hour)}
    IN IF best = {} THEN d.route = getDefaultRoute(d.request)
       ELSE \E r \in best : /\ d.route = parseAction(r, d.request)
                            /\ \A o \in best : o.priority <= r.priority
===============================================================================
