----------------------------- MODULE MCBackendParts ----------------------------
(***************************************************************************)
(* The calls of every part are the same three names, which are             *)
(* interchangeable; only one part runs, so they do not meet.  Two rules    *)
(* compete for a request and a third is malformed; the provider wx gives   *)
(* no e-mail and its users get one made up; the model op is recommended    *)
(* and not allowed.                                                        *)
(***************************************************************************)
EXTENDS BackendParts, TLC

CONSTANTS x1, x2, x3, e1, e2, v1,             \* calls
          op, cl, ge, im,                     \* models
          gh, gg, wx, m1, m2, m3, m4, m5, m6,             \* identities and e-mails
          gr1, gr2, ac1, us1,                 \* rows
          q1, q2, q3, hash1, hash2,           \* questions
          l1, l2, l3                          \* aliases

Calls == {x1, x2, x3}

Interchangeable == Permutations(Calls)

Draft(p, c, a, on) == [priority |-> p, condition |-> c, action |-> a, active |-> on]
Always  == [models |-> {}, platforms |-> {}, hours |-> Unset]
OpenAI  == [models |-> {op}, platforms |-> {"openai"}, hours |-> <<0, 1>>]
Broken  == [models |-> NotAList, platforms |-> {}, hours |-> <<1, 0>>]
ToGemini == [platform |-> "gemini", model |-> Unset, mapping |-> <<>>]
TwoRules == <<Draft(1, Always, Unset, TRUE), Draft(2, OpenAI, ToGemini, TRUE)>>
Sent     == {Draft(0, Broken, Unset, TRUE), Draft(3, Always, ToGemini, FALSE)}
Imported == <<Draft(1, OpenAI, ToGemini, TRUE), Draft(2, Unset, ToGemini, TRUE)>>
Routed   == {[model |-> op, platform |-> ""], [model |-> op, platform |-> "openai"]}
Gemini   == [m \in {op} |-> {"gemini"}]

From    == [x \in Identities |-> CASE x = gh -> "github" [] x = gg -> "google" [] OTHER -> "wechat"]
Given   == [x \in Identities |-> CASE x = gh -> {m1} [] x = gg -> {m1, m2} [] OTHER -> {m4}]
MadeUp  == [x \in Identities |-> CASE x = wx -> m3 [] x = gh -> m5 [] OTHER -> m6]

Tables  == [i \in RowIDs |-> CASE i = ac1 -> "accounts" [] i = us1 -> "users" [] OTHER -> "groups"]

Begins  == [m \in Models |-> CASE m = cl -> "claude" [] m = ge -> "gemini" [] OTHER -> "openai"]
Alias   == [m \in Models |-> IF m = op THEN cl ELSE m]

Hash    == [q \in Questions |-> IF q = q3 THEN hash2 ELSE hash1]
Scores  == [q \in Questions |-> CASE q = q1 -> 20 [] q = q2 -> 55 [] OTHER -> 95]
Trust   == [q \in Questions |-> IF q = q3 THEN 85 ELSE 60]
Three   == {[name |-> "economy", threshold |-> 30], [name |-> "standard", threshold |-> 60],
            [name |-> "premium", threshold |-> 90]}
Remote  == {[defaultProfile EXCEPT !.confidence = 90, !.level = "expert"],
            [defaultProfile EXCEPT !.confidence = 40]}

Nothing == <<>>
Chains  == {Nothing, l1 :> l2 @@ l2 :> l3, l1 :> l2 @@ l2 :> l1, l3 :> l1}
Default == l1 :> l3
===============================================================================
