--------------------------- MODULE GatewayEndpoints ---------------------------
(***************************************************************************)
(* What each handler of the two gateway services does with the account     *)
(* service and the billing service, one record per handler:                *)
(*   platform      the platform it asks SelectAccount for;                 *)
(*   sticky        whether it passes the caller's session id;              *)
(*   counted       whether it takes a slot of the account (INCR/DECR);     *)
(*   recordsNet    whether a transport error reaches RecordError;          *)
(*   recordsStatus whether an answer with status >= 400 reaches it;        *)
(*   usage         when a decoded answer is handed to RecordUsage:         *)
(*                 "always", "ifReported" (the upstream reported usage)    *)
(*                 or "never".                                             *)
(* The ten records are the only data the rest of the gateway differs in.   *)
(***************************************************************************)

LOCAL Handler(platform, sticky, counted, recordsStatus, usage) ==
  [platform |-> platform, sticky |-> sticky, counted |-> counted,
   recordsNet |-> counted, recordsStatus |-> recordsStatus, usage |-> usage]

Messages              == Handler("claude", TRUE, TRUE, TRUE, "always")
MessagesStream        == Handler("claude", TRUE, TRUE, TRUE, "always")
CountTokens           == Handler("claude", FALSE, FALSE, FALSE, "never")

ChatCompletions       == Handler("openai", TRUE, TRUE, TRUE, "ifReported")
ChatCompletionsStream == Handler("openai", TRUE, TRUE, TRUE, "ifReported")
Responses             == Handler("openai", TRUE, TRUE, FALSE, "never")
ImagesGenerations     == Handler("openai", TRUE, TRUE, FALSE, "never")
Embeddings            == Handler("openai", TRUE, TRUE, FALSE, "never")
ListModels            == Handler("openai", FALSE, FALSE, FALSE, "never")
GetModel              == Handler("openai", FALSE, FALSE, FALSE, "never")

(* The handlers, by name. *)
Profile ==
  [Messages |-> Messages, MessagesStream |-> MessagesStream,
   CountTokens |-> CountTokens, ChatCompletions |-> ChatCompletions,
   ChatCompletionsStream |-> ChatCompletionsStream, Responses |-> Responses,
   ImagesGenerations |-> ImagesGenerations, Embeddings |-> Embeddings,
   ListModels |-> ListModels, GetModel |-> GetModel]

EndpointNames == DOMAIN Profile
===============================================================================
