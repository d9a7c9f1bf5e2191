------------------------------ MODULE HandlerCalls -----------------------------
(***************************************************************************)
(* A request on its way through the gateway handlers (gateway_handler.go,  *)
(* openai_gateway_handler.go, gemini_gateway_handler.go): which model is   *)
(* asked for, which one the account is selected for, which one the body or *)
(* the address sent upstream names, and what is recorded when the answer   *)
(* has passed.  The attempts of DoRequestWithRetry are in RetryLoop, what  *)
(* becomes of a record in Billing; the services the handlers call through  *)
(* their own interfaces are external.                                      *)
(***************************************************************************)
EXTENDS Integers, FiniteSets

CONSTANTS
  HandlerCalls,   \* requests
  Models,
  Allowed,        \* the models that the key's patterns match
  PlatformOf,     \* the platform the name of each begins with
  Recommended,    \* models that a complexity profile may recommend
  MappingOf,      \* ResolveMapping
  DefaultImage,   \* the model of an image request that names none
  Usages,         \* counts of tokens that an upstream may report
  LocalCount,     \* what the TokenCounter makes of a stream with text
  MaxChunks,      \* bounds the events of a stream
  NoModel,        \* no model is named or recommended
  NoUsage         \* an answer, or an event, without usage

ASSUME HandlerAssumption ==
  /\ Usages \subseteq Nat \ {0} /\ LocalCount \in Nat /\ MaxChunks \in Nat
  /\ Allowed \subseteq Models /\ Recommended \subseteq Models
  /\ DefaultImage \in Models /\ NoModel \notin Models
  /\ NoUsage \notin Nat
  /\ MappingOf \in [Models -> Models] /\ DOMAIN PlatformOf = Models

VARIABLES
  request,   \* where a request is
  records,   \* what was handed to RecordUsage
  reported   \* history: the last usage in what the client was sent, or NoUsage

handlerVars == <<request, records, reported>>

RequestPCs == {"idle", "analyzing", "mapping", "selecting", "sending", "streaming", "reading",
               "recording", "done"}

Streams == {"MessagesStream", "ChatCompletionsStream", "streamGenerateContent"}

(* The handlers that never look for usage in an answer. *)
Blind == {"ChatCompletionsStream", "Responses", "ImageGenerations"}

(* The handlers that record nothing. *)
Unrecorded == {"countTokens", "GetModel", "ListModelsBeta"}

NewRequest ==
  [pc |-> "idle", handler |-> "none", asked |-> NoModel, model |-> NoModel, platform |-> "none",
   served |-> NoModel, tokens |-> 0, chunks |-> 0]
-------------------------------------------------------------------------------
(* A definition named after a mistake is a mutant that PROJECT.json lists. *)
HandlerInit ==
  /\ request = [c \in HandlerCalls |-> NewRequest]
  /\ records = {}
  /\ reported = [c \in HandlerCalls |-> NoUsage]

RequestGoes(c, pc) == request' = [request EXCEPT ![c].pc = pc]

(* A request that is refused for its key, its body or a missing field ends *)
(* without a trace.                                                        *)
Begin(c, handler, asked, model, platform, pc) ==
  /\ request[c].pc = "idle"
  /\ request' = [request EXCEPT ![c] = [@ EXCEPT !.pc = pc, !.handler = handler, !.asked = asked,
                                                 !.model = model, !.platform = platform]]
  /\ UNCHANGED <<records, reported>>

(* The patterns of the key are asked for the model that is named, and not  *)
(* again for one that replaces it.                                         *)
checkModelPermission(m) == m \in Allowed

Messages(c, m, stream) ==
  /\ checkModelPermission(m)
  /\ Begin(c, IF stream THEN "MessagesStream" ELSE "Messages", m, m, "claude", "analyzing")

ChatCompletions(c, m, stream) ==
  /\ checkModelPermission(m)
  /\ Begin(c, IF stream THEN "ChatCompletionsStream" ELSE "ChatCompletions", m, m, "none", "analyzing")

Responses(c, m) ==
  /\ checkModelPermission(m)
  /\ Begin(c, "Responses", m, m, "openai", "selecting")

ImageGenerations(c, m) ==
  LET model == IF m = NoModel THEN DefaultImage ELSE m
  IN /\ checkModelPermission(model)
     /\ Begin(c, "ImageGenerations", m, model, "openai", "selecting")

Embeddings(c, m) ==
  /\ checkModelPermission(m)
  /\ Begin(c, "Embeddings", m, m, "openai", "selecting")

(* An action that is not supported is refused when an account has been     *)
(* selected, which leaves no trace either.                                 *)
ModelAction(c, m, action) ==
  /\ checkModelPermission(m)
  /\ Begin(c, action, m, m, "gemini", "selecting")

(* These two ask for no permission. *)
GetModel(c, m) == Begin(c, "GetModel", m, m, "gemini", "selecting")

ListModelsBeta(c) == Begin(c, "ListModelsBeta", NoModel, NoModel, "gemini", "selecting")

(* The recommendation of AnalyzeWithCache, if there is one, replaces the   *)
(* model unless the client forbids it in a header.                         *)
Recommend(c, r, override) ==
  /\ request[c].pc = "analyzing"
  /\ request' = [request EXCEPT
       ![c].model = IF r # NoModel /\ override THEN r ELSE @,
       ![c].pc = IF request[c].handler \in {"Messages", "MessagesStream"} THEN "selecting" ELSE "mapping"]
  /\ UNCHANGED <<records, reported>>

determineTargetPlatform(m) ==
  IF PlatformOf[m] \in {"claude", "gemini"} THEN PlatformOf[m] ELSE "openai"

ResolveMapping(c) ==
  /\ request[c].pc = "mapping"
  /\ LET m == MappingOf[request[c].model]
     IN request' = [request EXCEPT ![c].model = m, ![c].platform = determineTargetPlatform(m),
                                   ![c].pc = "selecting"]
  /\ UNCHANGED <<records, reported>>

BodyForwarded(c) == request[c].asked

(* The model the upstream sees.  Bodies are forwarded as they came, but    *)
(* for a chat that goes to Claude, which is converted; Gemini's addresses  *)
(* name the model.                                                         *)
UpstreamModel(c) ==
  IF request[c].platform = "claude" /\ request[c].handler \in {"ChatCompletions", "ChatCompletionsStream"}
  THEN request[c].model ELSE request[c].asked

SelectUpstream(c, ok) ==
  /\ request[c].pc = "selecting"
  /\ request' = IF ok THEN [request EXCEPT ![c].pc = "sending", ![c].served = UpstreamModel(c)]
                ELSE [request EXCEPT ![c].pc = "done"]
  /\ UNCHANGED <<records, reported>>

(* An answer of any status is passed on like a good one. *)
DoRequest(c, answered) ==
  /\ request[c].pc = "sending"
  /\ RequestGoes(c, IF ~answered THEN "done"
                    ELSE IF request[c].handler \in Streams THEN "streaming" ELSE "reading")
  /\ UNCHANGED <<records, reported>>

AddStreamEvent(c, u) ==
  /\ request[c].pc = "streaming" /\ request[c].chunks < MaxChunks
  /\ reported' = [reported EXCEPT ![c] = IF u = NoUsage THEN @ ELSE u]
  /\ request' = [request EXCEPT
       ![c].chunks = @ + 1,
       ![c].tokens = IF u = NoUsage \/ request[c].handler \in Blind THEN @ ELSE @ + u]
  /\ UNCHANGED records

(* An event is decoded and sent on; the last usage counts. *)
StreamEvent(c, u) ==
  /\ request[c].pc = "streaming" /\ request[c].chunks < MaxChunks
  /\ reported' = [reported EXCEPT ![c] = IF u = NoUsage THEN @ ELSE u]
  /\ request' = [request EXCEPT
       ![c].chunks = @ + 1,
       ![c].tokens = IF u = NoUsage \/ request[c].handler \in Blind THEN @ ELSE u]
  /\ UNCHANGED records

(* The end of the stream, or a broken connection, which counts as one:     *)
(* what was sent is recorded.  Messages counts the text if no usage came.  *)
StreamEnds(c) ==
  /\ request[c].pc = "streaming"
  /\ request' = [request EXCEPT
       ![c].pc = "recording",
       ![c].tokens = IF @ = 0 /\ request[c].handler = "MessagesStream" /\ request[c].chunks > 0
                     THEN LocalCount ELSE @]
  /\ UNCHANGED <<records, reported>>

(* The whole body is read; a broken one is answered with an error. *)
ReadBreaks(c) ==
  /\ request[c].pc = "reading"
  /\ RequestGoes(c, "done")
  /\ UNCHANGED <<records, reported>>

(* A body that Messages cannot decode is sent on and not recorded; the     *)
(* other handlers record it with 0.                                        *)
ReadUndecodable(c) ==
  /\ request[c].pc = "reading"
  /\ RequestGoes(c, IF request[c].handler \in Unrecorded \cup {"Messages"} THEN "done" ELSE "recording")
  /\ UNCHANGED <<records, reported>>

ReadBody(c, u) ==
  /\ request[c].pc = "reading"
  /\ reported' = [reported EXCEPT ![c] = u]
  /\ request' = [request EXCEPT
       ![c].tokens = IF u = NoUsage \/ request[c].handler \in Blind THEN 0 ELSE u,
       ![c].pc = IF request[c].handler \in Unrecorded THEN "done" ELSE "recording"]
  /\ UNCHANGED records

(* recordUsage: unless billing is to be skipped a goroutine records it.    *)
Record(c, skip) ==
  /\ request[c].pc = "recording"
  /\ records' = IF skip THEN records
                ELSE records \cup {[call |-> c, handler |-> request[c].handler, asked |-> request[c].asked,
                                    billed |-> request[c].model, served |-> request[c].served,
                                    platform |-> request[c].platform, tokens |-> request[c].tokens]}
  /\ RequestGoes(c, "done")
  /\ UNCHANGED reported

Handling(c) ==
  \/ \E m \in Models : \/ Responses(c, m) \/ Embeddings(c, m) \/ GetModel(c, m)
                       \/ \E stream \in BOOLEAN : Messages(c, m, stream) \/ ChatCompletions(c, m, stream)
                       \/ \E action \in {"generateContent", "streamGenerateContent", "countTokens"} :
                            ModelAction(c, m, action)
  \/ \E m \in Models \cup {NoModel} : ImageGenerations(c, m)
  \/ ListModelsBeta(c)
  \/ \E r \in Recommended \cup {NoModel}, override \in BOOLEAN : Recommend(c, r, override)
  \/ \E ok \in BOOLEAN : SelectUpstream(c, ok) \/ DoRequest(c, ok) \/ Record(c, ok)
  \/ \E u \in Usages \cup {NoUsage} : StreamEvent(c, u) \/ ReadBody(c, u)
  \/ ResolveMapping(c) \/ StreamEnds(c) \/ ReadBreaks(c) \/ ReadUndecodable(c)

HandlerNext == \E c \in HandlerCalls : Handling(c)

HandlerSpec == HandlerInit /\ [][HandlerNext]_handlerVars
-------------------------------------------------------------------------------
HandlerTypeOK ==
  /\ \A c \in HandlerCalls : request[c].pc \in RequestPCs
                             /\ {request[c].asked, request[c].model} \subseteq Models \cup {NoModel}
                             /\ request[c].chunks \in 0..MaxChunks /\ request[c].tokens \in Nat
  /\ \A r \in records : r.billed \in Models /\ r.tokens \in Nat
  /\ reported \in [HandlerCalls -> Usages \cup {NoUsage}]

(* A call is billed as a call of the model the upstream was asked for,      *)
(* whatever analysis and mapping made of the request, but for a model that  *)
(* was replaced in a handler that forwards the client's body: there the     *)
(* account, the price and the record follow the new model, and the upstream *)
(* is asked for the old one.                                                *)
BilledModelIsServed ==
  \A r \in records :
    \/ r.billed = r.served
    \/ r.asked = NoModel /\ r.billed = DefaultImage
    \/ r.served = r.asked /\ \/ r.handler \in {"Messages", "MessagesStream"}
                             \/ r.handler \in {"ChatCompletions", "ChatCompletionsStream"}
                                /\ r.platform # "claude"

(* The tokens recorded are those of the last report the client was sent,    *)
(* also when the stream broke; without a report they are 0, or for Messages *)
(* the count of the text.  The handlers that look for none record 0.        *)
TokensAsReported ==
  \A r \in records :
    r.tokens = IF r.handler \notin Blind /\ reported[r.call] # NoUsage THEN reported[r.call]
               ELSE IF r.handler = "MessagesStream" /\ request[r.call].chunks > 0 THEN LocalCount ELSE 0
===============================================================================
