--------------------------- MODULE BackendPartsProofs ---------------------------
(***************************************************************************)
(* Proofs about the parts of the backend, for any users, rules, columns,   *)
(* requests, aliases and calls (those about sessions are in                *)
(* SessionsProofs).                                                        *)
(*                                                                         *)
(* Gateway handlers.  A record is written from the request alone, so       *)
(* everything it says must hold of the request before: which model was     *)
(* asked for upstream, how it relates to the one that is billed, and that  *)
(* the tokens counted so far are the last report.                          *)
(*                                                                         *)
(* Router rules.  Whatever an evaluation holds while nothing has changed   *)
(* since it began, and whatever the cache holds once the last change has   *)
(* cleared it, is a list of the active rows by priority.  Rows with one    *)
(* priority come in any order, so that there are several such lists: they  *)
(* have the same length, and the first match of each decides alike.        *)
(*                                                                         *)
(* Sign-up.  E-mails are unique among the users, so that the user a login  *)
(* creates has one that nobody else has; from there to its answer, a login *)
(* knows the user its identity is bound to, unless that was unbound.       *)
(*                                                                         *)
(* Tables.  A request that found its row has an id, a row that exists has  *)
(* every column, and pairs are of rows that exist.                         *)
(*                                                                         *)
(* Complexity.  What may be cached under a key is backed by the local      *)
(* profile of some question with that key; the counters are those of the   *)
(* requests for feedback that have counted, a cardinality.                 *)
(*                                                                         *)
(* Aliases.  Until a setting is persisted, the call that made it knows it; *)
(* from then on, unless something was lost, the copy in Redis is the       *)
(* mapping in memory.                                                      *)
(***************************************************************************)
EXTENDS BackendParts, SessionsProofs, FunctionTheorems, FiniteSetTheorems, WellFoundedInduction

Handlers ==
  {"none", "Messages", "MessagesStream", "ChatCompletions", "ChatCompletionsStream", "Responses",
   "ImageGenerations", "Embeddings", "generateContent", "streamGenerateContent", "countTokens",
   "GetModel", "ListModelsBeta"}

Chats == {"ChatCompletions", "ChatCompletionsStream"}

RequestRecords ==
  [pc : RequestPCs, handler : Handlers, asked : Models \cup {NoModel},
   model : Models \cup {NoModel}, platform : {"none", "claude", "openai", "gemini"},
   served : Models \cup {NoModel}, tokens : Nat, chunks : 0..MaxChunks]

(* The model that is asked for and the one that will be billed. *)
ModelRight(q) ==
  q.pc # "idle" =>
    /\ q.handler = "ListModelsBeta" \/ q.model \in Models
    /\ \/ q.model = q.asked
       \/ q.asked = NoModel /\ q.model = DefaultImage
       \/ q.handler \in Chats \cup {"Messages", "MessagesStream"}

ServedRight(q) ==
  q.pc \in {"sending", "streaming", "reading", "recording"} =>
    q.served = IF q.platform = "claude" /\ q.handler \in Chats THEN q.model ELSE q.asked

LastReport(q, rep) == IF q.handler \notin Blind /\ rep # NoUsage THEN rep ELSE 0

(* What is recorded of a request with this last report. *)
TokensDue(q, rep) ==
  IF q.handler \notin Blind /\ rep # NoUsage THEN rep
  ELSE IF q.handler = "MessagesStream" /\ q.chunks > 0 THEN LocalCount ELSE 0

TokensRight(q, rep) ==
  /\ q.pc \in {"idle", "analyzing", "mapping", "selecting", "sending", "reading"} =>
       q.tokens = 0 /\ q.chunks = 0 /\ rep = NoUsage
  /\ q.pc = "streaming" => q.handler \in Streams /\ q.tokens = LastReport(q, rep)
  /\ q.pc = "reading" => q.handler \notin Streams
  /\ q.pc = "recording" => q.handler \notin Unrecorded /\ q.tokens = TokensDue(q, rep)

RequestRight(q, rep) ==
  /\ q \in RequestRecords /\ rep \in Usages \cup {NoUsage}
  /\ ModelRight(q) /\ ServedRight(q) /\ TokensRight(q, rep)

RequestsRight ==
  /\ request \in [HandlerCalls -> RequestRecords]
  /\ reported \in [HandlerCalls -> Usages \cup {NoUsage}]
  /\ \A c \in HandlerCalls : RequestRight(request[c], reported[c])

BilledRight(r) ==
  \/ r.billed = r.served
  \/ r.asked = NoModel /\ r.billed = DefaultImage
  \/ r.served = r.asked /\ \/ r.handler \in {"Messages", "MessagesStream"}
                           \/ r.handler \in Chats /\ r.platform # "claude"

(* A record is of a request that is done, and stays as it is. *)
RecordsRight ==
  \A r \in records :
    /\ r.call \in HandlerCalls /\ request[r.call].pc = "done"
    /\ r.handler = request[r.call].handler
    /\ r.billed \in Models /\ r.tokens \in Nat
    /\ BilledRight(r)
    /\ r.tokens = TokensDue(request[r.call], reported[r.call])

HandlerInv == RequestsRight /\ RecordsRight

(* The initial states satisfy the invariant. *)
LEMMA HandlerInvInit == HandlerInit => HandlerInv
<1> SUFFICES ASSUME HandlerInit PROVE HandlerInv
  OBVIOUS
<1>1. NewRequest \in RequestRecords
  BY HandlerAssumption DEF NewRequest, RequestRecords, RequestPCs, Handlers
<1>2. RequestRight(NewRequest, NoUsage)
  BY <1>1 DEF RequestRight, ModelRight, ServedRight, TokensRight, NewRequest
<1> QED
  BY <1>1, <1>2 DEF HandlerInit, HandlerInv, RequestsRight, RecordsRight

(* A step of a request that is not done and writes no record. *)
LEMMA RequestMoves ==
  ASSUME HandlerInv, NEW c \in HandlerCalls, NEW q, NEW rep, request[c].pc # "done",
         request' = [request EXCEPT ![c] = q], reported' = [reported EXCEPT ![c] = rep],
         records' = records, RequestRight(q, rep)
  PROVE  HandlerInv'
<1>1. RequestsRight'
  <2>1. /\ request' \in [HandlerCalls -> RequestRecords]
        /\ reported' \in [HandlerCalls -> Usages \cup {NoUsage}]
    BY DEF HandlerInv, RequestsRight, RequestRight
  <2>2. ASSUME NEW x \in HandlerCalls PROVE RequestRight(request'[x], reported'[x])
    <3>1. CASE x = c
      BY <3>1 DEF HandlerInv, RequestsRight
    <3>2. CASE x # c
      BY <3>2 DEF HandlerInv, RequestsRight
    <3> QED
      BY <3>1, <3>2
  <2> QED
    BY <2>1, <2>2 DEF RequestsRight
<1>2. RecordsRight'
  <2> SUFFICES ASSUME NEW r \in records
               PROVE  request'[r.call] = request[r.call] /\ reported'[r.call] = reported[r.call]
    BY DEF HandlerInv, RecordsRight, BilledRight, TokensDue
  <2> QED
    BY DEF HandlerInv, RecordsRight, RequestsRight
<1> QED
  BY <1>1, <1>2 DEF HandlerInv

(* A new request. *)
LEMMA BeginKeeps ==
  ASSUME HandlerInv, NEW c \in HandlerCalls, NEW handler \in Handlers,
         NEW asked \in Models \cup {NoModel}, NEW model \in Models \cup {NoModel},
         NEW platform \in {"none", "claude", "openai", "gemini"},
         NEW pc \in {"analyzing", "selecting"},
         handler = "ListModelsBeta" \/ model \in Models,
         model = asked \/ (asked = NoModel /\ model = DefaultImage),
         Begin(c, handler, asked, model, platform, pc)
  PROVE  HandlerInv'
<1> DEFINE q == [request[c] EXCEPT !.pc = pc, !.handler = handler, !.asked = asked,
                                   !.model = model, !.platform = platform]
<1>1. /\ request[c].pc = "idle" /\ request[c] \in RequestRecords
      /\ RequestRight(request[c], reported[c])
  BY DEF HandlerInv, RequestsRight, Begin
<1>2. RequestRight(q, reported[c])
  BY <1>1
  DEF RequestRight, RequestRecords, RequestPCs, ModelRight, ServedRight, TokensRight
<1>3. request' = [request EXCEPT ![c] = q] /\ reported' = [reported EXCEPT ![c] = reported[c]]
  BY DEF Begin, HandlerInv, RequestsRight
<1>4. records' = records
  BY DEF Begin
<1> HIDE DEF q
<1> QED
  BY <1>1, <1>2, <1>3, <1>4, RequestMoves

(* Every beginning of a request is one of BeginKeeps. *)
LEMMA BeginningsKeep ==
  ASSUME HandlerInv, NEW c \in HandlerCalls,
         \/ \E m \in Models :
              \/ Responses(c, m) \/ Embeddings(c, m) \/ GetModel(c, m)
              \/ \E stream \in BOOLEAN : Messages(c, m, stream) \/ ChatCompletions(c, m, stream)
              \/ \E action \in {"generateContent", "streamGenerateContent", "countTokens"} :
                   ModelAction(c, m, action)
         \/ \E m \in Models \cup {NoModel} : ImageGenerations(c, m)
         \/ ListModelsBeta(c)
  PROVE  HandlerInv'
<1>1. ASSUME NEW m \in Models, Responses(c, m) PROVE HandlerInv'
  BY <1>1, BeginKeeps, HandlerAssumption DEF Responses, Handlers
<1>2. ASSUME NEW m \in Models, Embeddings(c, m) PROVE HandlerInv'
  BY <1>2, BeginKeeps, HandlerAssumption DEF Embeddings, Handlers
<1>3. ASSUME NEW m \in Models, GetModel(c, m) PROVE HandlerInv'
  BY <1>3, BeginKeeps, HandlerAssumption DEF GetModel, Handlers
<1>4. ASSUME NEW m \in Models, NEW stream \in BOOLEAN, Messages(c, m, stream) PROVE HandlerInv'
  BY <1>4, BeginKeeps, HandlerAssumption DEF Messages, Handlers
<1>5. ASSUME NEW m \in Models, NEW stream \in BOOLEAN, ChatCompletions(c, m, stream)
      PROVE HandlerInv'
  BY <1>5, BeginKeeps, HandlerAssumption DEF ChatCompletions, Handlers
<1>6. ASSUME NEW m \in Models,
             NEW action \in {"generateContent", "streamGenerateContent", "countTokens"},
             ModelAction(c, m, action)
      PROVE HandlerInv'
  BY <1>6, BeginKeeps, HandlerAssumption DEF ModelAction, Handlers
<1>7. ASSUME NEW m \in Models \cup {NoModel}, ImageGenerations(c, m) PROVE HandlerInv'
  BY <1>7, BeginKeeps, HandlerAssumption DEF ImageGenerations, Handlers
<1>8. CASE ListModelsBeta(c)
  BY <1>8, BeginKeeps, HandlerAssumption DEF ListModelsBeta, Handlers
<1> QED
  BY <1>1, <1>2, <1>3, <1>4, <1>5, <1>6, <1>7, <1>8

(* Every step of a request keeps what it says right. *)
LEMMA StepsKeep ==
  ASSUME HandlerInv, NEW c \in HandlerCalls,
         request[c].pc # "done", records' = records,
         request' = [request EXCEPT ![c] = request'[c]],
         reported' = [reported EXCEPT ![c] = reported'[c]],
         RequestRight(request'[c], reported'[c])
  PROVE  HandlerInv'
<1> DEFINE q == request'[c]
           rep == reported'[c]
<1>1. /\ request' = [request EXCEPT ![c] = q] /\ reported' = [reported EXCEPT ![c] = rep]
      /\ RequestRight(q, rep)
  OBVIOUS
<1> HIDE DEF q, rep
<1> QED
  BY <1>1, RequestMoves

(* Every step preserves the invariant. *)
LEMMA HandlerInvStep == HandlerInv /\ [HandlerNext]_handlerVars => HandlerInv'
<1> SUFFICES ASSUME HandlerInv, [HandlerNext]_handlerVars PROVE HandlerInv'
  OBVIOUS
<1> USE HandlerAssumption
<1>1. CASE UNCHANGED handlerVars
  BY <1>1 DEF handlerVars, HandlerInv, RequestsRight, RecordsRight
<1>2. ASSUME NEW c \in HandlerCalls, Handling(c) PROVE HandlerInv'
  <2>1. /\ request[c] \in RequestRecords /\ RequestRight(request[c], reported[c])
        /\ request \in [HandlerCalls -> RequestRecords]
        /\ reported \in [HandlerCalls -> Usages \cup {NoUsage}]
    BY DEF HandlerInv, RequestsRight
  <2>2. ASSUME NEW r \in Recommended \cup {NoModel}, NEW override \in BOOLEAN,
               Recommend(c, r, override)
        PROVE HandlerInv'
    <3>1. request[c].pc # "done" /\ records' = records
      BY <2>1, <2>2 DEF Recommend
    <3>2. /\ request' = [request EXCEPT ![c] = request'[c]]
          /\ reported' = [reported EXCEPT ![c] = reported'[c]]
      BY <2>1, <2>2 DEF Recommend
    <3>3. RequestRight(request'[c], reported'[c])
      <4>1. request'[c] \in RequestRecords /\ reported'[c] \in Usages \cup {NoUsage}
        BY <2>1, <2>2 DEF Recommend, RequestRecords, RequestPCs
      <4>2. ModelRight(request'[c])
        BY <2>1, <2>2 DEF Recommend, RequestRecords, RequestRight, ModelRight
      <4>3. ServedRight(request'[c])
        BY <2>1, <2>2 DEF Recommend, RequestRecords, RequestRight, ServedRight
      <4>4. TokensRight(request'[c], reported'[c])
        BY <2>1, <2>2
        DEF Recommend, RequestRecords, RequestRight, TokensRight
      <4> QED
        BY <4>1, <4>2, <4>3, <4>4 DEF RequestRight
    <3> QED
      BY <3>1, <3>2, <3>3, StepsKeep
  <2>3. CASE ResolveMapping(c)
    <3>1. request[c].pc # "done" /\ records' = records
      BY <2>1, <2>3 DEF ResolveMapping
    <3>2. /\ request' = [request EXCEPT ![c] = request'[c]]
          /\ reported' = [reported EXCEPT ![c] = reported'[c]]
      BY <2>1, <2>3 DEF ResolveMapping
    <3>3. RequestRight(request'[c], reported'[c])
      <4>1. request'[c] \in RequestRecords /\ reported'[c] \in Usages \cup {NoUsage}
        BY <2>1, <2>3 DEF ResolveMapping, determineTargetPlatform, RequestRecords, RequestPCs
      <4>2. ModelRight(request'[c])
        BY <2>1, <2>3
        DEF ResolveMapping, determineTargetPlatform, RequestRecords, RequestRight, ModelRight
      <4>3. ServedRight(request'[c])
        BY <2>1, <2>3
        DEF ResolveMapping, determineTargetPlatform, RequestRecords, RequestRight, ServedRight
      <4>4. TokensRight(request'[c], reported'[c])
        BY <2>1, <2>3
        DEF ResolveMapping, determineTargetPlatform, RequestRecords, RequestRight, TokensRight
      <4> QED
        BY <4>1, <4>2, <4>3, <4>4 DEF RequestRight
    <3> QED
      BY <3>1, <3>2, <3>3, StepsKeep
  <2>4. ASSUME NEW ok \in BOOLEAN, SelectUpstream(c, ok) PROVE HandlerInv'
    <3>1. request[c].pc # "done" /\ records' = records
      BY <2>1, <2>4 DEF SelectUpstream
    <3>2. /\ request' = [request EXCEPT ![c] = request'[c]]
          /\ reported' = [reported EXCEPT ![c] = reported'[c]]
      BY <2>1, <2>4 DEF SelectUpstream
    <3>3. RequestRight(request'[c], reported'[c])
      <4>1. CASE ok
        <5>1. request'[c] = [request[c] EXCEPT !.pc = "sending", !.served = UpstreamModel(c)]
          BY <2>1, <2>4, <4>1 DEF SelectUpstream
        <5>2. /\ request[c].pc = "selecting" /\ reported'[c] = reported[c]
              /\ UpstreamModel(c) \in Models \cup {NoModel}
          BY <2>1, <2>4 DEF SelectUpstream, UpstreamModel, RequestRecords
        <5>3. /\ request'[c] \in RequestRecords
              /\ request'[c].pc = "sending" /\ request'[c].served = UpstreamModel(c)
              /\ \A f \in {"handler", "asked", "model", "platform", "tokens", "chunks"} :
                   request'[c][f] = request[c][f]
          BY <2>1, <5>1, <5>2 DEF RequestRecords, RequestPCs
        <5>4. ModelRight(request'[c]) /\ TokensRight(request'[c], reported'[c])
          BY <2>1, <5>2, <5>3 DEF RequestRight, ModelRight, TokensRight
        <5>5. ServedRight(request'[c])
          BY <5>3 DEF ServedRight, UpstreamModel, Chats
        <5> QED
          BY <2>1, <5>2, <5>3, <5>4, <5>5 DEF RequestRight
      <4>2. CASE ~ok
        BY <2>1, <2>4, <4>2
        DEF SelectUpstream, RequestRight, RequestRecords, RequestPCs, ModelRight, ServedRight,
            TokensRight
      <4> QED
        BY <4>1, <4>2
    <3> QED
      BY <3>1, <3>2, <3>3, StepsKeep
  <2>5. ASSUME NEW ok \in BOOLEAN, DoRequest(c, ok) PROVE HandlerInv'
    <3>1. request[c].pc # "done" /\ records' = records
      BY <2>1, <2>5 DEF DoRequest, RequestGoes
    <3>2. /\ request' = [request EXCEPT ![c] = request'[c]]
          /\ reported' = [reported EXCEPT ![c] = reported'[c]]
      BY <2>1, <2>5 DEF DoRequest, RequestGoes
    <3>3. RequestRight(request'[c], reported'[c])
      <4>1. request'[c] \in RequestRecords /\ reported'[c] \in Usages \cup {NoUsage}
        BY <2>1, <2>5 DEF DoRequest, RequestGoes, RequestRecords, RequestPCs
      <4>2. ModelRight(request'[c])
        BY <2>1, <2>5 DEF DoRequest, RequestGoes, RequestRecords, RequestRight, ModelRight
      <4>3. ServedRight(request'[c])
        BY <2>1, <2>5 DEF DoRequest, RequestGoes, RequestRecords, RequestRight, ServedRight
      <4>4. TokensRight(request'[c], reported'[c])
        BY <2>1, <2>5
        DEF DoRequest, RequestGoes, Streams, LastReport, RequestRecords, RequestRight, TokensRight
      <4> QED
        BY <4>1, <4>2, <4>3, <4>4 DEF RequestRight
    <3> QED
      BY <3>1, <3>2, <3>3, StepsKeep
  <2>6. ASSUME NEW u \in Usages \cup {NoUsage}, StreamEvent(c, u) PROVE HandlerInv'
    <3>1. request[c].pc # "done" /\ records' = records
      BY <2>1, <2>6 DEF StreamEvent
    <3>2. /\ request' = [request EXCEPT ![c] = request'[c]]
          /\ reported' = [reported EXCEPT ![c] = reported'[c]]
      BY <2>1, <2>6 DEF StreamEvent
    <3>3. RequestRight(request'[c], reported'[c])
      <4>1. request'[c].tokens \in Nat /\ request'[c].chunks \in 0..MaxChunks
        BY <2>1, <2>6 DEF StreamEvent, RequestRecords
      <4>2. reported'[c] \in Usages \cup {NoUsage}
        BY <2>1, <2>6 DEF StreamEvent
      <4>3. request'[c].tokens = LastReport(request'[c], reported'[c])
        BY <2>1, <2>6 DEF StreamEvent, RequestRecords, RequestRight, TokensRight, LastReport
      <4> QED
        BY <2>1, <2>6, <4>1, <4>2, <4>3
        DEF StreamEvent, RequestRight, RequestRecords, RequestPCs, ModelRight, ServedRight,
            TokensRight
    <3> QED
      BY <3>1, <3>2, <3>3, StepsKeep
  <2>7. CASE StreamEnds(c)
    <3>1. request[c].pc # "done" /\ records' = records
      BY <2>1, <2>7 DEF StreamEnds
    <3>2. /\ request' = [request EXCEPT ![c] = request'[c]]
          /\ reported' = [reported EXCEPT ![c] = reported'[c]]
      BY <2>1, <2>7 DEF StreamEnds
    <3>3. RequestRight(request'[c], reported'[c])
      <4>1. request'[c] \in RequestRecords
        BY <2>1, <2>7 DEF StreamEnds, RequestRecords, RequestPCs
      <4>2. request'[c].handler \notin Unrecorded
        BY <2>1, <2>7 DEF StreamEnds, RequestRecords, RequestRight, TokensRight, Streams,
                         Unrecorded
      <4>3. request'[c].tokens = TokensDue(request'[c], reported'[c])
        BY <2>1, <2>7
        DEF StreamEnds, RequestRecords, RequestRight, TokensRight, LastReport, TokensDue, Blind
      <4> QED
        BY <2>1, <2>7, <4>1, <4>2, <4>3
        DEF StreamEnds, RequestRight, RequestRecords, RequestPCs, ModelRight, ServedRight,
            TokensRight
    <3> QED
      BY <3>1, <3>2, <3>3, StepsKeep
  <2>8. CASE ReadBreaks(c)
    <3>1. request[c].pc # "done" /\ records' = records
      BY <2>1, <2>8 DEF ReadBreaks, RequestGoes
    <3>2. /\ request' = [request EXCEPT ![c] = request'[c]]
          /\ reported' = [reported EXCEPT ![c] = reported'[c]]
      BY <2>1, <2>8 DEF ReadBreaks, RequestGoes
    <3>3. RequestRight(request'[c], reported'[c])
      <4>1. request'[c] \in RequestRecords /\ reported'[c] \in Usages \cup {NoUsage}
        BY <2>1, <2>8 DEF ReadBreaks, RequestGoes, RequestRecords, RequestPCs
      <4>2. ModelRight(request'[c])
        BY <2>1, <2>8 DEF ReadBreaks, RequestGoes, RequestRecords, RequestRight, ModelRight
      <4>3. ServedRight(request'[c])
        BY <2>1, <2>8 DEF ReadBreaks, RequestGoes, RequestRecords, RequestRight, ServedRight
      <4>4. TokensRight(request'[c], reported'[c])
        BY <2>1, <2>8
        DEF ReadBreaks, RequestGoes, RequestRecords, RequestRight, TokensRight
      <4> QED
        BY <4>1, <4>2, <4>3, <4>4 DEF RequestRight
    <3> QED
      BY <3>1, <3>2, <3>3, StepsKeep
  <2>9. CASE ReadUndecodable(c)
    <3>1. request[c].pc # "done" /\ records' = records
      BY <2>1, <2>9 DEF ReadUndecodable, RequestGoes
    <3>2. /\ request' = [request EXCEPT ![c] = request'[c]]
          /\ reported' = [reported EXCEPT ![c] = reported'[c]]
      BY <2>1, <2>9 DEF ReadUndecodable, RequestGoes
    <3>3. RequestRight(request'[c], reported'[c])
      <4>1. request'[c] \in RequestRecords /\ reported'[c] \in Usages \cup {NoUsage}
        BY <2>1, <2>9 DEF ReadUndecodable, RequestGoes, RequestRecords, RequestPCs
      <4>2. ModelRight(request'[c])
        BY <2>1, <2>9 DEF ReadUndecodable, RequestGoes, RequestRecords, RequestRight, ModelRight
      <4>3. ServedRight(request'[c])
        BY <2>1, <2>9 DEF ReadUndecodable, RequestGoes, RequestRecords, RequestRight, ServedRight
      <4>4. TokensRight(request'[c], reported'[c])
        BY <2>1, <2>9
        DEF ReadUndecodable, RequestGoes, Streams, Unrecorded, TokensDue, RequestRecords,
            RequestRight, TokensRight
      <4> QED
        BY <4>1, <4>2, <4>3, <4>4 DEF RequestRight
    <3> QED
      BY <3>1, <3>2, <3>3, StepsKeep
  <2>10. ASSUME NEW u \in Usages \cup {NoUsage}, ReadBody(c, u) PROVE HandlerInv'
    <3>1. request[c].pc # "done" /\ records' = records
      BY <2>1, <2>10 DEF ReadBody
    <3>2. /\ request' = [request EXCEPT ![c] = request'[c]]
          /\ reported' = [reported EXCEPT ![c] = reported'[c]]
      BY <2>1, <2>10 DEF ReadBody
    <3>3. RequestRight(request'[c], reported'[c])
      <4>1. request'[c] \in RequestRecords /\ reported'[c] \in Usages \cup {NoUsage}
        BY <2>1, <2>10 DEF ReadBody, RequestRecords, RequestPCs
      <4>2. ModelRight(request'[c])
        BY <2>1, <2>10 DEF ReadBody, RequestRecords, RequestRight, ModelRight
      <4>3. ServedRight(request'[c])
        BY <2>1, <2>10 DEF ReadBody, RequestRecords, RequestRight, ServedRight
      <4>4. TokensRight(request'[c], reported'[c])
        BY <2>1, <2>10
        DEF ReadBody, TokensDue, Unrecorded, Streams, RequestRecords, RequestRight, TokensRight
      <4> QED
        BY <4>1, <4>2, <4>3, <4>4 DEF RequestRight
    <3> QED
      BY <3>1, <3>2, <3>3, StepsKeep
  <2>11. ASSUME NEW skip \in BOOLEAN, Record(c, skip) PROVE HandlerInv'
    <3> DEFINE q == [request[c] EXCEPT !.pc = "done"]
    <3>1. request' = [request EXCEPT ![c] = q] /\ request[c].pc = "recording"
      BY <2>11 DEF Record, RequestGoes
    <3>2. RequestRight(q, reported[c])
      BY <2>1, <3>1
      DEF RequestRight, RequestRecords, RequestPCs, ModelRight, ServedRight, TokensRight
    <3>3. RequestsRight'
      BY <2>1, <2>11, <3>1, <3>2 DEF Record, HandlerInv, RequestsRight, RequestRight
    <3>4. ASSUME NEW r \in records
          PROVE  request'[r.call] = request[r.call] /\ reported'[r.call] = reported[r.call]
      BY <2>1, <2>11, <3>1 DEF Record, HandlerInv, RecordsRight
    <3>5. RecordsRight'
      <4>1. CASE skip
        BY <2>11, <3>4, <4>1 DEF Record, HandlerInv, RecordsRight
      <4>2. CASE ~skip
        BY <2>1, <2>11, <3>1, <3>4, <4>2
        DEF Record, HandlerInv, RecordsRight, RequestRight, RequestRecords, ModelRight,
            ServedRight, TokensRight, BilledRight, TokensDue, Unrecorded
      <4> QED
        BY <4>1, <4>2
    <3> QED
      BY <3>3, <3>5 DEF HandlerInv
  <2> QED
    BY <1>2, BeginningsKeep, <2>2, <2>3, <2>4, <2>5, <2>6, <2>7, <2>8, <2>9, <2>10, <2>11
    DEF Handling
<1> QED
  BY <1>1, <1>2 DEF HandlerNext

(* The invariant says what the run checks. *)
LEMMA HandlerInvImplies ==
  HandlerInv => HandlerTypeOK /\ BilledModelIsServed /\ TokensAsReported
<1> SUFFICES ASSUME HandlerInv PROVE HandlerTypeOK /\ BilledModelIsServed /\ TokensAsReported
  OBVIOUS
<1>1. HandlerTypeOK
  BY DEF HandlerInv, RequestsRight, RecordsRight, RequestRecords, HandlerTypeOK
<1>2. BilledModelIsServed
  BY DEF HandlerInv, RecordsRight, BilledRight, Chats, BilledModelIsServed
<1>3. TokensAsReported
  BY DEF HandlerInv, RecordsRight, TokensDue, TokensAsReported
<1> QED
  BY <1>1, <1>2, <1>3

(* Requests and records keep their types. *)
THEOREM HandlerTypeCorrect == HandlerSpec => []HandlerTypeOK
  BY HandlerInvInit, HandlerInvStep, HandlerInvImplies, PTL DEF HandlerSpec

(* A call is billed as one of the model the upstream was asked for, but for *)
(* the replacements the property names.                                    *)
THEOREM HandlerBilledModelIsServed == HandlerSpec => []BilledModelIsServed
  BY HandlerInvInit, HandlerInvStep, HandlerInvImplies, PTL DEF HandlerSpec

(* The tokens that are recorded are the last that were reported. *)
THEOREM HandlerTokensAsReported == HandlerSpec => []TokensAsReported
  BY HandlerInvInit, HandlerInvStep, HandlerInvImplies, PTL DEF HandlerSpec
-------------------------------------------------------------------------------
(* A set of indices has a least one.                                       *)
LEMMA LeastIndex ==
  ASSUME NEW n \in Nat, NEW S \in SUBSET (1..n), S # {}
  PROVE  \E i \in S : \A k \in S : i <= k
<1> DEFINE Upto == {1..u : u \in S}
<1>1. Upto \subseteq FiniteSubsetsOf(1..n)
  <2>1. IsFiniteSet(1..n)
    BY FS_Interval
  <2>2. Upto \subseteq SUBSET (1..n)
    OBVIOUS
  <2> QED
    BY <2>1, <2>2, FS_Subset DEF FiniteSubsetsOf
<1>2. Upto # {}
  OBVIOUS
<1>3. PICK s \in Upto : \A t \in Upto : ~(<<t, s>> \in StrictSubsetOrdering(1..n))
  BY <1>1, <1>2, FS_StrictSubsetOrderingWellFounded, WFMin
<1>4. PICK i \in S : s = 1..i
  BY <1>3
<1>5. ASSUME NEW k \in S  PROVE i <= k
  <2>1. SUFFICES ASSUME k < i  PROVE FALSE
    OBVIOUS
  <2>2. 1..k \subseteq 1..i /\ 1..k # 1..i /\ 1..i \subseteq 1..n /\ i \in Nat /\ k \in Nat
    BY <2>1
  <2>3. <<1..k, 1..i>> \in (SUBSET (1..n)) \X (SUBSET (1..n))
    BY <2>2
  <2>4. <<1..k, 1..i>> \in StrictSubsetOrdering(1..n)
    BY <2>2, <2>3 DEF StrictSubsetOrdering
  <2> QED
    BY <1>3, <1>4, <2>4
<1> QED
  BY <1>5

RuleCallRecords ==
  [pc : CallPCs, by : {"service", "handler"}, rule : 0..MaxRules, left : Seq(AllDrafts)]

RuleCallRight(r) ==
  /\ r \in RuleCallRecords
  /\ r.pc = "found" => r.rule \in RuleIDs
  /\ r.pc = "importing" => r.left # <<>>

RuleCallsRight ==
  ruleCall \in [RuleCalls -> RuleCallRecords] /\ \A c \in RuleCalls : RuleCallRight(ruleCall[c])

TableTyped ==
  /\ rules \in [RuleIDs -> RuleRows \cup {NoRule}]
  /\ \A i \in RuleIDs : rules[i] # NoRule => rules[i].id = i
  /\ lastRule \in 0..MaxRules

EvalsTyped ==
  /\ eval = [e \in Evaluations |-> [pc |-> eval[e].pc, list |-> eval[e].list,
                                    decision |-> eval[e].decision]]
  /\ \A e \in Evaluations : eval[e].pc \in EvalPCs
  /\ current \in [Evaluations -> BOOLEAN] /\ quiet \in [Evaluations -> BOOLEAN]
  /\ fresh \in BOOLEAN /\ behind \in BOOLEAN

(* The lists that the table as it is could be answered with.               *)
TheLists == ByPriority(ActiveRows)

Routed(d) ==
  LET best == {r \in ActiveRows : matchRule(r, d.request, d.hour)}
  IN IF best = {} THEN d.route = getDefaultRoute(d.request)
     ELSE \E r \in best : /\ d.route = parseAction(r, d.request)
                          /\ \A o \in best : o.priority <= r.priority

(* The cache is the table unless a call has yet to clear it, the handler   *)
(* has changed the table past it, or a fill stored an older one.           *)
CacheIsTable == rulesCache # NoRules /\ ~behind /\ Pending = {} => rulesCache \in TheLists

(* What an evaluation holds: the list it is about to store is the table if *)
(* no row changed since, and so is the list it matches if it was not       *)
(* disturbed; before it reads the cache again that is still a right one.   *)
EvalRight(r, calm, cur) ==
  /\ r.pc = "storing" /\ cur => r.list \in TheLists
  /\ r.pc \in {"storing", "stamping", "matching"} /\ calm => r.list \in TheLists
  /\ r.pc = "returning" /\ calm => Pending = {} /\ ~behind /\ rulesCache # NoRules
  /\ r.pc = "decided" /\ calm => Routed(r.decision)

EvalsRight == \A e \in Evaluations : EvalRight(eval[e], quiet[e], current[e])

RuleInv == TableTyped /\ EvalsTyped /\ RuleCallsRight /\ CacheIsTable /\ EvalsRight
-------------------------------------------------------------------------------
(* A list by priority has every row once, and its first match decides.     *)
LEMMA ListsAreComplete ==
  ASSUME NEW S, IsFiniteSet(S), \A r \in S : r.priority \in Int, NEW l \in ByPriority(S)
  PROVE  /\ Cardinality(S) \in Nat /\ l \in [1..Cardinality(S) -> S]
         /\ l \in Seq(S) /\ Len(l) = Cardinality(S) /\ DOMAIN l = 1..Cardinality(S)
         /\ \A r \in S : \E i \in 1..Cardinality(S) : l[i] = r
         /\ \A i, k \in 1..Cardinality(S) : i <= k => l[i].priority >= l[k].priority
<1> DEFINE n == Cardinality(S)
<1>1. n \in Nat
  BY FS_CardinalityType
<1>2. /\ l \in [1..n -> S]
      /\ \A i, k \in 1..n : i < k => l[i] # l[k] /\ l[i].priority >= l[k].priority
  BY DEF ByPriority
<1> HIDE DEF n
<1>3. l \in Seq(S) /\ Len(l) = n /\ DOMAIN l = 1..n
  BY <1>1, <1>2
<1>4. \A i, k \in 1..n : l[i] = l[k] => i = k
  BY <1>1, <1>2
<1>5. l \in Injection(1..n, S)
  BY <1>2, <1>4 DEF Injection, IsInjective
<1>6. Cardinality(1..n) = n
  BY <1>1, FS_Interval
<1>7. l \in Surjection(1..n, S)
  BY <1>5, <1>6, FS_Injection DEF n
<1>8. \A r \in S : \E i \in 1..n : l[i] = r
  BY <1>7 DEF Surjection
<1>9. \A i, k \in 1..n : i <= k => l[i].priority >= l[k].priority
  <2> SUFFICES ASSUME NEW i \in 1..n, NEW k \in 1..n, i <= k
               PROVE  l[i].priority >= l[k].priority
    OBVIOUS
  <2>1. l[i] \in S /\ l[k] \in S
    BY <1>2
  <2>2. CASE i = k
    <3>1. l[i].priority \in Int
      BY <2>1
    <3> QED
      BY <2>2, <3>1
  <2>3. CASE i < k
    BY <1>2, <2>3
  <2> QED
    BY <1>1, <2>2, <2>3
<1> QED
  BY <1>1, <1>2, <1>3, <1>8, <1>9 DEF n

(* Any list by priority decides as the table does.                         *)
LEMMA FirstMatchDecides ==
  ASSUME NEW S, IsFiniteSet(S), \A r \in S : r.priority \in Int, NEW l \in ByPriority(S),
         NEW req, NEW h
  PROVE  LET best == {r \in S : matchRule(r, req, h)}
         IN IF best = {} THEN EvaluateRules(l, req, h) = getDefaultRoute(req)
            ELSE \E r \in best : /\ EvaluateRules(l, req, h) = parseAction(r, req)
                                 /\ \A o \in best : o.priority <= r.priority
<1> DEFINE n == Cardinality(S)
           best == {r \in S : matchRule(r, req, h)}
           hits == {i \in DOMAIN l : matchRule(l[i], req, h)}
<1>1. /\ n \in Nat /\ l \in [1..n -> S] /\ DOMAIN l = 1..n
      /\ \A r \in S : \E i \in 1..n : l[i] = r
      /\ \A i, k \in 1..n : i <= k => l[i].priority >= l[k].priority
  BY ListsAreComplete
<1> HIDE DEF n
<1>2. hits = {} <=> best = {}
  BY <1>1
<1>3. CASE hits = {}
  BY <1>2, <1>3 DEF EvaluateRules
<1>4. CASE hits # {}
  <2> DEFINE first == CHOOSE i \in hits : \A k \in hits : i <= k
  <2>1. hits \in SUBSET (1..n)
    BY <1>1
  <2>2. first \in hits /\ \A k \in hits : first <= k
    BY <1>1, <1>4, <2>1, LeastIndex
  <2>3. EvaluateRules(l, req, h) = parseAction(l[first], req)
    BY <1>4 DEF EvaluateRules
  <2> HIDE DEF first
  <2>4. l[first] \in best
    BY <1>1, <2>2
  <2>5. ASSUME NEW o \in best  PROVE o.priority <= l[first].priority
    <3>1. PICK k \in 1..n : l[k] = o
      BY <1>1
    <3>2. k \in hits
      BY <1>1, <3>1
    <3>3. first <= k /\ first \in 1..n
      BY <1>1, <2>2, <3>2
    <3>4. l[first].priority >= l[k].priority
      BY <1>1, <3>3
    <3>5. o.priority \in Int /\ l[first].priority \in Int
      BY <2>4
    <3> QED
      BY <3>1, <3>4, <3>5
  <2> QED
    BY <1>2, <1>4, <2>3, <2>4, <2>5
<1> QED
  BY <1>3, <1>4

(* The active rows are finitely many.                                      *)
LEMMA ActiveRowsFinite ==
  ASSUME TableTyped
  PROVE  /\ IsFiniteSet(ActiveRows) /\ ActiveRows \subseteq RuleRows
         /\ \A r \in ActiveRows : r.priority \in Int
<1> DEFINE J == {i \in RuleIDs : rules[i] # NoRule /\ rules[i].active}
           g == [i \in J |-> rules[i]]
<1>1. IsFiniteSet(J)
  <2>1. IsFiniteSet(RuleIDs)
    BY RuleAssumption, FS_Interval DEF RuleIDs
  <2> QED
    BY <2>1, FS_Subset
<1>2. \A r \in ActiveRows : \E i \in J : g[i] = r
  BY DEF ActiveRows, Rows
<1>3. g \in Surjection(J, ActiveRows)
  BY <1>2 DEF Surjection, ActiveRows, Rows
<1>4. IsFiniteSet(ActiveRows)
  BY <1>1, <1>3, FS_Surjection
<1>5. ActiveRows \subseteq RuleRows
  BY DEF ActiveRows, Rows, TableTyped
<1>6. \A r \in RuleRows : r.priority \in Int
  BY DEF RuleRows
<1> QED
  BY <1>4, <1>5, <1>6

(* Lists of the table are lists of one length, and no nil slice.           *)
LEMMA TheListsAre ==
  ASSUME TableTyped, NEW l \in TheLists
  PROVE  /\ l # NoRules /\ l \in Seq(ActiveRows) /\ Len(l) = Cardinality(ActiveRows)
         /\ Cardinality(ActiveRows) \in Nat
<1>1. /\ l \in Seq(ActiveRows) /\ Len(l) = Cardinality(ActiveRows)
      /\ Cardinality(ActiveRows) \in Nat
  BY ActiveRowsFinite, ListsAreComplete DEF TheLists
<1>2. l \in Seq(RuleRows)
  BY <1>1, ActiveRowsFinite
<1> QED
  BY <1>1, <1>2, RuleAssumption

(* What depends on the table and its rows only.                            *)
LEMMA SameTable ==
  ASSUME UNCHANGED rules
  PROVE  TheLists' = TheLists /\ \A d : Routed(d)' <=> Routed(d)
BY DEF TheLists, ByPriority, ActiveRows, Rows, Routed
-------------------------------------------------------------------------------
(* An evaluation moves, with the list w and the decision d.                *)
LEMMA EvalMoves ==
  ASSUME RuleInv, NEW e \in Evaluations, NEW p \in EvalPCs, NEW w, NEW d,
         eval' = [eval EXCEPT ![e] = [pc |-> p, list |-> w, decision |-> d]],
         UNCHANGED <<rules, lastRule, ruleCall>>,
         fresh' \in BOOLEAN, behind' \in BOOLEAN,
         current' \in [Evaluations -> BOOLEAN], quiet' \in [Evaluations -> BOOLEAN],
         \A x \in Evaluations \ {e} : current'[x] = current[x] /\ (quiet'[x] => quiet[x]),
         \/ UNCHANGED <<rulesCache, behind>>
         \/ /\ ~behind' => rulesCache' \in TheLists
            /\ \A x \in Evaluations \ {e} : quiet'[x] => ~behind',
         p = "storing" /\ current'[e] => w \in TheLists,
         p \in {"storing", "stamping", "matching"} /\ quiet'[e] => w \in TheLists,
         p = "returning" /\ quiet'[e] => Pending = {} /\ ~behind' /\ rulesCache' # NoRules,
         p = "decided" /\ quiet'[e] => Routed(d)
  PROVE  RuleInv'
<1> DEFINE r == [pc |-> p, list |-> w, decision |-> d]
<1>1. eval' = [x \in Evaluations |-> IF x = e THEN r ELSE
                [pc |-> eval[x].pc, list |-> eval[x].list, decision |-> eval[x].decision]]
  BY DEF RuleInv, EvalsTyped
<1>2. r.pc = p /\ r.list = w /\ r.decision = d
  OBVIOUS
<1>3. /\ eval'[e] = r
      /\ \A x \in Evaluations \ {e} : eval'[x] = [pc |-> eval[x].pc, list |-> eval[x].list,
                                                  decision |-> eval[x].decision]
  BY <1>1
<1>4. \A x \in Evaluations \ {e} : eval'[x].pc = eval[x].pc /\ eval'[x].list = eval[x].list
                                   /\ eval'[x].decision = eval[x].decision
  BY <1>3
<1>5. EvalsTyped'
  <2>1. eval' = [x \in Evaluations |-> [pc |-> eval'[x].pc, list |-> eval'[x].list,
                                        decision |-> eval'[x].decision]]
    BY <1>1, <1>2, <1>3, <1>4
  <2>2. \A x \in Evaluations : eval'[x].pc \in EvalPCs
    BY <1>2, <1>3, <1>4 DEF RuleInv, EvalsTyped
  <2> QED
    BY <2>1, <2>2 DEF EvalsTyped
<1>6. TheLists' = TheLists /\ (\A a : Routed(a)' <=> Routed(a)) /\ Pending' = Pending
  BY SameTable DEF Pending
<1>7. TableTyped' /\ RuleCallsRight'
  BY DEF RuleInv, TableTyped, RuleCallsRight, RuleCallRight
<1>8. CacheIsTable'
  BY <1>6 DEF RuleInv, CacheIsTable
<1> HIDE DEF r
<1>9. EvalsRight'
  <2>1. EvalRight(eval[e], quiet[e], current[e])'
    BY <1>2, <1>3, <1>6 DEF EvalRight
  <2>2. ASSUME NEW x \in Evaluations \ {e}
        PROVE  EvalRight(eval[x], quiet[x], current[x])'
    <3>1. EvalRight(eval[x], quiet[x], current[x])
      BY DEF RuleInv, EvalsRight
    <3>2. current'[x] = current[x] /\ (quiet'[x] => quiet[x])
      OBVIOUS
    <3>3. quiet'[x] /\ rulesCache # NoRules /\ ~behind => rulesCache' # NoRules /\ ~behind'
      BY TheListsAre DEF RuleInv
    <3> QED
      BY <1>4, <1>6, <3>1, <3>2, <3>3 DEF EvalRight
  <2> QED
    BY <2>1, <2>2 DEF EvalsRight
<1> QED
  BY <1>5, <1>7, <1>8, <1>9 DEF RuleInv

(* What the fields of an evaluation's record hold.                         *)
LEMMA RecordFields ==
  ASSUME NEW r, NEW a, NEW b, NEW c, r = [pc |-> a, list |-> b, decision |-> c], NEW v
  PROVE  /\ [r EXCEPT !.pc = v] = [pc |-> v, list |-> b, decision |-> c]
         /\ [r EXCEPT !.list = v] = [pc |-> a, list |-> v, decision |-> c]
         /\ [r EXCEPT !.decision = v] = [pc |-> a, list |-> b, decision |-> v]
OBVIOUS

(* An evaluation that moves on, written as a record.                       *)
LEMMA EvalGoes ==
  ASSUME EvalsTyped, NEW e \in Evaluations, NEW p
  PROVE  [eval EXCEPT ![e].pc = p]
           = [eval EXCEPT ![e] = [pc |-> p, list |-> eval[e].list, decision |-> eval[e].decision]]
<1>1. PICK a, b, c : eval[e] = [pc |-> a, list |-> b, decision |-> c]
  BY DEF EvalsTyped
<1>2. [eval[e] EXCEPT !.pc = p] = [pc |-> p, list |-> b, decision |-> c]
  BY <1>1, RecordFields
<1>3. eval[e].list = b /\ eval[e].decision = c
  BY <1>1
<1> QED
  BY <1>2, <1>3

(* An evaluation that moves on with a list, written as a record.           *)
LEMMA EvalTakes ==
  ASSUME EvalsTyped, NEW e \in Evaluations, NEW p, NEW w
  PROVE  [eval EXCEPT ![e].pc = p, ![e].list = w]
           = [eval EXCEPT ![e] = [pc |-> p, list |-> w, decision |-> eval[e].decision]]
<1>1. PICK a, b, c : eval[e] = [pc |-> a, list |-> b, decision |-> c]
  BY DEF EvalsTyped
<1> DEFINE s == [eval[e] EXCEPT !.pc = p]
           t == [s EXCEPT !.list = w]
<1>2. s = [pc |-> p, list |-> b, decision |-> c]
  BY <1>1, RecordFields
<1>3. t = [pc |-> p, list |-> w, decision |-> c]
  <2> HIDE DEF s
  <2> QED BY <1>2, RecordFields
<1>4. [eval EXCEPT ![e].pc = p, ![e].list = w] = [eval EXCEPT ![e] = t]
  BY DEF EvalsTyped
<1> HIDE DEF s, t
<1>5. eval[e].decision = c
  BY <1>1
<1> QED
  BY <1>3, <1>4, <1>5

(* An evaluation looks whether the cache is fresh.                         *)
LEMMA CheckStep ==
  ASSUME RuleInv, NEW e \in Evaluations, CheckRulesCache(e)
  PROVE  RuleInv'
<1> DEFINE p == IF rulesCache # NoRules /\ fresh THEN "returning" ELSE "querying"
<1>1. p \in EvalPCs /\ p \in {"returning", "querying"} /\ (p = "returning" => rulesCache # NoRules)
  BY DEF EvalPCs
<1>2. /\ eval' = [eval EXCEPT ![e] = [pc |-> p, list |-> eval[e].list,
                                      decision |-> eval[e].decision]]
      /\ quiet' = [quiet EXCEPT ![e] = Pending = {} /\ ~behind]
      /\ UNCHANGED <<rules, lastRule, rulesCache, fresh, current, behind, ruleCall>>
  BY EvalGoes DEF CheckRulesCache, RuleInv
<1>3. EvalsTyped
  BY DEF RuleInv
<1> HIDE DEF p
<1>4. /\ quiet' \in [Evaluations -> BOOLEAN] /\ (quiet'[e] <=> Pending = {} /\ ~behind)
      /\ \A x \in Evaluations \ {e} : quiet'[x] = quiet[x]
  BY <1>2, <1>3 DEF EvalsTyped
<1>5. fresh' \in BOOLEAN /\ behind' \in BOOLEAN /\ current' \in [Evaluations -> BOOLEAN]
  BY <1>2, <1>3 DEF EvalsTyped
<1> QED
  BY <1>1, <1>2, <1>4, <1>5, EvalMoves

(* A cache read beside its writers: undisturbed, every list that can be    *)
(* read is one of the table, and of one length.                            *)
LEMMA ReturnStep ==
  ASSUME RuleInv, NEW e \in Evaluations, ReturnCache(e)
  PROVE  RuleInv'
<1>1. PICK a \in Headers, b \in Headers :
        /\ rulesCache \in {a, b}
        /\ eval' = IF Length(b) > Length(a) THEN [eval EXCEPT ![e].pc = "failed"]
                   ELSE [eval EXCEPT ![e].pc = "matching",
                                     ![e].list = IF Length(b) = 0 THEN <<>>
                                                 ELSE SubSeq(a, 1, Length(b))]
  BY DEF ReturnCache
<1>2. /\ UNCHANGED <<rules, lastRule, rulesCache, fresh, current, behind, ruleCall>>
      /\ eval[e].pc = "returning"
  BY DEF ReturnCache
<1>3. EvalsTyped /\ TableTyped /\ CacheIsTable /\ EvalsRight
  BY DEF RuleInv
<1>4. /\ quiet' \in [Evaluations -> BOOLEAN]
      /\ \A x \in Evaluations \ {e} : current'[x] = current[x] /\ (quiet'[x] => quiet[x])
  BY <1>2, <1>3 DEF ReturnCache, EvalsTyped
<1>5. fresh' \in BOOLEAN /\ behind' \in BOOLEAN /\ current' \in [Evaluations -> BOOLEAN]
  BY <1>2, <1>3 DEF EvalsTyped
<1>6. "failed" \in EvalPCs /\ "matching" \in EvalPCs
  BY DEF EvalPCs
<1>7. CASE Length(b) > Length(a)
  <2>1. eval' = [eval EXCEPT ![e] = [pc |-> "failed", list |-> eval[e].list,
                                     decision |-> eval[e].decision]]
    BY <1>1, <1>3, <1>7, EvalGoes
  <2> QED
    BY <1>2, <1>4, <1>5, <1>6, <2>1, EvalMoves
<1>8. CASE ~(Length(b) > Length(a))
  <2>1. PICK w : w = IF Length(b) = 0 THEN <<>> ELSE SubSeq(a, 1, Length(b))
    OBVIOUS
  <2>2. eval' = [eval EXCEPT ![e] = [pc |-> "matching", list |-> w,
                                     decision |-> eval[e].decision]]
    BY <1>1, <1>3, <1>8, <2>1, EvalTakes
  <2>3. ASSUME quiet'[e]  PROVE w \in TheLists
    <3>1. quiet[e] /\ \A x \in Evaluations : eval[x].pc = "storing" => current[x]
      BY <1>3, <2>3 DEF ReturnCache, EvalsTyped
    <3>2. Pending = {} /\ ~behind /\ rulesCache # NoRules
      BY <1>2, <1>3, <3>1 DEF EvalsRight, EvalRight
    <3>3. rulesCache \in TheLists
      BY <1>3, <3>2 DEF CacheIsTable
    <3>4. \A x \in Evaluations : eval[x].pc = "storing" => eval[x].list \in TheLists
      BY <1>3, <3>1 DEF EvalsRight, EvalRight
    <3>5. a \in TheLists /\ b \in TheLists
      BY <3>2, <3>3, <3>4 DEF Headers
    <3>6. /\ a # NoRules /\ b # NoRules /\ a \in Seq(ActiveRows) /\ b \in Seq(ActiveRows)
          /\ Len(a) = Len(b)
      BY <1>3, <3>5, TheListsAre
    <3>7. Length(a) = Len(a) /\ Length(b) = Len(a)
      BY <3>6 DEF Length
    <3>8. w = a
      <4>1. CASE Len(a) = 0
        BY <2>1, <3>6, <3>7, <4>1
      <4>2. CASE Len(a) # 0
        BY <2>1, <3>6, <3>7, <4>2
      <4> QED
        BY <4>1, <4>2
    <3> QED
      BY <3>5, <3>8
  <2>4. PICK p \in EvalPCs : p = "matching"
    BY <1>6
  <2>5. /\ p = "storing" /\ current'[e] => w \in TheLists
        /\ p \in {"storing", "stamping", "matching"} /\ quiet'[e] => w \in TheLists
        /\ p = "returning" /\ quiet'[e] => Pending = {} /\ ~behind' /\ rulesCache' # NoRules
        /\ p = "decided" /\ quiet'[e] => Routed(eval[e].decision)
    BY <2>3, <2>4
  <2>6. UNCHANGED <<rules, lastRule, ruleCall>> /\ UNCHANGED <<rulesCache, behind>>
    BY <1>2
  <2>7. eval' = [eval EXCEPT ![e] = [pc |-> p, list |-> w, decision |-> eval[e].decision]]
    BY <2>2, <2>4
  <2> QED
    BY <1>4, <1>5, <2>5, <2>6, <2>7, EvalMoves
<1> QED
  BY <1>7, <1>8

(* The query finds the active rows by priority, as the table is then.      *)
LEMMA QueryStep ==
  ASSUME RuleInv, NEW e \in Evaluations, QueryRules(e) \/ QueryRulesFails(e)
  PROVE  RuleInv'
<1>1. UNCHANGED <<rules, lastRule, rulesCache, fresh, quiet, behind, ruleCall>>
  BY DEF QueryRules, QueryRulesFails
<1>2. EvalsTyped /\ "failed" \in EvalPCs /\ "storing" \in EvalPCs
  BY DEF RuleInv, EvalPCs
<1>3. fresh' \in BOOLEAN /\ behind' \in BOOLEAN /\ quiet' \in [Evaluations -> BOOLEAN]
  BY <1>1, <1>2 DEF EvalsTyped
<1>4. CASE QueryRules(e)
  <2>1. PICK w \in TheLists : eval' = [eval EXCEPT ![e].pc = "storing", ![e].list = w]
    BY <1>4 DEF QueryRules, TheLists
  <2>2. eval' = [eval EXCEPT ![e] = [pc |-> "storing", list |-> w, decision |-> eval[e].decision]]
    BY <1>2, <2>1, EvalTakes
  <2>3. /\ current' \in [Evaluations -> BOOLEAN]
        /\ \A x \in Evaluations \ {e} : current'[x] = current[x]
    BY <1>2, <1>4 DEF QueryRules, EvalsTyped
  <2> QED
    BY <1>1, <1>2, <1>3, <2>2, <2>3, EvalMoves
<1>5. CASE QueryRulesFails(e)
  <2>1. eval' = [eval EXCEPT ![e] = [pc |-> "failed", list |-> eval[e].list,
                                     decision |-> eval[e].decision]]
    BY <1>2, <1>5, EvalGoes DEF QueryRulesFails
  <2>2. UNCHANGED current /\ current' \in [Evaluations -> BOOLEAN]
    BY <1>2, <1>5 DEF QueryRulesFails, EvalsTyped
  <2> QED
    BY <1>1, <1>2, <1>3, <2>1, <2>2, EvalMoves
<1> QED
  BY <1>4, <1>5

(* A fill that is late leaves the cache behind, and disturbs the others.   *)
LEMMA StoreListStep ==
  ASSUME RuleInv, NEW e \in Evaluations, StoreRules(e)
  PROVE  RuleInv'
<1>1. /\ rulesCache' = eval[e].list /\ behind' = ~current[e] /\ eval[e].pc = "storing"
      /\ quiet' = [x \in Evaluations |-> quiet[x] /\ (x = e \/ current[e])]
      /\ UNCHANGED <<rules, lastRule, fresh, current, ruleCall>>
  BY DEF StoreRules
<1>2. EvalsTyped /\ TableTyped /\ EvalRight(eval[e], quiet[e], current[e])
      /\ "stamping" \in EvalPCs
  BY DEF RuleInv, EvalsRight, EvalPCs
<1>3. eval' = [eval EXCEPT ![e] = [pc |-> "stamping", list |-> eval[e].list,
                                   decision |-> eval[e].decision]]
  BY <1>2, EvalGoes DEF StoreRules
<1>4. fresh' \in BOOLEAN /\ current' \in [Evaluations -> BOOLEAN] /\ current[e] \in BOOLEAN
      /\ quiet \in [Evaluations -> BOOLEAN]
  BY <1>1, <1>2 DEF EvalsTyped
<1>5. behind' \in BOOLEAN /\ quiet' \in [Evaluations -> BOOLEAN]
  BY <1>1, <1>4
<1>6. /\ \A x \in Evaluations : quiet'[x] => quiet[x]
      /\ \A x \in Evaluations \ {e} : quiet'[x] => ~behind'
  BY <1>1, <1>4
<1>7. ~behind' => rulesCache' \in TheLists
  BY <1>1, <1>2, <1>4 DEF EvalRight
<1>8. quiet'[e] => eval[e].list \in TheLists
  BY <1>1, <1>2, <1>6 DEF EvalRight
<1> QED
  BY <1>1, <1>2, <1>3, <1>4, <1>5, <1>6, <1>7, <1>8, EvalMoves

(* An evaluation stores the time of loading.                               *)
LEMMA StampStep ==
  ASSUME RuleInv, NEW e \in Evaluations, StampRules(e)
  PROVE  RuleInv'
<1>1. /\ fresh' = TRUE /\ eval[e].pc = "stamping"
      /\ UNCHANGED <<rules, lastRule, rulesCache, current, quiet, behind, ruleCall>>
  BY DEF StampRules
<1>2. EvalsTyped /\ EvalRight(eval[e], quiet[e], current[e]) /\ "matching" \in EvalPCs
  BY DEF RuleInv, EvalsRight, EvalPCs
<1>3. eval' = [eval EXCEPT ![e] = [pc |-> "matching", list |-> eval[e].list,
                                   decision |-> eval[e].decision]]
  BY <1>2, EvalGoes DEF StampRules
<1>4. /\ fresh' \in BOOLEAN /\ behind' \in BOOLEAN
      /\ current' \in [Evaluations -> BOOLEAN] /\ quiet' \in [Evaluations -> BOOLEAN]
  BY <1>1, <1>2 DEF EvalsTyped
<1>5. quiet'[e] => eval[e].list \in TheLists
  BY <1>1, <1>2 DEF EvalRight
<1> QED
  BY <1>1, <1>2, <1>3, <1>4, <1>5, EvalMoves

(* The first rule of the list that matches is the decision.                *)
LEMMA DecideStep ==
  ASSUME RuleInv, NEW e \in Evaluations, NEW req, NEW h, Decide(e, req, h)
  PROVE  RuleInv'
<1>1. PICK d : d = [request |-> req, hour |-> h, route |-> EvaluateRules(eval[e].list, req, h)]
  OBVIOUS
<1>2. /\ eval[e].pc = "matching"
      /\ UNCHANGED <<rules, lastRule, rulesCache, fresh, current, quiet, behind, ruleCall>>
  BY DEF Decide
<1>3. /\ EvalsTyped /\ TableTyped /\ EvalRight(eval[e], quiet[e], current[e])
      /\ "decided" \in EvalPCs
  BY DEF RuleInv, EvalsRight, EvalPCs
<1>4. eval' = [eval EXCEPT ![e] = [pc |-> "decided", list |-> <<>>, decision |-> d]]
  <2> DEFINE s == [eval[e] EXCEPT !.pc = "decided"]
             t == [s EXCEPT !.list = <<>>]
             u == [t EXCEPT !.decision = d]
  <2>1. PICK a, b, c : eval[e] = [pc |-> a, list |-> b, decision |-> c]
    BY <1>3 DEF EvalsTyped
  <2>2. s = [pc |-> "decided", list |-> b, decision |-> c]
    BY <2>1, RecordFields
  <2>3. t = [pc |-> "decided", list |-> <<>>, decision |-> c]
    <3> HIDE DEF s
    <3> QED BY <2>2, RecordFields
  <2>4. u = [pc |-> "decided", list |-> <<>>, decision |-> d]
    <3> HIDE DEF t
    <3> QED BY <2>3, RecordFields
  <2>5. eval' = [eval EXCEPT ![e] = u]
    BY <1>1, <1>3 DEF Decide, EvalsTyped
  <2> HIDE DEF s, t, u
  <2> QED
    BY <2>4, <2>5
<1>5. /\ fresh' \in BOOLEAN /\ behind' \in BOOLEAN
      /\ current' \in [Evaluations -> BOOLEAN] /\ quiet' \in [Evaluations -> BOOLEAN]
  BY <1>2, <1>3 DEF EvalsTyped
<1>6. ASSUME quiet'[e]  PROVE Routed(d)
  <2>1. eval[e].list \in ByPriority(ActiveRows)
    BY <1>2, <1>3, <1>6 DEF EvalRight, TheLists
  <2>2. d.request = req /\ d.hour = h /\ d.route = EvaluateRules(eval[e].list, req, h)
    BY <1>1
  <2> QED
    BY <1>3, <2>1, <2>2, ActiveRowsFinite, FirstMatchDecides DEF Routed
<1> QED
  BY <1>2, <1>3, <1>4, <1>5, <1>6, EvalMoves

(* The steps of evaluations.                                               *)
LEMMA EvaluatingStep ==
  ASSUME RuleInv, NEW e \in Evaluations, Evaluating(e)
  PROVE  RuleInv'
BY CheckStep, ReturnStep, QueryStep, StoreListStep, StampStep, DecideStep DEF Evaluating
-------------------------------------------------------------------------------
(* What the fields of a call's record hold.                                *)
LEMMA RuleCallFields ==
  ASSUME NEW r \in RuleCallRecords
  PROVE  /\ r.pc \in CallPCs /\ r.by \in {"service", "handler"} /\ r.rule \in 0..MaxRules
         /\ r.left \in Seq(AllDrafts)
         /\ \A p \in CallPCs : [r EXCEPT !.pc = p] \in RuleCallRecords /\ [r EXCEPT !.pc = p].pc = p
         /\ \A p \in CallPCs, l \in Seq(AllDrafts) :
              /\ [r EXCEPT !.pc = p, !.left = l] \in RuleCallRecords
              /\ [r EXCEPT !.pc = p, !.left = l].pc = p
              /\ [r EXCEPT !.pc = p, !.left = l].left = l
BY DEF RuleCallRecords

(* A call that moves leaves the others as they are.                        *)
LEMMA RuleCallMoves ==
  ASSUME RuleCallsRight, NEW c \in RuleCalls, NEW r, RuleCallRight(r),
         ruleCall' = [ruleCall EXCEPT ![c] = r]
  PROVE  /\ RuleCallsRight' /\ ruleCall'[c] = r
         /\ \A d \in RuleCalls \ {c} : ruleCall'[d] = ruleCall[d]
<1>1. /\ ruleCall' \in [RuleCalls -> RuleCallRecords] /\ ruleCall'[c] = r
      /\ \A d \in RuleCalls \ {c} : ruleCall'[d] = ruleCall[d]
  BY DEF RuleCallsRight, RuleCallRight
<1>2. \A d \in RuleCalls : RuleCallRight(ruleCall'[d])
  BY <1>1 DEF RuleCallsRight
<1> QED
  BY <1>1, <1>2 DEF RuleCallsRight, RuleCallRight

(* A call that moves on, written as a record.                              *)
LEMMA RuleCallGoes ==
  ASSUME RuleCallsRight, NEW c \in RuleCalls, NEW p \in {"written", "clearing", "done"},
         ruleCall' = [ruleCall EXCEPT ![c].pc = p]
  PROVE  /\ RuleCallsRight' /\ ruleCall'[c].pc = p
         /\ \A d \in RuleCalls \ {c} : ruleCall'[d] = ruleCall[d]
<1> DEFINE r == [ruleCall[c] EXCEPT !.pc = p]
<1>1. ruleCall[c] \in RuleCallRecords /\ p \in CallPCs /\ ruleCall' = [ruleCall EXCEPT ![c] = r]
  BY DEF RuleCallsRight, CallPCs
<1>2. r \in RuleCallRecords /\ r.pc = p
  BY <1>1, RuleCallFields
<1> HIDE DEF r
<1>3. RuleCallRight(r)
  BY <1>2 DEF RuleCallRight
<1> QED
  BY <1>1, <1>2, <1>3, RuleCallMoves

(* After a change of the table no evaluation is held to it, and its cache  *)
(* is about to be cleared, or known to be behind.                          *)
LEMMA TableWritten ==
  ASSUME RuleInv, NEW new, NEW by, Write(new, by), TableTyped', RuleCallsRight',
         by = "handler" \/ Pending' # {}
  PROVE  RuleInv'
<1>1. /\ current' = [e \in Evaluations |-> FALSE] /\ quiet' = [e \in Evaluations |-> FALSE]
      /\ behind' = (behind \/ (by = "handler" /\ rulesCache # NoRules))
      /\ UNCHANGED <<rulesCache, fresh, eval>>
  BY DEF Write
<1>2. EvalsTyped'
  BY <1>1 DEF RuleInv, EvalsTyped
<1>3. CacheIsTable'
  BY <1>1 DEF CacheIsTable
<1>4. EvalsRight'
  BY <1>1 DEF EvalsRight, EvalRight
<1> QED
  BY <1>2, <1>3, <1>4 DEF RuleInv

(* A change of the table leaves a refresh pending.                         *)
LEMMA ChangeStep ==
  ASSUME RuleInv, NEW c \in RuleCalls, NEW new, NEW by \in {"service", "handler"},
         Change(c, new, by), TableTyped'
  PROVE  RuleInv'
<1>1. Write(new, by) /\ RuleCallsRight
  BY DEF Change, RuleInv
<1>2. CASE by = "service"
  <2>1. ruleCall' = [ruleCall EXCEPT ![c].pc = "written"]
    BY <1>2 DEF Change
  <2>2. RuleCallsRight' /\ ruleCall'[c].pc = "written"
    BY <1>1, <2>1, RuleCallGoes
  <2>3. c \in Pending'
    BY <2>2 DEF Pending
  <2> QED
    BY <1>1, <2>2, <2>3, TableWritten
<1>3. CASE by = "handler"
  <2>1. ruleCall' = [ruleCall EXCEPT ![c].pc = "done"]
    BY <1>3 DEF Change
  <2>2. RuleCallsRight'
    BY <1>1, <2>1, RuleCallGoes
  <2> QED
    BY <1>1, <1>3, <2>2, TableWritten
<1> QED
  BY <1>2, <1>3

(* A draft with an id is a row.                                            *)
LEMMA RowTyped ==
  ASSUME NEW i \in RuleIDs, NEW d \in AllDrafts
  PROVE  Row(i, d) \in RuleRows /\ Row(i, d).id = i
<1>1. d \in DraftRecords
  BY RuleAssumption
<1>2. d.priority \in Int /\ d.active \in BOOLEAN
  BY <1>1 DEF DraftRecords
<1> QED
  BY <1>2 DEF Row, RuleRows

(* The row an insertion writes.                                            *)
LEMMA InsertTyped ==
  ASSUME TableTyped, Insertable, NEW d \in AllDrafts, rules' = Insert(d), lastRule' = lastRule + 1
  PROVE  TableTyped'
<1>1. lastRule + 1 \in RuleIDs /\ lastRule + 1 \in 0..MaxRules
  BY RuleAssumption DEF TableTyped, Insertable, RuleIDs
<1>2. PICK n \in RuleIDs : n = lastRule + 1
  BY <1>1
<1>3. PICK row \in RuleRows : row = Row(n, d) /\ row.id = n
  BY RowTyped
<1>4. rules' = [rules EXCEPT ![n] = row]
  BY <1>2, <1>3 DEF Insert
<1> QED
  BY <1>1, <1>3, <1>4 DEF TableTyped

(* A row replaced by another one with its id, or by none.                  *)
LEMMA ReplaceTyped ==
  ASSUME TableTyped, NEW i \in RuleIDs, NEW row, row = NoRule \/ (row \in RuleRows /\ row.id = i),
         rules' = [rules EXCEPT ![i] = row], UNCHANGED lastRule
  PROVE  TableTyped'
BY DEF TableTyped

(* One row of the table changes.                                           *)
LEMMA RowsChange ==
  ASSUME NEW r \in RuleRows
  PROVE  /\ \A on \in BOOLEAN : /\ [r EXCEPT !.active = on] \in RuleRows
                               /\ [r EXCEPT !.active = on].id = r.id
         /\ \A n \in Int : /\ [r EXCEPT !.priority = n] \in RuleRows
                          /\ [r EXCEPT !.priority = n].id = r.id
BY DEF RuleRows

(* A row that was read stays a row whatever is written over it.            *)
LEMMA UpdatedRow ==
  ASSUME NEW r \in RuleRows, NEW d \in AllDrafts,
         NEW F \in SUBSET {"priority", "condition", "action", "active"},
         NEW new, new = [f \in DOMAIN r |-> IF f \in F THEN d[f] ELSE r[f]]
  PROVE  new \in RuleRows /\ new.id = r.id
<1>1. DOMAIN r = {"id", "priority", "condition", "action", "active"}
  BY DEF RuleRows
<1>2. d \in DraftRecords
  BY RuleAssumption
<1>3. /\ d.priority \in Int /\ d.active \in BOOLEAN
      /\ d.condition \in {a.condition : a \in AllDrafts}
      /\ d.action \in {a.action : a \in AllDrafts}
  BY <1>2 DEF DraftRecords
<1>4. /\ r.priority \in Int /\ r.active \in BOOLEAN /\ r.id \in RuleIDs
      /\ r.condition \in {a.condition : a \in AllDrafts}
      /\ r.action \in {a.action : a \in AllDrafts}
  BY DEF RuleRows
<1>5. /\ new["id"] = r.id
      /\ new["priority"] \in {d.priority, r.priority}
      /\ new["condition"] \in {d.condition, r.condition}
      /\ new["action"] \in {d.action, r.action} /\ new["active"] \in {d.active, r.active}
  BY <1>1
<1>6. new = [id |-> new["id"], priority |-> new["priority"], condition |-> new["condition"],
             action |-> new["action"], active |-> new["active"]]
  BY <1>1
<1>7. new \in RuleRows
  BY <1>3, <1>4, <1>5, <1>6 DEF RuleRows
<1> QED
  BY <1>5, <1>7

(* CreateRule inserts a row.                                               *)
LEMMA InsertStep ==
  ASSUME RuleInv, NEW c \in RuleCalls, NEW d \in Drafts, AddRule(c, d) \/ CreateRule(c, d)
  PROVE  RuleInv'
<1>1. /\ TableTyped /\ Insertable /\ d \in AllDrafts /\ lastRule' = lastRule + 1
      /\ Change(c, Insert(d), "service") \/ Change(c, Insert(d), "handler")
  BY DEF RuleInv, AddRule, CreateRule, AllDrafts
<1>2. rules' = Insert(d)
  BY <1>1 DEF Change, Write
<1>3. TableTyped'
  BY <1>1, <1>2, InsertTyped
<1> QED
  BY <1>1, <1>3, ChangeStep

(* The service or the handler deletes a row.                               *)
LEMMA DeletionStep ==
  ASSUME RuleInv, NEW c \in RuleCalls,
         (\E i \in RuleIDs : DeleteRule(c, i)) \/ HandlerDelete(c)
  PROVE  RuleInv'
<1>1. /\ TableTyped /\ RuleCallRight(ruleCall[c])
  BY DEF RuleInv, RuleCallsRight
<1>2. PICK i \in RuleIDs, by \in {"service", "handler"} :
        Change(c, [rules EXCEPT ![i] = NoRule], by) /\ UNCHANGED lastRule
  BY <1>1 DEF DeleteRule, HandlerDelete, RuleCallRight
<1>3. rules' = [rules EXCEPT ![i] = NoRule]
  BY <1>2 DEF Change, Write
<1>4. TableTyped'
  BY <1>1, <1>2, <1>3, ReplaceTyped
<1> QED
  BY <1>2, <1>4, ChangeStep

(* A rule is switched on or off.                                           *)
LEMMA SetActiveStep ==
  ASSUME RuleInv, NEW c \in RuleCalls, NEW i \in RuleIDs, NEW on \in BOOLEAN,
         SetRuleActive(c, i, on)
  PROVE  RuleInv'
<1>1. TableTyped /\ rules[i] \in RuleRows /\ rules[i].id = i
  BY DEF RuleInv, TableTyped, SetRuleActive
<1>2. PICK row \in RuleRows : row = [rules[i] EXCEPT !.active = on] /\ row.id = i
  BY <1>1, RowsChange
<1>3. [rules EXCEPT ![i].active = on] = [rules EXCEPT ![i] = row]
  BY <1>2
<1>4. Change(c, [rules EXCEPT ![i] = row], "service") /\ UNCHANGED lastRule
  BY <1>3 DEF SetRuleActive
<1>5. rules' = [rules EXCEPT ![i] = row]
  BY <1>4 DEF Change, Write
<1>6. TableTyped'
  BY <1>1, <1>2, <1>4, <1>5, ReplaceTyped
<1> QED
  BY <1>4, <1>6, ChangeStep

(* ReorderRules writes one priority after another.                         *)
LEMMA ReorderStep ==
  ASSUME RuleInv, NEW c \in RuleCalls, NEW i \in RuleIDs, NEW k \in RuleIDs,
         ReorderRules(c, <<i, k>>)
  PROVE  RuleInv'
<1> DEFINE order == <<i, k>>
           rank(j) == Len(order) + 1 - (CHOOSE n \in DOMAIN order : order[n] = j)
           new == [j \in RuleIDs |-> IF \E n \in DOMAIN order : order[n] = j
                                     THEN [rules[j] EXCEPT !.priority = rank(j)] ELSE rules[j]]
<1>1. TableTyped /\ Change(c, new, "service") /\ UNCHANGED lastRule
      /\ \A n \in DOMAIN order : rules[order[n]] # NoRule
  BY DEF RuleInv, ReorderRules
<1>2. rules' = new
  BY <1>1 DEF Change, Write
<1>3. ASSUME NEW j \in RuleIDs, \E n \in DOMAIN order : order[n] = j
      PROVE  rank(j) \in Int
  <2>1. (CHOOSE n \in DOMAIN order : order[n] = j) \in DOMAIN order
    BY <1>3
  <2>2. DOMAIN order = 1..2 /\ Len(order) = 2
    OBVIOUS
  <2> QED
    BY <2>1, <2>2
<1>4. ASSUME NEW j \in RuleIDs
      PROVE  new[j] = rules[j] \/ (new[j] \in RuleRows /\ new[j].id = j)
  <2>1. CASE \E n \in DOMAIN order : order[n] = j
    <3>1. rules[j] \in RuleRows /\ rules[j].id = j
      BY <1>1, <2>1 DEF TableTyped
    <3>2. rank(j) \in Int
      BY <1>3, <2>1
    <3>3. new[j] = [rules[j] EXCEPT !.priority = rank(j)]
      BY <2>1
    <3> HIDE DEF rank, new
    <3> QED
      BY <3>1, <3>2, <3>3, RowsChange
  <2>2. CASE ~\E n \in DOMAIN order : order[n] = j
    BY <2>2
  <2> QED
    BY <2>1, <2>2
<1>5. new = [j \in RuleIDs |-> new[j]]
  OBVIOUS
<1> HIDE DEF new
<1>6. TableTyped'
  BY <1>1, <1>2, <1>4, <1>5 DEF TableTyped
<1> QED
  BY <1>1, <1>6, ChangeStep

(* UpdateRule writes over the row it read.                                 *)
LEMMA UpdateRuleStep ==
  ASSUME RuleInv, NEW c \in RuleCalls, NEW d \in Drafts,
         NEW F \in SUBSET {"priority", "condition", "action", "active"}, UpdateRule(c, F, d)
  PROVE  RuleInv'
<1>1. TableTyped /\ RuleCallRight(ruleCall[c]) /\ d \in AllDrafts
  BY DEF RuleInv, RuleCallsRight, AllDrafts
<1>2. PICK i \in RuleIDs, by \in {"service", "handler"} :
        i = ruleCall[c].rule /\ by = ruleCall[c].by
  BY <1>1, RuleCallFields DEF UpdateRule, RuleCallRight
<1>3. PICK S \in SUBSET {"priority", "condition", "action", "active"} : S = SentFields(F, d, by)
  BY DEF SentFields
<1>4. rules[i] \in RuleRows /\ rules[i].id = i
  BY <1>1, <1>2 DEF UpdateRule, TableTyped
<1>5. PICK row : row = [f \in DOMAIN rules[i] |-> IF f \in S THEN d[f] ELSE rules[i][f]]
  OBVIOUS
<1>6. row \in RuleRows /\ row.id = i
  BY <1>1, <1>4, <1>5, UpdatedRow
<1>7. Change(c, [rules EXCEPT ![i] = row], by) /\ UNCHANGED lastRule
  BY <1>2, <1>3, <1>5 DEF UpdateRule
<1>8. rules' = [rules EXCEPT ![i] = row]
  BY <1>7 DEF Change, Write
<1>9. TableTyped'
  BY <1>1, <1>6, <1>7, <1>8, ReplaceTyped
<1> QED
  BY <1>7, <1>9, ChangeStep
-------------------------------------------------------------------------------
(* ImportRules deletes the table, if asked, and begins.                    *)
LEMMA ImportDraftsStep ==
  ASSUME RuleInv, NEW c \in RuleCalls, NEW overwrite \in BOOLEAN, ImportRules(c, overwrite)
  PROVE  RuleInv'
<1> DEFINE p == IF ImportData = <<>> THEN "written" ELSE "importing"
           r == [ruleCall[c] EXCEPT !.pc = p, !.left = ImportData]
           new == IF overwrite THEN [i \in RuleIDs |-> NoRule] ELSE rules
<1>1. /\ Write(new, "service") /\ UNCHANGED lastRule /\ TableTyped /\ RuleCallsRight
      /\ ruleCall' = [ruleCall EXCEPT ![c] = r]
  BY DEF RuleInv, ImportRules
<1>2. /\ ruleCall[c] \in RuleCallRecords /\ p \in CallPCs /\ ImportData \in Seq(AllDrafts)
      /\ p = "written" \/ (p = "importing" /\ ImportData # <<>>)
  BY <1>1, RuleAssumption DEF RuleCallsRight, CallPCs
<1> HIDE DEF p
<1>3. r \in RuleCallRecords /\ r.pc = p /\ r.left = ImportData
  BY <1>2 DEF RuleCallRecords
<1> HIDE DEF r
<1>4. RuleCallRight(r)
  BY <1>2, <1>3 DEF RuleCallRight
<1>5. RuleCallsRight' /\ ruleCall'[c] = r
  BY <1>1, <1>4, RuleCallMoves
<1>6. c \in Pending'
  BY <1>2, <1>3, <1>5 DEF Pending
<1>7. TableTyped'
  BY <1>1 DEF Write, TableTyped
<1> HIDE DEF new
<1> QED
  BY <1>1, <1>5, <1>6, <1>7, TableWritten

(* An import goes on with what is left, or is written.                     *)
LEMMA ImportNextCall ==
  ASSUME RuleCallsRight, NEW c \in RuleCalls, ruleCall[c].pc = "importing", ImportNext(c)
  PROVE  RuleCallsRight' /\ c \in Pending'
<1> DEFINE left == ruleCall[c].left
           p == IF Len(left) = 1 THEN "written" ELSE ruleCall[c].pc
           rest == Tail(left)
           r == [ruleCall[c] EXCEPT !.pc = p, !.left = rest]
<1>1. ruleCall[c] \in RuleCallRecords /\ left # <<>> /\ left \in Seq(AllDrafts)
  BY RuleCallFields DEF RuleCallsRight, RuleCallRight
<1>2. rest \in Seq(AllDrafts) /\ (Len(left) # 1 => rest # <<>>)
  <2>1. PICK l \in Seq(AllDrafts) : l = left /\ l # <<>>
    BY <1>1
  <2>2. Tail(l) \in Seq(AllDrafts) /\ Len(Tail(l)) = Len(l) - 1 /\ Len(l) \in Nat
    BY <2>1
  <2>3. Len(l) # 0
    BY <2>1
  <2>4. Len(l) # 1 => Len(Tail(l)) # 0
    BY <2>2, <2>3
  <2>5. Len(l) # 1 => Tail(l) # <<>>
    BY <2>4
  <2> QED
    BY <2>1, <2>2, <2>5
<1>3. p \in CallPCs /\ (p = "written" \/ (p = "importing" /\ rest # <<>>))
  BY <1>2 DEF CallPCs
<1>4. ruleCall' = [ruleCall EXCEPT ![c] = r]
  BY <1>1 DEF ImportNext, RuleCallRecords
<1> HIDE DEF p, rest
<1>5. r \in RuleCallRecords /\ r.pc = p /\ r.left = rest
  BY <1>1, <1>2, <1>3, RuleCallFields
<1> HIDE DEF r
<1>6. RuleCallRight(r)
  BY <1>3, <1>5 DEF RuleCallRight
<1>7. RuleCallsRight' /\ ruleCall'[c] = r
  BY <1>4, <1>6, RuleCallMoves
<1> QED
  BY <1>3, <1>5, <1>7 DEF Pending

(* ImportRules inserts its next rule.                                      *)
LEMMA ImportRuleStep ==
  ASSUME RuleInv, NEW c \in RuleCalls, ImportRule(c)
  PROVE  RuleInv'
<1>1. /\ RuleCallsRight /\ TableTyped /\ Insertable /\ ruleCall[c].pc = "importing"
      /\ lastRule' = lastRule + 1 /\ ImportNext(c)
  BY DEF RuleInv, ImportRule
<1>2. ruleCall[c].left \in Seq(AllDrafts) /\ ruleCall[c].left # <<>>
  BY <1>1, RuleCallFields DEF RuleCallsRight, RuleCallRight
<1>3. PICK d \in AllDrafts : d = Head(ruleCall[c].left)
  BY <1>2
<1>4. Write(Insert(d), "service")
  BY <1>3 DEF ImportRule
<1>5. rules' = Insert(d)
  BY <1>4 DEF Write
<1>6. TableTyped'
  BY <1>1, <1>5, InsertTyped
<1>7. RuleCallsRight' /\ c \in Pending'
  BY <1>1, ImportNextCall
<1> QED
  BY <1>4, <1>6, <1>7, TableWritten

(* A call that leaves table and cache alone, and stays pending if it was.  *)
LEMMA CallKeepsTable ==
  ASSUME RuleInv, RuleCallsRight', Pending' = {} <=> Pending = {}, fresh' \in BOOLEAN,
         UNCHANGED <<rules, lastRule, rulesCache, eval, current, quiet, behind>>
  PROVE  RuleInv'
<1>1. TheLists' = TheLists /\ \A d : Routed(d)' <=> Routed(d)
  BY SameTable
<1>2. TableTyped' /\ EvalsTyped'
  BY DEF RuleInv, TableTyped, EvalsTyped
<1>3. CacheIsTable'
  BY <1>1 DEF RuleInv, CacheIsTable
<1>4. EvalsRight'
  <2> SUFFICES ASSUME NEW e \in Evaluations
               PROVE  EvalRight(eval[e], quiet[e], current[e])'
    BY DEF EvalsRight
  <2> QED
    BY <1>1 DEF RuleInv, EvalsRight, EvalRight
<1> QED
  BY <1>2, <1>3, <1>4 DEF RuleInv

(* A call finds the rule it will write.                                    *)
LEMMA FindRuleStep ==
  ASSUME RuleInv, NEW c \in RuleCalls, NEW i \in RuleIDs, NEW by \in {"service", "handler"},
         FindRule(c, i, by)
  PROVE  RuleInv'
<1> DEFINE r == [pc |-> "found", by |-> by, rule |-> i, left |-> <<>>]
<1>1. /\ ruleCall[c].pc = "idle" /\ ruleCall' = [ruleCall EXCEPT ![c] = r]
      /\ UNCHANGED <<rules, lastRule, rulesCache, fresh, eval, current, quiet, behind>>
  BY DEF FindRule
<1>2. i \in 0..MaxRules
  BY RuleAssumption DEF RuleIDs
<1>3. RuleCallRight(r) /\ r.pc = "found"
  BY <1>2 DEF RuleCallRight, RuleCallRecords, CallPCs
<1> HIDE DEF r
<1>4. /\ RuleCallsRight' /\ ruleCall'[c] = r
      /\ \A d \in RuleCalls \ {c} : ruleCall'[d] = ruleCall[d]
  BY <1>1, <1>3, RuleCallMoves DEF RuleInv
<1>5. Pending' = Pending
  BY <1>1, <1>3, <1>4 DEF Pending
<1>6. fresh' \in BOOLEAN
  BY <1>1 DEF RuleInv, EvalsTyped
<1> QED
  BY <1>1, <1>4, <1>5, <1>6, CallKeepsTable

(* A call ends: its row is gone, or the time of loading is.                *)
LEMMA CallEndsStep ==
  ASSUME RuleInv, NEW c \in RuleCalls, RuleIsGone(c) \/ ClearTime(c)
  PROVE  RuleInv'
<1>1. /\ ruleCall' = [ruleCall EXCEPT ![c].pc = "done"]
      /\ ruleCall[c].pc \in {"found", "clearing"}
      /\ UNCHANGED <<rules, lastRule, rulesCache, eval, current, quiet, behind>>
      /\ fresh' \in {fresh, FALSE}
  BY DEF RuleIsGone, ClearTime
<1>2. /\ RuleCallsRight' /\ ruleCall'[c].pc = "done"
      /\ \A d \in RuleCalls \ {c} : ruleCall'[d] = ruleCall[d]
  BY <1>1, RuleCallGoes DEF RuleInv
<1>3. Pending' = Pending
  BY <1>1, <1>2 DEF Pending
<1>4. fresh' \in BOOLEAN
  BY <1>1 DEF RuleInv, EvalsTyped
<1> QED
  BY <1>1, <1>2, <1>3, <1>4, CallKeepsTable

(* An import that fails leaves what it has inserted.                       *)
LEMMA ImportFailsStep ==
  ASSUME RuleInv, NEW c \in RuleCalls, ImportRuleFails(c)
  PROVE  RuleInv'
<1>1. /\ ruleCall[c].pc = "importing" /\ ImportNext(c) /\ RuleCallsRight
      /\ UNCHANGED <<rules, lastRule, rulesCache, fresh, eval, current, quiet, behind>>
  BY DEF ImportRuleFails, RuleInv
<1>2. RuleCallsRight' /\ c \in Pending' /\ c \in Pending
  BY <1>1, ImportNextCall DEF Pending
<1>3. fresh' \in BOOLEAN
  BY <1>1 DEF RuleInv, EvalsTyped
<1> QED
  BY <1>1, <1>2, <1>3, CallKeepsTable

(* While a call is pending no undisturbed evaluation is about to read the  *)
(* cache that the call clears.                                             *)
LEMMA ClearRulesStep ==
  ASSUME RuleInv, NEW c \in RuleCalls, ClearRules(c)
  PROVE  RuleInv'
<1>1. /\ rulesCache' = NoRules /\ behind' = FALSE /\ ruleCall[c].pc = "written"
      /\ UNCHANGED <<rules, lastRule, fresh, eval, current, quiet>>
      /\ ruleCall' = [ruleCall EXCEPT ![c].pc = "clearing"]
  BY DEF ClearRules
<1>2. RuleCallsRight'
  BY <1>1, RuleCallGoes DEF RuleInv
<1>3. TableTyped' /\ EvalsTyped' /\ CacheIsTable'
  BY <1>1 DEF RuleInv, TableTyped, EvalsTyped, CacheIsTable
<1>4. Pending # {}
  BY <1>1 DEF Pending
<1>5. TheLists' = TheLists /\ \A d : Routed(d)' <=> Routed(d)
  BY <1>1, SameTable
<1>6. EvalsRight'
  <2> SUFFICES ASSUME NEW e \in Evaluations
               PROVE  EvalRight(eval[e], quiet[e], current[e])'
    BY DEF EvalsRight
  <2> QED
    BY <1>1, <1>4, <1>5 DEF RuleInv, EvalsRight, EvalRight
<1> QED
  BY <1>2, <1>3, <1>6 DEF RuleInv

(* The steps of the calls that change the table.                           *)
LEMMA ChangingStep ==
  ASSUME RuleInv, NEW c \in RuleCalls, ChangingRules(c)
  PROVE  RuleInv'
BY InsertStep, DeletionStep, SetActiveStep, ReorderStep, UpdateRuleStep, ImportDraftsStep,
   ImportRuleStep, FindRuleStep, CallEndsStep, ImportFailsStep, ClearRulesStep DEF ChangingRules

(* The invariant of the rules holds at the beginning.                      *)
LEMMA RuleInitInv == RuleInit => RuleInv
<1> SUFFICES ASSUME RuleInit  PROVE RuleInv
  OBVIOUS
<1>1. TableTyped
  <2>1. \A i \in DOMAIN FirstRules : FirstRules[i] \in AllDrafts
    BY DEF AllDrafts
  <2>2. \A i \in DOMAIN FirstRules :
          i \in RuleIDs /\ Row(i, FirstRules[i]) \in RuleRows /\ Row(i, FirstRules[i]).id = i
    BY <2>1, RowTyped, RuleAssumption
  <2>3. Cardinality(DOMAIN FirstRules) \in 0..MaxRules
    <3>1. IsFiniteSet(RuleIDs) /\ Cardinality(RuleIDs) = MaxRules
      BY RuleAssumption, FS_Interval DEF RuleIDs
    <3>2. /\ IsFiniteSet(DOMAIN FirstRules)
          /\ Cardinality(DOMAIN FirstRules) <= Cardinality(RuleIDs)
      BY <3>1, RuleAssumption, FS_Subset
    <3>3. Cardinality(DOMAIN FirstRules) \in Nat
      BY <3>2, FS_CardinalityType
    <3> QED
      BY <3>1, <3>2, <3>3, RuleAssumption
  <2>4. lastRule \in 0..MaxRules
    BY <2>3 DEF RuleInit
  <2>5. \A i \in RuleIDs : rules[i] = NoRule \/ (rules[i] \in RuleRows /\ rules[i].id = i)
    BY <2>2 DEF RuleInit
  <2>6. rules = [i \in RuleIDs |-> rules[i]]
    BY DEF RuleInit
  <2> QED
    BY <2>4, <2>5, <2>6 DEF TableTyped
<1>2. \A e \in Evaluations : eval[e] = [pc |-> "idle", list |-> <<>>, decision |-> NoRule]
  BY DEF RuleInit
<1>3. EvalsTyped
  <2>1. eval = [e \in Evaluations |-> [pc |-> eval[e].pc, list |-> eval[e].list,
                                       decision |-> eval[e].decision]]
    BY <1>2 DEF RuleInit
  <2> QED
    BY <1>2, <2>1 DEF RuleInit, EvalsTyped, EvalPCs
<1>4. RuleCallsRight
  <2> DEFINE r == [pc |-> "idle", by |-> "service", rule |-> 0, left |-> <<>>]
  <2>1. r \in RuleCallRecords /\ r.pc = "idle"
    BY RuleAssumption DEF RuleCallRecords, CallPCs
  <2>2. ruleCall = [c \in RuleCalls |-> r]
    BY DEF RuleInit
  <2> HIDE DEF r
  <2> QED
    BY <2>1, <2>2 DEF RuleCallsRight, RuleCallRight
<1>5. CacheIsTable
  BY DEF RuleInit, CacheIsTable
<1>6. EvalsRight
  BY <1>2 DEF EvalsRight, EvalRight
<1> QED
  BY <1>1, <1>3, <1>4, <1>5, <1>6 DEF RuleInv

(* The invariant of the rules holds always.                                *)
LEMMA RuleInvHolds == RuleSpec => []RuleInv
<1>1. ASSUME RuleInv, RulesExpire  PROVE RuleInv'
  <2>1. Pending' = Pending /\ RuleCallsRight'
    BY <1>1 DEF RulesExpire, Pending, RuleInv, RuleCallsRight, RuleCallRight
  <2> QED
    BY <1>1, <2>1, CallKeepsTable DEF RulesExpire
<1>2. ASSUME RuleInv, UNCHANGED ruleVars  PROVE RuleInv'
  <2>1. Pending' = Pending /\ RuleCallsRight' /\ fresh' \in BOOLEAN
    BY <1>2 DEF ruleVars, Pending, RuleInv, RuleCallsRight, RuleCallRight, EvalsTyped
  <2> QED
    BY <1>2, <2>1, CallKeepsTable DEF ruleVars
<1>3. ASSUME RuleInv, RuleNext  PROVE RuleInv'
  BY <1>1, <1>3, EvaluatingStep, ChangingStep DEF RuleNext
<1> QED
  BY <1>2, <1>3, RuleInitInv, PTL DEF RuleSpec

(* Types of the router rules and of what evaluates and changes them.       *)
THEOREM RuleTypeCorrect == RuleSpec => []RuleTypeOK
<1>1. RuleInv => RuleTypeOK
  BY RuleCallFields DEF RuleInv, TableTyped, EvalsTyped, RuleCallsRight, RuleTypeOK
<1> QED
  BY <1>1, RuleInvHolds, PTL

(* An undisturbed evaluation routes a request by the table as it is, from  *)
(* the cache or not, though the cache is read twice without a lock.        *)
THEOREM RequestsRouteByTable == RuleSpec => []RoutesByTable
<1>1. RuleInv => RoutesByTable
  BY DEF RuleInv, EvalsRight, EvalRight, Routed, RoutesByTable
<1> QED
  BY <1>1, RuleInvHolds, PTL
-------------------------------------------------------------------------------
LoginPCs == {"away", "exchanging", "informing", "looking", "mailing", "creating", "binding",
             "signing"}

SignInRecords ==
  [pc : SignInPCs, browser : Browsers \cup {NoRecord}, identity : Identities \cup {NoRecord},
   mail : AllMails \cup {NoMail, NoRecord}, user : 0..MaxPeople]

IdentityRows == [user : People, mail : AllMails]

BoundTo(x, u) == identity[x] # NoRecord /\ identity[x].user = u

(* What a call knows holds of the tables, whatever other calls did since:  *)
(* the user it will bind has the e-mail of the login, and the user it will *)
(* answer with is the one the identity is bound to.                        *)
CallRight(r) ==
  /\ r \in SignInRecords
  /\ r.pc \in LoginPCs => r.identity \in Identities
  /\ r.pc \in {"looking", "mailing", "creating"} => r.mail \in AllMails \cup {NoMail}
  /\ r.pc = "registering" => r.mail \in AllMails
  /\ r.pc = "binding" => r.user \in People /\ r.mail \in AllMails /\ people[r.user] = r.mail
  /\ r.pc = "signing" =>
       r.user \in People /\ (r.identity \notin loose => BoundTo(r.identity, r.user))

CallsRight == signIn \in [SignIns -> SignInRecords] /\ \A c \in SignIns : CallRight(signIn[c])

TablesTyped ==
  /\ people \in [People -> AllMails \cup {NoRecord}]
  /\ identity \in [Identities -> IdentityRows \cup {NoRecord}]
  /\ cookie \in [Browsers -> SignIns \cup {NoRecord}]
  /\ answered \subseteq [identity : Identities, user : People]
  /\ loose \subseteq Identities

(* The unique index of users. *)
MailsUnique ==
  \A u, v \in People : people[u] # NoRecord /\ people[u] = people[v] => u = v

(* The row of an identity has the e-mail of its user. *)
RowsHaveMails ==
  \A x \in Identities : identity[x] # NoRecord => people[identity[x].user] = identity[x].mail

AnswersRight ==
  \A a \in answered : a.identity \notin loose => BoundTo(a.identity, a.user)

SignUpInv == TablesTyped /\ CallsRight /\ MailsUnique /\ RowsHaveMails /\ AnswersRight

(* What the fields of a login's record hold.                               *)
LEMMA SignInFields ==
  ASSUME NEW r \in SignInRecords
  PROVE  /\ r.pc \in SignInPCs /\ r.browser \in Browsers \cup {NoRecord}
         /\ r.identity \in Identities \cup {NoRecord}
         /\ r.mail \in AllMails \cup {NoMail, NoRecord} /\ r.user \in 0..MaxPeople
         /\ \A p \in SignInPCs : /\ [r EXCEPT !.pc = p] \in SignInRecords
                                 /\ [r EXCEPT !.pc = p].pc = p
                                 /\ [r EXCEPT !.pc = p].identity = r.identity
                                 /\ [r EXCEPT !.pc = p].mail = r.mail
                                 /\ [r EXCEPT !.pc = p].user = r.user
BY DEF SignInRecords

(* A call that moves on, and at most the cookies with it. *)
LEMMA CallMoves ==
  ASSUME SignUpInv, NEW c \in SignIns, NEW r, CallRight(r),
         signIn' = [signIn EXCEPT ![c] = r],
         cookie' \in [Browsers -> SignIns \cup {NoRecord}],
         UNCHANGED <<people, identity, answered, loose>>
  PROVE  SignUpInv'
<1>1. r \in SignInRecords /\ signIn \in [SignIns -> SignInRecords]
  BY DEF CallRight, SignUpInv, CallsRight
<1>2. /\ signIn' \in [SignIns -> SignInRecords] /\ signIn'[c] = r
      /\ \A d \in SignIns \ {c} : signIn'[d] = signIn[d]
  BY <1>1
<1>3. \A d \in SignIns : CallRight(signIn'[d])
  BY <1>2 DEF SignUpInv, CallsRight
<1>4. CallsRight'
  <2>1. ASSUME NEW d \in SignIns  PROVE CallRight(signIn[d])'
    BY <1>3 DEF CallRight, BoundTo
  <2> QED
    BY <1>2, <2>1 DEF CallsRight
<1>5. TablesTyped'
  BY DEF SignUpInv, TablesTyped
<1>6. MailsUnique' /\ RowsHaveMails' /\ AnswersRight'
  BY DEF SignUpInv, MailsUnique, RowsHaveMails, AnswersRight, BoundTo
<1> QED
  BY <1>4, <1>5, <1>6 DEF SignUpInv

(* A call of which nothing is remembered but where it is. *)
LEMMA CallGoes ==
  ASSUME SignUpInv, NEW c \in SignIns, NEW p \in SignInPCs, SignInGoes(c, p),
         \/ p \in {"refused", "done"}
         \/ p \in {"exchanging", "informing"} /\ signIn[c].pc \in LoginPCs
         \/ p \in {"mailing", "creating"} /\ signIn[c].pc \in {"looking", "mailing"},
         cookie' \in [Browsers -> SignIns \cup {NoRecord}],
         UNCHANGED <<people, identity, answered, loose>>
  PROVE  SignUpInv'
<1> DEFINE r == [signIn[c] EXCEPT !.pc = p]
<1>1. CallRight(signIn[c]) /\ signIn[c] \in SignInRecords
  BY DEF SignUpInv, CallsRight, CallRight
<1>2. /\ r \in SignInRecords /\ r.pc = p /\ r.identity = signIn[c].identity
      /\ r.mail = signIn[c].mail /\ r.user = signIn[c].user
  BY <1>1, SignInFields
<1>3. signIn' = [signIn EXCEPT ![c] = r]
  BY DEF SignInGoes
<1> HIDE DEF r
<1>4. CallRight(r)
  BY <1>1, <1>2 DEF CallRight, LoginPCs
<1> QED
  BY <1>3, <1>4, CallMoves

(* A login is sent to the provider.                                        *)
LEMMA LeaveStep ==
  ASSUME SignUpInv, NEW c \in SignIns, NEW b \in Browsers, NEW x \in Identities, Leave(c, b, x)
  PROVE  SignUpInv'
<1> DEFINE r == [signIn[c] EXCEPT !.pc = "away", !.browser = b, !.identity = x]
<1>1. signIn[c] \in SignInRecords
  BY DEF SignUpInv, CallsRight
<1>2. r \in SignInRecords /\ r.pc = "away" /\ r.identity = x
  BY <1>1 DEF SignInRecords, SignInPCs
<1>3. /\ signIn' = [signIn EXCEPT ![c] = r] /\ cookie' = [cookie EXCEPT ![b] = c]
      /\ UNCHANGED <<people, identity, answered, loose>>
  BY DEF Leave
<1> HIDE DEF r
<1>4. CallRight(r)
  BY <1>2 DEF CallRight
<1>5. cookie' \in [Browsers -> SignIns \cup {NoRecord}]
  BY <1>3 DEF SignUpInv, TablesTyped
<1> QED
  BY <1>3, <1>4, <1>5, CallMoves

(* A callback is let through, or refused for its cookie.                   *)
LEMMA ComeBackStep ==
  ASSUME SignUpInv, NEW c \in SignIns, ComeBack(c), signIn[c].pc = "away"
  PROVE  SignUpInv'
<1>1. /\ SignInGoes(c, "exchanging") \/ SignInGoes(c, "refused")
      /\ UNCHANGED <<people, identity, answered, loose>>
      /\ cookie' \in [Browsers -> SignIns \cup {NoRecord}]
  BY DEF ComeBack, SignUpInv, TablesTyped
<1> QED
  BY <1>1, CallGoes DEF SignInPCs, LoginPCs

(* The provider tells who it is and the e-mail it knows.                   *)
LEMMA InformedStep ==
  ASSUME SignUpInv, NEW c \in SignIns, NEW ok \in BOOLEAN, NEW mails,
         mails \subseteq AllMails \cup {NoMail},
         Informed(c, ok, mails), signIn[c].pc = "informing"
  PROVE  SignUpInv'
<1>1. cookie' \in [Browsers -> SignIns \cup {NoRecord}]
      /\ UNCHANGED <<people, identity, answered, loose>>
  BY DEF Informed, SignUpInv, TablesTyped
<1>2. CASE ok
  <2>1. PICK m \in mails : signIn' = [signIn EXCEPT ![c].pc = "looking", ![c].mail = m]
    BY <1>2 DEF Informed
  <2> DEFINE r == [signIn[c] EXCEPT !.pc = "looking", !.mail = m]
  <2>2. signIn' = [signIn EXCEPT ![c] = r]
    BY <2>1
  <2>3. CallRight(signIn[c]) /\ signIn[c] \in SignInRecords /\ m \in AllMails \cup {NoMail}
    BY DEF SignUpInv, CallsRight
  <2>4. r \in SignInRecords /\ r.pc = "looking" /\ r.mail = m /\ r.identity = signIn[c].identity
    BY <2>3 DEF SignInRecords, SignInPCs
  <2> HIDE DEF r
  <2>5. CallRight(r)
    BY <2>3, <2>4 DEF CallRight, LoginPCs
  <2> QED
    BY <1>1, <2>2, <2>5, CallMoves
<1>3. CASE ~ok
  BY <1>1, <1>3, CallGoes DEF Informed, SignInPCs
<1> QED
  BY <1>2, <1>3

(* What a provider tells is an e-mail or none.                             *)
LEMMA ProvidersMails ==
  ASSUME NEW x \in Identities
  PROVE  MailsGiven[x] \subseteq AllMails /\ Placeholder[x] \in AllMails
BY DEF AllMails

(* The steps of a login from the callback to the look-up.                  *)
LEMMA ComingBackStep ==
  ASSUME SignUpInv, NEW c \in SignIns, ComingBack(c)
  PROVE  SignUpInv'
<1>1. CASE GitHubCallback(c) \/ GoogleCallback(c) \/ WeChatCallback(c)
  BY <1>1, ComeBackStep DEF GitHubCallback, GoogleCallback, WeChatCallback, At
<1>2. ASSUME NEW ok \in BOOLEAN,
             \/ exchangeGitHubToken(c, ok) \/ exchangeGoogleToken(c, ok)
             \/ exchangeWeChatToken(c, ok)
      PROVE  SignUpInv'
  <2>1. Exchanged(c, ok) /\ signIn[c].pc = "exchanging"
    BY <1>2 DEF exchangeGitHubToken, exchangeGoogleToken, exchangeWeChatToken, At
  <2>2. cookie' \in [Browsers -> SignIns \cup {NoRecord}]
    BY <2>1 DEF Exchanged, SignUpInv, TablesTyped
  <2> QED
    BY <2>1, <2>2, CallGoes DEF Exchanged, SignInPCs, LoginPCs
<1>3. ASSUME NEW ok \in BOOLEAN,
             \/ getGitHubUserInfo(c, ok) \/ getGoogleUserInfo(c, ok) \/ getWeChatUserInfo(c, ok)
      PROVE  SignUpInv'
  <2>1. signIn[c].pc = "informing"
    BY <1>3 DEF getGitHubUserInfo, getGoogleUserInfo, getWeChatUserInfo, At
  <2> DEFINE x == signIn[c].identity
  <2>2. x \in Identities
    BY <2>1 DEF SignUpInv, CallsRight, CallRight, LoginPCs
  <2>3. MailsGiven[x] \subseteq AllMails /\ Placeholder[x] \in AllMails
    BY <2>2, ProvidersMails
  <2>4. CASE getGitHubUserInfo(c, ok)
    BY <2>1, <2>3, <2>4, InformedStep DEF getGitHubUserInfo, getGitHubPrimaryEmail
  <2>5. CASE getGoogleUserInfo(c, ok)
    BY <2>1, <2>3, <2>5, InformedStep DEF getGoogleUserInfo
  <2>6. CASE getWeChatUserInfo(c, ok)
    BY <2>1, <2>3, <2>6, InformedStep DEF getWeChatUserInfo
  <2> QED
    BY <1>3, <2>4, <2>5, <2>6
<1> QED
  BY <1>1, <1>2, <1>3 DEF ComingBack

(* A login that finds its identity answers with the user of the row.       *)
LEMMA FindIdentityStep ==
  ASSUME SignUpInv, NEW c \in SignIns, FindIdentity(c) \/ FindIdentityFails(c)
  PROVE  SignUpInv'
<1>1. CallRight(signIn[c]) /\ signIn[c] \in SignInRecords
  BY DEF SignUpInv, CallsRight
<1>2. /\ cookie' \in [Browsers -> SignIns \cup {NoRecord}] /\ signIn[c].pc = "looking"
      /\ UNCHANGED <<people, identity, answered, loose>>
  BY DEF FindIdentity, FindIdentityFails, SignUpInv, TablesTyped
<1>3. CASE FindIdentityFails(c)
  BY <1>2, <1>3, CallGoes DEF FindIdentityFails, SignInPCs
<1>4. CASE FindIdentity(c)
  <2> DEFINE x == signIn[c].identity
  <2>1. x \in Identities
    BY <1>1, <1>2 DEF CallRight, LoginPCs
  <2>2. CASE identity[x] = NoRecord
    <3>1. SignInGoes(c, "mailing")
      BY <1>4, <2>2 DEF FindIdentity, SignInGoes
    <3> QED
      BY <1>2, <3>1, CallGoes DEF SignInPCs
  <2>3. CASE identity[x] # NoRecord
    <3>1. identity[x] \in IdentityRows
      BY <2>1, <2>3 DEF SignUpInv, TablesTyped
    <3>2. PICK u \in People : u = identity[x].user
      BY <3>1 DEF IdentityRows
    <3> DEFINE r == [signIn[c] EXCEPT !.pc = "signing", !.user = u]
    <3>3. signIn' = [signIn EXCEPT ![c] = r]
      BY <1>4, <2>3, <3>2 DEF FindIdentity
    <3>4. u \in 0..MaxPeople
      BY SignUpAssumption DEF People
    <3>5. r \in SignInRecords /\ r.pc = "signing" /\ r.user = u /\ r.identity = x
      BY <1>1, <3>4 DEF SignInRecords, SignInPCs
    <3> HIDE DEF r
    <3>6. CallRight(r)
      BY <2>1, <2>3, <3>2, <3>5 DEF CallRight, LoginPCs, BoundTo
    <3> QED
      BY <1>2, <3>3, <3>6, CallMoves
  <2> QED
    BY <2>2, <2>3
<1> QED
  BY <1>3, <1>4

(* A login looks for a user with the e-mail of the identity.               *)
LEMMA FindByMailStep ==
  ASSUME SignUpInv, NEW c \in SignIns, NEW ok \in BOOLEAN, FindByMail(c, ok)
  PROVE  SignUpInv'
<1>1. CallRight(signIn[c]) /\ signIn[c] \in SignInRecords
  BY DEF SignUpInv, CallsRight
<1>2. /\ cookie' \in [Browsers -> SignIns \cup {NoRecord}] /\ signIn[c].pc = "mailing"
      /\ UNCHANGED <<people, identity, answered, loose>>
  BY DEF FindByMail, SignUpInv, TablesTyped
<1> DEFINE m == signIn[c].mail
<1>3. \/ /\ m # NoMail
         /\ \E u \in UserWith(m) : signIn' = [signIn EXCEPT ![c].pc = "binding", ![c].user = u]
      \/ signIn' = [signIn EXCEPT ![c].pc = "creating"]
  BY DEF FindByMail
<1>4. CASE signIn' = [signIn EXCEPT ![c].pc = "creating"]
  BY <1>2, <1>4, CallGoes DEF SignInGoes, SignInPCs
<1>5. CASE /\ m # NoMail
           /\ \E u \in UserWith(m) : signIn' = [signIn EXCEPT ![c].pc = "binding", ![c].user = u]
  <2>1. PICK u \in UserWith(m) : signIn' = [signIn EXCEPT ![c].pc = "binding", ![c].user = u]
    BY <1>5
  <2> DEFINE r == [signIn[c] EXCEPT !.pc = "binding", !.user = u]
  <2>2. u \in People /\ people[u] = m /\ u \in 0..MaxPeople
    BY SignUpAssumption DEF UserWith, People
  <2>3. m \in AllMails
    BY <1>1, <1>2, <1>5 DEF CallRight
  <2>4. signIn' = [signIn EXCEPT ![c] = r]
    BY <2>1
  <2>5. /\ r \in SignInRecords /\ r.pc = "binding" /\ r.user = u /\ r.mail = m
        /\ r.identity = signIn[c].identity
    BY <1>1, <2>2 DEF SignInRecords, SignInPCs
  <2> HIDE DEF r
  <2>6. CallRight(r)
    BY <1>1, <1>2, <2>2, <2>3, <2>5 DEF CallRight, LoginPCs
  <2> QED
    BY <1>2, <2>4, <2>6, CallMoves
<1> QED
  BY <1>3, <1>4, <1>5

(* Register looks for a user with the e-mail.                              *)
LEMMA RegisterStep ==
  ASSUME SignUpInv, NEW c \in SignIns, NEW m \in Mails, Register(c, m)
  PROVE  SignUpInv'
<1> DEFINE p == IF UserWith(m) = {} THEN "registering" ELSE "refused"
           r == [signIn[c] EXCEPT !.pc = p, !.mail = m]
<1>1. signIn[c] \in SignInRecords /\ m \in AllMails /\ p \in {"registering", "refused"}
  BY DEF SignUpInv, CallsRight, AllMails
<1>2. /\ signIn' = [signIn EXCEPT ![c] = r]
      /\ UNCHANGED <<people, identity, cookie, answered, loose>>
  BY DEF Register
<1> HIDE DEF p
<1>3. r \in SignInRecords /\ r.pc = p /\ r.mail = m
  BY <1>1 DEF SignInRecords, SignInPCs
<1> HIDE DEF r
<1>4. CallRight(r)
  BY <1>1, <1>3 DEF CallRight, LoginPCs
<1>5. cookie' \in [Browsers -> SignIns \cup {NoRecord}]
  BY <1>2 DEF SignUpInv, TablesTyped
<1> QED
  BY <1>2, <1>4, <1>5, CallMoves

(* The id of a new user is that of no user.                                *)
LEMMA NextIDIsFree ==
  ASSUME HasRoom
  PROVE  NextID \in People /\ people[NextID] = NoRecord
<1> DEFINE Free == {u \in People : people[u] = NoRecord}
<1>1. MaxPeople \in Nat /\ Free \in SUBSET (1..MaxPeople) /\ Free # {}
  BY SignUpAssumption DEF People, HasRoom
<1>2. PICK u \in Free : \A w \in Free : u <= w
  BY <1>1, LeastIndex
<1>3. \A v \in 1..(u - 1) : people[v] # NoRecord
  <2> SUFFICES ASSUME NEW v \in 1..(u - 1), people[v] = NoRecord  PROVE FALSE
    OBVIOUS
  <2>1. u \in Nat /\ u <= MaxPeople /\ v \in Nat /\ 1 <= v /\ v < u
    BY <1>1
  <2>2. v \in Free
    BY <1>1, <2>1 DEF People
  <2> QED
    BY <1>2, <2>1, <2>2
<1>4. \E w \in People : people[w] = NoRecord /\ \A v \in 1..(w - 1) : people[v] # NoRecord
  BY <1>3
<1> QED
  BY <1>4 DEF NextID

(* A new user, with an e-mail nobody has, leaves alone what is known of    *)
(* the others; the call that made it goes on as r says.                    *)
LEMMA PersonAdded ==
  ASSUME SignUpInv, NEW c \in SignIns, NEW r, NEW n \in People, NEW m \in AllMails,
         people[n] = NoRecord, UserWith(m) = {},
         people' = [people EXCEPT ![n] = m],
         signIn' = [signIn EXCEPT ![c] = r],
         r \in SignInRecords,
         \/ r.pc = "done"
         \/ r.pc = "binding" /\ r.user = n /\ r.mail = m /\ r.identity \in Identities,
         UNCHANGED <<identity, cookie, answered, loose>>
  PROVE  SignUpInv'
<1>1. people \in [People -> AllMails \cup {NoRecord}] /\ m # NoRecord
  BY SignUpAssumption DEF SignUpInv, TablesTyped
<1>2. people' \in [People -> AllMails \cup {NoRecord}] /\ people'[n] = m
      /\ \A u \in People \ {n} : people'[u] = people[u]
  BY <1>1
<1>3. \A u \in People : people[u] # NoRecord => people'[u] = people[u]
  BY <1>2
<1>4. TablesTyped'
  BY <1>2 DEF SignUpInv, TablesTyped
<1>5. MailsUnique'
  BY <1>1, <1>2 DEF SignUpInv, MailsUnique, UserWith
<1>6. RowsHaveMails'
  <2>1. \A x \in Identities : identity[x] # NoRecord =>
           identity[x].user \in People /\ identity[x].mail \in AllMails
    BY DEF SignUpInv, TablesTyped, IdentityRows
  <2> QED
    BY <1>3, <2>1, SignUpAssumption DEF SignUpInv, RowsHaveMails
<1>7. AnswersRight'
  BY DEF SignUpInv, AnswersRight, BoundTo
<1>8. CallsRight'
  <2>1. signIn \in [SignIns -> SignInRecords]
    BY DEF SignUpInv, CallsRight
  <2>2. /\ signIn' \in [SignIns -> SignInRecords] /\ signIn'[c] = r
        /\ \A d \in SignIns \ {c} : signIn'[d] = signIn[d]
    BY <2>1
  <2>3. CallRight(signIn[c])'
    BY <1>2, <2>2, SignInFields DEF CallRight, LoginPCs
  <2>4. ASSUME NEW d \in SignIns \ {c}
        PROVE  CallRight(signIn[d])'
    <3>1. CallRight(signIn[d]) /\ signIn'[d] = signIn[d]
      BY <2>2 DEF SignUpInv, CallsRight
    <3>2. ASSUME signIn[d].pc = "binding"
          PROVE  people'[signIn[d].user] = signIn[d].mail
      BY <1>3, <3>1, <3>2, SignUpAssumption DEF CallRight
    <3> QED
      BY <3>1, <3>2 DEF CallRight, BoundTo
  <2> QED
    BY <2>2, <2>3, <2>4 DEF CallsRight
<1> QED
  BY <1>4, <1>5, <1>6, <1>7, <1>8 DEF SignUpInv

(* A login creates the user it will bind.                                  *)
LEMMA CreateUserStep ==
  ASSUME SignUpInv, NEW c \in SignIns, CreateUser(c)
  PROVE  SignUpInv'
<1>1. /\ CallRight(signIn[c]) /\ signIn[c] \in SignInRecords
      /\ cookie' \in [Browsers -> SignIns \cup {NoRecord}]
  BY DEF SignUpInv, CallsRight, TablesTyped, CreateUser
<1>2. /\ signIn[c].pc = "creating" /\ HasRoom /\ UNCHANGED <<identity, cookie, answered, loose>>
  BY DEF CreateUser
<1> DEFINE m == signIn[c].mail
<1>3. CASE m = NoMail \/ UserWith(m) # {}
  BY <1>1, <1>2, <1>3, CallGoes DEF CreateUser, SignInPCs
<1>4. CASE ~(m = NoMail \/ UserWith(m) # {})
  <2>1. PICK n \in People : n = NextID /\ people[n] = NoRecord
    BY <1>2, NextIDIsFree
  <2> DEFINE r == [signIn[c] EXCEPT !.pc = "binding", !.user = n]
  <2>2. people' = [people EXCEPT ![n] = m] /\ signIn' = [signIn EXCEPT ![c] = r]
    BY <1>4, <2>1 DEF CreateUser
  <2>3. m \in AllMails /\ signIn[c].identity \in Identities /\ n \in 0..MaxPeople
    BY <1>1, <1>2, <1>4, SignUpAssumption DEF CallRight, LoginPCs, People
  <2>4. /\ r \in SignInRecords /\ r.pc = "binding" /\ r.user = n /\ r.mail = m
        /\ r.identity = signIn[c].identity
    BY <1>1, <2>3 DEF SignInRecords, SignInPCs
  <2> HIDE DEF r
  <2> QED
    BY <1>2, <1>4, <2>1, <2>2, <2>3, <2>4, PersonAdded
<1> QED
  BY <1>3, <1>4

(* A registration creates its user.                                        *)
LEMMA RegisterUserStep ==
  ASSUME SignUpInv, NEW c \in SignIns, RegisterUser(c)
  PROVE  SignUpInv'
<1>1. /\ CallRight(signIn[c]) /\ signIn[c] \in SignInRecords
      /\ cookie' \in [Browsers -> SignIns \cup {NoRecord}]
  BY DEF SignUpInv, CallsRight, TablesTyped, RegisterUser
<1>2. /\ signIn[c].pc = "registering" /\ HasRoom
      /\ UNCHANGED <<identity, cookie, answered, loose>>
  BY DEF RegisterUser
<1> DEFINE m == signIn[c].mail
<1>3. CASE UserWith(m) # {}
  BY <1>1, <1>2, <1>3, CallGoes DEF RegisterUser, SignInPCs
<1>4. CASE UserWith(m) = {}
  <2>1. PICK n \in People : n = NextID /\ people[n] = NoRecord
    BY <1>2, NextIDIsFree
  <2> DEFINE r == [signIn[c] EXCEPT !.pc = "done"]
  <2>2. people' = [people EXCEPT ![n] = m] /\ signIn' = [signIn EXCEPT ![c] = r]
    BY <1>4, <2>1 DEF RegisterUser, SignInGoes
  <2>3. m \in AllMails /\ "done" \in SignInPCs
    BY <1>1, <1>2 DEF CallRight, SignInPCs
  <2>4. r \in SignInRecords /\ r.pc = "done"
    BY <1>1, <2>3, SignInFields
  <2> HIDE DEF r
  <2> QED
    BY <1>2, <1>4, <2>1, <2>2, <2>3, <2>4, PersonAdded
<1> QED
  BY <1>3, <1>4

(* Rows of identities come, and go, when those still counted on stay with  *)
(* their users; one call at most moves, to where r says.                   *)
LEMMA BindingsKept ==
  ASSUME SignUpInv,
         identity' \in [Identities -> IdentityRows \cup {NoRecord}],
         loose \subseteq loose', loose' \subseteq Identities,
         \A x \in Identities : \A u : x \notin loose' /\ BoundTo(x, u) => BoundTo(x, u)',
         RowsHaveMails',
         UNCHANGED <<people, cookie, answered>>,
         \/ UNCHANGED signIn
         \/ \E c \in SignIns, r \in SignInRecords :
              /\ signIn' = [signIn EXCEPT ![c] = r]
              /\ r.pc = "signing" /\ r.identity \in Identities /\ r.user \in People
              /\ r.identity \notin loose' =>
                   identity'[r.identity] # NoRecord /\ identity'[r.identity].user = r.user
  PROVE  SignUpInv'
<1>1. TablesTyped' /\ MailsUnique'
  BY DEF SignUpInv, TablesTyped, MailsUnique
<1>2. AnswersRight'
  <2>1. \A a \in answered : a.identity \in Identities
    BY DEF SignUpInv, TablesTyped
  <2> QED
    BY <2>1 DEF SignUpInv, AnswersRight
<1>3. ASSUME NEW d \in SignIns, signIn'[d] = signIn[d]
      PROVE  CallRight(signIn[d])'
  <2>1. CallRight(signIn[d])
    BY DEF SignUpInv, CallsRight
  <2>2. ASSUME signIn[d].pc = "signing"
        PROVE  signIn[d].identity \notin loose' => BoundTo(signIn[d].identity, signIn[d].user)'
    <3>1. signIn[d].identity \in Identities
      BY <2>1, <2>2 DEF CallRight, LoginPCs
    <3>2. signIn[d].identity \notin loose => BoundTo(signIn[d].identity, signIn[d].user)
      BY <2>1, <2>2 DEF CallRight
    <3> QED
      BY <1>3, <3>1, <3>2 DEF BoundTo
  <2> QED
    BY <1>3, <2>1, <2>2 DEF CallRight
<1>4. CallsRight'
  <2>1. signIn \in [SignIns -> SignInRecords]
    BY DEF SignUpInv, CallsRight
  <2>2. CASE UNCHANGED signIn
    BY <1>3, <2>1, <2>2 DEF CallsRight
  <2>3. CASE \E c \in SignIns, r \in SignInRecords :
               /\ signIn' = [signIn EXCEPT ![c] = r]
               /\ r.pc = "signing" /\ r.identity \in Identities /\ r.user \in People
               /\ r.identity \notin loose' =>
                   identity'[r.identity] # NoRecord /\ identity'[r.identity].user = r.user
    <3>1. PICK c \in SignIns, r \in SignInRecords :
               /\ signIn' = [signIn EXCEPT ![c] = r]
               /\ r.pc = "signing" /\ r.identity \in Identities /\ r.user \in People
               /\ r.identity \notin loose' =>
                   identity'[r.identity] # NoRecord /\ identity'[r.identity].user = r.user
      BY <2>3
    <3>2. /\ signIn' \in [SignIns -> SignInRecords] /\ signIn'[c] = r
          /\ \A d \in SignIns \ {c} : signIn'[d] = signIn[d]
      BY <2>1, <3>1
    <3>3. CallRight(signIn[c])'
      BY <3>1, <3>2 DEF CallRight, LoginPCs, BoundTo
    <3> QED
      BY <1>3, <3>2, <3>3 DEF CallsRight
  <2> QED
    BY <2>2, <2>3
<1> QED
  BY <1>1, <1>2, <1>4 DEF SignUpInv

(* The row a login stores, or finds stored with its e-mail, is of the user *)
(* with that e-mail, for e-mails are unique.                               *)
LEMMA CreateIdentityStep ==
  ASSUME SignUpInv, NEW c \in SignIns, NEW ok \in BOOLEAN, CreateIdentity(c, ok)
  PROVE  SignUpInv'
<1> DEFINE x == signIn[c].identity
           u == signIn[c].user
           m == signIn[c].mail
           r == [signIn[c] EXCEPT !.pc = "signing"]
<1>1. /\ CallRight(signIn[c]) /\ signIn[c] \in SignInRecords /\ signIn[c].pc = "binding"
      /\ UNCHANGED <<people, cookie, answered>> /\ signIn' = [signIn EXCEPT ![c] = r]
  BY DEF SignUpInv, CallsRight, CreateIdentity, SignInGoes
<1>2. x \in Identities /\ u \in People /\ m \in AllMails /\ people[u] = m /\ m # NoRecord
  BY <1>1, SignUpAssumption DEF CallRight, LoginPCs
<1>3. r \in SignInRecords /\ r.pc = "signing" /\ r.identity = x /\ r.user = u
  <2>1. "signing" \in SignInPCs
    BY DEF SignInPCs
  <2> QED
    BY <1>1, <2>1, SignInFields
<1> HIDE DEF r
<1>4. /\ identity \in [Identities -> IdentityRows \cup {NoRecord}] /\ loose \subseteq Identities
      /\ RowsHaveMails
  BY DEF SignUpInv, TablesTyped
<1>5. CASE identity[x] = NoRecord /\ ok
  <2> DEFINE row == [user |-> u, mail |-> m]
  <2>1. identity' = [identity EXCEPT ![x] = row] /\ loose' = loose
    BY <1>5 DEF CreateIdentity
  <2>2. row \in IdentityRows /\ row.user = u /\ row.mail = m /\ row # NoRecord
    BY <1>2, SignUpAssumption DEF IdentityRows
  <2> HIDE DEF row
  <2>3. /\ identity' \in [Identities -> IdentityRows \cup {NoRecord}] /\ identity'[x] = row
        /\ \A y \in Identities \ {x} : identity'[y] = identity[y]
    BY <1>2, <1>4, <2>1, <2>2
  <2>4. \A y \in Identities : \A v : y \notin loose' /\ BoundTo(y, v) => BoundTo(y, v)'
    BY <1>5, <2>3 DEF BoundTo
  <2>5. RowsHaveMails'
    BY <1>1, <1>2, <1>4, <2>2, <2>3 DEF RowsHaveMails
  <2>6. identity'[r.identity] # NoRecord /\ identity'[r.identity].user = r.user
    BY <1>3, <2>2, <2>3
  <2> QED
    BY <1>1, <1>2, <1>3, <1>4, <2>1, <2>3, <2>4, <2>5, <2>6, BindingsKept
<1>6. CASE identity[x] # NoRecord /\ identity[x].mail = m
  <2>1. identity' = identity /\ loose' = loose
    BY <1>6 DEF CreateIdentity
  <2>2. identity[x].user \in People /\ people[identity[x].user] = m
    BY <1>2, <1>4, <1>6 DEF IdentityRows, RowsHaveMails
  <2>3. identity[x].user = u
    BY <1>2, <2>2 DEF SignUpInv, MailsUnique
  <2>4. \A y \in Identities : \A v : y \notin loose' /\ BoundTo(y, v) => BoundTo(y, v)'
    BY <2>1 DEF BoundTo
  <2>5. RowsHaveMails'
    BY <1>1, <1>4, <2>1 DEF RowsHaveMails
  <2>6. identity'[r.identity] # NoRecord /\ identity'[r.identity].user = r.user
    BY <1>3, <1>6, <2>1, <2>3
  <2> QED
    BY <1>1, <1>2, <1>3, <1>4, <2>1, <2>4, <2>5, <2>6, BindingsKept
<1>7. CASE (identity[x] = NoRecord /\ ~ok) \/ (identity[x] # NoRecord /\ identity[x].mail # m)
  <2>1. identity' = identity /\ loose' = loose \cup {x}
    BY <1>7 DEF CreateIdentity
  <2>2. \A y \in Identities : \A v : y \notin loose' /\ BoundTo(y, v) => BoundTo(y, v)'
    BY <2>1 DEF BoundTo
  <2>3. RowsHaveMails'
    BY <1>1, <1>4, <2>1 DEF RowsHaveMails
  <2>4. r.identity \in loose'
    BY <1>3, <2>1
  <2> QED
    BY <1>1, <1>2, <1>3, <1>4, <2>1, <2>2, <2>3, <2>4, BindingsKept
<1> QED
  BY <1>5, <1>6, <1>7

(* A login answers with the user it found.                                 *)
LEMMA AnswerLoginStep ==
  ASSUME SignUpInv, NEW c \in SignIns, NEW ok \in BOOLEAN, AnswerLogin(c, ok)
  PROVE  SignUpInv'
<1> DEFINE p == IF ok THEN "done" ELSE "refused"
           r == [signIn[c] EXCEPT !.pc = p]
           a == [identity |-> signIn[c].identity, user |-> signIn[c].user]
<1>1. /\ CallRight(signIn[c]) /\ signIn[c] \in SignInRecords /\ signIn[c].pc = "signing"
      /\ UNCHANGED <<people, identity, cookie, loose>> /\ signIn' = [signIn EXCEPT ![c] = r]
  BY DEF SignUpInv, CallsRight, AnswerLogin, SignInGoes
<1>2. answered' \subseteq answered \cup {a}
  BY DEF AnswerLogin
<1>3. p \in SignInPCs /\ p \notin LoginPCs /\ p # "registering"
  BY DEF SignInPCs, LoginPCs
<1> HIDE DEF p
<1>4. r \in SignInRecords /\ r.pc = p
  BY <1>1, <1>3, SignInFields
<1> HIDE DEF r
<1>5. /\ a \in [identity : Identities, user : People]
      /\ a.identity \notin loose => BoundTo(a.identity, a.user)
  BY <1>1 DEF CallRight, LoginPCs
<1> HIDE DEF a
<1>6. TablesTyped'
  BY <1>1, <1>2, <1>5 DEF SignUpInv, TablesTyped
<1>7. AnswersRight'
  BY <1>1, <1>2, <1>5 DEF SignUpInv, AnswersRight, BoundTo
<1>8. MailsUnique' /\ RowsHaveMails'
  BY <1>1 DEF SignUpInv, MailsUnique, RowsHaveMails
<1>9. CallsRight'
  <2>1. signIn \in [SignIns -> SignInRecords]
    BY DEF SignUpInv, CallsRight
  <2>2. /\ signIn' \in [SignIns -> SignInRecords] /\ signIn'[c] = r
        /\ \A d \in SignIns \ {c} : signIn'[d] = signIn[d]
    BY <1>1, <1>4, <2>1
  <2>3. CallRight(signIn[c])'
    BY <1>3, <1>4, <2>2 DEF CallRight, LoginPCs
  <2>4. ASSUME NEW d \in SignIns \ {c}
        PROVE  CallRight(signIn[d])'
    BY <1>1, <2>2 DEF SignUpInv, CallsRight, CallRight, BoundTo
  <2> QED
    BY <2>2, <2>3, <2>4 DEF CallsRight
<1> QED
  BY <1>6, <1>7, <1>8, <1>9 DEF SignUpInv

(* An identity is unbound.                                                 *)
LEMMA UnbindStep ==
  ASSUME SignUpInv, NEW u \in People, NEW p, UnbindOAuth(u, p)
  PROVE  SignUpInv'
<1>1. PICK bound \in SUBSET Identities :
        /\ identity' = [x \in Identities |-> IF x \in bound THEN NoRecord ELSE identity[x]]
        /\ loose' = loose \cup bound
        /\ UNCHANGED <<people, cookie, signIn, answered>>
  BY DEF UnbindOAuth
<1>2. /\ identity \in [Identities -> IdentityRows \cup {NoRecord}] /\ loose \subseteq Identities
      /\ RowsHaveMails
  BY DEF SignUpInv, TablesTyped
<1>3. /\ identity' \in [Identities -> IdentityRows \cup {NoRecord}]
      /\ \A x \in Identities \ bound : identity'[x] = identity[x]
      /\ \A x \in bound : identity'[x] = NoRecord
  BY <1>1, <1>2
<1>4. \A x \in Identities : \A v : x \notin loose' /\ BoundTo(x, v) => BoundTo(x, v)'
  BY <1>1, <1>3 DEF BoundTo
<1>5. RowsHaveMails'
  BY <1>1, <1>2, <1>3 DEF RowsHaveMails
<1> QED
  BY <1>1, <1>2, <1>3, <1>4, <1>5, BindingsKept

(* The invariant of sign-up holds at the beginning.                        *)
LEMMA SignUpInitInv == SignUpInit => SignUpInv
<1> SUFFICES ASSUME SignUpInit  PROVE SignUpInv
  OBVIOUS
<1>1. SignInStart \in SignInRecords /\ SignInStart.pc = "idle"
  BY SignUpAssumption DEF SignInStart, SignInRecords, SignInPCs
<1>2. TablesTyped
  BY DEF SignUpInit, TablesTyped
<1>3. signIn = [c \in SignIns |-> SignInStart]
  BY DEF SignUpInit
<1>4. CallsRight
  BY <1>1, <1>3 DEF CallsRight, CallRight, LoginPCs
<1>5. MailsUnique /\ RowsHaveMails /\ AnswersRight
  BY DEF SignUpInit, MailsUnique, RowsHaveMails, AnswersRight
<1> QED
  BY <1>2, <1>4, <1>5 DEF SignUpInv

(* The invariant of sign-up is kept by every step.                         *)
LEMMA SigningUpStep ==
  ASSUME SignUpInv, NEW c \in SignIns, SigningUp(c)
  PROVE  SignUpInv'
<1>1. ASSUME NEW b \in Browsers, NEW x \in Identities, GoingAway(c, b, x)
      PROVE  SignUpInv'
  BY <1>1, LeaveStep DEF GoingAway, GitHubAuth, GoogleAuth, WeChatAuth
<1>2. ASSUME NEW ok \in BOOLEAN, FindByMail(c, ok) \/ CreateIdentity(c, ok) \/ AnswerLogin(c, ok)
      PROVE  SignUpInv'
  BY <1>2, FindByMailStep, CreateIdentityStep, AnswerLoginStep
<1> QED
  BY <1>1, <1>2, RegisterStep, ComingBackStep, FindIdentityStep, CreateUserStep, RegisterUserStep
     DEF SigningUp

(* The invariant of sign-up holds always.                                  *)
LEMMA SignUpInvHolds == SignUpSpec => []SignUpInv
<1>1. SignUpInv /\ [SignUpNext]_signUpVars => SignUpInv'
  <2>1. ASSUME SignUpInv, UNCHANGED signUpVars  PROVE SignUpInv'
    BY <2>1 DEF signUpVars, SignUpInv, TablesTyped, CallsRight, CallRight, MailsUnique,
                RowsHaveMails, AnswersRight, BoundTo
  <2> QED
    BY <2>1, SigningUpStep, UnbindStep DEF SignUpNext
<1> QED
  BY <1>1, SignUpInitInv, PTL DEF SignUpSpec

(* Types of sign-up and logins: in particular a login that is answered     *)
(* names a user that there is, and an identity is bound to one.            *)
THEOREM SignUpTypeCorrect == SignUpSpec => []SignUpTypeOK
<1>1. SignUpInv => SignUpTypeOK
  <2> SUFFICES ASSUME SignUpInv  PROVE SignUpTypeOK
    OBVIOUS
  <2>1. \A x \in Identities : identity[x] # NoRecord => identity[x].user \in People
    BY DEF SignUpInv, TablesTyped, IdentityRows
  <2>2. \A c \in SignIns : signIn[c].pc \in SignInPCs /\ signIn[c].user \in 0..MaxPeople
    BY SignInFields DEF SignUpInv, CallsRight
  <2> QED
    BY <2>1, <2>2 DEF SignUpInv, TablesTyped, SignUpTypeOK
<1> QED
  BY <1>1, SignUpInvHolds, PTL

(* All the logins of an identity that is not loose are answered with one   *)
(* user, however two first logins interleave: the unique e-mail of the     *)
(* users, and of the row, decides which.                                   *)
THEOREM LoginsReachOneUser == SignUpSpec => []OneUserPerIdentity
<1>1. SignUpInv => OneUserPerIdentity
  BY DEF SignUpInv, AnswersRight, BoundTo, OneUserPerIdentity
<1> QED
  BY <1>1, SignUpInvHolds, PTL
-------------------------------------------------------------------------------
TableRows == [Fields -> FieldValues \cup {Cleared}]

AdminRecords ==
  [pc : AdminPCs, id : RowIDs \cup {NoEntry}, row : TableRows \cup {NoEntry}, pairs : SUBSET Pairs]

WriterRight(r) == r \in AdminRecords /\ (r.pc \in {"found", "linking"} => r.id \in RowIDs)

WritersRight == \A c \in AdminCalls : WriterRight(admin[c])

PairsExist == pairs \subseteq {q \in Pairs : Exists(q[1]) /\ Exists(q[2])}

(* A request remembers rows and pairs of the tables, and a pair of the     *)
(* tables has both its rows, through every delay between two statements.   *)
AdminInv ==
  /\ table \in [RowIDs -> TableRows \cup {NoEntry}]
  /\ admin \in [AdminCalls -> AdminRecords] /\ WritersRight
  /\ PairsExist

(* What the fields of a request's record hold.                             *)
LEMMA AdminFields ==
  ASSUME NEW r \in AdminRecords
  PROVE  /\ r.pc \in AdminPCs /\ r.id \in RowIDs \cup {NoEntry} /\ r.pairs \subseteq Pairs
         /\ \A p \in AdminPCs : /\ [r EXCEPT !.pc = p] \in AdminRecords
                                /\ [r EXCEPT !.pc = p].pc = p
                                /\ [r EXCEPT !.pc = p].id = r.id
BY DEF AdminRecords

(* A request moves on. *)
LEMMA WriterMoves ==
  ASSUME AdminInv, NEW c \in AdminCalls, NEW r, WriterRight(r),
         admin' = [admin EXCEPT ![c] = r]
  PROVE  admin' \in [AdminCalls -> AdminRecords] /\ WritersRight'
<1>1. /\ admin' \in [AdminCalls -> AdminRecords] /\ admin'[c] = r
      /\ \A d \in AdminCalls \ {c} : admin'[d] = admin[d]
  BY DEF AdminInv, WriterRight
<1>2. ASSUME NEW d \in AdminCalls  PROVE WriterRight(admin'[d])
  BY <1>1 DEF AdminInv, WritersRight
<1> QED
  BY <1>1, <1>2 DEF WritersRight, WriterRight

(* A request that ends.                                                    *)
LEMMA WriterEnds ==
  ASSUME AdminInv, NEW c \in AdminCalls, NEW p \in {"created", "failed", "done"}, AdminGoes(c, p)
  PROVE  admin' \in [AdminCalls -> AdminRecords] /\ WritersRight'
<1> DEFINE r == [admin[c] EXCEPT !.pc = p]
<1>1. admin[c] \in AdminRecords /\ p \in AdminPCs /\ admin' = [admin EXCEPT ![c] = r]
  BY DEF AdminInv, AdminGoes, AdminPCs
<1>2. r \in AdminRecords /\ r.pc = p
  BY <1>1, AdminFields
<1> HIDE DEF r
<1>3. WriterRight(r)
  BY <1>2 DEF WriterRight
<1> QED
  BY <1>1, <1>3, WriterMoves

(* What a statement makes of a row is a row. *)
LEMMA RowsStayRows ==
  ASSUME NEW row \in TableRows, NEW F \in SUBSET Fields, NEW v \in FieldValues \cup {Cleared}
  PROVE  SetSent(row, F, v) \in TableRows /\ SetSentOrClear(row, F, v) \in TableRows
<1>1. SetSent(row, F, v) \in TableRows
  BY DEF SetSent, TableRows
<1>2. (IF "rpm" \in F THEN v ELSE Cleared) \in FieldValues \cup {Cleared}
  OBVIOUS
<1> QED
  BY <1>1, <1>2 DEF SetSentOrClear, TableRows

(* The row a request creates has every column.                             *)
LEMMA NewRow ==
  ASSUME NEW v \in FieldValues \cup {Cleared}, NEW r \in FieldValues \cup {Cleared}
  PROVE  [name |-> v, rpm |-> r] \in TableRows /\ [name |-> v, rpm |-> r] # NoEntry
<1>1. [name |-> v, rpm |-> r] \in TableRows
  BY DEF TableRows, Fields
<1> QED
  BY <1>1, AdminAssumption DEF TableRows

(* A row is created.                                                       *)
LEMMA CreateStep ==
  ASSUME AdminInv, NEW c \in AdminCalls, NEW i \in RowIDs, NEW v \in FieldValues,
         NEW r \in FieldValues \cup {Cleared}, NEW S, Create(c, i, v, r, S)
  PROVE  AdminInv'
<1> DEFINE row == [name |-> v, rpm |-> r]
           p == IF S = {} THEN "created" ELSE "linking"
           d == [admin[c] EXCEPT !.pc = p, !.id = i, !.pairs = S]
<1>1. /\ admin' = [admin EXCEPT ![c] = d] /\ table' = [table EXCEPT ![i] = row]
      /\ UNCHANGED pairs /\ S \subseteq Pairs /\ p \in AdminPCs
  BY DEF Create, PairsOf, AdminPCs
<1>2. row \in TableRows /\ row # NoEntry
  BY NewRow
<1> HIDE DEF row, p
<1>3. d \in AdminRecords /\ d.id = i
  BY <1>1 DEF AdminInv, AdminRecords
<1> HIDE DEF d
<1>4. WriterRight(d)
  BY <1>3 DEF WriterRight
<1>5. admin' \in [AdminCalls -> AdminRecords] /\ WritersRight'
  BY <1>1, <1>4, WriterMoves
<1>6. /\ table' \in [RowIDs -> TableRows \cup {NoEntry}] /\ table'[i] # NoEntry
      /\ \A j \in RowIDs \ {i} : table'[j] = table[j]
  BY <1>1, <1>2 DEF AdminInv
<1>7. PairsExist'
  BY <1>1, <1>6 DEF AdminInv, PairsExist, Pairs, Exists
<1> QED
  BY <1>5, <1>6, <1>7 DEF AdminInv

(* The pairs a creation asked for are written, or refused.                 *)
LEMMA CreatePairsStep ==
  ASSUME AdminInv, NEW c \in AdminCalls, NEW ok \in BOOLEAN, CreatePairs(c, ok)
  PROVE  AdminInv'
<1>1. AdminGoes(c, "created") \/ AdminGoes(c, "failed")
  BY DEF CreatePairs
<1>2. admin' \in [AdminCalls -> AdminRecords] /\ WritersRight'
  BY <1>1, WriterEnds
<1>3. admin[c].pairs \subseteq Pairs
  BY AdminFields DEF AdminInv
<1>4. PairsExist'
  BY <1>3 DEF CreatePairs, AdminInv, PairsExist, Exists
<1> QED
  BY <1>2, <1>4 DEF AdminInv, CreatePairs

(* An update or a link finds the row it is about.                          *)
LEMMA GetStep ==
  ASSUME AdminInv, NEW c \in AdminCalls, NEW i \in RowIDs, Get(c, i)
  PROVE  AdminInv'
<1> DEFINE d == [admin[c] EXCEPT !.pc = "found", !.id = i, !.row = table[i]]
<1>1. admin' = [admin EXCEPT ![c] = d] /\ UNCHANGED <<table, pairs>>
  BY DEF Get
<1>2. d \in AdminRecords /\ d.id = i
  BY DEF AdminInv, AdminRecords, AdminPCs
<1> HIDE DEF d
<1>3. WriterRight(d)
  BY <1>2 DEF WriterRight
<1>4. admin' \in [AdminCalls -> AdminRecords] /\ WritersRight'
  BY <1>1, <1>3, WriterMoves
<1> QED
  BY <1>1, <1>4 DEF AdminInv, PairsExist, Exists

(* A statement on the row that a request has found. *)
LEMMA StoreRowStep ==
  ASSUME AdminInv, NEW c \in AdminCalls, NEW i \in RowIDs, i = admin[c].id,
         NEW F, NEW v, NEW new \in TableRows, Store(c, F, v, new)
  PROVE  AdminInv'
<1>1. admin' \in [AdminCalls -> AdminRecords] /\ WritersRight'
  BY WriterEnds DEF Store
<1>2. table' = [table EXCEPT ![i] = new] /\ UNCHANGED pairs /\ new # NoEntry
  BY AdminAssumption DEF Store, TableRows
<1>3. /\ table' \in [RowIDs -> TableRows \cup {NoEntry}] /\ table'[i] # NoEntry
      /\ \A j \in RowIDs \ {i} : table'[j] = table[j]
  BY <1>2 DEF AdminInv
<1>4. PairsExist'
  BY <1>2, <1>3 DEF AdminInv, PairsExist, Pairs, Exists
<1> QED
  BY <1>1, <1>3, <1>4 DEF AdminInv

(* A row that exists has every column.                                     *)
LEMMA FoundRow ==
  ASSUME AdminInv, NEW c \in AdminCalls, NEW t, Found(c, t)
  PROVE  admin[c].id \in RowIDs /\ table[admin[c].id] \in TableRows
BY DEF Found, Exists, AdminInv, WritersRight, WriterRight

(* An update writes the columns it was asked for.                          *)
LEMMA UpdateStep ==
  ASSUME AdminInv, NEW c \in AdminCalls,
         \/ \E F \in SUBSET Fields, v \in FieldValues :
              UpdateGroup(c, F, v) \/ UpdateAccount(c, F, v) \/ UpdateUser(c, F, v)
         \/ DeleteUserRow(c)
  PROVE  AdminInv'
<1>1. CASE DeleteUserRow(c)
  <2>1. PICK i \in RowIDs : i = admin[c].id /\ table[i] \in TableRows
    BY <1>1, FoundRow DEF DeleteUserRow
  <2>2. SetSent(table[i], {"name"}, Cleared) \in TableRows
    BY <2>1, RowsStayRows DEF Fields
  <2> QED
    BY <1>1, <2>1, <2>2, StoreRowStep DEF DeleteUserRow
<1>2. ASSUME NEW F \in SUBSET Fields, NEW v \in FieldValues,
             UpdateGroup(c, F, v) \/ UpdateAccount(c, F, v) \/ UpdateUser(c, F, v)
      PROVE  AdminInv'
  <2>1. PICK i \in RowIDs : i = admin[c].id /\ table[i] \in TableRows
    BY <1>2, FoundRow DEF UpdateGroup, UpdateAccount, UpdateUser
  <2>2. SetSent(table[i], F, v) \in TableRows /\ SetSentOrClear(table[i], F, v) \in TableRows
    BY <2>1, RowsStayRows
  <2>3. CASE UpdateGroup(c, F, v)
    BY <2>1, <2>2, <2>3, StoreRowStep DEF UpdateGroup
  <2>4. CASE UpdateAccount(c, F, v)
    BY <2>1, <2>2, <2>4, StoreRowStep DEF UpdateAccount
  <2>5. CASE UpdateUser(c, F, v)
    BY <2>1, <2>2, <2>5, StoreRowStep DEF UpdateUser
  <2> QED
    BY <1>2, <2>3, <2>4, <2>5
<1> QED
  BY <1>1, <1>2

(* No pair is left of a row that is deleted. *)
LEMMA DeleteStep ==
  ASSUME AdminInv, NEW c \in AdminCalls, NEW refused \in BOOLEAN,
         DeleteGroup(c, refused) \/ DeleteAccount(c, refused)
  PROVE  AdminInv'
<1>1. PICK i \in RowIDs : i = admin[c].id
  BY FoundRow DEF DeleteGroup, DeleteAccount
<1>2. /\ table' = IF refused THEN table ELSE [table EXCEPT ![i] = NoEntry]
      /\ pairs' = IF refused THEN pairs ELSE pairs \ PairsOf(i)
      /\ AdminGoes(c, "failed") \/ AdminGoes(c, "done")
  BY <1>1 DEF DeleteGroup, DeleteAccount, Delete
<1>3. admin' \in [AdminCalls -> AdminRecords] /\ WritersRight'
  BY <1>2, WriterEnds
<1>4. CASE refused
  BY <1>2, <1>3, <1>4 DEF AdminInv, PairsExist, Exists
<1>5. CASE ~refused
  <2>1. /\ table' \in [RowIDs -> TableRows \cup {NoEntry}]
        /\ \A j \in RowIDs \ {i} : table'[j] = table[j]
    BY <1>2, <1>5 DEF AdminInv
  <2>2. ASSUME NEW q \in pairs'
        PROVE  q \in Pairs /\ table'[q[1]] # NoEntry /\ table'[q[2]] # NoEntry
    <3>1. q \in Pairs /\ Exists(q[1]) /\ Exists(q[2]) /\ q \notin PairsOf(i)
      BY <1>2, <1>5, <2>2 DEF AdminInv, PairsExist
    <3>2. q[1] \in RowIDs /\ q[2] \in RowIDs /\ i # q[1] /\ i # q[2]
      BY <3>1 DEF Pairs, PairsOf
    <3> QED
      BY <2>1, <3>1, <3>2 DEF Exists
  <2>3. PairsExist'
    BY <2>2 DEF PairsExist, Exists
  <2> QED
    BY <1>3, <2>1, <2>3 DEF AdminInv
<1> QED
  BY <1>4, <1>5

(* A group is given accounts, or loses some.                               *)
LEMMA AccountsStep ==
  ASSUME AdminInv, NEW c \in AdminCalls, NEW S, AddAccounts(c, S) \/ RemoveAccounts(c, S)
  PROVE  AdminInv'
<1>1. UNCHANGED table /\ (AdminGoes(c, "done") \/ AdminGoes(c, "failed"))
  BY DEF AddAccounts, RemoveAccounts
<1>2. admin' \in [AdminCalls -> AdminRecords] /\ WritersRight'
  BY <1>1, WriterEnds
<1>3. CASE RemoveAccounts(c, S)
  BY <1>1, <1>2, <1>3 DEF AdminInv, PairsExist, Exists, RemoveAccounts
<1>4. CASE AddAccounts(c, S)
  <2>1. PICK i \in RowIDs : i = admin[c].id
    BY <1>4, FoundRow DEF AddAccounts
  <2>2. Exists(i) /\ TableOf[i] = "groups" /\ S \subseteq PairsOf(i)
    BY <1>4, <2>1 DEF AddAccounts, Found
  <2>3. \A q \in S : q \in Pairs /\ q[1] = i
    BY <2>2 DEF PairsOf, Pairs
  <2>4. pairs' = pairs \/ (pairs' = pairs \cup S /\ \A q \in S : Exists(q[2]))
    BY <1>4 DEF AddAccounts
  <2>5. PairsExist'
    BY <1>1, <2>2, <2>3, <2>4 DEF AdminInv, PairsExist, Exists
  <2> QED
    BY <1>1, <1>2, <2>5 DEF AdminInv
<1> QED
  BY <1>3, <1>4

(* A write fails.                                                          *)
LEMMA WriteFailsStep ==
  ASSUME AdminInv, NEW c \in AdminCalls, WriteFails(c)
  PROVE  AdminInv'
BY WriterEnds DEF WriteFails, AdminInv, PairsExist, Exists

(* The invariant of the tables holds at the beginning.                     *)
LEMMA AdminInitInv == AdminInit => AdminInv
<1> SUFFICES ASSUME AdminInit  PROVE AdminInv
  OBVIOUS
<1>1. AdminStart \in AdminRecords /\ AdminStart.pc = "idle"
  BY DEF AdminStart, AdminRecords, AdminPCs
<1>2. admin = [c \in AdminCalls |-> AdminStart] /\ pairs = {}
  BY DEF AdminInit
<1>3. PICK v \in FieldValues : v = CHOOSE w \in FieldValues : TRUE
  BY AdminAssumption
<1>4. [f \in Fields |-> v] \in TableRows
  BY DEF TableRows
<1>5. table \in [RowIDs -> TableRows \cup {NoEntry}]
  BY <1>3, <1>4 DEF AdminInit
<1> QED
  BY <1>1, <1>2, <1>5 DEF AdminInv, WritersRight, WriterRight, PairsExist

(* The invariant of the tables holds always.                               *)
LEMMA AdminInvHolds == AdminSpec => []AdminInv
<1>1. ASSUME AdminInv, AdminNext  PROVE AdminInv'
  <2>1. PICK c \in AdminCalls :
          \/ \E i \in RowIDs, v \in FieldValues, r \in FieldValues \cup {Cleared} : \E S :
               Create(c, i, v, r, S)
          \/ \E i \in RowIDs : Get(c, i)
          \/ \E F \in SUBSET Fields, v \in FieldValues :
               UpdateGroup(c, F, v) \/ UpdateAccount(c, F, v) \/ UpdateUser(c, F, v)
          \/ \E S : AddAccounts(c, S) \/ RemoveAccounts(c, S)
          \/ \E ok \in BOOLEAN : CreatePairs(c, ok) \/ DeleteGroup(c, ok) \/ DeleteAccount(c, ok)
          \/ DeleteUserRow(c)
          \/ WriteFails(c)
    BY <1>1 DEF AdminNext, CreateGroup, CreateAccount, CreateUserRow
  <2> QED
    BY <1>1, <2>1, CreateStep, GetStep, UpdateStep, AccountsStep, CreatePairsStep, DeleteStep,
       WriteFailsStep
<1>2. ASSUME AdminInv, UNCHANGED adminVars  PROVE AdminInv'
  BY <1>2 DEF adminVars, AdminInv, WritersRight, WriterRight, PairsExist, Exists
<1> QED
  BY <1>1, <1>2, AdminInitInv, PTL DEF AdminSpec

(* Types of the administrators' tables: in particular a pair of a group    *)
(* and an account never outlives either of its rows.                       *)
THEOREM AdminTypeCorrect == AdminSpec => []AdminTypeOK
<1>1. AdminInv => AdminTypeOK
  <2> SUFFICES ASSUME AdminInv  PROVE AdminTypeOK
    OBVIOUS
  <2>1. \A i \in RowIDs : Exists(i) => table[i] \in TableRows
    BY DEF AdminInv, Exists
  <2>2. \A row \in TableRows : /\ row.name \in FieldValues \cup {Cleared}
                          /\ row.rpm \in FieldValues \cup {Cleared}
    BY DEF TableRows, Fields
  <2> QED
    BY <2>1, <2>2, AdminFields DEF AdminInv, PairsExist, AdminTypeOK
<1> QED
  BY <1>1, AdminInvHolds, PTL

(* What a statement makes of a row has the values sent, and the others.    *)
LEMMA SentColumns ==
  ASSUME NEW row \in TableRows, NEW F, NEW v
  PROVE  /\ SetSent(row, F, v).name = IF "name" \in F THEN v ELSE row.name
         /\ SetSent(row, F, v).rpm = IF "rpm" \in F THEN v ELSE row.rpm
         /\ SetSentOrClear(row, F, v).name = IF "name" \in F THEN v ELSE row.name
         /\ SetSentOrClear(row, F, v).rpm = IF "rpm" \in F THEN v ELSE Cleared
BY DEF SetSent, SetSentOrClear, TableRows, Fields

(* What a request last sent of a row that exists is a row. *)
SentRows ==
  /\ DOMAIN sent = RowIDs
  /\ \A i \in RowIDs : Exists(i) => sent[i] \in TableRows

ColumnsInv == SentRows /\ ColumnsHoldLastSent

(* An update that sends v for F keeps what others last sent, but for the   *)
(* limit of a group.                                                       *)
LEMMA StoreKeepsColumns ==
  ASSUME AdminInv, ColumnsInv, NEW c \in AdminCalls, NEW F \in SUBSET Fields,
         NEW v \in FieldValues \cup {Cleared}, NEW new,
         LET i == admin[c].id
         IN \/ Found(c, "groups") /\ new = SetSentOrClear(table[i], F, v)
            \/ Found(c, "accounts") /\ new = SetSent(table[i], F, v)
            \/ Found(c, "users") /\ new = SetSent(table[i], F, v),
         Store(c, F, v, new)
  PROVE  ColumnsInv'
<1>1. PICK i \in RowIDs : i = admin[c].id /\ table[i] \in TableRows /\ Exists(i)
  BY FoundRow DEF Found
<1>2. sent[i] \in TableRows /\ DOMAIN sent = RowIDs /\ DOMAIN table = RowIDs
  BY <1>1 DEF ColumnsInv, SentRows, AdminInv
<1>3. /\ table' = [table EXCEPT ![i] = new]
      /\ sent' = [sent EXCEPT ![i] = SetSent(sent[i], F, v)]
      /\ silent' = IF "rpm" \in F THEN silent \ {i} ELSE silent \cup {i}
  BY <1>1 DEF Store
<1>4. /\ table'[i] = new /\ sent'[i] = SetSent(sent[i], F, v) /\ DOMAIN sent' = RowIDs
      /\ \A j \in RowIDs : j # i => /\ table'[j] = table[j] /\ sent'[j] = sent[j]
                                   /\ (j \in silent' <=> j \in silent)
  BY <1>2, <1>3
<1>5. SetSent(sent[i], F, v) \in TableRows
  BY <1>2, RowsStayRows
<1>6. /\ new.name = SetSent(sent[i], F, v).name
      /\ new.rpm = IF TableOf[i] = "groups" /\ i \in silent' THEN Cleared
                   ELSE SetSent(sent[i], F, v).rpm
  <2>1. /\ table[i].name = sent[i].name
        /\ table[i].rpm = IF TableOf[i] = "groups" /\ i \in silent THEN Cleared ELSE sent[i].rpm
    BY <1>1 DEF ColumnsInv, ColumnsHoldLastSent
  <2>2. CASE TableOf[i] = "groups"
    <3>1. new = SetSentOrClear(table[i], F, v)
      BY <1>1, <2>2 DEF Found
    <3> QED
      BY <1>1, <1>2, <1>3, <2>1, <2>2, <3>1, SentColumns
  <2>3. CASE TableOf[i] # "groups"
    <3>1. new = SetSent(table[i], F, v)
      BY <1>1, <2>3 DEF Found
    <3> QED
      BY <1>1, <1>2, <1>3, <2>1, <2>3, <3>1, SentColumns
  <2> QED
    BY <2>2, <2>3
<1> QED
  BY <1>4, <1>5, <1>6 DEF ColumnsInv, SentRows, ColumnsHoldLastSent, Exists

(* Every statement keeps the columns as they were last sent. *)
LEMMA ColumnsStep ==
  ASSUME AdminInv, ColumnsInv, NEW c \in AdminCalls,
         \/ \E i \in RowIDs, v \in FieldValues, r \in FieldValues \cup {Cleared} : \E S :
              Create(c, i, v, r, S)
         \/ \E F \in SUBSET Fields, v \in FieldValues :
              UpdateGroup(c, F, v) \/ UpdateAccount(c, F, v) \/ UpdateUser(c, F, v)
         \/ DeleteUserRow(c)
         \/ \E refused \in BOOLEAN : DeleteGroup(c, refused) \/ DeleteAccount(c, refused)
         \/ UNCHANGED <<table, sent, silent>>
  PROVE  ColumnsInv'
<1>1. ASSUME NEW i \in RowIDs, NEW v \in FieldValues, NEW r \in FieldValues \cup {Cleared},
             NEW S, Create(c, i, v, r, S)
      PROVE  ColumnsInv'
  <2> DEFINE row == [name |-> v, rpm |-> r]
  <2>1. row \in TableRows
    BY NewRow
  <2>2. /\ table' = [table EXCEPT ![i] = row] /\ sent' = [sent EXCEPT ![i] = row]
        /\ silent' = silent \ {i}
    BY <1>1 DEF Create
  <2> HIDE DEF row
  <2>3. /\ table'[i] = row /\ sent'[i] = row /\ DOMAIN sent' = RowIDs
        /\ \A j \in RowIDs : j # i => /\ table'[j] = table[j] /\ sent'[j] = sent[j]
                                     /\ (j \in silent' <=> j \in silent)
    BY <2>2 DEF ColumnsInv, SentRows, AdminInv
  <2> QED
    BY <2>1, <2>2, <2>3 DEF ColumnsInv, SentRows, ColumnsHoldLastSent, Exists
<1>2. ASSUME NEW F \in SUBSET Fields, NEW v \in FieldValues,
             UpdateGroup(c, F, v) \/ UpdateAccount(c, F, v) \/ UpdateUser(c, F, v)
      PROVE  ColumnsInv'
  BY <1>2, StoreKeepsColumns DEF UpdateGroup, UpdateAccount, UpdateUser
<1>3. CASE DeleteUserRow(c)
  <2>1. {"name"} \in SUBSET Fields
    BY DEF Fields
  <2> QED
    BY <1>3, <2>1, StoreKeepsColumns DEF DeleteUserRow
<1>4. ASSUME NEW refused \in BOOLEAN, DeleteGroup(c, refused) \/ DeleteAccount(c, refused)
      PROVE  ColumnsInv'
  <2>1. PICK i \in RowIDs : i = admin[c].id
    BY <1>4, FoundRow DEF DeleteGroup, DeleteAccount
  <2>2. /\ table' = IF refused THEN table ELSE [table EXCEPT ![i] = NoEntry]
        /\ sent' = IF refused THEN sent ELSE [sent EXCEPT ![i] = NoEntry]
        /\ silent' = IF refused THEN silent ELSE silent \ {i}
    BY <1>4, <2>1 DEF DeleteGroup, DeleteAccount, Delete
  <2>3. CASE refused
    BY <2>2, <2>3 DEF ColumnsInv, SentRows, ColumnsHoldLastSent, Exists
  <2>4. CASE ~refused
    <3>1. /\ table'[i] = NoEntry /\ DOMAIN sent' = RowIDs
          /\ \A j \in RowIDs : j # i => /\ table'[j] = table[j] /\ sent'[j] = sent[j]
                                       /\ (j \in silent' <=> j \in silent)
      BY <2>2, <2>4 DEF ColumnsInv, SentRows, AdminInv
    <3> QED
      BY <3>1 DEF ColumnsInv, SentRows, ColumnsHoldLastSent, Exists
  <2> QED
    BY <2>3, <2>4
<1>5. CASE UNCHANGED <<table, sent, silent>>
  BY <1>5 DEF ColumnsInv, SentRows, ColumnsHoldLastSent, Exists
<1> QED
  BY <1>1, <1>2, <1>3, <1>4, <1>5

(* Updates that interleave bring no old value of a column back: a          *)
(* statement sets the columns sent in the row as it is, not as it was when *)
(* it was looked up.  What a group loses is its limit, to an update that   *)
(* does not send one.                                                      *)
THEOREM UpdatesKeepColumns == AdminSpec => []ColumnsHoldLastSent
<1>1. AdminInit => ColumnsInv
  <2> SUFFICES ASSUME AdminInit  PROVE ColumnsInv
    OBVIOUS
  <2>1. AdminInv
    BY AdminInitInv
  <2> QED
    BY <2>1 DEF AdminInit, AdminInv, ColumnsInv, SentRows, ColumnsHoldLastSent, Exists
<1>2. ASSUME AdminInv, ColumnsInv, [AdminNext]_adminVars  PROVE ColumnsInv'
  <2>1. CASE UNCHANGED adminVars
    BY <1>2, <2>1 DEF adminVars, ColumnsInv, SentRows, ColumnsHoldLastSent, Exists
  <2>2. CASE AdminNext
    <3>1. PICK c \in AdminCalls :
            \/ \E i \in RowIDs, v \in FieldValues, r \in FieldValues \cup {Cleared} : \E S :
                 Create(c, i, v, r, S)
            \/ \E F \in SUBSET Fields, v \in FieldValues :
                 UpdateGroup(c, F, v) \/ UpdateAccount(c, F, v) \/ UpdateUser(c, F, v)
            \/ DeleteUserRow(c)
            \/ \E refused \in BOOLEAN : DeleteGroup(c, refused) \/ DeleteAccount(c, refused)
            \/ UNCHANGED <<table, sent, silent>>
      <4>1. \A c, i, v, r, S :
              CreateGroup(c, i, v, r, S) \/ CreateAccount(c, i, v, r, S) => Create(c, i, v, r, S)
        BY DEF CreateGroup, CreateAccount
      <4>2. \A c, i, v, r : CreateUserRow(c, i, v, r) => Create(c, i, v, r, {})
        BY DEF CreateUserRow
      <4>3. \A c, i, S : Get(c, i) \/ AddAccounts(c, S) \/ RemoveAccounts(c, S) \/ WriteFails(c) =>
                           UNCHANGED <<table, sent, silent>>
        BY DEF Get, AddAccounts, RemoveAccounts, WriteFails
      <4>4. \A c, ok : CreatePairs(c, ok) => UNCHANGED <<table, sent, silent>>
        BY DEF CreatePairs
      <4> QED
        BY <2>2, <4>1, <4>2, <4>3, <4>4 DEF AdminNext
    <3> QED
      BY <1>2, <3>1, ColumnsStep
  <2> QED
    BY <1>2, <2>1, <2>2
<1>3. ColumnsInv => ColumnsHoldLastSent
  BY DEF ColumnsInv
<1> QED
  BY <1>1, <1>2, <1>3, AdminInvHolds, PTL DEF AdminSpec
-------------------------------------------------------------------------------
(* What an analysis can result in.                                         *)
Results ==
  {Classify(q) : q \in Questions} \cup RemoteProfiles \cup {defaultProfile, NoProfileYet}

AnalysisRecords ==
  [pc : AnalysisPCs, question : Questions \cup {NoProfileYet}, attempt : 0..MaxRetries,
   result : Results]

(* A profile no less confident than the local answer to some question with *)
(* that key.                                                               *)
Backed(k, p) ==
  /\ p.confidence \in Int
  /\ \E q \in Questions : KeyOf[q] = k /\ p.confidence >= ConfidenceOf[q]

(* Where there is a local answer, what a call has kept while it asks, and  *)
(* what it will store or has returned, is no less confident; locally no    *)
(* call asks.                                                              *)
AnalysisRight(r) ==
  /\ r \in AnalysisRecords
  /\ r.pc \in {"analyzing", "remote", "waiting", "storing", "done"} => r.question \in Questions
  /\ mode = "local" => r.pc \notin {"remote", "waiting"}
  /\ mode # "remote" /\ r.pc \in {"remote", "waiting", "storing", "done"} =>
       Backed(KeyOf[r.question], r.result)

AnalysesRight ==
  analysis \in [Analyses -> AnalysisRecords] /\ \A c \in Analyses : AnalysisRight(analysis[c])

CacheRight ==
  /\ profileCache \in [Keys -> Results]
  /\ mode # "remote" =>
       \A k \in Keys : profileCache[k] # NoProfileYet => Backed(k, profileCache[k])

FeedbackRecords == [pc : FeedbackPCs, satisfied : BOOLEAN]

Judged == {f \in Feedbacks : feedback[f].pc # "idle"}

Counted == {f \in Feedbacks : feedback[f].pc = "done"}

(* The counters never pass the calls that have come to raise them.         *)
CountsRight ==
  /\ feedback \in [Feedbacks -> FeedbackRecords]
  /\ counts \in [satisfied : Nat, unsatisfied : Nat, total : Nat]
  /\ counts.satisfied + counts.unsatisfied <= Cardinality(Judged)
  /\ counts.total <= Cardinality(Counted)

ComplexityInv ==
  mode \in {"local", "remote", "hybrid"} /\ AnalysesRight /\ CacheRight /\ CountsRight

(* What the fields of an analysis hold.                                    *)
LEMMA AnalysisFields ==
  ASSUME NEW r \in AnalysisRecords
  PROVE  /\ r.pc \in AnalysisPCs /\ r.question \in Questions \cup {NoProfileYet}
         /\ r.attempt \in 0..MaxRetries /\ r.result \in Results
BY DEF AnalysisRecords

(* A call moves on, and no counter does.                                   *)
LEMMA AnalysisMoves ==
  ASSUME ComplexityInv, NEW c \in Analyses, NEW r, AnalysisRight(r),
         analysis' = [analysis EXCEPT ![c] = r],
         CacheRight', UNCHANGED <<mode, counts, feedback>>
  PROVE  ComplexityInv'
<1>1. /\ analysis' \in [Analyses -> AnalysisRecords] /\ analysis'[c] = r
      /\ \A d \in Analyses \ {c} : analysis'[d] = analysis[d]
  BY DEF ComplexityInv, AnalysesRight, AnalysisRight
<1>2. \A d \in Analyses : AnalysisRight(analysis'[d])
  BY <1>1 DEF ComplexityInv, AnalysesRight
<1>3. AnalysesRight'
  BY <1>1, <1>2 DEF AnalysesRight, AnalysisRight, Backed
<1>4. CountsRight'
  BY DEF ComplexityInv, CountsRight, Judged, Counted
<1> QED
  BY <1>3, <1>4 DEF ComplexityInv

(* What depends on the cache of profiles only.                             *)
LEMMA SameCache ==
  ASSUME CacheRight, UNCHANGED <<mode, profileCache>>
  PROVE  CacheRight'
BY DEF CacheRight, Backed

(* A call ends an analysis, or a part of it, with the profile w.           *)
LEMMA EndsStep ==
  ASSUME ComplexityInv, NEW c \in Analyses, NEW p \in {"remote", "storing", "failed", "done"},
         NEW w \in Results, Ends(c, p, w),
         analysis[c].pc \in {"analyzing", "remote", "waiting", "storing"},
         mode = "local" => p # "remote",
         mode # "remote" /\ p # "failed" => Backed(KeyOf[analysis[c].question], w),
         CacheRight', UNCHANGED <<mode, counts, feedback>>
  PROVE  ComplexityInv'
<1> DEFINE r == [analysis[c] EXCEPT !.pc = p, !.result = w]
<1>1. AnalysisRight(analysis[c]) /\ analysis[c] \in AnalysisRecords /\ p \in AnalysisPCs
  BY DEF ComplexityInv, AnalysesRight, AnalysisPCs
<1>2. analysis' = [analysis EXCEPT ![c] = r]
  BY DEF Ends
<1>3. r \in AnalysisRecords /\ r.pc = p /\ r.result = w /\ r.question = analysis[c].question
  BY <1>1 DEF AnalysisRecords
<1> HIDE DEF r
<1>4. AnalysisRight(r)
  BY <1>1, <1>3 DEF AnalysisRight
<1> QED
  BY <1>2, <1>4, AnalysisMoves

(* An analysis reads the cache.                                            *)
LEMMA LookUpStep ==
  ASSUME ComplexityInv, NEW c \in Analyses, NEW q \in Questions, NEW ok \in BOOLEAN,
         LookUp(c, q, ok)
  PROVE  ComplexityInv'
<1> DEFINE hit == ok /\ profileCache[KeyOf[q]] # NoProfileYet
           p == IF hit THEN "done" ELSE "analyzing"
           w == IF hit THEN profileCache[KeyOf[q]] ELSE analysis[c].result
           r == [analysis[c] EXCEPT !.question = q, !.pc = p, !.result = w]
<1>1. analysis[c] \in AnalysisRecords /\ p \in AnalysisPCs /\ KeyOf[q] \in Keys
  BY DEF ComplexityInv, AnalysesRight, AnalysisPCs, Keys
<1>2. analysis' = [analysis EXCEPT ![c] = r] /\ UNCHANGED <<mode, profileCache, counts, feedback>>
  BY DEF LookUp
<1>3. w \in Results
  BY <1>1, AnalysisFields DEF ComplexityInv, CacheRight
<1>4. p = "analyzing" \/ (p = "done" /\ (mode # "remote" => Backed(KeyOf[q], w)))
  BY <1>1 DEF ComplexityInv, CacheRight
<1> HIDE DEF p, w
<1>5. r \in AnalysisRecords /\ r.pc = p /\ r.result = w /\ r.question = q
  BY <1>1, <1>3 DEF AnalysisRecords
<1> HIDE DEF r
<1>6. AnalysisRight(r)
  BY <1>4, <1>5 DEF AnalysisRight
<1>7. CacheRight'
  BY <1>2, SameCache DEF ComplexityInv
<1> QED
  BY <1>2, <1>6, <1>7, AnalysisMoves

(* A local profile is one that may be cached for its question.             *)
LEMMA LocalIsBacked ==
  ASSUME NEW q \in Questions
  PROVE  Classify(q) \in Results /\ Backed(KeyOf[q], Classify(q))
<1>1. Classify(q).confidence = ConfidenceOf[q]
  BY DEF Classify
<1>2. ConfidenceOf[q] \in 30..100
  BY ComplexityAssumption
<1> HIDE DEF Classify
<1>3. Classify(q).confidence \in Int /\ Classify(q).confidence >= ConfidenceOf[q]
  BY <1>1, <1>2
<1> QED
  BY <1>3 DEF Results, Backed

(* The local classifier has answered.                                      *)
LEMMA AnalyzeStep ==
  ASSUME ComplexityInv, NEW c \in Analyses, Analyze(c)
  PROVE  ComplexityInv'
<1>1. /\ AnalysisRight(analysis[c]) /\ analysis[c] \in AnalysisRecords
      /\ UNCHANGED <<mode, profileCache, counts, feedback>> /\ analysis[c].pc = "analyzing"
      /\ mode \in {"local", "remote", "hybrid"}
  BY DEF ComplexityInv, AnalysesRight, Analyze
<1>2. CacheRight'
  BY <1>1, SameCache DEF ComplexityInv
<1>3. PICK q \in Questions : q = analysis[c].question
  BY <1>1 DEF AnalysisRight
<1>4. PICK w \in Results : w = Classify(q) /\ Backed(KeyOf[q], w)
  BY LocalIsBacked
<1>5. CASE mode = "remote"
  <2> DEFINE r == [analysis[c] EXCEPT !.pc = "remote"]
  <2>1. analysis' = [analysis EXCEPT ![c] = r]
    BY <1>5 DEF Analyze
  <2>2. r \in AnalysisRecords /\ r.pc = "remote" /\ r.question = q
    BY <1>1, <1>3 DEF AnalysisRecords, AnalysisPCs
  <2> HIDE DEF r
  <2>3. AnalysisRight(r)
    BY <1>5, <2>2 DEF AnalysisRight
  <2> QED
    BY <1>1, <1>2, <2>1, <2>3, AnalysisMoves
<1>6. CASE mode # "remote"
  <2>1. Ends(c, "storing", w) \/ (mode = "hybrid" /\ Ends(c, "remote", w))
    BY <1>1, <1>3, <1>4, <1>6 DEF Analyze
  <2> QED
    BY <1>1, <1>2, <1>3, <1>4, <2>1, EndsStep
<1> QED
  BY <1>5, <1>6

(* In the hybrid mode a less confident answer is not taken.                *)
LEMMA CompareStep ==
  ASSUME ComplexityInv, NEW c \in Analyses, NEW p \in Results, p.confidence \in Int,
         analysis[c].pc = "remote", Compare(c, p)
  PROVE  ComplexityInv'
<1>1. /\ AnalysisRight(analysis[c]) /\ analysis[c].result \in Results
      /\ UNCHANGED <<mode, profileCache, counts, feedback>>
      /\ mode \in {"local", "remote", "hybrid"}
  BY AnalysisFields DEF ComplexityInv, AnalysesRight, Compare
<1>2. CacheRight'
  BY <1>1, SameCache DEF ComplexityInv
<1> DEFINE old == analysis[c].result
           k == KeyOf[analysis[c].question]
<1>3. mode # "local" /\ (mode = "hybrid" => Backed(k, old))
  BY <1>1 DEF AnalysisRight
<1>4. CASE mode = "hybrid" /\ p.confidence <= old.confidence
  <2>1. Ends(c, "storing", old)
    BY <1>4 DEF Compare
  <2> QED
    BY <1>1, <1>2, <1>3, <1>4, <2>1, EndsStep
<1>5. CASE ~(mode = "hybrid" /\ p.confidence <= old.confidence)
  <2>1. Ends(c, "storing", p)
    BY <1>5 DEF Compare
  <2>2. ASSUME mode = "hybrid"
        PROVE  Backed(k, p)
    <3>1. PICK q \in Questions : KeyOf[q] = k /\ old.confidence >= ConfidenceOf[q]
      BY <1>3, <2>2 DEF Backed
    <3>2. old.confidence \in Int /\ ConfidenceOf[q] \in Int /\ p.confidence > old.confidence
      BY <1>3, <1>5, <2>2, ComplexityAssumption DEF Backed
    <3>3. p.confidence >= ConfidenceOf[q]
      BY <3>1, <3>2
    <3> QED
      BY <3>1, <3>3 DEF Backed
  <2> QED
    BY <1>1, <1>2, <1>3, <2>1, <2>2, EndsStep
<1> QED
  BY <1>4, <1>5

(* Every profile the judge may give is a result.                           *)
LEMMA AnswersAreResults ==
  /\ defaultProfile \in Results /\ defaultProfile.confidence \in Int
  /\ \A p \in RemoteProfiles : p \in Results /\ p.confidence \in Int
BY ComplexityAssumption DEF Results, defaultProfile

(* An analysis goes from asking the judge to waiting, or back.             *)
LEMMA WaitingStep ==
  ASSUME ComplexityInv, NEW c \in Analyses, NEW p \in {"remote", "waiting"},
         NEW n \in 0..MaxRetries, analysis[c].pc \in {"remote", "waiting"},
         analysis' = [analysis EXCEPT ![c] = [analysis[c] EXCEPT !.pc = p, !.attempt = n]],
         UNCHANGED <<mode, profileCache, counts, feedback>>
  PROVE  ComplexityInv'
<1> DEFINE r == [analysis[c] EXCEPT !.pc = p, !.attempt = n]
<1>1. AnalysisRight(analysis[c]) /\ analysis[c] \in AnalysisRecords /\ p \in AnalysisPCs
  BY DEF ComplexityInv, AnalysesRight, AnalysisPCs
<1>2. /\ r \in AnalysisRecords /\ r.pc = p /\ r.result = analysis[c].result
      /\ r.question = analysis[c].question
  BY <1>1 DEF AnalysisRecords
<1> HIDE DEF r
<1>3. AnalysisRight(r)
  BY <1>1, <1>2 DEF AnalysisRight
<1>4. CacheRight' /\ analysis' = [analysis EXCEPT ![c] = r]
  BY SameCache DEF ComplexityInv, r
<1> QED
  BY <1>3, <1>4, AnalysisMoves

(* The judge fails: another attempt, or the default profile.               *)
LEMMA RemoteFailsStep ==
  ASSUME ComplexityInv, NEW c \in Analyses, RemoteFails(c)
  PROVE  ComplexityInv'
<1>1. analysis[c].pc = "remote" /\ analysis[c] \in AnalysisRecords
  BY DEF RemoteFails, ComplexityInv, AnalysesRight
<1>2. analysis[c].attempt \in 0..MaxRetries
  BY <1>1, AnalysisFields
<1>3. CASE analysis[c].attempt < MaxRetries
  <2>1. PICK n \in 0..MaxRetries : n = analysis[c].attempt + 1
    BY <1>2, <1>3, ComplexityAssumption
  <2>2. analysis' = [analysis EXCEPT ![c].pc = "waiting", ![c].attempt = n]
        /\ UNCHANGED <<mode, profileCache, counts, feedback>>
    BY <1>3, <2>1 DEF RemoteFails
  <2>3. analysis' = [analysis EXCEPT ![c] = [analysis[c] EXCEPT !.pc = "waiting", !.attempt = n]]
    BY <2>2
  <2> QED
    BY <1>1, <2>2, <2>3, WaitingStep
<1>4. CASE ~(analysis[c].attempt < MaxRetries)
  BY <1>1, <1>4, CompareStep, AnswersAreResults DEF RemoteFails
<1> QED
  BY <1>3, <1>4

(* An analysis that has waited asks the judge again.                       *)
LEMMA WaitsStep ==
  ASSUME ComplexityInv, NEW c \in Analyses, Waits(c)
  PROVE  ComplexityInv'
<1> DEFINE n == analysis[c].attempt
<1>1. /\ analysis[c].pc = "waiting" /\ analysis[c] \in AnalysisRecords
      /\ UNCHANGED <<mode, profileCache, counts, feedback>>
  BY DEF Waits, ComplexityInv, AnalysesRight
<1>2. PICK m \in 0..MaxRetries : m = analysis[c].attempt
  BY <1>1, AnalysisFields
<1>3. [analysis[c] EXCEPT !.pc = "remote", !.attempt = m] = [analysis[c] EXCEPT !.pc = "remote"]
  BY <1>1, <1>2 DEF AnalysisRecords
<1>4. analysis' = [analysis EXCEPT ![c] = [analysis[c] EXCEPT !.pc = "remote", !.attempt = m]]
  BY <1>3 DEF Waits
<1> QED
  BY <1>1, <1>4, WaitingStep

(* An analysis is cancelled.                                               *)
LEMMA CancelledStep ==
  ASSUME ComplexityInv, NEW c \in Analyses, Cancelled(c)
  PROVE  ComplexityInv'
<1>1. /\ AnalysisRight(analysis[c]) /\ analysis[c].result \in Results
      /\ analysis[c].pc = "waiting" /\ UNCHANGED <<mode, profileCache, counts, feedback>>
  BY AnalysisFields DEF ComplexityInv, AnalysesRight, Cancelled
<1>2. CacheRight'
  BY <1>1, SameCache DEF ComplexityInv
<1>3. CASE mode = "hybrid"
  <2>1. Ends(c, "storing", analysis[c].result)
    BY <1>3 DEF Cancelled
  <2>2. Backed(KeyOf[analysis[c].question], analysis[c].result)
    BY <1>1, <1>3 DEF AnalysisRight
  <2> QED
    BY <1>1, <1>2, <1>3, <2>1, <2>2, EndsStep
<1>4. CASE mode # "hybrid"
  <2>1. Ends(c, "failed", analysis[c].result)
    BY <1>4 DEF Cancelled
  <2> QED
    BY <1>1, <1>2, <2>1, EndsStep
<1> QED
  BY <1>3, <1>4

(* An analysis stores its profile in the cache.                            *)
LEMMA StoreProfileStep ==
  ASSUME ComplexityInv, NEW c \in Analyses, NEW ok \in BOOLEAN, StoreProfile(c, ok)
  PROVE  ComplexityInv'
<1> DEFINE k == KeyOf[analysis[c].question]
           w == analysis[c].result
<1>1. /\ AnalysisRight(analysis[c]) /\ w \in Results /\ analysis[c].pc = "storing"
      /\ UNCHANGED <<mode, counts, feedback>> /\ Ends(c, "done", w)
      /\ profileCache' = IF ok THEN [profileCache EXCEPT ![k] = w] ELSE profileCache
  BY AnalysisFields DEF ComplexityInv, AnalysesRight, StoreProfile
<1>2. k \in Keys /\ (mode # "remote" => Backed(k, w))
  BY <1>1 DEF AnalysisRight, Keys
<1>3. CacheRight'
  <2>1. /\ profileCache' \in [Keys -> Results]
        /\ profileCache'[k] \in {w, profileCache[k]}
        /\ \A j \in Keys : j # k => profileCache'[j] = profileCache[j]
    BY <1>1, <1>2 DEF ComplexityInv, CacheRight
  <2>2. ASSUME mode' # "remote", NEW j \in Keys, profileCache'[j] # NoProfileYet
        PROVE  Backed(j, profileCache'[j])
    BY <1>1, <1>2, <2>1, <2>2 DEF ComplexityInv, CacheRight
  <2> QED
    BY <2>1, <2>2 DEF CacheRight, Backed
<1> QED
  BY <1>1, <1>2, <1>3, EndsStep

(* A cached profile expires.                                               *)
LEMMA ProfileGoneStep ==
  ASSUME ComplexityInv, NEW k \in Keys, ProfileExpires(k)
  PROVE  ComplexityInv'
<1>1. UNCHANGED <<mode, analysis, counts, feedback>>
  BY DEF ProfileExpires
<1>2. /\ profileCache' \in [Keys -> Results] /\ profileCache'[k] = NoProfileYet
      /\ \A j \in Keys : j # k => profileCache'[j] = profileCache[j]
  BY DEF ProfileExpires, ComplexityInv, CacheRight, Results
<1>3. CacheRight'
  BY <1>1, <1>2 DEF ComplexityInv, CacheRight, Backed
<1> QED
  BY <1>1, <1>3
     DEF ComplexityInv, AnalysesRight, AnalysisRight, Backed, CountsRight, Judged, Counted

(* A call of RecordFeedback is counted once in each sum.                   *)
LEMMA FeedbackStep ==
  ASSUME ComplexityInv, NEW f \in Feedbacks, NEW ok \in BOOLEAN,
         (\E satisfied \in BOOLEAN : RecordFeedback(f, satisfied, ok)) \/ CountFeedback(f, ok)
  PROVE  ComplexityInv'
<1>1. UNCHANGED <<mode, analysis, profileCache>>
  BY DEF RecordFeedback, CountFeedback
<1>2. AnalysesRight' /\ CacheRight' /\ mode' \in {"local", "remote", "hybrid"}
  BY <1>1 DEF ComplexityInv, AnalysesRight, AnalysisRight, CacheRight, Backed
<1>3. /\ feedback \in [Feedbacks -> FeedbackRecords]
      /\ counts \in [satisfied : Nat, unsatisfied : Nat, total : Nat]
      /\ counts.satisfied + counts.unsatisfied <= Cardinality(Judged)
      /\ counts.total <= Cardinality(Counted)
  BY DEF ComplexityInv, CountsRight
<1>4. IsFiniteSet(Judged) /\ IsFiniteSet(Counted)
  BY ComplexityAssumption, FS_Subset DEF Judged, Counted
<1>5. Cardinality(Judged) \in Nat /\ Cardinality(Counted) \in Nat
  BY <1>4, FS_CardinalityType
<1>6. CASE \E satisfied \in BOOLEAN : RecordFeedback(f, satisfied, ok)
  <2>1. PICK satisfied \in BOOLEAN : RecordFeedback(f, satisfied, ok)
    BY <1>6
  <2> DEFINE r == [pc |-> "judged", satisfied |-> satisfied]
  <2>2. /\ feedback' = [feedback EXCEPT ![f] = r] /\ r \in FeedbackRecords /\ r.pc = "judged"
        /\ feedback[f].pc = "idle"
    BY <2>1 DEF RecordFeedback, FeedbackRecords, FeedbackPCs
  <2> HIDE DEF r
  <2>3. /\ feedback' \in [Feedbacks -> FeedbackRecords] /\ feedback'[f].pc = "judged"
        /\ \A g \in Feedbacks \ {f} : feedback'[g] = feedback[g]
    BY <1>3, <2>2
  <2>4. Judged' = Judged \cup {f} /\ f \notin Judged /\ Counted' = Counted
    BY <2>2, <2>3 DEF Judged, Counted
  <2>5. /\ Cardinality(Judged') = Cardinality(Judged) + 1
        /\ Cardinality(Counted') = Cardinality(Counted)
    BY <1>4, <2>4, FS_AddElement
  <2>6. \/ counts' = counts
        \/ counts' = [counts EXCEPT !.satisfied = @ + 1]
        \/ counts' = [counts EXCEPT !.unsatisfied = @ + 1]
    BY <2>1 DEF RecordFeedback
  <2>7. /\ counts' \in [satisfied : Nat, unsatisfied : Nat, total : Nat]
        /\ counts'.satisfied + counts'.unsatisfied <= counts.satisfied + counts.unsatisfied + 1
        /\ counts'.total = counts.total
    BY <1>3, <2>6
  <2>8. CountsRight'
    BY <1>3, <1>5, <2>3, <2>5, <2>7 DEF CountsRight
  <2> QED
    BY <1>2, <2>8 DEF ComplexityInv
<1>7. CASE CountFeedback(f, ok)
  <2> DEFINE r == [feedback[f] EXCEPT !.pc = "done"]
  <2>1. /\ feedback' = [feedback EXCEPT ![f] = r] /\ r \in FeedbackRecords /\ r.pc = "done"
        /\ feedback[f].pc = "judged"
    BY <1>3, <1>7 DEF CountFeedback, FeedbackRecords, FeedbackPCs
  <2> HIDE DEF r
  <2>2. /\ feedback' \in [Feedbacks -> FeedbackRecords] /\ feedback'[f].pc = "done"
        /\ \A g \in Feedbacks \ {f} : feedback'[g] = feedback[g]
    BY <1>3, <2>1
  <2>3. Counted' = Counted \cup {f} /\ f \notin Counted /\ Judged' = Judged
    BY <2>1, <2>2 DEF Judged, Counted
  <2>4. /\ Cardinality(Counted') = Cardinality(Counted) + 1
        /\ Cardinality(Judged') = Cardinality(Judged)
    BY <1>4, <2>3, FS_AddElement
  <2>5. counts' = counts \/ counts' = [counts EXCEPT !.total = @ + 1]
    BY <1>7 DEF CountFeedback
  <2>6. /\ counts' \in [satisfied : Nat, unsatisfied : Nat, total : Nat]
        /\ counts'.satisfied = counts.satisfied /\ counts'.unsatisfied = counts.unsatisfied
        /\ counts'.total <= counts.total + 1
    BY <1>3, <2>5
  <2>7. CountsRight'
    BY <1>3, <1>5, <2>2, <2>4, <2>6 DEF CountsRight
  <2> QED
    BY <1>2, <2>7 DEF ComplexityInv
<1> QED
  BY <1>6, <1>7

(* The invariant of complexity scoring holds at the beginning.             *)
LEMMA ComplexityInitInv == ComplexityInit => ComplexityInv
<1> SUFFICES ASSUME ComplexityInit  PROVE ComplexityInv
  OBVIOUS
<1>1. Idling \in AnalysisRecords /\ Idling.pc = "idle"
  BY ComplexityAssumption DEF Idling, AnalysisRecords, AnalysisPCs, Results
<1>2. AnalysesRight
  BY <1>1 DEF ComplexityInit, AnalysesRight, AnalysisRight
<1>3. CacheRight
  BY DEF ComplexityInit, CacheRight, Results
<1>4. CountsRight
  <2>1. /\ feedback \in [Feedbacks -> FeedbackRecords] /\ Judged = {} /\ Counted = {}
        /\ counts \in [satisfied : Nat, unsatisfied : Nat, total : Nat]
        /\ counts.satisfied = 0 /\ counts.unsatisfied = 0 /\ counts.total = 0
    BY DEF ComplexityInit, FeedbackRecords, FeedbackPCs, Judged, Counted
  <2> QED
    BY <2>1, FS_EmptySet DEF CountsRight
<1> QED
  BY <1>2, <1>3, <1>4 DEF ComplexityInit, ComplexityInv

(* The invariant of complexity scoring holds always.                       *)
LEMMA ComplexityInvHolds == ComplexitySpec => []ComplexityInv
<1>1. ASSUME ComplexityInv, NEW c \in Analyses,
             \/ Analyze(c) \/ RemoteRefuses(c) \/ RemoteFails(c) \/ Waits(c) \/ Cancelled(c)
             \/ \E p \in RemoteProfiles : RemoteAnswers(c, p)
      PROVE  ComplexityInv'
  BY <1>1, AnalyzeStep, CompareStep, AnswersAreResults, RemoteFailsStep, WaitsStep, CancelledStep
     DEF RemoteRefuses, RemoteAnswers
<1>2. ASSUME ComplexityInv, ComplexityNext  PROVE ComplexityInv'
  BY <1>1, <1>2, LookUpStep, StoreProfileStep, ProfileGoneStep, FeedbackStep DEF ComplexityNext
<1>3. ASSUME ComplexityInv, UNCHANGED complexityVars  PROVE ComplexityInv'
  BY <1>3 DEF complexityVars, ComplexityInv, AnalysesRight, AnalysisRight, CacheRight, Backed,
              CountsRight, Judged, Counted
<1> QED
  BY <1>2, <1>3, ComplexityInitInv, PTL DEF ComplexitySpec

(* Types of the analyses; the counters of feedback never pass the number   *)
(* of calls, counted as the calls that have come as far.                   *)
THEOREM ComplexityTypeCorrect == ComplexitySpec => []ComplexityTypeOK
<1>1. ComplexityInv => ComplexityTypeOK
  <2> SUFFICES ASSUME ComplexityInv  PROVE ComplexityTypeOK
    OBVIOUS
  <2>1. \A c \in Analyses : analysis[c].pc \in AnalysisPCs /\ analysis[c].attempt \in 0..MaxRetries
    BY AnalysisFields DEF ComplexityInv, AnalysesRight
  <2>2. \A S \in SUBSET Feedbacks :
          IsFiniteSet(S) /\ Cardinality(S) \in Nat /\ Cardinality(S) <= Cardinality(Feedbacks)
    BY ComplexityAssumption, FS_Subset, FS_CardinalityType
  <2>3. Cardinality(Feedbacks) \in Nat
    BY ComplexityAssumption, FS_CardinalityType
  <2>4. Judged \in SUBSET Feedbacks /\ Counted \in SUBSET Feedbacks
    BY DEF Judged, Counted
  <2>5. Cardinality(Judged) \in Nat /\ Cardinality(Judged) <= Cardinality(Feedbacks)
        /\ Cardinality(Counted) \in Nat /\ Cardinality(Counted) <= Cardinality(Feedbacks)
    BY <2>2, <2>4
  <2>6. /\ counts.satisfied \in Nat /\ counts.unsatisfied \in Nat /\ counts.total \in Nat
        /\ counts.satisfied + counts.unsatisfied <= Cardinality(Judged)
        /\ counts.total <= Cardinality(Counted)
    BY DEF ComplexityInv, CountsRight
  <2>7. \A n \in {counts.satisfied, counts.unsatisfied, counts.total} :
          n \in 0..Cardinality(Feedbacks)
    BY <2>3, <2>5, <2>6
  <2>8. \A f \in Feedbacks : feedback[f].pc \in FeedbackPCs
    BY DEF ComplexityInv, CountsRight, FeedbackRecords
  <2> QED
    BY <2>1, <2>7, <2>8 DEF ComplexityInv, ComplexityTypeOK
<1> QED
  BY <1>1, ComplexityInvHolds, PTL

(* Where a local answer exists, no call returns a less confident one,      *)
(* whatever the remote service does and whatever other calls have cached.  *)
THEOREM LocalIsAFloor == ComplexitySpec => []NeverBelowLocal
<1>1. ComplexityInv => NeverBelowLocal
  BY DEF ComplexityInv, AnalysesRight, AnalysisRight, Backed, NeverBelowLocal
<1> QED
  BY <1>1, ComplexityInvHolds, PTL
-------------------------------------------------------------------------------
MappingRecords ==
  [pc : MappingPCs, at : Aliases \cup {NoMapping}, visited : SUBSET Aliases, hops : 0..MaxHops,
   set : Mappings \cup {NoMapping}]

MappingShape ==
  /\ mappingCall \in [MappingCalls -> MappingRecords]
  /\ \A c \in MappingCalls : mappingCall[c].pc = "persisting" => mappingCall[c].set \in Mappings
  /\ lastSet \in Mappings \cup {defaultGlobalMapping}

Persisting == {c \in MappingCalls : mappingCall[c].pc = "persisting"}

(* While nothing speaks for another mapping, memory has the last one, and  *)
(* the cache has it too, or the call that set it is about to store it.     *)
CopyFollows ==
  forgettable = {} =>
    /\ globalMapping = lastSet
    /\ \A c \in Persisting : mappingCall[c].set = lastSet /\ lastSet # EmptyMapping
    /\ Persisting = {} => \/ globalCached = lastSet /\ lastSet # EmptyMapping
                          \/ globalCached = NoMapping /\ lastSet = defaultGlobalMapping

MappingInv == MappingTypeOK /\ MappingShape /\ CopyFollows

(* What the fields of a call's record hold.                                *)
LEMMA MappingFields ==
  ASSUME NEW r \in MappingRecords
  PROVE  /\ r.pc \in MappingPCs /\ r.at \in Aliases \cup {NoMapping} /\ r.visited \subseteq Aliases
         /\ r.hops \in 0..MaxHops /\ r.set \in Mappings \cup {NoMapping}
         /\ \A p \in MappingPCs : /\ [r EXCEPT !.pc = p] \in MappingRecords
                                  /\ [r EXCEPT !.pc = p].pc = p
                                  /\ [r EXCEPT !.pc = p].hops = r.hops
                                  /\ [r EXCEPT !.pc = p].set = r.set
BY DEF MappingRecords

(* A call that moves without a mapping to store leaves what was set alone. *)
LEMMA MappingCallMoves ==
  ASSUME MappingInv, NEW c \in MappingCalls, NEW r \in MappingRecords,
         mappingCall' = [mappingCall EXCEPT ![c] = r],
         mappingCall[c].pc # "persisting", r.pc # "persisting",
         accountCached' \in Mappings \cup {NoMapping},
         UNCHANGED <<globalMapping, globalCached, lastSet, forgettable>>
  PROVE  MappingInv'
<1>1. mappingCall \in [MappingCalls -> MappingRecords]
  BY DEF MappingInv, MappingShape
<1>2. /\ mappingCall' \in [MappingCalls -> MappingRecords] /\ mappingCall'[c] = r
      /\ \A d \in MappingCalls \ {c} : mappingCall'[d] = mappingCall[d]
  BY <1>1
<1>3. MappingShape'
  BY <1>2 DEF MappingInv, MappingShape
<1>4. MappingTypeOK'
  <2>1. \A d \in MappingCalls :
          mappingCall'[d].pc \in MappingPCs /\ mappingCall'[d].hops \in 0..MaxHops
    BY <1>2, MappingFields
  <2> QED
    BY <2>1 DEF MappingInv, MappingTypeOK
<1>5. Persisting' = Persisting /\ \A d \in Persisting : mappingCall'[d] = mappingCall[d]
  BY <1>2 DEF Persisting
<1>6. CopyFollows'
  BY <1>5 DEF MappingInv, CopyFollows
<1> QED
  BY <1>3, <1>4, <1>6 DEF MappingInv

(* A request is resolved, or an account's mapping is written.              *)
LEMMA ResolvingStep ==
  ASSUME MappingInv, NEW c \in MappingCalls,
         \/ \E m \in Aliases, asks \in BOOLEAN : BeginResolving(c, m, asks)
         \/ FollowLink(c)
         \/ \E f \in Mappings : SetAccountModelMapping(c, f)
  PROVE  MappingInv'
<1>1. mappingCall[c] \in MappingRecords /\ accountCached \in Mappings \cup {NoMapping}
      /\ globalMapping \in Mappings \cup {defaultGlobalMapping}
  BY DEF MappingInv, MappingShape, MappingTypeOK
<1>2. ASSUME NEW m \in Aliases, NEW asks \in BOOLEAN, BeginResolving(c, m, asks)
      PROVE  MappingInv'
  <2> DEFINE to == IF asks /\ accountCached # NoMapping /\ m \in DOMAIN accountCached
                   THEN accountCached[m] ELSE m
             r == [mappingCall[c] EXCEPT !.pc = "resolving", !.at = to]
  <2>1. to \in Aliases
    BY <1>1, MappingAssumption
  <2>2. /\ mappingCall' = [mappingCall EXCEPT ![c] = r] /\ mappingCall[c].pc = "idle"
        /\ UNCHANGED <<globalMapping, globalCached, accountCached, lastSet, forgettable>>
    BY <1>2 DEF BeginResolving
  <2> HIDE DEF to
  <2>3. r \in MappingRecords /\ r.pc = "resolving"
    BY <1>1, <2>1 DEF MappingRecords, MappingPCs
  <2> HIDE DEF r
  <2> QED
    BY <1>1, <2>2, <2>3, MappingCallMoves
<1>3. ASSUME FollowLink(c)  PROVE MappingInv'
  <2> DEFINE o == mappingCall[c]
             stops == o.hops = MaxHops \/ o.at \in o.visited \/ o.at \notin DOMAIN globalMapping
  <2>1. /\ o.pc = "resolving"
        /\ UNCHANGED <<globalMapping, globalCached, accountCached, lastSet, forgettable>>
    BY <1>3 DEF FollowLink
  <2>2. CASE stops
    <3> DEFINE r == [o EXCEPT !.pc = "done"]
    <3>1. mappingCall' = [mappingCall EXCEPT ![c] = r]
      BY <1>3, <2>2 DEF FollowLink
    <3>2. r \in MappingRecords /\ r.pc = "done"
      BY <1>1, MappingFields DEF MappingPCs
    <3> HIDE DEF r
    <3> QED
      BY <1>1, <2>1, <3>1, <3>2, MappingCallMoves
  <2>3. CASE ~stops
    <3> DEFINE r == [o EXCEPT !.at = globalMapping[o.at], !.visited = @ \cup {o.at},
                              !.hops = @ + 1]
    <3>1. mappingCall' = [mappingCall EXCEPT ![c] = r]
      BY <1>3, <2>3 DEF FollowLink
    <3>2. o.at \in Aliases /\ globalMapping[o.at] \in Aliases
      BY <1>1, <2>3, MappingAssumption
    <3>3. o.hops + 1 \in 0..MaxHops
      BY <1>1, <2>3, MappingFields, MappingAssumption
    <3>4. o.pc \in MappingPCs /\ o.visited \cup {o.at} \in SUBSET Aliases
      BY <1>1, <3>2, MappingFields
    <3> HIDE DEF stops
    <3>5. r \in MappingRecords /\ r.pc = "resolving"
      BY <1>1, <2>1, <3>2, <3>3, <3>4 DEF MappingRecords
    <3> HIDE DEF r
    <3> QED
      BY <1>1, <2>1, <3>1, <3>5, MappingCallMoves
  <2> QED
    BY <2>2, <2>3
<1>4. ASSUME NEW f \in Mappings, SetAccountModelMapping(c, f)  PROVE MappingInv'
  <2> DEFINE r == [mappingCall[c] EXCEPT !.pc = "done"]
  <2>1. r \in MappingRecords /\ r.pc = "done"
    BY <1>1, MappingFields DEF MappingPCs
  <2>2. /\ mappingCall' = [mappingCall EXCEPT ![c] = r] /\ mappingCall[c].pc = "idle"
        /\ accountCached' = f
        /\ UNCHANGED <<globalMapping, globalCached, lastSet, forgettable>>
    BY <1>4 DEF SetAccountModelMapping, MappingGoes
  <2> HIDE DEF r
  <2> QED
    BY <2>1, <2>2, MappingCallMoves
<1> QED
  BY <1>2, <1>3, <1>4

(* A call replaces the global mapping in memory.                           *)
LEMMA SetGlobalStep ==
  ASSUME MappingInv, NEW c \in MappingCalls, NEW f \in Mappings, SetGlobalMapping(c, f)
  PROVE  MappingInv'
<1> DEFINE r == [mappingCall[c] EXCEPT !.pc = "persisting", !.set = f]
<1>1. mappingCall \in [MappingCalls -> MappingRecords] /\ mappingCall[c] \in MappingRecords
  BY DEF MappingInv, MappingShape
<1>2. r \in MappingRecords /\ r.pc = "persisting" /\ r.set = f
  BY <1>1 DEF MappingRecords, MappingPCs
<1>3. /\ mappingCall' = [mappingCall EXCEPT ![c] = r] /\ globalMapping' = f /\ lastSet' = f
      /\ forgettable' = (IF f = EmptyMapping THEN {"empty"} ELSE {})
                        \cup {x \in {"overlap"} :
                                \E o \in MappingCalls : mappingCall[o].pc = "persisting"}
      /\ UNCHANGED <<globalCached, accountCached>>
  BY DEF SetGlobalMapping
<1> HIDE DEF r
<1>4. /\ mappingCall' \in [MappingCalls -> MappingRecords] /\ mappingCall'[c] = r
      /\ \A d \in MappingCalls \ {c} : mappingCall'[d] = mappingCall[d]
  BY <1>1, <1>2, <1>3
<1>5. MappingShape'
  BY <1>2, <1>3, <1>4 DEF MappingInv, MappingShape
<1>6. MappingTypeOK'
  <2>1. \A d \in MappingCalls :
          mappingCall'[d].pc \in MappingPCs /\ mappingCall'[d].hops \in 0..MaxHops
    BY <1>4, MappingFields
  <2>2. forgettable' \subseteq {"empty", "overlap", "failed", "expired", "unread", "crash"}
    BY <1>3
  <2> QED
    BY <1>3, <2>1, <2>2 DEF MappingInv, MappingTypeOK
<1>7. CopyFollows'
  <2> SUFFICES ASSUME forgettable' = {}
               PROVE  /\ globalMapping' = lastSet'
                      /\ \A d \in Persisting' : /\ mappingCall'[d].set = lastSet'
                                                /\ lastSet' # EmptyMapping
                      /\ Persisting' # {}
    BY DEF CopyFollows
  <2>1. f # EmptyMapping /\ \A o \in MappingCalls : mappingCall[o].pc # "persisting"
    BY <1>3
  <2>2. Persisting' = {c}
    BY <1>2, <1>4, <2>1 DEF Persisting
  <2> QED
    BY <1>2, <1>3, <1>4, <2>1, <2>2
<1> QED
  BY <1>5, <1>6, <1>7 DEF MappingInv

(* A call writes the copy in Redis, or fails to.                           *)
LEMMA PersistStep ==
  ASSUME MappingInv, NEW c \in MappingCalls, NEW ok \in BOOLEAN, PersistGlobal(c, ok)
  PROVE  MappingInv'
<1> DEFINE r == [mappingCall[c] EXCEPT !.pc = "done"]
<1>1. mappingCall \in [MappingCalls -> MappingRecords] /\ mappingCall[c] \in MappingRecords
  BY DEF MappingInv, MappingShape
<1>2. r \in MappingRecords /\ r.pc = "done"
  BY <1>1, MappingFields DEF MappingPCs
<1>3. /\ mappingCall' = [mappingCall EXCEPT ![c] = r] /\ mappingCall[c].pc = "persisting"
      /\ globalCached' = IF ok THEN mappingCall[c].set ELSE globalCached
      /\ forgettable' = IF ok THEN forgettable ELSE forgettable \cup {"failed"}
      /\ UNCHANGED <<globalMapping, accountCached, lastSet>>
  BY DEF PersistGlobal, MappingGoes
<1> HIDE DEF r
<1>4. /\ mappingCall' \in [MappingCalls -> MappingRecords] /\ mappingCall'[c] = r
      /\ \A d \in MappingCalls \ {c} : mappingCall'[d] = mappingCall[d]
  BY <1>1, <1>2, <1>3
<1>5. mappingCall[c].set \in Mappings /\ c \in Persisting
  BY <1>3 DEF MappingInv, MappingShape, Persisting
<1>6. MappingShape'
  BY <1>2, <1>3, <1>4 DEF MappingInv, MappingShape
<1>7. MappingTypeOK'
  <2>1. \A d \in MappingCalls :
          mappingCall'[d].pc \in MappingPCs /\ mappingCall'[d].hops \in 0..MaxHops
    BY <1>4, MappingFields
  <2>2. forgettable' \subseteq {"empty", "overlap", "failed", "expired", "unread", "crash"}
    BY <1>3 DEF MappingInv, MappingTypeOK
  <2>3. globalCached' \in Mappings \cup {NoMapping}
    BY <1>3, <1>5 DEF MappingInv, MappingTypeOK
  <2> QED
    BY <1>3, <2>1, <2>2, <2>3 DEF MappingInv, MappingTypeOK
<1>8. CopyFollows'
  <2> SUFFICES ASSUME forgettable' = {}
               PROVE  /\ globalMapping' = lastSet'
                      /\ \A d \in Persisting' : /\ mappingCall'[d].set = lastSet'
                                                /\ lastSet' # EmptyMapping
                      /\ globalCached' = lastSet' /\ lastSet' # EmptyMapping
    BY DEF CopyFollows
  <2>1. ok /\ forgettable = {}
    BY <1>3
  <2>2. /\ globalMapping = lastSet /\ mappingCall[c].set = lastSet /\ lastSet # EmptyMapping
        /\ \A d \in Persisting : mappingCall[d].set = lastSet
    BY <1>5, <2>1 DEF MappingInv, CopyFollows
  <2>3. \A d \in Persisting' : d \in Persisting /\ mappingCall'[d] = mappingCall[d]
    BY <1>2, <1>4 DEF Persisting
  <2> QED
    BY <1>3, <2>1, <2>2, <2>3
<1> QED
  BY <1>6, <1>7, <1>8 DEF MappingInv

(* The service restarts and reads the copy, if it can.                     *)
LEMMA RestartStep ==
  ASSUME MappingInv, NEW reads \in BOOLEAN, Restart(reads)
  PROVE  MappingInv'
<1>1. /\ globalMapping' = IF reads /\ globalCached \notin {NoMapping, EmptyMapping}
                          THEN globalCached ELSE defaultGlobalMapping
      /\ forgettable' =
           forgettable
             \cup {x \in {"unread"} : ~reads}
             \cup {x \in {"crash"} : \E c \in MappingCalls : mappingCall[c].pc = "persisting"}
      /\ mappingCall' = [c \in MappingCalls |->
           IF mappingCall[c].pc = "idle" THEN mappingCall[c]
           ELSE [mappingCall[c] EXCEPT !.pc = "done"]]
      /\ UNCHANGED <<globalCached, accountCached, lastSet>>
  BY DEF Restart
<1>2. ASSUME NEW c \in MappingCalls
      PROVE  mappingCall'[c] \in MappingRecords /\ mappingCall'[c].pc # "persisting"
  <2>1. mappingCall[c] \in MappingRecords
    BY DEF MappingInv, MappingShape
  <2>2. CASE mappingCall[c].pc = "idle"
    BY <1>1, <2>1, <2>2
  <2>3. CASE mappingCall[c].pc # "idle"
    <3>1. mappingCall'[c] = [mappingCall[c] EXCEPT !.pc = "done"] /\ "done" \in MappingPCs
      BY <1>1, <2>3 DEF MappingPCs
    <3> QED
      BY <2>1, <3>1, MappingFields
  <2> QED
    BY <2>2, <2>3
<1>3. MappingShape'
  BY <1>1, <1>2 DEF MappingInv, MappingShape
<1>4. MappingTypeOK'
  <2>1. \A d \in MappingCalls :
          mappingCall'[d].pc \in MappingPCs /\ mappingCall'[d].hops \in 0..MaxHops
    BY <1>2, MappingFields
  <2>2. forgettable' \subseteq {"empty", "overlap", "failed", "expired", "unread", "crash"}
    BY <1>1 DEF MappingInv, MappingTypeOK
  <2>3. globalMapping' \in Mappings \cup {defaultGlobalMapping}
    BY <1>1 DEF MappingInv, MappingTypeOK
  <2> QED
    BY <1>1, <2>1, <2>2, <2>3 DEF MappingInv, MappingTypeOK
<1>5. CopyFollows'
  <2> SUFFICES ASSUME forgettable' = {}  PROVE CopyFollows'
    BY DEF CopyFollows
  <2>1. forgettable = {} /\ reads /\ Persisting = {}
    BY <1>1 DEF Persisting
  <2>2. Persisting' = {}
    BY <1>2 DEF Persisting
  <2>3. CASE globalCached = lastSet /\ lastSet # EmptyMapping
    <3>1. lastSet # NoMapping
      BY MappingAssumption DEF MappingInv, MappingShape
    <3> QED
      BY <1>1, <2>1, <2>2, <2>3, <3>1 DEF CopyFollows
  <2>4. CASE globalCached = NoMapping /\ lastSet = defaultGlobalMapping
    BY <1>1, <2>1, <2>2, <2>4 DEF CopyFollows
  <2> QED
    BY <2>1, <2>3, <2>4 DEF MappingInv, CopyFollows
<1> QED
  BY <1>3, <1>4, <1>5 DEF MappingInv

(* The copies expire; of the global one that is remembered. *)
LEMMA MappingGoneStep ==
  ASSUME MappingInv, GlobalExpires \/ AccountMappingGone \/ UNCHANGED mappingVars
  PROVE  MappingInv'
<1>1. /\ UNCHANGED <<globalMapping, mappingCall, lastSet>>
      /\ globalCached' \in {globalCached, NoMapping}
      /\ accountCached' \in {accountCached, NoMapping}
      /\ \/ forgettable' = forgettable /\ globalCached' = globalCached
         \/ forgettable' = forgettable \cup {"expired"}
  BY DEF GlobalExpires, AccountMappingGone, mappingVars
<1>2. MappingShape'
  BY <1>1 DEF MappingInv, MappingShape
<1>3. MappingTypeOK'
  BY <1>1 DEF MappingInv, MappingTypeOK
<1>4. CopyFollows'
  BY <1>1 DEF MappingInv, CopyFollows, Persisting
<1> QED
  BY <1>2, <1>3, <1>4 DEF MappingInv

(* The invariant of the mapping holds always.                              *)
LEMMA MappingInvariance == MappingSpec => []MappingInv
<1>1. MappingInit => MappingInv
  <2> SUFFICES ASSUME MappingInit PROVE MappingInv
    OBVIOUS
  <2>1. MappingIdle \in MappingRecords /\ MappingIdle.pc = "idle" /\ MappingIdle.hops \in 0..MaxHops
    BY MappingAssumption DEF MappingIdle, MappingRecords, MappingPCs
  <2>2. mappingCall = [c \in MappingCalls |-> MappingIdle]
    BY DEF MappingInit
  <2> HIDE DEF MappingIdle
  <2>3. MappingShape
    BY <2>1, <2>2 DEF MappingInit, MappingShape
  <2>4. MappingTypeOK
    BY <2>1, <2>2 DEF MappingInit, MappingTypeOK, MappingPCs
  <2>5. CopyFollows
    BY <2>1, <2>2 DEF MappingInit, CopyFollows, Persisting
  <2> QED
    BY <2>3, <2>4, <2>5 DEF MappingInv
<1>2. MappingInv /\ [MappingNext]_mappingVars => MappingInv'
  BY ResolvingStep, SetGlobalStep, PersistStep, RestartStep, MappingGoneStep DEF MappingNext
<1> QED
  BY <1>1, <1>2, PTL DEF MappingSpec

(* The mappings and the calls (model_mapping_service.go) keep their types; *)
(* no resolution follows more than MaxHops links.                          *)
THEOREM MappingTypeCorrect == MappingSpec => []MappingTypeOK
<1>1. MappingInv => MappingTypeOK
  BY DEF MappingInv
<1> QED
  BY <1>1, MappingInvariance, PTL

(* SetGlobalMapping's last mapping is the one a process resolves by, also  *)
(* when it was restarted, for any aliases, mappings and calls, unless what *)
(* the history names has happened to the copy.                             *)
THEOREM LastMappingSurvives == MappingSpec => []MappingSurvivesRestart
<1>1. MappingInv => MappingSurvivesRestart
  BY DEF MappingInv, CopyFollows, MappingSurvivesRestart
<1> QED
  BY <1>1, MappingInvariance, PTL
-------------------------------------------------------------------------------
(* A behaviour of the parts side by side is a behaviour of each: what is   *)
(* proved of a part holds where TLC checks it.                             *)
THEOREM BackendPartsImplementEach ==
  Spec => /\ RuleSpec /\ SessionSpec /\ SignUpSpec /\ AdminSpec /\ HandlerSpec
          /\ ComplexitySpec /\ MappingSpec
<1>1. Init => /\ RuleInit /\ SessionInit /\ SignUpInit /\ AdminInit /\ HandlerInit
              /\ ComplexityInit /\ MappingInit
  BY DEF Init
<1>2. [Next]_vars => [RuleNext]_ruleVars
  BY DEF Next, Runs, vars
<1>3. [Next]_vars => [SessionNext]_sessionVars
  BY DEF Next, Runs, vars
<1>4. [Next]_vars => [SignUpNext]_signUpVars
  BY DEF Next, Runs, vars
<1>5. [Next]_vars => [AdminNext]_adminVars
  BY DEF Next, Runs, vars
<1>6. [Next]_vars => [HandlerNext]_handlerVars
  BY DEF Next, Runs, vars
<1>7. [Next]_vars => [ComplexityNext]_complexityVars
  BY DEF Next, Runs, vars
<1>8. [Next]_vars => [MappingNext]_mappingVars
  BY DEF Next, Runs, vars
<1> QED
  BY <1>1, <1>2, <1>3, <1>4, <1>5, <1>6, <1>7, <1>8, PTL
     DEF Spec, RuleSpec, SessionSpec, SignUpSpec, AdminSpec, HandlerSpec, ComplexitySpec,
         MappingSpec

(* Every variable of the seven parts keeps its type. *)
THEOREM BackendTypeCorrect == Spec => []BackendTypeOK
<1>1. /\ RuleTypeOK /\ SessionTypeOK /\ SignUpTypeOK /\ AdminTypeOK /\ HandlerTypeOK
      /\ ComplexityTypeOK /\ MappingTypeOK
      => BackendTypeOK
  BY DEF BackendTypeOK
<1> QED
  BY <1>1, BackendPartsImplementEach, RuleTypeCorrect, SessionTypeCorrect, SignUpTypeCorrect,
     AdminTypeCorrect, HandlerTypeCorrect, ComplexityTypeCorrect, MappingTypeCorrect, PTL
===============================================================================
