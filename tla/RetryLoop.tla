------------------------------- MODULE RetryLoop -------------------------------
(***************************************************************************)
(* A request of the gateway handlers, from the selection of an account to  *)
(* the answer: DoRequestWithRetry (retry.go) tries an account after the    *)
(* other, then the handler (Messages or ChatCompletions) forwards what it  *)
(* returned.  Requests share none of this state: one of them is modelled.  *)
(* SelectAccount and the proxy service are external.                       *)
(***************************************************************************)
EXTENDS Integers, Sequences

CONSTANTS
  Upstreams,   \* the accounts SelectAccount may return
  MaxRetries,  \* RetryConfig.MaxRetries, 2 by default
  NoAccount    \* what a result without an account holds

ASSUME RetryAssumption == MaxRetries \in Nat /\ NoAccount \notin Upstreams

VARIABLES
  at,        \* where the request is
  attempt,
  tried,     \* excludedIDs, the accounts that failed
  asked,     \* history: the accounts the attempts went to
  account,   \* the account of this attempt, then of the result
  response,  \* the response of this attempt, then of the result
  open,      \* the attempts whose response body is open
  alive,     \* whether the request context is
  streams,   \* whether the client asked for a stream
  usage,     \* the status recorded for billing
  client     \* what the client was sent

retryVars == <<at, attempt, tried, asked, account, response, open, alive, streams, usage, client>>

RetryPCs == {"checking", "selecting", "asking", "waiting", "returned", "done"}

(* A network error, or a response with a status that is retried, one that  *)
(* is refused for good (4xx), or one that answers.                         *)
Responses  == {"none", "overloaded", "refused", "answered"}
ClientGets == {"nothing", "badGateway", "stream", "body"}
-------------------------------------------------------------------------------
(* A definition named after a mistake is a mutant that PROJECT.json lists. *)
RetryInit ==
  /\ at = "checking"
  /\ attempt = 1
  /\ tried = {}
  /\ asked = <<>>
  /\ account = NoAccount
  /\ response = "none"
  /\ open = {}
  /\ alive = TRUE
  /\ streams \in BOOLEAN
  /\ usage = "nothing"
  /\ client = "nothing"

IsRetryable(resp) == resp \in {"none", "overloaded"}

Return(resp, acc) ==
  /\ at' = "returned"
  /\ response' = resp
  /\ account' = acc

(* The context is looked at before every attempt. *)
CheckContext ==
  /\ at = "checking"
  /\ IF alive THEN at' = "selecting" /\ UNCHANGED <<response, account>>
              ELSE Return("none", NoAccount)
  /\ UNCHANGED <<attempt, tried, asked, open, alive, streams, usage, client>>

(* SelectAccount honours the exclusions, as its request asks. *)
SelectUpstream(a) ==
  /\ at = "selecting"
  /\ a \notin tried
  /\ account' = a
  /\ asked' = Append(asked, a)
  /\ at' = "asking"
  /\ UNCHANGED <<attempt, tried, response, open, alive, streams, usage, client>>

(* Without an account the loop ends, whatever earlier attempts received. *)
SelectFails ==
  /\ at = "selecting"
  /\ Return("none", NoAccount)
  /\ UNCHANGED <<attempt, tried, asked, open, alive, streams, usage, client>>

DoRequest(resp) ==
  /\ at = "asking"
  /\ ~IsRetryable(resp)
  /\ Return(resp, account)
  /\ open' = open \cup {attempt}
  /\ UNCHANGED <<attempt, tried, asked, alive, streams, usage, client>>

ExcludeLast(a) == {a}

Exclude(a) == tried \cup {a}

IsLastLate(n) == n > MaxRetries + 1

IsLast(n) == n > MaxRetries

(* A failed attempt: its body is closed and its account excluded.  The     *)
(* last one is returned as it is, with the body closed.                    *)
Failed(resp) ==
  /\ at = "asking"
  /\ IsRetryable(resp)
  /\ tried' = Exclude(account)
  /\ IF IsLast(attempt)
     THEN Return(resp, account)
     ELSE at' = "waiting" /\ response' = resp /\ UNCHANGED account
  /\ UNCHANGED <<attempt, asked, open, alive, streams, usage, client>>

BackOff ==
  /\ at = "waiting"
  /\ attempt' = attempt + 1
  /\ at' = "checking"
  /\ UNCHANGED <<tried, asked, account, response, open, alive, streams, usage, client>>

BackOffCancelled ==
  /\ at = "waiting"
  /\ ~alive
  /\ Return("none", NoAccount)
  /\ UNCHANGED <<attempt, tried, asked, open, alive, streams, usage, client>>

HangUp ==
  /\ alive
  /\ at # "done"
  /\ alive' = FALSE
  /\ UNCHANGED <<at, attempt, tried, asked, account, response, open, streams, usage, client>>
-------------------------------------------------------------------------------
Finish(status, sent) ==
  /\ at' = "done"
  /\ usage' = status
  /\ client' = sent
  /\ open' = open \ {attempt}  \* defer resp.Body.Close()
  /\ UNCHANGED <<attempt, tried, asked, account, response, alive, streams>>

AnswerNoneToLive ==
  /\ at = "returned"
  /\ response = "none"
  /\ alive
  /\ Finish("nothing", "badGateway")

AnswerNone ==
  /\ at = "returned"
  /\ response = "none"
  /\ Finish("nothing", "badGateway")

(* handleStreamResponse forwards lines until the body ends or breaks, and  *)
(* records a success in every case.                                        *)
AnswerStream ==
  /\ at = "returned"
  /\ response # "none"
  /\ streams
  /\ Finish("success", "stream")

BodyReads == attempt \in open

(* handleNonStreamResponse: a body that cannot be read is a bad gateway,   *)
(* one that does not parse is forwarded and not recorded.                  *)
AnswerBody ==
  /\ at = "returned"
  /\ response # "none"
  /\ ~streams
  /\ \/ Finish("nothing", "badGateway")
     \/ BodyReads /\ Finish("nothing", "body")
     \/ BodyReads /\ Finish("success", "body")

Attempting ==
  \/ CheckContext \/ (\E a \in Upstreams : SelectUpstream(a)) \/ SelectFails
  \/ \E resp \in Responses : DoRequest(resp) \/ Failed(resp)
  \/ BackOff \/ BackOffCancelled

Answering == AnswerNone \/ AnswerStream \/ AnswerBody

RetryNext == Attempting \/ Answering \/ HangUp

RetrySpec == RetryInit /\ [][RetryNext]_retryVars
-------------------------------------------------------------------------------
RetryTypeOK ==
  /\ at \in RetryPCs
  /\ attempt \in 1..(MaxRetries + 1)
  /\ tried \subseteq Upstreams
  /\ asked \in Seq(Upstreams)
  /\ account \in Upstreams \cup {NoAccount}
  /\ response \in Responses
  /\ open \subseteq 1..(MaxRetries + 1)
  /\ alive \in BOOLEAN /\ streams \in BOOLEAN
  /\ usage \in {"nothing", "success"}
  /\ client \in ClientGets

(* No account is asked twice for one request, over all of its attempts.    *)
TriesDistinctAccounts ==
  \A i, k \in 1..Len(asked) : asked[i] = asked[k] => i = k
================================================================================
