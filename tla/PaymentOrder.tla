----------------------------- MODULE PaymentOrder -----------------------------
(***************************************************************************)
(* Payment orders (payment_handler.go, payment/): a client opens a payment *)
(* at a provider, the provider notifies the webhook of what became of it,  *)
(* and the client may query, cancel or have it refunded.                   *)
(*                                                                         *)
(* payment_orders is keyed by a payment id of the server.  Notifications   *)
(* name a payment by the order_id, which the client chose and which        *)
(* nothing makes unique; queries, cancellations and refunds name it by the *)
(* third_party_id, which is unique and which only a notification of        *)
(* success or the answer to a query stores.  Of the three clients only     *)
(* Stripe's asks its provider: the other two sign what they would send,    *)
(* and answer for it themselves.                                           *)
(***************************************************************************)
EXTENDS Integers, FiniteSets

CONSTANTS
  Payments,      \* calls of CreatePayment, one payment each
  OrderIDs,      \* what clients name the orders they pay for
  ThirdIDs,      \* what providers name payments
  Blank,         \* an empty third_party_id
  NullID,        \* a NULL column
  Calls,         \* calls of QueryPayment, CancelPayment and Refund
  AmountDue,     \* the amount of a payment
  RefundAmounts  \* the amounts asked to be refunded; 0 asks for all

ASSUME PaymentAssumption ==
  /\ Payments # {}
  /\ AmountDue \in [Payments -> Nat \ {0}]
  /\ RefundAmounts \subseteq Nat
  /\ {Blank, NullID} \cap ThirdIDs = {} /\ Blank # NullID
  /\ NullID \notin OrderIDs

VARIABLES
  status,    \* payment_orders.status; "absent" before the row is there
  provider,  \* where the payment was opened
  orderOf,   \* order_id, as the provider was given it
  third,     \* third_party_id
  opening,   \* where CreatePayment is
  call,      \* a call, with what it read of the row
  refunded,  \* what the provider paid back
  refunds,   \* the amounts in the refunds table
  settled    \* history: the payments a success was stored for

paymentVars == <<status, provider, orderOf, third, opening, call, refunded, refunds, settled>>

Statuses   == {"absent", "pending", "success", "failed", "cancelled"}
Providers  == {"stripe", "alipay", "wechat"}
Openings   == {"none", "opened", "saved", "lost"}
Operations == {"query", "cancel", "refund"}
CallPCs    == {"idle", "asked", "answered", "done"}
StoredIDs  == ThirdIDs \cup {Blank, NullID}

NoCall == [pc |-> "idle", op |-> "query", payment |-> CHOOSE p \in Payments : TRUE,
           third |-> NullID, amount |-> 0]
-------------------------------------------------------------------------------
(* A definition named after a mistake is a mutant that PROJECT.json lists. *)
PaymentInit ==
  /\ status = [p \in Payments |-> "absent"]
  /\ provider = [p \in Payments |-> NullID]
  /\ orderOf = [p \in Payments |-> NullID]
  /\ third = [p \in Payments |-> NullID]
  /\ opening = [p \in Payments |-> "none"]
  /\ call = [c \in Calls |-> NoCall]
  /\ refunded = [p \in Payments |-> 0]
  /\ refunds = [p \in Payments |-> 0]
  /\ settled = {}

CreatePayment(p, o, x) ==
  /\ opening[p] = "none"
  /\ opening' = [opening EXCEPT ![p] = "opened"]
  /\ orderOf' = [orderOf EXCEPT ![p] = o]
  /\ provider' = [provider EXCEPT ![p] = x]
  /\ UNCHANGED <<status, third, call, refunded, refunds, settled>>

SaveOrderUnanswered(p) ==
  /\ opening[p] = "opened"
  /\ opening' = [opening EXCEPT ![p] = "saved"]
  /\ status' = [status EXCEPT ![p] = ""]
  /\ UNCHANGED <<provider, orderOf, third, call, refunded, refunds, settled>>

(* The row is inserted without a third_party_id. *)
SaveOrder(p) ==
  /\ opening[p] = "opened"
  /\ opening' = [opening EXCEPT ![p] = "saved"]
  /\ status' = [status EXCEPT ![p] = "pending"]
  /\ UNCHANGED <<provider, orderOf, third, call, refunded, refunds, settled>>

(* The insert fails: the provider has a checkout the server knows not of. *)
SaveOrderFails(p) ==
  /\ opening[p] = "opened"
  /\ opening' = [opening EXCEPT ![p] = "lost"]
  /\ UNCHANGED <<status, provider, orderOf, third, call, refunded, refunds, settled>>
-------------------------------------------------------------------------------
(* Update().Where(OrderIDEQ(o)) touches every row of the order. *)
Rows(o) == {p \in Payments : orderOf[p] = o /\ status[p] # "absent"}

Written(f, rows, v) == [p \in Payments |-> IF p \in rows THEN v ELSE f[p]]

AlwaysStorable(rows, id) == TRUE

(* The unique index on third_party_id, when all the rows are given one id. *)
Storable(rows, id) ==
  /\ \A p, q \in rows : p = q
  /\ \A q \in Payments \ rows : third[q] # id

(* A provider notifies of the payments of an order, any number of times    *)
(* and in any order; the provider of a row is not looked at.               *)
NotifiedBy(x, o) == \E p \in Payments : provider[p] = x /\ orderOf[p] = o

(* handlePaymentSuccess: whatever the status was.  An update that the      *)
(* index refuses is printed and acknowledged.                              *)
HandlePaymentSuccess(o, id) ==
  /\ Storable(Rows(o), id)
  /\ status' = Written(status, Rows(o), "success")
  /\ third' = Written(third, Rows(o), id)
  /\ settled' = settled \cup Rows(o)
  /\ UNCHANGED <<provider, orderOf, opening, call, refunded, refunds>>

HandlePaymentFailedReopening(o) ==
  /\ status' = Written(status, Rows(o), "pending")
  /\ UNCHANGED <<provider, orderOf, third, opening, call, refunded, refunds, settled>>

(* handlePaymentFailed: whatever the status was. *)
HandlePaymentFailed(o) ==
  /\ status' = Written(status, Rows(o), "failed")
  /\ UNCHANGED <<provider, orderOf, third, opening, call, refunded, refunds, settled>>

(* Stripe names the order as client_reference_id, which only a success is  *)
(* looked up by, and the payment as id.                                    *)
StripeWebhook(o) ==
  /\ NotifiedBy("stripe", o)
  /\ \E id \in ThirdIDs : HandlePaymentSuccess(o, id)

(* Alipay names them as out_trade_no and trade_no.  What is verified is a  *)
(* part of the notification, and these are read beside it: of the order    *)
(* nothing is known but that Alipay was asked for some payment.            *)
AlipayWebhook(o) ==
  /\ \E p \in Payments : provider[p] = "alipay"
  /\ (\E id \in ThirdIDs : HandlePaymentSuccess(o, id)) \/ HandlePaymentFailed(o)

(* WeChat names the order as out_trade_no too, and the payment by nothing  *)
(* that is looked up.                                                      *)
WechatWebhook(o) ==
  /\ NotifiedBy("wechat", o)
  /\ HandlePaymentSuccess(o, Blank) \/ HandlePaymentFailed(o)
-------------------------------------------------------------------------------
ReadOrder(c, op, p, n) ==
  /\ call[c].pc = "idle"
  /\ status[p] = (IF op = "refund" THEN "success" ELSE "pending")
  /\ call' = [call EXCEPT ![c] =
       [pc |-> "asked", op |-> op, payment |-> p, third |-> third[p], amount |-> n]]
  /\ UNCHANGED <<status, provider, orderOf, third, opening, refunded, refunds, settled>>

(* Each of the three reads the row and goes on only from the status it is  *)
(* for; the row may change before the provider has answered.               *)
QueryPayment(c, p)  == ReadOrder(c, "query", p, 0)
CancelPayment(c, p) == ReadOrder(c, "cancel", p, 0)
Refund(c, p, n)     == ReadOrder(c, "refund", p, IF n = 0 THEN AmountDue[p] ELSE n)

(* The payment service refuses an empty payment id. *)
Identified(c) == call[c].third \in ThirdIDs

Asked(c, op) == call[c].pc = "asked" /\ call[c].op = op

Answered(c) == call' = [call EXCEPT ![c].pc = "answered"]

Returns(c) == call' = [call EXCEPT ![c] = [NoCall EXCEPT !.pc = "done"]]

(* What a query is answered: a status, and the payment or nothing. *)
convertStatus(s) == IF s \in {"paid", "no_payment_required"} THEN "success" ELSE "pending"

StripeAnswers ==
  {[status |-> convertStatus(s), third |-> id] : s \in {"paid", "unpaid", "no_payment_required"},
                                                 id \in ThirdIDs}

AlipayAnswers == [status : {"pending"}, third : {Blank}]
WechatAnswers == [status : {"pending"}, third : {Blank}]

AnswersOf(x) ==
  CASE x = "stripe" -> StripeAnswers [] x = "alipay" -> AlipayAnswers [] OTHER -> WechatAnswers

QueryAnswered(c, a) ==
  /\ Asked(c, "query")
  /\ LET p == call[c].payment
         stores == Identified(c) /\ (a.third = Blank \/ Storable({p}, a.third))
     IN  /\ a \in AnswersOf(provider[p])
         /\ status' = IF stores THEN [status EXCEPT ![p] = a.status] ELSE status
         /\ third' = IF stores /\ a.third # Blank THEN [third EXCEPT ![p] = a.third] ELSE third
  /\ Returns(c)
  /\ UNCHANGED <<provider, orderOf, opening, refunded, refunds, settled>>

(* A cancellation, which all three accept, overwrites the status. *)
CancelAnswered(c) ==
  /\ Asked(c, "cancel")
  /\ status' = IF Identified(c) THEN [status EXCEPT ![call[c].payment] = "cancelled"]
                                ELSE status
  /\ Returns(c)
  /\ UNCHANGED <<provider, orderOf, third, opening, refunded, refunds, settled>>

AskedOf(c, x) == Asked(c, "refund") /\ provider[call[c].payment] = x

StripeRefund(c) ==
  /\ AskedOf(c, "stripe")
  /\ Identified(c)
  /\ refunded' = [refunded EXCEPT ![call[c].payment] = @ + call[c].amount]
  /\ Answered(c)
  /\ UNCHANGED <<status, provider, orderOf, third, opening, refunds, settled>>

(* Stripe pays back, and its answer does not arrive: an error is returned. *)
RefundAnswerLost(c) ==
  /\ AskedOf(c, "stripe")
  /\ Identified(c)
  /\ refunded' = [refunded EXCEPT ![call[c].payment] = @ + call[c].amount]
  /\ Returns(c)
  /\ UNCHANGED <<status, provider, orderOf, third, opening, refunds, settled>>

RefundUnsent(c) ==
  /\ Identified(c)
  /\ Answered(c)
  /\ UNCHANGED <<status, provider, orderOf, third, opening, refunded, refunds, settled>>

(* These two report success, and nobody has been asked to pay. *)
AlipayRefund(c) == AskedOf(c, "alipay") /\ RefundUnsent(c)
WechatRefund(c) == AskedOf(c, "wechat") /\ RefundUnsent(c)

RefundErrorIgnored(c) ==
  /\ Asked(c, "refund")
  /\ Answered(c)
  /\ UNCHANGED <<status, provider, orderOf, third, opening, refunded, refunds, settled>>

(* No payment id, or the client refuses. *)
RefundRefused(c) ==
  /\ Asked(c, "refund")
  /\ Identified(c) => provider[call[c].payment] # "wechat"
  /\ Returns(c)
  /\ UNCHANGED <<status, provider, orderOf, third, opening, refunded, refunds, settled>>

(* The row of a refund is inserted after the provider has answered. *)
SaveRefund(c) ==
  /\ call[c].pc = "answered"
  /\ refunds' = [refunds EXCEPT ![call[c].payment] = @ + call[c].amount]
  /\ Returns(c)
  /\ UNCHANGED <<status, provider, orderOf, third, opening, refunded, settled>>

SaveRefundFails(c) ==
  /\ call[c].pc = "answered"
  /\ Returns(c)
  /\ UNCHANGED <<status, provider, orderOf, third, opening, refunded, refunds, settled>>

(* Stripe opens a checkout for the order. *)
StripePayment(p, o) == CreatePayment(p, o, "stripe")

(* A link is signed, which makes Alipay open a trade when it is followed.  *)
AlipayPayment(p, o) == CreatePayment(p, o, "alipay")

(* An order is signed and an address made up for it. *)
WechatPayment(p, o) == CreatePayment(p, o, "wechat")

Opening(p) ==
  \/ \E o \in OrderIDs : StripePayment(p, o) \/ AlipayPayment(p, o) \/ WechatPayment(p, o)
  \/ SaveOrder(p)
  \/ SaveOrderFails(p)

Notification(o) == StripeWebhook(o) \/ AlipayWebhook(o) \/ WechatWebhook(o)

CallStep(c) ==
  \/ \E p \in Payments : QueryPayment(c, p) \/ CancelPayment(c, p)
  \/ \E p \in Payments, n \in RefundAmounts : Refund(c, p, n)
  \/ \E x \in Providers : \E a \in AnswersOf(x) : QueryAnswered(c, a)
  \/ CancelAnswered(c)
  \/ StripeRefund(c) \/ AlipayRefund(c) \/ WechatRefund(c)
  \/ RefundRefused(c) \/ RefundAnswerLost(c) \/ SaveRefund(c) \/ SaveRefundFails(c)

PaymentNext ==
  \/ \E p \in Payments : Opening(p)
  \/ \E o \in OrderIDs : Notification(o)
  \/ \E c \in Calls : CallStep(c)

PaymentSpec == PaymentInit /\ [][PaymentNext]_paymentVars
-------------------------------------------------------------------------------
PaymentTypeOK ==
  /\ status \in [Payments -> Statuses]
  /\ provider \in [Payments -> Providers \cup {NullID}]
  /\ orderOf \in [Payments -> OrderIDs \cup {NullID}]
  /\ third \in [Payments -> StoredIDs]
  /\ opening \in [Payments -> Openings]
  /\ call \in [Calls -> [pc : CallPCs, op : Operations, payment : Payments,
                         third : StoredIDs, amount : Nat]]
  /\ refunded \in [Payments -> Nat]
  /\ refunds \in [Payments -> Nat]
  /\ settled \subseteq Payments

(* A business order is never recorded as paid twice, however often it is   *)
(* paid for and whatever notifications come late, doubled or out of order. *)
(* (With two rows, it is the unique index that refuses the update, so      *)
(* neither is recorded as paid.)                                           *)
OnePaidPerOrder ==
  \A p, q \in Payments :
    /\ status[p] = "success" /\ status[q] = "success"
    /\ orderOf[p] = orderOf[q]
    => p = q

(* A payment that is pending has no third_party_id, now and when a call    *)
(* read it: so every query and every cancellation is refused by the        *)
(* payment service and changes no row.                                     *)
PendingIsUnidentified ==
  /\ \A p \in Payments : status[p] \in {"absent", "pending"} => third[p] = NullID
  /\ \A c \in Calls : Asked(c, "query") \/ Asked(c, "cancel") => ~Identified(c)

(* Money goes back, and a refund is recorded, only for payments a success  *)
(* was stored for; of Stripe's, the refunds table never claims more than    *)
(* was paid back.  (The refunds of the others were asked of nobody.)        *)
RefundsAreBacked ==
  \A p \in Payments :
    /\ refunds[p] > 0 \/ refunded[p] > 0 => p \in settled
    /\ provider[p] = "stripe" => refunds[p] <= refunded[p]
===============================================================================
