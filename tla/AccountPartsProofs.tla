--------------------------- MODULE AccountPartsProofs ---------------------------
(***************************************************************************)
(* Proofs about the parts of a user's account, for any payments, orders,   *)
(* calls, amounts, prices and keys.                                        *)
(*                                                                         *)
(* Payment orders.  That an order is paid once rests on the rows alone: a  *)
(* row keeps its order_id, and a notification of success writes all rows   *)
(* of its order or none.  That no query or cancellation gets through the   *)
(* payment service needs what the call read to be remembered with the      *)
(* call.  That refunds are backed needs what Stripe has paid back and the  *)
(* refunds table does not show yet.                                        *)
(***************************************************************************)
EXTENDS AccountParts, APIKeysProofs, FiniteSetTheorems

(* A row is there when its opening has saved it, and what was not opened   *)
(* names no order.                                                         *)
RowFollowsOpening ==
  \A p \in Payments :
    /\ opening[p] # "saved" => status[p] = "absent"
    /\ opening[p] = "none" => orderOf[p] = NullID

PayInv == PaymentTypeOK /\ RowFollowsOpening /\ PendingIsUnidentified /\ OnePaidPerOrder

PaymentCallRecords ==
  [pc : CallPCs, op : Operations, payment : Payments, third : StoredIDs, amount : Nat]

Done == [NoCall EXCEPT !.pc = "done"]

(* A call that has not begun, or is over, holds nothing. *)
LEMMA NoCallHolds ==
  /\ NoCall \in PaymentCallRecords /\ NoCall.pc = "idle"
  /\ Done \in PaymentCallRecords /\ Done.pc = "done"
  BY PaymentAssumption DEF NoCall, Done, PaymentCallRecords, CallPCs, Operations, StoredIDs

(* The initial states satisfy the invariant. *)
LEMMA PayInvInit == PaymentInit => PayInv
  BY NoCallHolds, PaymentAssumption
  DEF PaymentInit, PayInv, PaymentTypeOK, RowFollowsOpening, PendingIsUnidentified,
      OnePaidPerOrder, Asked, Statuses, StoredIDs, Openings, PaymentCallRecords

(* Every step preserves the invariant. *)
LEMMA PayInvStep == PayInv /\ [PaymentNext]_paymentVars => PayInv'
<1> USE PaymentAssumption
<1> SUFFICES ASSUME PayInv, [PaymentNext]_paymentVars PROVE PayInv'
  OBVIOUS
<1> USE DEF PayInv
<1>1. ASSUME NEW p \in Payments, NEW o \in OrderIDs, NEW x \in Providers, CreatePayment(p, o, x)
      PROVE  PayInv'
  <2>1. PaymentTypeOK'
    BY <1>1
    DEF CreatePayment, Providers, PaymentTypeOK, Statuses, Openings, CallPCs, Operations,
        StoredIDs
  <2>2. RowFollowsOpening'
    BY <1>1
    DEF CreatePayment, Providers, RowFollowsOpening, PaymentTypeOK
  <2>3. PendingIsUnidentified'
    BY <1>1
    DEF CreatePayment, Providers, PendingIsUnidentified, PaymentTypeOK, RowFollowsOpening,
        Identified, Asked, Operations, CallPCs, StoredIDs
  <2>4. OnePaidPerOrder'
    BY <1>1
    DEF CreatePayment, Providers, OnePaidPerOrder, PaymentTypeOK, RowFollowsOpening,
        PendingIsUnidentified, Statuses
  <2> QED
    BY <2>1, <2>2, <2>3, <2>4
<1>2. ASSUME NEW p \in Payments, SaveOrder(p) PROVE PayInv'
  <2>1. PaymentTypeOK'
    BY <1>2
    DEF SaveOrder, PaymentTypeOK, Statuses, Openings, CallPCs, Operations, StoredIDs
  <2>2. RowFollowsOpening'
    BY <1>2
    DEF SaveOrder, RowFollowsOpening, PaymentTypeOK
  <2>3. PendingIsUnidentified'
    BY <1>2
    DEF SaveOrder, PendingIsUnidentified, PaymentTypeOK, RowFollowsOpening, Identified, Asked,
        Operations, CallPCs, StoredIDs
  <2>4. OnePaidPerOrder'
    BY <1>2
    DEF SaveOrder, OnePaidPerOrder, PaymentTypeOK, RowFollowsOpening, PendingIsUnidentified,
        Statuses
  <2> QED
    BY <2>1, <2>2, <2>3, <2>4
<1>3. ASSUME NEW p \in Payments, SaveOrderFails(p) PROVE PayInv'
  <2>1. PaymentTypeOK'
    BY <1>3
    DEF SaveOrderFails, PaymentTypeOK, Statuses, Openings, CallPCs, Operations, StoredIDs
  <2>2. RowFollowsOpening'
    BY <1>3
    DEF SaveOrderFails, RowFollowsOpening, PaymentTypeOK
  <2>3. PendingIsUnidentified'
    BY <1>3
    DEF SaveOrderFails, PendingIsUnidentified, PaymentTypeOK, RowFollowsOpening, Identified,
        Asked, Operations, CallPCs, StoredIDs
  <2>4. OnePaidPerOrder'
    BY <1>3
    DEF SaveOrderFails, OnePaidPerOrder, PaymentTypeOK, RowFollowsOpening,
        PendingIsUnidentified, Statuses
  <2> QED
    BY <2>1, <2>2, <2>3, <2>4
<1>4. ASSUME NEW o \in OrderIDs, NEW id \in ThirdIDs \cup {Blank}, HandlePaymentSuccess(o, id)
      PROVE  PayInv'
  <2>1. PaymentTypeOK'
    BY <1>4
    DEF HandlePaymentSuccess, Storable, Rows, Written, PaymentTypeOK, Statuses, Openings,
        CallPCs, Operations, StoredIDs
  <2>2. RowFollowsOpening'
    BY <1>4
    DEF HandlePaymentSuccess, Storable, Rows, Written, RowFollowsOpening, PaymentTypeOK
  <2>3. PendingIsUnidentified'
    BY <1>4
    DEF HandlePaymentSuccess, Storable, Rows, Written, PendingIsUnidentified, PaymentTypeOK,
        RowFollowsOpening, Identified, Asked, Operations, CallPCs, StoredIDs
  <2>4. OnePaidPerOrder'
    BY <1>4
    DEF HandlePaymentSuccess, Storable, Rows, Written, OnePaidPerOrder, PaymentTypeOK,
        RowFollowsOpening, PendingIsUnidentified, Statuses
  <2> QED
    BY <2>1, <2>2, <2>3, <2>4
<1>5. ASSUME NEW o \in OrderIDs, HandlePaymentFailed(o) PROVE PayInv'
  <2>1. PaymentTypeOK'
    BY <1>5
    DEF HandlePaymentFailed, Rows, Written, PaymentTypeOK, Statuses, Openings, CallPCs,
        Operations, StoredIDs
  <2>2. RowFollowsOpening'
    BY <1>5
    DEF HandlePaymentFailed, Rows, Written, RowFollowsOpening, PaymentTypeOK
  <2>3. PendingIsUnidentified'
    BY <1>5
    DEF HandlePaymentFailed, Rows, Written, PendingIsUnidentified, PaymentTypeOK,
        RowFollowsOpening, Identified, Asked, Operations, CallPCs, StoredIDs
  <2>4. OnePaidPerOrder'
    BY <1>5
    DEF HandlePaymentFailed, Rows, Written, OnePaidPerOrder, PaymentTypeOK, RowFollowsOpening,
        PendingIsUnidentified, Statuses
  <2> QED
    BY <2>1, <2>2, <2>3, <2>4
<1>6. ASSUME NEW c \in Calls, NEW p \in Payments, QueryPayment(c, p) PROVE PayInv'
  <2>1. PaymentTypeOK'
    BY <1>6
    DEF QueryPayment, ReadOrder, PaymentTypeOK, Statuses, Openings, CallPCs, Operations,
        StoredIDs
  <2>2. RowFollowsOpening'
    BY <1>6
    DEF QueryPayment, ReadOrder, RowFollowsOpening, PaymentTypeOK
  <2>3. PendingIsUnidentified'
    BY <1>6
    DEF QueryPayment, ReadOrder, PendingIsUnidentified, PaymentTypeOK, RowFollowsOpening,
        Identified, Asked, Operations, CallPCs, StoredIDs
  <2>4. OnePaidPerOrder'
    BY <1>6
    DEF QueryPayment, ReadOrder, OnePaidPerOrder, PaymentTypeOK, RowFollowsOpening,
        PendingIsUnidentified, Statuses
  <2> QED
    BY <2>1, <2>2, <2>3, <2>4
<1>7. ASSUME NEW c \in Calls, NEW p \in Payments, CancelPayment(c, p) PROVE PayInv'
  <2>1. PaymentTypeOK'
    BY <1>7
    DEF CancelPayment, ReadOrder, PaymentTypeOK, Statuses, Openings, CallPCs, Operations,
        StoredIDs
  <2>2. RowFollowsOpening'
    BY <1>7
    DEF CancelPayment, ReadOrder, RowFollowsOpening, PaymentTypeOK
  <2>3. PendingIsUnidentified'
    BY <1>7
    DEF CancelPayment, ReadOrder, PendingIsUnidentified, PaymentTypeOK, RowFollowsOpening,
        Identified, Asked, Operations, CallPCs, StoredIDs
  <2>4. OnePaidPerOrder'
    BY <1>7
    DEF CancelPayment, ReadOrder, OnePaidPerOrder, PaymentTypeOK, RowFollowsOpening,
        PendingIsUnidentified, Statuses
  <2> QED
    BY <2>1, <2>2, <2>3, <2>4
<1>8. ASSUME NEW c \in Calls, NEW p \in Payments, NEW n \in RefundAmounts, Refund(c, p, n)
      PROVE  PayInv'
  <2>1. PaymentTypeOK'
    BY <1>8
    DEF Refund, ReadOrder, PaymentTypeOK, Statuses, Openings, CallPCs, Operations, StoredIDs
  <2>2. RowFollowsOpening'
    BY <1>8
    DEF Refund, ReadOrder, RowFollowsOpening, PaymentTypeOK
  <2>3. PendingIsUnidentified'
    BY <1>8
    DEF Refund, ReadOrder, PendingIsUnidentified, PaymentTypeOK, RowFollowsOpening,
        Identified, Asked, Operations, CallPCs, StoredIDs
  <2>4. OnePaidPerOrder'
    BY <1>8
    DEF Refund, ReadOrder, OnePaidPerOrder, PaymentTypeOK, RowFollowsOpening,
        PendingIsUnidentified, Statuses
  <2> QED
    BY <2>1, <2>2, <2>3, <2>4
<1>9. ASSUME NEW c \in Calls, NEW a, QueryAnswered(c, a) PROVE PayInv'
  <2>0. call' = [call EXCEPT ![c] = Done]
    BY <1>9 DEF QueryAnswered, Returns, Done
  <2>1. PaymentTypeOK'
    BY <1>9, <2>0, NoCallHolds
    DEF QueryAnswered, PaymentTypeOK, PaymentCallRecords, Statuses, Asked, PendingIsUnidentified,
        Identified
  <2>2. RowFollowsOpening'
    BY <1>9, <2>0, NoCallHolds
    DEF QueryAnswered, RowFollowsOpening, PaymentTypeOK, Asked, PendingIsUnidentified,
        Identified
  <2>3. PendingIsUnidentified'
    BY <1>9, <2>0, NoCallHolds
    DEF QueryAnswered, PendingIsUnidentified, PaymentTypeOK, RowFollowsOpening, Identified,
        Asked
  <2>4. OnePaidPerOrder'
    BY <1>9, <2>0, NoCallHolds
    DEF QueryAnswered, OnePaidPerOrder, PaymentTypeOK, RowFollowsOpening,
        PendingIsUnidentified, Statuses, Asked, Identified
  <2> QED
    BY <2>1, <2>2, <2>3, <2>4
<1>10. ASSUME NEW c \in Calls, CancelAnswered(c) PROVE PayInv'
  <2>0. call' = [call EXCEPT ![c] = Done]
    BY <1>10 DEF CancelAnswered, Returns, Done
  <2>1. PaymentTypeOK'
    BY <1>10, <2>0, NoCallHolds
    DEF CancelAnswered, PaymentTypeOK, PaymentCallRecords, Statuses, Asked, PendingIsUnidentified,
        Identified
  <2>2. RowFollowsOpening'
    BY <1>10, <2>0, NoCallHolds
    DEF CancelAnswered, RowFollowsOpening, PaymentTypeOK, Asked, PendingIsUnidentified,
        Identified
  <2>3. PendingIsUnidentified'
    BY <1>10, <2>0, NoCallHolds
    DEF CancelAnswered, PendingIsUnidentified, PaymentTypeOK, RowFollowsOpening, Identified,
        Asked
  <2>4. OnePaidPerOrder'
    BY <1>10, <2>0, NoCallHolds
    DEF CancelAnswered, OnePaidPerOrder, PaymentTypeOK, RowFollowsOpening,
        PendingIsUnidentified, Statuses, Asked, Identified
  <2> QED
    BY <2>1, <2>2, <2>3, <2>4
<1>11. ASSUME NEW c \in Calls, StripeRefund(c) PROVE PayInv'
  <2>1. PaymentTypeOK'
    <3>1. call[c].payment \in Payments /\ call[c].amount \in Nat
      BY DEF PaymentTypeOK
    <3>2. refunded' \in [Payments -> Nat]
      BY <1>11, <3>1 DEF StripeRefund, PaymentTypeOK
    <3>3. call' \in [Calls -> PaymentCallRecords]
      BY <1>11 DEF StripeRefund, AskedOf, Answered, PaymentTypeOK, PaymentCallRecords, CallPCs
    <3> QED
      BY <1>11, <3>2, <3>3 DEF StripeRefund, PaymentTypeOK, PaymentCallRecords
  <2>2. RowFollowsOpening'
    BY <1>11
    DEF StripeRefund, AskedOf, Answered, RowFollowsOpening, PaymentTypeOK
  <2>3. PendingIsUnidentified'
    BY <1>11
    DEF StripeRefund, AskedOf, Answered, PendingIsUnidentified, PaymentTypeOK,
        RowFollowsOpening, Identified, Asked, Operations, CallPCs, StoredIDs
  <2>4. OnePaidPerOrder'
    BY <1>11
    DEF StripeRefund, AskedOf, Answered, OnePaidPerOrder, PaymentTypeOK, RowFollowsOpening,
        PendingIsUnidentified, Statuses
  <2> QED
    BY <2>1, <2>2, <2>3, <2>4
<1>12. ASSUME NEW c \in Calls, Asked(c, "refund"), RefundUnsent(c) PROVE PayInv'
  <2>1. PaymentTypeOK'
    BY <1>12
    DEF RefundUnsent, Answered, PaymentTypeOK, Statuses, Openings, CallPCs, Operations,
        StoredIDs
  <2>2. RowFollowsOpening'
    BY <1>12
    DEF RefundUnsent, Answered, RowFollowsOpening, PaymentTypeOK
  <2>3. PendingIsUnidentified'
    BY <1>12
    DEF RefundUnsent, Answered, PendingIsUnidentified, PaymentTypeOK, RowFollowsOpening,
        Identified, Asked, Operations, CallPCs, StoredIDs
  <2>4. OnePaidPerOrder'
    BY <1>12
    DEF RefundUnsent, Answered, OnePaidPerOrder, PaymentTypeOK, RowFollowsOpening,
        PendingIsUnidentified, Statuses
  <2> QED
    BY <2>1, <2>2, <2>3, <2>4
<1>13. ASSUME NEW c \in Calls, RefundRefused(c) PROVE PayInv'
  <2>0. call' = [call EXCEPT ![c] = Done]
    BY <1>13 DEF RefundRefused, Returns, Done
  <2>1. PaymentTypeOK'
    BY <1>13, <2>0, NoCallHolds
    DEF RefundRefused, PaymentTypeOK, PaymentCallRecords, Statuses
  <2>2. RowFollowsOpening'
    BY <1>13, <2>0, NoCallHolds
    DEF RefundRefused, RowFollowsOpening, PaymentTypeOK
  <2>3. PendingIsUnidentified'
    BY <1>13, <2>0, NoCallHolds
    DEF RefundRefused, PendingIsUnidentified, PaymentTypeOK, RowFollowsOpening, Identified,
        Asked
  <2>4. OnePaidPerOrder'
    BY <1>13, <2>0, NoCallHolds
    DEF RefundRefused, OnePaidPerOrder, PaymentTypeOK, RowFollowsOpening,
        PendingIsUnidentified, Statuses
  <2> QED
    BY <2>1, <2>2, <2>3, <2>4
<1>14. ASSUME NEW c \in Calls, SaveRefund(c) PROVE PayInv'
  <2>0. call' = [call EXCEPT ![c] = Done]
    BY <1>14 DEF SaveRefund, Returns, Done
  <2>1. PaymentTypeOK'
    <3>1. call[c].payment \in Payments /\ call[c].amount \in Nat
      BY DEF PaymentTypeOK
    <3>2. refunds' \in [Payments -> Nat]
      BY <1>14, <3>1 DEF SaveRefund, PaymentTypeOK
    <3>3. call' \in [Calls -> PaymentCallRecords]
      BY <2>0, NoCallHolds DEF PaymentTypeOK, PaymentCallRecords
    <3> QED
      BY <1>14, <3>2, <3>3 DEF SaveRefund, PaymentTypeOK, PaymentCallRecords
  <2>2. RowFollowsOpening'
    BY <1>14, <2>0, NoCallHolds
    DEF SaveRefund, RowFollowsOpening, PaymentTypeOK
  <2>3. PendingIsUnidentified'
    BY <1>14, <2>0, NoCallHolds
    DEF SaveRefund, PendingIsUnidentified, PaymentTypeOK, RowFollowsOpening, Identified, Asked
  <2>4. OnePaidPerOrder'
    BY <1>14, <2>0, NoCallHolds
    DEF SaveRefund, OnePaidPerOrder, PaymentTypeOK, RowFollowsOpening, PendingIsUnidentified,
        Statuses
  <2> QED
    BY <2>1, <2>2, <2>3, <2>4
<1>15. ASSUME NEW c \in Calls, SaveRefundFails(c) PROVE PayInv'
  <2>0. call' = [call EXCEPT ![c] = Done]
    BY <1>15 DEF SaveRefundFails, Returns, Done
  <2>1. PaymentTypeOK'
    BY <1>15, <2>0, NoCallHolds
    DEF SaveRefundFails, PaymentTypeOK, PaymentCallRecords, Statuses
  <2>2. RowFollowsOpening'
    BY <1>15, <2>0, NoCallHolds
    DEF SaveRefundFails, RowFollowsOpening, PaymentTypeOK
  <2>3. PendingIsUnidentified'
    BY <1>15, <2>0, NoCallHolds
    DEF SaveRefundFails, PendingIsUnidentified, PaymentTypeOK, RowFollowsOpening, Identified,
        Asked
  <2>4. OnePaidPerOrder'
    BY <1>15, <2>0, NoCallHolds
    DEF SaveRefundFails, OnePaidPerOrder, PaymentTypeOK, RowFollowsOpening,
        PendingIsUnidentified, Statuses
  <2> QED
    BY <2>1, <2>2, <2>3, <2>4
<1>20. ASSUME NEW c \in Calls, RefundAnswerLost(c) PROVE PayInv'
  <2>0. call' = [call EXCEPT ![c] = Done]
    BY <1>20 DEF RefundAnswerLost, Returns, Done
  <2>1. PaymentTypeOK'
    <3>1. call[c].payment \in Payments /\ call[c].amount \in Nat
      BY DEF PaymentTypeOK
    <3>2. refunded' \in [Payments -> Nat]
      BY <1>20, <3>1 DEF RefundAnswerLost, PaymentTypeOK
    <3>3. call' \in [Calls -> PaymentCallRecords]
      BY <2>0, NoCallHolds DEF PaymentTypeOK, PaymentCallRecords
    <3> QED
      BY <1>20, <3>2, <3>3 DEF RefundAnswerLost, PaymentTypeOK, PaymentCallRecords
  <2>2. RowFollowsOpening'
    BY <1>20, <2>0, NoCallHolds
    DEF RefundAnswerLost, RowFollowsOpening, PaymentTypeOK
  <2>3. PendingIsUnidentified'
    BY <1>20, <2>0, NoCallHolds
    DEF RefundAnswerLost, PendingIsUnidentified, PaymentTypeOK, RowFollowsOpening, Identified,
        Asked
  <2>4. OnePaidPerOrder'
    BY <1>20, <2>0, NoCallHolds
    DEF RefundAnswerLost, OnePaidPerOrder, PaymentTypeOK, RowFollowsOpening,
        PendingIsUnidentified, Statuses
  <2> QED
    BY <2>1, <2>2, <2>3, <2>4
<1>16. CASE UNCHANGED paymentVars
  BY <1>16 DEF paymentVars, PaymentTypeOK, RowFollowsOpening, PendingIsUnidentified,
             OnePaidPerOrder, Asked, Identified
<1>17. ASSUME NEW p \in Payments, Opening(p) PROVE PayInv'
  BY <1>17, <1>1, <1>2, <1>3
  DEF Opening, StripePayment, AlipayPayment, WechatPayment, Providers
<1>18. ASSUME NEW o \in OrderIDs, Notification(o) PROVE PayInv'
  BY <1>18, <1>4, <1>5 DEF Notification, StripeWebhook, AlipayWebhook, WechatWebhook
<1>19. ASSUME NEW c \in Calls, CallStep(c) PROVE PayInv'
  <2>1. AlipayRefund(c) \/ WechatRefund(c) => Asked(c, "refund") /\ RefundUnsent(c)
    BY DEF AlipayRefund, WechatRefund, AskedOf
  <2> QED
    BY <1>19, <2>1, <1>6, <1>7, <1>8, <1>9, <1>10, <1>11, <1>12, <1>13, <1>14, <1>15, <1>20
    DEF CallStep
<1> QED
  BY <1>16, <1>17, <1>18, <1>19 DEF PaymentNext

(* Every variable keeps its type. *)
THEOREM PaymentTypeCorrect == PaymentSpec => []PaymentTypeOK
<1>1. PayInv => PaymentTypeOK
  BY DEF PayInv
<1> QED
  BY PayInvInit, PayInvStep, <1>1, PTL DEF PaymentSpec

(* For any number of payments that share an order, at most one is ever     *)
(* recorded as paid at a time (handlePaymentSuccess, payment_orders).      *)
THEOREM OrderPaidOnce == PaymentSpec => []OnePaidPerOrder
<1>1. PayInv => OnePaidPerOrder
  BY DEF PayInv
<1> QED
  BY PayInvInit, PayInvStep, <1>1, PTL DEF PaymentSpec

(* No query and no cancellation of a pending payment is ever let through   *)
(* by the payment service (QueryPayment, CancelPayment).                   *)
THEOREM NoCallGetsThrough == PaymentSpec => []PendingIsUnidentified
<1>1. PayInv => PendingIsUnidentified
  BY DEF PayInv
<1> QED
  BY PayInvInit, PayInvStep, <1>1, PTL DEF PaymentSpec
-------------------------------------------------------------------------------
(* A payment whose status is success was settled, and has a row.  A refund *)
(* that is on its way is of such a payment.                                *)
SettledRows ==
  \A p \in Payments : /\ status[p] = "success" => p \in settled
                      /\ p \in settled => status[p] # "absent"
RefundsOfSettled ==
  /\ \A c \in Calls : Asked(c, "refund") \/ call[c].pc = "answered"
                     => call[c].payment \in settled
  /\ \A p \in Payments : refunds[p] > 0 \/ refunded[p] > 0 => p \in settled

(* Every unit of money that a provider said it paid back and that is not   *)
(* in the refunds table yet.                                               *)
UnitsOf(c, n) == {c} \X (1..n)
Unsaved(p) == {u \in Calls \X Nat : /\ call[u[1]].pc = "answered" /\ call[u[1]].payment = p
                                   /\ u[2] \in 1..call[u[1]].amount}
StripePaidUnsaved ==
  \A p \in Payments :
    provider[p] = "stripe" => /\ IsFiniteSet(Unsaved(p))
                              /\ refunds[p] + Cardinality(Unsaved(p)) <= refunded[p]

RefundInv == SettledRows /\ RefundsOfSettled /\ StripePaidUnsaved

(* There are as many units of an amount as it says. *)
LEMMA AmountInUnits ==
  ASSUME NEW c, NEW n \in Nat
  PROVE  IsFiniteSet(UnitsOf(c, n)) /\ Cardinality(UnitsOf(c, n)) = n
<1>1. IsFiniteSet({c}) /\ Cardinality({c}) = 1
  BY FS_Singleton
<1>2. IsFiniteSet(1..n) /\ Cardinality(1..n) = n
  BY FS_Interval
<1>3. /\ IsFiniteSet(UnitsOf(c, n))
      /\ Cardinality(UnitsOf(c, n)) = Cardinality({c}) * Cardinality(1..n)
  BY <1>1, <1>2, FS_Product DEF UnitsOf
<1> QED BY <1>1, <1>2, <1>3

(* The units of a call join or leave those that are unsaved. *)
LEMMA UnitsJoin ==
  ASSUME NEW S, IsFiniteSet(S), NEW c, NEW n \in Nat, S \cap UnitsOf(c, n) = {}
  PROVE  /\ IsFiniteSet(S \cup UnitsOf(c, n))
         /\ Cardinality(S \cup UnitsOf(c, n)) = Cardinality(S) + n
<1>1. IsFiniteSet(UnitsOf(c, n)) /\ Cardinality(UnitsOf(c, n)) = n
  BY AmountInUnits
<1>2. /\ IsFiniteSet(S \cup UnitsOf(c, n))
      /\ Cardinality(S \cup UnitsOf(c, n))
         = Cardinality(S) + Cardinality(UnitsOf(c, n)) - Cardinality(S \cap UnitsOf(c, n))
  BY <1>1, FS_Union
<1>3. Cardinality(S \cap UnitsOf(c, n)) = 0 /\ Cardinality(S) \in Nat
  BY FS_EmptySet, FS_CardinalityType
<1> QED BY <1>1, <1>2, <1>3

LEMMA UnitsLeave ==
  ASSUME NEW S, IsFiniteSet(S), NEW c, NEW n \in Nat, UnitsOf(c, n) \subseteq S
  PROVE  /\ IsFiniteSet(S \ UnitsOf(c, n))
         /\ Cardinality(S) = Cardinality(S \ UnitsOf(c, n)) + n
         /\ Cardinality(S \ UnitsOf(c, n)) \in Nat
<1> DEFINE rest == S \ UnitsOf(c, n)
<1>1. IsFiniteSet(rest) /\ Cardinality(rest) \in Nat
  BY FS_Subset, FS_CardinalityType
<1>2. rest \cap UnitsOf(c, n) = {} /\ rest \cup UnitsOf(c, n) = S
  OBVIOUS
<1> HIDE DEF rest
<1>3. Cardinality(rest \cup UnitsOf(c, n)) = Cardinality(rest) + n
  BY <1>1, <1>2, UnitsJoin
<1> QED BY <1>1, <1>2, <1>3 DEF rest

LEMMA RefundInit == PaymentInit => RefundInv
<1> SUFFICES ASSUME PaymentInit PROVE RefundInv
  OBVIOUS
<1>1. SettledRows /\ RefundsOfSettled
  BY NoCallHolds DEF PaymentInit, SettledRows, RefundsOfSettled, Asked
<1>2. ASSUME NEW p \in Payments
      PROVE  IsFiniteSet(Unsaved(p)) /\ refunds[p] + Cardinality(Unsaved(p)) <= refunded[p]
  <2>1. Unsaved(p) = {}
    BY NoCallHolds DEF PaymentInit, Unsaved
  <2>2. refunds[p] = 0 /\ refunded[p] = 0
    BY DEF PaymentInit
  <2> QED BY <2>1, <2>2, FS_EmptySet
<1> QED BY <1>1, <1>2 DEF RefundInv, StripePaidUnsaved

(* A step that leaves the refunds and the answered calls alone. *)
LEMMA UnsavedKept ==
  ASSUME StripePaidUnsaved, UNCHANGED <<provider, refunds, refunded>>,
         \A p \in Payments : Unsaved(p)' = Unsaved(p)
  PROVE  StripePaidUnsaved'
BY DEF StripePaidUnsaved

(* A call that is not answered before or after a step has no units then.   *)
LEMMA UnansweredKeeps ==
  ASSUME PaymentTypeOK, NEW c \in Calls, call[c].pc # "answered",
         NEW r, r.pc # "answered", call' = [call EXCEPT ![c] = r]
  PROVE  \A p \in Payments : Unsaved(p)' = Unsaved(p)
BY DEF PaymentTypeOK, Unsaved

LEMMA RefundRowStep ==
  ASSUME PayInv, RefundInv, call' = call, provider' = provider,
         UNCHANGED <<refunds, refunded>>, SettledRows', settled \subseteq settled'
  PROVE  RefundInv'
<1>1. RefundsOfSettled'
  BY DEF RefundInv, RefundsOfSettled, Asked
<1>2. \A p \in Payments : Unsaved(p)' = Unsaved(p)
  BY DEF Unsaved
<1> QED BY <1>1, <1>2, UnsavedKept DEF RefundInv

LEMMA RefundOpeningStep ==
  ASSUME PayInv, RefundInv, NEW p \in Payments, Opening(p)
  PROVE  RefundInv'
<1> USE DEF PayInv, RefundInv
<1>1. ASSUME NEW o \in OrderIDs, NEW x \in Providers, CreatePayment(p, o, x)
      PROVE  RefundInv'
  <2>1. SettledRows' /\ RefundsOfSettled'
    BY <1>1 DEF CreatePayment, SettledRows, RefundsOfSettled, Asked
  <2>2. p \notin settled
    BY <1>1 DEF CreatePayment, RowFollowsOpening, SettledRows
  <2>3. refunds[p] = 0 /\ refunded[p] = 0
    BY <2>2 DEF RefundsOfSettled, PaymentTypeOK
  <2>4. Unsaved(p) = {}
    BY <2>2 DEF RefundsOfSettled, Unsaved
  <2>5. \A q \in Payments : Unsaved(q)' = Unsaved(q)
    BY <1>1 DEF CreatePayment, Unsaved
  <2>6. IsFiniteSet(Unsaved(p)) /\ refunds[p] + Cardinality(Unsaved(p)) <= refunded[p]
    BY <2>3, <2>4, FS_EmptySet
  <2>7. UNCHANGED <<refunds, refunded>> /\ \A q \in Payments \ {p} : provider'[q] = provider[q]
    BY <1>1 DEF CreatePayment, PaymentTypeOK
  <2>8. StripePaidUnsaved'
    BY <2>5, <2>6, <2>7 DEF StripePaidUnsaved
  <2> QED BY <2>1, <2>8
<1>2. ASSUME SaveOrder(p) \/ SaveOrderFails(p)
      PROVE  RefundInv'
  <2>1. SettledRows'
    BY <1>2 DEF SaveOrder, SaveOrderFails, SettledRows, RowFollowsOpening, PaymentTypeOK
  <2> QED BY <1>2, <2>1, RefundRowStep DEF SaveOrder, SaveOrderFails
<1> QED BY <1>1, <1>2 DEF Opening, StripePayment, AlipayPayment, WechatPayment, Providers

LEMMA RefundNotificationStep ==
  ASSUME PayInv, RefundInv, NEW o \in OrderIDs, Notification(o)
  PROVE  RefundInv'
<1> USE DEF PayInv, RefundInv
<1>1. ASSUME NEW id, HandlePaymentSuccess(o, id)
      PROVE  RefundInv'
  <2>1. SettledRows'
    BY <1>1 DEF HandlePaymentSuccess, Written, Rows, SettledRows, PaymentTypeOK
  <2> QED BY <1>1, <2>1, RefundRowStep DEF HandlePaymentSuccess
<1>2. ASSUME HandlePaymentFailed(o)
      PROVE  RefundInv'
  <2>1. SettledRows'
    BY <1>2 DEF HandlePaymentFailed, Written, Rows, SettledRows, PaymentTypeOK
  <2> QED BY <1>2, <2>1, RefundRowStep DEF HandlePaymentFailed
<1> QED BY <1>1, <1>2 DEF Notification, StripeWebhook, AlipayWebhook, WechatWebhook

(* A call that is not a refund, or is refused, changes no row and is over, *)
(* or has just begun.                                                      *)
LEMMA RefundQuietStep ==
  ASSUME PayInv, RefundInv, NEW c \in Calls, call[c].pc # "answered",
         UNCHANGED <<status, provider, refunds, refunded, settled>>,
         NEW r \in PaymentCallRecords, r.pc # "answered", call' = [call EXCEPT ![c] = r],
         r.pc = "asked" /\ r.op = "refund" => r.payment \in settled
  PROVE  RefundInv'
<1> USE DEF PayInv, RefundInv
<1>1. SettledRows'
  BY DEF SettledRows
<1>2. RefundsOfSettled'
  <2>1. call'[c] = r /\ \A b \in Calls \ {c} : call'[b] = call[b]
    BY DEF PaymentTypeOK
  <2> QED BY <2>1 DEF RefundsOfSettled, Asked
<1>3. StripePaidUnsaved'
  BY UnansweredKeeps, UnsavedKept
<1> QED BY <1>1, <1>2, <1>3

(* A refund that a provider accepts. *)
LEMMA RefundAcceptedStep ==
  ASSUME PayInv, RefundInv, NEW c \in Calls, Asked(c, "refund"), Answered(c),
         NEW pay \in Payments, NEW n \in Nat, call[c].payment = pay, call[c].amount = n,
         UNCHANGED <<status, provider, refunds, settled>>,
         \/ refunded' = [refunded EXCEPT ![pay] = @ + n]
         \/ provider[pay] # "stripe" /\ UNCHANGED refunded
  PROVE  RefundInv'
<1> USE DEF PayInv, RefundInv
<1>a. call[c].pc = "asked" /\ pay \in settled
  BY DEF PaymentTypeOK, Asked, RefundsOfSettled
<1>b. /\ call'[c].pc = "answered" /\ call'[c].payment = pay /\ call'[c].amount = n
      /\ \A b \in Calls \ {c} : call'[b] = call[b]
  BY DEF PaymentTypeOK, Answered
<1>c. refunds \in [Payments -> Nat] /\ refunded \in [Payments -> Nat]
  BY DEF PaymentTypeOK
<1>1. SettledRows'
  BY DEF SettledRows
<1>2. RefundsOfSettled'
  <2>1. \A b \in Calls : Asked(b, "refund")' \/ call'[b].pc = "answered"
                         => call'[b].payment \in settled
    BY <1>a, <1>b DEF RefundsOfSettled, Asked
  <2>2. \A p \in Payments \ {pay} : refunded'[p] = refunded[p]
    BY <1>c
  <2>3. \A p \in Payments : refunds[p] > 0 \/ refunded'[p] > 0 => p \in settled
    BY <1>a, <2>2 DEF RefundsOfSettled
  <2> QED BY <2>1, <2>3 DEF RefundsOfSettled
<1>3. \A p \in Payments \ {pay} : Unsaved(p)' = Unsaved(p)
  BY <1>a, <1>b DEF Unsaved
<1>4. Unsaved(pay)' = Unsaved(pay) \cup UnitsOf(c, n) /\ Unsaved(pay) \cap UnitsOf(c, n) = {}
  <2>1. \A u \in Calls \X Nat : u \in UnitsOf(c, n) <=> u[1] = c /\ u[2] \in 1..n
    BY DEF UnitsOf
  <2>2. UnitsOf(c, n) \subseteq Calls \X Nat
    BY DEF UnitsOf
  <2>3. \A u \in Calls \X Nat : /\ u \in Unsaved(pay)' <=> u \in Unsaved(pay) \/ u \in UnitsOf(c, n)
                              /\ ~(u \in Unsaved(pay) /\ u \in UnitsOf(c, n))
    BY <1>a, <1>b, <2>1 DEF Unsaved
  <2> QED BY <2>2, <2>3 DEF Unsaved
<1>5. StripePaidUnsaved'
  <2> SUFFICES ASSUME NEW p \in Payments, provider[p] = "stripe"
               PROVE  /\ IsFiniteSet(Unsaved(p)')
                      /\ refunds[p] + Cardinality(Unsaved(p)') <= refunded'[p]
    BY DEF StripePaidUnsaved
  <2>0. IsFiniteSet(Unsaved(p)) /\ refunds[p] + Cardinality(Unsaved(p)) <= refunded[p]
    BY DEF StripePaidUnsaved
  <2>1. CASE p = pay
    <3>1. refunded'[p] = refunded[p] + n
      BY <1>a, <1>c, <2>1
    <3>2. /\ IsFiniteSet(Unsaved(p) \cup UnitsOf(c, n))
          /\ Cardinality(Unsaved(p) \cup UnitsOf(c, n)) = Cardinality(Unsaved(p)) + n
      BY <1>a, <1>4, <2>0, <2>1, UnitsJoin
    <3>3. Cardinality(Unsaved(p)) \in Nat /\ refunds[p] \in Nat /\ refunded[p] \in Nat
      BY <1>c, <2>0, FS_CardinalityType
    <3>4. refunds[p] + (Cardinality(Unsaved(p)) + n) <= refunded'[p]
      BY <1>a, <2>0, <3>1, <3>3
    <3> QED BY <1>4, <2>1, <3>2, <3>4
  <2>2. CASE p # pay
    <3>1. refunded'[p] = refunded[p]
      BY <1>c, <2>2
    <3> QED BY <1>3, <2>0, <2>2, <3>1
  <2> QED BY <2>1, <2>2
<1> QED BY <1>1, <1>2, <1>5

(* A refund that is over, with its row or without. *)
LEMMA RefundEndsStep ==
  ASSUME PayInv, RefundInv, NEW c \in Calls, call[c].pc = "answered", Returns(c),
         NEW pay \in Payments, NEW n \in Nat, call[c].payment = pay, call[c].amount = n,
         UNCHANGED <<status, provider, refunded, settled>>,
         \/ refunds' = [refunds EXCEPT ![pay] = @ + n]
         \/ UNCHANGED refunds
  PROVE  RefundInv'
<1> USE DEF PayInv, RefundInv
<1>a. pay \in settled
  BY DEF PaymentTypeOK, RefundsOfSettled
<1>b. call'[c] = Done /\ \A b \in Calls \ {c} : call'[b] = call[b]
  BY DEF PaymentTypeOK, Returns, Done
<1>c. refunds \in [Payments -> Nat] /\ refunded \in [Payments -> Nat]
  BY DEF PaymentTypeOK
<1>1. SettledRows'
  BY DEF SettledRows
<1>2. RefundsOfSettled'
  <2>1. \A b \in Calls : Asked(b, "refund")' \/ call'[b].pc = "answered"
                         => call'[b].payment \in settled
    BY <1>b, NoCallHolds DEF RefundsOfSettled, Asked
  <2>2. \A p \in Payments \ {pay} : refunds'[p] = refunds[p]
    BY <1>c
  <2>3. \A p \in Payments : refunds'[p] > 0 \/ refunded[p] > 0 => p \in settled
    BY <1>a, <2>2 DEF RefundsOfSettled
  <2> QED BY <2>1, <2>3 DEF RefundsOfSettled
<1>3. \A p \in Payments \ {pay} : Unsaved(p)' = Unsaved(p)
  BY <1>b, NoCallHolds DEF Unsaved
<1>4. Unsaved(pay)' = Unsaved(pay) \ UnitsOf(c, n) /\ UnitsOf(c, n) \subseteq Unsaved(pay)
  <2>1. \A u \in Calls \X Nat : u \in UnitsOf(c, n) <=> u[1] = c /\ u[2] \in 1..n
    BY DEF UnitsOf
  <2>2. UnitsOf(c, n) \subseteq Calls \X Nat
    BY DEF UnitsOf
  <2>3. \A u \in Calls \X Nat :
          /\ u \in Unsaved(pay)' <=> u \in Unsaved(pay) /\ u \notin UnitsOf(c, n)
          /\ u \in UnitsOf(c, n) => u \in Unsaved(pay)
    BY <1>a, <1>b, <2>1, NoCallHolds DEF Unsaved
  <2> QED BY <2>2, <2>3 DEF Unsaved
<1>5. StripePaidUnsaved'
  <2> SUFFICES ASSUME NEW p \in Payments, provider[p] = "stripe"
               PROVE  /\ IsFiniteSet(Unsaved(p)')
                      /\ refunds'[p] + Cardinality(Unsaved(p)') <= refunded[p]
    BY DEF StripePaidUnsaved
  <2>0. IsFiniteSet(Unsaved(p)) /\ refunds[p] + Cardinality(Unsaved(p)) <= refunded[p]
    BY DEF StripePaidUnsaved
  <2>1. CASE p = pay
    <3>1. refunds'[p] <= refunds[p] + n /\ refunds'[p] \in Nat
      BY <1>a, <1>c, <2>1
    <3>2. /\ IsFiniteSet(Unsaved(p) \ UnitsOf(c, n))
          /\ Cardinality(Unsaved(p)) = Cardinality(Unsaved(p) \ UnitsOf(c, n)) + n
          /\ Cardinality(Unsaved(p) \ UnitsOf(c, n)) \in Nat
      BY <1>a, <1>4, <2>0, <2>1, UnitsLeave
    <3>3. refunds[p] \in Nat /\ refunded[p] \in Nat
      BY <1>c
    <3>4. refunds'[p] + Cardinality(Unsaved(p) \ UnitsOf(c, n)) <= refunded[p]
      BY <1>a, <2>0, <3>1, <3>2, <3>3
    <3> QED BY <1>4, <2>1, <3>2, <3>4
  <2>2. CASE p # pay
    <3>1. refunds'[p] = refunds[p]
      BY <1>c, <2>2
    <3> QED BY <1>3, <2>0, <2>2, <3>1
  <2> QED BY <2>1, <2>2
<1> QED BY <1>1, <1>2, <1>5

(* A refund that Stripe makes and whose answer is lost. *)
LEMMA RefundLostStep ==
  ASSUME PayInv, RefundInv, NEW c \in Calls, RefundAnswerLost(c)
  PROVE  RefundInv'
<1> USE DEF PayInv, RefundInv
<1>1. PICK pay \in Payments, n \in Nat : call[c].payment = pay /\ call[c].amount = n
  BY DEF PaymentTypeOK
<1>2. /\ call[c].pc = "asked" /\ pay \in settled
      /\ call'[c] = Done /\ \A b \in Calls \ {c} : call'[b] = call[b]
      /\ refunded' = [refunded EXCEPT ![pay] = @ + n]
      /\ UNCHANGED <<status, provider, refunds, settled>>
  BY <1>1 DEF RefundAnswerLost, AskedOf, Asked, Returns, Done, PaymentTypeOK, RefundsOfSettled
<1>3. refunds \in [Payments -> Nat] /\ refunded \in [Payments -> Nat]
  BY DEF PaymentTypeOK
<1>4. \A p \in Payments : /\ refunded'[p] \in Nat /\ refunded[p] <= refunded'[p]
                          /\ p # pay => refunded'[p] = refunded[p]
  BY <1>2, <1>3
<1>5. SettledRows'
  BY <1>2 DEF SettledRows
<1>6. RefundsOfSettled'
  <2>1. \A b \in Calls : Asked(b, "refund")' \/ call'[b].pc = "answered"
                         => call'[b].payment \in settled
    BY <1>2, NoCallHolds DEF RefundsOfSettled, Asked
  <2>2. \A p \in Payments : refunds[p] > 0 \/ refunded'[p] > 0 => p \in settled
    BY <1>2, <1>4 DEF RefundsOfSettled
  <2> QED BY <1>2, <2>1, <2>2 DEF RefundsOfSettled
<1>7. \A p \in Payments : Unsaved(p)' = Unsaved(p)
  BY <1>2, NoCallHolds DEF Unsaved
<1>8. StripePaidUnsaved'
  <2> SUFFICES ASSUME NEW p \in Payments, provider[p] = "stripe"
               PROVE  /\ IsFiniteSet(Unsaved(p)')
                      /\ refunds[p] + Cardinality(Unsaved(p)') <= refunded'[p]
    BY <1>2 DEF StripePaidUnsaved
  <2>1. IsFiniteSet(Unsaved(p)) /\ refunds[p] + Cardinality(Unsaved(p)) <= refunded[p]
    BY DEF StripePaidUnsaved
  <2>2. /\ Cardinality(Unsaved(p)) \in Nat /\ refunds[p] \in Nat /\ refunded[p] \in Nat
        /\ refunded'[p] \in Nat /\ refunded[p] <= refunded'[p]
    BY <1>3, <1>4, <2>1, FS_CardinalityType
  <2>3. refunds[p] + Cardinality(Unsaved(p)) <= refunded'[p]
    BY <2>1, <2>2
  <2> QED BY <1>7, <2>1, <2>3
<1> QED BY <1>5, <1>6, <1>8

LEMMA RefundCallStep ==
  ASSUME PayInv, RefundInv, NEW c \in Calls, CallStep(c)
  PROVE  RefundInv'
<1> USE DEF PayInv, RefundInv
<1>1. PICK pay \in Payments, due \in Nat : call[c].payment = pay /\ call[c].amount = due
  BY DEF PaymentTypeOK
<1>2. ASSUME NEW op \in Operations, NEW p \in Payments, NEW n \in Nat, ReadOrder(c, op, p, n)
      PROVE  RefundInv'
  <2> DEFINE r == [pc |-> "asked", op |-> op, payment |-> p, third |-> third[p], amount |-> n]
  <2>1. r \in PaymentCallRecords
    BY DEF PaymentCallRecords, CallPCs, PaymentTypeOK
  <2>2. /\ r.pc = "asked" /\ r.op = op /\ r.payment = p
        /\ call' = [call EXCEPT ![c] = r] /\ call[c].pc = "idle"
    BY <1>2 DEF ReadOrder
  <2>3. op = "refund" => p \in settled
    BY <1>2 DEF ReadOrder, SettledRows
  <2> HIDE DEF r
  <2> QED BY <1>2, <2>1, <2>2, <2>3, RefundQuietStep DEF ReadOrder
<1>3. ASSUME NEW p \in Payments, QueryPayment(c, p) \/ CancelPayment(c, p)
      PROVE  RefundInv'
  BY <1>2, <1>3 DEF QueryPayment, CancelPayment, Operations
<1>4. ASSUME NEW p \in Payments, NEW n \in RefundAmounts, Refund(c, p, n)
      PROVE  RefundInv'
  <2>1. (IF n = 0 THEN AmountDue[p] ELSE n) \in Nat
    BY PaymentAssumption
  <2> QED BY <1>2, <1>4, <2>1 DEF Refund, Operations
<1>5. ASSUME Asked(c, "query") \/ Asked(c, "cancel") \/ Asked(c, "refund"), Returns(c),
             UNCHANGED <<status, provider, refunds, refunded, settled>>
      PROVE  RefundInv'
  <2>1. call[c].pc # "answered" /\ call' = [call EXCEPT ![c] = Done]
    BY <1>5 DEF Asked, Returns, Done
  <2> QED BY <1>5, <2>1, NoCallHolds, RefundQuietStep
<1>6. ASSUME NEW a, QueryAnswered(c, a)
      PROVE  RefundInv'
  <2>1. ~Identified(c)
    BY <1>6 DEF QueryAnswered, PendingIsUnidentified
  <2>2. status' = status
    BY <1>6, <2>1 DEF QueryAnswered
  <2> QED BY <1>5, <1>6, <2>2 DEF QueryAnswered
<1>7. ASSUME CancelAnswered(c)
      PROVE  RefundInv'
  <2>1. ~Identified(c)
    BY <1>7 DEF CancelAnswered, PendingIsUnidentified
  <2> QED BY <1>5, <1>7, <2>1 DEF CancelAnswered
<1>8. ASSUME RefundRefused(c)
      PROVE  RefundInv'
  BY <1>5, <1>8 DEF RefundRefused
<1>9. ASSUME StripeRefund(c) \/ AlipayRefund(c) \/ WechatRefund(c)
      PROVE  RefundInv'
  BY <1>1, <1>9, RefundAcceptedStep
     DEF StripeRefund, AlipayRefund, WechatRefund, AskedOf, RefundUnsent
<1>20. ASSUME SaveRefund(c) \/ SaveRefundFails(c)
      PROVE  RefundInv'
  BY <1>1, <1>20, RefundEndsStep DEF SaveRefund, SaveRefundFails
<1> QED BY <1>3, <1>4, <1>6, <1>7, <1>8, <1>9, <1>20, RefundLostStep DEF CallStep

LEMMA RefundStep == PayInv /\ RefundInv /\ [PaymentNext]_paymentVars => RefundInv'
<1>1. ASSUME PayInv, RefundInv, UNCHANGED paymentVars
      PROVE  RefundInv'
  BY <1>1, RefundRowStep DEF paymentVars, RefundInv, SettledRows
<1> QED BY <1>1, RefundOpeningStep, RefundNotificationStep, RefundCallStep DEF PaymentNext

(* Whatever order the provider's answers and the insertions take, and with *)
(* insertions lost, money goes back only for a settled payment, and the    *)
(* refunds table never claims more than Stripe has paid back (Refund).     *)
THEOREM RefundsOnlyOfPaid == PaymentSpec => []RefundsAreBacked
<1>1. PayInv /\ RefundInv => RefundsAreBacked
  <2> SUFFICES ASSUME PayInv, RefundInv, NEW p \in Payments
               PROVE  /\ refunds[p] > 0 \/ refunded[p] > 0 => p \in settled
                      /\ provider[p] = "stripe" => refunds[p] <= refunded[p]
    BY DEF RefundsAreBacked
  <2>1. refunds[p] \in Nat /\ refunded[p] \in Nat
    BY DEF PayInv, PaymentTypeOK
  <2>2. ASSUME provider[p] = "stripe"
        PROVE  refunds[p] <= refunded[p]
    <3>1. /\ Cardinality(Unsaved(p)) \in Nat
          /\ refunds[p] + Cardinality(Unsaved(p)) <= refunded[p]
      BY <2>2, FS_CardinalityType DEF RefundInv, StripePaidUnsaved
    <3> QED BY <2>1, <3>1
  <2> QED BY <2>2 DEF RefundInv, RefundsOfSettled
<1>2. PaymentSpec => [](PayInv /\ RefundInv)
  BY PayInvInit, PayInvStep, RefundInit, RefundStep, PTL DEF PaymentSpec
<1> QED BY <1>1, <1>2, PTL
-------------------------------------------------------------------------------
(* The balance in the Python backend.  The row is locked by the chat that  *)
(* has deducted from it and not committed, whose price it can pay until    *)
(* then; what an adjustment has read is within what was given and taken,   *)
(* which only grow.                                                        *)
RowHolder ==
  /\ rowLock \in Chats => /\ step[rowLock] \in {"marking", "committing"}
                          /\ cred >= PriceOf[rowLock]
  /\ \A r \in Chats : step[r] \in {"marking", "committing"} => rowLock = r
ReadsBacked ==
  \A a \in Adjusts : step[a] \in {"marking", "releasing", "committing"}
                     => -taken <= read[a] /\ read[a] <= given
Within == -taken <= cred /\ cred <= given

(* A call is at these steps with a key only.  An answer with a key was     *)
(* stored before it was given, and a call made after that is answered from *)
(* the store.                                                              *)
KeysHeld ==
  \A c \in Billed : step[c] \in {"locking", "expiring", "marking", "releasing", "abandoning"}
                    => KeyOf[c] \in IdemKeys
AnswersStored ==
  \A c \in Billed : step[c] \in {"releasing", "committing", "answered", "replayed"}
                    => KeyOf[c] \in stored \cup {NoKey}
LateReplayed == \A c \in late : step[c] = "replayed"
AppliedAnswered == \A c \in applied : step[c] = "answered"

ChatInv ==
  /\ ChatTypeOK /\ RowHolder /\ ReadsBacked /\ Within
  /\ KeysHeld /\ AnswersStored /\ LateReplayed /\ AppliedAnswered

LEMMA ChatInvInit == ChatInit => ChatInv
<1> SUFFICES ASSUME ChatInit PROVE ChatInv
  OBVIOUS
<1> USE ChatAssumption DEF ChatInit
<1>1. ChatTypeOK
  BY DEF ChatTypeOK, Steps
<1>2. RowHolder
  BY DEF RowHolder, Billed
<1>3. Within
  BY DEF Within
<1>4. ReadsBacked /\ KeysHeld /\ AnswersStored
  BY DEF ReadsBacked, KeysHeld, AnswersStored, Billed
<1>5. LateReplayed /\ AppliedAnswered
  BY DEF LateReplayed, AppliedAnswered
<1> QED BY <1>1, <1>2, <1>3, <1>4, <1>5 DEF ChatInv

(* Prices are integers, and those of chats are positive. *)
LEMMA PriceTypes ==
  /\ \A c \in Billed : PriceOf[c] \in Int /\ KeyOf[c] \in IdemKeys \cup {NoKey}
  /\ \A r \in Chats : r \in Billed /\ r \notin Adjusts /\ PriceOf[r] > 0
  /\ \A a \in Adjusts : a \in Billed /\ a \notin Chats
  /\ Unlocked \notin Chats /\ NoKey \notin IdemKeys
BY ChatAssumption DEF Billed

LEMMA ChatInvStep == ChatInv /\ [ChatNext]_chatVars => ChatInv'
<1> SUFFICES ASSUME ChatInv, [ChatNext]_chatVars PROVE ChatInv'
  OBVIOUS
<1> USE PriceTypes DEF ChatInv, ChatTypeOK, Goes, moneyVars, redisVars
<1>1. ASSUME NEW c \in Billed, CheckIdempotency(c) PROVE ChatInv'
  <2>1. ChatTypeOK'
    BY <1>1 DEF CheckIdempotency, Steps, Ended, KeysHeld
  <2>2. RowHolder'
    BY <1>1 DEF CheckIdempotency, RowHolder, Ended
  <2>3. ReadsBacked'
    BY <1>1 DEF CheckIdempotency, ReadsBacked, RowHolder, Within, Ended
  <2>4. Within'
    BY <1>1 DEF CheckIdempotency, Within, RowHolder, ReadsBacked
  <2>5. KeysHeld'
    BY <1>1 DEF CheckIdempotency, KeysHeld, Ended
  <2>6. AnswersStored'
    BY <1>1 DEF CheckIdempotency, AnswersStored, Ended
  <2>7. LateReplayed'
    BY <1>1 DEF CheckIdempotency, LateReplayed, AnswersStored, Ended
  <2>8. AppliedAnswered'
    BY <1>1 DEF CheckIdempotency, AppliedAnswered, Ended
  <2> QED BY <2>1, <2>2, <2>3, <2>4, <2>5, <2>6, <2>7, <2>8
<1>2. ASSUME NEW c \in Billed, MarkIdempotency(c) PROVE ChatInv'
  <2>1. ChatTypeOK'
    BY <1>2 DEF MarkIdempotency, Steps, Ended, KeysHeld
  <2>2. RowHolder'
    BY <1>2 DEF MarkIdempotency, RowHolder, Ended
  <2>3. ReadsBacked'
    BY <1>2 DEF MarkIdempotency, ReadsBacked, RowHolder, Within, Ended
  <2>4. Within'
    BY <1>2 DEF MarkIdempotency, Within, RowHolder, ReadsBacked
  <2>5. KeysHeld'
    BY <1>2 DEF MarkIdempotency, KeysHeld, Ended
  <2>6. AnswersStored'
    BY <1>2 DEF MarkIdempotency, AnswersStored, Ended
  <2>7. LateReplayed'
    BY <1>2 DEF MarkIdempotency, LateReplayed, AnswersStored, Ended
  <2>8. AppliedAnswered'
    BY <1>2 DEF MarkIdempotency, AppliedAnswered, Ended
  <2> QED BY <2>1, <2>2, <2>3, <2>4, <2>5, <2>6, <2>7, <2>8
<1>3. ASSUME NEW r \in Chats, CheckCred(r) PROVE ChatInv'
  <2>1. ChatTypeOK'
    BY <1>3 DEF CheckCred, Steps, Ended, KeysHeld
  <2>2. RowHolder'
    BY <1>3 DEF CheckCred, RowHolder, Ended
  <2>3. ReadsBacked'
    BY <1>3 DEF CheckCred, ReadsBacked, RowHolder, Within, Ended
  <2>4. Within'
    BY <1>3 DEF CheckCred, Within, RowHolder, ReadsBacked
  <2>5. KeysHeld'
    BY <1>3 DEF CheckCred, KeysHeld, Ended
  <2>6. AnswersStored'
    BY <1>3 DEF CheckCred, AnswersStored, Ended
  <2>7. LateReplayed'
    BY <1>3 DEF CheckCred, LateReplayed, AnswersStored, Ended
  <2>8. AppliedAnswered'
    BY <1>3 DEF CheckCred, AppliedAnswered, Ended
  <2> QED BY <2>1, <2>2, <2>3, <2>4, <2>5, <2>6, <2>7, <2>8
<1>4. ASSUME NEW r \in Chats, Deduct(r) PROVE ChatInv'
  <2>1. ChatTypeOK'
    BY <1>4 DEF Deduct, Steps, Ended, KeysHeld, AfterDeduction
  <2>2. RowHolder'
    BY <1>4 DEF Deduct, RowHolder, Ended, AfterDeduction
  <2>3. ReadsBacked'
    BY <1>4 DEF Deduct, ReadsBacked, RowHolder, Within, Ended, AfterDeduction
  <2>4. Within'
    BY <1>4 DEF Deduct, Within, RowHolder, ReadsBacked, AfterDeduction
  <2>5. KeysHeld'
    BY <1>4 DEF Deduct, KeysHeld, Ended, AfterDeduction
  <2>6. AnswersStored'
    BY <1>4 DEF Deduct, AnswersStored, Ended, AfterDeduction
  <2>7. LateReplayed'
    BY <1>4 DEF Deduct, LateReplayed, AnswersStored, Ended, AfterDeduction
  <2>8. AppliedAnswered'
    BY <1>4 DEF Deduct, AppliedAnswered, Ended, AfterDeduction
  <2> QED BY <2>1, <2>2, <2>3, <2>4, <2>5, <2>6, <2>7, <2>8
<1>5. ASSUME NEW r \in Chats, CommitChat(r) PROVE ChatInv'
  <2>1. ChatTypeOK'
    BY <1>5 DEF CommitChat, Steps, Ended, KeysHeld
  <2>2. RowHolder'
    BY <1>5 DEF CommitChat, RowHolder, Ended
  <2>3. ReadsBacked'
    BY <1>5 DEF CommitChat, ReadsBacked, RowHolder, Within, Ended
  <2>4. Within'
    BY <1>5 DEF CommitChat, Within, RowHolder, ReadsBacked
  <2>5. KeysHeld'
    BY <1>5 DEF CommitChat, KeysHeld, Ended
  <2>6. AnswersStored'
    BY <1>5 DEF CommitChat, AnswersStored, Ended
  <2>7. LateReplayed'
    BY <1>5 DEF CommitChat, LateReplayed, AnswersStored, Ended
  <2>8. AppliedAnswered'
    BY <1>5 DEF CommitChat, AppliedAnswered, Ended
  <2> QED BY <2>1, <2>2, <2>3, <2>4, <2>5, <2>6, <2>7, <2>8
<1>6. ASSUME NEW r \in Chats, ChatFails(r) PROVE ChatInv'
  <2>1. ChatTypeOK'
    BY <1>6 DEF ChatFails, Steps, Ended, KeysHeld
  <2>2. RowHolder'
    BY <1>6 DEF ChatFails, RowHolder, Ended
  <2>3. ReadsBacked'
    BY <1>6 DEF ChatFails, ReadsBacked, RowHolder, Within, Ended
  <2>4. Within'
    BY <1>6 DEF ChatFails, Within, RowHolder, ReadsBacked
  <2>5. KeysHeld'
    BY <1>6 DEF ChatFails, KeysHeld, Ended
  <2>6. AnswersStored'
    BY <1>6 DEF ChatFails, AnswersStored, Ended
  <2>7. LateReplayed'
    BY <1>6 DEF ChatFails, LateReplayed, AnswersStored, Ended
  <2>8. AppliedAnswered'
    BY <1>6 DEF ChatFails, AppliedAnswered, Ended
  <2> QED BY <2>1, <2>2, <2>3, <2>4, <2>5, <2>6, <2>7, <2>8
<1>7. ASSUME NEW a \in Adjusts, AcquireLock(a) PROVE ChatInv'
  <2>1. ChatTypeOK'
    BY <1>7 DEF AcquireLock, Steps, Ended, KeysHeld
  <2>2. RowHolder'
    BY <1>7 DEF AcquireLock, RowHolder, Ended
  <2>3. ReadsBacked'
    BY <1>7 DEF AcquireLock, ReadsBacked, RowHolder, Within, Ended
  <2>4. Within'
    BY <1>7 DEF AcquireLock, Within, RowHolder, ReadsBacked
  <2>5. KeysHeld'
    BY <1>7 DEF AcquireLock, KeysHeld, Ended
  <2>6. AnswersStored'
    BY <1>7 DEF AcquireLock, AnswersStored, Ended
  <2>7. LateReplayed'
    BY <1>7 DEF AcquireLock, LateReplayed, AnswersStored, Ended
  <2>8. AppliedAnswered'
    BY <1>7 DEF AcquireLock, AppliedAnswered, Ended
  <2> QED BY <2>1, <2>2, <2>3, <2>4, <2>5, <2>6, <2>7, <2>8
<1>8. ASSUME NEW a \in Adjusts, SetLockTTL(a) PROVE ChatInv'
  <2>1. ChatTypeOK'
    BY <1>8 DEF SetLockTTL, Steps, Ended, KeysHeld
  <2>2. RowHolder'
    BY <1>8 DEF SetLockTTL, RowHolder, Ended
  <2>3. ReadsBacked'
    BY <1>8 DEF SetLockTTL, ReadsBacked, RowHolder, Within, Ended
  <2>4. Within'
    BY <1>8 DEF SetLockTTL, Within, RowHolder, ReadsBacked
  <2>5. KeysHeld'
    BY <1>8 DEF SetLockTTL, KeysHeld, Ended
  <2>6. AnswersStored'
    BY <1>8 DEF SetLockTTL, AnswersStored, Ended
  <2>7. LateReplayed'
    BY <1>8 DEF SetLockTTL, LateReplayed, AnswersStored, Ended
  <2>8. AppliedAnswered'
    BY <1>8 DEF SetLockTTL, AppliedAnswered, Ended
  <2> QED BY <2>1, <2>2, <2>3, <2>4, <2>5, <2>6, <2>7, <2>8
<1>9. ASSUME NEW a \in Adjusts, ReadCred(a) PROVE ChatInv'
  <2>1. ChatTypeOK'
    BY <1>9 DEF ReadCred, Steps, Ended, KeysHeld
  <2>2. RowHolder'
    BY <1>9 DEF ReadCred, RowHolder, Ended
  <2>3. ReadsBacked'
    BY <1>9 DEF ReadCred, ReadsBacked, RowHolder, Within, Ended
  <2>4. Within'
    BY <1>9 DEF ReadCred, Within, RowHolder, ReadsBacked
  <2>5. KeysHeld'
    BY <1>9 DEF ReadCred, KeysHeld, Ended
  <2>6. AnswersStored'
    BY <1>9 DEF ReadCred, AnswersStored, Ended
  <2>7. LateReplayed'
    BY <1>9 DEF ReadCred, LateReplayed, AnswersStored, Ended
  <2>8. AppliedAnswered'
    BY <1>9 DEF ReadCred, AppliedAnswered, Ended
  <2> QED BY <2>1, <2>2, <2>3, <2>4, <2>5, <2>6, <2>7, <2>8
<1>10. ASSUME NEW a \in Adjusts, ReleaseLock(a) PROVE ChatInv'
  <2>1. ChatTypeOK'
    BY <1>10 DEF ReleaseLock, Steps, Ended, KeysHeld
  <2>2. RowHolder'
    BY <1>10 DEF ReleaseLock, RowHolder, Ended
  <2>3. ReadsBacked'
    BY <1>10 DEF ReleaseLock, ReadsBacked, RowHolder, Within, Ended
  <2>4. Within'
    BY <1>10 DEF ReleaseLock, Within, RowHolder, ReadsBacked
  <2>5. KeysHeld'
    BY <1>10 DEF ReleaseLock, KeysHeld, Ended
  <2>6. AnswersStored'
    BY <1>10 DEF ReleaseLock, AnswersStored, Ended
  <2>7. LateReplayed'
    BY <1>10 DEF ReleaseLock, LateReplayed, AnswersStored, Ended
  <2>8. AppliedAnswered'
    BY <1>10 DEF ReleaseLock, AppliedAnswered, Ended
  <2> QED BY <2>1, <2>2, <2>3, <2>4, <2>5, <2>6, <2>7, <2>8
<1>11. ASSUME NEW a \in Adjusts, CommitAdjust(a) PROVE ChatInv'
  <2>1. ChatTypeOK'
    BY <1>11 DEF CommitAdjust, Steps, Ended, KeysHeld
  <2>2. RowHolder'
    BY <1>11 DEF CommitAdjust, RowHolder, Ended
  <2>3. ReadsBacked'
    BY <1>11 DEF CommitAdjust, ReadsBacked, RowHolder, Within, Ended
  <2>4. Within'
    BY <1>11 DEF CommitAdjust, Within, RowHolder, ReadsBacked
  <2>5. KeysHeld'
    BY <1>11 DEF CommitAdjust, KeysHeld, Ended
  <2>6. AnswersStored'
    BY <1>11 DEF CommitAdjust, AnswersStored, Ended
  <2>7. LateReplayed'
    BY <1>11 DEF CommitAdjust, LateReplayed, AnswersStored, Ended
  <2>8. AppliedAnswered'
    BY <1>11 DEF CommitAdjust, AppliedAnswered, Ended
  <2> QED BY <2>1, <2>2, <2>3, <2>4, <2>5, <2>6, <2>7, <2>8
<1>12. ASSUME NEW a \in Adjusts, AdjustRaises(a) PROVE ChatInv'
  <2>1. ChatTypeOK'
    BY <1>12 DEF AdjustRaises, Steps, Ended, KeysHeld
  <2>2. RowHolder'
    BY <1>12 DEF AdjustRaises, RowHolder, Ended
  <2>3. ReadsBacked'
    BY <1>12 DEF AdjustRaises, ReadsBacked, RowHolder, Within, Ended
  <2>4. Within'
    BY <1>12 DEF AdjustRaises, Within, RowHolder, ReadsBacked
  <2>5. KeysHeld'
    BY <1>12 DEF AdjustRaises, KeysHeld, Ended
  <2>6. AnswersStored'
    BY <1>12 DEF AdjustRaises, AnswersStored, Ended
  <2>7. LateReplayed'
    BY <1>12 DEF AdjustRaises, LateReplayed, AnswersStored, Ended
  <2>8. AppliedAnswered'
    BY <1>12 DEF AdjustRaises, AppliedAnswered, Ended
  <2> QED BY <2>1, <2>2, <2>3, <2>4, <2>5, <2>6, <2>7, <2>8
<1>13. ASSUME NEW a \in Adjusts, AdjustDies(a) PROVE ChatInv'
  <2>1. ChatTypeOK'
    BY <1>13 DEF AdjustDies, Steps, Ended, KeysHeld
  <2>2. RowHolder'
    BY <1>13 DEF AdjustDies, RowHolder, Ended
  <2>3. ReadsBacked'
    BY <1>13 DEF AdjustDies, ReadsBacked, RowHolder, Within, Ended
  <2>4. Within'
    BY <1>13 DEF AdjustDies, Within, RowHolder, ReadsBacked
  <2>5. KeysHeld'
    BY <1>13 DEF AdjustDies, KeysHeld, Ended
  <2>6. AnswersStored'
    BY <1>13 DEF AdjustDies, AnswersStored, Ended
  <2>7. LateReplayed'
    BY <1>13 DEF AdjustDies, LateReplayed, AnswersStored, Ended
  <2>8. AppliedAnswered'
    BY <1>13 DEF AdjustDies, AppliedAnswered, Ended
  <2> QED BY <2>1, <2>2, <2>3, <2>4, <2>5, <2>6, <2>7, <2>8
<1>14. ASSUME NEW k \in IdemKeys, LockExpires(k) PROVE ChatInv'
  <2>1. ChatTypeOK'
    BY <1>14 DEF LockExpires, Steps, Ended, KeysHeld
  <2>2. RowHolder'
    BY <1>14 DEF LockExpires, RowHolder, Ended
  <2>3. ReadsBacked'
    BY <1>14 DEF LockExpires, ReadsBacked, RowHolder, Within, Ended
  <2>4. Within'
    BY <1>14 DEF LockExpires, Within, RowHolder, ReadsBacked
  <2>5. KeysHeld'
    BY <1>14 DEF LockExpires, KeysHeld, Ended
  <2>6. AnswersStored'
    BY <1>14 DEF LockExpires, AnswersStored, Ended
  <2>7. LateReplayed'
    BY <1>14 DEF LockExpires, LateReplayed, AnswersStored, Ended
  <2>8. AppliedAnswered'
    BY <1>14 DEF LockExpires, AppliedAnswered, Ended
  <2> QED BY <2>1, <2>2, <2>3, <2>4, <2>5, <2>6, <2>7, <2>8
<1>15. CASE UNCHANGED chatVars
  BY <1>15 DEF chatVars, RowHolder, ReadsBacked, Within, KeysHeld, AnswersStored, LateReplayed,
             AppliedAnswered
<1> QED BY <1>1, <1>2, <1>3, <1>4, <1>5, <1>6, <1>7, <1>8, <1>9, <1>10, <1>11, <1>12, <1>13,
           <1>14, <1>15
        DEF ChatNext, Complete, AdjustBalance

LEMMA SpecChatInv == ChatSpec => []ChatInv
BY ChatInvInit, ChatInvStep, PTL DEF ChatSpec

(* Every variable keeps its type; the row is only ever locked by a chat.   *)
THEOREM ChatTypeCorrect == ChatSpec => []ChatTypeOK
<1>1. ChatInv => ChatTypeOK
  BY DEF ChatInv
<1> QED BY <1>1, SpecChatInv, PTL

(* Adjustments that write what they computed from an old balance, between  *)
(* chats that deduct, never bring the balance above what was given nor     *)
(* below what was taken (adjust_balance, BalanceRepository.deduct).        *)
THEOREM ChatCredBacked == ChatSpec => []CredBacked
<1>1. ChatInv => CredBacked
  BY DEF ChatInv, ChatTypeOK, Within, CredBacked
<1> QED BY <1>1, SpecChatInv, PTL

(* A client that has its answer and calls again with the same key is never *)
(* charged for the second call, for any number of keys and calls.          *)
THEOREM ChatRetryIsFree == ChatSpec => []RetryIsFree
<1>1. ChatInv => RetryIsFree
  BY DEF ChatInv, LateReplayed, AppliedAnswered, RetryIsFree
<1> QED BY <1>1, SpecChatInv, PTL
-------------------------------------------------------------------------------
LEMMA LimiterTypeStep == LimiterTypeOK /\ [LimiterNext]_limiterVars => LimiterTypeOK'
<1> SUFFICES ASSUME LimiterTypeOK, [LimiterNext]_limiterVars PROVE LimiterTypeOK'
  OBVIOUS
<1> USE LimiterAssumption DEF LimiterTypeOK, Verdicts
<1>1. ASSUME NEW q \in Arrivals, Limit(q) PROVE LimiterTypeOK'
  <2>1. zset' \subseteq [request : Arrivals, at : 0..LastSecond]
    BY <1>1 DEF Limit, InWindow
  <2>2. verdict' \in [Arrivals -> Verdicts] /\ decided' \in [Arrivals -> 0..LastSecond]
    BY <1>1 DEF Limit
  <2> QED BY <1>1, <2>1, <2>2 DEF Limit
<1>2. ASSUME NEW q \in Arrivals, LimitFails(q) PROVE LimiterTypeOK'
  BY <1>2 DEF LimitFails
<1>3. CASE KeyExpires \/ SecondPasses
  BY <1>3 DEF KeyExpires, SecondPasses
<1>4. CASE UNCHANGED limiterVars
  BY <1>4 DEF limiterVars
<1> QED BY <1>1, <1>2, <1>3, <1>4 DEF LimiterNext

LEMMA LimiterTypeCorrect == LimiterSpec => []LimiterTypeOK
<1>1. LimiterInit => LimiterTypeOK
  BY LimiterAssumption DEF LimiterInit, LimiterTypeOK, Verdicts
<1> QED BY <1>1, LimiterTypeStep, PTL DEF LimiterSpec
-------------------------------------------------------------------------------
(* A behaviour of the parts side by side is a behaviour of each: what is   *)
(* proved of a part holds where TLC checks it.                             *)
THEOREM AccountPartsImplementEach == Spec => PaymentSpec /\ KeySpec /\ LimiterSpec /\ ChatSpec
<1>1. Init => PaymentInit /\ KeyInit /\ LimiterInit /\ ChatInit
  BY DEF Init
<1>2. [Next]_vars => [PaymentNext]_paymentVars
  BY DEF Next, Runs, vars
<1>3. [Next]_vars => [KeyNext]_keyVars
  BY DEF Next, Runs, vars, keyVars
<1>4. [Next]_vars => [LimiterNext]_limiterVars
  BY DEF Next, Runs, vars
<1>5. [Next]_vars => [ChatNext]_chatVars
  BY DEF Next, Runs, vars
<1> QED BY <1>1, <1>2, <1>3, <1>4, <1>5, PTL DEF Spec, PaymentSpec, KeySpec, LimiterSpec, ChatSpec

(* Every variable of the four parts keeps its type. *)
THEOREM AccountTypeCorrect == Spec => []AccountTypeOK
<1>1. PaymentTypeOK /\ KeyTypeOK /\ LimiterTypeOK /\ ChatTypeOK => AccountTypeOK
  BY DEF AccountTypeOK
<1> QED BY <1>1, AccountPartsImplementEach, PaymentTypeCorrect, KeyTypeCorrect,
           LimiterTypeCorrect, ChatTypeCorrect, PTL
===============================================================================
