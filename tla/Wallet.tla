-------------------------------- MODULE Wallet --------------------------------
(***************************************************************************)
(* The services that write users.balance on one table: Billing (with the   *)
(* administrator's adjustments), RedeemCode and Affiliate.  A step of the  *)
(* program is a step of one of them, and leaves the others' state as it    *)
(* was; the row is what they share.                                        *)
(***************************************************************************)
EXTENDS Billing, RedeemCode, Affiliate, Functions

vars == <<rowVars, billingVars, codeVars, affiliateVars>>

Init == RowInit /\ BillingInit /\ CodesInit /\ AffiliateInit

Next ==
  \/ BillingNext /\ UNCHANGED <<codeVars, affiliateVars>>
  \/ CodesNext /\ UNCHANGED <<billingVars, affiliateVars>>
  \/ AffiliateNext /\ UNCHANGED <<billingVars, codeVars>>

Spec == Init /\ [][Next]_vars
-------------------------------------------------------------------------------
TypeOK == RowTypeOK /\ BillingTypeOK /\ CodesTypeOK /\ AffiliateTypeOK

(* What UpdateBalance took from a user by negative amounts. *)
Debit             == [t \in TopUps |-> -AmountOf[t]]
DebitsFor(u)      == {t \in toppedUp : UserOf[t] = u /\ AmountOf[t] < 0}
UncheckedDebit(u) == SumFunctionOnSet(Debit, DebitsFor(u))

(* However charges, adjustments and credits interleave, a balance is below *)
(* zero by no more than what UpdateBalance took, the one debit that is     *)
(* made without a check: a check against a balance that is out of date by  *)
(* the time it is replaced still holds of what replaces it.                *)
NeverOverdrawn == \A u \in Users : balance[u] >= -UncheckedDebit(u)

(* CheckBalance never serves more than was credited, nor less than such a  *)
(* balance, although what it serves may be minutes old and stored after a  *)
(* deletion.                                                               *)
CachedBalanceBacked ==
  \A u \in Users :
    freshCache[u] # NotCached => freshCache[u] \in -UncheckedDebit(u) .. granted[u]

(* Every service commits its own record and the credit together: what a    *)
(* user was credited is the sum of what the codes, the withdrawals, the    *)
(* top-ups and the adjustments say they paid.                              *)
CodeValue      == [k \in Redemptions |-> Value[CodeOf[k]]]
RedeemedBy(u)  == {k \in Redemptions : Redeemer[k] = u /\ redeem[k] = "done"}
ToppedUpFor(u) == {t \in toppedUp : UserOf[t] = u /\ AmountOf[t] > 0}
RaisesOf(u)    == {a \in Adjustments : /\ UserOf[a] = u /\ AmountOf[a] > 0
                                       /\ adjust[a] = "committed"}
CreditsAreSourced ==
  \A u \in Users :
    granted[u] = InitialBalance[u] + withdrawn[u]
                 + SumFunctionOnSet(CodeValue, RedeemedBy(u))
                 + SumFunctionOnSet(AmountOf, ToppedUpFor(u))
                 + SumFunctionOnSet(AmountOf, RaisesOf(u))
===============================================================================
