------------------------------- MODULE Affiliate -------------------------------
(***************************************************************************)
(* Invitations and rebates (affiliate_service.go): a user hands out an     *)
(* invite code, earns rebates when an invited user registers or recharges, *)
(* and moves earnings into the balance.                                    *)
(*                                                                         *)
(* Everything but the transfer is a sequence of statements of their own,   *)
(* each of which may fail or be the last one that runs.                    *)
(***************************************************************************)
EXTENDS UserRow, FiniteSets

CONSTANTS
  InviteCodes,     \* the random codes
  NoCode,          \* users.invite_code of a user without one
  NoUser,
  CodeRequests,    \* calls of GenerateInviteCode
  Invitations,     \* calls of ProcessInvite for a new user
  Recharges,       \* calls of CalculateRechargeRebate
  Transfers,       \* calls of TransferRebateToBalance
  Caller,          \* the user a call is made for
  RegisterReward,  \* cfg.Affiliate.RegisterReward
  Rebate,          \* a recharge's amount times cfg.Affiliate.RechargeRate
  Amount,          \* the amount of a transfer
  MinWithdrawal    \* cfg.Affiliate.MinWithdrawal

Calls == CodeRequests \cup Invitations \cup Recharges \cup Transfers

ASSUME AffiliateAssumption ==
  /\ NoCode \notin InviteCodes
  /\ NoUser \notin Users
  /\ Caller \in [Calls -> Users]
  /\ RegisterReward \in Nat
  /\ Rebate \in [Recharges -> Nat]
  /\ Amount \in [Transfers -> Int]
  /\ MinWithdrawal \in Nat

VARIABLES
  inviteCode,   \* users.invite_code
  invitedBy,    \* users.invited_by
  inviteCount,  \* users.invite_count
  affBalance,   \* users.affiliate_balance
  earnings,     \* users.total_affiliate_earnings
  recorded,     \* the sum of a user's rebate records
  withdrawn,    \* the sum of a user's withdrawal records
  affiliatePc,  \* where a call is
  payee         \* the user a call is about to pay, the inviter

moneyVars     == <<affBalance, earnings, recorded, withdrawn>>
linkVars      == <<inviteCode, invitedBy, inviteCount>>
affiliateVars == <<moneyVars, linkVars, affiliatePc, payee>>

AffiliatePCs == {"idle", "coding", "linking", "counting", "recording", "crediting",
        "transferring", "done"}
-------------------------------------------------------------------------------
(* A definition named after a mistake is a mutant that PROJECT.json lists. *)
AffiliateInit ==
  /\ inviteCode = [u \in Users |-> NoCode]
  /\ invitedBy = [u \in Users |-> NoUser]
  /\ inviteCount = [u \in Users |-> 0]
  /\ affBalance = [u \in Users |-> 0]
  /\ earnings = [u \in Users |-> 0]
  /\ recorded = [u \in Users |-> 0]
  /\ withdrawn = [u \in Users |-> 0]
  /\ affiliatePc = [x \in Calls |-> "idle"]
  /\ payee = [x \in Calls |-> NoUser]

Goto(x, label) == affiliatePc' = [affiliatePc EXCEPT ![x] = label]

(* A statement fails, or the process stops: the call is over where it was. *)
Fail(x) ==
  /\ affiliatePc[x] \notin {"idle", "done"}
  /\ Goto(x, "done")
  /\ UNCHANGED <<rowVars, moneyVars, linkVars, payee>>

(* GenerateInviteCode: the code the user has, or else a new one; the two   *)
(* statements are not in a transaction.                                    *)
LookupCode(g) ==
  /\ affiliatePc[g] = "idle"
  /\ Goto(g, IF inviteCode[Caller[g]] = NoCode THEN "coding" ELSE "done")
  /\ UNCHANGED <<rowVars, moneyVars, linkVars, payee>>

(* The random code is new; the unique index refuses it otherwise. *)
SaveCode(g) ==
  /\ affiliatePc[g] = "coding"
  /\ \E c \in InviteCodes :
       /\ \A u \in Users : inviteCode[u] # c
       /\ inviteCode' = [inviteCode EXCEPT ![Caller[g]] = c]
  /\ Goto(g, "done")
  /\ UNCHANGED <<rowVars, moneyVars, invitedBy, inviteCount, payee>>

(* ProcessInvite: the owner of the code, unless there is none or it is the *)
(* new user itself.                                                        *)
FindInviter(i) ==
  /\ affiliatePc[i] = "idle"
  /\ \E c \in InviteCodes :
       LET owners == {u \in Users : inviteCode[u] = c} \ {Caller[i]} IN
       IF owners = {} THEN Goto(i, "done") /\ UNCHANGED payee
       ELSE Goto(i, "linking") /\ payee' = [payee EXCEPT ![i] = CHOOSE u \in owners : TRUE]
  /\ UNCHANGED <<rowVars, moneyVars, linkVars>>

LinkInvitee(i) ==
  /\ affiliatePc[i] = "linking"
  /\ invitedBy' = [invitedBy EXCEPT ![Caller[i]] = payee[i]]
  /\ Goto(i, "counting")
  /\ UNCHANGED <<rowVars, moneyVars, inviteCode, inviteCount, payee>>

(* A failure to count is logged, and the reward is recorded all the same. *)
CountInvite(i) ==
  /\ affiliatePc[i] = "counting"
  /\ \/ inviteCount' = [inviteCount EXCEPT ![payee[i]] = @ + 1]
     \/ UNCHANGED inviteCount
  /\ Goto(i, IF RegisterReward > 0 THEN "recording" ELSE "done")
  /\ UNCHANGED <<rowVars, moneyVars, inviteCode, invitedBy, payee>>

(* CalculateRechargeRebate: nothing without an inviter. *)
FindRebate(p) ==
  /\ affiliatePc[p] = "idle"
  /\ payee' = [payee EXCEPT ![p] = invitedBy[Caller[p]]]
  /\ Goto(p, IF invitedBy[Caller[p]] = NoUser THEN "done" ELSE "recording")
  /\ UNCHANGED <<rowVars, moneyVars, linkVars>>

(* RecordRebate: the record first, then the two columns by one UPDATE. *)
RebateOf(x) == IF x \in Recharges THEN Rebate[x] ELSE RegisterReward

CreateRebateRecordLater(x) ==
  /\ affiliatePc[x] = "recording"
  /\ Goto(x, "crediting")
  /\ UNCHANGED <<rowVars, moneyVars, linkVars, payee>>

CreateRebateRecord(x) ==
  /\ affiliatePc[x] = "recording"
  /\ recorded' = [recorded EXCEPT ![payee[x]] = @ + RebateOf(x)]
  /\ Goto(x, "crediting")
  /\ UNCHANGED <<rowVars, affBalance, earnings, withdrawn, linkVars, payee>>

CreditRebateUntyped(x) ==
  /\ affiliatePc[x] = "crediting"
  /\ affBalance' = [affBalance EXCEPT ![payee[x]] = @ + RebateOf(x)]
  /\ earnings' = [earnings EXCEPT ![payee[x]] = @ + RebateOf(x)]
  /\ Goto(x, "credited")
  /\ UNCHANGED <<rowVars, recorded, withdrawn, linkVars, payee>>

CreditRebate(x) ==
  /\ affiliatePc[x] = "crediting"
  /\ affBalance' = [affBalance EXCEPT ![payee[x]] = @ + RebateOf(x)]
  /\ earnings' = [earnings EXCEPT ![payee[x]] = @ + RebateOf(x)]
  /\ Goto(x, "done")
  /\ UNCHANGED <<rowVars, recorded, withdrawn, linkVars, payee>>

(* TransferRebateToBalance: the checks, before the transaction begins. *)
CheckTransfer(w) ==
  /\ affiliatePc[w] = "idle"
  /\ Goto(w, IF /\ Amount[w] > 0
                /\ Amount[w] >= MinWithdrawal
                /\ affBalance[Caller[w]] >= Amount[w]
             THEN "transferring" ELSE "done")
  /\ UNCHANGED <<rowVars, moneyVars, linkVars, payee>>

(* The transaction: both balances and the record, or none of them. *)
CommitTransferUntransacted(w) ==
  LET u == Caller[w] IN
  /\ affiliatePc[w] = "transferring"
  /\ affBalance' = [affBalance EXCEPT ![u] = @ - Amount[w]]
  /\ withdrawn' = [withdrawn EXCEPT ![u] = @ + Amount[w]]
  /\ AddBalance(u, Amount[w]) \/ UNCHANGED <<balance, granted, spent>>
  /\ Goto(w, "done")
  /\ UNCHANGED <<freshCache, earnings, recorded, linkVars, payee>>

CommitTransfer(w) ==
  LET u == Caller[w] IN
  /\ affiliatePc[w] = "transferring"
  /\ affBalance' = [affBalance EXCEPT ![u] = @ - Amount[w]]
  /\ AddBalance(u, Amount[w])
  /\ withdrawn' = [withdrawn EXCEPT ![u] = @ + Amount[w]]
  /\ Goto(w, "done")
  /\ UNCHANGED <<freshCache, earnings, recorded, linkVars, payee>>

AffiliateNext ==
  \/ \E x \in Calls : Fail(x)
  \/ \E g \in CodeRequests : LookupCode(g) \/ SaveCode(g)
  \/ \E i \in Invitations : FindInviter(i) \/ LinkInvitee(i) \/ CountInvite(i)
  \/ \E p \in Recharges : FindRebate(p)
  \/ \E x \in Invitations \cup Recharges : CreateRebateRecord(x) \/ CreditRebate(x)
  \/ \E w \in Transfers : CheckTransfer(w) \/ CommitTransfer(w)
-------------------------------------------------------------------------------
AffiliateTypeOK ==
  /\ inviteCode \in [Users -> InviteCodes \cup {NoCode}]
  /\ invitedBy \in [Users -> Users \cup {NoUser}]
  /\ inviteCount \in [Users -> Nat]
  /\ affBalance \in [Users -> Int]
  /\ earnings \in [Users -> Nat]
  /\ recorded \in [Users -> Nat]
  /\ withdrawn \in [Users -> Nat]
  /\ affiliatePc \in [Calls -> AffiliatePCs]
  /\ payee \in [Calls -> Users \cup {NoUser}]

(* Whatever fails between the statements, no rebate is lost between the    *)
(* columns: what was earned is still there or was withdrawn, with a        *)
(* record; and nothing is earned without its rebate record.                *)
EarningsAccountedFor ==
  \A u \in Users : /\ affBalance[u] = earnings[u] - withdrawn[u]
                   /\ earnings[u] <= recorded[u]
===============================================================================
