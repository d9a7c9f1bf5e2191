------------------------------ MODULE RedeemCode ------------------------------
(***************************************************************************)
(* Prepaid codes (redeem_code_service.go): an administrator generates a    *)
(* batch and may disable a code, a user redeems one into the balance.      *)
(*                                                                         *)
(* RedeemCode validates the code outside the transaction that uses it, and *)
(* every status is written by id alone, whatever the row holds by then.    *)
(***************************************************************************)
EXTENDS UserRow, FiniteSets

CONSTANTS
  Codes,
  Value,       \* the amount of a code
  Expiring,    \* the codes that have an expiry date
  Redemptions, \* calls of RedeemCode
  Redeemer,    \* the user of a call
  CodeOf,      \* the code a call names
  Disablings,  \* calls of DisableCode
  DisabledCode \* the code such a call names

ASSUME RedeemAssumption ==
  /\ Value \in [Codes -> Nat \ {0}]
  /\ Expiring \subseteq Codes
  /\ Redeemer \in [Redemptions -> Users]
  /\ CodeOf \in [Redemptions -> Codes]
  /\ DisabledCode \in [Disablings -> Codes]

VARIABLES
  code,      \* redeem_codes.status, or "absent" before the batch exists
  past,      \* the codes whose expiry date has passed
  redeem,    \* where a redemption is
  disable,   \* where a disabling is
  credits    \* history: how often a code was paid out

codeVars == <<code, past, redeem, disable, credits>>

CodeStatuses == {"absent", "unused", "used", "expired", "disabled"}
RedeemPCs    == {"idle", "overdue", "validated", "refused", "done"}
DisablePCs   == {"idle", "checked", "refused", "done"}
-------------------------------------------------------------------------------
(* A definition named after a mistake is a mutant that PROJECT.json lists. *)
CodesInit ==
  /\ code = [c \in Codes |-> "absent"]
  /\ past = {}
  /\ redeem = [k \in Redemptions |-> "idle"]
  /\ disable = [d \in Disablings |-> "idle"]
  /\ credits = [c \in Codes |-> 0]

(* GenerateCodes inserts the batch in one transaction. *)
GenerateCodes ==
  /\ \A c \in Codes : code[c] = "absent"
  /\ code' = [c \in Codes |-> "unused"]
  /\ UNCHANGED <<rowVars, past, redeem, disable, credits>>

ExpiryPassesUndated(c) ==
  /\ c \notin past
  /\ past' = past \cup {c}
  /\ UNCHANGED <<rowVars, code, redeem, disable, credits>>

ExpiryPasses(c) ==
  /\ c \in Expiring \ past
  /\ past' = past \cup {c}
  /\ UNCHANGED <<rowVars, code, redeem, disable, credits>>

ValidateCodeByDate(k) ==
  /\ redeem[k] = "idle"
  /\ redeem' = [redeem EXCEPT ![k] = IF CodeOf[k] \in past THEN "overdue" ELSE "validated"]
  /\ UNCHANGED <<rowVars, code, past, disable, credits>>

(* ValidateCode, the SELECT and what it leads to.  A code that is unused   *)
(* but past its date is on its way to be marked as expired.                *)
ValidateCode(k) ==
  LET c == CodeOf[k] IN
  /\ redeem[k] = "idle"
  /\ redeem' = [redeem EXCEPT ![k] =
       CASE code[c] # "unused" -> "refused"
         [] c \in past         -> "overdue"
         [] OTHER              -> "validated"]
  /\ UNCHANGED <<rowVars, code, past, disable, credits>>

(* ValidateCode's own update of an overdue code; its error is ignored. *)
MarkExpired(k) ==
  /\ redeem[k] = "overdue"
  /\ code' = [code EXCEPT ![CodeOf[k]] = "expired"]
  /\ redeem' = [redeem EXCEPT ![k] = "refused"]
  /\ UNCHANGED <<rowVars, past, disable, credits>>

(* The transaction of RedeemCode: the code becomes used, the balance gains *)
(* its value, and both are committed or neither is.  The cached balance    *)
(* CheckBalance reads is under another key than the one deleted here.      *)
RedeemCommit(k) ==
  LET c == CodeOf[k] IN
  /\ redeem[k] = "validated"
  /\ \/ /\ code' = [code EXCEPT ![c] = "used"]
        /\ AddBalance(Redeemer[k], Value[c])
        /\ credits' = [credits EXCEPT ![c] = @ + 1]
        /\ redeem' = [redeem EXCEPT ![k] = "done"]
     \/ /\ redeem' = [redeem EXCEPT ![k] = "refused"]
        /\ UNCHANGED <<balance, granted, spent, code, credits>>
  /\ UNCHANGED <<freshCache, past, disable>>

(* DisableCode: a SELECT and a check, then the UPDATE. *)
DisableCheck(d) ==
  /\ disable[d] = "idle"
  /\ code[DisabledCode[d]] # "absent"
  /\ disable' = [disable EXCEPT ![d] =
       IF code[DisabledCode[d]] = "unused" THEN "checked" ELSE "refused"]
  /\ UNCHANGED <<rowVars, code, past, redeem, credits>>

DisableUpdate(d) ==
  /\ disable[d] = "checked"
  /\ code' = [code EXCEPT ![DisabledCode[d]] = "disabled"]
  /\ disable' = [disable EXCEPT ![d] = "done"]
  /\ UNCHANGED <<rowVars, past, redeem, credits>>

Redeem(k) == ValidateCode(k) \/ MarkExpired(k) \/ RedeemCommit(k)
CodesNext ==
  \/ GenerateCodes
  \/ \E c \in Codes : ExpiryPasses(c)
  \/ \E k \in Redemptions : Redeem(k)
  \/ \E d \in Disablings : DisableCheck(d) \/ DisableUpdate(d)
-------------------------------------------------------------------------------
CodesTypeOK ==
  /\ code \in [Codes -> CodeStatuses]
  /\ past \subseteq Expiring
  /\ redeem \in [Redemptions -> RedeemPCs]
  /\ disable \in [Disablings -> DisablePCs]
  /\ credits \in [Codes -> Nat]

(* A redemption that begins when its code was used, disabled, expired or   *)
(* past its date is refused, whatever the calls still under way (another   *)
(* redemption, a disabling, a marking) write into the row by id: only      *)
(* calls that overlap the first use of a code can be paid as well.         *)
Over(c) == code[c] \in {"used", "disabled", "expired"} \/ c \in past
LateCallsRefused ==
  \A k \in Redemptions :
    [](redeem[k] = "idle" /\ Over(CodeOf[k]) => [](redeem[k] # "done"))

(* A code pays out at most once. *)
PaidOnce == \A c \in Codes : credits[c] <= 1
===============================================================================
