-------------------------------- MODULE UserRow --------------------------------
(***************************************************************************)
(* The columns of the users table that hold money, and who may write them. *)
(*                                                                         *)
(* PostgreSQL runs at its default isolation, read committed: a transaction *)
(* reads what is committed when it reads, an UPDATE locks the row until    *)
(* the commit and nobody sees it before.  An UPDATE and the COMMIT that    *)
(* follows it are therefore one step, the SELECT before it another one.    *)
(* "balance = balance + n" (AddBalance) is computed by the UPDATE itself;  *)
(* "balance = n" (SetBalance) stores what the program computed from an     *)
(* earlier SELECT.                                                         *)
(***************************************************************************)
EXTENDS Integers

CONSTANTS
  Users,
  InitialBalance,  \* what a user starts with
  NotCached        \* a key that Redis does not hold

ASSUME UserRowAssumption ==
  /\ InitialBalance \in [Users -> Nat]
  /\ NotCached \notin Int

VARIABLES
  balance,    \* users.balance
  granted,    \* history: the initial balance and every committed credit
  spent,      \* history: every committed debit
  freshCache  \* maas:balance:<id> in Redis, written by CheckBalance

rowVars == <<balance, granted, spent, freshCache>>

RowInit ==
  /\ balance = InitialBalance
  /\ granted = InitialBalance
  /\ spent = [u \in Users |-> 0]
  /\ freshCache = [u \in Users |-> NotCached]

(* A change of n is a credit or, below zero, a debit. *)
Account(u, n) ==
  /\ granted' = IF n > 0 THEN [granted EXCEPT ![u] = @ + n] ELSE granted
  /\ spent' = IF n < 0 THEN [spent EXCEPT ![u] = @ - n] ELSE spent

(* AddBalance(n).Save: one UPDATE, which looks at nothing, not at the sign *)
(* of n either.                                                            *)
AddBalance(u, n) ==
  /\ balance' = [balance EXCEPT ![u] = @ + n]
  /\ Account(u, n)

(* SetBalance(old + n).Save, old having been read earlier. *)
SetBalanceRefunding(u, old, n) ==
  /\ balance' = [balance EXCEPT ![u] = old - n]
  /\ Account(u, n)

SetBalance(u, old, n) ==
  /\ balance' = [balance EXCEPT ![u] = old + n]
  /\ Account(u, n)

RowTypeOK ==
  /\ balance \in [Users -> Int]
  /\ granted \in [Users -> Nat]
  /\ spent \in [Users -> Nat]
  /\ freshCache \in [Users -> Int \cup {NotCached}]

(* Lost updates can destroy money and cancel charges, but they never       *)
(* create more money than was ever credited to the user.                   *)
NoMoneyFromNothing == \A u \in Users : balance[u] <= granted[u]

(* What one would expect of the column: it is the credits less the debits. *)
LedgerBalances == \A u \in Users : balance[u] = granted[u] - spent[u]
===============================================================================
