------------------------------ MODULE ChatBilling ------------------------------
(***************************************************************************)
(* The balance of a user in the Python backend, under chat completions     *)
(* (chat_service.py) and adjustments by an administrator                   *)
(* (billing_admin.py), with their idempotency keys in Redis                *)
(* (idempotency.py).  The transaction of a call is committed by get_db     *)
(* after the call returned, that is after its answer was stored.           *)
(***************************************************************************)
EXTENDS Integers, FiniteSets

CONSTANTS
  Chats,        \* calls of ChatService.complete
  Adjusts,      \* calls of adjust_balance
  IdemKeys,     \* values of X-Idempotency-Key; they live for a day
  NoKey,        \* a call without one
  KeyOf,        \* the key of a call
  PriceOf,      \* what a chat costs, and what an adjustment adds
  InitialCred,  \* cred_balance in the beginning; the row exists
  Unlocked      \* who has locked a row that nobody has

Billed == Chats \cup Adjusts

ASSUME ChatAssumption ==
  /\ IsFiniteSet(Billed) /\ Chats \cap Adjusts = {} /\ Unlocked \notin Billed
  /\ NoKey \notin IdemKeys /\ KeyOf \in [Billed -> IdemKeys \cup {NoKey}]
  /\ PriceOf \in [Billed -> Int] /\ \A r \in Chats : PriceOf[r] > 0
  /\ InitialCred \in Nat

VARIABLES
  cred,     \* balances.cred_balance, as committed
  rowLock,  \* the call whose UPDATE of the row is not committed
  stored,   \* the keys a response is stored for
  idemLock, \* the keys that acquire_idempotency_lock has locked
  timed,    \* those of them with a time to live
  step,     \* where a call is
  read,     \* the balance an adjustment has read
  applied,  \* history: the calls whose transaction was committed
  late,     \* history: the calls made after their key had been answered
  given,    \* history: the initial balance and the adjustments that added to it
  taken     \* history: the adjustments that took from it

redisVars == <<stored, idemLock, timed>>
moneyVars == <<cred, applied, given, taken>>
chatVars  == <<moneyVars, redisVars, rowLock, step, read, late>>

Ended == {"answered", "replayed", "refused", "failed"}
Steps == Ended \cup {"new", "checking", "deducting", "locking", "expiring", "reading",
                     "marking", "releasing", "abandoning", "committing"}
-------------------------------------------------------------------------------
(* A definition named after a mistake is a mutant that PROJECT.json lists. *)
ChatInit ==
  /\ cred = InitialCred
  /\ rowLock = Unlocked
  /\ stored = {} /\ idemLock = {} /\ timed = {}
  /\ step = [c \in Billed |-> "new"]
  /\ read = [c \in Adjusts |-> 0]
  /\ applied = {} /\ late = {}
  /\ given = InitialCred /\ taken = 0

Goes(c, s) == step' = [step EXCEPT ![c] = s]

(* check_idempotency.  A call that fails from here on has changed nothing. *)
CheckIdempotency(c) ==
  /\ step[c] = "new"
  /\ late' = IF \E b \in Billed : /\ KeyOf[b] = KeyOf[c] /\ KeyOf[c] # NoKey
                                  /\ step[b] \in {"answered", "replayed"}
             THEN late \cup {c} ELSE late
  /\ Goes(c, IF KeyOf[c] \in stored THEN "replayed"
             ELSE IF c \in Chats THEN "checking"
             ELSE IF KeyOf[c] = NoKey THEN "reading" ELSE "locking")
  /\ UNCHANGED <<moneyVars, redisVars, rowLock, read>>

CheckCred(r) ==
  /\ step[r] = "checking"
  /\ Goes(r, IF cred <= 0 THEN "refused" ELSE "deducting")
  /\ UNCHANGED <<moneyVars, redisVars, rowLock, read, late>>

AfterDeduction(r) == IF KeyOf[r] = NoKey THEN "committing" ELSE "marking"

DeductUnmarked(r) ==
  /\ step[r] = "deducting"
  /\ rowLock = Unlocked
  /\ IF cred >= PriceOf[r]
     THEN rowLock' = r /\ Goes(r, "committing")
     ELSE UNCHANGED rowLock /\ Goes(r, "refused")
  /\ UNCHANGED <<moneyVars, redisVars, read, late>>

DeductUnguarded(r) ==
  /\ step[r] = "deducting"
  /\ rowLock = Unlocked
  /\ rowLock' = r /\ Goes(r, AfterDeduction(r))
  /\ UNCHANGED <<moneyVars, redisVars, read, late>>

(* BalanceRepository.deduct: an UPDATE with its condition, which waits for *)
(* the row and keeps it until the commit.  The usage row is flushed and    *)
(* the log row added in the same transaction.                              *)
Deduct(r) ==
  /\ step[r] = "deducting"
  /\ rowLock = Unlocked
  /\ IF cred >= PriceOf[r]
     THEN rowLock' = r /\ Goes(r, AfterDeduction(r))
     ELSE UNCHANGED rowLock /\ Goes(r, "refused")
  /\ UNCHANGED <<moneyVars, redisVars, read, late>>

MarkIdempotency(c) ==
  /\ step[c] = "marking"
  /\ stored' = stored \cup {KeyOf[c]}
  /\ Goes(c, IF c \in Chats THEN "committing" ELSE "releasing")
  /\ UNCHANGED <<moneyVars, idemLock, timed, rowLock, read, late>>

CommitChat(r) ==
  /\ r \in Chats /\ step[r] = "committing"
  /\ cred' = cred - PriceOf[r]
  /\ rowLock' = Unlocked
  /\ applied' = applied \cup {r}
  /\ Goes(r, "answered")
  /\ UNCHANGED <<given, taken, redisVars, read, late>>

(* Redis or the database fails, or the process dies: the transaction is    *)
(* rolled back.                                                            *)
ChatFails(r) ==
  /\ r \in Chats /\ step[r] \notin Ended \cup {"new"}
  /\ rowLock' = IF rowLock = r THEN Unlocked ELSE rowLock
  /\ Goes(r, "failed")
  /\ UNCHANGED <<moneyVars, redisVars, read, late>>
-------------------------------------------------------------------------------
(* acquire_idempotency_lock: SETNX, and then EXPIRE.  What was checked      *)
(* before is not checked again.                                            *)
AcquireLock(a) ==
  /\ step[a] = "locking"
  /\ idemLock' = idemLock \cup {KeyOf[a]}
  /\ Goes(a, IF KeyOf[a] \in idemLock THEN "refused" ELSE "expiring")
  /\ UNCHANGED <<moneyVars, stored, timed, rowLock, read, late>>

SetLockTTL(a) ==
  /\ step[a] = "expiring"
  /\ timed' = timed \cup ({KeyOf[a]} \cap idemLock)
  /\ Goes(a, "reading")
  /\ UNCHANGED <<moneyVars, stored, idemLock, rowLock, read, late>>

(* The balance to be written is computed from a SELECT without a lock. *)
ReadCred(a) ==
  /\ step[a] = "reading"
  /\ read' = [read EXCEPT ![a] = cred]
  /\ Goes(a, IF KeyOf[a] = NoKey THEN "committing" ELSE "marking")
  /\ UNCHANGED <<moneyVars, redisVars, rowLock, late>>

(* The finally clause deletes the lock, whoever holds it by now. *)
ReleaseLock(a) ==
  /\ step[a] \in {"releasing", "abandoning"}
  /\ idemLock' = idemLock \ {KeyOf[a]}
  /\ timed' = timed \ {KeyOf[a]}
  /\ Goes(a, IF step[a] = "releasing" THEN "committing" ELSE "failed")
  /\ UNCHANGED <<moneyVars, stored, rowLock, read, late>>

(* The flush writes what was computed, and the commit follows at once. *)
CommitAdjust(a) ==
  /\ a \in Adjusts /\ step[a] = "committing"
  /\ rowLock = Unlocked
  /\ cred' = read[a] + PriceOf[a]
  /\ applied' = applied \cup {a}
  /\ given' = IF PriceOf[a] > 0 THEN given + PriceOf[a] ELSE given
  /\ taken' = IF PriceOf[a] < 0 THEN taken - PriceOf[a] ELSE taken
  /\ Goes(a, "answered")
  /\ UNCHANGED <<redisVars, rowLock, read, late>>

(* A statement inside the try clause fails. *)
AdjustRaises(a) ==
  /\ a \in Adjusts /\ step[a] \in {"reading", "marking"} /\ KeyOf[a] # NoKey
  /\ Goes(a, "abandoning")
  /\ UNCHANGED <<moneyVars, redisVars, rowLock, read, late>>

(* One outside of it fails, or the process dies: a lock it holds stays. *)
AdjustDies(a) ==
  /\ a \in Adjusts /\ step[a] \notin Ended \cup {"new"}
  /\ Goes(a, "failed")
  /\ UNCHANGED <<moneyVars, redisVars, rowLock, read, late>>

LockExpires(k) ==
  /\ k \in timed
  /\ idemLock' = idemLock \ {k} /\ timed' = timed \ {k}
  /\ UNCHANGED <<moneyVars, stored, rowLock, step, read, late>>

Complete(r) ==
  CheckIdempotency(r) \/ CheckCred(r) \/ Deduct(r) \/ MarkIdempotency(r) \/ CommitChat(r) \/ ChatFails(r)

AdjustBalance(a) ==
  \/ CheckIdempotency(a) \/ AcquireLock(a) \/ SetLockTTL(a) \/ ReadCred(a)
  \/ MarkIdempotency(a) \/ ReleaseLock(a) \/ CommitAdjust(a) \/ AdjustRaises(a) \/ AdjustDies(a)

ChatNext ==
  \/ \E r \in Chats : Complete(r)
  \/ \E a \in Adjusts : AdjustBalance(a)
  \/ \E k \in IdemKeys : LockExpires(k)

ChatSpec == ChatInit /\ [][ChatNext]_chatVars
-------------------------------------------------------------------------------
ChatTypeOK ==
  /\ cred \in Int /\ given \in Nat /\ taken \in Nat
  /\ rowLock \in Chats \cup {Unlocked}
  /\ stored \subseteq IdemKeys /\ idemLock \subseteq IdemKeys /\ timed \subseteq idemLock
  /\ step \in [Billed -> Steps]
  /\ read \in [Adjusts -> Int]
  /\ applied \subseteq Billed /\ late \subseteq Billed

(* However chats and adjustments interleave, and though an adjustment      *)
(* writes a balance it computed from an old one, the balance stays within  *)
(* what administrators gave and took.                                      *)
CredBacked == cred \in -taken .. given

(* A call that is made after an answer to its key came is never charged or *)
(* applied, whatever failed on the way to that answer.                     *)
RetryIsFree == late \cap applied = {}

(* "Prevents duplicate processing of the same request": of the calls with  *)
(* one key, one takes effect.                                              *)
ProcessedOnce ==
  \A b, c \in applied : KeyOf[b] = KeyOf[c] /\ KeyOf[b] # NoKey => b = c
===============================================================================
