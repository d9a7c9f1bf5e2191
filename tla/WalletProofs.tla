----------------------------- MODULE WalletProofs -----------------------------
(***************************************************************************)
(* Proofs about Wallet, for any users, requests, amounts and prices: the   *)
(* types, that no interleaving of the services that write the balance      *)
(* overdraws it further than UpdateBalance does by itself, or creates      *)
(* money, that a request id is charged once, that a redemption which comes *)
(* too late is refused, and that the records of the rebates and of the     *)
(* credits add up to the columns they explain.                             *)
(***************************************************************************)
EXTENDS Wallet, FiniteSetTheorems, WellFoundedInduction, TLAPS

(* A cost is a natural number, whatever the handler reports. *)
LEMMA CostType == ASSUME NEW r \in Requests PROVE Cost(r) \in Nat
<1> DEFINE use == Usage[r]
<1>1. /\ use.handler \in Handlers
      /\ use.model \in Models \cup {UnknownModel}
      /\ use.prompt \in Nat
      /\ use.completion \in Nat
  BY BillingAssumption
<1>2. Reported(r).prompt \in Nat /\ Reported(r).completion \in Nat
  BY <1>1 DEF Reported
<1>3. PricingOf(use.model).input \in Nat /\ PricingOf(use.model).output \in Nat
  BY <1>1, BillingAssumption DEF PricingOf, DefaultPricing
<1>4. \A a, b, c, d \in Nat : a * b + c * d \in Nat
  OBVIOUS
<1>5. /\ Reported(r).prompt * PricingOf(use.model).input
         + Reported(r).completion * PricingOf(use.model).output \in Nat
      /\ MinChargeUnit \in Nat
  BY <1>2, <1>3, <1>4, BillingAssumption
<1> HIDE DEF use
<1>6. CalculateCost(use.model, Reported(r).prompt, Reported(r).completion) \in Nat
  BY <1>5 DEF CalculateCost
<1> QED BY <1>6 DEF Cost, use

(* What the two kinds of UPDATE do to the row. *)
LEMMA SetBalanceEffect ==
  ASSUME RowTypeOK, NEW u \in Users, NEW old \in Int, NEW n \in Int, SetBalance(u, old, n)
  PROVE  /\ balance' \in [Users -> Int]
         /\ granted' \in [Users -> Nat]
         /\ spent' \in [Users -> Nat]
         /\ balance'[u] = old + n
         /\ \A v \in Users \ {u} : balance'[v] = balance[v]
         /\ \A v \in Users : granted[v] <= granted'[v]
         /\ n > 0 => granted'[u] = granted[u] + n
BY DEF RowTypeOK, SetBalance, Account

LEMMA AddBalanceEffect ==
  ASSUME RowTypeOK, NEW u \in Users, NEW n \in Nat, AddBalance(u, n)
  PROVE  /\ balance' \in [Users -> Int]
         /\ granted' \in [Users -> Nat]
         /\ spent' \in [Users -> Nat]
         /\ balance'[u] = balance[u] + n
         /\ granted'[u] = granted[u] + n
         /\ \A v \in Users \ {u} : balance'[v] = balance[v] /\ granted'[v] = granted[v]
BY DEF RowTypeOK, AddBalance, Account

LEMMA AddBalanceDebits ==
  ASSUME RowTypeOK, NEW u \in Users, NEW n \in Int, n < 0, AddBalance(u, n)
  PROVE  /\ balance' \in [Users -> Int]
         /\ spent' \in [Users -> Nat]
         /\ granted' = granted
         /\ balance'[u] = balance[u] + n
         /\ \A v \in Users \ {u} : balance'[v] = balance[v]
BY DEF RowTypeOK, AddBalance, Account

(* A transfer that passed its check is of a positive amount. *)
TransfersPositive == \A w \in Transfers : affiliatePc[w] = "transferring" => Amount[w] \in Nat

TypeInv == TypeOK /\ TransfersPositive

LEMMA TypeInit == Init => TypeInv
<1> SUFFICES ASSUME Init PROVE TypeInv
  OBVIOUS
<1> USE DEF Init
<1>1. RowTypeOK
  BY UserRowAssumption DEF RowInit, RowTypeOK
<1>2. BillingTypeOK
  BY DEF BillingInit, BillingTypeOK, ChargingPCs, AdjustPCs
<1>3. CodesTypeOK
  BY DEF CodesInit, CodesTypeOK, CodeStatuses, RedeemPCs, DisablePCs
<1>4. AffiliateTypeOK
  BY DEF AffiliateInit, AffiliateTypeOK, AffiliatePCs
<1>5. TransfersPositive
  BY DEF AffiliateInit, TransfersPositive, Calls
<1> QED BY <1>1, <1>2, <1>3, <1>4, <1>5 DEF TypeInv, TypeOK

LEMMA BillingTypeStep ==
  ASSUME RowTypeOK, BillingTypeOK, BillingNext
  PROVE  RowTypeOK' /\ BillingTypeOK'
<1>1. ASSUME NEW r \in Requests, HandOver(r) \/ ContextEnds(r)
      PROVE  RowTypeOK' /\ BillingTypeOK'
  BY <1>1 DEF RowTypeOK, BillingTypeOK, HandOver, ContextEnds, ChargingPCs, rowVars
<1>2. ASSUME NEW r \in Requests, CreateRecord(r)
      PROVE  RowTypeOK' /\ BillingTypeOK'
  BY <1>2 DEF RowTypeOK, BillingTypeOK, CreateRecord, AfterRecord, ChargingPCs, rowVars
<1>3. ASSUME NEW r \in Requests, ReadBalance(r)
      PROVE  RowTypeOK' /\ BillingTypeOK'
  <2>1. UserOf[r] \in Users
    BY BillingAssumption
  <2> QED BY <1>3, <2>1 DEF RowTypeOK, BillingTypeOK, ReadBalance, ChargingPCs, rowVars
<1>4. ASSUME NEW r \in Requests, CommitDeduction(r)
      PROVE  RowTypeOK' /\ BillingTypeOK'
  <2>1. UserOf[r] \in Users /\ seen[r] \in Int /\ -Cost(r) \in Int
    BY CostType, BillingAssumption DEF BillingTypeOK
  <2>2. CASE SetBalance(UserOf[r], seen[r], -Cost(r))
    <3>1. RowTypeOK'
      BY <1>4, <2>1, <2>2, SetBalanceEffect DEF RowTypeOK, CommitDeduction
    <3> QED BY <1>4, <3>1 DEF BillingTypeOK, CommitDeduction, ChargingPCs
  <2>3. CASE UNCHANGED <<balance, granted, spent, charges>>
    BY <1>4, <2>3 DEF RowTypeOK, BillingTypeOK, CommitDeduction, ChargingPCs
  <2> QED BY <1>4, <2>2, <2>3 DEF CommitDeduction
<1>5. ASSUME NEW r \in Requests, CacheDeduction(r)
      PROVE  RowTypeOK' /\ BillingTypeOK'
  <2>1. seen[r] - Cost(r) \in Int
    BY CostType DEF BillingTypeOK
  <2> QED BY <1>5, <2>1 DEF RowTypeOK, BillingTypeOK, CacheDeduction, ChargingPCs, rowVars
<1>6. ASSUME NEW a \in Adjustments, AdjustRead(a)
      PROVE  RowTypeOK' /\ BillingTypeOK'
  <2>1. UserOf[a] \in Users
    BY BillingAssumption
  <2> QED BY <1>6, <2>1
        DEF RowTypeOK, BillingTypeOK, AdjustRead, AdjustPCs, rowVars, usageVars
<1>7. ASSUME NEW a \in Adjustments, AdjustCommit(a)
      PROVE  RowTypeOK' /\ BillingTypeOK'
  <2>1. UserOf[a] \in Users /\ seen[a] \in Int /\ AmountOf[a] \in Int
    BY BillingAssumption DEF BillingTypeOK
  <2>2. RowTypeOK'
    BY <1>7, <2>1, SetBalanceEffect DEF RowTypeOK, AdjustCommit
  <2> QED BY <1>7, <2>2 DEF BillingTypeOK, AdjustCommit, AdjustPCs, usageVars
<1>8. ASSUME NEW t \in TopUps, UpdateBalance(t)
      PROVE  RowTypeOK' /\ BillingTypeOK'
  <2>1. UserOf[t] \in Users /\ AmountOf[t] \in Int
    BY BillingAssumption
  <2>2. RowTypeOK'
    <3>1. CASE AmountOf[t] < 0
      BY <1>8, <2>1, <3>1, AddBalanceDebits DEF RowTypeOK, UpdateBalance
    <3>2. CASE AmountOf[t] \in Nat
      BY <1>8, <2>1, <3>2, AddBalanceEffect DEF RowTypeOK, UpdateBalance
    <3> QED BY <2>1, <3>1, <3>2
  <2> QED BY <1>8, <2>2 DEF BillingTypeOK, UpdateBalance, usageVars
<1>9. ASSUME NEW c \in Readers, CheckBalanceMiss(c) \/ CheckBalanceStore(c)
      PROVE  RowTypeOK' /\ BillingTypeOK'
  <2>1. UserOf[c] \in Users
    BY BillingAssumption
  <2> QED BY <1>9, <2>1
        DEF RowTypeOK, BillingTypeOK, CheckBalanceMiss, CheckBalanceStore, rowVars, usageVars
<1>10. ASSUME NEW u \in Users, CacheExpires(u)
       PROVE  RowTypeOK' /\ BillingTypeOK'
  BY <1>10 DEF RowTypeOK, BillingTypeOK, CacheExpires, usageVars
<1> QED BY <1>1, <1>2, <1>3, <1>4, <1>5, <1>6, <1>7, <1>8, <1>9, <1>10
        DEF BillingNext, RecordUsage

LEMMA CodesTypeStep ==
  ASSUME RowTypeOK, CodesTypeOK, CodesNext
  PROVE  RowTypeOK' /\ CodesTypeOK'
<1> USE DEF CodeStatuses, RedeemPCs, DisablePCs
<1>1. CASE GenerateCodes
  BY <1>1 DEF RowTypeOK, CodesTypeOK, GenerateCodes, rowVars
<1>2. ASSUME NEW c \in Codes, ExpiryPasses(c)
      PROVE  RowTypeOK' /\ CodesTypeOK'
  BY <1>2 DEF RowTypeOK, CodesTypeOK, ExpiryPasses, rowVars
<1>3. ASSUME NEW k \in Redemptions, ValidateCode(k) \/ MarkExpired(k)
      PROVE  RowTypeOK' /\ CodesTypeOK'
  BY <1>3 DEF RowTypeOK, CodesTypeOK, ValidateCode, MarkExpired, rowVars
<1>4. ASSUME NEW k \in Redemptions, RedeemCommit(k)
      PROVE  RowTypeOK' /\ CodesTypeOK'
  <2>1. Redeemer[k] \in Users /\ Value[CodeOf[k]] \in Nat
    BY RedeemAssumption
  <2>2. CASE AddBalance(Redeemer[k], Value[CodeOf[k]])
    <3>1. RowTypeOK'
      BY <1>4, <2>1, <2>2, AddBalanceEffect DEF RowTypeOK, RedeemCommit
    <3> QED BY <1>4, <3>1 DEF CodesTypeOK, RedeemCommit
  <2>3. CASE UNCHANGED <<balance, granted, spent, code, credits>>
    BY <1>4, <2>3 DEF RowTypeOK, CodesTypeOK, RedeemCommit
  <2> QED BY <1>4, <2>2, <2>3 DEF RedeemCommit
<1>5. ASSUME NEW d \in Disablings, DisableCheck(d) \/ DisableUpdate(d)
      PROVE  RowTypeOK' /\ CodesTypeOK'
  BY <1>5 DEF RowTypeOK, CodesTypeOK, DisableCheck, DisableUpdate, rowVars
<1> QED BY <1>1, <1>2, <1>3, <1>4, <1>5 DEF CodesNext, Redeem

LEMMA AffiliateTypeStep ==
  ASSUME RowTypeOK, AffiliateTypeOK, TransfersPositive, AffiliateNext
  PROVE  RowTypeOK' /\ AffiliateTypeOK' /\ TransfersPositive'
<1> USE DEF AffiliatePCs, Goto, moneyVars, linkVars
<1>a. \A x \in Calls : Caller[x] \in Users
  BY AffiliateAssumption
<1>1. ASSUME NEW x \in Calls, Fail(x)
      PROVE  RowTypeOK' /\ AffiliateTypeOK' /\ TransfersPositive'
  BY <1>1 DEF RowTypeOK, AffiliateTypeOK, TransfersPositive, Calls, Fail, rowVars
<1>2. ASSUME NEW g \in CodeRequests, LookupCode(g) \/ SaveCode(g)
      PROVE  RowTypeOK' /\ AffiliateTypeOK' /\ TransfersPositive'
  BY <1>2 DEF RowTypeOK, AffiliateTypeOK, TransfersPositive, Calls, LookupCode, SaveCode,
         rowVars
<1>3. ASSUME NEW i \in Invitations, FindInviter(i)
      PROVE  RowTypeOK' /\ AffiliateTypeOK' /\ TransfersPositive'
  <2>1. PICK c \in InviteCodes :
          LET owners == {u \in Users : inviteCode[u] = c} \ {Caller[i]} IN
          IF owners = {} THEN Goto(i, "done") /\ UNCHANGED payee
          ELSE Goto(i, "linking") /\ payee' = [payee EXCEPT ![i] = CHOOSE u \in owners : TRUE]
    BY <1>3 DEF FindInviter
  <2> DEFINE owners == {u \in Users : inviteCode[u] = c} \ {Caller[i]}
  <2>2. owners # {} => (CHOOSE u \in owners : TRUE) \in Users
    OBVIOUS
  <2> QED BY <1>3, <2>1, <2>2
        DEF RowTypeOK, AffiliateTypeOK, TransfersPositive, Calls, FindInviter, rowVars
<1>4. ASSUME NEW i \in Invitations, LinkInvitee(i) \/ CountInvite(i)
      PROVE  RowTypeOK' /\ AffiliateTypeOK' /\ TransfersPositive'
  BY <1>4 DEF RowTypeOK, AffiliateTypeOK, TransfersPositive, Calls, LinkInvitee, CountInvite,
         rowVars
<1>5. ASSUME NEW p \in Recharges, FindRebate(p)
      PROVE  RowTypeOK' /\ AffiliateTypeOK' /\ TransfersPositive'
  BY <1>5, <1>a DEF RowTypeOK, AffiliateTypeOK, TransfersPositive, Calls, FindRebate, rowVars
<1>6. ASSUME NEW x \in Invitations \cup Recharges, CreateRebateRecord(x) \/ CreditRebate(x)
      PROVE  RowTypeOK' /\ AffiliateTypeOK' /\ TransfersPositive'
  <2>1. RebateOf(x) \in Nat
    BY AffiliateAssumption DEF RebateOf
  <2> QED BY <1>6, <2>1
        DEF RowTypeOK, AffiliateTypeOK, TransfersPositive, Calls, CreateRebateRecord, CreditRebate, rowVars
<1>7. ASSUME NEW w \in Transfers, CheckTransfer(w)
      PROVE  RowTypeOK' /\ AffiliateTypeOK' /\ TransfersPositive'
  <2>1. Amount[w] \in Int
    BY AffiliateAssumption
  <2> QED BY <1>7, <2>1
        DEF RowTypeOK, AffiliateTypeOK, TransfersPositive, Calls, CheckTransfer, rowVars
<1>8. ASSUME NEW w \in Transfers, CommitTransfer(w)
      PROVE  RowTypeOK' /\ AffiliateTypeOK' /\ TransfersPositive'
  <2>1. Caller[w] \in Users /\ Amount[w] \in Nat
    BY <1>8, <1>a DEF TransfersPositive, Calls, CommitTransfer
  <2>2. RowTypeOK'
    BY <1>8, <2>1, AddBalanceEffect DEF RowTypeOK, CommitTransfer
  <2> QED BY <1>8, <2>1, <2>2 DEF AffiliateTypeOK, TransfersPositive, Calls, CommitTransfer
<1> QED BY <1>1, <1>2, <1>3, <1>4, <1>5, <1>6, <1>7, <1>8 DEF AffiliateNext

LEMMA TypeStep == TypeInv /\ [Next]_vars => TypeInv'
<1> SUFFICES ASSUME TypeInv, [Next]_vars
             PROVE  TypeInv'
  OBVIOUS
<1> USE DEF TypeInv, TypeOK
<1>1. CASE BillingNext /\ UNCHANGED <<codeVars, affiliateVars>>
  BY <1>1, BillingTypeStep DEF CodesTypeOK, AffiliateTypeOK, TransfersPositive,
                               codeVars, affiliateVars, moneyVars, linkVars
<1>2. CASE CodesNext /\ UNCHANGED <<billingVars, affiliateVars>>
  BY <1>2, CodesTypeStep DEF BillingTypeOK, AffiliateTypeOK, TransfersPositive,
                             billingVars, usageVars, affiliateVars, moneyVars, linkVars
<1>3. CASE AffiliateNext /\ UNCHANGED <<billingVars, codeVars>>
  BY <1>3, AffiliateTypeStep DEF BillingTypeOK, CodesTypeOK, billingVars, usageVars, codeVars
<1>4. CASE UNCHANGED vars
  BY <1>4 DEF RowTypeOK, BillingTypeOK, CodesTypeOK, AffiliateTypeOK, TransfersPositive, vars,
              rowVars, billingVars, usageVars, codeVars, affiliateVars, moneyVars, linkVars
<1> QED BY <1>1, <1>2, <1>3, <1>4 DEF Next

(* Every column, key and program counter keeps its type; in particular the *)
(* accounts of what was credited, spent, earned and withdrawn are natural. *)
THEOREM WalletTypeCorrect == Spec => []TypeOK
<1>1. Spec => []TypeInv
  BY TypeInit, TypeStep, PTL DEF Spec
<1>2. TypeInv => TypeOK
  BY DEF TypeInv
<1> QED BY <1>1, <1>2, PTL
-------------------------------------------------------------------------------
(* A sum counts the pairs of an element and one of its units.  The sums of *)
(* Functions are recursive; that they obey the usual rules is shown here   *)
(* by taking a least set that breaks them.                                 *)
Units(f, S) == UNION {{x} \X (1..f[x]) : x \in S}

(* One more element adds its units. *)
LEMMA UnitsOfOneMore ==
  ASSUME NEW f, NEW S, NEW x, x \notin S, IsFiniteSet(Units(f, S)), f[x] \in Nat
  PROVE  /\ IsFiniteSet(Units(f, S \cup {x}))
         /\ Cardinality(Units(f, S \cup {x})) = Cardinality(Units(f, S)) + f[x]
<1> DEFINE own == {x} \X (1..f[x])
<1>1. IsFiniteSet(own) /\ Cardinality(own) = f[x]
  <2>1. IsFiniteSet({x}) /\ Cardinality({x}) = 1
    BY FS_Singleton
  <2>2. IsFiniteSet(1..f[x]) /\ Cardinality(1..f[x]) = f[x]
    BY FS_Interval
  <2>3. IsFiniteSet(own) /\ Cardinality(own) = Cardinality({x}) * Cardinality(1..f[x])
    BY <2>1, <2>2, FS_Product
  <2> QED BY <2>1, <2>2, <2>3
<1>2. Units(f, S \cup {x}) = Units(f, S) \cup own
  BY DEF Units
<1>3. Units(f, S) \cap own = {}
  BY DEF Units
<1> HIDE DEF own
<1>4. Cardinality(Units(f, S)) \in Nat
  BY FS_CardinalityType
<1>5. /\ IsFiniteSet(Units(f, S) \cup own)
      /\ Cardinality(Units(f, S) \cup own)
         = Cardinality(Units(f, S)) + Cardinality(own) - Cardinality(Units(f, S) \cap own)
  BY <1>1, FS_Union
<1>6. Cardinality(Units(f, S) \cap own) = 0
  BY <1>3, FS_EmptySet
<1>7. Cardinality(Units(f, S) \cup own) = Cardinality(Units(f, S)) + f[x]
  BY <1>1, <1>4, <1>5, <1>6
<1> QED BY <1>2, <1>5, <1>7

(* Among sets of elements of a finite set, some have no subset among them. *)
LEMMA LeastCounterexample ==
  ASSUME NEW S, IsFiniteSet(S), NEW Off, Off \subseteq SUBSET S, Off # {}
  PROVE  \E s \in Off : \A t \in SUBSET S : t \subseteq s /\ t # s => t \notin Off
<1>1. Off \subseteq FiniteSubsetsOf(S)
  BY FS_Subset DEF FiniteSubsetsOf
<1>2. PICK s \in Off : \A t \in Off : ~(<<t, s>> \in StrictSubsetOrdering(S))
  BY <1>1, FS_StrictSubsetOrderingWellFounded, WFMin
<1>3. ASSUME NEW t \in SUBSET S, t \subseteq s, t # s
      PROVE  t \notin Off
  <2>1. <<t, s>> \in (SUBSET S) \X (SUBSET S)
    OBVIOUS
  <2>2. <<t, s>> \in StrictSubsetOrdering(S)
    BY <1>3, <2>1 DEF StrictSubsetOrdering
  <2> QED BY <1>2, <2>2
<1> QED BY <1>3

(* A finite set has finitely many units. *)
LEMMA UnitsFinite ==
  ASSUME NEW f, NEW S, IsFiniteSet(S), \A x \in S : f[x] \in Nat
  PROVE  IsFiniteSet(Units(f, S))
<1> DEFINE Off == {s \in SUBSET S : ~IsFiniteSet(Units(f, s))}
<1>1. SUFFICES ASSUME Off # {}
               PROVE  FALSE
  OBVIOUS
<1>2. PICK s \in Off : \A t \in SUBSET S : t \subseteq s /\ t # s => t \notin Off
  <2>1. Off \subseteq SUBSET S
    OBVIOUS
  <2> HIDE DEF Off
  <2> QED BY <1>1, <2>1, LeastCounterexample
<1>3. s # {}
  <2>1. Units(f, {}) = {}
    BY DEF Units
  <2> QED BY <2>1, FS_EmptySet
<1>4. PICK x \in s : TRUE
  BY <1>3
<1>5. IsFiniteSet(Units(f, s \ {x}))
  <2>1. s \ {x} \subseteq s /\ s \ {x} # s /\ s \ {x} \in SUBSET S
    BY <1>4
  <2> QED BY <1>2, <2>1
<1>6. IsFiniteSet(Units(f, (s \ {x}) \cup {x}))
  BY <1>4, <1>5, UnitsOfOneMore
<1>7. (s \ {x}) \cup {x} = s
  BY <1>4
<1> QED BY <1>6, <1>7

(* The sum is their number: the recursion that defines it has one solution *)
(* and that number is one.                                                 *)
LEMMA SumCountsUnits ==
  ASSUME NEW f, NEW S, IsFiniteSet(S), \A x \in S : f[x] \in Nat
  PROVE  SumFunctionOnSet(f, S) = Cardinality(Units(f, S))
<1> DEFINE Least(s) == CHOOSE x \in s : TRUE
           Count == [s \in SUBSET S |-> Cardinality(Units(f, s))]
           Adds(g) == g = [s \in SUBSET S |-> IF s = {} THEN 0
                                              ELSE f[Least(s)] + g[s \ {Least(s)}]]
<1>1. ASSUME NEW s \in SUBSET S
      PROVE  /\ s = {} => Cardinality(Units(f, s)) = 0
             /\ s # {} => Cardinality(Units(f, s))
                          = f[Least(s)] + Cardinality(Units(f, s \ {Least(s)}))
  <2>1. CASE s = {}
    <3>1. Units(f, s) = {}
      BY <2>1 DEF Units
    <3> QED BY <2>1, <3>1, FS_EmptySet
  <2>2. CASE s # {}
    <3> DEFINE t == s \ {Least(s)}
    <3>1. Least(s) \in s /\ Least(s) \notin t /\ s = t \cup {Least(s)}
      BY <2>2
    <3> HIDE DEF Least
    <3>2. IsFiniteSet(t)
      BY FS_Subset
    <3> HIDE DEF t
    <3>3. t \subseteq S
      BY <3>1
    <3>4. IsFiniteSet(Units(f, t))
      BY <3>2, <3>3, UnitsFinite
    <3>5. Cardinality(Units(f, t)) \in Nat /\ f[Least(s)] \in Nat
      BY <3>1, <3>4, FS_CardinalityType
    <3>6. Cardinality(Units(f, t \cup {Least(s)})) = Cardinality(Units(f, t)) + f[Least(s)]
      BY <3>1, <3>4, <3>5, UnitsOfOneMore
    <3>7. Units(f, s) = Units(f, t \cup {Least(s)})
      BY <3>1
    <3>8. Cardinality(Units(f, s)) = f[Least(s)] + Cardinality(Units(f, t))
      BY <3>5, <3>6, <3>7
    <3> QED BY <2>2, <3>8 DEF t
  <2> QED BY <2>1, <2>2
<1>2. Adds(Count)
  BY <1>1
<1>3. ASSUME NEW g, Adds(g)
      PROVE  g[S] = Cardinality(Units(f, S))
  <2> DEFINE Off == {s \in SUBSET S : g[s] # Cardinality(Units(f, s))}
  <2>1. SUFFICES ASSUME Off # {}
                 PROVE  FALSE
    OBVIOUS
  <2>3. PICK s \in Off : \A t \in SUBSET S : t \subseteq s /\ t # s => t \notin Off
    <3>1. Off \subseteq SUBSET S
      OBVIOUS
    <3> HIDE DEF Off
    <3> QED BY <2>1, <3>1, LeastCounterexample
  <2>4. s # {}
    BY <1>1, <1>3
  <2>5. g[s] = f[Least(s)] + g[s \ {Least(s)}]
    BY <1>3, <2>4
  <2>6. s \ {Least(s)} \notin Off
    <3>1. Least(s) \in s
      BY <2>4
    <3>2. s \ {Least(s)} \in SUBSET S /\ s \ {Least(s)} \subseteq s /\ s \ {Least(s)} # s
      BY <3>1
    <3> HIDE DEF Off, Least
    <3> QED BY <2>3, <3>2
  <2>7. g[s \ {Least(s)}] = Cardinality(Units(f, s \ {Least(s)}))
    BY <2>6
  <2> QED BY <1>1, <2>4, <2>5, <2>7
<1>4. (CHOOSE g : Adds(g))[S] = Cardinality(Units(f, S))
  <2>1. Adds(CHOOSE g : Adds(g))
    BY <1>2
  <2> QED BY <1>3, <2>1
<1> QED BY <1>4 DEF SumFunctionOnSet, FoldFunctionOnSet, MapThenFoldSet

(* What the proofs use: the empty sum, and the sum over one element more   *)
(* or less.                                                                *)
LEMMA SumOfNone == ASSUME NEW f PROVE SumFunctionOnSet(f, {}) = 0
<1>1. IsFiniteSet({}) /\ Units(f, {}) = {}
  BY FS_EmptySet DEF Units
<1> QED BY <1>1, FS_EmptySet, SumCountsUnits

LEMMA SumOfOneMore ==
  ASSUME NEW f, NEW S, IsFiniteSet(S), \A y \in S : f[y] \in Nat,
         NEW x, x \notin S, f[x] \in Nat
  PROVE  /\ IsFiniteSet(S \cup {x})
         /\ SumFunctionOnSet(f, S) \in Nat
         /\ SumFunctionOnSet(f, S \cup {x}) = SumFunctionOnSet(f, S) + f[x]
<1>1. IsFiniteSet(S \cup {x})
  BY FS_AddElement
<1>2. IsFiniteSet(Units(f, S))
  BY UnitsFinite
<1>3. SumFunctionOnSet(f, S) = Cardinality(Units(f, S))
  BY SumCountsUnits
<1>4. \A y \in S \cup {x} : f[y] \in Nat
  OBVIOUS
<1>5. SumFunctionOnSet(f, S \cup {x}) = Cardinality(Units(f, S \cup {x}))
  BY <1>1, <1>4, SumCountsUnits
<1>6. Cardinality(Units(f, S \cup {x})) = Cardinality(Units(f, S)) + f[x]
  BY <1>2, UnitsOfOneMore
<1> QED BY <1>1, <1>2, <1>3, <1>5, <1>6, FS_CardinalityType

LEMMA SumOfOneLess ==
  ASSUME NEW f, NEW S, IsFiniteSet(S), \A y \in S : f[y] \in Nat, NEW x \in S
  PROVE  /\ IsFiniteSet(S \ {x})
         /\ SumFunctionOnSet(f, S \ {x}) \in Nat
         /\ SumFunctionOnSet(f, S) = SumFunctionOnSet(f, S \ {x}) + f[x]
<1>1. IsFiniteSet(S \ {x}) /\ x \notin S \ {x} /\ f[x] \in Nat
  BY FS_RemoveElement
<1>2. (S \ {x}) \cup {x} = S
  OBVIOUS
<1>3. \A y \in S \ {x} : f[y] \in Nat
  OBVIOUS
<1>4. /\ SumFunctionOnSet(f, S \ {x}) \in Nat
      /\ SumFunctionOnSet(f, (S \ {x}) \cup {x}) = SumFunctionOnSet(f, S \ {x}) + f[x]
  BY <1>1, <1>3, SumOfOneMore
<1> QED BY <1>1, <1>2, <1>4
-------------------------------------------------------------------------------
(* The balance a transaction has read may be out of date when it writes,   *)
(* but what it writes is still covered: by the check against what it read, *)
(* and because what was ever credited only grows.                          *)
(* The floor of a row, of its readers and of its cached copy is what the   *)
(* unchecked debits took, which only grows too.                            *)
Floor == [u \in Users |-> -UncheckedDebit(u)]
DebitsFinite == \A u \in Users : IsFiniteSet(DebitsFor(u))
RowBacked == \A u \in Users : Floor[u] <= balance[u] /\ balance[u] <= granted[u]
DeductionBacked ==
  \A r \in Requests :
    charging[r] = "read" => Cost(r) <= seen[r] /\ seen[r] <= granted[UserOf[r]]
AdjustmentBacked ==
  \A a \in Adjustments :
    adjust[a] = "read" => 0 <= seen[a] + AmountOf[a] /\ seen[a] <= granted[UserOf[a]]
ReaderBacked ==
  \A c \in Readers :
    reader[c] # NotCached => /\ Floor[UserOf[c]] <= reader[c]
                             /\ reader[c] <= granted[UserOf[c]]
CacheBacked ==
  \A u \in Users : freshCache[u] # NotCached => /\ Floor[u] <= freshCache[u]
                                               /\ freshCache[u] <= granted[u]

Backed ==
  RowBacked /\ DeductionBacked /\ AdjustmentBacked /\ ReaderBacked /\ CacheBacked /\ DebitsFinite

LEMMA FloorType ==
  ASSUME BillingTypeOK, DebitsFinite
  PROVE  \A u \in Users : /\ \A t \in DebitsFor(u) : Debit[t] \in Nat
                          /\ UncheckedDebit(u) \in Nat
                          /\ Floor[u] = -UncheckedDebit(u)
                          /\ Floor[u] \in Int
<1> TAKE u \in Users
<1>1. \A t \in DebitsFor(u) : Debit[t] \in Nat
  BY BillingAssumption DEF BillingTypeOK, DebitsFor, Debit
<1>2. UncheckedDebit(u) \in Nat
  BY <1>1, SumCountsUnits, UnitsFinite, FS_CardinalityType DEF DebitsFinite, UncheckedDebit
<1>3. Floor[u] = -UncheckedDebit(u)
  BY DEF Floor
<1> QED BY <1>1, <1>2, <1>3

LEMMA FloorKept ==
  ASSUME \A u \in Users : DebitsFor(u)' = DebitsFor(u)
  PROVE  UNCHANGED Floor /\ (DebitsFinite => DebitsFinite')
<1>1. \A u \in Users : UncheckedDebit(u)' = UncheckedDebit(u)
  BY DEF UncheckedDebit, Debit
<1> QED BY <1>1 DEF Floor, DebitsFinite

LEMMA BackedInit == Init => Backed
<1> SUFFICES ASSUME Init PROVE Backed
  OBVIOUS
<1>1. \A u \in Users : DebitsFor(u) = {}
  BY DEF Init, BillingInit, DebitsFor
<1>2. \A u \in Users : UncheckedDebit(u) = 0
  BY <1>1, SumOfNone DEF UncheckedDebit
<1>3. \A u \in Users : Floor[u] = 0
  <2> TAKE u \in Users
  <2>1. Floor[u] = -UncheckedDebit(u)
    BY DEF Floor
  <2> QED BY <1>2, <2>1
<1>4. RowBacked
  <2>1. \A u \in Users : InitialBalance[u] \in Nat
    BY UserRowAssumption
  <2>2. balance = InitialBalance /\ granted = InitialBalance
    BY DEF Init, RowInit
  <2>3. ASSUME NEW u \in Users
        PROVE  Floor[u] <= balance[u] /\ balance[u] <= granted[u]
    <3>1. Floor[u] = 0 /\ balance[u] = granted[u] /\ balance[u] \in Nat
      BY <1>3, <2>1, <2>2
    <3> QED BY <3>1
  <2> QED BY <2>3 DEF RowBacked
<1>5. DebitsFinite
  BY <1>1, FS_EmptySet DEF DebitsFinite
<1> QED BY <1>4, <1>5
        DEF Init, RowInit, BillingInit, Backed, DeductionBacked, AdjustmentBacked, ReaderBacked,
            CacheBacked

(* While the credits and the unchecked debits only grow, whoever has read  *)
(* the row stays covered.                                                  *)
LEMMA GrantedGrows ==
  ASSUME RowTypeOK, RowTypeOK', BillingTypeOK, Backed,
         \A u \in Users : granted[u] <= granted'[u] /\ Floor'[u] \in Int /\ Floor'[u] <= Floor[u]
  PROVE  /\ \A r \in Requests :
              charging[r] = "read" => Cost(r) <= seen[r] /\ seen[r] <= granted'[UserOf[r]]
         /\ \A a \in Adjustments :
              adjust[a] = "read" => 0 <= seen[a] + AmountOf[a] /\ seen[a] <= granted'[UserOf[a]]
         /\ \A c \in Readers :
              reader[c] # NotCached => /\ Floor'[UserOf[c]] <= reader[c]
                                       /\ reader[c] <= granted'[UserOf[c]]
         /\ \A u \in Users :
              freshCache[u] # NotCached => /\ Floor'[u] <= freshCache[u]
                                           /\ freshCache[u] <= granted'[u]
<1>1. \A x \in Requests \cup Adjustments \cup Readers : UserOf[x] \in Users
  BY BillingAssumption
<1>2. \A r \in Requests : seen[r] \in Int
  BY DEF BillingTypeOK
<1>3. \A a \in Adjustments : seen[a] \in Int
  BY DEF BillingTypeOK
<1>4. \A c \in Readers : reader[c] # NotCached => reader[c] \in Int
  BY DEF BillingTypeOK
<1>5. \A u \in Users : /\ granted[u] \in Nat /\ granted'[u] \in Nat
                       /\ freshCache[u] # NotCached => freshCache[u] \in Int
  BY DEF RowTypeOK
<1>f. \A u \in Users : Floor[u] \in Int
  BY FloorType DEF Backed
<1>6. \A r \in Requests :
        charging[r] = "read" => Cost(r) <= seen[r] /\ seen[r] <= granted'[UserOf[r]]
  <2> TAKE r \in Requests
  <2>1. UserOf[r] \in Users
    BY <1>1
  <2> QED BY <1>2, <1>5, <2>1 DEF Backed, DeductionBacked
<1>7. \A a \in Adjustments :
        adjust[a] = "read" => 0 <= seen[a] + AmountOf[a] /\ seen[a] <= granted'[UserOf[a]]
  <2> TAKE a \in Adjustments
  <2>1. UserOf[a] \in Users
    BY <1>1
  <2> QED BY <1>3, <1>5, <2>1 DEF Backed, AdjustmentBacked
<1>8. \A c \in Readers :
        reader[c] # NotCached => /\ Floor'[UserOf[c]] <= reader[c]
                                 /\ reader[c] <= granted'[UserOf[c]]
  <2> TAKE c \in Readers
  <2>1. UserOf[c] \in Users
    BY <1>1
  <2> QED BY <1>4, <1>5, <1>f, <2>1 DEF Backed, ReaderBacked
<1>9. \A u \in Users :
        freshCache[u] # NotCached => /\ Floor'[u] <= freshCache[u]
                                     /\ freshCache[u] <= granted'[u]
  BY <1>5, <1>f DEF Backed, CacheBacked
<1> QED BY <1>6, <1>7, <1>8, <1>9

(* The row is covered after either kind of UPDATE. *)
LEMMA SetBalanceBacked ==
  ASSUME RowTypeOK, BillingTypeOK, RowBacked, DebitsFinite, UNCHANGED Floor,
         NEW u \in Users, NEW old \in Int, NEW n \in Int,
         SetBalance(u, old, n), 0 <= old + n, old <= granted[u]
  PROVE  RowBacked' /\ \A v \in Users : granted[v] <= granted'[v]
<1>1. /\ granted' \in [Users -> Nat] /\ balance' \in [Users -> Int]
      /\ balance'[u] = old + n
      /\ \A v \in Users \ {u} : balance'[v] = balance[v]
      /\ \A v \in Users : granted[v] <= granted'[v]
      /\ n > 0 => granted'[u] = granted[u] + n
  BY SetBalanceEffect
<1>2. balance'[u] <= granted'[u]
  BY <1>1 DEF RowTypeOK
<1>3. \A v \in Users \ {u} : Floor[v] <= balance'[v] /\ balance'[v] <= granted'[v]
  BY <1>1 DEF RowBacked, RowTypeOK
<1>4. Floor[u] <= 0 /\ Floor[u] \in Int
  BY FloorType
<1>5. Floor[u] <= balance'[u]
  BY <1>1, <1>4
<1> QED BY <1>1, <1>2, <1>3, <1>5 DEF RowBacked

LEMMA AddBalanceBacked ==
  ASSUME RowTypeOK, BillingTypeOK, RowBacked, DebitsFinite, UNCHANGED Floor,
         NEW u \in Users, NEW n \in Nat, AddBalance(u, n)
  PROVE  RowBacked' /\ \A v \in Users : granted[v] <= granted'[v]
<1>1. /\ balance'[u] = balance[u] + n
      /\ granted'[u] = granted[u] + n
      /\ \A v \in Users \ {u} : balance'[v] = balance[v] /\ granted'[v] = granted[v]
  BY AddBalanceEffect
<1>2. \A v \in Users : Floor[v] \in Int
  BY FloorType
<1> QED BY <1>1, <1>2 DEF RowBacked, RowTypeOK

(* A negative amount of UpdateBalance lowers the floor with the balance. *)
LEMMA UncheckedBacked ==
  ASSUME RowTypeOK, BillingTypeOK, BillingTypeOK', RowBacked, DebitsFinite,
         NEW t \in TopUps, UpdateBalance(t), AmountOf[t] < 0
  PROVE  /\ RowBacked' /\ DebitsFinite'
         /\ \A v \in Users : /\ granted[v] <= granted'[v]
                             /\ Floor'[v] \in Int /\ Floor'[v] <= Floor[v]
<1> DEFINE u == UserOf[t]
<1>1. u \in Users /\ AmountOf[t] \in Int /\ Debit[t] \in Nat /\ Debit[t] = -AmountOf[t]
  BY BillingAssumption DEF Debit
<1>2. t \notin DebitsFor(u) /\ DebitsFor(u)' = DebitsFor(u) \cup {t}
  BY <1>1 DEF UpdateBalance, DebitsFor
<1>3. \A v \in Users \ {u} : DebitsFor(v)' = DebitsFor(v)
  BY DEF UpdateBalance, DebitsFor
<1>4. /\ balance'[u] = balance[u] + AmountOf[t]
      /\ granted' = granted
      /\ \A v \in Users \ {u} : balance'[v] = balance[v]
  BY <1>1, AddBalanceDebits DEF UpdateBalance
<1> HIDE DEF u
<1>5. /\ \A v \in Users : \A y \in DebitsFor(v) : Debit[y] \in Nat
      /\ \A v \in Users : UncheckedDebit(v) \in Nat /\ Floor[v] = -UncheckedDebit(v)
  BY FloorType
<1>6. /\ IsFiniteSet(DebitsFor(u) \cup {t})
      /\ SumFunctionOnSet(Debit, DebitsFor(u) \cup {t}) = UncheckedDebit(u) + Debit[t]
  BY <1>1, <1>2, <1>5, SumOfOneMore DEF DebitsFinite, UncheckedDebit
<1>7. UncheckedDebit(u)' = UncheckedDebit(u) - AmountOf[t]
  <2>1. UncheckedDebit(u)' = SumFunctionOnSet(Debit, DebitsFor(u)')
    BY DEF UncheckedDebit, Debit, u
  <2>2. UncheckedDebit(u) + Debit[t] = UncheckedDebit(u) - AmountOf[t]
    BY <1>1, <1>5
  <2> QED BY <1>2, <1>6, <2>1, <2>2
<1>8. \A v \in Users \ {u} : UncheckedDebit(v)' = UncheckedDebit(v)
  BY <1>3 DEF UncheckedDebit, Debit
<1>9. \A v \in Users : Floor'[v] = -UncheckedDebit(v)'
  BY DEF Floor
<1>10. Floor'[u] = Floor[u] + AmountOf[t] /\ \A v \in Users \ {u} : Floor'[v] = Floor[v]
  <2>1. Floor'[u] = -UncheckedDebit(u)'
    BY <1>1, <1>9 DEF u
  <2> QED BY <1>1, <1>5, <1>7, <1>8, <1>9, <2>1
<1>11. \A v \in Users : Floor[v] \in Int /\ balance[v] \in Int /\ granted[v] \in Nat
  BY <1>5 DEF RowTypeOK
<1>12. \A v \in Users : Floor'[v] \in Int /\ Floor'[v] <= Floor[v] /\ granted[v] <= granted'[v]
  BY <1>1, <1>4, <1>10, <1>11
<1>13. RowBacked'
  BY <1>1, <1>4, <1>10, <1>11 DEF RowBacked
<1>14. DebitsFinite'
  <2>1. IsFiniteSet(DebitsFor(u)')
    BY <1>2, <1>6
  <2>2. \A v \in Users \ {u} : IsFiniteSet(DebitsFor(v)')
    BY <1>3 DEF DebitsFinite
  <2>3. \A v \in Users : IsFiniteSet(DebitsFor(v)')
    BY <2>1, <2>2 DEF u
  <2> QED BY <2>3 DEF DebitsFinite
<1> QED BY <1>12, <1>13, <1>14

LEMMA BillingBackedStep ==
  ASSUME TypeInv, TypeInv', Backed, BillingNext
  PROVE  Backed'
<1> USE DEF TypeInv, TypeOK
<1>a. \A u \in Users : balance[u] \in Int /\ granted[u] \in Nat
  BY DEF RowTypeOK
<1>b. UNCHANGED granted => \A u \in Users : granted[u] <= granted'[u]
  BY <1>a
<1>c. \A x \in Requests \cup Adjustments \cup Readers : UserOf[x] \in Users
  BY BillingAssumption
<1>d. UNCHANGED toppedUp => UNCHANGED Floor /\ DebitsFinite'
  <2>1. UNCHANGED toppedUp => \A u \in Users : DebitsFor(u)' = DebitsFor(u)
    BY DEF DebitsFor
  <2> QED BY <2>1, FloorKept DEF Backed
<1>e. UNCHANGED Floor => \A u \in Users : Floor'[u] \in Int /\ Floor'[u] <= Floor[u]
  BY FloorType, <1>d DEF Backed
<1>1. ASSUME NEW r \in Requests, HandOver(r) \/ ContextEnds(r) \/ CreateRecord(r) \/ CacheDeduction(r)
      PROVE  Backed'
  BY <1>1, <1>d DEF Backed, RowBacked, DeductionBacked, AdjustmentBacked, ReaderBacked, CacheBacked,
              BillingTypeOK, HandOver, ContextEnds, CreateRecord, AfterRecord, CacheDeduction, rowVars
<1>2. ASSUME NEW r \in Requests, ReadBalance(r)
      PROVE  Backed'
  <2>1. CASE charging' = [charging EXCEPT ![r] = "done"] /\ UNCHANGED seen
    BY <1>2, <2>1, <1>d DEF Backed, RowBacked, DeductionBacked, AdjustmentBacked, ReaderBacked,
                      CacheBacked, BillingTypeOK, ReadBalance, rowVars
  <2>2. CASE /\ Affordable(balance[UserOf[r]], Cost(r))
             /\ seen' = [seen EXCEPT ![r] = balance[UserOf[r]]]
             /\ charging' = [charging EXCEPT ![r] = "read"]
    <3>1. DeductionBacked'
      <4>1. /\ Cost(r) <= balance[UserOf[r]]
            /\ balance[UserOf[r]] <= granted[UserOf[r]]
        BY <1>a, <1>c, <2>2, CostType, <1>d DEF Affordable, Backed, RowBacked
      <4>2. seen'[r] = balance[UserOf[r]]
        BY <2>2 DEF BillingTypeOK
      <4>3. \A s \in Requests \ {r} : seen'[s] = seen[s] /\ charging'[s] = charging[s]
        BY <2>2 DEF BillingTypeOK
      <4> QED BY <1>2, <4>1, <4>2, <4>3, <1>d DEF Backed, DeductionBacked, ReadBalance, rowVars
    <3>2. AdjustmentBacked'
      <4>1. \A a \in Adjustments : seen'[a] = seen[a]
        BY <2>2, BillingAssumption DEF BillingTypeOK
      <4> QED BY <1>2, <4>1, <1>d DEF Backed, AdjustmentBacked, ReadBalance, rowVars
    <3> QED BY <1>2, <3>1, <3>2, <1>d DEF Backed, RowBacked, ReaderBacked, CacheBacked, ReadBalance, rowVars
  <2> QED BY <1>2, <2>1, <2>2 DEF ReadBalance
<1>3. ASSUME NEW r \in Requests, CommitDeduction(r)
      PROVE  Backed'
  <2>1. CASE UNCHANGED <<balance, granted, spent, charges>> /\ charging' = [charging EXCEPT ![r] = "done"]
    BY <1>3, <2>1, <1>d DEF Backed, RowBacked, DeductionBacked, AdjustmentBacked, ReaderBacked,
                      CacheBacked, BillingTypeOK, CommitDeduction
  <2>2. CASE /\ SetBalance(UserOf[r], seen[r], -Cost(r))
             /\ charging' = [charging EXCEPT ![r] = "caching"]
    <3>1. seen[r] \in Int /\ -Cost(r) \in Int /\ UserOf[r] \in Users
      BY <1>c, CostType DEF BillingTypeOK
    <3>2. 0 <= seen[r] + -Cost(r) /\ seen[r] <= granted[UserOf[r]]
      BY <1>3, <3>1, CostType, <1>d DEF Backed, DeductionBacked, CommitDeduction
    <3>3. RowBacked' /\ \A u \in Users : granted[u] <= granted'[u]
      BY <1>3, <1>d, <2>2, <3>1, <3>2, SetBalanceBacked DEF Backed, CommitDeduction
    <3> QED BY <1>3, <2>2, <3>3, GrantedGrows, <1>d, <1>e
            DEF Backed, DeductionBacked, AdjustmentBacked, ReaderBacked, CacheBacked,
                BillingTypeOK, CommitDeduction
  <2> QED BY <1>3, <2>1, <2>2 DEF CommitDeduction
<1>4. ASSUME NEW a \in Adjustments, AdjustRead(a)
      PROVE  Backed'
  <2>1. CASE adjust' = [adjust EXCEPT ![a] = "refused"] /\ UNCHANGED seen
    BY <1>4, <2>1, <1>d DEF Backed, RowBacked, DeductionBacked, AdjustmentBacked, ReaderBacked,
                      CacheBacked, BillingTypeOK, AdjustRead, rowVars, usageVars
  <2>2. CASE /\ ~(balance[UserOf[a]] + AmountOf[a] < 0)
             /\ adjust' = [adjust EXCEPT ![a] = "read"]
             /\ seen' = [seen EXCEPT ![a] = balance[UserOf[a]]]
    <3>1. AdjustmentBacked'
      <4>1. AmountOf[a] \in Int /\ balance[UserOf[a]] \in Int
        BY <1>a, <1>c, BillingAssumption
      <4>2. /\ 0 <= balance[UserOf[a]] + AmountOf[a]
            /\ balance[UserOf[a]] <= granted[UserOf[a]]
        BY <1>c, <2>2, <4>1, <1>d DEF Backed, RowBacked
      <4>3. seen'[a] = balance[UserOf[a]]
        BY <2>2 DEF BillingTypeOK
      <4>4. \A b \in Adjustments \ {a} : seen'[b] = seen[b] /\ adjust'[b] = adjust[b]
        BY <2>2 DEF BillingTypeOK
      <4> QED BY <1>4, <4>2, <4>3, <4>4, <1>d DEF Backed, AdjustmentBacked, AdjustRead, rowVars
    <3>2. DeductionBacked'
      <4>1. \A r \in Requests : seen'[r] = seen[r]
        BY <2>2, BillingAssumption DEF BillingTypeOK
      <4> QED BY <1>4, <4>1, <1>d DEF Backed, DeductionBacked, AdjustRead, rowVars, usageVars
    <3> QED BY <1>4, <3>1, <3>2, <1>d DEF Backed, RowBacked, ReaderBacked, CacheBacked, AdjustRead, rowVars
  <2> QED BY <1>4, <2>1, <2>2 DEF AdjustRead
<1>5. ASSUME NEW a \in Adjustments, AdjustCommit(a)
      PROVE  Backed'
  <2>1. seen[a] \in Int /\ AmountOf[a] \in Int /\ UserOf[a] \in Users
    BY <1>c, BillingAssumption DEF BillingTypeOK
  <2>2. 0 <= seen[a] + AmountOf[a] /\ seen[a] <= granted[UserOf[a]]
    BY <1>5, <1>d DEF Backed, AdjustmentBacked, AdjustCommit
  <2>3. RowBacked' /\ \A u \in Users : granted[u] <= granted'[u]
    BY <1>5, <2>1, <2>2, SetBalanceBacked, <1>d DEF Backed, AdjustCommit
  <2> QED BY <1>5, <2>3, GrantedGrows, <1>d, <1>e
          DEF Backed, DeductionBacked, AdjustmentBacked, ReaderBacked, CacheBacked,
              BillingTypeOK, AdjustCommit, usageVars
<1>6. ASSUME NEW t \in TopUps, UpdateBalance(t)
      PROVE  Backed'
  <2>1. UserOf[t] \in Users /\ AmountOf[t] \in Int
    BY BillingAssumption
  <2>2. /\ RowBacked' /\ DebitsFinite'
        /\ \A u \in Users : /\ granted[u] <= granted'[u]
                            /\ Floor'[u] \in Int /\ Floor'[u] <= Floor[u]
    <3>1. CASE AmountOf[t] < 0
      BY <1>6, <3>1, UncheckedBacked DEF Backed
    <3>2. CASE AmountOf[t] \in Nat
      <4>1. \A u \in Users : DebitsFor(u)' = DebitsFor(u)
        BY <1>6, <3>2 DEF UpdateBalance, DebitsFor
      <4>2. UNCHANGED Floor /\ DebitsFinite'
        BY <4>1, FloorKept DEF Backed
      <4>3. RowBacked' /\ \A u \in Users : granted[u] <= granted'[u]
        BY <1>6, <2>1, <3>2, <4>2, AddBalanceBacked DEF Backed, UpdateBalance
      <4> QED BY <1>e, <4>2, <4>3
    <3> QED BY <2>1, <3>1, <3>2
  <2>3. /\ UNCHANGED <<charging, seen, adjust, reader>>
        /\ \A u \in Users : freshCache'[u] # NotCached => freshCache'[u] = freshCache[u]
    BY <1>6, <2>1 DEF UpdateBalance, usageVars, RowTypeOK
  <2>4. CacheBacked'
    BY <2>2, <2>3, GrantedGrows DEF CacheBacked
  <2>5. DeductionBacked' /\ AdjustmentBacked' /\ ReaderBacked'
    BY <2>2, <2>3, GrantedGrows DEF DeductionBacked, AdjustmentBacked, ReaderBacked
  <2> QED BY <2>2, <2>4, <2>5 DEF Backed
<1>7. ASSUME NEW c \in Readers, CheckBalanceMiss(c)
      PROVE  Backed'
  <2>1. Floor[UserOf[c]] <= balance[UserOf[c]] /\ balance[UserOf[c]] <= granted[UserOf[c]]
    BY <1>c, <1>d DEF Backed, RowBacked
  <2> QED BY <1>7, <2>1, <1>d
          DEF Backed, RowBacked, DeductionBacked, AdjustmentBacked, ReaderBacked, CacheBacked,
              BillingTypeOK, CheckBalanceMiss, rowVars, usageVars
<1>8. ASSUME NEW c \in Readers, CheckBalanceStore(c)
      PROVE  Backed'
  <2>1. Floor[UserOf[c]] <= reader[c] /\ reader[c] <= granted[UserOf[c]]
    BY <1>8, <1>d DEF Backed, ReaderBacked, CheckBalanceStore
  <2> QED BY <1>8, <1>c, <2>1, <1>d
          DEF Backed, RowBacked, DeductionBacked, AdjustmentBacked, ReaderBacked, CacheBacked,
              RowTypeOK, BillingTypeOK, CheckBalanceStore, usageVars
<1>9. ASSUME NEW u \in Users, CacheExpires(u)
      PROVE  Backed'
  BY <1>9, <1>d DEF Backed, RowBacked, DeductionBacked, AdjustmentBacked, ReaderBacked, CacheBacked,
              RowTypeOK, CacheExpires, usageVars
<1> QED BY <1>1, <1>2, <1>3, <1>4, <1>5, <1>6, <1>7, <1>8, <1>9 DEF BillingNext, RecordUsage

(* Redemptions and transfers only add to the row. *)
LEMMA CreditBackedStep ==
  ASSUME TypeInv, TypeInv', Backed, UNCHANGED <<billingVars, freshCache>>,
         \/ UNCHANGED rowVars
         \/ \E u \in Users, n \in Nat : AddBalance(u, n)
  PROVE  Backed'
<1> USE DEF TypeInv, TypeOK
<1>1. UNCHANGED Floor /\ DebitsFinite'
  <2>1. \A u \in Users : DebitsFor(u)' = DebitsFor(u)
    BY DEF DebitsFor, billingVars
  <2> QED BY <2>1, FloorKept DEF Backed
<1>2. CASE UNCHANGED rowVars
  BY <1>1, <1>2 DEF Backed, RowBacked, DeductionBacked, AdjustmentBacked, ReaderBacked, CacheBacked,
                    rowVars, billingVars, usageVars
<1>3. CASE \E u \in Users, n \in Nat : AddBalance(u, n)
  <2>1. RowBacked' /\ \A u \in Users : granted[u] <= granted'[u]
    BY <1>1, <1>3, AddBalanceBacked DEF Backed
  <2>2. \A u \in Users : Floor'[u] \in Int /\ Floor'[u] <= Floor[u]
    BY <1>1, FloorType DEF Backed
  <2> QED BY <1>1, <2>1, <2>2, GrantedGrows
          DEF Backed, DeductionBacked, AdjustmentBacked, ReaderBacked, CacheBacked,
              billingVars, usageVars
<1> QED BY <1>2, <1>3

LEMMA CodesCredit ==
  ASSUME CodesNext
  PROVE  /\ UNCHANGED freshCache
         /\ \/ UNCHANGED rowVars
            \/ \E u \in Users, n \in Nat : AddBalance(u, n)
<1>1. ASSUME NEW k \in Redemptions, RedeemCommit(k)
      PROVE  /\ UNCHANGED freshCache
             /\ \/ UNCHANGED rowVars
                \/ \E u \in Users, n \in Nat : AddBalance(u, n)
  <2>1. Redeemer[k] \in Users /\ Value[CodeOf[k]] \in Nat
    BY RedeemAssumption
  <2> QED BY <1>1, <2>1 DEF RedeemCommit, rowVars
<1> QED BY <1>1 DEF CodesNext, Redeem, GenerateCodes, ExpiryPasses, ValidateCode, MarkExpired,
                    DisableCheck, DisableUpdate, rowVars

LEMMA AffiliateCredit ==
  ASSUME TransfersPositive, AffiliateNext
  PROVE  /\ UNCHANGED freshCache
         /\ \/ UNCHANGED rowVars
            \/ \E u \in Users, n \in Nat : AddBalance(u, n)
<1>1. ASSUME NEW w \in Transfers, CommitTransfer(w)
      PROVE  /\ UNCHANGED freshCache
             /\ \/ UNCHANGED rowVars
                \/ \E u \in Users, n \in Nat : AddBalance(u, n)
  <2>1. Caller[w] \in Users /\ Amount[w] \in Nat
    BY <1>1, AffiliateAssumption DEF TransfersPositive, Calls, CommitTransfer
  <2> QED BY <1>1, <2>1 DEF CommitTransfer, rowVars
<1> QED BY <1>1 DEF AffiliateNext, Fail, LookupCode, SaveCode, FindInviter, LinkInvitee, CountInvite,
                    FindRebate, CreateRebateRecord, CreditRebate, CheckTransfer, rowVars

LEMMA BackedStep == TypeInv /\ TypeInv' /\ Backed /\ [Next]_vars => Backed'
<1> SUFFICES ASSUME TypeInv, TypeInv', Backed, [Next]_vars
             PROVE  Backed'
  OBVIOUS
<1>1. CASE BillingNext /\ UNCHANGED <<codeVars, affiliateVars>>
  BY <1>1, BillingBackedStep
<1>2. CASE CodesNext /\ UNCHANGED <<billingVars, affiliateVars>>
  BY <1>2, CodesCredit, CreditBackedStep
<1>3. CASE AffiliateNext /\ UNCHANGED <<billingVars, codeVars>>
  BY <1>3, AffiliateCredit, CreditBackedStep DEF TypeInv
<1>4. CASE UNCHANGED vars
  BY <1>4, CreditBackedStep DEF vars, rowVars
<1> QED BY <1>1, <1>2, <1>3, <1>4 DEF Next

LEMMA SpecBacked == Spec => [](TypeInv /\ Backed)
<1>1. Init => TypeInv /\ Backed
  BY TypeInit, BackedInit
<1>2. TypeInv /\ Backed /\ [Next]_vars => (TypeInv /\ Backed)'
  BY TypeStep, BackedStep
<1> QED BY <1>1, <1>2, PTL DEF Spec

(* No charge, adjustment, redemption or transfer, interleaved in any way   *)
(* and with any failures, takes a balance below what the unchecked debits  *)
(* of UpdateBalance alone took.                                            *)
THEOREM WalletNeverOverdrawn == Spec => []NeverOverdrawn
<1>1. TypeInv /\ Backed => NeverOverdrawn
  BY FloorType DEF Backed, RowBacked, NeverOverdrawn, TypeInv, TypeOK
<1> QED BY <1>1, SpecBacked, PTL

(* The lost updates of DeductBalance and AdjustBalance never leave a user  *)
(* with more than was ever credited.                                       *)
THEOREM WalletNoMoneyFromNothing == Spec => []NoMoneyFromNothing
<1>1. Backed => NoMoneyFromNothing
  BY DEF Backed, RowBacked, NoMoneyFromNothing
<1> QED BY <1>1, SpecBacked, PTL

(* What CheckBalance caches was the balance once, so it is covered too,    *)
(* however late a slow reader stores it.                                   *)
THEOREM WalletCacheBacked == Spec => []CachedBalanceBacked
<1>1. TypeInv /\ Backed => CachedBalanceBacked
  <2> SUFFICES ASSUME TypeInv, Backed, NEW u \in Users, freshCache[u] # NotCached
               PROVE  freshCache[u] \in -UncheckedDebit(u) .. granted[u]
    BY DEF CachedBalanceBacked
  <2>1. Floor[u] = -UncheckedDebit(u) /\ Floor[u] \in Int
    BY FloorType DEF Backed, TypeInv, TypeOK
  <2>2. Floor[u] <= freshCache[u] /\ freshCache[u] <= granted[u]
    BY DEF Backed, CacheBacked
  <2>3. freshCache[u] \in Int /\ granted[u] \in Int
    BY DEF TypeInv, TypeOK, RowTypeOK
  <2> QED BY <2>1, <2>2, <2>3
<1> QED BY <1>1, SpecBacked, PTL
-------------------------------------------------------------------------------
(* The unique index makes the request ids of the records distinct, and a   *)
(* request is charged after its record was made and before its goroutine   *)
(* has left the transaction.                                               *)
DistinctIDs ==
  \A x, y \in records : RequestIDOf[x] = RequestIDOf[y] => x = y
ChargeFollowsRecord ==
  \A r \in Requests :
    /\ charges[r] <= 1
    /\ charges[r] > 0 => r \in records /\ charging[r] \in {"caching", "done"}
    /\ charging[r] \in {"deducting", "read"} => r \in records

LEMMA ChargedInit == Init => DistinctIDs /\ ChargeFollowsRecord
BY DEF Init, BillingInit, DistinctIDs, ChargeFollowsRecord

LEMMA ChargedBillingStep ==
  ASSUME TypeInv, DistinctIDs, ChargeFollowsRecord, BillingNext
  PROVE  DistinctIDs' /\ ChargeFollowsRecord'
<1> USE DEF TypeInv, TypeOK, BillingTypeOK, ChargeFollowsRecord
<1>1. ASSUME UNCHANGED usageVars
      PROVE  DistinctIDs' /\ ChargeFollowsRecord'
  BY <1>1 DEF DistinctIDs, usageVars
<1>2. ASSUME NEW r \in Requests, HandOver(r) \/ ContextEnds(r)
      PROVE  DistinctIDs' /\ ChargeFollowsRecord'
  BY <1>2 DEF DistinctIDs, HandOver, ContextEnds
<1>3. ASSUME NEW r \in Requests, CreateRecord(r)
      PROVE  DistinctIDs' /\ ChargeFollowsRecord'
  <2>1. CASE /\ ~IDTaken(r)
             /\ records' = records \cup {r}
             /\ charging' = [charging EXCEPT ![r] = AfterRecord(r)]
             /\ charges' = charges
    <3>1. DistinctIDs'
      BY <2>1 DEF DistinctIDs, IDTaken
    <3>2. charges[r] = 0
      BY <1>3 DEF CreateRecord
    <3>3. ChargeFollowsRecord'
      BY <2>1, <3>2
    <3> QED BY <3>1, <3>3
  <2>2. CASE /\ charging' = [charging EXCEPT ![r] = "done"]
             /\ UNCHANGED <<records, charges>>
    BY <2>2 DEF DistinctIDs
  <2> QED BY <1>3, <2>1, <2>2 DEF CreateRecord
<1>4. ASSUME NEW r \in Requests, ReadBalance(r)
      PROVE  DistinctIDs' /\ ChargeFollowsRecord'
  BY <1>4 DEF DistinctIDs, ReadBalance
<1>5. ASSUME NEW r \in Requests, CommitDeduction(r)
      PROVE  DistinctIDs' /\ ChargeFollowsRecord'
  <2>1. charges[r] = 0 /\ r \in records /\ records' = records
    BY <1>5 DEF CommitDeduction
  <2>2. CASE charges' = [charges EXCEPT ![r] = @ + 1] /\ charging' = [charging EXCEPT ![r] = "caching"]
    BY <2>1, <2>2 DEF DistinctIDs
  <2>3. CASE charging' = [charging EXCEPT ![r] = "done"] /\ UNCHANGED charges
    BY <2>1, <2>3 DEF DistinctIDs
  <2> QED BY <1>5, <2>2, <2>3 DEF CommitDeduction
<1>6. ASSUME NEW r \in Requests, CacheDeduction(r)
      PROVE  DistinctIDs' /\ ChargeFollowsRecord'
  BY <1>6 DEF DistinctIDs, CacheDeduction
<1> QED BY <1>1, <1>2, <1>3, <1>4, <1>5, <1>6
        DEF BillingNext, RecordUsage, AdjustRead, AdjustCommit, UpdateBalance,
            CheckBalanceMiss, CheckBalanceStore, CacheExpires

LEMMA ChargedStep ==
  TypeInv /\ DistinctIDs /\ ChargeFollowsRecord /\ [Next]_vars
    => DistinctIDs' /\ ChargeFollowsRecord'
<1>1. ASSUME DistinctIDs, ChargeFollowsRecord, UNCHANGED usageVars
      PROVE  DistinctIDs' /\ ChargeFollowsRecord'
  BY <1>1 DEF DistinctIDs, ChargeFollowsRecord, usageVars
<1> QED BY <1>1, ChargedBillingStep DEF Next, vars, billingVars

(* However the client repeats a request id and however the two goroutines  *)
(* interleave, at most one of them charges, and only after its record.     *)
THEOREM WalletChargedOncePerID == Spec => []ChargedOncePerID
<1>1. Spec => [](TypeInv /\ DistinctIDs /\ ChargeFollowsRecord)
  BY TypeInit, TypeStep, ChargedInit, ChargedStep, PTL DEF Spec
<1>2. DistinctIDs /\ ChargeFollowsRecord => ChargedOncePerID
  BY DEF DistinctIDs, ChargeFollowsRecord, ChargedOncePerID
<1> QED BY <1>1, <1>2, PTL
-------------------------------------------------------------------------------
(* A call that finds its code over, or is refused, stays that way: the     *)
(* writes by id replace one status a code is not redeemed in by another.   *)
StopsHere(k) ==
  \/ redeem[k] = "idle" /\ Over(CodeOf[k])
  \/ redeem[k] \in {"overdue", "refused"}

LEMMA OverStays ==
  ASSUME CodesTypeOK, CodesNext, NEW c \in Codes, Over(c)
  PROVE  Over(c)'
<1> USE DEF CodesTypeOK, Over
<1>1. CASE GenerateCodes
  BY <1>1 DEF GenerateCodes
<1>2. ASSUME NEW d \in Codes, ExpiryPasses(d)
      PROVE  Over(c)'
  BY <1>2 DEF ExpiryPasses
<1>3. ASSUME NEW k \in Redemptions, Redeem(k)
      PROVE  Over(c)'
  BY <1>3 DEF Redeem, ValidateCode, MarkExpired, RedeemCommit
<1>4. ASSUME NEW d \in Disablings, DisableCheck(d) \/ DisableUpdate(d)
      PROVE  Over(c)'
  BY <1>4 DEF DisableCheck, DisableUpdate
<1> QED BY <1>1, <1>2, <1>3, <1>4 DEF CodesNext

LEMMA StoppedStays ==
  ASSUME NEW k \in Redemptions, TypeInv, StopsHere(k), [Next]_vars
  PROVE  StopsHere(k)'
<1> DEFINE c == CodeOf[k]
<1>a. /\ c \in Codes
      /\ CodesTypeOK
      /\ redeem \in [Redemptions -> RedeemPCs]
  BY RedeemAssumption DEF TypeInv, TypeOK, CodesTypeOK
<1>1. CASE UNCHANGED codeVars
  BY <1>1 DEF StopsHere, Over, codeVars
<1>2. CASE CodesNext
  <2>1. Over(c) => Over(c)'
    BY <1>2, <1>a, OverStays
  <2>2. ASSUME redeem'[k] = redeem[k]
        PROVE  StopsHere(k)'
    BY <2>1, <2>2 DEF StopsHere
  <2>3. CASE ValidateCode(k)
    BY <1>a, <2>3 DEF ValidateCode, StopsHere, Over
  <2>4. CASE MarkExpired(k) \/ RedeemCommit(k)
    BY <1>a, <2>4 DEF MarkExpired, RedeemCommit, StopsHere
  <2>5. ASSUME NEW l \in Redemptions \ {k}, Redeem(l)
        PROVE  redeem'[k] = redeem[k]
    BY <1>a, <2>5 DEF Redeem, ValidateCode, MarkExpired, RedeemCommit
  <2> QED BY <1>2, <2>2, <2>3, <2>4, <2>5
          DEF CodesNext, Redeem, GenerateCodes, ExpiryPasses, DisableCheck, DisableUpdate
<1> QED BY <1>1, <1>2 DEF Next, vars

(* However the checks and the writes by id of redemptions, markings and    *)
(* disablings interleave, a redemption that begins once its code is used,  *)
(* disabled, expired or past its date is not paid.                         *)
THEOREM WalletLateCallsRefused == Spec => LateCallsRefused
<1> SUFFICES ASSUME NEW k \in Redemptions
             PROVE  Spec => [](redeem[k] = "idle" /\ Over(CodeOf[k]) => [](redeem[k] # "done"))
  BY DEF LateCallsRefused
<1>1. TypeInv /\ StopsHere(k) /\ [Next]_vars => StopsHere(k)'
  BY StoppedStays
<1>2. Spec => []TypeInv
  BY TypeInit, TypeStep, PTL DEF Spec
<1>3. redeem[k] = "idle" /\ Over(CodeOf[k]) => StopsHere(k)
  BY DEF StopsHere
<1>4. StopsHere(k) => redeem[k] # "done"
  BY DEF StopsHere
<1> QED BY <1>1, <1>2, <1>3, <1>4, PTL DEF Spec
-------------------------------------------------------------------------------
(* A rebate that was recorded and not yet credited covers what a later     *)
(* credit adds: the records are ahead of the earnings by at least these.   *)
RebateAmount == [x \in Invitations \cup Recharges |-> RebateOf(x)]
Owed(u)      == {x \in Invitations \cup Recharges :
                   affiliatePc[x] = "crediting" /\ payee[x] = u}
BalanceIsEarnedLessWithdrawn == \A u \in Users : affBalance[u] = earnings[u] - withdrawn[u]
RecordsCoverOwed ==
  \A u \in Users : /\ IsFiniteSet(Owed(u))
                   /\ earnings[u] + SumFunctionOnSet(RebateAmount, Owed(u)) <= recorded[u]

RebatesInv == BalanceIsEarnedLessWithdrawn /\ RecordsCoverOwed

LEMMA RebateTypes ==
  /\ \A x \in Invitations \cup Recharges : RebateAmount[x] = RebateOf(x) /\ RebateOf(x) \in Nat
  /\ \A u : Owed(u) \subseteq Invitations \cup Recharges
BY AffiliateAssumption DEF RebateAmount, RebateOf, Owed

LEMMA RebatesInit == Init => RebatesInv
<1> SUFFICES ASSUME Init PROVE RebatesInv
  OBVIOUS
<1>1. BalanceIsEarnedLessWithdrawn
  <2>1. \A u \in Users : affBalance[u] = 0 /\ earnings[u] = 0 /\ withdrawn[u] = 0
    BY DEF Init, AffiliateInit
  <2>2. \A x, y, z : x = 0 /\ y = 0 /\ z = 0 => x = y - z
    OBVIOUS
  <2> QED BY <2>1, <2>2 DEF BalanceIsEarnedLessWithdrawn
<1>2. ASSUME NEW u \in Users
      PROVE  IsFiniteSet(Owed(u)) /\ earnings[u] + SumFunctionOnSet(RebateAmount, Owed(u)) <= recorded[u]
  <2>1. Owed(u) = {}
    BY DEF Init, AffiliateInit, Owed, Calls
  <2>2. earnings[u] = 0 /\ recorded[u] = 0
    BY DEF Init, AffiliateInit
  <2> QED BY <2>1, <2>2, SumOfNone, FS_EmptySet
<1> QED BY <1>1, <1>2 DEF RebatesInv, RecordsCoverOwed

(* A step that neither pays a rebate nor touches a call about to pay one.  *)
LEMMA OwedUnchanged ==
  ASSUME RebatesInv, UNCHANGED <<affBalance, earnings, recorded, withdrawn>>,
         \A u \in Users : Owed(u)' = Owed(u)
  PROVE  RebatesInv'
BY DEF RebatesInv, BalanceIsEarnedLessWithdrawn, RecordsCoverOwed

LEMMA RebatesAffiliateStep ==
  ASSUME TypeInv, RebatesInv, AffiliateNext
  PROVE  RebatesInv'
<1> USE DEF Goto
<1>a. /\ affBalance \in [Users -> Int] /\ earnings \in [Users -> Nat]
      /\ recorded \in [Users -> Nat] /\ withdrawn \in [Users -> Nat]
      /\ affiliatePc \in [Calls -> AffiliatePCs]
      /\ payee \in [Calls -> Users \cup {NoUser}]
  BY DEF TypeInv, TypeOK, AffiliateTypeOK
<1>b. Invitations \cup Recharges \subseteq Calls /\ CodeRequests \subseteq Calls /\ Transfers \subseteq Calls
  BY DEF Calls
<1>c. \A u \in Users : /\ IsFiniteSet(Owed(u)) /\ \A y \in Owed(u) : RebateAmount[y] \in Nat
                       /\ earnings[u] + SumFunctionOnSet(RebateAmount, Owed(u)) <= recorded[u]
                       /\ affBalance[u] = earnings[u] - withdrawn[u]
  BY RebateTypes DEF RebatesInv, RecordsCoverOwed, BalanceIsEarnedLessWithdrawn
<1>1. ASSUME NEW x \in Calls, Fail(x)
      PROVE  RebatesInv'
  <2>1. UNCHANGED <<affBalance, earnings, recorded, withdrawn, payee>>
    BY <1>1 DEF Fail, moneyVars
  <2>2. \A u \in Users : Owed(u)' = Owed(u) \ {x}
    BY <1>a, <1>b, <1>1, <2>1 DEF Fail, Owed
  <2>3. ASSUME NEW u \in Users
        PROVE  /\ IsFiniteSet(Owed(u)')
               /\ earnings[u] + SumFunctionOnSet(RebateAmount, Owed(u)') <= recorded[u]
    <3>1. CASE x \in Owed(u)
      <4>1. /\ IsFiniteSet(Owed(u) \ {x})
            /\ SumFunctionOnSet(RebateAmount, Owed(u) \ {x}) \in Nat
            /\ SumFunctionOnSet(RebateAmount, Owed(u))
               = SumFunctionOnSet(RebateAmount, Owed(u) \ {x}) + RebateAmount[x]
        BY <1>c, <3>1, SumOfOneLess
      <4>2. RebateAmount[x] \in Nat /\ earnings[u] \in Nat /\ recorded[u] \in Nat
        BY <1>a, <1>c, <3>1
      <4>3. earnings[u] + SumFunctionOnSet(RebateAmount, Owed(u) \ {x}) <= recorded[u]
        BY <1>c, <4>1, <4>2
      <4> QED BY <2>2, <4>1, <4>3
    <3>2. CASE x \notin Owed(u)
      <4>1. Owed(u)' = Owed(u)
        BY <2>2, <3>2
      <4> QED BY <1>c, <4>1
    <3> QED BY <3>1, <3>2
  <2> QED BY <1>c, <2>1, <2>3 DEF RebatesInv, BalanceIsEarnedLessWithdrawn, RecordsCoverOwed, RebateAmount, RebateOf
<1>2. ASSUME NEW g \in CodeRequests, LookupCode(g) \/ SaveCode(g)
      PROVE  RebatesInv'
  <2>1. \A u \in Users : Owed(u)' = Owed(u)
    BY <1>a, <1>b, <1>2 DEF LookupCode, SaveCode, Owed
  <2> QED BY <1>2, <2>1, OwedUnchanged DEF LookupCode, SaveCode, moneyVars
<1>3. ASSUME NEW i \in Invitations, FindInviter(i) \/ LinkInvitee(i) \/ CountInvite(i)
      PROVE  RebatesInv'
  <2>1. CASE FindInviter(i)
    <3>1. affiliatePc[i] = "idle" /\ affiliatePc'[i] \in {"done", "linking"}
      BY <1>a, <1>b, <2>1 DEF FindInviter
    <3>2. \A y \in Calls \ {i} : affiliatePc'[y] = affiliatePc[y] /\ payee'[y] = payee[y]
      BY <1>a, <2>1 DEF FindInviter
    <3>3. \A u \in Users : Owed(u)' = Owed(u)
      BY <1>b, <3>1, <3>2 DEF Owed
    <3> QED BY <2>1, <3>3, OwedUnchanged DEF FindInviter, moneyVars
  <2>2. CASE LinkInvitee(i) \/ CountInvite(i)
    <3>1. \A u \in Users : Owed(u)' = Owed(u)
      BY <1>a, <1>b, <2>2 DEF LinkInvitee, CountInvite, Owed
    <3> QED BY <2>2, <3>1, OwedUnchanged DEF LinkInvitee, CountInvite, moneyVars
  <2> QED BY <1>3, <2>1, <2>2
<1>4. ASSUME NEW p \in Recharges, FindRebate(p)
      PROVE  RebatesInv'
  <2>1. \A u \in Users : Owed(u)' = Owed(u)
    BY <1>a, <1>b, <1>4 DEF FindRebate, Owed
  <2> QED BY <1>4, <2>1, OwedUnchanged DEF FindRebate, moneyVars
<1>5. ASSUME NEW x \in Invitations \cup Recharges, CreateRebateRecord(x)
      PROVE  RebatesInv'
  <2>1. UNCHANGED <<affBalance, earnings, withdrawn, payee>>
    BY <1>5 DEF CreateRebateRecord
  <2>2. /\ recorded' = [recorded EXCEPT ![payee[x]] = @ + RebateOf(x)]
        /\ affiliatePc[x] = "recording" /\ affiliatePc' = [affiliatePc EXCEPT ![x] = "crediting"]
    BY <1>5 DEF CreateRebateRecord
  <2>3. ASSUME NEW u \in Users
        PROVE  /\ IsFiniteSet(Owed(u)')
               /\ earnings[u] + SumFunctionOnSet(RebateAmount, Owed(u)') <= recorded'[u]
    <3>1. CASE payee[x] = u
      <4>1. x \notin Owed(u) /\ Owed(u)' = Owed(u) \cup {x}
        BY <1>a, <1>b, <2>1, <2>2, <3>1 DEF Owed
      <4>2. RebateAmount[x] \in Nat /\ earnings[u] \in Nat /\ recorded[u] \in Nat
        BY <1>a, RebateTypes
      <4>3. /\ IsFiniteSet(Owed(u) \cup {x})
            /\ SumFunctionOnSet(RebateAmount, Owed(u)) \in Nat
            /\ SumFunctionOnSet(RebateAmount, Owed(u) \cup {x})
               = SumFunctionOnSet(RebateAmount, Owed(u)) + RebateAmount[x]
        BY <1>c, <4>1, <4>2, SumOfOneMore
      <4>4. recorded'[u] = recorded[u] + RebateAmount[x]
        BY <1>a, <2>2, <3>1, RebateTypes
      <4>5. earnings[u] + SumFunctionOnSet(RebateAmount, Owed(u) \cup {x}) <= recorded'[u]
        BY <1>c, <4>2, <4>3, <4>4
      <4> QED BY <4>1, <4>3, <4>5
    <3>2. CASE payee[x] # u
      <4>1. Owed(u)' = Owed(u)
        BY <1>a, <1>b, <2>1, <2>2, <3>2 DEF Owed
      <4>2. recorded'[u] = recorded[u]
        BY <1>a, <2>2, <3>2
      <4> QED BY <1>c, <4>1, <4>2
    <3> QED BY <3>1, <3>2
  <2> QED BY <1>c, <2>1, <2>3 DEF RebatesInv, BalanceIsEarnedLessWithdrawn, RecordsCoverOwed, RebateAmount, RebateOf
<1>6. ASSUME NEW x \in Invitations \cup Recharges, CreditRebate(x)
      PROVE  RebatesInv'
  <2>1. UNCHANGED <<recorded, withdrawn, payee>>
    BY <1>6 DEF CreditRebate
  <2>2. /\ affBalance' = [affBalance EXCEPT ![payee[x]] = @ + RebateOf(x)]
        /\ earnings' = [earnings EXCEPT ![payee[x]] = @ + RebateOf(x)]
        /\ affiliatePc[x] = "crediting" /\ affiliatePc' = [affiliatePc EXCEPT ![x] = "done"]
    BY <1>6 DEF CreditRebate
  <2>3. ASSUME NEW u \in Users
        PROVE  /\ IsFiniteSet(Owed(u)')
               /\ earnings'[u] + SumFunctionOnSet(RebateAmount, Owed(u)') <= recorded[u]
               /\ affBalance'[u] = earnings'[u] - withdrawn[u]
    <3>1. CASE payee[x] = u
      <4>1. x \in Owed(u) /\ Owed(u)' = Owed(u) \ {x}
        BY <1>a, <1>b, <2>1, <2>2, <3>1 DEF Owed
      <4>2. /\ RebateAmount[x] \in Nat /\ earnings[u] \in Nat /\ recorded[u] \in Nat
            /\ affBalance[u] \in Int /\ withdrawn[u] \in Nat
        BY <1>a, RebateTypes
      <4>3. /\ IsFiniteSet(Owed(u) \ {x})
            /\ SumFunctionOnSet(RebateAmount, Owed(u) \ {x}) \in Nat
            /\ SumFunctionOnSet(RebateAmount, Owed(u))
               = SumFunctionOnSet(RebateAmount, Owed(u) \ {x}) + RebateAmount[x]
        BY <1>c, <4>1, SumOfOneLess
      <4>4. /\ earnings'[u] = earnings[u] + RebateAmount[x]
            /\ affBalance'[u] = affBalance[u] + RebateAmount[x]
        BY <1>a, <2>2, <3>1, RebateTypes
      <4>5. earnings'[u] + SumFunctionOnSet(RebateAmount, Owed(u) \ {x}) <= recorded[u]
        BY <1>c, <4>2, <4>3, <4>4
      <4>6. affBalance'[u] = earnings'[u] - withdrawn[u]
        BY <1>c, <4>2, <4>4
      <4> QED BY <4>1, <4>3, <4>5, <4>6
    <3>2. CASE payee[x] # u
      <4>1. Owed(u)' = Owed(u)
        BY <1>a, <1>b, <2>1, <2>2, <3>2 DEF Owed
      <4>2. earnings'[u] = earnings[u] /\ affBalance'[u] = affBalance[u]
        BY <1>a, <2>2, <3>2
      <4> QED BY <1>c, <4>1, <4>2
    <3> QED BY <3>1, <3>2
  <2> QED BY <2>1, <2>3 DEF RebatesInv, BalanceIsEarnedLessWithdrawn, RecordsCoverOwed, RebateAmount, RebateOf
<1>7. ASSUME NEW w \in Transfers, CheckTransfer(w)
      PROVE  RebatesInv'
  <2>1. affiliatePc[w] = "idle" /\ affiliatePc'[w] \in {"transferring", "done"} /\ payee' = payee
    BY <1>a, <1>b, <1>7 DEF CheckTransfer
  <2>2. \A y \in Calls \ {w} : affiliatePc'[y] = affiliatePc[y]
    BY <1>a, <1>7 DEF CheckTransfer
  <2>3. \A u \in Users : Owed(u)' = Owed(u)
    BY <1>b, <2>1, <2>2 DEF Owed
  <2> QED BY <1>7, <2>3, OwedUnchanged DEF CheckTransfer, moneyVars
<1>8. ASSUME NEW w \in Transfers, CommitTransfer(w)
      PROVE  RebatesInv'
  <2>1. /\ UNCHANGED <<earnings, recorded, payee>>
        /\ affBalance' = [affBalance EXCEPT ![Caller[w]] = @ - Amount[w]]
        /\ withdrawn' = [withdrawn EXCEPT ![Caller[w]] = @ + Amount[w]]
        /\ affiliatePc[w] = "transferring" /\ affiliatePc' = [affiliatePc EXCEPT ![w] = "done"]
    BY <1>8 DEF CommitTransfer
  <2>2. \A u \in Users : Owed(u)' = Owed(u)
    BY <1>a, <1>b, <2>1 DEF Owed
  <2>3. Amount[w] \in Int /\ Caller[w] \in Users
    BY <1>b, AffiliateAssumption
  <2>4. \A u \in Users : affBalance'[u] = earnings[u] - withdrawn'[u]
    <3> TAKE u \in Users
    <3>1. affBalance[u] \in Int /\ earnings[u] \in Nat /\ withdrawn[u] \in Nat
      BY <1>a
    <3>2. CASE u = Caller[w]
      <4>1. affBalance'[u] = affBalance[u] - Amount[w] /\ withdrawn'[u] = withdrawn[u] + Amount[w]
        BY <1>a, <2>1, <3>2
      <4> QED BY <1>c, <2>3, <3>1, <4>1
    <3>3. CASE u # Caller[w]
      <4>1. affBalance'[u] = affBalance[u] /\ withdrawn'[u] = withdrawn[u]
        BY <1>a, <2>1, <3>3
      <4> QED BY <1>c, <4>1
    <3> QED BY <3>2, <3>3
  <2> QED BY <1>c, <2>1, <2>2, <2>4 DEF RebatesInv, BalanceIsEarnedLessWithdrawn, RecordsCoverOwed
<1> QED BY <1>1, <1>2, <1>3, <1>4, <1>5, <1>6, <1>7, <1>8 DEF AffiliateNext

LEMMA RebatesStep == TypeInv /\ RebatesInv /\ [Next]_vars => RebatesInv'
<1> SUFFICES ASSUME TypeInv, RebatesInv, [Next]_vars
             PROVE  RebatesInv'
  OBVIOUS
<1>1. CASE AffiliateNext
  BY <1>1, RebatesAffiliateStep
<1>2. CASE UNCHANGED affiliateVars
  <2>1. \A u \in Users : Owed(u)' = Owed(u)
    BY <1>2 DEF Owed, affiliateVars
  <2> QED BY <1>2, <2>1, OwedUnchanged DEF affiliateVars, moneyVars
<1> QED BY <1>1, <1>2 DEF Next, vars

(* Wherever a call stops, what is left of the earnings plus what was       *)
(* withdrawn is what was earned, and every rebate earned has its record.   *)
THEOREM WalletEarningsAccountedFor == Spec => []EarningsAccountedFor
<1>1. Spec => [](TypeInv /\ RebatesInv)
  BY TypeInit, TypeStep, RebatesInit, RebatesStep, PTL DEF Spec
<1>2. TypeInv /\ RebatesInv => EarningsAccountedFor
  <2> SUFFICES ASSUME TypeInv, RebatesInv, NEW u \in Users
               PROVE  affBalance[u] = earnings[u] - withdrawn[u] /\ earnings[u] <= recorded[u]
    BY DEF EarningsAccountedFor
  <2>1. IsFiniteSet(Owed(u)) /\ \A y \in Owed(u) : RebateAmount[y] \in Nat
    BY RebateTypes DEF RebatesInv, RecordsCoverOwed
  <2>2. SumFunctionOnSet(RebateAmount, Owed(u)) \in Nat
    BY <2>1, SumCountsUnits, UnitsFinite, FS_CardinalityType
  <2>3. earnings[u] \in Nat /\ recorded[u] \in Nat
    BY DEF TypeInv, TypeOK, AffiliateTypeOK
  <2> QED BY <2>2, <2>3 DEF RebatesInv, RecordsCoverOwed, BalanceIsEarnedLessWithdrawn
<1> QED BY <1>1, <1>2, PTL
-------------------------------------------------------------------------------
(* The sums of CreditsAreSourced are over finite sets: each step adds one  *)
(* payment at most.                                                        *)
FiniteSources ==
  \A u \in Users :
    IsFiniteSet(RedeemedBy(u)) /\ IsFiniteSet(ToppedUpFor(u)) /\ IsFiniteSet(RaisesOf(u))

SourcedInv == FiniteSources /\ CreditsAreSourced

LEMMA SourceTypes ==
  ASSUME TypeInv
  PROVE  /\ \A k \in Redemptions : CodeValue[k] = Value[CodeOf[k]] /\ CodeValue[k] \in Nat
         /\ \A u : \A k \in RedeemedBy(u) : CodeValue[k] \in Nat
         /\ \A u : \A t \in ToppedUpFor(u) : AmountOf[t] \in Nat
         /\ \A u : \A a \in RaisesOf(u) : AmountOf[a] \in Nat
         /\ \A u \in Users : /\ granted[u] \in Nat /\ withdrawn[u] \in Nat
                             /\ InitialBalance[u] \in Nat
<1>1. \A k \in Redemptions : CodeValue[k] = Value[CodeOf[k]] /\ CodeValue[k] \in Nat
  BY RedeemAssumption DEF CodeValue
<1>2. \A u : \A t \in ToppedUpFor(u) : AmountOf[t] \in Nat
  BY BillingAssumption DEF ToppedUpFor, TypeInv, TypeOK, BillingTypeOK
<1>3. \A u : \A a \in RaisesOf(u) : AmountOf[a] \in Nat
  BY BillingAssumption DEF RaisesOf
<1>4. \A u \in Users : granted[u] \in Nat /\ withdrawn[u] \in Nat /\ InitialBalance[u] \in Nat
  BY UserRowAssumption DEF TypeInv, TypeOK, RowTypeOK, AffiliateTypeOK
<1> QED BY <1>1, <1>2, <1>3, <1>4 DEF RedeemedBy

LEMMA SourceSums ==
  ASSUME TypeInv, FiniteSources, NEW u \in Users
  PROVE  /\ SumFunctionOnSet(CodeValue, RedeemedBy(u)) \in Nat
         /\ SumFunctionOnSet(AmountOf, ToppedUpFor(u)) \in Nat
         /\ SumFunctionOnSet(AmountOf, RaisesOf(u)) \in Nat
<1>1. ASSUME NEW f, NEW S, IsFiniteSet(S), \A x \in S : f[x] \in Nat
      PROVE  SumFunctionOnSet(f, S) \in Nat
  BY <1>1, SumCountsUnits, UnitsFinite, FS_CardinalityType
<1> QED BY <1>1, SourceTypes DEF FiniteSources

LEMMA SourcedInit == Init => SourcedInv
<1> SUFFICES ASSUME Init, NEW u \in Users
             PROVE  /\ IsFiniteSet(RedeemedBy(u)) /\ IsFiniteSet(ToppedUpFor(u))
                    /\ IsFiniteSet(RaisesOf(u))
                    /\ granted[u] = InitialBalance[u] + withdrawn[u]
                         + SumFunctionOnSet(CodeValue, RedeemedBy(u))
                         + SumFunctionOnSet(AmountOf, ToppedUpFor(u))
                         + SumFunctionOnSet(AmountOf, RaisesOf(u))
  BY DEF SourcedInv, FiniteSources, CreditsAreSourced
<1>1. RedeemedBy(u) = {} /\ ToppedUpFor(u) = {} /\ RaisesOf(u) = {}
  BY DEF Init, BillingInit, CodesInit, RedeemedBy, ToppedUpFor, RaisesOf
<1>2. granted[u] = InitialBalance[u] /\ withdrawn[u] = 0 /\ InitialBalance[u] \in Nat
  BY UserRowAssumption DEF Init, RowInit, AffiliateInit
<1> QED BY <1>1, <1>2, SumOfNone, FS_EmptySet

(* A step that credits nobody and ends no payment. *)
LEMMA SourcesUnchanged ==
  ASSUME SourcedInv, UNCHANGED <<granted, withdrawn>>,
         \A u \in Users : /\ RedeemedBy(u)' = RedeemedBy(u)
                         /\ ToppedUpFor(u)' = ToppedUpFor(u)
                         /\ RaisesOf(u)' = RaisesOf(u)
  PROVE  SourcedInv'
BY DEF SourcedInv, FiniteSources, CreditsAreSourced, CodeValue

(* A step that credits user u with n and ends the payment x that pays it,  *)
(* or adds n to what u has withdrawn.                                      *)
LEMMA SourceGained ==
  ASSUME TypeInv, SourcedInv, NEW u \in Users, NEW n \in Nat, NEW x,
         granted'[u] = granted[u] + n,
         \A v \in Users \ {u} : /\ granted'[v] = granted[v]
                               /\ withdrawn'[v] = withdrawn[v]
                               /\ RedeemedBy(v)' = RedeemedBy(v)
                               /\ ToppedUpFor(v)' = ToppedUpFor(v)
                               /\ RaisesOf(v)' = RaisesOf(v),
         \/ /\ withdrawn'[u] = withdrawn[u]
            /\ x \notin RedeemedBy(u) /\ CodeValue[x] = n
            /\ RedeemedBy(u)' = RedeemedBy(u) \cup {x}
            /\ ToppedUpFor(u)' = ToppedUpFor(u) /\ RaisesOf(u)' = RaisesOf(u)
         \/ /\ withdrawn'[u] = withdrawn[u]
            /\ x \notin ToppedUpFor(u) /\ AmountOf[x] = n
            /\ ToppedUpFor(u)' = ToppedUpFor(u) \cup {x}
            /\ RedeemedBy(u)' = RedeemedBy(u) /\ RaisesOf(u)' = RaisesOf(u)
         \/ /\ withdrawn'[u] = withdrawn[u]
            /\ x \notin RaisesOf(u) /\ AmountOf[x] = n
            /\ RaisesOf(u)' = RaisesOf(u) \cup {x}
            /\ RedeemedBy(u)' = RedeemedBy(u) /\ ToppedUpFor(u)' = ToppedUpFor(u)
         \/ /\ withdrawn'[u] = withdrawn[u] + n
            /\ RedeemedBy(u)' = RedeemedBy(u) /\ ToppedUpFor(u)' = ToppedUpFor(u)
            /\ RaisesOf(u)' = RaisesOf(u)
  PROVE  SourcedInv'
<1> DEFINE Redeemed(S) == SumFunctionOnSet(CodeValue, S)
           Amounts(S)  == SumFunctionOnSet(AmountOf, S)
           Fine(v) == /\ IsFiniteSet(RedeemedBy(v)') /\ IsFiniteSet(ToppedUpFor(v)')
                      /\ IsFiniteSet(RaisesOf(v)')
                      /\ granted'[v] = InitialBalance[v] + withdrawn'[v] + Redeemed(RedeemedBy(v)')
                           + Amounts(ToppedUpFor(v)') + Amounts(RaisesOf(v)')
<1>1. /\ IsFiniteSet(RedeemedBy(u)) /\ \A k \in RedeemedBy(u) : CodeValue[k] \in Nat
      /\ IsFiniteSet(ToppedUpFor(u)) /\ \A t \in ToppedUpFor(u) : AmountOf[t] \in Nat
      /\ IsFiniteSet(RaisesOf(u)) /\ \A a \in RaisesOf(u) : AmountOf[a] \in Nat
  BY SourceTypes DEF SourcedInv, FiniteSources
<1>2. /\ granted[u] = InitialBalance[u] + withdrawn[u] + Redeemed(RedeemedBy(u))
                        + Amounts(ToppedUpFor(u)) + Amounts(RaisesOf(u))
      /\ granted[u] \in Nat /\ withdrawn[u] \in Nat /\ InitialBalance[u] \in Nat
      /\ Redeemed(RedeemedBy(u)) \in Nat
      /\ Amounts(ToppedUpFor(u)) \in Nat /\ Amounts(RaisesOf(u)) \in Nat
  BY SourceTypes, SourceSums DEF SourcedInv, CreditsAreSourced
<1>3. ASSUME /\ withdrawn'[u] = withdrawn[u]
             /\ x \notin RedeemedBy(u) /\ CodeValue[x] = n
             /\ RedeemedBy(u)' = RedeemedBy(u) \cup {x}
             /\ ToppedUpFor(u)' = ToppedUpFor(u) /\ RaisesOf(u)' = RaisesOf(u)
      PROVE  Fine(u)
  <2>1. IsFiniteSet(RedeemedBy(u) \cup {x})
        /\ Redeemed(RedeemedBy(u) \cup {x}) = Redeemed(RedeemedBy(u)) + n
    BY <1>1, <1>3, SumOfOneMore
  <2> HIDE DEF Redeemed, Amounts
  <2> QED BY <1>1, <1>2, <1>3, <2>1
<1>4. ASSUME /\ withdrawn'[u] = withdrawn[u]
             /\ x \notin ToppedUpFor(u) /\ AmountOf[x] = n
             /\ ToppedUpFor(u)' = ToppedUpFor(u) \cup {x}
             /\ RedeemedBy(u)' = RedeemedBy(u) /\ RaisesOf(u)' = RaisesOf(u)
      PROVE  Fine(u)
  <2>1. /\ IsFiniteSet(ToppedUpFor(u)) /\ \A y \in ToppedUpFor(u) : AmountOf[y] \in Nat
        /\ x \notin ToppedUpFor(u) /\ AmountOf[x] \in Nat /\ AmountOf[x] = n
    BY <1>1, <1>4
  <2>2. IsFiniteSet(ToppedUpFor(u) \cup {x})
        /\ Amounts(ToppedUpFor(u) \cup {x}) = Amounts(ToppedUpFor(u)) + n
    BY <2>1, SumOfOneMore
  <2> HIDE DEF Redeemed, Amounts
  <2> QED BY <1>1, <1>2, <1>4, <2>2
<1>5. ASSUME /\ withdrawn'[u] = withdrawn[u]
             /\ x \notin RaisesOf(u) /\ AmountOf[x] = n
             /\ RaisesOf(u)' = RaisesOf(u) \cup {x}
             /\ RedeemedBy(u)' = RedeemedBy(u) /\ ToppedUpFor(u)' = ToppedUpFor(u)
      PROVE  Fine(u)
  <2>1. /\ IsFiniteSet(RaisesOf(u)) /\ \A y \in RaisesOf(u) : AmountOf[y] \in Nat
        /\ x \notin RaisesOf(u) /\ AmountOf[x] \in Nat /\ AmountOf[x] = n
    BY <1>1, <1>5
  <2>2. IsFiniteSet(RaisesOf(u) \cup {x})
        /\ Amounts(RaisesOf(u) \cup {x}) = Amounts(RaisesOf(u)) + n
    BY <2>1, SumOfOneMore
  <2> HIDE DEF Redeemed, Amounts
  <2> QED BY <1>1, <1>2, <1>5, <2>2
<1>6. ASSUME /\ withdrawn'[u] = withdrawn[u] + n
             /\ RedeemedBy(u)' = RedeemedBy(u) /\ ToppedUpFor(u)' = ToppedUpFor(u)
             /\ RaisesOf(u)' = RaisesOf(u)
      PROVE  Fine(u)
  <2> HIDE DEF Redeemed, Amounts
  <2> QED BY <1>1, <1>2, <1>6
<1>7. Fine(u)
  <2> HIDE DEF Fine
  <2> QED BY <1>3, <1>4, <1>5, <1>6
<1>8. \A v \in Users \ {u} : Fine(v)
  BY DEF SourcedInv, FiniteSources, CreditsAreSourced
<1>9. \A v \in Users : Fine(v)
  BY <1>7, <1>8
<1> QED BY <1>9 DEF SourcedInv, FiniteSources, CreditsAreSourced, CodeValue

(* What SetBalance does to the credits: a debit is none. *)
LEMMA SetBalanceCredits ==
  ASSUME RowTypeOK, NEW u \in Users, NEW old \in Int, NEW n \in Int, SetBalance(u, old, n)
  PROVE  /\ n <= 0 => granted' = granted
         /\ n > 0 => /\ granted'[u] = granted[u] + n
                     /\ \A v \in Users \ {u} : granted'[v] = granted[v]
BY DEF RowTypeOK, SetBalance, Account

LEMMA SourcedBillingStep ==
  ASSUME TypeInv, SourcedInv, BillingNext, UNCHANGED <<codeVars, affiliateVars>>
  PROVE  SourcedInv'
<1> USE DEF TypeInv, TypeOK
<1>a. /\ \A u \in Users : RedeemedBy(u)' = RedeemedBy(u)
      /\ UNCHANGED withdrawn
  BY DEF RedeemedBy, codeVars, affiliateVars, moneyVars
<1>b. adjust \in [Adjustments -> AdjustPCs] /\ seen \in [Requests \cup Adjustments -> Int]
  BY DEF BillingTypeOK
<1>1. ASSUME UNCHANGED <<granted, adjust, toppedUp>>
      PROVE  SourcedInv'
  <2>1. \A u \in Users : ToppedUpFor(u)' = ToppedUpFor(u) /\ RaisesOf(u)' = RaisesOf(u)
    BY <1>1 DEF ToppedUpFor, RaisesOf
  <2> QED BY <1>1, <1>a, <2>1, SourcesUnchanged
<1>2. ASSUME NEW r \in Requests, CommitDeduction(r)
      PROVE  SourcedInv'
  <2>1. UserOf[r] \in Users /\ seen[r] \in Int /\ -Cost(r) \in Int /\ -Cost(r) <= 0
    BY <1>b, CostType, BillingAssumption
  <2>2. granted' = granted
    BY <1>2, <2>1, SetBalanceCredits DEF CommitDeduction
  <2> QED BY <1>1, <1>2, <2>2 DEF CommitDeduction
<1>3. ASSUME NEW a \in Adjustments, AdjustRead(a)
      PROVE  SourcedInv'
  <2>1. adjust[a] = "idle" /\ adjust'[a] # "committed"
    BY <1>b, <1>3 DEF AdjustRead
  <2>2. \A b \in Adjustments \ {a} : adjust'[b] = adjust[b]
    BY <1>b, <1>3 DEF AdjustRead
  <2>3. \A u \in Users : ToppedUpFor(u)' = ToppedUpFor(u) /\ RaisesOf(u)' = RaisesOf(u)
    BY <1>3, <2>1, <2>2 DEF AdjustRead, ToppedUpFor, RaisesOf
  <2> QED BY <1>a, <1>3, <2>3, SourcesUnchanged DEF AdjustRead, rowVars
<1>4. ASSUME NEW a \in Adjustments, AdjustCommit(a)
      PROVE  SourcedInv'
  <2>1. UserOf[a] \in Users /\ seen[a] \in Int /\ AmountOf[a] \in Int
    BY <1>b, BillingAssumption
  <2>2. /\ adjust[a] = "read" /\ adjust' = [adjust EXCEPT ![a] = "committed"]
        /\ SetBalance(UserOf[a], seen[a], AmountOf[a])
        /\ UNCHANGED toppedUp
    BY <1>4 DEF AdjustCommit
  <2>3. \A u \in Users : ToppedUpFor(u)' = ToppedUpFor(u)
    BY <2>2 DEF ToppedUpFor
  <2>4. CASE AmountOf[a] <= 0
    <3>1. granted' = granted
      BY <2>1, <2>2, <2>4, SetBalanceCredits
    <3>2. \A u \in Users : RaisesOf(u)' = RaisesOf(u)
      BY <1>b, <2>1, <2>2, <2>4 DEF RaisesOf
    <3> QED BY <1>a, <2>3, <3>1, <3>2, SourcesUnchanged
  <2>5. CASE AmountOf[a] > 0
    <3>1. /\ granted'[UserOf[a]] = granted[UserOf[a]] + AmountOf[a]
          /\ \A v \in Users \ {UserOf[a]} : granted'[v] = granted[v]
      BY <2>1, <2>2, <2>5, SetBalanceCredits
    <3>2. \A v \in Users \ {UserOf[a]} : RaisesOf(v)' = RaisesOf(v)
      BY <1>b, <2>2 DEF RaisesOf
    <3>3. a \notin RaisesOf(UserOf[a]) /\ RaisesOf(UserOf[a])' = RaisesOf(UserOf[a]) \cup {a}
      BY <1>b, <2>2, <2>5 DEF RaisesOf
    <3>4. AmountOf[a] \in Nat
      BY <2>1, <2>5
    <3> QED BY <1>a, <2>1, <2>3, <3>1, <3>2, <3>3, <3>4, SourceGained
  <2> QED BY <2>1, <2>4, <2>5
<1>5. ASSUME NEW t \in TopUps, UpdateBalance(t)
      PROVE  SourcedInv'
  <2>1. UserOf[t] \in Users /\ AmountOf[t] \in Int
    BY BillingAssumption
  <2>2. \A u \in Users : RaisesOf(u)' = RaisesOf(u)
    BY <1>5 DEF UpdateBalance, RaisesOf
  <2>3. CASE AmountOf[t] <= 0
    <3>1. granted' = granted
      BY <1>5, <2>1, <2>3 DEF UpdateBalance, AddBalance, Account
    <3>2. \A v \in Users : ToppedUpFor(v)' = ToppedUpFor(v)
      BY <1>5, <2>1, <2>3 DEF UpdateBalance, ToppedUpFor
    <3> QED BY <1>a, <2>2, <3>1, <3>2, SourcesUnchanged
  <2>4. CASE AmountOf[t] > 0
    <3>1. /\ granted'[UserOf[t]] = granted[UserOf[t]] + AmountOf[t]
          /\ \A v \in Users \ {UserOf[t]} : granted'[v] = granted[v]
          /\ AmountOf[t] \in Nat
      BY <1>5, <2>1, <2>4, AddBalanceEffect DEF UpdateBalance
    <3>2. \A v \in Users \ {UserOf[t]} : ToppedUpFor(v)' = ToppedUpFor(v)
      BY <1>5 DEF UpdateBalance, ToppedUpFor
    <3>3. /\ t \notin ToppedUpFor(UserOf[t])
          /\ ToppedUpFor(UserOf[t])' = ToppedUpFor(UserOf[t]) \cup {t}
      BY <1>5, <2>4 DEF UpdateBalance, ToppedUpFor
    <3> QED BY <1>a, <2>1, <2>2, <3>1, <3>2, <3>3, SourceGained
  <2> QED BY <2>1, <2>3, <2>4
<1> QED BY <1>1, <1>2, <1>3, <1>4, <1>5
        DEF BillingNext, RecordUsage, HandOver, ContextEnds, CreateRecord, ReadBalance,
            CacheDeduction, CheckBalanceMiss, CheckBalanceStore, CacheExpires, rowVars

LEMMA SourcedCodesStep ==
  ASSUME TypeInv, SourcedInv, CodesNext, UNCHANGED <<billingVars, affiliateVars>>
  PROVE  SourcedInv'
<1> USE DEF TypeInv, TypeOK
<1>a. /\ \A u \in Users : ToppedUpFor(u)' = ToppedUpFor(u) /\ RaisesOf(u)' = RaisesOf(u)
      /\ UNCHANGED withdrawn
  BY DEF ToppedUpFor, RaisesOf, billingVars, affiliateVars, moneyVars
<1>b. redeem \in [Redemptions -> RedeemPCs]
  BY DEF CodesTypeOK
<1>1. ASSUME UNCHANGED <<granted, redeem>>
      PROVE  SourcedInv'
  <2>1. \A u \in Users : RedeemedBy(u)' = RedeemedBy(u)
    BY <1>1 DEF RedeemedBy
  <2> QED BY <1>1, <1>a, <2>1, SourcesUnchanged
<1>2. ASSUME NEW k \in Redemptions, redeem[k] # "done", UNCHANGED granted,
             NEW l, l # "done", redeem' = [redeem EXCEPT ![k] = l]
      PROVE  SourcedInv'
  <2>1. \A u \in Users : RedeemedBy(u)' = RedeemedBy(u)
    BY <1>b, <1>2 DEF RedeemedBy
  <2> QED BY <1>2, <1>a, <2>1, SourcesUnchanged
<1>3. ASSUME NEW k \in Redemptions, ValidateCode(k) \/ MarkExpired(k)
      PROVE  SourcedInv'
  <2>1. CASE ValidateCode(k)
    <3> DEFINE verdict == CASE code[CodeOf[k]] # "unused" -> "refused"
                            [] CodeOf[k] \in past          -> "overdue"
                            [] OTHER                       -> "validated"
    <3>1. redeem' = [redeem EXCEPT ![k] = verdict]
      BY <2>1 DEF ValidateCode
    <3>2. verdict # "done"
      OBVIOUS
    <3> HIDE DEF verdict
    <3> QED BY <1>2, <2>1, <3>1, <3>2 DEF ValidateCode, rowVars
  <2>2. CASE MarkExpired(k)
    BY <1>2, <2>2 DEF MarkExpired, rowVars
  <2> QED BY <1>3, <2>1, <2>2
<1>4. ASSUME NEW k \in Redemptions, RedeemCommit(k)
      PROVE  SourcedInv'
  <2>1. redeem[k] = "validated"
    BY <1>4 DEF RedeemCommit
  <2>2. CASE redeem' = [redeem EXCEPT ![k] = "refused"] /\ UNCHANGED granted
    BY <1>2, <2>1, <2>2
  <2>3. CASE AddBalance(Redeemer[k], Value[CodeOf[k]]) /\ redeem' = [redeem EXCEPT ![k] = "done"]
    <3>1. /\ Redeemer[k] \in Users /\ CodeValue[k] = Value[CodeOf[k]]
          /\ Value[CodeOf[k]] \in Nat
      BY SourceTypes, RedeemAssumption
    <3>2. /\ granted'[Redeemer[k]] = granted[Redeemer[k]] + Value[CodeOf[k]]
          /\ \A v \in Users \ {Redeemer[k]} : granted'[v] = granted[v]
      BY <2>3, <3>1, AddBalanceEffect
    <3>3. \A v \in Users \ {Redeemer[k]} : RedeemedBy(v)' = RedeemedBy(v)
      BY <1>b, <2>3 DEF RedeemedBy
    <3>4. /\ k \notin RedeemedBy(Redeemer[k])
          /\ RedeemedBy(Redeemer[k])' = RedeemedBy(Redeemer[k]) \cup {k}
      BY <1>b, <2>1, <2>3 DEF RedeemedBy
    <3> QED BY <1>a, <3>1, <3>2, <3>3, <3>4, SourceGained
  <2> QED BY <1>4, <2>2, <2>3 DEF RedeemCommit
<1> QED BY <1>1, <1>3, <1>4
        DEF CodesNext, Redeem, GenerateCodes, ExpiryPasses, DisableCheck, DisableUpdate, rowVars

LEMMA SourcedAffiliateStep ==
  ASSUME TypeInv, SourcedInv, AffiliateNext, UNCHANGED <<billingVars, codeVars>>
  PROVE  SourcedInv'
<1> USE DEF TypeInv, TypeOK
<1>a. \A u \in Users : /\ RedeemedBy(u)' = RedeemedBy(u)
                       /\ ToppedUpFor(u)' = ToppedUpFor(u)
                       /\ RaisesOf(u)' = RaisesOf(u)
  BY DEF RedeemedBy, ToppedUpFor, RaisesOf, billingVars, codeVars
<1>1. ASSUME UNCHANGED <<granted, withdrawn>>
      PROVE  SourcedInv'
  BY <1>1, <1>a, SourcesUnchanged
<1>2. ASSUME NEW w \in Transfers, CommitTransfer(w)
      PROVE  SourcedInv'
  <2>1. Caller[w] \in Users /\ Amount[w] \in Nat
    BY <1>2, AffiliateAssumption DEF TransfersPositive, Calls, CommitTransfer
  <2>2. /\ granted'[Caller[w]] = granted[Caller[w]] + Amount[w]
        /\ \A v \in Users \ {Caller[w]} : granted'[v] = granted[v]
    BY <1>2, <2>1, AddBalanceEffect DEF CommitTransfer
  <2>3. /\ withdrawn'[Caller[w]] = withdrawn[Caller[w]] + Amount[w]
        /\ \A v \in Users \ {Caller[w]} : withdrawn'[v] = withdrawn[v]
    BY <1>2, <2>1 DEF CommitTransfer, AffiliateTypeOK
  <2> QED BY <1>a, <2>1, <2>2, <2>3, SourceGained
<1> QED BY <1>1, <1>2
        DEF AffiliateNext, Fail, LookupCode, SaveCode, FindInviter, LinkInvitee, CountInvite,
            FindRebate, CreateRebateRecord, CreditRebate, CheckTransfer, rowVars, moneyVars

LEMMA SourcedStep == TypeInv /\ SourcedInv /\ [Next]_vars => SourcedInv'
<1> SUFFICES ASSUME TypeInv, SourcedInv, UNCHANGED vars
             PROVE  SourcedInv'
  BY SourcedBillingStep, SourcedCodesStep, SourcedAffiliateStep DEF Next
<1>1. \A u \in Users : /\ RedeemedBy(u)' = RedeemedBy(u)
                       /\ ToppedUpFor(u)' = ToppedUpFor(u)
                       /\ RaisesOf(u)' = RaisesOf(u)
  BY DEF RedeemedBy, ToppedUpFor, RaisesOf, vars, billingVars, codeVars
<1> QED BY <1>1, SourcesUnchanged DEF vars, rowVars, affiliateVars, moneyVars

(* Every credit a user ever got is in the records of the codes, transfers, *)
(* top-ups and adjustments, with its amount and once.                      *)
THEOREM WalletCreditsAreSourced == Spec => []CreditsAreSourced
<1>1. Spec => [](TypeInv /\ SourcedInv)
  BY TypeInit, TypeStep, SourcedInit, SourcedStep, PTL DEF Spec
<1>2. SourcedInv => CreditsAreSourced
  BY DEF SourcedInv
<1> QED BY <1>1, <1>2, PTL
===============================================================================
