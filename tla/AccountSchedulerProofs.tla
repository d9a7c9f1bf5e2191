------------------------ MODULE AccountSchedulerProofs ------------------------
(***************************************************************************)
(* Proofs about AccountScheduler, for any accounts, any finite set of      *)
(* requests, any limits and any faults: the types, and that the Redis      *)
(* concurrency counter stays within the faults' reach of the number of     *)
(* requests in flight.                                                     *)
(***************************************************************************)
EXTENDS AccountScheduler, FiniteSetTheorems, TLAPS

(* The load GetAccountLoad returns is a pair of counters. *)
LEMMA LoadType ==
  ASSUME TypeOK, NEW a \in Accounts, NEW blind
  PROVE  Load(a, blind) \in Loads
<1>1. FreshLoad(a, blind) \in Loads
  BY DEF FreshLoad, Loads, TypeOK
<1>2. loadCache[a] \in Loads \cup {NoLoad}
  BY DEF TypeOK
<1> QED BY <1>1, <1>2 DEF Load

LEMMA LoadsReadType ==
  ASSUME TypeOK, NEW read, NEW blind
  PROVE  LoadsRead(read, blind) \in [Accounts -> Loads \cup {NoLoad}]
<1>1. \A a \in Accounts : /\ Load(a, blind) \in Loads
                          /\ loadCache[a] \in Loads \cup {NoLoad}
  BY LoadType DEF TypeOK
<1> QED BY <1>1 DEF LoadsRead

LEMMA ReadableType ==
  ASSUME NEW r, NEW read \in Readable(r)
  PROVE  read \subseteq Accounts
BY DEF Readable, Available

LEMMA PreferredType ==
  ASSUME NEW S, NEW t, NEW a \in Preferred(S, t)
  PROVE  a \in S
BY DEF Preferred

LEMMA RecordErrorType ==
  ASSUME TypeOK, NEW r \in Requests, acct[r] \in Accounts, RecordError(r)
  PROVE  errs' \in [Accounts -> Nat] /\ unsched' \subseteq Accounts
BY DEF TypeOK, RecordError

TypeInv == TypeOK /\ PlacedBeforeCall

LEMMA TypeInit == Init => TypeInv
BY SchedulerAssumption DEF Init, TypeInv, TypeOK, PlacedBeforeCall, Statuses, PCs, Outcomes

LEMMA TypeStep == TypeInv /\ [Next]_vars => TypeInv'
<1> SUFFICES ASSUME TypeInv, [Next]_vars
             PROVE  TypeInv'
  OBVIOUS
<1> USE DEF TypeInv, PlacedBeforeCall
<1>1. ASSUME NEW r \in Requests, Arrive(r)
      PROVE  TypeInv'
  BY <1>1 DEF TypeOK, PCs, Arrive, accountVars
<1>2. ASSUME NEW r \in Requests, LookupSticky(r)
      PROVE  TypeInv'
  <2>1. SessionOf(r) \in Sessions \cup {NoSession}
    BY DEF TypeOK, SessionOf, Calls
  <2>2. CASE StickyHit(r) /\ acct' = [acct EXCEPT ![r] = sticky[SessionOf(r)]]
    <3>1. sticky[SessionOf(r)] \in Accounts
      BY <2>1, <2>2 DEF TypeOK, StickyHit
    <3> QED BY <1>2, <2>2, <3>1 DEF TypeOK, PCs, LookupSticky, accountVars
  <2>3. CASE pc' = [pc EXCEPT ![r] = "choosing"] /\ UNCHANGED acct
    BY <1>2, <2>3 DEF TypeOK, PCs, LookupSticky, accountVars
  <2> QED BY <1>2, <2>2, <2>3 DEF LookupSticky
<1>3. ASSUME NEW r \in Requests, Choose(r)
      PROVE  TypeInv'
  <2>1. PICK read \in Readable(r) : \E blind \in Blind(read) :
          /\ loadCache' = LoadsRead(read, blind)
          /\ \E a \in Preferred({b \in read : UnderLimits(Load(b, blind))}, call[r].tier) :
               /\ acct' = [acct EXCEPT ![r] = a]
               /\ \/ SessionOf(r) # NoSession /\ sticky' = [sticky EXCEPT ![SessionOf(r)] = a]
                  \/ UNCHANGED sticky
    BY <1>3 DEF Choose
  <2>2. PICK blind \in Blind(read) :
          /\ loadCache' = LoadsRead(read, blind)
          /\ \E a \in Preferred({b \in read : UnderLimits(Load(b, blind))}, call[r].tier) :
               /\ acct' = [acct EXCEPT ![r] = a]
               /\ \/ SessionOf(r) # NoSession /\ sticky' = [sticky EXCEPT ![SessionOf(r)] = a]
                  \/ UNCHANGED sticky
    BY <2>1
  <2>3. PICK a \in Preferred({b \in read : UnderLimits(Load(b, blind))}, call[r].tier) :
          /\ acct' = [acct EXCEPT ![r] = a]
          /\ \/ SessionOf(r) # NoSession /\ sticky' = [sticky EXCEPT ![SessionOf(r)] = a]
             \/ UNCHANGED sticky
    BY <2>2
  <2>4. a \in Accounts
    BY <2>3, ReadableType, PreferredType
  <2>5. loadCache' \in [Accounts -> Loads \cup {NoLoad}]
    BY <2>2, LoadsReadType
  <2> QED BY <1>3, <2>3, <2>4, <2>5 DEF TypeOK, PCs, Choose
<1>4. ASSUME NEW r \in Requests, ChooseFails(r)
      PROVE  TypeInv'
  <2>1. loadCache' \in [Accounts -> Loads \cup {NoLoad}]
    BY <1>4, LoadsReadType DEF ChooseFails, TypeOK
  <2> QED BY <1>4, <2>1 DEF TypeOK, PCs, ChooseFails
<1>5. ASSUME NEW r \in Requests, IncrementConcurrency(r)
      PROVE  TypeInv'
  BY <1>5 DEF TypeOK, PCs, IncrementConcurrency
<1>6. ASSUME NEW r \in Requests, IncrementFails(r)
      PROVE  TypeInv'
  BY <1>6 DEF TypeOK, PCs, IncrementFails
<1>7. ASSUME NEW r \in Requests, CallUncounted(r)
      PROVE  TypeInv'
  BY <1>7 DEF TypeOK, PCs, CallUncounted, accountVars
<1>8. ASSUME NEW r \in Requests, UpstreamFails(r)
      PROVE  TypeInv'
  <2>1. errs' \in [Accounts -> Nat] /\ unsched' \subseteq Accounts
    BY <1>8, RecordErrorType DEF UpstreamFails, TypeOK
  <2> QED BY <1>8, <2>1 DEF TypeOK, PCs, Outcomes, UpstreamFails, AfterCall
<1>9. ASSUME NEW r \in Requests, AnswerBroken(r)
      PROVE  TypeInv'
  BY <1>9 DEF TypeOK, PCs, Outcomes, AnswerBroken, AfterCall, accountVars
<1>10. ASSUME NEW r \in Requests, AnswerComplete(r)
       PROVE  TypeInv'
  BY <1>10 DEF TypeOK, PCs, Outcomes, AnswerComplete, AfterCall, accountVars
<1>11. ASSUME NEW r \in Requests, DecrementConcurrency(r)
       PROVE  TypeInv'
  BY <1>11 DEF TypeOK, PCs, DecrementConcurrency
<1>12. ASSUME NEW r \in Requests, Cancel(r)
       PROVE  TypeInv'
  BY <1>12 DEF TypeOK, Cancel, accountVars
<1>13. ASSUME NEW a \in Accounts, AccountStep(a)
       PROVE  TypeInv'
  <2>1. ASSUME NEW new \in AdminStatuses, UpdateAccountStatus(a, new)
        PROVE  TypeInv'
    <3>1. new \in Statuses
      BY SchedulerAssumption
    <3> QED BY <2>1, <3>1 DEF TypeOK, UpdateAccountStatus, requestVars
  <2>2. CASE MarkExpires(a)
    BY <2>2 DEF TypeOK, MarkExpires, requestVars
  <2>3. CASE LoadExpires(a)
    BY <2>3 DEF TypeOK, LoadExpires, requestVars
  <2> QED BY <1>13, <2>1, <2>2, <2>3 DEF AccountStep
<1>14. ASSUME NEW s \in Sessions, StickyExpires(s)
       PROVE  TypeInv'
  BY <1>14 DEF TypeOK, StickyExpires, accountVars, requestVars
<1>15. CASE NextMinute \/ NextDay
  BY <1>15 DEF TypeOK, NextMinute, NextDay, requestVars
<1>16. CASE Crash
  BY <1>16 DEF TypeOK, PCs, Crash, InProgress
<1>17. CASE UNCHANGED vars
  BY <1>17 DEF TypeOK, vars, accountVars, requestVars
<1> QED
  BY <1>1, <1>2, <1>3, <1>4, <1>5, <1>6, <1>7, <1>8, <1>9, <1>10, <1>11, <1>12, <1>13,
     <1>14, <1>15, <1>16, <1>17 DEF Next, RequestStep

(* Every variable keeps its type, and no call is made without an account. *)
THEOREM SchedulerTypeCorrect == Spec => []TypeOK
<1>1. Spec => []TypeInv
  BY TypeInit, TypeStep, PTL DEF Spec
<1>2. TypeInv => TypeOK
  BY DEF TypeInv
<1> QED BY <1>1, <1>2, PTL
-------------------------------------------------------------------------------
(* The requests an account's counter is compared with are finite sets. *)
LEMMA SetsFinite ==
  ASSUME NEW a \in Accounts
  PROVE  /\ IsFiniteSet(Holders(a)) /\ Cardinality(Holders(a)) \in Nat
         /\ IsFiniteSet(Unincremented(a)) /\ Cardinality(Unincremented(a)) \in Nat
         /\ IsFiniteSet(Unreleased(a)) /\ Cardinality(Unreleased(a)) \in Nat
<1>1. Holders(a) \subseteq Requests /\ Unincremented(a) \subseteq Requests
      /\ Unreleased(a) \subseteq Requests
  BY DEF Holders, Unincremented, Unreleased
<1> QED BY <1>1, SchedulerAssumption, FS_Subset, FS_CardinalityType

(* The same sets one step later. *)
LEMMA SetsFinitePrime ==
  ASSUME NEW a \in Accounts
  PROVE  /\ IsFiniteSet(Holders(a)') /\ Cardinality(Holders(a)') \in Nat
         /\ IsFiniteSet(Unincremented(a)') /\ Cardinality(Unincremented(a)') \in Nat
         /\ IsFiniteSet(Unreleased(a)') /\ Cardinality(Unreleased(a)') \in Nat
<1>1. Holders(a)' \subseteq Requests /\ Unincremented(a)' \subseteq Requests
      /\ Unreleased(a)' \subseteq Requests
  BY DEF Holders, Unincremented, Unreleased
<1> QED BY <1>1, SchedulerAssumption, FS_Subset, FS_CardinalityType

Bracket(a) ==
  /\ conc[a] >= Cardinality(Holders(a)) - Cardinality(Unincremented(a))
  /\ conc[a] <= Cardinality(Holders(a)) + Cardinality(Unreleased(a))

(* A step that leaves the counter and the holders alone, and takes no one  *)
(* out of the two sets of faulty requests, keeps the bracket.              *)
LEMMA BracketFrame ==
  ASSUME NEW a \in Accounts, conc[a] \in Int, Bracket(a), conc'[a] = conc[a],
         Holders(a)' = Holders(a), Unincremented(a) \subseteq Unincremented(a)',
         Unreleased(a) \subseteq Unreleased(a)'
  PROVE  Bracket(a)'
<1>1. /\ Cardinality(Unincremented(a)) <= Cardinality(Unincremented(a)')
      /\ Cardinality(Unreleased(a)) <= Cardinality(Unreleased(a)')
  BY SetsFinitePrime, FS_Subset
<1> QED BY <1>1, SetsFinite, SetsFinitePrime DEF Bracket

(* A request r that becomes a holder: with its INCR applied, or marked as  *)
(* a request whose INCR failed.                                            *)
LEMMA BracketTake ==
  ASSUME NEW a \in Accounts, NEW r \in Requests, conc[a] \in Int, Bracket(a),
         r \notin Holders(a), Holders(a)' = Holders(a) \cup {r},
         Unreleased(a)' = Unreleased(a),
         \/ conc'[a] = conc[a] + 1 /\ Unincremented(a)' = Unincremented(a)
         \/ /\ conc'[a] \in {conc[a], conc[a] + 1}
            /\ r \notin Unincremented(a)
            /\ Unincremented(a)' = Unincremented(a) \cup {r}
  PROVE  Bracket(a)'
<1>1. Cardinality(Holders(a)') = Cardinality(Holders(a)) + 1
  BY SetsFinite, FS_AddElement
<1>2. CASE conc'[a] = conc[a] + 1 /\ Unincremented(a)' = Unincremented(a)
  BY <1>1, <1>2, SetsFinite DEF Bracket
<1>3. CASE /\ conc'[a] \in {conc[a], conc[a] + 1}
           /\ r \notin Unincremented(a)
           /\ Unincremented(a)' = Unincremented(a) \cup {r}
  <2>1. Cardinality(Unincremented(a)') = Cardinality(Unincremented(a)) + 1
    BY <1>3, SetsFinite, FS_AddElement
  <2> QED BY <1>1, <1>3, <2>1, SetsFinite DEF Bracket
<1> QED BY <1>2, <1>3

(* A holder r that lets go: with its DECR applied, or marked as a request  *)
(* whose DECR is not known to have worked.                                 *)
LEMMA BracketRelease ==
  ASSUME NEW a \in Accounts, NEW r \in Requests, conc[a] \in Int, Bracket(a),
         r \in Holders(a), Holders(a)' = Holders(a) \ {r},
         Unincremented(a)' = Unincremented(a), r \notin Unreleased(a),
         \/ conc'[a] = conc[a] - 1 /\ Unreleased(a)' = Unreleased(a)
         \/ conc'[a] = conc[a] /\ Unreleased(a)' = Unreleased(a) \cup {r}
  PROVE  Bracket(a)'
<1>1. Cardinality(Holders(a)') = Cardinality(Holders(a)) - 1
  BY SetsFinite, FS_RemoveElement
<1>2. CASE conc'[a] = conc[a] - 1 /\ Unreleased(a)' = Unreleased(a)
  BY <1>1, <1>2, SetsFinite DEF Bracket
<1>3. CASE conc'[a] = conc[a] /\ Unreleased(a)' = Unreleased(a) \cup {r}
  <2>1. Cardinality(Unreleased(a)') = Cardinality(Unreleased(a)) + 1
    BY <1>3, SetsFinite, FS_AddElement
  <2> QED BY <1>1, <1>3, <2>1, SetsFinite DEF Bracket
<1> QED BY <1>2, <1>3

(* A crash: every holder becomes a request that never released. *)
LEMMA BracketCrash ==
  ASSUME NEW a \in Accounts, conc[a] \in Int, Bracket(a), conc'[a] = conc[a],
         Holders(a)' = {}, Unincremented(a)' = Unincremented(a),
         Holders(a) \cap Unreleased(a) = {},
         Holders(a) \cup Unreleased(a) \subseteq Unreleased(a)'
  PROVE  Bracket(a)'
<1>1. Cardinality(Holders(a)') = 0
  BY FS_EmptySet
<1>2. Cardinality(Holders(a) \cup Unreleased(a))
        = Cardinality(Holders(a)) + Cardinality(Unreleased(a))
  BY SetsFinite, FS_Union, FS_EmptySet
<1>3. Cardinality(Holders(a) \cup Unreleased(a)) <= Cardinality(Unreleased(a)')
  BY SetsFinitePrime, FS_Subset
<1> QED BY <1>1, <1>2, <1>3, SetsFinite, SetsFinitePrime DEF Bracket
-------------------------------------------------------------------------------
LEMMA FaultOrderStep == TypeInv /\ FaultOrder /\ [Next]_vars => FaultOrder'
<1> SUFFICES ASSUME TypeInv, FaultOrder, [Next]_vars
             PROVE  FaultOrder'
  OBVIOUS
<1> USE DEF TypeInv, TypeOK, FaultOrder, ProfileOf
<1>1. ASSUME NEW r \in Requests, Arrive(r) \/ LookupSticky(r) \/ CallUncounted(r)
      PROVE  FaultOrder'
  BY <1>1 DEF Arrive, LookupSticky, CallUncounted
<1>2. ASSUME NEW r \in Requests, Choose(r)
      PROVE  FaultOrder'
  BY <1>2 DEF Choose
<1>3. ASSUME NEW r \in Requests, ChooseFails(r)
      PROVE  FaultOrder'
  BY <1>3 DEF ChooseFails
<1>4. ASSUME NEW r \in Requests, IncrementConcurrency(r)
      PROVE  FaultOrder'
  BY <1>4 DEF IncrementConcurrency
<1>5. ASSUME NEW r \in Requests, IncrementFails(r)
      PROVE  FaultOrder'
  BY <1>5 DEF IncrementFails
<1>6. ASSUME NEW r \in Requests, UpstreamFails(r) \/ AnswerBroken(r) \/ AnswerComplete(r)
      PROVE  FaultOrder'
  <2>1. /\ pc[r] = "calling" /\ pc' = [pc EXCEPT ![r] = AfterCall(r)]
        /\ UNCHANGED <<call, fault>>
    BY <1>6 DEF UpstreamFails, AnswerBroken, AnswerComplete
  <2> QED BY <2>1 DEF AfterCall
<1>7. ASSUME NEW r \in Requests, DecrementConcurrency(r)
      PROVE  FaultOrder'
  BY <1>7 DEF DecrementConcurrency
<1>8. ASSUME NEW r \in Requests, Cancel(r)
      PROVE  FaultOrder'
  BY <1>8 DEF Cancel
<1>9. CASE Crash
  BY <1>9 DEF Crash, InProgress
<1>10. CASE UNCHANGED requestVars
  BY <1>10 DEF requestVars
<1>11. ASSUME NEW a \in Accounts, AccountStep(a)
       PROVE  UNCHANGED requestVars
  BY <1>11 DEF AccountStep, UpdateAccountStatus, MarkExpires, LoadExpires
<1>12. ASSUME NEW s \in Sessions, StickyExpires(s)
       PROVE  UNCHANGED requestVars
  BY <1>12 DEF StickyExpires
<1>13. NextMinute \/ NextDay \/ UNCHANGED vars => UNCHANGED requestVars
  BY DEF NextMinute, NextDay, vars
<1> QED
  BY <1>1, <1>2, <1>3, <1>4, <1>5, <1>6, <1>7, <1>8, <1>9, <1>10, <1>11, <1>12, <1>13
     DEF Next, RequestStep

(* A step that moves neither a request into or out of the states that hold *)
(* a slot, nor an account, nor a counter.                                  *)
LEMMA BracketStep ==
  ASSUME TypeInv, FaultOrder, [Next]_vars, NEW a \in Accounts, Bracket(a)
  PROVE  Bracket(a)'
<1>0. conc[a] \in Int
  BY DEF TypeInv, TypeOK
<1> USE DEF TypeInv, TypeOK, ProfileOf
<1> DEFINE Same == /\ conc'[a] = conc[a]
                   /\ Holders(a)' = Holders(a)
                   /\ Unincremented(a) \subseteq Unincremented(a)'
                   /\ Unreleased(a) \subseteq Unreleased(a)'
<1>1. Same => Bracket(a)'
  BY <1>0, BracketFrame
<1> HIDE DEF Same
<1>2. ASSUME NEW r \in Requests, Arrive(r) \/ LookupSticky(r) \/ CallUncounted(r)
      PROVE  Same
  <2>1. /\ pc[r] \in {"idle", "lookup"} \/ ~ProfileOf(r).counted
        /\ pc[r] \in {"idle", "lookup", "selected"}
        /\ \E new \in {"lookup", "choosing", "selected", "calling"} :
             /\ pc' = [pc EXCEPT ![r] = new]
             /\ new = "calling" => ~ProfileOf(r).counted
        /\ \A q \in Requests : q # r => acct'[q] = acct[q]
        /\ UNCHANGED <<conc, call, fault>>
    BY <1>2 DEF Arrive, LookupSticky, CallUncounted, accountVars
  <2>2. fault[r] = {}
    BY <2>1 DEF FaultOrder
  <2> QED BY <2>1, <2>2 DEF Same, Holders, Unincremented, Unreleased
<1>3. ASSUME NEW r \in Requests, Choose(r) \/ ChooseFails(r)
      PROVE  Same
  <2>1. /\ pc[r] = "choosing"
        /\ \E new \in {"selected", "ended"} : pc' = [pc EXCEPT ![r] = new]
        /\ \A q \in Requests : q # r => acct'[q] = acct[q]
        /\ UNCHANGED <<conc, call, fault>>
    BY <1>3 DEF Choose, ChooseFails
  <2>2. fault[r] = {}
    BY <2>1 DEF FaultOrder
  <2> QED BY <2>1, <2>2 DEF Same, Holders, Unincremented, Unreleased
<1>4. ASSUME NEW r \in Requests, IncrementConcurrency(r)
      PROVE  Bracket(a)'
  <2>1. CASE acct[r] # a
    <3>1. Same
      BY <1>4, <2>1 DEF Same, IncrementConcurrency, Holders, Unincremented, Unreleased
    <3> QED BY <1>1, <3>1
  <2>2. CASE acct[r] = a
    <3>1. r \notin Holders(a) /\ Holders(a)' = Holders(a) \cup {r}
      BY <1>4, <2>2 DEF IncrementConcurrency, Holders
    <3>2. Unreleased(a)' = Unreleased(a) /\ Unincremented(a)' = Unincremented(a)
      BY <1>4 DEF IncrementConcurrency, Unreleased, Unincremented
    <3>3. conc'[a] = conc[a] + 1
      BY <1>4, <2>2 DEF IncrementConcurrency
    <3> QED BY <1>0, <3>1, <3>2, <3>3, BracketTake
  <2> QED BY <2>1, <2>2
<1>5. ASSUME NEW r \in Requests, IncrementFails(r)
      PROVE  Bracket(a)'
  <2>1. CASE acct[r] # a
    <3>1. Same
      BY <1>5, <2>1 DEF Same, IncrementFails, Holders, Unincremented, Unreleased
    <3> QED BY <1>1, <3>1
  <2>2. CASE acct[r] = a
    <3>1. r \notin Holders(a) /\ Holders(a)' = Holders(a) \cup {r}
      BY <1>5, <2>2 DEF IncrementFails, Holders
    <3>2. Unreleased(a)' = Unreleased(a)
      BY <1>5 DEF IncrementFails, Unreleased
    <3>3. r \notin Unincremented(a) /\ Unincremented(a)' = Unincremented(a) \cup {r}
      <4>1. fault[r] = {}
        BY <1>5 DEF IncrementFails, FaultOrder
      <4> QED BY <1>5, <2>2, <4>1 DEF IncrementFails, Unincremented
    <3>4. conc'[a] \in {conc[a], conc[a] + 1}
      BY <1>5, <2>2 DEF IncrementFails
    <3> QED BY <1>0, <3>1, <3>2, <3>3, <3>4, BracketTake
  <2> QED BY <2>1, <2>2
<1>6. ASSUME NEW r \in Requests, UpstreamFails(r) \/ AnswerBroken(r) \/ AnswerComplete(r)
      PROVE  Same
  <2>1. /\ pc[r] = "calling" /\ pc' = [pc EXCEPT ![r] = AfterCall(r)]
        /\ UNCHANGED <<conc, call, acct, fault>>
    BY <1>6 DEF UpstreamFails, AnswerBroken, AnswerComplete, accountVars
  <2> QED BY <2>1 DEF AfterCall, Same, Holders, Unincremented, Unreleased
<1>7. ASSUME NEW r \in Requests, DecrementConcurrency(r)
      PROVE  Bracket(a)'
  <2>1. CASE acct[r] # a
    <3>1. Same
      BY <1>7, <2>1 DEF Same, DecrementConcurrency, Holders, Unincremented, Unreleased
    <3> QED BY <1>1, <3>1
  <2>2. CASE acct[r] = a
    <3>1. pc[r] = "releasing" /\ ProfileOf(r).counted /\ fault[r] \subseteq {"incr"}
      BY <1>7 DEF DecrementConcurrency, FaultOrder
    <3>2. r \in Holders(a) /\ Holders(a)' = Holders(a) \ {r}
      BY <1>7, <2>2, <3>1 DEF DecrementConcurrency, Holders
    <3>3. Unincremented(a)' = Unincremented(a)
      BY <1>7 DEF DecrementConcurrency, Unincremented
    <3>4. r \notin Unreleased(a)
      BY <3>1 DEF Unreleased
    <3>5. \/ conc'[a] = conc[a] - 1 /\ Unreleased(a)' = Unreleased(a)
          \/ conc'[a] = conc[a] /\ Unreleased(a)' = Unreleased(a) \cup {r}
      <4>1. CASE conc' = [conc EXCEPT ![a] = @ - 1] /\ UNCHANGED fault
        <5>1. Unreleased(a)' = Unreleased(a)
          BY <1>7, <3>1, <4>1 DEF DecrementConcurrency, Unreleased
        <5> QED BY <4>1, <5>1
      <4>2. CASE UNCHANGED conc /\ fault' = [fault EXCEPT ![r] = @ \cup {"decr"}]
        <5>1. Unreleased(a)' = Unreleased(a) \cup {r}
          <6>1. pc'[r] = "ended" /\ fault'[r] = fault[r] \cup {"decr"} /\ acct' = acct
            BY <1>7, <4>2 DEF DecrementConcurrency
          <6>2. \A q \in Requests : q # r => pc'[q] = pc[q] /\ fault'[q] = fault[q]
            BY <1>7, <4>2 DEF DecrementConcurrency
          <6> QED BY <2>2, <6>1, <6>2, Zenon DEF Unreleased
        <5> QED BY <4>2, <5>1
      <4> QED BY <1>7, <2>2, <4>1, <4>2 DEF DecrementConcurrency
    <3> QED BY <1>0, <3>2, <3>3, <3>4, <3>5, BracketRelease
  <2> QED BY <2>1, <2>2
<1>8. CASE Crash
  <2>1. conc'[a] = conc[a]
    BY <1>8 DEF Crash
  <2>2. Holders(a)' = {}
    BY <1>8 DEF Crash, InProgress, Holders
  <2>3. Unincremented(a)' = Unincremented(a)
    BY <1>8 DEF Crash, Unincremented
  <2>4. Holders(a) \cap Unreleased(a) = {}
    BY DEF Holders, Unreleased
  <2>5. Holders(a) \cup Unreleased(a) \subseteq Unreleased(a)'
    BY <1>8 DEF Crash, InProgress, Holders, Unreleased
  <2> QED BY <1>0, <2>1, <2>2, <2>3, <2>4, <2>5, BracketCrash
<1>9. ASSUME UNCHANGED <<conc, pc, call, acct, fault>>
      PROVE  Same
  BY <1>9 DEF Same, Holders, Unincremented, Unreleased
<1>10. ASSUME NEW r \in Requests, Cancel(r)
       PROVE  Same
  BY <1>9, <1>10 DEF Cancel, accountVars
<1>11. ASSUME NEW b \in Accounts, AccountStep(b)
       PROVE  Same
  BY <1>9, <1>11 DEF AccountStep, UpdateAccountStatus, MarkExpires, LoadExpires, requestVars
<1>12. ASSUME NEW s \in Sessions, StickyExpires(s)
       PROVE  Same
  BY <1>9, <1>12 DEF StickyExpires, accountVars, requestVars
<1>13. NextMinute \/ NextDay \/ UNCHANGED vars => Same
  BY <1>9 DEF NextMinute, NextDay, vars, accountVars, requestVars
<1> QED
  BY <1>1, <1>2, <1>3, <1>4, <1>5, <1>6, <1>7, <1>8, <1>10, <1>11, <1>12, <1>13
     DEF Next, RequestStep

(* Whatever clients, Redis and crashes do, the counter GetAccountLoad      *)
(* compares with max_concurrency is off by at most one for each request    *)
(* that met a fault; with no fault it is exact.                            *)
THEOREM SchedulerCounterBracket == Spec => []CounterBracket
<1>1. Init => TypeInv /\ BracketInv
  <2> SUFFICES ASSUME Init PROVE TypeInv /\ BracketInv
    OBVIOUS
  <2>1. FaultOrder
    BY DEF Init, FaultOrder
  <2>2. ASSUME NEW a \in Accounts
        PROVE  Holders(a) = {} /\ Unincremented(a) = {} /\ Unreleased(a) = {} /\ conc[a] = 0
    BY DEF Init, Holders, Unincremented, Unreleased
  <2>3. ASSUME NEW a \in Accounts PROVE Bracket(a)
    BY <2>2, FS_EmptySet DEF Bracket
  <2>4. CounterBracket
    BY <2>3 DEF CounterBracket, Bracket
  <2> QED BY <2>1, <2>4, TypeInit DEF BracketInv
<1>2. TypeInv /\ BracketInv /\ [Next]_vars => TypeInv' /\ BracketInv'
  <2> SUFFICES ASSUME TypeInv, BracketInv, [Next]_vars
               PROVE  TypeInv' /\ BracketInv'
    OBVIOUS
  <2>1. ASSUME NEW a \in Accounts PROVE Bracket(a)'
    BY BracketStep DEF BracketInv, CounterBracket, Bracket
  <2>2. CounterBracket'
    BY <2>1 DEF CounterBracket, Bracket
  <2> QED BY <2>2, TypeStep, FaultOrderStep DEF BracketInv
<1>3. BracketInv => CounterBracket
  BY DEF BracketInv
<1> QED BY <1>1, <1>2, <1>3, PTL DEF Spec
===============================================================================
