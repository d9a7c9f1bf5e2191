--------------------------- MODULE GatewayPartsProofs ---------------------------
(***************************************************************************)
(* Proofs about the parts of the gateway, for any accounts, windows,       *)
(* retries, calls and slots (those about the batch writer are in           *)
(* BatchWriterProofs).                                                     *)
(*                                                                         *)
(* Retry loop.  That no account is asked twice rests on excludedIDs:       *)
(* whenever the loop is about to select, every account it asked before is  *)
(* among them.  While an attempt runs, its account is the one that is not  *)
(* there yet.                                                              *)
(*                                                                         *)
(* Health monitor.  The ring holds the last results, the latest one before *)
(* its index, so that what is computed from it, the successes it counts    *)
(* one by one above all, is what the results say.                          *)
(*                                                                         *)
(* Balances.  The semaphore holds as many slots as there are goroutines    *)
(* between Acquire and the deferred release: a cardinality, and with it    *)
(* the results that were reported.                                         *)
(***************************************************************************)
EXTENDS GatewayParts, BatchWriterProofs, FunctionTheorems

(* Who was asked is excluded by the time of the next selection. *)
AskedAreTried ==
  /\ at \in {"checking", "selecting", "waiting"} =>
       \A i \in 1..Len(asked) : asked[i] \in tried
  /\ at = "asking" =>
       /\ account \in Upstreams
       /\ \A i \in 1..Len(asked) : asked[i] \in tried \cup {account}

(* An attempt is only followed by another if retries are left. *)
WaitsWithRetriesLeft == at = "waiting" => attempt <= MaxRetries

RetryInv == RetryTypeOK /\ AskedAreTried /\ WaitsWithRetriesLeft /\ TriesDistinctAccounts

(* The initial states satisfy the invariant. *)
LEMMA RetryInvInit == RetryInit => RetryInv
  BY RetryAssumption
  DEF RetryInit, RetryInv, RetryTypeOK, RetryPCs, Responses, ClientGets, AskedAreTried,
      WaitsWithRetriesLeft, TriesDistinctAccounts

(* A selection appends an account that is not excluded, hence one that was *)
(* not asked.                                                              *)
LEMMA SelectionIsNew ==
  ASSUME RetryInv, NEW a \in Upstreams, SelectUpstream(a)
  PROVE  RetryInv'
<1> USE RetryAssumption DEF RetryInv, RetryTypeOK, SelectUpstream
<1>1. RetryTypeOK'
  BY DEF RetryPCs
<1>2. /\ Len(asked') = Len(asked) + 1
      /\ asked'[Len(asked) + 1] = a
      /\ \A i \in 1..Len(asked) : asked'[i] = asked[i]
  OBVIOUS
<1>3. \A i \in 1..Len(asked) : asked[i] \in tried /\ asked[i] # a
  BY DEF AskedAreTried
<1>4. AskedAreTried'
  <2>1. \A i \in 1..(Len(asked) + 1) : asked'[i] \in tried \cup {a}
    BY <1>2, <1>3
  <2> QED
    BY <1>2, <2>1 DEF AskedAreTried
<1>5. TriesDistinctAccounts'
  <2> SUFFICES ASSUME NEW i \in 1..(Len(asked) + 1), NEW k \in 1..(Len(asked) + 1),
                      asked'[i] = asked'[k]
               PROVE  i = k
    BY <1>2 DEF TriesDistinctAccounts
  <2>1. CASE i <= Len(asked) /\ k <= Len(asked)
    <3>1. asked[i] = asked[k]
      BY <2>1, <1>2
    <3> QED
      BY <2>1, <3>1 DEF TriesDistinctAccounts
  <2>2. CASE i <= Len(asked) /\ k = Len(asked) + 1
    BY <2>2, <1>2, <1>3
  <2>3. CASE i = Len(asked) + 1 /\ k <= Len(asked)
    BY <2>3, <1>2, <1>3
  <2>4. CASE i = Len(asked) + 1 /\ k = Len(asked) + 1
    BY <2>4
  <2> QED
    BY <2>1, <2>2, <2>3, <2>4
<1> QED
  BY <1>1, <1>4, <1>5 DEF WaitsWithRetriesLeft

(* Every step preserves the invariant. *)
LEMMA RetryInvStep == RetryInv /\ [RetryNext]_retryVars => RetryInv'
<1> USE RetryAssumption
    DEF RetryInv, RetryTypeOK, RetryPCs, AskedAreTried, WaitsWithRetriesLeft,
        TriesDistinctAccounts
<1> SUFFICES ASSUME RetryInv, [RetryNext]_retryVars PROVE RetryInv'
  OBVIOUS
<1>1. CASE CheckContext
  BY <1>1 DEF CheckContext, Return, Responses
<1>2. ASSUME NEW a \in Upstreams, SelectUpstream(a) PROVE RetryInv'
  BY <1>2, SelectionIsNew
<1>3. CASE SelectFails
  BY <1>3 DEF SelectFails, Return, Responses
<1>4. ASSUME NEW resp \in Responses, DoRequest(resp) PROVE RetryInv'
  BY <1>4 DEF DoRequest, Return
<1>5. ASSUME NEW resp \in Responses, Failed(resp) PROVE RetryInv'
  <2>1. account \in Upstreams /\ tried' = tried \cup {account} /\ asked' = asked
    BY <1>5 DEF Failed, Exclude
  <2>2. CASE IsLast(attempt)
    BY <1>5, <2>1, <2>2 DEF Failed, Return
  <2>3. CASE ~IsLast(attempt)
    BY <1>5, <2>1, <2>3 DEF Failed, IsLast
  <2> QED
    BY <2>2, <2>3
<1>6. CASE BackOff
  BY <1>6 DEF BackOff
<1>7. CASE BackOffCancelled
  BY <1>7 DEF BackOffCancelled, Return, Responses
<1>8. CASE Answering
  BY <1>8 DEF Answering, AnswerNone, AnswerStream, AnswerBody, Finish, ClientGets
<1>9. CASE HangUp
  BY <1>9 DEF HangUp
<1>10. CASE UNCHANGED retryVars
  BY <1>10 DEF retryVars
<1> QED
  BY <1>1, <1>2, <1>3, <1>4, <1>5, <1>6, <1>7, <1>8, <1>9, <1>10 DEF RetryNext, Attempting

(* The state of a request keeps its shape, whatever upstreams answer. *)
THEOREM RetryTypeCorrect == RetrySpec => []RetryTypeOK
<1>1. RetryInv => RetryTypeOK
  BY DEF RetryInv
<1> QED
  BY RetryInvInit, RetryInvStep, <1>1, PTL DEF RetrySpec

(* DoRequestWithRetry asks no account twice for one request. *)
THEOREM RetryTriesDistinctAccounts == RetrySpec => []TriesDistinctAccounts
<1>1. RetryInv => TriesDistinctAccounts
  BY DEF RetryInv
<1> QED
  BY RetryInvInit, RetryInvStep, <1>1, PTL DEF RetrySpec
-------------------------------------------------------------------------------
(* The slots of the ring, counted backwards from the index without %. *)
LEMMA Modulo ==
  ASSUME NEW W \in Nat \ {0}, NEW x \in 0..(W - 1)
  PROVE  x % W = x /\ (x + W) % W = x /\ (x + 2 * W) % W = x /\ W % W = 0
<1>1. x % W = x
  OBVIOUS
<1>2. (x + W) % W = x
  OBVIOUS
<1>3. (x + 2 * W) % W = x
  OBVIOUS
<1>4. W % W = 0
  OBVIOUS
<1> QED
  BY <1>1, <1>2, <1>3, <1>4

Slot(index, i) == IF i < index THEN index - 1 - i ELSE index - 1 - i + WindowSize

LEMMA BackIsSlot ==
  ASSUME NEW index \in Slots, NEW i \in Slots
  PROVE  /\ Slot(index, i) \in Slots
         /\ (index - 1 - i + 2 * WindowSize) % WindowSize = Slot(index, i)
<1>1. Slot(index, i) \in Slots
  BY HealthAssumption DEF Slots, Slot
<1>2. \/ index - 1 - i + 2 * WindowSize = Slot(index, i) + WindowSize
      \/ index - 1 - i + 2 * WindowSize = Slot(index, i) + 2 * WindowSize
  BY HealthAssumption DEF Slots, Slot
<1>3. (Slot(index, i) + WindowSize) % WindowSize = Slot(index, i)
      /\ (Slot(index, i) + 2 * WindowSize) % WindowSize = Slot(index, i)
  BY <1>1, HealthAssumption, Modulo DEF Slots
<1> QED
  BY <1>1, <1>2, <1>3

LEMMA NextSlot ==
  ASSUME NEW index \in Slots
  PROVE  /\ (index + 1) % WindowSize \in Slots
         /\ Slot((index + 1) % WindowSize, 0) = index
         /\ \A i \in 0..(WindowSize - 2) :
              /\ Slot((index + 1) % WindowSize, i + 1) = Slot(index, i)
              /\ Slot(index, i) # index
         /\ Slot(index, WindowSize - 1) = index
<1>1. (index + 1) % WindowSize = IF index + 1 = WindowSize THEN 0 ELSE index + 1
  <2>1. CASE index + 1 = WindowSize
    BY <2>1, HealthAssumption, Modulo DEF Slots
  <2>2. CASE index + 1 # WindowSize
    <3>1. index + 1 \in 0..(WindowSize - 1)
      BY <2>2, HealthAssumption DEF Slots
    <3> QED
      BY <2>2, <3>1, HealthAssumption, Modulo
  <2> QED
    BY <2>1, <2>2
<1> QED
  BY <1>1, HealthAssumption DEF Slots, Slot

LEMMA SuccessesFinite ==
  ASSUME NEW s \in Seq(BOOLEAN)
  PROVE  /\ IsFiniteSet({i \in 1..Len(s) : s[i]})
         /\ Cardinality({i \in 1..Len(s) : s[i]}) \in 0..Len(s)
<1>1. Len(s) \in Nat
  OBVIOUS
<1>2. IsFiniteSet(1..Len(s)) /\ Cardinality(1..Len(s)) = Len(s)
  BY <1>1, FS_Interval
<1>3. {i \in 1..Len(s) : s[i]} \subseteq 1..Len(s)
  OBVIOUS
<1>4. /\ IsFiniteSet({i \in 1..Len(s) : s[i]})
      /\ Cardinality({i \in 1..Len(s) : s[i]}) <= Cardinality(1..Len(s))
  BY <1>2, <1>3, FS_Subset
<1>5. Cardinality({i \in 1..Len(s) : s[i]}) \in Nat
  BY <1>4, FS_CardinalityType
<1> QED
  BY <1>1, <1>2, <1>4, <1>5

LEMMA SuccessesType ==
  ASSUME NEW s \in Seq(BOOLEAN)
  PROVE  Successes(s) \in Nat /\ Successes(s) <= Len(s)
<1>1. Successes(s) = Cardinality({i \in 1..Len(s) : s[i]})
  BY DEF Successes
<1>2. Cardinality({i \in 1..Len(s) : s[i]}) \in 0..Len(s)
  BY SuccessesFinite
<1>3. Len(s) \in Nat
  OBVIOUS
<1> HIDE DEF Successes
<1>4. Successes(s) \in 0..Len(s)
  BY <1>1, <1>2, Zenon
<1> QED
  BY <1>3, <1>4

LEMMA SuccessesOfAppend ==
  ASSUME NEW s \in Seq(BOOLEAN), NEW b \in BOOLEAN
  PROVE  Successes(Append(s, b)) = Successes(s) + One(b)
<1> DEFINE T == {i \in 1..Len(s) : s[i]}
<1>1. /\ Len(s) \in Nat /\ Len(Append(s, b)) = Len(s) + 1
      /\ Append(s, b)[Len(s) + 1] = b
      /\ \A i \in 1..Len(s) : Append(s, b)[i] = s[i]
  BY AppendProperties
<1>2. IsFiniteSet(T) /\ Cardinality(T) \in Nat
  BY SuccessesFinite, FS_CardinalityType
<1>3. ASSUME b  PROVE {i \in 1..Len(Append(s, b)) : Append(s, b)[i]} = T \cup {Len(s) + 1}
  BY <1>1, <1>3
<1>4. ASSUME ~b  PROVE {i \in 1..Len(Append(s, b)) : Append(s, b)[i]} = T
  BY <1>1, <1>4
<1>5. Len(s) + 1 \notin T
  BY <1>1
<1>6. Cardinality(T \cup {Len(s) + 1}) = Cardinality(T) + 1
  BY <1>2, <1>5, FS_AddElement
<1>7. Successes(s) = Cardinality(T)
  BY DEF Successes
<1> HIDE DEF T
<1>8. CASE b
  BY <1>2, <1>3, <1>6, <1>7, <1>8 DEF Successes, One
<1>9. CASE ~b
  <2>1. Successes(Append(s, b)) = Cardinality(T)
    BY <1>4, <1>9, Zenon DEF Successes
  <2>2. One(b) = 0
    BY <1>9 DEF One
  <2> QED
    BY <1>2, <1>7, <2>1, <2>2
<1> QED
  BY <1>8, <1>9

LEMMA SuccessesOfTail ==
  ASSUME NEW s \in Seq(BOOLEAN), s # <<>>
  PROVE  Successes(Tail(s)) = Successes(s) - One(s[1])
<1> DEFINE T == {i \in 1..Len(s) : s[i]}
           R == {i \in 1..Len(Tail(s)) : Tail(s)[i]}
           M == {i \in 2..Len(s) : s[i]}
<1>1. /\ Len(s) \in Nat \ {0} /\ Len(Tail(s)) = Len(s) - 1
      /\ \A i \in 1..Len(Tail(s)) : Tail(s)[i] = s[i + 1]
  BY HeadTailProperties, EmptySeq
<1>2. IsFiniteSet(T) /\ Cardinality(T) \in Nat
  BY SuccessesFinite, FS_CardinalityType
<1>3. IsFiniteSet(M) /\ Cardinality(M) \in Nat
  <2>1. M \subseteq T
    OBVIOUS
  <2> QED
    BY <1>2, <2>1, FS_Subset, FS_CardinalityType
<1>4. Cardinality(T) = Cardinality(M) + One(s[1])
  <2>1. 1 \notin M
    OBVIOUS
  <2>2. Cardinality(M \cup {1}) = Cardinality(M) + 1
    BY <1>3, <2>1, FS_AddElement
  <2>3. ASSUME s[1]  PROVE T = M \cup {1}
    BY <1>1, <2>3
  <2>4. ASSUME ~s[1]  PROVE T = M
    <3>1. ASSUME NEW i \in T  PROVE i \in M
      <4>1. i # 1 /\ i \in 1..Len(s) /\ s[i]
        BY <2>4
      <4> QED
        BY <1>1, <4>1
    <3> QED
      BY <3>1
  <2> HIDE DEF T, M
  <2>5. CASE s[1]
    BY <1>3, <2>2, <2>3, <2>5 DEF One
  <2>6. CASE ~s[1]
    BY <1>3, <2>4, <2>6 DEF One
  <2> QED
    BY <2>5, <2>6
<1>5. Cardinality(R) = Cardinality(M)
  <2> DEFINE next == [i \in M |-> i - 1]
  <2>1. next \in [M -> R]
    BY <1>1
  <2>2. \A i, k \in M : next[i] = next[k] => i = k
    OBVIOUS
  <2>3. \A k \in R : \E i \in M : next[i] = k
    <3> TAKE k \in R
    <3>1. k + 1 \in M
      BY <1>1
    <3>2. next[k + 1] = k
      BY <3>1
    <3> QED
      BY <3>1, <3>2
  <2> HIDE DEF next, M, R
  <2>4. next \in Bijection(M, R)
    BY <2>1, <2>2, <2>3, Fun_IsBij
  <2> QED
    BY <1>3, <2>4, FS_Bijection DEF ExistsBijection
<1>6. Successes(s) = Cardinality(T) /\ Successes(Tail(s)) = Cardinality(R)
  BY DEF Successes
<1>7. One(s[1]) \in 0..1
  BY DEF One
<1> HIDE DEF T, M, R
<1> QED
  BY <1>2, <1>3, <1>4, <1>5, <1>6, <1>7

(* The ring of an account holds the results the history remembers. *)
RingOf(w, s) ==
  /\ w.count = Len(s) /\ Len(s) <= WindowSize
  /\ w.successes = Successes(s)
  /\ \A i \in 0..(Len(s) - 1) : w.results[Slot(w.index, i)] = s[Len(s) - i]

LEMMA LastResultsOfAppend ==
  ASSUME NEW s \in Seq(BOOLEAN), NEW b \in BOOLEAN, Len(s) <= WindowSize
  PROVE  LET t == LastResults(Append(s, b))
         IN  /\ t \in Seq(BOOLEAN)
             /\ Len(t) = IF Len(s) < WindowSize THEN Len(s) + 1 ELSE WindowSize
             /\ t[Len(t)] = b
             /\ \A i \in 0..(Len(t) - 2) : t[Len(t) - (i + 1)] = s[Len(s) - i]
             /\ Successes(t) = Successes(s) + One(b)
                               - (IF Len(s) < WindowSize THEN 0 ELSE One(s[1]))
<1> DEFINE u == Append(s, b)
<1>1. /\ Len(s) \in Nat /\ WindowSize \in Nat \ {0}
      /\ u \in Seq(BOOLEAN) /\ Len(u) = Len(s) + 1 /\ u[Len(s) + 1] = b
      /\ \A i \in 1..Len(s) : u[i] = s[i]
  BY HealthAssumption, AppendProperties
<1>2. Successes(u) = Successes(s) + One(b) /\ Successes(s) \in Nat
  BY SuccessesOfAppend, SuccessesType
<1>3. One(b) \in 0..1 /\ One(s[1]) \in 0..1
  BY DEF One
<1> HIDE DEF u
<1>4. CASE Len(s) < WindowSize
  <2>1. LastResults(u) = u
    BY <1>1, <1>4 DEF LastResults
  <2>2. \A i \in 0..(Len(u) - 2) : u[Len(u) - (i + 1)] = s[Len(s) - i]
    BY <1>1
  <2> QED
    BY <1>1, <1>2, <1>3, <1>4, <2>1, <2>2 DEF u
<1>5. CASE Len(s) = WindowSize
  <2>1. LastResults(u) = Tail(u)
    BY <1>1, <1>5 DEF LastResults
  <2>2. u # <<>>
    BY <1>1, EmptySeq
  <2>3. /\ Tail(u) \in Seq(BOOLEAN) /\ Len(Tail(u)) = WindowSize
        /\ \A i \in 1..Len(Tail(u)) : Tail(u)[i] = u[i + 1]
    BY <1>1, <1>5, <2>2, HeadTailProperties
  <2>4. Successes(Tail(u)) = Successes(u) - One(u[1]) /\ u[1] = s[1]
    BY <1>1, <1>5, <2>2, SuccessesOfTail
  <2>5. Tail(u)[WindowSize] = b
    BY <1>1, <1>5, <2>3
  <2>6. \A i \in 0..(WindowSize - 2) : Tail(u)[WindowSize - (i + 1)] = s[Len(s) - i]
    BY <1>1, <1>5, <2>3
  <2>7. Successes(Tail(u)) = Successes(s) + One(b) - One(s[1])
    BY <1>2, <1>3, <2>4
  <2>8. \A i \in 0..(Len(Tail(u)) - 2) : Tail(u)[Len(Tail(u)) - (i + 1)] = s[Len(s) - i]
    BY <2>3, <2>6
  <2>9. ~(Len(s) < WindowSize)
    BY <1>1, <1>5
  <2> QED
    BY <1>5, <2>1, <2>3, <2>5, <2>7, <2>8, <2>9 DEF u
<1> QED
  BY <1>1, <1>4, <1>5

LEMMA RecordKeepsRing ==
  ASSUME NEW w \in Window, NEW s \in Seq(BOOLEAN), NEW b \in BOOLEAN, RingOf(w, s)
  PROVE  LET t == LastResults(Append(s, b))
         IN  /\ t \in Seq(BOOLEAN) /\ t # <<>>
             /\ Record(w, b) \in Window
             /\ RingOf(Record(w, b), t)
<1> DEFINE t == LastResults(Append(s, b))
           v == Record(w, b)
<1>1. /\ w.results \in [Slots -> BOOLEAN] /\ w.index \in Slots
      /\ w.count = Len(s) /\ Len(s) \in Nat /\ Len(s) <= WindowSize
      /\ w.successes = Successes(s) /\ WindowSize \in Nat \ {0}
  BY HealthAssumption DEF RingOf, Window
<1>2. /\ t \in Seq(BOOLEAN)
      /\ Len(t) = IF Len(s) < WindowSize THEN Len(s) + 1 ELSE WindowSize
      /\ t[Len(t)] = b
      /\ \A i \in 0..(Len(t) - 2) : t[Len(t) - (i + 1)] = s[Len(s) - i]
      /\ Successes(t) = Successes(s) + One(b)
                        - (IF Len(s) < WindowSize THEN 0 ELSE One(s[1]))
  BY <1>1, LastResultsOfAppend
<1>3. /\ v.results = [w.results EXCEPT ![w.index] = b]
      /\ v.index = (w.index + 1) % WindowSize
      /\ v.count = IF w.count < WindowSize THEN w.count + 1 ELSE w.count
      /\ v.successes = w.successes + One(b)
                       - (IF w.count < WindowSize THEN 0 ELSE One(w.results[w.index]))
      /\ v = [results |-> v.results, index |-> v.index, count |-> v.count,
              successes |-> v.successes]
  BY DEF Record
<1>4. /\ v.index \in Slots /\ Slot(v.index, 0) = w.index
      /\ \A i \in 0..(WindowSize - 2) :
           /\ Slot(v.index, i + 1) = Slot(w.index, i) /\ Slot(w.index, i) # w.index
      /\ Slot(w.index, WindowSize - 1) = w.index
  BY <1>1, <1>3, NextSlot
<1> HIDE DEF t, v
<1>5. v.count = Len(t) /\ Len(t) <= WindowSize /\ Len(t) \in Nat \ {0}
  BY <1>1, <1>2, <1>3
<1>6. v.successes = Successes(t)
  <2>1. CASE Len(s) < WindowSize
    BY <1>1, <1>2, <1>3, <2>1
  <2>2. CASE Len(s) = WindowSize
    <3>1. WindowSize - 1 \in 0..(Len(s) - 1) /\ Len(s) - (WindowSize - 1) = 1
      BY <1>1, <2>2
    <3>2. w.results[Slot(w.index, WindowSize - 1)] = s[Len(s) - (WindowSize - 1)]
      BY <3>1 DEF RingOf
    <3>3. w.results[w.index] = s[1]
      BY <1>4, <3>1, <3>2
    <3> QED
      BY <1>1, <1>2, <1>3, <2>2, <3>3
  <2> QED
    BY <1>1, <2>1, <2>2
<1>7. ASSUME NEW i \in 0..(Len(t) - 1)  PROVE v.results[Slot(v.index, i)] = t[Len(t) - i]
  <2>1. CASE i = 0
    BY <1>1, <1>2, <1>3, <1>4, <1>5, <2>1
  <2>2. CASE i # 0
    <3> DEFINE k == i - 1
    <3>1. k \in 0..(WindowSize - 2) /\ k \in 0..(Len(t) - 2) /\ k \in 0..(Len(s) - 1) /\ i = k + 1
      BY <1>1, <1>2, <1>5, <2>2
    <3> HIDE DEF k
    <3>2. t[Len(t) - i] = s[Len(s) - k]
      BY <1>2, <3>1
    <3>3. w.results[Slot(w.index, k)] = s[Len(s) - k]
      BY <3>1 DEF RingOf
    <3>4. k \in Slots
      BY <1>1, <3>1 DEF Slots
    <3>5. Slot(v.index, i) = Slot(w.index, k) /\ Slot(w.index, k) # w.index
      BY <1>4, <3>1
    <3>6. Slot(w.index, k) \in Slots
      BY <1>1, <3>4, BackIsSlot
    <3>7. v.results[Slot(w.index, k)] = w.results[Slot(w.index, k)]
      BY <1>1, <1>3, <3>5, <3>6
    <3> QED
      BY <3>2, <3>3, <3>5, <3>7
  <2> QED
    BY <2>1, <2>2
<1>8. RingOf(v, t)
  BY <1>5, <1>6, <1>7 DEF RingOf
<1>9. Successes(t) \in 0..WindowSize
  BY <1>1, <1>2, <1>5, SuccessesType
<1>10. v \in Window
  BY <1>1, <1>3, <1>4, <1>5, <1>6, <1>9 DEF Window
<1>11. t # <<>>
  BY <1>5, EmptySeq
<1> QED
  BY <1>2, <1>8, <1>10, <1>11 DEF t, v

LEMMA NewRing == NewSlidingWindow \in Window /\ RingOf(NewSlidingWindow, <<>>)
<1>1. Successes(<<>>) = 0 /\ Len(<<>>) = 0
  <2>1. <<>> \in Seq(BOOLEAN) /\ Len(<<>>) = 0
    BY EmptySeq
  <2>2. Successes(<<>>) \in Nat /\ Successes(<<>>) <= Len(<<>>)
    BY <2>1, SuccessesType, Zenon
  <2> QED
    BY <2>1, <2>2
<1>2. NewSlidingWindow \in Window
  BY HealthAssumption DEF NewSlidingWindow, Window, Slots
<1>3. RingOf(NewSlidingWindow, <<>>)
  BY <1>1, HealthAssumption DEF RingOf, NewSlidingWindow
<1> QED
  BY <1>2, <1>3

(* What the monitor computes from the ring is what the history says. *)
LEMMA RingFailures ==
  ASSUME NEW w \in Window, NEW s \in Seq(BOOLEAN), RingOf(w, s)
  PROVE  ConsecutiveFailures(w) = EndsFailing(s)
<1> DEFINE back(i) == (w.index - 1 - i + 2 * WindowSize) % WindowSize
           ring == {n \in 0..w.count : \A i \in 0..(n - 1) : ~w.results[back(i)]}
           last == {n \in 0..Len(s) : \A i \in 1..Len(s) : i > Len(s) - n => ~s[i]}
<1>1. /\ w.count = Len(s) /\ Len(s) \in Nat /\ Len(s) <= WindowSize /\ w.index \in Slots
      /\ WindowSize \in Nat \ {0}
  BY HealthAssumption DEF RingOf, Window
<1>2. \A i \in 0..(Len(s) - 1) : w.results[back(i)] = s[Len(s) - i]
  <2> TAKE i \in 0..(Len(s) - 1)
  <2>1. i \in Slots
    BY <1>1 DEF Slots
  <2>2. back(i) = Slot(w.index, i)
    BY <1>1, <2>1, BackIsSlot
  <2> QED
    BY <2>2 DEF RingOf
<1> HIDE DEF back
<1>3. ASSUME NEW n \in 0..Len(s)
      PROVE  (\A i \in 0..(n - 1) : ~w.results[back(i)])
             <=> (\A i \in 1..Len(s) : i > Len(s) - n => ~s[i])
  <2>1. ASSUME \A i \in 0..(n - 1) : ~w.results[back(i)],
               NEW i \in 1..Len(s), i > Len(s) - n
        PROVE  ~s[i]
    <3>1. Len(s) - i \in 0..(n - 1) /\ Len(s) - i \in 0..(Len(s) - 1) /\ Len(s) - (Len(s) - i) = i
      BY <1>1, <2>1
    <3> QED
      BY <1>2, <2>1, <3>1
  <2>2. ASSUME \A i \in 1..Len(s) : i > Len(s) - n => ~s[i], NEW i \in 0..(n - 1)
        PROVE  ~w.results[back(i)]
    <3>1. i \in 0..(Len(s) - 1) /\ Len(s) - i \in 1..Len(s) /\ Len(s) - i > Len(s) - n
      BY <1>1
    <3>2. ~s[Len(s) - i]
      BY <2>2, <3>1
    <3> QED
      BY <1>2, <3>1, <3>2
  <2> QED
    BY <2>1, <2>2
<1>4. ring = last
  BY <1>1, <1>3
<1>5. ConsecutiveFailures(w) = CHOOSE n \in ring : \A k \in ring : k <= n
  BY DEF ConsecutiveFailures, back
<1>6. EndsFailing(s) = CHOOSE n \in last : \A k \in last : k <= n
  BY DEF EndsFailing
<1> HIDE DEF ring, last
<1> QED
  BY <1>4, <1>5, <1>6, Zenon

LEMMA RingRate ==
  ASSUME NEW w \in Window, NEW s \in Seq(BOOLEAN), RingOf(w, s), NEW t \in Thresholds
  PROVE  RateBelow(w, t) <=> RecentBelow(s, t)
<1>1. w.count = Len(s) /\ w.successes = Successes(s)
  BY DEF RingOf
<1>2. s = <<>> <=> Len(s) = 0
  BY EmptySeq
<1> QED
  BY <1>1, <1>2 DEF RateBelow, RecentBelow

(* A rate below a threshold is below every higher one. *)
LEMMA BelowHigher ==
  ASSUME NEW s \in Seq(BOOLEAN), NEW t \in Thresholds, NEW u \in Thresholds, t <= u,
         RecentBelow(s, t)
  PROVE  RecentBelow(s, u)
<1>1. t \in 0..10 /\ u \in 0..10 /\ Len(s) \in Nat /\ Successes(s) \in Nat
  BY HealthAssumption, SuccessesType
<1>2. t * Len(s) <= u * Len(s)
  BY <1>1
<1> DEFINE n == Len(s)
           c == Successes(s)
<1>3. t * n \in Int /\ u * n \in Int
  BY <1>1
<1>4. CASE s = <<>>
  BY <1>1, <1>4 DEF RecentBelow
<1>5. CASE s # <<>>
  <2>1. c * 10 < t * n
    BY <1>5 DEF RecentBelow
  <2>2. c * 10 < u * n
    BY <1>1, <1>2, <1>3, <2>1
  <2> QED
    BY <1>5, <2>2 DEF RecentBelow
<1> QED
  BY <1>4, <1>5

RingsHoldRecent == \A a \in Monitored : RingOf(WindowOf(a), recent[a])

(* The mark of an account follows its results, since it was judged last. *)
MarkFollowsRecent ==
  \A a \in Monitored :
    windows[a] # NoWindow /\ a \notin retuned =>
      IF a \in healthyState THEN ~RecentBelow(recent[a], LowerThreshold)
                            ELSE RecentBelow(recent[a], HigherThreshold)

HealthInv == HealthTypeOK /\ RingsHoldRecent /\ MarkFollowsRecent

LEMMA NoWindowIsNoWindow == NoWindow \notin Window
BY HealthAssumption DEF Window, Slots

LEMMA WindowOfType ==
  ASSUME HealthTypeOK, NEW a \in Monitored
  PROVE  WindowOf(a) \in Window
BY NewRing DEF HealthTypeOK, WindowOf

LEMMA ThresholdsInOrder ==
  ASSUME HealthTypeOK
  PROVE  /\ disableThreshold \in Thresholds /\ recoveryThreshold \in Thresholds
         /\ LowerThreshold \in Thresholds /\ HigherThreshold \in Thresholds
         /\ LowerThreshold <= disableThreshold /\ LowerThreshold <= recoveryThreshold
         /\ disableThreshold <= HigherThreshold /\ recoveryThreshold <= HigherThreshold
<1>1. disableThreshold \in Thresholds /\ recoveryThreshold \in Thresholds
  BY DEF HealthTypeOK
<1>2. disableThreshold \in 0..10 /\ recoveryThreshold \in 0..10
  BY <1>1, HealthAssumption
<1> QED
  BY <1>1, <1>2 DEF LowerThreshold, HigherThreshold

(* What Judged decides agrees with both thresholds. *)
LEMMA JudgedFollowsRecent ==
  ASSUME HealthTypeOK, NEW a \in Monitored, NEW w \in Window, NEW s \in Seq(BOOLEAN),
         RingOf(w, s)
  PROVE  IF Judged(a, w) THEN ~RecentBelow(s, LowerThreshold)
                         ELSE RecentBelow(s, HigherThreshold)
<1>1. /\ RateBelow(w, disableThreshold) <=> RecentBelow(s, disableThreshold)
      /\ RateBelow(w, recoveryThreshold) <=> RecentBelow(s, recoveryThreshold)
  BY ThresholdsInOrder, RingRate
<1>2. /\ RecentBelow(s, LowerThreshold) => RecentBelow(s, disableThreshold)
      /\ RecentBelow(s, LowerThreshold) => RecentBelow(s, recoveryThreshold)
      /\ RecentBelow(s, disableThreshold) => RecentBelow(s, HigherThreshold)
      /\ RecentBelow(s, recoveryThreshold) => RecentBelow(s, HigherThreshold)
  BY ThresholdsInOrder, BelowHigher
<1>3. Judged(a, w) = IF Healthy(a) THEN ~RateBelow(w, disableThreshold)
                                   ELSE ~RateBelow(w, recoveryThreshold)
  BY DEF Judged
<1> QED
  BY <1>1, <1>2, <1>3, Zenon

LEMMA RecordResultStep ==
  ASSUME HealthInv, NEW a \in Monitored, NEW success \in BOOLEAN, RecordResult(a, success)
  PROVE  HealthInv'
<1> DEFINE w == Record(WindowOf(a), success)
           t == LastResults(Append(recent[a], success))
<1>1. recent[a] \in Seq(BOOLEAN) /\ RingOf(WindowOf(a), recent[a]) /\ WindowOf(a) \in Window
  BY WindowOfType DEF HealthInv, HealthTypeOK, RingsHoldRecent
<1>2. t \in Seq(BOOLEAN) /\ w \in Window /\ RingOf(w, t)
  BY <1>1, RecordKeepsRing
<1>3. /\ windows' = [windows EXCEPT ![a] = w]
      /\ healthyState' = IF Judged(a, w) THEN healthyState \cup {a} ELSE healthyState \ {a}
      /\ stale' = stale \ {a}
      /\ recent' = [recent EXCEPT ![a] = t]
      /\ retuned' = retuned \ {a}
      /\ UNCHANGED <<disableThreshold, recoveryThreshold>>
  BY DEF RecordResult
<1>4. IF Judged(a, w) THEN ~RecentBelow(t, LowerThreshold) ELSE RecentBelow(t, HigherThreshold)
  BY <1>2, JudgedFollowsRecent DEF HealthInv
<1> HIDE DEF w, t
<1>5. HealthTypeOK'
  BY <1>2, <1>3 DEF HealthInv, HealthTypeOK
<1>6. windows'[a] = w /\ recent'[a] = t /\ w # NoWindow
  BY <1>2, <1>3, NoWindowIsNoWindow DEF HealthInv, HealthTypeOK
<1>7. \A b \in Monitored \ {a} : windows'[b] = windows[b] /\ recent'[b] = recent[b]
  BY <1>3 DEF HealthInv, HealthTypeOK
<1>8. RingsHoldRecent'
  <2>1. ASSUME NEW b \in Monitored  PROVE RingOf(WindowOf(b), recent[b])'
    <3>1. CASE b = a
      BY <1>2, <1>6, <3>1 DEF WindowOf
    <3>2. CASE b # a
      BY <1>7, <3>2 DEF WindowOf, HealthInv, RingsHoldRecent
    <3> QED
      BY <3>1, <3>2
  <2> QED
    BY <2>1 DEF RingsHoldRecent
<1>9. LowerThreshold' = LowerThreshold /\ HigherThreshold' = HigherThreshold
  BY <1>3 DEF LowerThreshold, HigherThreshold
<1>10. MarkFollowsRecent'
  <2>1. ASSUME NEW b \in Monitored, windows'[b] # NoWindow, b \notin retuned'
        PROVE  IF b \in healthyState' THEN ~RecentBelow(recent'[b], LowerThreshold')
                                      ELSE RecentBelow(recent'[b], HigherThreshold')
    <3>1. CASE b = a
      <4>1. a \in healthyState' <=> Judged(a, w)
        BY <1>3
      <4> QED
        BY <1>4, <1>6, <1>9, <3>1, <4>1
    <3>2. CASE b # a
      <4>1. /\ b \notin retuned /\ windows[b] # NoWindow
            /\ b \in healthyState' <=> b \in healthyState
        BY <1>3, <1>7, <2>1, <3>2
      <4> QED
        BY <1>7, <1>9, <3>2, <4>1 DEF HealthInv, MarkFollowsRecent
    <3> QED
      BY <3>1, <3>2
  <2> QED
    BY <2>1 DEF MarkFollowsRecent
<1> QED
  BY <1>5, <1>8, <1>10 DEF HealthInv

LEMMA CleanupStep ==
  ASSUME HealthInv, Cleanup
  PROVE  HealthInv'
<1>1. /\ windows' = [a \in Monitored |-> IF a \in stale THEN NoWindow ELSE windows[a]]
      /\ healthyState' = healthyState \ stale
      /\ recent' = [a \in Monitored |-> IF a \in stale THEN <<>> ELSE recent[a]]
      /\ retuned' = retuned \ stale
      /\ stale' = {}
      /\ UNCHANGED <<disableThreshold, recoveryThreshold>>
  BY DEF Cleanup
<1>2. <<>> \in Seq(BOOLEAN)
  BY EmptySeq
<1>3. HealthTypeOK'
  BY <1>1, <1>2 DEF HealthInv, HealthTypeOK
<1>4. \A a \in stale : a \in Monitored => windows'[a] = NoWindow /\ recent'[a] = <<>>
  BY <1>1
<1>5. \A a \in Monitored \ stale : windows'[a] = windows[a] /\ recent'[a] = recent[a]
  BY <1>1
<1>6. RingsHoldRecent'
  <2>1. ASSUME NEW a \in Monitored  PROVE RingOf(WindowOf(a), recent[a])'
    <3>1. CASE a \in stale
      BY <1>4, <3>1, NewRing DEF WindowOf
    <3>2. CASE a \notin stale
      BY <1>5, <3>2 DEF WindowOf, HealthInv, RingsHoldRecent
    <3> QED
      BY <3>1, <3>2
  <2> QED
    BY <2>1 DEF RingsHoldRecent
<1>7. LowerThreshold' = LowerThreshold /\ HigherThreshold' = HigherThreshold
  BY <1>1 DEF LowerThreshold, HigherThreshold
<1>8. MarkFollowsRecent'
  <2>1. ASSUME NEW a \in Monitored, windows'[a] # NoWindow, a \notin retuned'
        PROVE  IF a \in healthyState' THEN ~RecentBelow(recent'[a], LowerThreshold')
                                      ELSE RecentBelow(recent'[a], HigherThreshold')
    <3>1. a \notin stale
      BY <1>4, <2>1
    <3>2. /\ a \notin retuned /\ windows[a] # NoWindow
          /\ (a \in healthyState' <=> a \in healthyState)
      BY <1>1, <1>5, <2>1, <3>1
    <3> QED
      BY <1>5, <1>7, <3>1, <3>2 DEF HealthInv, MarkFollowsRecent
  <2> QED
    BY <2>1 DEF MarkFollowsRecent
<1> QED
  BY <1>3, <1>6, <1>8 DEF HealthInv

LEMMA SetterStep ==
  ASSUME HealthInv, NEW t \in Thresholds, SetThreshold(t) \/ SetRecoveryThreshold(t)
  PROVE  HealthInv'
<1>1. /\ UNCHANGED <<windows, healthyState, stale, recent>> /\ retuned' = Monitored
      /\ {disableThreshold', recoveryThreshold'} \subseteq Thresholds
  BY DEF SetThreshold, SetRecoveryThreshold, HealthInv, HealthTypeOK
<1>2. HealthTypeOK'
  BY <1>1 DEF HealthInv, HealthTypeOK
<1>3. RingsHoldRecent'
  BY <1>1 DEF HealthInv, RingsHoldRecent, WindowOf
<1>4. MarkFollowsRecent'
  BY <1>1 DEF MarkFollowsRecent
<1> QED
  BY <1>2, <1>3, <1>4 DEF HealthInv

LEMMA HealthInvariance == HealthSpec => []HealthInv
<1>1. HealthInit => HealthInv
  <2> SUFFICES ASSUME HealthInit PROVE HealthInv
    OBVIOUS
  <2>1. HealthTypeOK
    BY EmptySeq, HealthAssumption DEF HealthInit, HealthTypeOK
  <2>2. RingsHoldRecent
    BY NewRing DEF HealthInit, RingsHoldRecent, WindowOf
  <2>3. MarkFollowsRecent
    BY DEF HealthInit, MarkFollowsRecent
  <2> QED
    BY <2>1, <2>2, <2>3 DEF HealthInv
<1>2. HealthInv /\ [HealthNext]_healthVars => HealthInv'
  <2> SUFFICES ASSUME HealthInv, [HealthNext]_healthVars PROVE HealthInv'
    OBVIOUS
  <2>1. ASSUME NEW a \in Monitored, NEW success \in BOOLEAN, RecordResult(a, success)
        PROVE  HealthInv'
    BY <2>1, RecordResultStep
  <2>2. ASSUME NEW a \in Monitored, HalfAnHourPasses(a)  PROVE HealthInv'
    BY <2>2 DEF HalfAnHourPasses, HealthInv, HealthTypeOK, RingsHoldRecent, WindowOf,
                MarkFollowsRecent, LowerThreshold, HigherThreshold
  <2>3. ASSUME Cleanup  PROVE HealthInv'
    BY <2>3, CleanupStep
  <2>4. ASSUME NEW t \in Thresholds, SetThreshold(t) \/ SetRecoveryThreshold(t)
        PROVE  HealthInv'
    BY <2>4, SetterStep
  <2>5. ASSUME UNCHANGED healthVars  PROVE HealthInv'
    BY <2>5 DEF healthVars, HealthInv, HealthTypeOK, RingsHoldRecent, WindowOf,
                MarkFollowsRecent, LowerThreshold, HigherThreshold
  <2> QED
    BY <2>1, <2>2, <2>3, <2>4, <2>5 DEF HealthNext
<1> QED
  BY <1>1, <1>2, PTL DEF HealthSpec

(* The monitor's windows, marks and thresholds (health_monitor.go) keep    *)
(* their types: the ring's count and successes never leave the window.     *)
THEOREM HealthTypeCorrect == HealthSpec => []HealthTypeOK
<1>1. HealthInv => HealthTypeOK
  BY DEF HealthInv
<1> QED
  BY <1>1, HealthInvariance, PTL

(* What the monitor answers of an account, its consecutive failures and    *)
(* whether it is healthy, follows the last WindowSize results of it, for   *)
(* any window, any thresholds and any accounts.                            *)
THEOREM MonitorFollowsRecent == HealthSpec => []HealthFollowsRecent
<1>1. HealthInv => HealthFollowsRecent
  <2> SUFFICES ASSUME HealthInv, NEW a \in Monitored, windows[a] # NoWindow
               PROVE  /\ ConsecutiveFailures(windows[a]) = EndsFailing(recent[a])
                      /\ a \in retuned \/ IF Healthy(a)
                                          THEN ~RecentBelow(recent[a], LowerThreshold)
                                          ELSE RecentBelow(recent[a], HigherThreshold)
    BY DEF HealthFollowsRecent
  <2>1. windows[a] \in Window /\ recent[a] \in Seq(BOOLEAN) /\ RingOf(windows[a], recent[a])
    BY DEF HealthInv, HealthTypeOK, RingsHoldRecent, WindowOf
  <2>2. ConsecutiveFailures(windows[a]) = EndsFailing(recent[a])
    BY <2>1, RingFailures
  <2>3. Healthy(a) <=> a \in healthyState
    BY DEF Healthy
  <2> QED
    BY <2>2, <2>3 DEF HealthInv, MarkFollowsRecent
<1> QED
  BY <1>1, HealthInvariance, PTL
-------------------------------------------------------------------------------
Job == [pc : JobPCs, account : Providers \cup {"none"}, info : Infos \cup {"none"}]

(* A job keeps its shape, a goroutine of the sweep its account, and what a *)
(* job is about to store is an answer.                                     *)
JobShape ==
  /\ job \in [Jobs -> Job]
  /\ \A a \in Providers : job[a].account = a
  /\ \A c \in BalanceCalls : job[c].pc # "idle" => job[c].account \in Providers
  /\ \A j \in Jobs : job[j].pc \in {"filling", "storing", "copying"} => job[j].info \in Infos

(* Only what a sweep that runs has listed is at work. *)
OnlyListedWork ==
  /\ \A a \in Providers : job[a].pc \notin {"idle", "done"} => sweep = "running" /\ a \in listed
  /\ sweep = "done" => \A a \in listed : job[a].pc = "done"

Holding == {a \in Providers : job[a].pc \in {"querying", "storing", "copying", "reporting"}}

SlotsCounted == taken = Cardinality(Holding) /\ taken <= AtOnce

Reported == {a \in listed : job[a].pc = "done"}

ResultsOfReported == results.accounts = Reported /\ results.count = Cardinality(Reported)

KnownWhenCopied ==
  \A a \in listed : job[a].pc \in {"copying", "reporting", "done"} => cacheMap[a] # "none"

BalanceShape ==
  /\ sweep \in {"idle", "running", "done"}
  /\ listed \subseteq Providers
  /\ cacheMap \in [Providers -> Infos \cup {"none"}]
  /\ redisBalance \in [Providers -> Infos \cup {"none"}]

BalanceInv ==
  /\ BalanceShape /\ JobShape /\ OnlyListedWork /\ SlotsCounted /\ ResultsOfReported
  /\ KnownWhenCopied

LEMMA HoldingFinite ==
  ASSUME listed \subseteq Providers
  PROVE  /\ IsFiniteSet(Holding) /\ Cardinality(Holding) \in Nat
         /\ IsFiniteSet(Reported) /\ Cardinality(Reported) \in Nat
<1>1. IsFiniteSet(Providers)
  BY BalanceAssumption
<1>2. Holding \subseteq Providers /\ Reported \subseteq Providers
  BY DEF Holding, Reported
<1> QED
  BY <1>1, <1>2, FS_Subset, FS_CardinalityType

LEMMA JobChanges ==
  ASSUME job \in [Jobs -> Job], NEW j \in Jobs, NEW r \in Job, job' = [job EXCEPT ![j] = r]
  PROVE  job' \in [Jobs -> Job] /\ job'[j] = r /\ \A k \in Jobs \ {j} : job'[k] = job[k]
OBVIOUS

LEMMA JobFields ==
  ASSUME NEW r \in Job
  PROVE  /\ r.pc \in JobPCs
         /\ r.account \in Providers \cup {"none"} /\ r.info \in Infos \cup {"none"}
         /\ \A p \in JobPCs : /\ [r EXCEPT !.pc = p] \in Job
                              /\ [r EXCEPT !.pc = p].pc = p
                              /\ [r EXCEPT !.pc = p].account = r.account
                              /\ [r EXCEPT !.pc = p].info = r.info
BY DEF Job

(* The jobs of Providers and BalanceCalls are different ones. *)
LEMMA TwoKindsOfJobs ==
  /\ Providers \subseteq Jobs /\ BalanceCalls \subseteq Jobs
  /\ \A c \in BalanceCalls : c \notin Providers
  /\ \A j \in Jobs : j \in Providers \/ j \in BalanceCalls
BY BalanceAssumption DEF Jobs

(* A call disturbs no goroutine of the sweep, and forgets no account. *)
LEMMA CallStep ==
  ASSUME BalanceInv, NEW c \in BalanceCalls, NEW r \in Job,
         r.account \in Providers,
         r.pc \in {"filling", "storing", "copying"} => r.info \in Infos,
         job' = [job EXCEPT ![c] = r],
         UNCHANGED <<sweep, listed, taken, results>>,
         cacheMap' \in [Providers -> Infos \cup {"none"}],
         \A a \in Providers : cacheMap[a] # "none" => cacheMap'[a] # "none",
         redisBalance' \in [Providers -> Infos \cup {"none"}]
  PROVE  BalanceInv'
<1>1. c \in Jobs /\ Providers \subseteq Jobs /\ c \notin Providers
  BY TwoKindsOfJobs
<1>2. job \in [Jobs -> Job]
  BY DEF BalanceInv, JobShape
<1>3. job' \in [Jobs -> Job] /\ job'[c] = r /\ \A k \in Jobs \ {c} : job'[k] = job[k]
  BY <1>1, <1>2, JobChanges
<1>4. \A a \in Providers : job'[a] = job[a]
  BY <1>1, <1>3
<1>5. listed \subseteq Providers
  BY DEF BalanceInv, BalanceShape
<1>6. BalanceShape'
  BY DEF BalanceInv, BalanceShape
<1>7. JobShape'
  <2>1. \A a \in Providers : job'[a].account = a
    BY <1>4 DEF BalanceInv, JobShape
  <2>2. \A d \in BalanceCalls : job'[d].pc # "idle" => job'[d].account \in Providers
    BY <1>3, TwoKindsOfJobs DEF BalanceInv, JobShape
  <2>3. ASSUME NEW j \in Jobs, job'[j].pc \in {"filling", "storing", "copying"}
        PROVE  job'[j].info \in Infos
    BY <1>3, <2>3 DEF BalanceInv, JobShape
  <2> QED
    BY <1>3, <2>1, <2>2, <2>3 DEF JobShape
<1>8. OnlyListedWork'
  BY <1>4, <1>5 DEF BalanceInv, OnlyListedWork
<1>9. SlotsCounted'
  <2>1. Holding' = Holding
    BY <1>4 DEF Holding
  <2> QED
    BY <2>1 DEF BalanceInv, SlotsCounted
<1>10. ResultsOfReported'
  <2>1. Reported' = Reported
    BY <1>4, <1>5 DEF Reported
  <2> QED
    BY <2>1 DEF BalanceInv, ResultsOfReported
<1>11. KnownWhenCopied'
  BY <1>4, <1>5 DEF BalanceInv, KnownWhenCopied
<1> QED
  BY <1>6, <1>7, <1>8, <1>9, <1>10, <1>11 DEF BalanceInv

(* A goroutine of the sweep that asks, stores and copies keeps its slot. *)
LEMMA SweepJobStep ==
  ASSUME BalanceInv, NEW a \in Providers, NEW r \in Job,
         job[a].pc \in {"querying", "storing", "copying"},
         r.pc \in {"storing", "copying", "reporting"}, r.account = a,
         r.pc \in {"storing", "copying"} => r.info \in Infos,
         job' = [job EXCEPT ![a] = r],
         UNCHANGED <<sweep, listed, taken, results>>,
         cacheMap' \in [Providers -> Infos \cup {"none"}],
         \A b \in Providers : cacheMap[b] # "none" => cacheMap'[b] # "none",
         r.pc \in {"copying", "reporting"} => cacheMap'[a] # "none",
         redisBalance' \in [Providers -> Infos \cup {"none"}]
  PROVE  BalanceInv'
<1>1. a \in Jobs /\ Providers \subseteq Jobs
  BY TwoKindsOfJobs
<1>2. job \in [Jobs -> Job]
  BY DEF BalanceInv, JobShape
<1>3. job' \in [Jobs -> Job] /\ job'[a] = r /\ \A k \in Jobs \ {a} : job'[k] = job[k]
  BY <1>1, <1>2, JobChanges
<1>4. \A b \in Providers \ {a} : job'[b] = job[b]
  BY <1>1, <1>3
<1>5. listed \subseteq Providers /\ sweep = "running" /\ a \in listed
  BY DEF BalanceInv, BalanceShape, OnlyListedWork
<1>6. BalanceShape'
  BY DEF BalanceInv, BalanceShape
<1>7. JobShape'
  <2>1. \A b \in Providers : job'[b].account = b
    BY <1>3, <1>4 DEF BalanceInv, JobShape
  <2>2. ASSUME NEW j \in Jobs, job'[j].pc \in {"filling", "storing", "copying"}
        PROVE  job'[j].info \in Infos
    BY <1>3, <2>2 DEF BalanceInv, JobShape
  <2>3. \A c \in BalanceCalls : job'[c].pc # "idle" => job'[c].account \in Providers
    BY <1>3, TwoKindsOfJobs DEF BalanceInv, JobShape
  <2> QED
    BY <1>3, <2>1, <2>2, <2>3 DEF JobShape
<1>8. OnlyListedWork'
  BY <1>3, <1>4, <1>5 DEF BalanceInv, OnlyListedWork
<1>9. SlotsCounted'
  <2>1. Holding' = Holding
    BY <1>3, <1>4 DEF Holding
  <2> QED
    BY <2>1 DEF BalanceInv, SlotsCounted
<1>10. ResultsOfReported'
  <2>1. Reported' = Reported
    BY <1>3, <1>4, <1>5 DEF Reported
  <2> QED
    BY <2>1 DEF BalanceInv, ResultsOfReported
<1>11. KnownWhenCopied'
  BY <1>3, <1>4, <1>5 DEF BalanceInv, KnownWhenCopied
<1> QED
  BY <1>6, <1>7, <1>8, <1>9, <1>10, <1>11 DEF BalanceInv

LEMMA AcquireStep ==
  ASSUME BalanceInv, NEW a \in Providers, Acquire(a)
  PROVE  BalanceInv'
<1> DEFINE r == [job[a] EXCEPT !.pc = "querying"]
<1>1. a \in Jobs /\ Providers \subseteq Jobs
  BY TwoKindsOfJobs
<1>2. job \in [Jobs -> Job] /\ job[a] \in Job
  BY <1>1 DEF BalanceInv, JobShape
<1>3. r \in Job /\ r.pc = "querying" /\ r.account = a
  <2>1. "querying" \in JobPCs
    BY DEF JobPCs
  <2>2. job[a].account = a
    BY DEF BalanceInv, JobShape
  <2> QED
    BY <1>2, <2>1, <2>2, JobFields
<1>4. job' = [job EXCEPT ![a] = r]
  BY DEF Acquire, JobGoes
<1> HIDE DEF r
<1>5. job' \in [Jobs -> Job] /\ job'[a] = r /\ \A k \in Jobs \ {a} : job'[k] = job[k]
  BY <1>1, <1>2, <1>3, <1>4, JobChanges
<1>6. /\ job[a].pc = "waiting" /\ taken < AtOnce /\ taken' = taken + 1
      /\ UNCHANGED <<sweep, listed, results, cacheMap, redisBalance>>
  BY DEF Acquire
<1>7. listed \subseteq Providers /\ sweep = "running" /\ a \in listed
  BY <1>6 DEF BalanceInv, BalanceShape, OnlyListedWork
<1>8. BalanceShape'
  BY <1>6 DEF BalanceInv, BalanceShape
<1>9. JobShape'
  <2>1. \A b \in Providers : job'[b].account = b
    BY <1>1, <1>3, <1>5 DEF BalanceInv, JobShape
  <2>2. ASSUME NEW j \in Jobs, job'[j].pc \in {"filling", "storing", "copying"}
        PROVE  job'[j].info \in Infos
    BY <1>3, <1>5, <2>2 DEF BalanceInv, JobShape
  <2>3. \A c \in BalanceCalls : job'[c].pc # "idle" => job'[c].account \in Providers
    BY <1>5, TwoKindsOfJobs DEF BalanceInv, JobShape
  <2> QED
    BY <1>5, <2>1, <2>2, <2>3 DEF JobShape
<1>10. OnlyListedWork'
  BY <1>1, <1>3, <1>5, <1>6, <1>7 DEF BalanceInv, OnlyListedWork
<1>11. SlotsCounted'
  <2>1. Holding' = Holding \cup {a} /\ a \notin Holding
    BY <1>1, <1>3, <1>5, <1>6 DEF Holding
  <2>2. IsFiniteSet(Holding) /\ Cardinality(Holding) \in Nat
    BY <1>7, HoldingFinite
  <2>3. Cardinality(Holding') = Cardinality(Holding) + 1
    BY <2>1, <2>2, FS_AddElement
  <2> QED
    BY <1>6, <2>2, <2>3, BalanceAssumption DEF BalanceInv, SlotsCounted
<1>12. ResultsOfReported'
  <2>1. Reported' = Reported
    BY <1>1, <1>3, <1>5, <1>6, <1>7 DEF Reported
  <2> QED
    BY <1>6, <2>1 DEF BalanceInv, ResultsOfReported
<1>13. KnownWhenCopied'
  BY <1>1, <1>3, <1>5, <1>6, <1>7 DEF BalanceInv, KnownWhenCopied
<1> QED
  BY <1>8, <1>9, <1>10, <1>11, <1>12, <1>13 DEF BalanceInv

LEMMA ReportStep ==
  ASSUME BalanceInv, NEW a \in Providers, Report(a)
  PROVE  BalanceInv'
<1> DEFINE r == [job[a] EXCEPT !.pc = "done"]
<1>1. a \in Jobs /\ Providers \subseteq Jobs
  BY TwoKindsOfJobs
<1>2. job \in [Jobs -> Job] /\ job[a] \in Job
  BY <1>1 DEF BalanceInv, JobShape
<1>3. r \in Job /\ r.pc = "done" /\ r.account = a
  <2>1. "done" \in JobPCs
    BY DEF JobPCs
  <2>2. job[a].account = a
    BY DEF BalanceInv, JobShape
  <2> QED
    BY <1>2, <2>1, <2>2, JobFields
<1>4. job' = [job EXCEPT ![a] = r]
  BY DEF Report, JobGoes
<1> HIDE DEF r
<1>5. job' \in [Jobs -> Job] /\ job'[a] = r /\ \A k \in Jobs \ {a} : job'[k] = job[k]
  BY <1>1, <1>2, <1>3, <1>4, JobChanges
<1>6. /\ job[a].pc = "reporting" /\ taken' = taken - 1
      /\ results'.accounts = results.accounts \cup {a} /\ results'.count = results.count + 1
      /\ UNCHANGED <<sweep, listed, cacheMap, redisBalance>>
  BY DEF Report
<1>7. listed \subseteq Providers /\ sweep = "running" /\ a \in listed
  BY <1>6 DEF BalanceInv, BalanceShape, OnlyListedWork
<1>8. BalanceShape'
  BY <1>6 DEF BalanceInv, BalanceShape
<1>9. JobShape'
  <2>1. \A b \in Providers : job'[b].account = b
    BY <1>1, <1>3, <1>5 DEF BalanceInv, JobShape
  <2>2. ASSUME NEW j \in Jobs, job'[j].pc \in {"filling", "storing", "copying"}
        PROVE  job'[j].info \in Infos
    BY <1>3, <1>5, <2>2 DEF BalanceInv, JobShape
  <2>3. \A c \in BalanceCalls : job'[c].pc # "idle" => job'[c].account \in Providers
    BY <1>5, TwoKindsOfJobs DEF BalanceInv, JobShape
  <2> QED
    BY <1>5, <2>1, <2>2, <2>3 DEF JobShape
<1>10. OnlyListedWork'
  BY <1>1, <1>3, <1>5, <1>6, <1>7 DEF BalanceInv, OnlyListedWork
<1>11. SlotsCounted'
  <2>1. Holding = Holding' \cup {a} /\ a \notin Holding'
    BY <1>1, <1>3, <1>5, <1>6 DEF Holding
  <2>2. IsFiniteSet(Holding) /\ Cardinality(Holding) \in Nat
    BY <1>7, HoldingFinite
  <2>3. Holding' \subseteq Holding
    BY <2>1
  <2>4. IsFiniteSet(Holding') /\ Cardinality(Holding') \in Nat
    BY <2>2, <2>3, FS_Subset, FS_CardinalityType
  <2>5. Cardinality(Holding) = Cardinality(Holding') + 1
    BY <2>1, <2>4, FS_AddElement
  <2> QED
    BY <1>6, <2>4, <2>5, BalanceAssumption DEF BalanceInv, SlotsCounted
<1>12. ResultsOfReported'
  <2>1. Reported' = Reported \cup {a} /\ a \notin Reported
    BY <1>1, <1>3, <1>5, <1>6, <1>7 DEF Reported
  <2>2. IsFiniteSet(Reported)
    BY <1>7, HoldingFinite
  <2>3. Cardinality(Reported') = Cardinality(Reported) + 1
    BY <2>1, <2>2, FS_AddElement
  <2> QED
    BY <1>6, <2>1, <2>3 DEF BalanceInv, ResultsOfReported
<1>13. KnownWhenCopied'
  BY <1>1, <1>3, <1>5, <1>6, <1>7 DEF BalanceInv, KnownWhenCopied
<1> QED
  BY <1>8, <1>9, <1>10, <1>11, <1>12, <1>13 DEF BalanceInv

LEMMA ListActiveStep ==
  ASSUME BalanceInv, NEW S \in SUBSET Providers, ListActive(S)
  PROVE  BalanceInv'
<1>1. Providers \subseteq Jobs /\ S \subseteq Providers
  BY TwoKindsOfJobs
<1>2. job \in [Jobs -> Job]
  BY DEF BalanceInv, JobShape
<1>3. /\ sweep # "running" /\ sweep' = "running" /\ listed' = S
      /\ results'.accounts = {} /\ results'.count = 0
      /\ job' = [j \in Jobs |-> IF j \in S THEN [job[j] EXCEPT !.pc = "waiting"] ELSE job[j]]
      /\ UNCHANGED <<taken, cacheMap, redisBalance>>
  BY DEF ListActive
<1>4. "waiting" \in JobPCs
  BY DEF JobPCs
<1>5. ASSUME NEW j \in Jobs
      PROVE  /\ job'[j] \in Job /\ job'[j].account = job[j].account /\ job'[j].info = job[j].info
             /\ j \in S => job'[j].pc = "waiting"
             /\ j \notin S => job'[j] = job[j]
  <2>1. job[j] \in Job
    BY <1>2
  <2>2. CASE j \in S
    BY <1>3, <1>4, <2>1, <2>2, JobFields
  <2>3. CASE j \notin S
    BY <1>3, <2>1, <2>3
  <2> QED
    BY <2>2, <2>3
<1>6. \A a \in Providers : job[a].pc \in {"idle", "done"}
  BY <1>3 DEF BalanceInv, OnlyListedWork
<1>7. BalanceShape'
  BY <1>1, <1>3 DEF BalanceInv, BalanceShape
<1>8. JobShape'
  <2>1. job' \in [Jobs -> Job]
    BY <1>3, <1>5
  <2>2. \A a \in Providers : job'[a].account = a
    BY <1>1, <1>5 DEF BalanceInv, JobShape
  <2>3. ASSUME NEW j \in Jobs, job'[j].pc \in {"filling", "storing", "copying"}
        PROVE  job'[j].info \in Infos
    BY <1>5, <2>3 DEF BalanceInv, JobShape
  <2>4. \A c \in BalanceCalls : job'[c].pc # "idle" => job'[c].account \in Providers
    BY <1>1, <1>5, TwoKindsOfJobs DEF BalanceInv, JobShape
  <2> QED
    BY <2>1, <2>2, <2>3, <2>4 DEF JobShape
<1>9. OnlyListedWork'
  BY <1>1, <1>3, <1>5, <1>6 DEF OnlyListedWork
<1>10. SlotsCounted'
  <2>1. Holding' = Holding
    BY <1>1, <1>5, <1>6 DEF Holding
  <2> QED
    BY <1>3, <2>1 DEF BalanceInv, SlotsCounted
<1>11. ResultsOfReported'
  <2>1. Reported' = {}
    BY <1>1, <1>3, <1>5 DEF Reported
  <2> QED
    BY <1>3, <2>1, FS_EmptySet DEF ResultsOfReported
<1>12. KnownWhenCopied'
  BY <1>1, <1>3, <1>5 DEF KnownWhenCopied
<1> QED
  BY <1>7, <1>8, <1>9, <1>10, <1>11, <1>12 DEF BalanceInv

LEMMA SweepReturnsStep ==
  ASSUME BalanceInv, SweepReturns
  PROVE  BalanceInv'
<1>1. /\ sweep = "running" /\ sweep' = "done" /\ \A a \in listed : job[a].pc = "done"
      /\ UNCHANGED <<listed, taken, results, job, cacheMap, redisBalance>>
  BY DEF SweepReturns
<1>2. BalanceShape'
  BY <1>1 DEF BalanceInv, BalanceShape
<1>3. JobShape'
  BY <1>1 DEF BalanceInv, JobShape
<1>4. OnlyListedWork'
  BY <1>1 DEF BalanceInv, OnlyListedWork
<1>5. SlotsCounted'
  BY <1>1 DEF BalanceInv, SlotsCounted, Holding
<1>6. ResultsOfReported'
  BY <1>1 DEF BalanceInv, ResultsOfReported, Reported
<1>7. KnownWhenCopied'
  BY <1>1 DEF BalanceInv, KnownWhenCopied
<1> QED
  BY <1>2, <1>3, <1>4, <1>5, <1>6, <1>7 DEF BalanceInv

LEMMA BalanceExpiresStep ==
  ASSUME BalanceInv,
         UNCHANGED <<sweep, listed, taken, results, job, cacheMap>>,
         redisBalance' \in [Providers -> Infos \cup {"none"}]
  PROVE  BalanceInv'
<1>1. BalanceShape'
  BY DEF BalanceInv, BalanceShape
<1>2. JobShape'
  BY DEF BalanceInv, JobShape
<1>3. OnlyListedWork'
  BY DEF BalanceInv, OnlyListedWork
<1>4. SlotsCounted'
  BY DEF BalanceInv, SlotsCounted, Holding
<1>5. ResultsOfReported'
  BY DEF BalanceInv, ResultsOfReported, Reported
<1>6. KnownWhenCopied'
  BY DEF BalanceInv, KnownWhenCopied
<1> QED
  BY <1>1, <1>2, <1>3, <1>4, <1>5, <1>6 DEF BalanceInv

(* What any job does, by what it changes: itself and at most one entry of  *)
(* a cache.                                                                *)
LEMMA QueryStep ==
  ASSUME BalanceInv, NEW j \in Jobs, NEW info \in Infos, queryPlatformBalance(j, info)
  PROVE  BalanceInv'
<1> DEFINE r == [job[j] EXCEPT !.pc = "storing", !.info = info]
<1>1. job[j] \in Job
  BY DEF BalanceInv, JobShape
<1>2. r \in Job /\ r.pc = "storing" /\ r.info = info /\ r.account = job[j].account
  BY <1>1 DEF Job, JobPCs
<1>3. /\ job[j].pc = "querying" /\ job' = [job EXCEPT ![j] = r]
      /\ UNCHANGED <<sweep, listed, taken, results, cacheMap, redisBalance>>
  BY DEF queryPlatformBalance
<1> HIDE DEF r
<1>4. /\ cacheMap \in [Providers -> Infos \cup {"none"}]
      /\ redisBalance \in [Providers -> Infos \cup {"none"}]
  BY DEF BalanceInv, BalanceShape
<1>5. CASE j \in BalanceCalls
  <2>1. r.account \in Providers
    BY <1>2, <1>3, <1>5 DEF BalanceInv, JobShape
  <2> QED
    BY <1>2, <1>3, <1>4, <1>5, <2>1, CallStep
<1>6. CASE j \in Providers
  <2>1. r.account = j
    BY <1>2, <1>6 DEF BalanceInv, JobShape
  <2> QED
    BY <1>2, <1>3, <1>4, <1>6, <2>1, SweepJobStep
<1> QED
  BY <1>5, <1>6, TwoKindsOfJobs

LEMMA StoreLocalStep ==
  ASSUME BalanceInv, NEW j \in Jobs, StoreLocal(j)
  PROVE  BalanceInv'
<1> DEFINE r == [job[j] EXCEPT !.pc = "copying"]
<1>1. job[j] \in Job /\ "copying" \in JobPCs
  BY DEF BalanceInv, JobShape, JobPCs
<1>2. r \in Job /\ r.pc = "copying" /\ r.info = job[j].info /\ r.account = job[j].account
  BY <1>1, JobFields
<1>3. /\ job[j].pc = "storing" /\ job' = [job EXCEPT ![j] = r]
      /\ cacheMap' = [cacheMap EXCEPT ![job[j].account] = job[j].info]
      /\ UNCHANGED <<sweep, listed, taken, results, redisBalance>>
  BY DEF StoreLocal, JobGoes
<1> HIDE DEF r
<1>4. /\ cacheMap \in [Providers -> Infos \cup {"none"}]
      /\ redisBalance \in [Providers -> Infos \cup {"none"}]
  BY DEF BalanceInv, BalanceShape
<1>5. job[j].info \in Infos /\ job[j].info # "none"
  BY <1>3 DEF BalanceInv, JobShape, Infos
<1>6. /\ cacheMap' \in [Providers -> Infos \cup {"none"}]
      /\ \A b \in Providers : cacheMap[b] # "none" => cacheMap'[b] # "none"
      /\ \A b \in Providers : b = job[j].account => cacheMap'[b] # "none"
  BY <1>3, <1>4, <1>5
<1>7. redisBalance' \in [Providers -> Infos \cup {"none"}]
  BY <1>3, <1>4
<1>8. CASE j \in BalanceCalls
  <2>1. r.account \in Providers
    BY <1>2, <1>3, <1>8 DEF BalanceInv, JobShape
  <2> QED
    BY <1>2, <1>3, <1>5, <1>6, <1>7, <1>8, <2>1, CallStep
<1>9. CASE j \in Providers
  <2>1. job[j].account = j
    BY <1>9 DEF BalanceInv, JobShape
  <2> QED
    BY <1>2, <1>3, <1>5, <1>6, <1>7, <1>9, <2>1, SweepJobStep
<1> QED
  BY <1>8, <1>9, TwoKindsOfJobs

LEMMA CopyStep ==
  ASSUME BalanceInv, NEW j \in Jobs, NEW ok \in BOOLEAN, updateRedisCache(j, ok)
  PROVE  BalanceInv'
<1> DEFINE r == [job[j] EXCEPT !.pc = IF j \in Providers THEN "reporting" ELSE "done"]
<1>1. job[j] \in Job /\ "reporting" \in JobPCs /\ "done" \in JobPCs
  BY DEF BalanceInv, JobShape, JobPCs
<1>2. /\ r \in Job /\ r.info = job[j].info /\ r.account = job[j].account
      /\ r.pc = IF j \in Providers THEN "reporting" ELSE "done"
  BY <1>1, JobFields
<1>3. /\ job[j].pc = "copying" /\ job' = [job EXCEPT ![j] = r]
      /\ redisBalance' = IF ok THEN [redisBalance EXCEPT ![job[j].account] = job[j].info]
                               ELSE redisBalance
      /\ UNCHANGED <<sweep, listed, taken, results, cacheMap>>
  BY DEF updateRedisCache, JobGoes
<1> HIDE DEF r
<1>4. /\ cacheMap \in [Providers -> Infos \cup {"none"}]
      /\ redisBalance \in [Providers -> Infos \cup {"none"}]
  BY DEF BalanceInv, BalanceShape
<1>5. redisBalance' \in [Providers -> Infos \cup {"none"}]
  <2>1. job[j].info \in Infos
    BY <1>3 DEF BalanceInv, JobShape
  <2> QED
    BY <1>3, <1>4, <2>1
<1>6. CASE j \in BalanceCalls
  <2>1. r.pc = "done" /\ r.account \in Providers
    BY <1>2, <1>3, <1>6, TwoKindsOfJobs DEF BalanceInv, JobShape
  <2> QED
    BY <1>2, <1>3, <1>4, <1>5, <1>6, <2>1, CallStep
<1>7. CASE j \in Providers
  <2>1. job[j].account = j /\ r.pc = "reporting"
    BY <1>2, <1>7 DEF BalanceInv, JobShape
  <2>2. cacheMap[j] # "none"
    BY <1>3, <1>7 DEF BalanceInv, KnownWhenCopied, OnlyListedWork
  <2> QED
    BY <1>2, <1>3, <1>4, <1>5, <1>7, <2>1, <2>2, SweepJobStep
<1> QED
  BY <1>6, <1>7, TwoKindsOfJobs

LEMMA CallsStep ==
  ASSUME BalanceInv, NEW c \in BalanceCalls,
         \/ LoadLocal(c) \/ FillLocal(c)
         \/ \E ok \in BOOLEAN : ReadRedis(c, ok) \/ QueryBalance(c, ok)
         \/ \E a \in Providers : GetBalance(c, a) \/ RefreshBalance(c, a)
  PROVE  BalanceInv'
<1>0. /\ c \in Jobs /\ job \in [Jobs -> Job] /\ job[c] \in Job
      /\ cacheMap \in [Providers -> Infos \cup {"none"}]
      /\ redisBalance \in [Providers -> Infos \cup {"none"}]
  BY TwoKindsOfJobs DEF BalanceInv, JobShape, BalanceShape
<1>1. ASSUME NEW p \in JobPCs, p \notin {"filling", "storing", "copying"}, JobGoes(c, p),
             job[c].pc # "idle",
             UNCHANGED <<sweep, listed, taken, results, cacheMap, redisBalance>>
      PROVE  BalanceInv'
  <2> DEFINE r == [job[c] EXCEPT !.pc = p]
  <2>1. /\ r \in Job /\ r.pc = p /\ r.account = job[c].account
        /\ job' = [job EXCEPT ![c] = r]
    BY <1>0, <1>1, JobFields DEF JobGoes
  <2>2. job[c].account \in Providers
    BY <1>1 DEF BalanceInv, JobShape
  <2> HIDE DEF r
  <2> QED
    BY <1>0, <1>1, <2>1, <2>2, CallStep
<1>2. CASE LoadLocal(c)
  BY <1>1, <1>2 DEF LoadLocal, JobPCs
<1>3. CASE FillLocal(c)
  <2> DEFINE r == [job[c] EXCEPT !.pc = "done"]
  <2>1. "done" \in JobPCs
    BY DEF JobPCs
  <2>2. r \in Job /\ r.pc = "done" /\ r.account = job[c].account
    BY <1>0, <2>1, JobFields
  <2>3. /\ job' = [job EXCEPT ![c] = r] /\ job[c].pc = "filling"
        /\ cacheMap' = [cacheMap EXCEPT ![job[c].account] = job[c].info]
        /\ UNCHANGED <<sweep, listed, taken, results, redisBalance>>
    BY <1>3 DEF FillLocal, JobGoes
  <2> HIDE DEF r
  <2>4. /\ job[c].info \in Infos /\ job[c].info # "none"
        /\ job[c].account \in Providers
    BY <1>0, <2>3 DEF BalanceInv, JobShape, Infos
  <2>5. /\ cacheMap' \in [Providers -> Infos \cup {"none"}]
        /\ \A b \in Providers : cacheMap[b] # "none" => cacheMap'[b] # "none"
    BY <1>0, <2>3, <2>4
  <2> QED
    BY <1>0, <2>2, <2>3, <2>4, <2>5, CallStep
<1>4. ASSUME NEW ok \in BOOLEAN, ReadRedis(c, ok)  PROVE BalanceInv'
  <2> DEFINE info == redisBalance[job[c].account]
  <2>1. /\ UNCHANGED <<sweep, listed, taken, results, cacheMap, redisBalance>>
        /\ job[c].pc = "reading"
    BY <1>4 DEF ReadRedis
  <2>4. job[c].account \in Providers
    BY <2>1 DEF BalanceInv, JobShape
  <2>2. CASE ok /\ info # "none"
    <3> DEFINE r == [job[c] EXCEPT !.pc = "filling", !.info = info]
    <3>1. job' = [job EXCEPT ![c] = r]
      BY <1>4, <2>2 DEF ReadRedis
    <3>2. info \in Infos
      BY <1>0, <2>2, <2>4
    <3>3. r \in Job /\ r.pc = "filling" /\ r.info = info /\ r.account = job[c].account
      BY <1>0, <3>2 DEF Job, JobPCs
    <3> HIDE DEF r, info
    <3> QED
      BY <1>0, <2>1, <2>4, <3>1, <3>2, <3>3, CallStep
  <2>3. CASE ~(ok /\ info # "none")
    BY <1>1, <1>4, <2>1, <2>3 DEF ReadRedis, JobGoes, JobPCs
  <2> QED
    BY <2>2, <2>3
<1>5. ASSUME NEW ok \in BOOLEAN, QueryBalance(c, ok)  PROVE BalanceInv'
  BY <1>1, <1>5 DEF QueryBalance, JobPCs
<1>6. ASSUME NEW a \in Providers, GetBalance(c, a) \/ RefreshBalance(c, a)
      PROVE  BalanceInv'
  <2>1. PICK p \in {"loading", "fetching"} :
             job' = [job EXCEPT ![c] = [job[c] EXCEPT !.pc = p, !.account = a]]
    BY <1>6 DEF GetBalance, RefreshBalance
  <2> DEFINE r == [job[c] EXCEPT !.pc = p, !.account = a]
  <2>2. r \in Job /\ r.pc = p /\ r.account = a
    BY <1>0 DEF Job, JobPCs
  <2>3. job' = [job EXCEPT ![c] = r]
    BY <2>1
  <2> HIDE DEF r
  <2>4. UNCHANGED <<sweep, listed, taken, results, cacheMap, redisBalance>>
    BY <1>6 DEF GetBalance, RefreshBalance
  <2> QED
    BY <1>0, <2>2, <2>3, <2>4, CallStep
<1> QED
  BY <1>2, <1>3, <1>4, <1>5, <1>6

LEMMA BalanceInitInv == BalanceInit => BalanceInv
<1> SUFFICES ASSUME BalanceInit PROVE BalanceInv
  OBVIOUS
<1>1. \A j \in Jobs : /\ job[j].pc = "idle" /\ job[j].info = "none"
                      /\ job[j].account = IF j \in Providers THEN j ELSE "none"
  BY DEF BalanceInit
<1>2. Providers \subseteq Jobs
  BY TwoKindsOfJobs
<1>3. BalanceShape
  BY DEF BalanceInit, BalanceShape, Infos
<1>4. JobShape
  <2>1. job \in [Jobs -> Job]
    BY DEF BalanceInit, Job, JobPCs
  <2> QED
    BY <1>1, <1>2, <2>1, TwoKindsOfJobs DEF JobShape
<1>5. OnlyListedWork
  BY <1>1, <1>2 DEF BalanceInit, OnlyListedWork
<1>6. Holding = {} /\ Reported = {} /\ listed = {}
  BY <1>1, <1>2 DEF BalanceInit, Holding, Reported
<1>7. SlotsCounted /\ ResultsOfReported
  BY <1>6, FS_EmptySet, BalanceAssumption DEF BalanceInit, SlotsCounted, ResultsOfReported
<1>8. KnownWhenCopied
  BY <1>6 DEF KnownWhenCopied
<1> QED
  BY <1>3, <1>4, <1>5, <1>7, <1>8 DEF BalanceInv

LEMMA BalanceInvariance == BalanceSpec => []BalanceInv
<1>1. BalanceInv /\ [BalanceNext]_balanceVars => BalanceInv'
  <2> SUFFICES ASSUME BalanceInv, [BalanceNext]_balanceVars PROVE BalanceInv'
    OBVIOUS
  <2>1. ASSUME NEW S \in SUBSET Providers, ListActive(S)  PROVE BalanceInv'
    BY <2>1, ListActiveStep
  <2>2. ASSUME NEW j \in Jobs, Working(j)  PROVE BalanceInv'
    BY <2>2, QueryStep, StoreLocalStep, CopyStep, AcquireStep, ReportStep, CallsStep
       DEF Working
  <2>3. ASSUME SweepReturns  PROVE BalanceInv'
    BY <2>3, SweepReturnsStep
  <2>4. ASSUME NEW c \in BalanceCalls, NEW a \in Providers, GetBalance(c, a) \/ RefreshBalance(c, a)
        PROVE  BalanceInv'
    BY <2>4, CallsStep
  <2>5. ASSUME NEW a \in Providers, BalanceExpires(a)  PROVE BalanceInv'
    BY <2>5, BalanceExpiresStep DEF BalanceExpires, BalanceInv, BalanceShape
  <2>6. ASSUME UNCHANGED balanceVars  PROVE BalanceInv'
    BY <2>6, BalanceExpiresStep DEF balanceVars, BalanceInv, BalanceShape
  <2> QED
    BY <2>1, <2>2, <2>3, <2>4, <2>5, <2>6 DEF BalanceNext
<1> QED
  BY BalanceInitInv, <1>1, PTL DEF BalanceSpec

(* The sweep and the calls for balances (balance_service.go) keep the      *)
(* types: above all, the semaphore never holds more than its slots.        *)
THEOREM BalancesTypeCorrect == BalanceSpec => []BalancesTypeOK
<1>1. BalanceInv => BalancesTypeOK
  <2> SUFFICES ASSUME BalanceInv PROVE BalancesTypeOK
    OBVIOUS
  <2>1. taken \in 0..AtOnce
    BY HoldingFinite, BalanceAssumption DEF BalanceInv, BalanceShape, SlotsCounted
  <2>2. results.accounts \subseteq Providers /\ results.count \in Nat
    BY HoldingFinite DEF BalanceInv, BalanceShape, ResultsOfReported, Reported
  <2>3. \A j \in Jobs : job[j].pc \in JobPCs /\ job[j].account \in Providers \cup {"none"}
    BY JobFields DEF BalanceInv, JobShape
  <2> QED
    BY <2>1, <2>2, <2>3 DEF BalanceInv, BalanceShape, BalancesTypeOK
<1> QED
  BY <1>1, BalanceInvariance, PTL

(* What SweepReportsAll promises of the state a sweep leaves: once it has  *)
(* returned there is one result for every account it found active, and     *)
(* memory knows each of them.                                              *)
SweepLeftNothingOut ==
  sweep = "done" => /\ results.accounts = listed /\ results.count = Cardinality(listed)
                    /\ \A a \in listed : cacheMap[a] # "none"

(* QueryAllBalances returns complete, whatever queries failed and whatever *)
(* calls for the same accounts came between.                               *)
THEOREM SweepIsComplete == BalanceSpec => []SweepLeftNothingOut
<1>1. BalanceInv => SweepLeftNothingOut
  <2> SUFFICES ASSUME BalanceInv, sweep = "done"
               PROVE  /\ results.accounts = listed /\ results.count = Cardinality(listed)
                      /\ \A a \in listed : cacheMap[a] # "none"
    BY DEF SweepLeftNothingOut
  <2>1. \A a \in listed : job[a].pc = "done"
    BY DEF BalanceInv, OnlyListedWork
  <2>2. Reported = listed
    BY <2>1 DEF Reported
  <2> QED
    BY <2>1, <2>2 DEF BalanceInv, ResultsOfReported, KnownWhenCopied
<1> QED
  BY <1>1, BalanceInvariance, PTL
-------------------------------------------------------------------------------
(* A behaviour of the parts side by side is a behaviour of each: what is   *)
(* proved of a part holds where TLC checks it.                             *)
THEOREM GatewayPartsImplementEach == Spec => BatchSpec /\ HealthSpec /\ RetrySpec /\ BalanceSpec
<1>1. Init => BatchInit /\ HealthInit /\ RetryInit /\ BalanceInit
  BY DEF Init
<1>2. [Next]_vars => [BatchNext]_batchVars
  BY DEF Next, Runs, vars
<1>3. [Next]_vars => [HealthNext]_healthVars
  BY DEF Next, Runs, vars
<1>4. [Next]_vars => [RetryNext]_retryVars
  BY DEF Next, Runs, vars
<1>5. [Next]_vars => [BalanceNext]_balanceVars
  BY DEF Next, Runs, vars
<1> QED
  BY <1>1, <1>2, <1>3, <1>4, <1>5, PTL DEF Spec, BatchSpec, HealthSpec, RetrySpec, BalanceSpec

(* Every variable of the four parts keeps its type. *)
THEOREM PartsTypeCorrect == Spec => []PartsTypeOK
<1>1. BatchTypeOK /\ HealthTypeOK /\ RetryTypeOK /\ BalancesTypeOK => PartsTypeOK
  BY DEF PartsTypeOK
<1> QED
  BY <1>1, GatewayPartsImplementEach, BatchTypeCorrect, HealthTypeCorrect, RetryTypeCorrect,
     BalancesTypeCorrect, PTL
===============================================================================
