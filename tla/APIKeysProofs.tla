------------------------------ MODULE APIKeysProofs -----------------------------
(***************************************************************************)
(* Proofs about APIKeys, for any keys, hashes, validations, calls and      *)
(* expiries.                                                               *)
(*                                                                         *)
(* That the cache follows a row needs a reason for every entry that does   *)
(* not: a call that changed the row and has not read its hash yet, or one  *)
(* about to delete that entry; and for every row that a validation holds   *)
(* and is about to store.  Hashes are of one row at most, so that an entry *)
(* has one row to follow.                                                  *)
(***************************************************************************)
EXTENDS APIKeys, TLAPS

CallRecords == [pc : KeyPCs, key : Keys \cup {NoRow}, hash : Hashes \cup {NoRow}]

(* A call past its first statement has a key, one about to delete an entry *)
(* a hash.                                                                 *)
CallsPlaced ==
  \A c \in KeyCalls :
    /\ keyCall[c].pc \in {"updating", "marking", "removing", "written"} => keyCall[c].key \in Keys
    /\ keyCall[c].pc = "clearing" => keyCall[c].hash \in Hashes

(* A hash is issued once, to a row that is there once. *)
HashesIssued ==
  /\ \A k \in Keys : keys[k] # NoRow => k \in used /\ keys[k].hash \in issued
  /\ \A j, k \in Keys : keys[j] # NoRow /\ keys[k] # NoRow /\ keys[j].hash = keys[k].hash => j = k

(* What a validation is about to store is a row as it is, or it changed.   *)
StoringHolds ==
  \A v \in Validations : checking[v] = "storing" =>
    /\ presented[v] \in issued
    /\ \A k \in Keys : keys[k] # NoRow /\ keys[k].hash = presented[v] =>
         held[v] = keys[k] \/ v \in overtaken

(* Entries are of hashes that were issued. *)
EntriesIssued == \A h \in Hashes : entries[h] # NoRow => h \in issued

(* Somebody will delete the entry of k. *)
Clears(c, k) ==
  /\ keyCall[c].key = k
  /\ \/ keyCall[c].pc = "written"
     \/ keyCall[c].pc = "clearing" /\ keyCall[c].hash = keys[k].hash

EntryExplained(k) ==
  \/ entries[keys[k].hash] \in {NoRow, keys[k]}
  \/ keys[k].hash \in excused
  \/ \E c \in KeyCalls : Clears(c, k)

EntriesExplained == \A k \in Keys : keys[k] # NoRow => EntryExplained(k)

KeyInv ==
  KeyTypeOK /\ CallsPlaced /\ HashesIssued /\ StoringHolds /\ EntriesIssued /\ EntriesExplained

(* The initial states satisfy the invariant. *)
LEMMA KeyInvInit == KeyInit => KeyInv
<1> SUFFICES ASSUME KeyInit PROVE KeyInv
  OBVIOUS
<1>1. KeyTypeOK
  BY KeyAssumption DEF KeyInit, KeyTypeOK, CheckPCs, KeyPCs
<1>2. CallsPlaced /\ HashesIssued /\ StoringHolds /\ EntriesIssued /\ EntriesExplained
  BY DEF KeyInit, CallsPlaced, HashesIssued, StoringHolds, EntriesIssued, EntriesExplained
<1> QED
  BY <1>1, <1>2 DEF KeyInv

(* A statement that writes or removes a row, by a call that did not owe a  *)
(* deletion.  A hash it gives the row is a new one.                        *)
LEMMA PutKeeps ==
  ASSUME KeyInv, NEW c \in KeyCalls, NEW k \in Keys, NEW row \in KeyRow \cup {NoRow},
         NEW pc \in {"written", "done"}, Put(c, k, row, pc),
         keys[k] # NoRow, keyCall[c].pc \notin {"written", "clearing"},
         \/ pc = "written" \/ row = NoRow
         \/ /\ row.hash = keys[k].hash
            /\ entries[row.hash] = NoRow \/ row.hash \in excused',
         excused \subseteq excused', excused' \subseteq Hashes, barred' \subseteq Validations,
         issued \subseteq issued', issued' \subseteq Hashes,
         row # NoRow => row.hash \in issued'
                        /\ (row.hash = keys[k].hash \/ row.hash \notin issued)
  PROVE  KeyInv'
<1> USE DEF KeyInv
<1>1. /\ keys' = [keys EXCEPT ![k] = row] /\ keys'[k] = row
      /\ \A j \in Keys : j # k => keys'[j] = keys[j]
      /\ \A j \in Keys : keys[j] \in KeyRow \cup {NoRow}
  BY DEF Put, KeyTypeOK
<1>2. /\ \A x \in KeyCalls : x # c => keyCall'[x] = keyCall[x]
      /\ keyCall'[c].pc = pc /\ keyCall'[c].key = k /\ keyCall'[c].hash = keyCall[c].hash
      /\ keyCall' \in [KeyCalls -> CallRecords]
  <2>1. keyCall \in [KeyCalls -> CallRecords]
    BY DEF KeyTypeOK, CallRecords
  <2>2. keyCall' = [keyCall EXCEPT ![c].pc = pc, ![c].key = k]
    BY DEF Put
  <2>3. pc \in KeyPCs
    BY DEF KeyPCs
  <2> QED
    BY <2>1, <2>2, <2>3 DEF CallRecords
<1>3. /\ UNCHANGED <<used, entries, checking, presented, held, hour>>
      /\ overtaken \subseteq overtaken'
      /\ \A v \in Validations :
           checking[v] = "storing" /\ presented[v] = keys[k].hash => v \in overtaken'
  BY DEF Put, Storing
<1>4. overtaken' \subseteq Validations
  BY DEF Put, Storing, KeyTypeOK
<1>5. KeyTypeOK'
  BY <1>1, <1>2, <1>3, <1>4 DEF KeyTypeOK, CallRecords
<1>6. CallsPlaced'
  BY <1>2 DEF CallsPlaced
<1>7. HashesIssued'
  <2>1. \A j \in Keys : keys'[j] # NoRow => j \in used' /\ keys'[j].hash \in issued'
    BY <1>1, <1>3 DEF HashesIssued
  <2>2. ASSUME NEW j \in Keys, j # k, keys'[j] # NoRow, row # NoRow
        PROVE  keys'[j].hash # row.hash
    BY <1>1, <2>2 DEF HashesIssued
  <2> QED
    BY <1>1, <2>1, <2>2 DEF HashesIssued
<1>8. StoringHolds'
  <2> SUFFICES ASSUME NEW v \in Validations, checking[v] = "storing"
               PROVE  /\ presented[v] \in issued'
                      /\ \A j \in Keys : keys'[j] # NoRow /\ keys'[j].hash = presented[v] =>
                           held[v] = keys'[j] \/ v \in overtaken'
    BY <1>3 DEF StoringHolds
  <2>1. presented[v] \in issued
    BY DEF StoringHolds
  <2>2. ASSUME NEW j \in Keys, keys'[j] # NoRow, keys'[j].hash = presented[v]
        PROVE  held[v] = keys'[j] \/ v \in overtaken'
    <3>1. CASE j = k
      <4>1. presented[v] = keys[k].hash
        BY <1>1, <2>1, <2>2, <3>1
      <4> QED
        BY <1>3, <4>1
    <3>2. CASE j # k
      BY <1>1, <1>3, <2>2, <3>2 DEF StoringHolds
    <3> QED
      BY <3>1, <3>2
  <2> QED
    BY <2>1, <2>2
<1>9. EntriesIssued'
  BY <1>3 DEF EntriesIssued
<1>10. EntriesExplained'
  <2> SUFFICES ASSUME NEW j \in Keys, keys'[j] # NoRow PROVE EntryExplained(j)'
    BY DEF EntriesExplained
  <2>1. CASE j = k
    <3>1. CASE pc = "written"
      <4>1. Clears(c, j)'
        BY <1>2, <2>1, <3>1 DEF Clears
      <4> QED
        BY <4>1 DEF EntryExplained
    <3>2. CASE pc # "written"
      <4>1. entries[keys'[j].hash] = NoRow \/ keys'[j].hash \in excused'
        BY <1>1, <2>1, <3>2
      <4> QED
        BY <1>3, <4>1 DEF EntryExplained
    <3> QED
      BY <3>1, <3>2
  <2>2. CASE j # k
    <3>1. keys'[j] = keys[j] /\ EntryExplained(j)
      BY <1>1, <2>2 DEF EntriesExplained
    <3>2. ASSUME NEW x \in KeyCalls, Clears(x, j) PROVE Clears(x, j)'
      BY <1>2, <3>1, <3>2 DEF Clears
    <3> QED
      BY <1>3, <3>1, <3>2 DEF EntryExplained
  <2> QED
    BY <2>1, <2>2
<1> QED
  BY <1>5, <1>6, <1>7, <1>8, <1>9, <1>10

(* A step that writes no row, of a validation or of the cache: the entries *)
(* that change are deleted, or stored from what a validation holds.        *)
LEMMA ValidatingKeeps ==
  ASSUME KeyInv, NEW v \in Validations, Validating(v)
  PROVE  KeyInv'
<1> USE DEF KeyInv
<1>1. /\ UNCHANGED <<keys, used, issued, keyCall, hour>>
      /\ overtaken' \subseteq Validations /\ barred' \subseteq Validations
      /\ overtaken' = overtaken \/ (checking'[v] # "storing" /\ overtaken' = overtaken \ {v})
  BY DEF Validating, LookupEntry, LookupFails, EvictEntry, QueryKey, StoreEntry,
         StoreEntryFails, Begins, KeyTypeOK, keyHistory
<1>2. /\ \A x \in Validations : x # v => /\ checking'[x] = checking[x]
                                         /\ presented'[x] = presented[x] /\ held'[x] = held[x]
      /\ checking' \in [Validations -> CheckPCs]
  BY DEF Validating, LookupEntry, LookupFails, EvictEntry, QueryKey, StoreEntry,
         StoreEntryFails, Begins, KeyTypeOK, CheckPCs
<1>3. ASSUME NEW h \in Hashes, LookupEntry(v, h) \/ LookupFails(v, h) PROVE KeyInv'
  <2>1. checking'[v] # "storing" /\ UNCHANGED <<entries, excused>>
    BY <1>3 DEF LookupEntry, LookupFails, KeyTypeOK
  <2>2. /\ presented' \in [Validations -> Hashes \cup {NoRow}]
        /\ held' \in [Validations -> KeyRow \cup {NoRow}]
    BY <1>3 DEF LookupEntry, LookupFails, Begins, KeyTypeOK
  <2>3. KeyTypeOK'
    BY <1>1, <1>2, <2>1, <2>2 DEF KeyTypeOK
  <2>4. StoringHolds'
    BY <1>1, <1>2, <2>1 DEF StoringHolds
  <2> QED
    BY <1>1, <2>1, <2>3, <2>4
    DEF CallsPlaced, HashesIssued, EntriesIssued, EntriesExplained, EntryExplained, Clears
<1>4. CASE EvictEntry(v)
  <2>1. /\ checking'[v] # "storing" /\ UNCHANGED <<presented, held>>
        /\ entries' \in [Hashes -> KeyRow \cup {NoRow}]
        /\ excused' \subseteq Hashes
        /\ \A h \in Hashes : \/ entries'[h] = NoRow
                             \/ entries'[h] = entries[h] /\ (h \in excused => h \in excused')
    BY <1>4 DEF EvictEntry, Forget, KeyTypeOK
  <2>2. KeyTypeOK' /\ StoringHolds' /\ EntriesIssued'
    BY <1>1, <1>2, <2>1 DEF KeyTypeOK, StoringHolds, EntriesIssued
  <2>3. EntriesExplained'
    BY <1>1, <2>1 DEF EntriesExplained, EntryExplained, Clears, KeyTypeOK, KeyRow
  <2> QED
    BY <1>1, <2>2, <2>3 DEF CallsPlaced, HashesIssued
<1>5. CASE QueryKey(v)
  <2>1. UNCHANGED <<entries, presented, overtaken, excused>>
    BY <1>5 DEF QueryKey, keyHistory
  <2>2. \/ checking'[v] = "refused" /\ held' = held
        \/ \E k \in Keys : /\ keys[k] # NoRow /\ keys[k].hash = presented[v]
                           /\ held' = [held EXCEPT ![v] = keys[k]]
    BY <1>5 DEF QueryKey, KeyTypeOK
  <2>3. KeyTypeOK'
    BY <1>1, <1>2, <2>1, <2>2 DEF KeyTypeOK
  <2>4. StoringHolds'
    BY <1>1, <1>2, <2>1, <2>2 DEF StoringHolds, HashesIssued, KeyTypeOK
  <2> QED
    BY <1>1, <2>1, <2>3, <2>4
    DEF CallsPlaced, HashesIssued, EntriesIssued, EntriesExplained, EntryExplained, Clears
<1>6. CASE StoreEntry(v)
  <2>1. /\ checking[v] = "storing" /\ checking'[v] # "storing" /\ UNCHANGED <<presented, held>>
        /\ entries' = [entries EXCEPT ![presented[v]] = held[v]]
        /\ presented[v] \in issued /\ presented[v] \in Hashes
        /\ excused' = IF v \in overtaken THEN excused \cup {presented[v]}
                                         ELSE excused \ {presented[v]}
    BY <1>6 DEF StoreEntry, KeyTypeOK, StoringHolds
  <2>2. KeyTypeOK' /\ StoringHolds' /\ EntriesIssued'
    BY <1>1, <1>2, <2>1 DEF KeyTypeOK, StoringHolds, EntriesIssued
  <2>3. ASSUME NEW k \in Keys, keys[k] # NoRow PROVE EntryExplained(k)'
    <3>1. keys[k].hash \in Hashes
      BY <2>3 DEF KeyTypeOK, KeyRow
    <3>2. CASE keys[k].hash = presented[v]
      BY <1>1, <2>1, <2>3, <3>1, <3>2 DEF EntryExplained, StoringHolds, KeyTypeOK
    <3>3. CASE keys[k].hash # presented[v]
      BY <1>1, <2>1, <2>3, <3>1, <3>3 DEF EntriesExplained, EntryExplained, Clears, KeyTypeOK
    <3> QED
      BY <3>2, <3>3
  <2> QED
    BY <1>1, <2>2, <2>3 DEF CallsPlaced, HashesIssued, EntriesExplained
<1>7. CASE StoreEntryFails(v)
  <2>1. checking'[v] # "storing" /\ UNCHANGED <<entries, presented, held, excused>>
    BY <1>7 DEF StoreEntryFails, KeyTypeOK
  <2> QED
    BY <1>1, <1>2, <2>1
    DEF KeyTypeOK, CallsPlaced, HashesIssued, StoringHolds, EntriesIssued, EntriesExplained,
        EntryExplained, Clears
<1> QED
  BY <1>3, <1>4, <1>5, <1>6, <1>7 DEF Validating

(* A step of a call that moves it and changes no row: what it owed it has  *)
(* done, or its hash is excused.                                           *)
LEMMA CallKeeps ==
  ASSUME KeyInv, NEW c \in KeyCalls,
         UNCHANGED <<keys, used, issued, checking, presented, held, hour, overtaken, barred>>,
         keyCall' = [keyCall EXCEPT ![c] = keyCall'[c]], keyCall'[c] \in CallRecords,
         keyCall'[c].pc \in {"updating", "marking", "removing", "written"} =>
           keyCall'[c].key \in Keys,
         keyCall'[c].pc = "clearing" => keyCall'[c].hash \in Hashes,
         entries' \in [Hashes -> KeyRow \cup {NoRow}],
         excused' \subseteq Hashes,
         \A h \in Hashes : \/ entries'[h] = NoRow
                           \/ entries'[h] = entries[h] /\ (h \in excused => h \in excused'),
         \A k \in Keys : keys[k] # NoRow /\ Clears(c, k) => EntryExplained(k)'
  PROVE  KeyInv'
<1> USE DEF KeyInv
<1>1. /\ \A x \in KeyCalls : x # c => keyCall'[x] = keyCall[x]
      /\ keyCall' \in [KeyCalls -> CallRecords]
  BY DEF KeyTypeOK, CallRecords
<1>2. KeyTypeOK' /\ CallsPlaced' /\ HashesIssued'
  BY <1>1 DEF KeyTypeOK, CallRecords, CallsPlaced, HashesIssued
<1>3. StoringHolds' /\ EntriesIssued'
  BY DEF StoringHolds, EntriesIssued
<1>4. ASSUME NEW k \in Keys, keys[k] # NoRow PROVE EntryExplained(k)'
  <2>1. keys[k].hash \in Hashes
    BY <1>4 DEF KeyTypeOK, KeyRow
  <2>2. CASE \E x \in KeyCalls : x # c /\ Clears(x, k)
    BY <1>1, <2>2 DEF EntryExplained, Clears
  <2>3. CASE Clears(c, k)
    BY <1>4, <2>3
  <2>4. CASE ~\E x \in KeyCalls : Clears(x, k)
    BY <1>4, <2>1, <2>4 DEF EntriesExplained, EntryExplained
  <2> QED
    BY <2>2, <2>3, <2>4
<1> QED
  BY <1>2, <1>3, <1>4 DEF EntriesExplained

(* A step of a call. *)
LEMMA ChangingKeeps ==
  ASSUME KeyInv, NEW c \in KeyCalls, Changing(c)
  PROVE  KeyInv'
<1> USE KeyAssumption DEF KeyInv
<1>1. /\ keyCall \in [KeyCalls -> CallRecords] /\ keyCall[c] \in CallRecords
      /\ entries \in [Hashes -> KeyRow \cup {NoRow}]
      /\ \A k \in Keys : keys[k] \in KeyRow \cup {NoRow}
      /\ issued \subseteq Hashes /\ excused \subseteq Hashes
  BY DEF KeyTypeOK, CallRecords
<1>2. ASSUME NEW k \in Keys, Revoke(c, k) PROVE KeyInv'
  <2> DEFINE row == [keys[k] EXCEPT !.status = "revoked"]
  <2>1. k \in Keys /\ keys[k] \in KeyRow /\ keys[k] # NoRow
    BY <1>1, <1>2 DEF Revoke, Starts
  <2>2. row \in KeyRow \cup {NoRow}
    BY <2>1, <1>2 DEF KeyRow, KeyStatuses
  <2>3. Put(c, k, row, "written") /\ keyCall[c].pc \notin {"written", "clearing"}
    BY <1>2 DEF Revoke, Starts
  <2>4. /\ issued \subseteq issued' /\ issued' \subseteq Hashes
        /\ row # NoRow => row.hash \in issued'
                          /\ (row.hash = keys[k].hash \/ row.hash \notin issued)
        /\ excused' = excused /\ barred' \subseteq Validations
    BY <1>1, <1>2, <2>1 DEF Revoke, Starts, KeyTypeOK, HashesIssued, KeyRow
  <2> HIDE DEF row
  <2> QED
    BY <1>1, <2>1, <2>2, <2>3, <2>4, PutKeeps
<1>3. ASSUME NEW k \in Keys, DeleteKey(c, k) PROVE KeyInv'
  <2> DEFINE row == NoRow
  <2>1. k \in Keys /\ keys[k] \in KeyRow /\ keys[k] # NoRow
    BY <1>1, <1>3 DEF DeleteKey, Starts
  <2>2. row \in KeyRow \cup {NoRow}
    BY <2>1, <1>3 DEF KeyRow
  <2>3. Put(c, k, row, "written") /\ keyCall[c].pc \notin {"written", "clearing"}
    BY <1>3 DEF DeleteKey, Starts
  <2>4. /\ issued \subseteq issued' /\ issued' \subseteq Hashes
        /\ row # NoRow => row.hash \in issued'
                          /\ (row.hash = keys[k].hash \/ row.hash \notin issued)
        /\ excused' = excused /\ barred' \subseteq Validations
    BY <1>1, <1>3, <2>1 DEF DeleteKey, Starts, KeyTypeOK, HashesIssued, KeyRow
  <2> QED
    BY <1>1, <2>1, <2>2, <2>3, <2>4, PutKeeps
<1>4. ASSUME NEW k \in Keys, NEW h \in Hashes, Regenerate(c, k, h) PROVE KeyInv'
  <2> DEFINE row == [keys[k] EXCEPT !.status = "active", !.hash = h]
  <2>1. k \in Keys /\ keys[k] \in KeyRow /\ keys[k] # NoRow
    BY <1>1, <1>4 DEF Regenerate, Starts
  <2>2. row \in KeyRow \cup {NoRow}
    BY <2>1, <1>4 DEF KeyRow, KeyStatuses
  <2>3. Put(c, k, row, "written") /\ keyCall[c].pc \notin {"written", "clearing"}
    BY <1>4 DEF Regenerate, Starts
  <2>4. /\ issued \subseteq issued' /\ issued' \subseteq Hashes
        /\ row # NoRow => row.hash \in issued'
                          /\ (row.hash = keys[k].hash \/ row.hash \notin issued)
        /\ excused' = excused /\ barred' \subseteq Validations
    BY <1>1, <1>4, <2>1 DEF Regenerate, Starts, KeyTypeOK, HashesIssued, KeyRow
  <2> HIDE DEF row
  <2> QED
    BY <1>1, <2>1, <2>2, <2>3, <2>4, PutKeeps
<1>5. ASSUME NEW e \in Expiries, SaveUpdate(c, e) PROVE KeyInv'
  <2> DEFINE k == keyCall[c].key
             row == [keys[k] EXCEPT !.version = @ + 1, !.expires = e]
  <2>1. k \in Keys /\ keys[k] \in KeyRow /\ keys[k] # NoRow
    BY <1>1, <1>5 DEF SaveUpdate, CallsPlaced
  <2>2. row \in KeyRow \cup {NoRow}
    <3>1. keys[k].version + 1 \in Nat /\ e \in Expiries
      BY <2>1, <1>5 DEF KeyRow
    <3> HIDE DEF k
    <3> QED
      BY <2>1, <3>1 DEF KeyRow
  <2>3. Put(c, k, row, "written") /\ keyCall[c].pc \notin {"written", "clearing"}
    BY <1>5 DEF SaveUpdate
  <2>4. /\ issued \subseteq issued' /\ issued' \subseteq Hashes
        /\ row # NoRow => row.hash \in issued'
                          /\ (row.hash = keys[k].hash \/ row.hash \notin issued)
        /\ excused' = excused /\ barred' \subseteq Validations
    BY <1>1, <1>5, <2>1 DEF SaveUpdate, Reopens, KeyTypeOK, HashesIssued, KeyRow
  <2> HIDE DEF row, k
  <2> QED
    BY <1>1, <2>1, <2>2, <2>3, <2>4, PutKeeps
<1>6. CASE MarkKeyExpired(c)
  <2> DEFINE k == keyCall[c].key
             row == [keys[k] EXCEPT !.status = "expired"]
  <2>1. k \in Keys /\ keys[k] \in KeyRow /\ keys[k] # NoRow
    BY <1>1, <1>6 DEF MarkKeyExpired, CallsPlaced
  <2>2. row \in KeyRow \cup {NoRow}
    BY <2>1, <1>6 DEF KeyRow, KeyStatuses
  <2>3. Put(c, k, row, "written") /\ keyCall[c].pc \notin {"written", "clearing"}
    BY <1>6 DEF MarkKeyExpired
  <2>4. /\ issued \subseteq issued' /\ issued' \subseteq Hashes
        /\ row # NoRow => row.hash \in issued'
                          /\ (row.hash = keys[k].hash \/ row.hash \notin issued)
        /\ excused' = excused /\ barred' \subseteq Validations
    BY <1>1, <1>6, <2>1 DEF MarkKeyExpired, KeyTypeOK, HashesIssued, KeyRow
  <2> HIDE DEF row, k
  <2> QED
    BY <1>1, <2>1, <2>2, <2>3, <2>4, PutKeeps
<1>7. CASE RemoveRevoked(c)
  <2> DEFINE k == keyCall[c].key
             row == NoRow
  <2>1. k \in Keys /\ keys[k] \in KeyRow /\ keys[k] # NoRow
    BY <1>1, <1>7 DEF RemoveRevoked, CallsPlaced
  <2>2. row \in KeyRow \cup {NoRow}
    BY <2>1, <1>7 DEF KeyRow
  <2>3. Put(c, k, row, "done") /\ keyCall[c].pc \notin {"written", "clearing"}
    BY <1>7 DEF RemoveRevoked
  <2>4. /\ issued \subseteq issued' /\ issued' \subseteq Hashes
        /\ row # NoRow => row.hash \in issued'
                          /\ (row.hash = keys[k].hash \/ row.hash \notin issued)
        /\ excused' = excused /\ barred' \subseteq Validations
    BY <1>1, <1>7, <2>1 DEF RemoveRevoked, KeyTypeOK, HashesIssued, KeyRow
  <2> HIDE DEF row, k
  <2>5. row = NoRow
    BY DEF row
  <2> QED
    BY <1>1, <2>1, <2>2, <2>3, <2>4, <2>5, PutKeeps
<1>8. ASSUME NEW k \in Keys, UpdateKey(c, k) PROVE KeyInv'
  <2>1. /\ UNCHANGED <<keys, used, issued, checking, presented, held, hour, overtaken, barred>>
        /\ keyCall' = [keyCall EXCEPT ![c] = keyCall'[c]]
    BY <1>1, <1>8 DEF UpdateKey, Starts, keyHistory
  <2>2. keyCall'[c] \in CallRecords
    BY <1>1, <1>8 DEF UpdateKey, Starts, keyHistory, CallRecords, KeyPCs, KeyRow
  <2>3. /\ keyCall'[c].pc \in {"updating", "marking", "removing", "written"} =>
             keyCall'[c].key \in Keys
        /\ keyCall'[c].pc = "clearing" => keyCall'[c].hash \in Hashes
    BY <1>1, <1>8 DEF UpdateKey, Starts, keyHistory, CallsPlaced, CallRecords, KeyRow
  <2>4. /\ entries' \in [Hashes -> KeyRow \cup {NoRow}]
        /\ excused' \subseteq Hashes
        /\ \A h \in Hashes : \/ entries'[h] = NoRow
                             \/ entries'[h] = entries[h] /\ (h \in excused => h \in excused')
    BY <1>1, <1>8 DEF UpdateKey, Starts, keyHistory, CallsPlaced
  <2>5. \A j \in Keys : keys[j] # NoRow /\ Clears(c, j) => EntryExplained(j)'
    BY <1>1, <1>8, <2>1
    DEF UpdateKey, Starts, keyHistory, CallsPlaced, Clears, EntryExplained, CallRecords, KeyRow
  <2> QED
    BY <2>1, <2>2, <2>3, <2>4, <2>5, CallKeeps
<1>9. ASSUME NEW k \in Keys, FindExpired(c, k) PROVE KeyInv'
  <2>1. /\ UNCHANGED <<keys, used, issued, checking, presented, held, hour, overtaken, barred>>
        /\ keyCall' = [keyCall EXCEPT ![c] = keyCall'[c]]
    BY <1>1, <1>9 DEF FindExpired, Starts, keyHistory
  <2>2. keyCall'[c] \in CallRecords
    BY <1>1, <1>9 DEF FindExpired, Starts, keyHistory, CallRecords, KeyPCs, KeyRow
  <2>3. /\ keyCall'[c].pc \in {"updating", "marking", "removing", "written"} =>
             keyCall'[c].key \in Keys
        /\ keyCall'[c].pc = "clearing" => keyCall'[c].hash \in Hashes
    BY <1>1, <1>9 DEF FindExpired, Starts, keyHistory, CallsPlaced, CallRecords, KeyRow
  <2>4. /\ entries' \in [Hashes -> KeyRow \cup {NoRow}]
        /\ excused' \subseteq Hashes
        /\ \A h \in Hashes : \/ entries'[h] = NoRow
                             \/ entries'[h] = entries[h] /\ (h \in excused => h \in excused')
    BY <1>1, <1>9 DEF FindExpired, Starts, keyHistory, CallsPlaced
  <2>5. \A j \in Keys : keys[j] # NoRow /\ Clears(c, j) => EntryExplained(j)'
    BY <1>1, <1>9, <2>1
    DEF FindExpired, Starts, keyHistory, CallsPlaced, Clears, EntryExplained, CallRecords, KeyRow
  <2> QED
    BY <2>1, <2>2, <2>3, <2>4, <2>5, CallKeeps
<1>10. ASSUME NEW k \in Keys, FindRevoked(c, k) PROVE KeyInv'
  <2>1. /\ UNCHANGED <<keys, used, issued, checking, presented, held, hour, overtaken, barred>>
        /\ keyCall' = [keyCall EXCEPT ![c] = keyCall'[c]]
    BY <1>1, <1>10 DEF FindRevoked, Starts, keyHistory
  <2>2. keyCall'[c] \in CallRecords
    BY <1>1, <1>10 DEF FindRevoked, Starts, keyHistory, CallRecords, KeyPCs, KeyRow
  <2>3. /\ keyCall'[c].pc \in {"updating", "marking", "removing", "written"} =>
             keyCall'[c].key \in Keys
        /\ keyCall'[c].pc = "clearing" => keyCall'[c].hash \in Hashes
    BY <1>1, <1>10 DEF FindRevoked, Starts, keyHistory, CallsPlaced, CallRecords, KeyRow
  <2>4. /\ entries' \in [Hashes -> KeyRow \cup {NoRow}]
        /\ excused' \subseteq Hashes
        /\ \A h \in Hashes : \/ entries'[h] = NoRow
                             \/ entries'[h] = entries[h] /\ (h \in excused => h \in excused')
    BY <1>1, <1>10 DEF FindRevoked, Starts, keyHistory, CallsPlaced
  <2>5. \A j \in Keys : keys[j] # NoRow /\ Clears(c, j) => EntryExplained(j)'
    BY <1>1, <1>10, <2>1
    DEF FindRevoked, Starts, keyHistory, CallsPlaced, Clears, EntryExplained, CallRecords, KeyRow
  <2> QED
    BY <2>1, <2>2, <2>3, <2>4, <2>5, CallKeeps
<1>11. CASE WriteMisses(c)
  <2>1. /\ UNCHANGED <<keys, used, issued, checking, presented, held, hour, overtaken, barred>>
        /\ keyCall' = [keyCall EXCEPT ![c] = keyCall'[c]]
    BY <1>1, <1>11 DEF WriteMisses, keyHistory
  <2>2. keyCall'[c] \in CallRecords
    BY <1>1, <1>11 DEF WriteMisses, keyHistory, CallRecords, KeyPCs, KeyRow
  <2>3. /\ keyCall'[c].pc \in {"updating", "marking", "removing", "written"} =>
             keyCall'[c].key \in Keys
        /\ keyCall'[c].pc = "clearing" => keyCall'[c].hash \in Hashes
    BY <1>1, <1>11 DEF WriteMisses, keyHistory, CallsPlaced, CallRecords, KeyRow
  <2>4. /\ entries' \in [Hashes -> KeyRow \cup {NoRow}]
        /\ excused' \subseteq Hashes
        /\ \A h \in Hashes : \/ entries'[h] = NoRow
                             \/ entries'[h] = entries[h] /\ (h \in excused => h \in excused')
    BY <1>1, <1>11 DEF WriteMisses, keyHistory, CallsPlaced
  <2>5. \A j \in Keys : keys[j] # NoRow /\ Clears(c, j) => EntryExplained(j)'
    BY <1>1, <1>11, <2>1
    DEF WriteMisses, keyHistory, CallsPlaced, Clears, EntryExplained, CallRecords, KeyRow
  <2> QED
    BY <2>1, <2>2, <2>3, <2>4, <2>5, CallKeeps
<1>12. CASE ReadHash(c)
  <2>1. /\ UNCHANGED <<keys, used, issued, checking, presented, held, hour, overtaken, barred>>
        /\ keyCall' = [keyCall EXCEPT ![c] = keyCall'[c]]
    BY <1>1, <1>12 DEF ReadHash, keyHistory
  <2>2. keyCall'[c] \in CallRecords
    BY <1>1, <1>12 DEF ReadHash, keyHistory, CallsPlaced, CallRecords, KeyPCs, KeyRow
  <2>3. /\ keyCall'[c].pc \in {"updating", "marking", "removing", "written"} =>
             keyCall'[c].key \in Keys
        /\ keyCall'[c].pc = "clearing" => keyCall'[c].hash \in Hashes
    BY <1>1, <1>12 DEF ReadHash, keyHistory, CallsPlaced, CallRecords, KeyRow
  <2>4. /\ entries' \in [Hashes -> KeyRow \cup {NoRow}]
        /\ excused' \subseteq Hashes
        /\ \A h \in Hashes : \/ entries'[h] = NoRow
                             \/ entries'[h] = entries[h] /\ (h \in excused => h \in excused')
    BY <1>1, <1>12 DEF ReadHash, keyHistory, CallsPlaced
  <2>5. \A j \in Keys : keys[j] # NoRow /\ Clears(c, j) => EntryExplained(j)'
    BY <1>1, <1>12, <2>1
    DEF ReadHash, keyHistory, CallsPlaced, Clears, EntryExplained, CallRecords, KeyRow
  <2> QED
    BY <2>1, <2>2, <2>3, <2>4, <2>5, CallKeeps
<1>13. CASE DeleteEntry(c)
  <2>1. /\ UNCHANGED <<keys, used, issued, checking, presented, held, hour, overtaken, barred>>
        /\ keyCall' = [keyCall EXCEPT ![c] = keyCall'[c]]
    BY <1>1, <1>13 DEF DeleteEntry, Forget
  <2>2. keyCall'[c] \in CallRecords
    BY <1>1, <1>13 DEF DeleteEntry, Forget, CallRecords, KeyPCs, KeyRow
  <2>3. /\ keyCall'[c].pc \in {"updating", "marking", "removing", "written"} =>
             keyCall'[c].key \in Keys
        /\ keyCall'[c].pc = "clearing" => keyCall'[c].hash \in Hashes
    BY <1>1, <1>13 DEF DeleteEntry, Forget, CallsPlaced, CallRecords, KeyRow
  <2>4. /\ entries' \in [Hashes -> KeyRow \cup {NoRow}]
        /\ excused' \subseteq Hashes
        /\ \A h \in Hashes : \/ entries'[h] = NoRow
                             \/ entries'[h] = entries[h] /\ (h \in excused => h \in excused')
    BY <1>1, <1>13 DEF DeleteEntry, Forget, CallsPlaced
  <2>5. \A j \in Keys : keys[j] # NoRow /\ Clears(c, j) => EntryExplained(j)'
    BY <1>1, <1>13, <2>1
    DEF DeleteEntry, Forget, Forget, CallsPlaced, Clears, EntryExplained, CallRecords, KeyRow
  <2> QED
    BY <2>1, <2>2, <2>3, <2>4, <2>5, CallKeeps
<1>14. CASE InvalidateFails(c)
  <2>1. /\ UNCHANGED <<keys, used, issued, checking, presented, held, hour, overtaken, barred>>
        /\ keyCall' = [keyCall EXCEPT ![c] = keyCall'[c]]
    BY <1>1, <1>14 DEF InvalidateFails
  <2>2. keyCall'[c] \in CallRecords
    BY <1>1, <1>14 DEF InvalidateFails, CallRecords, KeyPCs, KeyRow
  <2>3. /\ keyCall'[c].pc \in {"updating", "marking", "removing", "written"} =>
             keyCall'[c].key \in Keys
        /\ keyCall'[c].pc = "clearing" => keyCall'[c].hash \in Hashes
    BY <1>1, <1>14 DEF InvalidateFails, CallsPlaced, CallRecords, KeyRow
  <2>4. /\ entries' \in [Hashes -> KeyRow \cup {NoRow}]
        /\ excused' \subseteq Hashes
        /\ \A h \in Hashes : \/ entries'[h] = NoRow
                             \/ entries'[h] = entries[h] /\ (h \in excused => h \in excused')
    BY <1>1, <1>14 DEF InvalidateFails, CallsPlaced
  <2>5. \A j \in Keys : keys[j] # NoRow /\ Clears(c, j) => EntryExplained(j)'
    BY <1>1, <1>14, <2>1
    DEF InvalidateFails, CallsPlaced, Clears, EntryExplained, CallRecords, KeyRow
  <2> QED
    BY <2>1, <2>2, <2>3, <2>4, <2>5, CallKeeps
<1>15. ASSUME NEW k \in Keys, NEW s \in KeyStatuses, NEW e \in Expiries,
              HandlerUpdate(c, k, s, e)
       PROVE  KeyInv'
  <2> DEFINE row == [keys[k] EXCEPT !.version = @ + 1, !.status = s, !.expires = e]
  <2>1. k \in Keys /\ keys[k] \in KeyRow /\ keys[k] # NoRow
    BY <1>1, <1>15 DEF HandlerUpdate, Starts
  <2>2. row \in KeyRow \cup {NoRow} /\ row.hash = keys[k].hash
    <3>1. keys[k].version + 1 \in Nat
      BY <2>1 DEF KeyRow
    <3> QED
      BY <2>1, <3>1 DEF KeyRow
  <2>3. Put(c, k, row, "done") /\ keyCall[c].pc \notin {"written", "clearing"}
    BY <1>15 DEF HandlerUpdate, Starts
  <2>4. /\ issued' = issued /\ keys[k].hash \in issued /\ keys[k].hash \in Hashes
        /\ barred' \subseteq Validations
        /\ excused' = excused \cup {h \in {keys[k].hash} : entries[h] # NoRow}
    BY <1>1, <1>15, <2>1 DEF HandlerUpdate, Reopens, KeyTypeOK, HashesIssued, KeyRow
  <2>5. /\ excused \subseteq excused' /\ excused' \subseteq Hashes
        /\ entries[row.hash] = NoRow \/ row.hash \in excused'
    BY <1>1, <2>2, <2>4
  <2> HIDE DEF row
  <2> QED
    BY <1>1, <2>1, <2>2, <2>3, <2>4, <2>5, PutKeeps
<1> QED
  BY <1>2, <1>3, <1>4, <1>5, <1>6, <1>7, <1>8, <1>9, <1>10, <1>11, <1>12, <1>13, <1>14, <1>15
  DEF Changing

(* Every step preserves the invariant. *)
LEMMA KeyInvStep == KeyInv /\ [KeyNext]_keyVars => KeyInv'
<1> SUFFICES ASSUME KeyInv, [KeyNext]_keyVars PROVE KeyInv'
  OBVIOUS
<1> USE KeyAssumption DEF KeyInv
<1>1. ASSUME NEW k \in Keys, NEW h \in Hashes, NEW e \in Expiries, CreateKey(k, h, e)
      PROVE  KeyInv'
  <2> DEFINE row == [id |-> k, hash |-> h, status |-> "active", expires |-> e, version |-> 0]
  <2>1. row \in KeyRow /\ row.hash = h /\ k \notin used /\ h \notin issued
    BY <1>1 DEF KeyRow, KeyStatuses, CreateKey
  <2>2. /\ keys' = [keys EXCEPT ![k] = row]
        /\ used' = used \cup {k} /\ issued' = issued \cup {h}
        /\ UNCHANGED <<entries, checking, presented, held, keyCall, hour, overtaken, excused,
                       barred>>
    BY <1>1 DEF CreateKey, keyHistory
  <2> HIDE DEF row
  <2>3. /\ keys'[k] = row /\ \A j \in Keys : j # k => keys'[j] = keys[j]
        /\ keys[k] = NoRow
    BY <2>1, <2>2 DEF KeyTypeOK, HashesIssued
  <2>4. KeyTypeOK' /\ CallsPlaced'
    BY <2>1, <2>2 DEF KeyTypeOK, CallsPlaced
  <2>5. HashesIssued'
    BY <2>1, <2>2, <2>3 DEF HashesIssued
  <2>6. StoringHolds' /\ EntriesIssued'
    BY <2>1, <2>2, <2>3 DEF StoringHolds, EntriesIssued
  <2>7. ASSUME NEW j \in Keys, keys'[j] # NoRow PROVE EntryExplained(j)'
    <3>1. CASE j = k
      BY <2>1, <2>2, <2>3, <3>1 DEF EntryExplained, EntriesIssued
    <3>2. CASE j # k
      BY <2>2, <2>3, <2>7, <3>2 DEF EntriesExplained, EntryExplained, Clears
    <3> QED
      BY <3>1, <3>2
  <2> QED
    BY <2>4, <2>5, <2>6, <2>7 DEF EntriesExplained
<1>2. ASSUME NEW v \in Validations, Validating(v) PROVE KeyInv'
  BY <1>2, ValidatingKeeps
<1>3. ASSUME NEW c \in KeyCalls, Changing(c) PROVE KeyInv'
  BY <1>3, ChangingKeeps
<1>4. ASSUME NEW h \in Hashes, EntryExpires(h) PROVE KeyInv'
  <2>1. /\ UNCHANGED <<keys, used, issued, checking, presented, held, keyCall, hour, overtaken,
                       barred>>
        /\ entries' \in [Hashes -> KeyRow \cup {NoRow}] /\ excused' \subseteq Hashes
        /\ \A g \in Hashes : \/ entries'[g] = NoRow
                             \/ entries'[g] = entries[g] /\ (g \in excused => g \in excused')
    BY <1>4 DEF EntryExpires, Forget, KeyTypeOK
  <2>2. KeyTypeOK' /\ CallsPlaced' /\ HashesIssued' /\ StoringHolds' /\ EntriesIssued'
    BY <2>1 DEF KeyTypeOK, CallsPlaced, HashesIssued, StoringHolds, EntriesIssued
  <2>3. EntriesExplained'
    BY <2>1 DEF EntriesExplained, EntryExplained, Clears, KeyTypeOK, KeyRow
  <2> QED
    BY <2>2, <2>3
<1>5. CASE HourPasses
  BY <1>5
  DEF HourPasses, keyHistory, KeyTypeOK, CallsPlaced, HashesIssued, StoringHolds, EntriesIssued,
      EntriesExplained, EntryExplained, Clears
<1>6. CASE UNCHANGED keyVars
  BY <1>6
  DEF keyVars, keyHistory, KeyTypeOK, CallsPlaced, HashesIssued, StoringHolds, EntriesIssued,
      EntriesExplained, EntryExplained, Clears
<1> QED
  BY <1>1, <1>2, <1>3, <1>4, <1>5, <1>6 DEF KeyNext

(* The table, the cache and the calls keep their types. *)
THEOREM KeyTypeCorrect == KeySpec => []KeyTypeOK
<1>1. KeyInv => KeyTypeOK
  BY DEF KeyInv
<1> QED
  BY KeyInvInit, KeyInvStep, <1>1, PTL DEF KeySpec

(* When the calls that changed a key are through, the cache serves its hash *)
(* from the row, or the entry was stored from a changed row or not deleted.   *)
THEOREM KeyCacheFollowsRow == KeySpec => []CacheFollowsRow
<1>1. KeyInv => CacheFollowsRow
  BY DEF KeyInv, EntriesExplained, EntryExplained, Clears, CacheFollowsRow
<1> QED
  BY KeyInvInit, KeyInvStep, <1>1, PTL DEF KeySpec

(* A row that would let validations of h in. *)
Opens(row, h) ==
  row # NoRow /\ row.hash = h /\ row.status = "active" /\ ~PastExpiry(row)

(* The hash of a barred validation is still refused, and the validation has *)
(* found nothing.                                                          *)
BarredRefused ==
  \A v \in barred : checking[v] \in {"querying", "refused"} /\ Refused(presented[v])

(* A statement of a call that writes or removes the row of k: if the row    *)
(* then lets a hash in, the hash is new or its validations are let off.    *)
LEMMA PutBars ==
  ASSUME KeyInv, BarredRefused, NEW c \in KeyCalls, NEW k \in Keys,
         NEW row \in KeyRow \cup {NoRow}, NEW pc, Put(c, k, row, pc),
         issued \subseteq issued', barred' \subseteq barred,
         \A v \in barred' : ~Opens(row, presented[v])
  PROVE  BarredRefused'
<1> SUFFICES ASSUME NEW v \in barred'
             PROVE  checking'[v] \in {"querying", "refused"} /\ Refused(presented[v])'
  BY DEF BarredRefused
<1>1. /\ \A j \in Keys : keys'[j] = IF j = k THEN row ELSE keys[j]
      /\ UNCHANGED <<entries, checking, presented, hour>>
  BY DEF Put, KeyInv, KeyTypeOK
<1>2. checking[v] \in {"querying", "refused"} /\ Refused(presented[v])
  BY DEF BarredRefused
<1>3. Storing(presented[v])' = Storing(presented[v])
  BY <1>1 DEF Storing
<1>4. ASSUME NEW j \in Keys, keys'[j] # NoRow, keys'[j].hash = presented[v]
      PROVE  keys'[j].status # "active" \/ PastExpiry(keys'[j])
  <2>1. CASE j = k
    BY <1>1, <1>4, <2>1 DEF Opens
  <2>2. CASE j # k
    BY <1>1, <1>2, <1>4, <2>2 DEF Refused
  <2> QED
    BY <2>1, <2>2
<1> QED
  BY <1>1, <1>2, <1>3, <1>4 DEF Refused, PastExpiry

(* A step that changes no row: entries are deleted, or stored of hashes    *)
(* that nobody is barred from.                                             *)
LEMMA QuietBars ==
  ASSUME BarredRefused, UNCHANGED <<keys, issued, presented>>,
         hour \in Int, hour' \in Int, hour' >= hour,
         \A k \in Keys : keys[k] # NoRow => keys[k].expires \in Int,
         barred' = barred,
         \A v \in barred : /\ checking'[v] \in {"querying", "refused"}
                           /\ entries'[presented[v]] = NoRow
                           /\ Storing(presented[v])' = {}
  PROVE  BarredRefused'
BY DEF BarredRefused, Refused, PastExpiry

(* The clock and the expiries compare. *)
LEMMA HoursAreInts ==
  ASSUME KeyInv
  PROVE  hour \in Int /\ \A k \in Keys : keys[k] # NoRow => keys[k].expires \in Int
<1>1. hour \in Int
  BY KeyAssumption DEF KeyInv, KeyTypeOK
<1>2. ASSUME NEW k \in Keys, keys[k] # NoRow PROVE keys[k].expires \in Int
  <2>1. keys[k] \in KeyRow
    BY <1>2 DEF KeyInv, KeyTypeOK
  <2>2. keys[k].expires \in Expiries
    BY <2>1 DEF KeyRow
  <2>3. \A x \in Expiries : x \in Nat
    BY KeyAssumption
  <2>4. keys[k].expires \in Nat
    BY <2>2, <2>3
  <2> QED
    BY <2>4
<1> QED
  BY <1>1, <1>2

(* A validation that goes on. *)
LEMMA ValidatingBars ==
  ASSUME KeyInv, BarredRefused, NEW v \in Validations, Validating(v)
  PROVE  BarredRefused'
<1> USE KeyAssumption DEF KeyInv
<1>0. hour \in Int /\ \A k \in Keys : keys[k] # NoRow => keys[k].expires \in Int
  BY HoursAreInts
<1>1. /\ UNCHANGED <<keys, issued, hour>>
      /\ \A x \in Validations : x # v => /\ checking'[x] = checking[x]
                                         /\ presented'[x] = presented[x]
  BY DEF KeyTypeOK, Validating, LookupEntry, LookupFails, EvictEntry, QueryKey,
         StoreEntry, StoreEntryFails, Begins
<1>2. \A x \in barred : /\ x \in Validations /\ checking[x] \in {"querying", "refused"}
                        /\ entries[presented[x]] = NoRow /\ Storing(presented[x]) = {}
                        /\ presented[x] \in Hashes
  BY DEF BarredRefused, Refused, KeyTypeOK
<1>3. ASSUME NEW h \in Hashes, LookupEntry(v, h) \/ LookupFails(v, h) PROVE BarredRefused'
  <2>1. /\ checking[v] = "idle" /\ entries' = entries /\ presented'[v] = h
        /\ checking'[v] # "storing"
        /\ barred' = IF Refused(h) THEN barred \cup {v} ELSE barred
        /\ Refused(h) => checking'[v] = "querying"
    BY <1>3 DEF LookupEntry, LookupFails, Begins, KeyTypeOK, Refused
  <2>2. \A x \in Validations : checking'[x] = "storing" => x # v /\ checking[x] = "storing"
                                                         /\ presented'[x] = presented[x]
    BY <1>1, <2>1
  <2>3. ASSUME NEW g, Refused(g) PROVE Refused(g)'
    BY <1>1, <2>1, <2>2, <2>3 DEF Refused, Storing, PastExpiry
  <2>4. ASSUME NEW x \in barred' PROVE checking'[x] \in {"querying", "refused"}
                                       /\ Refused(presented'[x])
    BY <1>1, <1>2, <2>1, <2>4 DEF BarredRefused
  <2>5. ASSUME NEW x \in barred' PROVE checking'[x] \in {"querying", "refused"}
                                       /\ Refused(presented[x])'
    BY <2>3, <2>4 DEF Refused, Storing, PastExpiry
  <2> QED
    BY <2>5 DEF BarredRefused
<1>4. CASE EvictEntry(v)
  <2>1. /\ checking[v] = "evicting" /\ checking'[v] = "querying" /\ UNCHANGED <<presented, barred>>
        /\ \A h \in Hashes : entries'[h] \in {NoRow, entries[h]}
    BY <1>4 DEF EvictEntry, Forget, KeyTypeOK
  <2>2. \A x \in barred : Storing(presented[x])' = {}
    BY <1>1, <1>2, <2>1 DEF Storing
  <2>3. \A x \in barred : /\ checking'[x] \in {"querying", "refused"}
                          /\ entries'[presented[x]] = NoRow
    BY <1>1, <1>2, <2>1
  <2> QED
    BY <1>0, <1>1, <2>1, <2>2, <2>3, QuietBars
<1>5. CASE QueryKey(v)
  <2>1. /\ checking[v] = "querying" /\ UNCHANGED <<presented, entries, barred>>
        /\ checking' = [checking EXCEPT ![v] = checking'[v]]
        /\ \/ checking'[v] = "refused"
           \/ /\ checking'[v] = "storing"
              /\ \E k \in Keys : keys[k] # NoRow /\ keys[k].hash = presented[v]
                                 /\ keys[k].status = "active" /\ ~PastExpiry(keys[k])
    BY <1>5 DEF QueryKey, keyHistory, KeyTypeOK
  <2>2. \A x \in barred : Refused(presented[x])
    BY DEF BarredRefused
  <2>3. \A x \in barred : presented[x] = presented[v] => checking'[v] = "refused"
    BY <2>1, <2>2 DEF Refused
  <2>4. \A x \in barred : Storing(presented[x])' = {}
    BY <1>1, <1>2, <2>1, <2>3 DEF Storing
  <2>5. \A x \in barred : /\ checking'[x] \in {"querying", "refused"}
                          /\ entries'[presented[x]] = NoRow
    BY <1>1, <1>2, <2>1, <2>3
  <2> QED
    BY <1>0, <1>1, <2>1, <2>4, <2>5, QuietBars
<1>6. ASSUME StoreEntry(v) \/ StoreEntryFails(v) PROVE BarredRefused'
  <2>1. /\ checking[v] = "storing" /\ checking'[v] = "accepted" /\ UNCHANGED <<presented, barred>>
        /\ \A h \in Hashes : h # presented[v] => entries'[h] = entries[h]
    BY <1>6 DEF StoreEntry, StoreEntryFails, KeyTypeOK
  <2>2. \A x \in barred : x # v /\ presented[x] # presented[v]
    BY <1>2, <2>1 DEF Storing
  <2>3. \A x \in barred : Storing(presented[x])' = {}
    BY <1>1, <1>2, <2>1 DEF Storing
  <2>4. \A x \in barred : /\ checking'[x] \in {"querying", "refused"}
                          /\ entries'[presented[x]] = NoRow
    BY <1>1, <1>2, <2>1, <2>2
  <2> QED
    BY <1>0, <1>1, <2>1, <2>3, <2>4, QuietBars
<1> QED
  BY <1>3, <1>4, <1>5, <1>6 DEF Validating

(* A call that changes a row. *)
LEMMA WritingBars ==
  ASSUME KeyInv, BarredRefused, NEW c \in KeyCalls, Changing(c), keys' # keys
  PROVE  BarredRefused'
<1> USE KeyAssumption DEF KeyInv
<1>1. /\ \A k \in Keys : keys[k] \in KeyRow \cup {NoRow}
      /\ \A v \in barred : Refused(presented[v]) /\ presented[v] \in issued
  BY DEF KeyTypeOK, BarredRefused, Refused
<1>2. ASSUME NEW k \in Keys, Revoke(c, k) PROVE BarredRefused'
  <2> DEFINE row == [keys[k] EXCEPT !.status = "revoked"]
  <2>1. /\ Put(c, k, row, "written") /\ issued' = issued /\ barred' = barred
        /\ keys[k] \in KeyRow
    BY <1>1, <1>2 DEF Revoke, Starts
  <2>2. row \in KeyRow \cup {NoRow} /\ row.status # "active"
    BY <2>1 DEF KeyRow, KeyStatuses
  <2>3. \A v \in barred' : ~Opens(row, presented[v])
    BY <2>2 DEF Opens
  <2> HIDE DEF row
  <2> QED
    BY <2>1, <2>2, <2>3, PutBars
<1>3. ASSUME NEW k \in Keys, DeleteKey(c, k) PROVE BarredRefused'
  <2>1. Put(c, k, NoRow, "written") /\ issued' = issued /\ barred' = barred
    BY <1>3 DEF DeleteKey
  <2>2. \A v \in barred' : ~Opens(NoRow, presented[v])
    BY DEF Opens
  <2> QED
    BY <2>1, <2>2, PutBars
<1>4. ASSUME NEW k \in Keys, NEW h \in Hashes, Regenerate(c, k, h) PROVE BarredRefused'
  <2> DEFINE row == [keys[k] EXCEPT !.status = "active", !.hash = h]
  <2>1. /\ Put(c, k, row, "written") /\ issued \subseteq issued' /\ barred' = barred
        /\ keys[k] \in KeyRow /\ h \notin issued
    BY <1>1, <1>4 DEF Regenerate, Starts
  <2>2. row \in KeyRow \cup {NoRow} /\ row.hash = h
    BY <2>1 DEF KeyRow, KeyStatuses
  <2>3. \A v \in barred' : ~Opens(row, presented[v])
    BY <1>1, <2>1, <2>2 DEF Opens
  <2> HIDE DEF row
  <2> QED
    BY <2>1, <2>2, <2>3, PutBars
<1>5. ASSUME NEW e \in Expiries, SaveUpdate(c, e) PROVE BarredRefused'
  <2> DEFINE k == keyCall[c].key
             row == [keys[k] EXCEPT !.version = @ + 1, !.expires = e]
  <2>1. k \in Keys /\ keys[k] \in KeyRow /\ keys[k].version + 1 \in Nat
    BY <1>1, <1>5 DEF SaveUpdate, CallsPlaced, KeyRow
  <2>2. Put(c, k, row, "written") /\ issued' = issued /\ Reopens(k, keys[k].status)
    BY <1>5 DEF SaveUpdate
  <2> HIDE DEF k
  <2>3. row \in KeyRow \cup {NoRow} /\ row.hash = keys[k].hash /\ row.status = keys[k].status
    BY <2>1 DEF KeyRow
  <2>4. barred' \subseteq barred /\ \A v \in barred' : ~Opens(row, presented[v])
    BY <2>2, <2>3 DEF Opens, Reopens
  <2> HIDE DEF row
  <2> QED
    BY <2>1, <2>2, <2>3, <2>4, PutBars
<1>6. ASSUME MarkKeyExpired(c) PROVE BarredRefused'
  <2> DEFINE k == keyCall[c].key
             row == [keys[k] EXCEPT !.status = "expired"]
  <2>1. k \in Keys /\ keys[k] \in KeyRow
    BY <1>1, <1>6 DEF MarkKeyExpired, CallsPlaced
  <2>2. Put(c, k, row, "written") /\ issued' = issued /\ barred' = barred
    BY <1>6 DEF MarkKeyExpired
  <2> HIDE DEF k
  <2>3. row \in KeyRow \cup {NoRow} /\ row.status # "active"
    BY <2>1 DEF KeyRow, KeyStatuses
  <2>4. \A v \in barred' : ~Opens(row, presented[v])
    BY <2>3 DEF Opens
  <2> HIDE DEF row
  <2> QED
    BY <2>1, <2>2, <2>3, <2>4, PutBars
<1>7. ASSUME RemoveRevoked(c) PROVE BarredRefused'
  <2> DEFINE k == keyCall[c].key
  <2>1. k \in Keys /\ Put(c, k, NoRow, "done") /\ issued' = issued /\ barred' = barred
    BY <1>7 DEF RemoveRevoked, CallsPlaced
  <2>2. \A v \in barred' : ~Opens(NoRow, presented[v])
    BY DEF Opens
  <2> HIDE DEF k
  <2> QED
    BY <2>1, <2>2, PutBars
<1>8. ASSUME NEW k \in Keys, NEW s \in KeyStatuses, NEW e \in Expiries, HandlerUpdate(c, k, s, e)
      PROVE  BarredRefused'
  <2> DEFINE row == [keys[k] EXCEPT !.version = @ + 1, !.status = s, !.expires = e]
  <2>1. keys[k] \in KeyRow /\ keys[k].version + 1 \in Nat
    BY <1>1, <1>8 DEF HandlerUpdate, Starts, KeyRow
  <2>2. Put(c, k, row, "done") /\ issued' = issued /\ Reopens(k, s)
    BY <1>8 DEF HandlerUpdate
  <2>3. row \in KeyRow \cup {NoRow} /\ row.hash = keys[k].hash /\ row.status = s
    BY <2>1 DEF KeyRow
  <2>4. barred' \subseteq barred /\ \A v \in barred' : ~Opens(row, presented[v])
    BY <2>2, <2>3 DEF Opens, Reopens
  <2> HIDE DEF row
  <2> QED
    BY <2>1, <2>2, <2>3, <2>4, PutBars
<1>9. ASSUME NEW k \in Keys, UpdateKey(c, k) \/ FindExpired(c, k) \/ FindRevoked(c, k)
      PROVE  FALSE
  BY <1>9 DEF UpdateKey, FindExpired, FindRevoked
<1>10. ASSUME WriteMisses(c) \/ ReadHash(c) \/ DeleteEntry(c) \/ InvalidateFails(c) PROVE FALSE
  BY <1>10 DEF WriteMisses, ReadHash, DeleteEntry, InvalidateFails
<1> QED
  BY <1>2, <1>3, <1>4, <1>5, <1>6, <1>7, <1>8, <1>9, <1>10 DEF Changing

(* A call that changes no row: some rewrite a row as it was. *)
LEMMA StillBars ==
  ASSUME KeyInv, BarredRefused, NEW c \in KeyCalls, Changing(c), keys' = keys
  PROVE  BarredRefused'
<1> USE DEF KeyInv
<1>1. \A x \in barred : /\ checking[x] \in {"querying", "refused"} /\ Refused(presented[x])
                        /\ presented[x] \in Hashes /\ presented[x] \in issued
  BY DEF BarredRefused, Refused, KeyTypeOK
<1>2. /\ UNCHANGED <<checking, presented, hour>>
      /\ issued \subseteq issued' /\ barred' \subseteq barred
      /\ \A h \in Hashes : entries'[h] \in {NoRow, entries[h]}
  BY DEF Changing, UpdateKey, SaveUpdate, HandlerUpdate, Revoke, DeleteKey, Regenerate,
         FindExpired, MarkKeyExpired, FindRevoked, RemoveRevoked, WriteMisses, ReadHash,
         DeleteEntry, InvalidateFails, Forget, Put, Reopens, keyHistory, KeyTypeOK
<1>3. \A x \in barred : Storing(presented[x])' = Storing(presented[x])
  BY <1>2 DEF Storing
<1> QED
  BY <1>1, <1>2, <1>3 DEF BarredRefused, Refused, PastExpiry

(* Every step preserves that barred hashes are refused. *)
LEMMA BarredStep ==
  ASSUME KeyInv, BarredRefused, [KeyNext]_keyVars
  PROVE  BarredRefused'
<1> USE KeyAssumption DEF KeyInv
<1>0. hour \in Int /\ \A k \in Keys : keys[k] # NoRow => keys[k].expires \in Int
  BY HoursAreInts
<1>1. \A x \in barred : /\ x \in Validations /\ checking[x] \in {"querying", "refused"}
                        /\ entries[presented[x]] = NoRow /\ Storing(presented[x]) = {}
                        /\ presented[x] \in Hashes /\ presented[x] \in issued
  BY DEF KeyTypeOK, BarredRefused, Refused
<1>2. ASSUME NEW k \in Keys, NEW h \in Hashes, NEW e \in Expiries, CreateKey(k, h, e)
      PROVE  BarredRefused'
  <2> DEFINE row == [id |-> k, hash |-> h, status |-> "active", expires |-> e, version |-> 0]
  <2>1. /\ \A j \in Keys : keys'[j] = IF j = k THEN row ELSE keys[j]
        /\ row.hash = h /\ h \notin issued /\ issued' = issued \cup {h}
        /\ UNCHANGED <<entries, checking, presented, hour, barred>>
    BY <1>2 DEF CreateKey, keyHistory, KeyTypeOK
  <2> HIDE DEF row
  <2>2. ASSUME NEW v \in barred PROVE Refused(presented[v])'
    <3>1. Refused(presented[v]) /\ presented[v] # h
      BY <1>1, <2>1 DEF BarredRefused
    <3>2. Storing(presented[v])' = {}
      BY <1>1, <2>1 DEF Storing
    <3> QED
      BY <2>1, <3>1, <3>2 DEF Refused, PastExpiry
  <2> QED
    BY <1>1, <2>1, <2>2 DEF BarredRefused
<1>3. ASSUME NEW v \in Validations, Validating(v) PROVE BarredRefused'
  BY <1>3, ValidatingBars
<1>4. ASSUME NEW c \in KeyCalls, Changing(c) PROVE BarredRefused'
  <2>1. CASE keys' # keys
    BY <1>4, <2>1, WritingBars
  <2>2. CASE keys' = keys
    BY <1>4, <2>2, StillBars
  <2> QED
    BY <2>1, <2>2
<1>5. ASSUME (\E h \in Hashes : EntryExpires(h)) \/ HourPasses \/ UNCHANGED keyVars
      PROVE  BarredRefused'
  <2>1. /\ UNCHANGED <<keys, issued, presented, checking, barred>>
        /\ \A h \in Hashes : entries'[h] \in {NoRow, entries[h]}
        /\ hour' \in Int /\ hour' >= hour
    BY <1>0, <1>1, <1>5 DEF EntryExpires, Forget, HourPasses, keyVars, keyHistory, KeyTypeOK
  <2>2. \A x \in barred : Storing(presented[x])' = {}
    BY <1>1, <2>1 DEF Storing
  <2> QED
    BY <1>0, <1>1, <2>1, <2>2, QuietBars
<1> QED
  BY <1>2, <1>3, <1>4, <1>5 DEF KeyNext

(* No order of revocations, expiries, updates, marks, clean-ups,           *)
(* regenerations and validations lets a refused hash in again: only a      *)
(* request that reopens its row does.                                      *)
THEOREM KeyRefusedUntilReopened == KeySpec => []RefusedUntilReopened
<1>1. KeyInit => BarredRefused
  BY DEF KeyInit, BarredRefused
<1>2. KeyInv /\ BarredRefused /\ [KeyNext]_keyVars => BarredRefused'
  BY BarredStep
<1>3. BarredRefused => RefusedUntilReopened
  BY DEF BarredRefused, RefusedUntilReopened
<1> QED
  BY KeyInvInit, KeyInvStep, <1>1, <1>2, <1>3, PTL DEF KeySpec
================================================================================
