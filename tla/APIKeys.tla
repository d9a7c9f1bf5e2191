-------------------------------- MODULE APIKeys --------------------------------
(***************************************************************************)
(* API keys (api_key_service.go): the rows of api_keys, a Redis cache of   *)
(* them by key hash, and calls of ValidateWithCache while the keys are     *)
(* updated, revoked, regenerated, deleted and marked as expired.  A row    *)
(* and its cache entry are written by different statements.                *)
(***************************************************************************)
EXTENDS Integers

CONSTANTS
  Keys,         \* ids of rows
  Hashes,       \* hashes of generated keys; 32 random bytes never repeat
  Validations,  \* calls of ValidateWithCache
  KeyCalls,     \* calls of the operations that change a row
  Expiries,     \* values of expires_at; one after LastHour stands for NULL
  LastHour,     \* bounds the clock
  NoRow         \* no row, no entry, no hash

ASSUME KeyAssumption ==
  /\ Expiries \subseteq Nat /\ LastHour \in Nat
  /\ NoRow \notin Keys \cup Hashes

VARIABLES
  keys,       \* the table
  used,       \* the ids that were given out: they are not given again
  issued,     \* the hashes that were
  entries,    \* the cache
  checking,   \* where a validation is
  presented,  \* the hash it was given
  held,       \* the row it read
  keyCall,    \* where another call is, with the key and the hash it is about
  hour,       \* the clock
  overtaken,  \* history: the validations whose row changed since they read it
  excused,    \* history: the hashes whose entry outlived a change of the row
  barred      \* history: the validations that began with a refused hash

keyHistory == <<overtaken, excused, barred>>

keyVars == <<keys, used, issued, entries, checking, presented, held, keyCall, hour, keyHistory>>

CheckPCs == {"idle", "evicting", "querying", "storing", "accepted", "refused"}
KeyPCs   == {"idle", "updating", "marking", "removing", "written", "clearing", "done"}

KeyStatuses == {"active", "revoked", "expired"}

(* version stands for the columns that only updates change. *)
KeyRow == [id : Keys, hash : Hashes, status : KeyStatuses,
           expires : Expiries, version : Nat]
-------------------------------------------------------------------------------
(* A definition named after a mistake is a mutant that PROJECT.json lists. *)
KeyInit ==
  /\ keys = [k \in Keys |-> NoRow]
  /\ used = {}
  /\ issued = {}
  /\ entries = [h \in Hashes |-> NoRow]
  /\ checking = [v \in Validations |-> "idle"]
  /\ presented = [v \in Validations |-> NoRow]
  /\ held = [v \in Validations |-> NoRow]
  /\ keyCall = [c \in KeyCalls |-> [pc |-> "idle", key |-> NoRow, hash |-> NoRow]]
  /\ hour = 0
  /\ overtaken = {} /\ excused = {} /\ barred = {}

PastExpiry(row) == row.expires < hour

Storing(h) == {v \in Validations : checking[v] = "storing" /\ presented[v] = h}

(* A hash that was given out and that neither the table nor the cache takes. *)
Refused(h) ==
  /\ h \in issued
  /\ entries[h] = NoRow /\ Storing(h) = {}
  /\ \A k \in Keys : /\ keys[k] # NoRow /\ keys[k].hash = h
                      => keys[k].status # "active" \/ PastExpiry(keys[k])

Begins(v, h) ==
  /\ checking[v] = "idle"
  /\ presented' = [presented EXCEPT ![v] = h]
  /\ barred' = IF Refused(h) THEN barred \cup {v} ELSE barred

(* A hit is served while it is active and not expired. *)
LookupEntry(v, h) ==
  /\ Begins(v, h)
  /\ LET e == entries[h]
         ok == e # NoRow /\ e.status = "active" /\ e.expires > hour
     IN /\ held' = [held EXCEPT ![v] = IF ok THEN e ELSE NoRow]
        /\ checking' = [checking EXCEPT ![v] = IF ok THEN "accepted"
                                               ELSE IF e = NoRow THEN "querying" ELSE "evicting"]
  /\ UNCHANGED <<keys, used, issued, entries, keyCall, hour, overtaken, excused>>

LookupFails(v, h) ==
  /\ Begins(v, h)
  /\ checking' = [checking EXCEPT ![v] = "querying"]
  /\ UNCHANGED <<keys, used, issued, entries, held, keyCall, hour, overtaken, excused>>

(* The entry of h is deleted. *)
Forget(h) ==
  /\ entries' = [entries EXCEPT ![h] = NoRow]
  /\ excused' = excused \ {h}

(* Whether the entry could be deleted is not looked at. *)
EvictEntry(v) ==
  /\ checking[v] = "evicting"
  /\ Forget(presented[v]) \/ UNCHANGED <<entries, excused>>
  /\ checking' = [checking EXCEPT ![v] = "querying"]
  /\ UNCHANGED <<keys, used, issued, presented, held, keyCall, hour, overtaken, barred>>

(* Validate *)
QueryKey(v) ==
  /\ checking[v] = "querying"
  /\ LET found == {k \in Keys : /\ keys[k] # NoRow
                                /\ keys[k].hash = presented[v]
                                /\ keys[k].status = "active"
                                /\ ~PastExpiry(keys[k])}
     IN IF found = {}
        THEN checking' = [checking EXCEPT ![v] = "refused"] /\ UNCHANGED held
        ELSE /\ checking' = [checking EXCEPT ![v] = "storing"]
             /\ \E k \in found : held' = [held EXCEPT ![v] = keys[k]]
  /\ UNCHANGED <<keys, used, issued, entries, presented, keyCall, hour, keyHistory>>

StoreEntry(v) ==
  /\ checking[v] = "storing"
  /\ entries' = [entries EXCEPT ![presented[v]] = held[v]]
  /\ checking' = [checking EXCEPT ![v] = "accepted"]
  /\ excused' = IF v \in overtaken THEN excused \cup {presented[v]} ELSE excused \ {presented[v]}
  /\ overtaken' = overtaken \ {v}
  /\ UNCHANGED <<keys, used, issued, presented, held, keyCall, hour, barred>>

(* The validation does not depend on the cache. *)
StoreEntryFails(v) ==
  /\ checking[v] = "storing"
  /\ checking' = [checking EXCEPT ![v] = "accepted"]
  /\ overtaken' = overtaken \ {v}
  /\ UNCHANGED <<keys, used, issued, entries, presented, held, keyCall, hour, excused, barred>>
-------------------------------------------------------------------------------
(* The row of k is written, or removed, by a call that goes on to pc.      *)
Put(c, k, row, pc) ==
  /\ keys' = [keys EXCEPT ![k] = row]
  /\ keyCall' = [keyCall EXCEPT ![c].pc = pc, ![c].key = k]
  /\ overtaken' = overtaken \cup Storing(keys[k].hash)
  /\ UNCHANGED <<used, entries, checking, presented, held, hour>>

(* Who sets a row to active, or moves the expiry of an active one, may let *)
(* validations of its hash in.                                             *)
Reopens(k, status) ==
  barred' = IF status = "active" THEN {v \in barred : presented[v] # keys[k].hash} ELSE barred

Starts(c, k) == keyCall[c].pc = "idle" /\ keys[k] # NoRow

CreateKey(k, h, expires) ==
  /\ k \notin used /\ h \notin issued
  /\ used' = used \cup {k}
  /\ issued' = issued \cup {h}
  /\ keys' = [keys EXCEPT ![k] = [id |-> k, hash |-> h, status |-> "active",
                                  expires |-> expires, version |-> 0]]
  /\ UNCHANGED <<entries, checking, presented, held, keyCall, hour, keyHistory>>

(* Update looks at the status of the row it read, and then writes.         *)
UpdateKey(c, k) ==
  /\ Starts(c, k)
  /\ keys[k].status # "revoked"
  /\ keyCall' = [keyCall EXCEPT ![c].pc = "updating", ![c].key = k]
  /\ UNCHANGED <<keys, used, issued, entries, checking, presented, held, hour, keyHistory>>

SaveUpdateWholeRow(c, expires) ==
  /\ keyCall[c].pc = "updating"
  /\ LET k == keyCall[c].key
         row == keys[k]
     IN /\ row # NoRow
        /\ Put(c, k, [row EXCEPT !.version = @ + 1, !.expires = expires, !.status = "active"],
               "written")
        /\ Reopens(k, row.status)
  /\ UNCHANGED <<issued, excused>>

SaveUpdate(c, expires) ==
  /\ keyCall[c].pc = "updating"
  /\ LET k == keyCall[c].key
         row == keys[k]
     IN /\ row # NoRow
        /\ Put(c, k, [row EXCEPT !.version = @ + 1, !.expires = expires], "written")
        /\ Reopens(k, row.status)
  /\ UNCHANGED <<issued, excused>>

(* The handler's update, of its own service and of the repository.  It     *)
(* writes any status and an expiry, NULL if none was sent, whatever the    *)
(* row is, and leaves the cache alone.                                     *)
HandlerUpdate(c, k, status, expires) ==
  /\ Starts(c, k)
  /\ Put(c, k, [keys[k] EXCEPT !.version = @ + 1, !.status = status, !.expires = expires], "done")
  /\ Reopens(k, status)
  /\ excused' = excused \cup {h \in {keys[k].hash} : entries[h] # NoRow}
  /\ UNCHANGED issued

RevokeKeepingEntry(c, k) ==
  /\ Starts(c, k)
  /\ Put(c, k, [keys[k] EXCEPT !.status = "revoked"], "done")
  /\ UNCHANGED <<issued, excused, barred>>

Revoke(c, k) ==
  /\ Starts(c, k)
  /\ Put(c, k, [keys[k] EXCEPT !.status = "revoked"], "written")
  /\ UNCHANGED <<issued, excused, barred>>

(* A key that is regenerated is active again, with another hash.  That the *)
(* row was read before, for its name, decides nothing.                     *)
Regenerate(c, k, h) ==
  /\ Starts(c, k)
  /\ h \notin issued
  /\ issued' = issued \cup {h}
  /\ Put(c, k, [keys[k] EXCEPT !.status = "active", !.hash = h], "written")
  /\ UNCHANGED <<excused, barred>>

DeleteKey(c, k) ==
  /\ Starts(c, k)
  /\ Put(c, k, NoRow, "written")
  /\ UNCHANGED <<issued, excused, barred>>

(* MarkExpiredKeys finds a key, and then sets its status by id alone.      *)
FindExpired(c, k) ==
  /\ Starts(c, k)
  /\ keys[k].status = "active" /\ PastExpiry(keys[k])
  /\ keyCall' = [keyCall EXCEPT ![c].pc = "marking", ![c].key = k]
  /\ UNCHANGED <<keys, used, issued, entries, checking, presented, held, hour, keyHistory>>

MarkKeyExpired(c) ==
  /\ keyCall[c].pc = "marking"
  /\ keys[keyCall[c].key] # NoRow
  /\ Put(c, keyCall[c].key, [keys[keyCall[c].key] EXCEPT !.status = "expired"], "written")
  /\ UNCHANGED <<issued, excused, barred>>

(* CleanupRevokedKeys finds a key, and then deletes it by id alone: it may *)
(* have been regenerated.                                                  *)
FindRevoked(c, k) ==
  /\ Starts(c, k)
  /\ keys[k].status = "revoked"
  /\ keyCall' = [keyCall EXCEPT ![c].pc = "removing", ![c].key = k]
  /\ UNCHANGED <<keys, used, issued, entries, checking, presented, held, hour, keyHistory>>

RemoveRevoked(c) ==
  /\ keyCall[c].pc = "removing"
  /\ keys[keyCall[c].key] # NoRow
  /\ Put(c, keyCall[c].key, NoRow, "done")
  /\ UNCHANGED <<issued, excused, barred>>

(* The row is gone between the two statements: the second one fails. *)
WriteMisses(c) ==
  /\ keyCall[c].pc \in {"updating", "marking", "removing"}
  /\ keys[keyCall[c].key] = NoRow
  /\ keyCall' = [keyCall EXCEPT ![c].pc = "done"]
  /\ UNCHANGED <<keys, used, issued, entries, checking, presented, held, hour, keyHistory>>

(* invalidateCache reads the row for its hash: of a deleted row it deletes *)
(* nothing, of a regenerated one the entry of the new hash.                *)
ReadHash(c) ==
  /\ keyCall[c].pc = "written"
  /\ LET row == keys[keyCall[c].key]
     IN keyCall' = [keyCall EXCEPT ![c].pc = IF row = NoRow THEN "done" ELSE "clearing",
                                   ![c].hash = IF row = NoRow THEN NoRow ELSE row.hash]
  /\ UNCHANGED <<keys, used, issued, entries, checking, presented, held, hour, keyHistory>>

DeleteEntry(c) ==
  /\ keyCall[c].pc = "clearing"
  /\ Forget(keyCall[c].hash)
  /\ keyCall' = [keyCall EXCEPT ![c].pc = "done"]
  /\ UNCHANGED <<keys, used, issued, checking, presented, held, hour, overtaken, barred>>

(* Either of its two steps fails: the entry stays, and nobody is told. *)
InvalidateFails(c) ==
  /\ \/ keyCall[c].pc = "written"
        /\ excused' = excused \cup {h \in Hashes : /\ keys[keyCall[c].key] # NoRow
                                                  /\ keys[keyCall[c].key].hash = h
                                                  /\ entries[h] # NoRow}
     \/ keyCall[c].pc = "clearing"
        /\ excused' = excused \cup {h \in {keyCall[c].hash} : entries[h] # NoRow}
  /\ keyCall' = [keyCall EXCEPT ![c].pc = "done"]
  /\ UNCHANGED <<keys, used, issued, entries, checking, presented, held, hour, overtaken, barred>>
-------------------------------------------------------------------------------
(* The time to live of an entry, five minutes, is over. *)
EntryExpires(h) ==
  /\ entries[h] # NoRow
  /\ Forget(h)
  /\ UNCHANGED <<keys, used, issued, checking, presented, held, keyCall, hour, overtaken, barred>>

HourPasses ==
  /\ hour < LastHour
  /\ hour' = hour + 1
  /\ UNCHANGED <<keys, used, issued, entries, checking, presented, held, keyCall, keyHistory>>

Validating(v) ==
  \/ \E h \in Hashes : LookupEntry(v, h) \/ LookupFails(v, h)
  \/ EvictEntry(v) \/ QueryKey(v) \/ StoreEntry(v) \/ StoreEntryFails(v)

Changing(c) ==
  \/ \E k \in Keys : UpdateKey(c, k) \/ Revoke(c, k) \/ DeleteKey(c, k)
                     \/ FindExpired(c, k) \/ FindRevoked(c, k)
  \/ \E k \in Keys, h \in Hashes : Regenerate(c, k, h)
  \/ \E e \in Expiries : SaveUpdate(c, e)
  \/ \E k \in Keys, status \in KeyStatuses, e \in Expiries : HandlerUpdate(c, k, status, e)
  \/ MarkKeyExpired(c) \/ RemoveRevoked(c) \/ WriteMisses(c)
  \/ ReadHash(c) \/ DeleteEntry(c) \/ InvalidateFails(c)

KeyNext ==
  \/ \E k \in Keys, h \in Hashes, e \in Expiries : CreateKey(k, h, e)
  \/ \E v \in Validations : Validating(v)
  \/ \E c \in KeyCalls : Changing(c)
  \/ \E h \in Hashes : EntryExpires(h)
  \/ HourPasses

KeySpec == KeyInit /\ [][KeyNext]_keyVars
-------------------------------------------------------------------------------
KeyTypeOK ==
  /\ keys \in [Keys -> KeyRow \cup {NoRow}]
  /\ used \subseteq Keys
  /\ issued \subseteq Hashes
  /\ entries \in [Hashes -> KeyRow \cup {NoRow}]
  /\ checking \in [Validations -> CheckPCs]
  /\ presented \in [Validations -> Hashes \cup {NoRow}]
  /\ held \in [Validations -> KeyRow \cup {NoRow}]
  /\ keyCall \in [KeyCalls -> [pc : KeyPCs, key : Keys \cup {NoRow}, hash : Hashes \cup {NoRow}]]
  /\ hour \in 0..LastHour
  /\ overtaken \subseteq Validations /\ excused \subseteq Hashes /\ barred \subseteq Validations

(* Once the calls that changed a key are through, the cache serves its hash *)
(* from the row as it is, unless that very entry was stored by a validation *)
(* whose row had changed since it read it, or outlived a change because     *)
(* Redis failed or the change was the handler's, which does not invalidate. *)
(* Deleting the entry, letting it expire and storing it anew all end the    *)
(* excuse.                                                                  *)
CacheFollowsRow ==
  \A k \in Keys :
    /\ keys[k] # NoRow
    /\ \A c \in KeyCalls : keyCall[c].key = k => keyCall[c].pc \notin {"written", "clearing"}
    => LET h == keys[k].hash IN entries[h] \in {NoRow, keys[k]} \/ h \in excused

(* A validation that begins with a hash that is refused, its row gone,      *)
(* revoked or past its expiry and no entry there or about to be stored, is  *)
(* not accepted, unless a request set the row to active or moved the expiry *)
(* of an active row meanwhile.  Updates that checked the status before a    *)
(* revocation and write after it, marks, clean-ups, regenerations and other *)
(* validations of the hash do not let it in.                                *)
RefusedUntilReopened == \A v \in barred : checking[v] # "accepted"
===============================================================================
