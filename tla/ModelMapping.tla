------------------------------ MODULE ModelMapping -----------------------------
(***************************************************************************)
(* The aliases of models (model_mapping_service.go): a global mapping in   *)
(* the memory of one process, behind a read-write lock, and a copy of it   *)
(* in the cache that a new process starts from; the mapping of an account, *)
(* in the cache only; and resolutions that follow a chain of aliases.      *)
(***************************************************************************)
EXTENDS Integers, FiniteSets

CONSTANTS
  Aliases,         \* names of models
  Mappings,        \* mappings that may be set: from some names to names
  defaultGlobalMapping,
  EmptyMapping,    \* the one without names
  MappingCalls,    \* resolutions, and calls that set or delete a mapping
  MaxHops,         \* links of a chain that are followed, 10
  NoMapping        \* nothing in the cache

ASSUME MappingAssumption ==
  /\ MaxHops \in Nat \ {0}
  /\ EmptyMapping \in Mappings /\ DOMAIN EmptyMapping = {}
  /\ \A f \in Mappings \cup {defaultGlobalMapping} :
       DOMAIN f \subseteq Aliases /\ \A m \in DOMAIN f : f[m] \in Aliases
  /\ NoMapping \notin Mappings \cup {defaultGlobalMapping}

VARIABLES
  globalMapping,  \* in memory
  globalCached,   \* model_mapping:global
  accountCached,  \* model_mapping:account:<id>, of one account
  mappingCall,    \* where a call is
  lastSet,        \* history: the mapping that the last call set
  forgettable     \* history: why another one may be loaded

mappingVars == <<globalMapping, globalCached, accountCached, mappingCall, lastSet, forgettable>>

MappingPCs == {"idle", "resolving", "persisting", "done"}

MappingIdle == [pc |-> "idle", at |-> NoMapping, visited |-> {}, hops |-> 0, set |-> NoMapping]
-------------------------------------------------------------------------------
(* A definition named after a mistake is a mutant that PROJECT.json lists. *)
MappingInit ==
  /\ globalMapping = defaultGlobalMapping
  /\ globalCached = NoMapping
  /\ accountCached = NoMapping
  /\ mappingCall = [c \in MappingCalls |-> MappingIdle]
  /\ lastSet = defaultGlobalMapping
  /\ forgettable = {}

MappingGoes(c, pc) == mappingCall' = [mappingCall EXCEPT ![c].pc = pc]

(* ResolveMappingWithAccount: the account's mapping has the first word; a   *)
(* GET that fails, and ResolveMapping itself, go without.                  *)
BeginResolving(c, m, asks) ==
  /\ mappingCall[c].pc = "idle"
  /\ LET given == asks /\ accountCached # NoMapping /\ m \in DOMAIN accountCached
     IN mappingCall' = [mappingCall EXCEPT ![c] =
          [@ EXCEPT !.pc = "resolving", !.at = IF given THEN accountCached[m] ELSE m]]
  /\ UNCHANGED <<globalMapping, globalCached, accountCached, lastSet, forgettable>>

(* One link: the lock is taken for the look-up alone, so that the mapping  *)
(* may be another one at the next link.  The search of the accounts'       *)
(* mappings finds nothing.                                                 *)
FollowLink(c) ==
  /\ mappingCall[c].pc = "resolving"
  /\ LET r == mappingCall[c]
         stops == r.hops = MaxHops \/ r.at \in r.visited \/ r.at \notin DOMAIN globalMapping
     IN mappingCall' = [mappingCall EXCEPT ![c] =
          IF stops THEN [r EXCEPT !.pc = "done"]
          ELSE [r EXCEPT !.at = globalMapping[r.at], !.visited = @ \cup {r.at}, !.hops = @ + 1]]
  /\ UNCHANGED <<globalMapping, globalCached, accountCached, lastSet, forgettable>>

(* SetGlobalMapping changes the memory under the lock, and then the cache. *)
SetGlobalMapping(c, f) ==
  /\ mappingCall[c].pc = "idle"
  /\ globalMapping' = f
  /\ mappingCall' = [mappingCall EXCEPT ![c].pc = "persisting", ![c].set = f]
  /\ lastSet' = f
  /\ forgettable' = (IF f = EmptyMapping THEN {"empty"} ELSE {})
                    \cup {x \in {"overlap"} : \E o \in MappingCalls : mappingCall[o].pc = "persisting"}
  /\ UNCHANGED <<globalCached, accountCached>>

PersistNowhere(c, ok) ==
  /\ mappingCall[c].pc = "persisting"
  /\ forgettable' = IF ok THEN forgettable ELSE forgettable \cup {"failed"}
  /\ MappingGoes(c, "done")
  /\ UNCHANGED <<globalMapping, globalCached, accountCached, lastSet>>

(* A SET that fails is reported, and the memory keeps the mapping. *)
PersistGlobal(c, ok) ==
  /\ mappingCall[c].pc = "persisting"
  /\ globalCached' = IF ok THEN mappingCall[c].set ELSE globalCached
  /\ forgettable' = IF ok THEN forgettable ELSE forgettable \cup {"failed"}
  /\ MappingGoes(c, "done")
  /\ UNCHANGED <<globalMapping, accountCached, lastSet>>

(* Thirty minutes after it was stored. *)
GlobalExpires ==
  /\ globalCached # NoMapping
  /\ globalCached' = NoMapping
  /\ forgettable' = forgettable \cup {"expired"}
  /\ UNCHANGED <<globalMapping, accountCached, mappingCall, lastSet>>

(* NewModelMappingService in a new process, which starts from the defaults *)
(* and replaces them by what is cached, unless that is empty or cannot be  *)
(* read; the calls of the old process are gone.                            *)
Restart(reads) ==
  /\ globalMapping' = IF reads /\ globalCached \notin {NoMapping, EmptyMapping}
                      THEN globalCached ELSE defaultGlobalMapping
  /\ forgettable' =
       forgettable \cup {x \in {"unread"} : ~reads}
                   \cup {x \in {"crash"} : \E c \in MappingCalls : mappingCall[c].pc = "persisting"}
  /\ mappingCall' = [c \in MappingCalls |->
       IF mappingCall[c].pc = "idle" THEN mappingCall[c] ELSE [mappingCall[c] EXCEPT !.pc = "done"]]
  /\ UNCHANGED <<globalCached, accountCached, lastSet>>

SetAccountModelMapping(c, f) ==
  /\ mappingCall[c].pc = "idle"
  /\ accountCached' = f
  /\ MappingGoes(c, "done")
  /\ UNCHANGED <<globalMapping, globalCached, lastSet, forgettable>>

(* Deleted by DeleteAccountModelMapping, or after thirty minutes: there is  *)
(* no other copy.                                                          *)
AccountMappingGone ==
  /\ accountCached # NoMapping
  /\ accountCached' = NoMapping
  /\ UNCHANGED <<globalMapping, globalCached, mappingCall, lastSet, forgettable>>

MappingNext ==
  \/ \E c \in MappingCalls :
       \/ \E m \in Aliases, asks \in BOOLEAN : BeginResolving(c, m, asks)
       \/ FollowLink(c)
       \/ \E f \in Mappings : SetGlobalMapping(c, f) \/ SetAccountModelMapping(c, f)
       \/ \E ok \in BOOLEAN : PersistGlobal(c, ok)
  \/ GlobalExpires \/ AccountMappingGone
  \/ \E reads \in BOOLEAN : Restart(reads)

MappingSpec == MappingInit /\ [][MappingNext]_mappingVars
-------------------------------------------------------------------------------
MappingTypeOK ==
  /\ globalMapping \in Mappings \cup {defaultGlobalMapping}
  /\ globalCached \in Mappings \cup {NoMapping}
  /\ accountCached \in Mappings \cup {NoMapping}
  /\ \A c \in MappingCalls : mappingCall[c].pc \in MappingPCs /\ mappingCall[c].hops \in 0..MaxHops
  /\ forgettable \subseteq {"empty", "overlap", "failed", "expired", "unread", "crash"}

(* A process resolves by the mapping that was set last, also when it has    *)
(* been restarted since, and a chain was being followed meanwhile: unless   *)
(* the copy had expired after thirty minutes, could not be stored or read,  *)
(* was stored by overlapping calls in another order, was not stored yet, or *)
(* is empty, which brings the defaults back.                                *)
MappingSurvivesRestart == globalMapping = lastSet \/ forgettable # {}
===============================================================================
