------------------------------ MODULE AdminTables -----------------------------
(***************************************************************************)
(* The administrators' tables: groups, upstream accounts and users, the    *)
(* pairs of a group and an account (group_repository.go,                   *)
(* account_repository.go, user_repository.go), and the handlers that       *)
(* change them (handler/admin/).  A handler looks a row up in one query    *)
(* and writes in another, without a transaction.                           *)
(***************************************************************************)
EXTENDS Integers, FiniteSets

CONSTANTS
  RowIDs,      \* ids of rows
  FirstRows,  \* those of the rows at first
  TableOf,    \* the table of each: "groups", "accounts" or "users"
  AdminCalls, \* requests of administrators
  FieldValues,\* values a field may be given
  Cleared,    \* the value of a field that is null
  NoEntry     \* no row

(* name stands for every column that an update leaves alone when it is not *)
(* sent, rpm for the limit of requests: of a group rpm_override, which may  *)
(* be null.                                                                *)
Fields == {"name", "rpm"}

ASSUME AdminAssumption ==
  /\ TableOf \in [RowIDs -> {"groups", "accounts", "users"}]
  /\ FirstRows \subseteq RowIDs /\ Cleared \notin FieldValues /\ FieldValues # {}
  /\ NoEntry \notin [Fields -> FieldValues \cup {Cleared}]

VARIABLES
  table,    \* the rows: fields that stand for the columns
  pairs,    \* account_groups
  admin,    \* where a request is
  sent,     \* history: for each row and field the value that a request last sent
  silent    \* history: the rows whose last update sent no limit

adminVars == <<table, pairs, admin, sent, silent>>

AdminPCs == {"idle", "linking", "found", "created", "failed", "done"}

Pairs == {q \in RowIDs \X RowIDs : TableOf[q[1]] = "groups" /\ TableOf[q[2]] = "accounts"}

PairsOf(i) == {q \in Pairs : i \in {q[1], q[2]}}

AdminStart == [pc |-> "idle", id |-> NoEntry, row |-> NoEntry, pairs |-> {}]
-------------------------------------------------------------------------------
(* A definition named after a mistake is a mutant that PROJECT.json lists. *)
AdminInit ==
  /\ table = [i \in RowIDs |-> IF i \in FirstRows
                               THEN [f \in Fields |-> CHOOSE v \in FieldValues : TRUE] ELSE NoEntry]
  /\ pairs = {}
  /\ admin = [c \in AdminCalls |-> AdminStart]
  /\ sent = table /\ silent = {}

AdminGoes(c, pc) == admin' = [admin EXCEPT ![c].pc = pc]

Exists(i) == table[i] # NoEntry

(* The insert of a row; its pairs are left to a second statement.          *)
Create(c, i, v, r, S) ==
  /\ admin[c].pc = "idle" /\ ~Exists(i)
  /\ S \subseteq PairsOf(i)
  /\ table' = [table EXCEPT ![i] = [name |-> v, rpm |-> r]]
  /\ sent' = [sent EXCEPT ![i] = [name |-> v, rpm |-> r]]
  /\ silent' = silent \ {i}
  /\ admin' = [admin EXCEPT ![c] = [@ EXCEPT !.pc = IF S = {} THEN "created" ELSE "linking",
                                             !.id = i, !.pairs = S]]
  /\ UNCHANGED pairs

(* rpm_override may be null.                                               *)
CreateGroup(c, i, v, r, S) ==
  /\ TableOf[i] = "groups"
  /\ Create(c, i, v, r, S)

(* Limits that are not positive get defaults.                              *)
CreateAccount(c, i, v, r, S) ==
  /\ TableOf[i] = "accounts" /\ r # Cleared
  /\ Create(c, i, v, r, S)

(* The look-up of the e-mail that comes first is as in SignUp.             *)
CreateUserRow(c, i, v, r) ==
  /\ TableOf[i] = "users" /\ r # Cleared
  /\ Create(c, i, v, r, {})

(* A second statement stores the pairs, all or none.  If it fails, also    *)
(* because one is there or its other row is not, the request fails, and    *)
(* the row stays; a retry creates another.                                 *)
CreatePairs(c, ok) ==
  /\ admin[c].pc = "linking"
  /\ ok => /\ admin[c].pairs \cap pairs = {}
           /\ \A q \in admin[c].pairs : Exists(q[1]) /\ Exists(q[2])
  /\ pairs' = IF ok THEN pairs \cup admin[c].pairs ELSE pairs
  /\ AdminGoes(c, IF ok THEN "created" ELSE "failed")
  /\ UNCHANGED <<table, sent, silent>>

(* Updates, deletions and changes of pairs look the row up first.          *)
Get(c, i) ==
  /\ admin[c].pc = "idle" /\ Exists(i)
  /\ admin' = [admin EXCEPT ![c] = [@ EXCEPT !.pc = "found", !.id = i, !.row = table[i]]]
  /\ UNCHANGED <<table, pairs, sent, silent>>

Found(c, t) ==
  admin[c].pc = "found" /\ Exists(admin[c].id) /\ TableOf[admin[c].id] = t

(* A row that is gone by the time of the statement fails the request.      *)
WriteFails(c) ==
  /\ admin[c].pc = "found" /\ ~Exists(admin[c].id)
  /\ AdminGoes(c, "failed")
  /\ UNCHANGED <<table, pairs, sent, silent>>

(* The columns that a statement sets: those with a value that is not empty *)
(* or 0.                                                                   *)
SetSent(row, F, v) == [f \in Fields |-> IF f \in F THEN v ELSE row[f]]

(* Of a group rpm_override is cleared if it is not sent.                   *)
SetSentOrClear(row, F, v) == [SetSent(row, F, v) EXCEPT !.rpm = IF "rpm" \in F THEN v ELSE Cleared]

(* A request that sent v for the fields F stores a row. *)
Store(c, F, v, row) ==
  /\ LET i == admin[c].id
     IN /\ table' = [table EXCEPT ![i] = row]
        /\ sent' = [sent EXCEPT ![i] = SetSent(@, F, v)]
        /\ silent' = IF "rpm" \in F THEN silent \ {i} ELSE silent \cup {i}
  /\ AdminGoes(c, "done")
  /\ UNCHANGED pairs

UpdateGroupWhole(c, F, v) ==
  /\ Found(c, "groups")
  /\ Store(c, F, v, SetSentOrClear(admin[c].row, F, v))

UpdateGroup(c, F, v) ==
  /\ Found(c, "groups")
  /\ Store(c, F, v, SetSentOrClear(table[admin[c].id], F, v))

UpdateAccount(c, F, v) ==
  /\ Found(c, "accounts")
  /\ Store(c, F, v, SetSent(table[admin[c].id], F, v))

UpdateUser(c, F, v) ==
  /\ Found(c, "users")
  /\ Store(c, F, v, SetSent(table[admin[c].id], F, v))

(* Of a user only the status is changed, for which name stands.            *)
DeleteUserRow(c) ==
  /\ Found(c, "users")
  /\ Store(c, {"name"}, Cleared, SetSent(table[admin[c].id], {"name"}, Cleared))

DeleteKeepingPairs(c, refused) ==
  /\ table' = IF refused THEN table ELSE [table EXCEPT ![admin[c].id] = NoEntry]
  /\ sent' = IF refused THEN sent ELSE [sent EXCEPT ![admin[c].id] = NoEntry]
  /\ silent' = IF refused THEN silent ELSE silent \ {admin[c].id}
  /\ AdminGoes(c, IF refused THEN "failed" ELSE "done")
  /\ UNCHANGED pairs

(* While a row is in a pair, the database (external) refuses to delete it, *)
(* or deletes its pairs.                                                   *)
Delete(c, refused) ==
  /\ LET i == admin[c].id
     IN /\ refused => PairsOf(i) \cap pairs # {}
        /\ table' = IF refused THEN table ELSE [table EXCEPT ![i] = NoEntry]
        /\ sent' = IF refused THEN sent ELSE [sent EXCEPT ![i] = NoEntry]
        /\ silent' = IF refused THEN silent ELSE silent \ {i}
        /\ pairs' = IF refused THEN pairs ELSE pairs \ PairsOf(i)
  /\ AdminGoes(c, IF refused THEN "failed" ELSE "done")

DeleteGroup(c, refused) ==
  /\ Found(c, "groups")
  /\ Delete(c, refused)

DeleteAccount(c, refused) ==
  /\ Found(c, "accounts")
  /\ Delete(c, refused)

(* All of them, or none if one is there already or its account is not.     *)
AddAccounts(c, S) ==
  /\ Found(c, "groups")
  /\ S # {} /\ S \subseteq PairsOf(admin[c].id)
  /\ LET ok == S \cap pairs = {} /\ \A q \in S : Exists(q[2])
     IN /\ pairs' = IF ok THEN pairs \cup S ELSE pairs
        /\ AdminGoes(c, IF ok THEN "done" ELSE "failed")
  /\ UNCHANGED <<table, sent, silent>>

RemoveAccounts(c, S) ==
  /\ Found(c, "groups")
  /\ S # {} /\ S \subseteq PairsOf(admin[c].id)
  /\ pairs' = pairs \ S
  /\ AdminGoes(c, "done")
  /\ UNCHANGED <<table, sent, silent>>

AdminNext ==
  \E c \in AdminCalls :
    \/ \E i \in RowIDs, v \in FieldValues, r \in FieldValues \cup {Cleared} :
         \/ \E S \in SUBSET PairsOf(i) : CreateGroup(c, i, v, r, S) \/ CreateAccount(c, i, v, r, S)
         \/ CreateUserRow(c, i, v, r)
    \/ \E i \in RowIDs : Get(c, i)
    \/ \E F \in SUBSET Fields, v \in FieldValues :
         UpdateGroup(c, F, v) \/ UpdateAccount(c, F, v) \/ UpdateUser(c, F, v)
    \/ \E S \in SUBSET Pairs : AddAccounts(c, S) \/ RemoveAccounts(c, S)
    \/ \E ok \in BOOLEAN : CreatePairs(c, ok) \/ DeleteGroup(c, ok) \/ DeleteAccount(c, ok)
    \/ DeleteUserRow(c)
    \/ WriteFails(c)

AdminSpec == AdminInit /\ [][AdminNext]_adminVars
-------------------------------------------------------------------------------
AdminTypeOK ==
  /\ \A i \in RowIDs : Exists(i) => /\ table[i].name \in FieldValues \cup {Cleared}
                                   /\ table[i].rpm \in FieldValues \cup {Cleared}
  /\ pairs \subseteq {q \in Pairs : Exists(q[1]) /\ Exists(q[2])}
  /\ \A c \in AdminCalls : admin[c].pc \in AdminPCs

(* Administrators who each looked a row up before the other wrote do not    *)
(* bring back old values: a column has the value that a request last sent   *)
(* for it.  Only rpm_override of a group does not outlive an update that    *)
(* does not send it, as when another administrator renames the group: then  *)
(* it is null.                                                              *)
ColumnsHoldLastSent ==
  \A i \in RowIDs : Exists(i) =>
    /\ table[i].name = sent[i].name
    /\ table[i].rpm = IF TableOf[i] = "groups" /\ i \in silent THEN Cleared ELSE sent[i].rpm
===============================================================================
