-------------------------------- MODULE Sessions ------------------------------
(***************************************************************************)
(* The sessions of one user: the row of users, the refresh token the user  *)
(* service keeps in Redis and the profile it caches (user_service.go), the *)
(* blacklists of token ids, the authentication handlers (auth_handler.go)  *)
(* and the middlewares that admit a request by its token (jwt_auth.go,     *)
(* admin_auth.go).  A login answers with two tokens of the same claims,    *)
(* modelled as one.  A password that does not match ends a call without a  *)
(* trace, and passwords are left out.                                      *)
(*                                                                         *)
(* users.token_version is compared for equality alone.  A version stands   *)
(* for the place of its value among the values the row has had: one more   *)
(* than the last for a sum as for 32 random bits, which are taken not to   *)
(* hit a value the row had before.                                         *)
(***************************************************************************)
EXTENDS Integers, FiniteSets

CONSTANTS
  SessionCalls,  \* calls of the services and of the handlers
  MaxVersion,    \* bounds users.token_version
  LastIssue,     \* the last second at which tokens are issued
  Names,         \* names a profile may have
  FirstName,     \* the name at first
  NoToken,       \* no token, or a token without an id
  NoProfile      \* no entry in the cache

Tokens ==
  [version : 1..MaxVersion, role : {"user", "admin"}, at : 0..LastIssue,
   id : SessionCalls \cup {NoToken}]

ASSUME SessionAssumption ==
  /\ MaxVersion \in Nat \ {0} /\ LastIssue \in Nat
  /\ FirstName \in Names
  /\ NoToken \notin SessionCalls \cup Tokens

VARIABLES
  user,         \* the row
  refreshKey,   \* user:refresh_token:<id> in Redis
  profile,      \* the cached row
  blacklist,    \* the ids in blacklist:token and in blacklist:refresh
  issuedAt,     \* the second of issued_at
  handed,       \* the tokens that were answered
  session,      \* where a call is
  over,         \* history: the key was deleted, and nobody logged in since
  stale         \* history: the cached profile was not cleared, or filled late

sessionVars == <<user, refreshKey, profile, blacklist, issuedAt, handed, session, over, stale>>

UserRows ==
  [version : 1..MaxVersion, status : {"active", "suspended", "deleted"},
   role : {"user", "admin"}, name : Names]

SessionPCs == {"idle", "checking", "generating", "storing", "revoking", "bumping",
               "blacklisting", "uncaching", "filling", "done"}

SessionStart == [pc |-> "idle", kind |-> "none", row |-> NoProfile, token |-> NoToken, floor |-> 0]

FirstToken == [version |-> 1, role |-> "user", at |-> 0, id |-> NoToken]
-------------------------------------------------------------------------------
(* A definition named after a mistake is a mutant that PROJECT.json lists. *)

(* The user has logged in once. *)
SessionInit ==
  /\ user = [version |-> 1, status |-> "active", role |-> "user", name |-> FirstName]
  /\ refreshKey = FirstToken
  /\ profile = NoProfile
  /\ blacklist = [access |-> {}, refresh |-> {}]
  /\ issuedAt = 0
  /\ handed = {FirstToken}
  /\ session = [c \in SessionCalls |-> SessionStart]
  /\ over = FALSE
  /\ stale = FALSE

SecondPasses ==
  /\ issuedAt < LastIssue
  /\ issuedAt' = issuedAt + 1
  /\ UNCHANGED <<user, refreshKey, profile, blacklist, handed, session, over, stale>>

SessionGoes(c, pc) == session' = [session EXCEPT ![c].pc = pc]

Idle(c) == session[c].pc = "idle"

(* Calls that may still answer with a token. *)
SigningIn == {c \in SessionCalls : session[c].pc \in {"checking", "generating", "storing"}}

(* The row is read, and is that of an active user. *)
Login(c, kind) ==
  /\ Idle(c) /\ user.status = "active"
  /\ session' = [session EXCEPT ![c] = [@ EXCEPT !.pc = "generating", !.kind = kind, !.row = user]]
  /\ UNCHANGED <<user, refreshKey, profile, blacklist, issuedAt, handed, over, stale>>

RefreshUnchecked(c, t) ==
  /\ Idle(c) /\ t.id = NoToken
  /\ session' = [session EXCEPT ![c] = [@ EXCEPT !.pc = "checking", !.kind = "refresh",
                                                 !.token = t, !.floor = user.version]]
  /\ UNCHANGED <<user, refreshKey, profile, blacklist, issuedAt, handed, over, stale>>

(* A refresh token is good if it is the one in Redis. *)
RefreshToken(c, t) ==
  /\ Idle(c) /\ t.id = NoToken
  /\ refreshKey = t
  /\ session' = [session EXCEPT ![c] = [@ EXCEPT !.pc = "checking", !.kind = "refresh",
                                                 !.token = t, !.floor = user.version]]
  /\ UNCHANGED <<user, refreshKey, profile, blacklist, issuedAt, handed, over, stale>>

(* The handler asks the blacklist, whose failure it passes over, for a     *)
(* token that has an id, and leaves the rest to its AuthService, which is  *)
(* external: it is taken to check the version like the user service.       *)
HandlerRefresh(c, t, asked) ==
  /\ Idle(c) /\ t.id # NoToken
  /\ asked => t.id \notin blacklist.refresh
  /\ session' = [session EXCEPT ![c] = [@ EXCEPT !.pc = "checking", !.kind = "handler_refresh",
                                                 !.token = t, !.floor = user.version]]
  /\ UNCHANGED <<user, refreshKey, profile, blacklist, issuedAt, handed, over, stale>>

CheckStatusOnly(c) ==
  /\ session[c].pc = "checking"
  /\ IF user.status = "active"
     THEN session' = [session EXCEPT ![c].pc = "generating", ![c].row = user]
     ELSE SessionGoes(c, "done")
  /\ UNCHANGED <<user, refreshKey, profile, blacklist, issuedAt, handed, over, stale>>

(* Then the row is read, and compared with the token. *)
CheckVersion(c) ==
  /\ session[c].pc = "checking"
  /\ IF user.version = session[c].token.version /\ user.status = "active"
     THEN session' = [session EXCEPT ![c].pc = "generating", ![c].row = user]
     ELSE SessionGoes(c, "done")
  /\ UNCHANGED <<user, refreshKey, profile, blacklist, issuedAt, handed, over, stale>>

(* The claims are the row's and the second; two tokens of one second and   *)
(* one row are the same string, unless they have an id.                    *)
NewToken(c) ==
  [version |-> session[c].row.version, role |-> session[c].row.role, at |-> issuedAt,
   id |-> IF session[c].kind \in {"login", "refresh"} THEN NoToken ELSE c]

GenerateTokens(c) ==
  /\ session[c].pc = "generating" /\ session[c].kind \in {"login", "refresh"}
  /\ session' = [session EXCEPT ![c] = [@ EXCEPT !.pc = "storing", !.row = NewToken(c)]]
  /\ UNCHANGED <<user, refreshKey, profile, blacklist, issuedAt, handed, over, stale>>

(* The tokens of the AuthService (external) may have an id. *)
HandlerAnswers(c) ==
  /\ session[c].pc = "generating" /\ session[c].kind \in {"handler_login", "handler_refresh"}
  /\ handed' = handed \cup {NewToken(c)}
  /\ SessionGoes(c, "done")
  /\ UNCHANGED <<user, refreshKey, profile, blacklist, issuedAt, over, stale>>

(* The last token stored is the one that refreshes; a SET that fails is    *)
(* passed over.                                                            *)
StoreRefreshToken(c, ok) ==
  /\ session[c].pc = "storing"
  /\ refreshKey' = IF ok THEN session[c].row ELSE refreshKey
  /\ handed' = handed \cup {session[c].row}
  /\ over' = (over /\ session[c].kind # "login")
  /\ SessionGoes(c, "done")
  /\ UNCHANGED <<user, profile, blacklist, issuedAt, stale>>
-------------------------------------------------------------------------------
(* The middlewares.  A token in its time, whose id is not blacklisted, is   *)
(* let through; its version is passed on, and nobody compares it.          *)
JWTAuth(t) == t.id \notin blacklist.access

(* The administrators' one takes an API key, or asks for the role in the   *)
(* token, and not for the blacklist.                                       *)
AdminAuth(t) == t # NoToken => t.role = "admin"
-------------------------------------------------------------------------------
(* DEL of the key: Logout, and the end of ChangePassword and DeleteUser.   *)
RevokeKey(c, ok) ==
  /\ session[c].pc = "revoking" \/ Idle(c)
  /\ refreshKey' = IF ok THEN NoToken ELSE refreshKey
  /\ over' = (over \/ (ok /\ SigningIn = {}))
  /\ SessionGoes(c, "done")
  /\ UNCHANGED <<user, profile, blacklist, issuedAt, handed, stale>>

(* The access token is blacklisted if it came in a header and has an id,   *)
(* then the refresh token; errors are passed over.                         *)
HandlerLogout(c, t, inHeader, ok) ==
  /\ Idle(c)
  /\ blacklist' = [blacklist EXCEPT !.access =
                     IF inHeader /\ ok /\ t.id # NoToken THEN @ \cup {t.id} ELSE @]
  /\ session' = [session EXCEPT ![c].pc = "blacklisting", ![c].token = t]
  /\ UNCHANGED <<user, refreshKey, profile, issuedAt, handed, over, stale>>

BlacklistRefresh(c, ok) ==
  /\ session[c].pc = "blacklisting"
  /\ blacklist' = [blacklist EXCEPT !.refresh =
                     IF ok /\ session[c].token.id # NoToken THEN @ \cup {session[c].token.id} ELSE @]
  /\ SessionGoes(c, "done")
  /\ UNCHANGED <<user, refreshKey, profile, issuedAt, handed, over, stale>>

(* A profile a reader is about to store is older than the row from now on. *)
SetUser(row) ==
  /\ user' = row
  /\ stale' = (stale \/ (row.name # user.name
                         /\ \E x \in SessionCalls : session[x].pc = "filling"))

ChangePassword(c) ==
  /\ Idle(c) /\ user.version < MaxVersion
  /\ SetUser([user EXCEPT !.version = @ + 1])
  /\ SessionGoes(c, "revoking")
  /\ UNCHANGED <<refreshKey, profile, blacklist, issuedAt, handed, over>>

(* The handlers store the password with a random version (the repository), *)
(* and start a goroutine that raises the version, with the context of the  *)
(* request that ends before it: it may never run.  The key stays.          *)
HandlerPassword(c, t) ==
  /\ Idle(c) /\ JWTAuth(t) /\ user.version < MaxVersion
  /\ SetUser([user EXCEPT !.version = @ + 1])
  /\ SessionGoes(c, "bumping")
  /\ UNCHANGED <<refreshKey, profile, blacklist, issuedAt, handed, over>>

IncrementTokenVersion(c, lost) ==
  /\ session[c].pc = "bumping"
  /\ lost \/ user.version < MaxVersion
  /\ SetUser(IF lost THEN user ELSE [user EXCEPT !.version = @ + 1])
  /\ SessionGoes(c, "done")
  /\ UNCHANGED <<refreshKey, profile, blacklist, issuedAt, handed, over>>

(* UpdateStatus and SetAdmin leave the key and the cached profile alone.   *)
UpdateStatus(c, t, s) ==
  /\ Idle(c) /\ AdminAuth(t)
  /\ SetUser([user EXCEPT !.status = s])
  /\ SessionGoes(c, "done")
  /\ UNCHANGED <<refreshKey, profile, blacklist, issuedAt, handed, over>>

DeleteUser(c) ==
  /\ Idle(c)
  /\ SetUser([user EXCEPT !.status = "deleted"])
  /\ SessionGoes(c, "revoking")
  /\ UNCHANGED <<refreshKey, profile, blacklist, issuedAt, handed, over>>

SetAdmin(c, t, isAdmin) ==
  /\ Idle(c) /\ AdminAuth(t)
  /\ SetUser([user EXCEPT !.role = IF isAdmin THEN "admin" ELSE "user"])
  /\ SessionGoes(c, "done")
  /\ UNCHANGED <<refreshKey, profile, blacklist, issuedAt, handed, over>>

UpdateProfileUncleared(c, t, n) ==
  /\ Idle(c) /\ JWTAuth(t)
  /\ SetUser([user EXCEPT !.name = n])
  /\ SessionGoes(c, "done")
  /\ UNCHANGED <<refreshKey, profile, blacklist, issuedAt, handed, over>>

UpdateProfile(c, t, n) ==
  /\ Idle(c) /\ JWTAuth(t)
  /\ SetUser([user EXCEPT !.name = n])
  /\ SessionGoes(c, "uncaching")
  /\ UNCHANGED <<refreshKey, profile, blacklist, issuedAt, handed, over>>

ClearProfile(c, ok) ==
  /\ session[c].pc = "uncaching"
  /\ profile' = IF ok THEN NoProfile ELSE profile
  /\ stale' = IF ok THEN \E x \in SessionCalls \ {c} : /\ session[x].pc = "filling"
                                                       /\ session[x].row.name # user.name
              ELSE TRUE
  /\ SessionGoes(c, "done")
  /\ UNCHANGED <<user, refreshKey, blacklist, issuedAt, handed, over>>

(* GetProfile and GetByID answer from the cache, or read the row and store *)
(* it.  (GetByEmail does the same under another key, which nothing clears.)*)
GetProfile(c, t) ==
  /\ Idle(c) /\ JWTAuth(t)
  /\ session' = IF profile # NoProfile THEN [session EXCEPT ![c].pc = "done"]
                ELSE [session EXCEPT ![c].pc = "filling", ![c].row = user]
  /\ UNCHANGED <<user, refreshKey, profile, blacklist, issuedAt, handed, over, stale>>

FillProfile(c) ==
  /\ session[c].pc = "filling"
  /\ profile' = session[c].row
  /\ SessionGoes(c, "done")
  /\ UNCHANGED <<user, refreshKey, blacklist, issuedAt, handed, over, stale>>
-------------------------------------------------------------------------------
Calling(c) ==
  \/ \E kind \in {"login", "handler_login"} : Login(c, kind)
  \/ CheckVersion(c) \/ GenerateTokens(c) \/ HandlerAnswers(c)
  \/ ChangePassword(c) \/ DeleteUser(c) \/ FillProfile(c)
  \/ \E ok \in BOOLEAN : \/ StoreRefreshToken(c, ok) \/ RevokeKey(c, ok)
                         \/ BlacklistRefresh(c, ok) \/ ClearProfile(c, ok)
                         \/ IncrementTokenVersion(c, ok)
  \/ \E t \in handed : \/ RefreshToken(c, t) \/ HandlerPassword(c, t) \/ GetProfile(c, t)
                       \/ \E asked \in BOOLEAN : HandlerRefresh(c, t, asked)
                       \/ \E inHeader, ok \in BOOLEAN : HandlerLogout(c, t, inHeader, ok)
                       \/ \E n \in Names : UpdateProfile(c, t, n)
  \/ \E t \in handed \cup {NoToken} :
       \/ \E s \in {"active", "suspended", "deleted"} : UpdateStatus(c, t, s)
       \/ \E isAdmin \in BOOLEAN : SetAdmin(c, t, isAdmin)

SessionNext ==
  \/ SecondPasses
  \/ \E c \in SessionCalls : Calling(c)

SessionSpec == SessionInit /\ [][SessionNext]_sessionVars
-------------------------------------------------------------------------------
SessionTypeOK ==
  /\ user \in UserRows
  /\ refreshKey \in Tokens \cup {NoToken}
  /\ profile \in UserRows \cup {NoProfile}
  /\ blacklist.access \subseteq SessionCalls /\ blacklist.refresh \subseteq SessionCalls
  /\ issuedAt \in 0..LastIssue
  /\ handed \subseteq Tokens
  /\ \A c \in SessionCalls : session[c].pc \in SessionPCs /\ session[c].floor \in 0..MaxVersion
  /\ over \in BOOLEAN /\ stale \in BOOLEAN

(* A refresh that begins after a completed change of the version, with a    *)
(* token from before it, issues nothing, whatever the key holds: the key    *)
(* may not have been deleted, or a login that had read the older row may    *)
(* have stored its token since.                                             *)
OldTokensDoNotRefresh ==
  \A c \in SessionCalls :
    session[c].kind \in {"refresh", "handler_refresh"} /\ session[c].pc = "generating"
      => session[c].token.version >= session[c].floor

(* Once the key is deleted and no login or refresh is under way, no token   *)
(* refreshes until somebody logs in.                                        *)
LogoutEndsSession ==
  over => /\ refreshKey = NoToken
          /\ \A c \in SigningIn : session[c].kind # "refresh"

(* The cached profile has the name of the row, unless an update is about to *)
(* clear it, failed to, or overtook a reader that stored an older row.      *)
ProfileFollowsRow ==
  profile = NoProfile \/ profile.name = user.name \/ stale
  \/ \E c \in SessionCalls : session[c].pc = "uncaching"
===============================================================================
