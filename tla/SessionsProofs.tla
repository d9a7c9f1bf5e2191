------------------------------ MODULE SessionsProofs ----------------------------
(***************************************************************************)
(* Proofs about Sessions, for any calls, versions, seconds and names.      *)
(*                                                                         *)
(* The version of a row only grows, so a refresh that compares it with its *)
(* token after it began knows that the token is not older than what it     *)
(* could see when it began.  That a session stays over needs what calls    *)
(* that may still answer are doing; that the cached profile follows its    *)
(* row needs what readers hold that have not stored it yet.                *)
(***************************************************************************)
EXTENDS Sessions, TLAPS

SessionKinds == {"none", "login", "handler_login", "refresh", "handler_refresh"}

SessionRecords ==
  [pc : SessionPCs, kind : SessionKinds, row : UserRows \cup Tokens \cup {NoProfile},
   token : Tokens \cup {NoToken}, floor : 0..MaxVersion]

(* What a call holds depends on where it is. *)
CallRecords ==
  {r \in SessionRecords :
     /\ r.pc \in {"generating", "filling"} => r.row \in UserRows
     /\ r.pc = "storing" => r.row \in Tokens /\ r.kind \in {"login", "refresh"}
     /\ r.pc \in {"checking", "blacklisting"} => r.token \in Tokens}

SessionShape == session \in [SessionCalls -> CallRecords]

StoresTyped ==
  /\ user \in UserRows
  /\ refreshKey \in Tokens \cup {NoToken}
  /\ profile \in UserRows \cup {NoProfile}
  /\ blacklist \in [access : SUBSET SessionCalls, refresh : SUBSET SessionCalls]
  /\ issuedAt \in 0..LastIssue
  /\ handed \subseteq Tokens
  /\ over \in BOOLEAN /\ stale \in BOOLEAN

(* No call has seen a version that the row has not reached. *)
FloorsArePast == \A c \in SessionCalls : session[c].floor <= user.version

(* A reader about to store a row with another name is known to be late, or  *)
(* an update is about to clear what it stores.                             *)
FillersAreKnown ==
  \A c \in SessionCalls : session[c].pc = "filling" =>
    \/ session[c].row.name = user.name
    \/ stale
    \/ \E x \in SessionCalls : session[x].pc = "uncaching"

WellTyped == StoresTyped /\ SessionShape
Refreshing == FloorsArePast /\ OldTokensDoNotRefresh
Cached == FillersAreKnown /\ ProfileFollowsRow

SessionInv == WellTyped /\ Refreshing /\ LogoutEndsSession /\ Cached

(* The initial states satisfy the invariant. *)
LEMMA SessionInvInit == SessionInit => SessionInv
<1> SUFFICES ASSUME SessionInit PROVE SessionInv
  OBVIOUS
<1> USE SessionAssumption DEF SessionInit
<1>1. FirstToken \in Tokens /\ user \in UserRows
  BY DEF FirstToken, Tokens, UserRows
<1>2. SessionStart \in CallRecords /\ SessionStart.pc = "idle"
  BY DEF SessionStart, CallRecords, SessionRecords, SessionPCs, SessionKinds
<1>3. StoresTyped
  <2>1. blacklist \in [access : SUBSET SessionCalls, refresh : SUBSET SessionCalls]
    OBVIOUS
  <2>2. 0 \in 0..LastIssue
    OBVIOUS
  <2> QED
    BY <1>1, <2>1, <2>2 DEF StoresTyped
<1>4. WellTyped
  BY <1>2, <1>3 DEF WellTyped, SessionShape
<1>5. Refreshing
  BY <1>2 DEF Refreshing, FloorsArePast, OldTokensDoNotRefresh, SessionStart
<1>6. LogoutEndsSession /\ Cached
  BY <1>2 DEF LogoutEndsSession, Cached, FillersAreKnown, ProfileFollowsRow
<1> QED
  BY <1>4, <1>5, <1>6 DEF SessionInv

(* The types of the calls, when one of them moves. *)
LEMMA OneCallMoves ==
  ASSUME SessionShape, NEW c \in SessionCalls,
         session' = [session EXCEPT ![c] = session'[c]], session'[c] \in CallRecords
  PROVE  SessionShape'
  BY DEF SessionShape

(* Every step keeps the types. *)
LEMMA WellTypedStep == WellTyped /\ [SessionNext]_sessionVars => WellTyped'
<1> SUFFICES ASSUME WellTyped, [SessionNext]_sessionVars PROVE WellTyped'
  OBVIOUS
<1> USE SessionAssumption DEF WellTyped
<1>1. CASE SecondPasses
  BY <1>1 DEF SecondPasses, StoresTyped, SessionShape
<1>2. ASSUME NEW c \in SessionCalls,
             NEW kind \in {"login", "handler_login"},
             Login(c, kind)
      PROVE WellTyped'
  <2>1. session[c] \in SessionRecords
    BY DEF StoresTyped, SessionShape, CallRecords
  <2>2. StoresTyped'
    BY <2>1, <1>2 DEF Login, Idle, StoresTyped
  <2>3. session'[c] \in CallRecords
    BY <2>1, <1>2 DEF Login, Idle, StoresTyped, SessionShape, CallRecords, SessionRecords,
        SessionPCs, SessionKinds
  <2>4. session' = [session EXCEPT ![c] = session'[c]]
    BY <1>2 DEF Login, Idle, SessionShape
  <2> QED
    BY <2>2, <2>3, <2>4, OneCallMoves
<1>3. ASSUME NEW c \in SessionCalls, CheckVersion(c) PROVE WellTyped'
  <2>1. StoresTyped'
    BY <1>3 DEF CheckVersion, SessionGoes, StoresTyped
  <2>2. session'[c] \in CallRecords
    BY <1>3 DEF CheckVersion, SessionGoes, StoresTyped, SessionShape, CallRecords,
        SessionRecords, SessionPCs, SessionKinds
  <2>3. session' = [session EXCEPT ![c] = session'[c]]
    BY <1>3 DEF CheckVersion, SessionGoes, SessionShape
  <2> QED
    BY <2>1, <2>2, <2>3, OneCallMoves
<1>4. ASSUME NEW c \in SessionCalls, GenerateTokens(c) PROVE WellTyped'
  <2>1. NewToken(c) \in Tokens /\ session[c] \in SessionRecords
    <3>1. session[c].row \in UserRows
      BY <1>4 DEF GenerateTokens, SessionShape, CallRecords
    <3>2. NewToken(c) \in Tokens
      BY <3>1 DEF NewToken, Tokens, UserRows, StoresTyped
    <3> QED
      BY <3>2 DEF SessionShape, CallRecords
  <2>2. StoresTyped'
    BY <2>1, <1>4 DEF GenerateTokens, StoresTyped
  <2>3. session'[c] \in CallRecords
    BY <2>1, <1>4 DEF GenerateTokens, StoresTyped, SessionShape, CallRecords,
        SessionRecords, SessionPCs, SessionKinds
  <2>4. session' = [session EXCEPT ![c] = session'[c]]
    BY <1>4 DEF GenerateTokens, SessionShape
  <2> QED
    BY <2>2, <2>3, <2>4, OneCallMoves
<1>5. ASSUME NEW c \in SessionCalls, HandlerAnswers(c) PROVE WellTyped'
  <2>1. NewToken(c) \in Tokens /\ session[c] \in SessionRecords
    <3>1. session[c].row \in UserRows
      BY <1>5 DEF HandlerAnswers, SessionShape, CallRecords
    <3>2. NewToken(c) \in Tokens
      BY <3>1 DEF NewToken, Tokens, UserRows, StoresTyped
    <3> QED
      BY <3>2 DEF SessionShape, CallRecords
  <2>2. StoresTyped'
    BY <2>1, <1>5 DEF HandlerAnswers, SessionGoes, StoresTyped
  <2>3. session'[c] \in CallRecords
    BY <2>1, <1>5 DEF HandlerAnswers, SessionGoes, StoresTyped, SessionShape, CallRecords,
        SessionRecords, SessionPCs, SessionKinds
  <2>4. session' = [session EXCEPT ![c] = session'[c]]
    BY <1>5 DEF HandlerAnswers, SessionGoes, SessionShape
  <2> QED
    BY <2>2, <2>3, <2>4, OneCallMoves
<1>6. ASSUME NEW c \in SessionCalls, ChangePassword(c) PROVE WellTyped'
  <2>1. StoresTyped'
    BY <1>6 DEF ChangePassword, SetUser, SessionGoes, Idle, StoresTyped, UserRows
  <2>2. session'[c] \in CallRecords
    BY <1>6 DEF ChangePassword, SetUser, SessionGoes, Idle, StoresTyped, SessionShape,
        CallRecords, SessionRecords, SessionPCs, SessionKinds
  <2>3. session' = [session EXCEPT ![c] = session'[c]]
    BY <1>6 DEF ChangePassword, SetUser, SessionGoes, Idle, SessionShape
  <2> QED
    BY <2>1, <2>2, <2>3, OneCallMoves
<1>7. ASSUME NEW c \in SessionCalls, DeleteUser(c) PROVE WellTyped'
  <2>1. StoresTyped'
    BY <1>7 DEF DeleteUser, SetUser, SessionGoes, Idle, StoresTyped, UserRows
  <2>2. session'[c] \in CallRecords
    BY <1>7 DEF DeleteUser, SetUser, SessionGoes, Idle, StoresTyped, SessionShape,
        CallRecords, SessionRecords, SessionPCs, SessionKinds
  <2>3. session' = [session EXCEPT ![c] = session'[c]]
    BY <1>7 DEF DeleteUser, SetUser, SessionGoes, Idle, SessionShape
  <2> QED
    BY <2>1, <2>2, <2>3, OneCallMoves
<1>8. ASSUME NEW c \in SessionCalls, FillProfile(c) PROVE WellTyped'
  <2>1. StoresTyped'
    BY <1>8 DEF FillProfile, SessionGoes, StoresTyped, SessionShape, CallRecords
  <2>2. session'[c] \in CallRecords
    BY <1>8 DEF FillProfile, SessionGoes, StoresTyped, SessionShape, CallRecords,
        SessionRecords, SessionPCs, SessionKinds
  <2>3. session' = [session EXCEPT ![c] = session'[c]]
    BY <1>8 DEF FillProfile, SessionGoes, SessionShape
  <2> QED
    BY <2>1, <2>2, <2>3, OneCallMoves
<1>9. ASSUME NEW c \in SessionCalls,
             NEW ok \in BOOLEAN,
             StoreRefreshToken(c, ok)
      PROVE WellTyped'
  <2>1. StoresTyped'
    BY <1>9 DEF StoreRefreshToken, SessionGoes, StoresTyped, SessionShape, CallRecords
  <2>2. session'[c] \in CallRecords
    BY <1>9 DEF StoreRefreshToken, SessionGoes, StoresTyped, SessionShape, CallRecords,
        SessionRecords, SessionPCs, SessionKinds
  <2>3. session' = [session EXCEPT ![c] = session'[c]]
    BY <1>9 DEF StoreRefreshToken, SessionGoes, SessionShape
  <2> QED
    BY <2>1, <2>2, <2>3, OneCallMoves
<1>10. ASSUME NEW c \in SessionCalls, NEW ok \in BOOLEAN, RevokeKey(c, ok) PROVE WellTyped'
  <2>1. StoresTyped'
    BY <1>10 DEF RevokeKey, SessionGoes, Idle, StoresTyped
  <2>2. session'[c] \in CallRecords
    BY <1>10 DEF RevokeKey, SessionGoes, Idle, StoresTyped, SessionShape, CallRecords,
        SessionRecords, SessionPCs, SessionKinds
  <2>3. session' = [session EXCEPT ![c] = session'[c]]
    BY <1>10 DEF RevokeKey, SessionGoes, Idle, SessionShape
  <2> QED
    BY <2>1, <2>2, <2>3, OneCallMoves
<1>11. ASSUME NEW c \in SessionCalls,
             NEW ok \in BOOLEAN,
             BlacklistRefresh(c, ok)
      PROVE WellTyped'
  <2>1. session[c].token.id \in SessionCalls \cup {NoToken}
    BY <1>11 DEF BlacklistRefresh, StoresTyped, SessionShape, CallRecords, Tokens
  <2>2. StoresTyped'
    BY <2>1, <1>11 DEF BlacklistRefresh, SessionGoes, StoresTyped, SessionShape, CallRecords
  <2>3. session'[c] \in CallRecords
    BY <2>1, <1>11 DEF BlacklistRefresh, SessionGoes, StoresTyped, SessionShape,
        CallRecords, SessionRecords, SessionPCs, SessionKinds
  <2>4. session' = [session EXCEPT ![c] = session'[c]]
    BY <1>11 DEF BlacklistRefresh, SessionGoes, SessionShape
  <2> QED
    BY <2>2, <2>3, <2>4, OneCallMoves
<1>12. ASSUME NEW c \in SessionCalls,
             NEW ok \in BOOLEAN,
             ClearProfile(c, ok)
      PROVE WellTyped'
  <2>1. StoresTyped'
    BY <1>12 DEF ClearProfile, SessionGoes, StoresTyped
  <2>2. session'[c] \in CallRecords
    BY <1>12 DEF ClearProfile, SessionGoes, StoresTyped, SessionShape, CallRecords,
        SessionRecords, SessionPCs, SessionKinds
  <2>3. session' = [session EXCEPT ![c] = session'[c]]
    BY <1>12 DEF ClearProfile, SessionGoes, SessionShape
  <2> QED
    BY <2>1, <2>2, <2>3, OneCallMoves
<1>13. ASSUME NEW c \in SessionCalls,
             NEW ok \in BOOLEAN,
             IncrementTokenVersion(c, ok)
      PROVE WellTyped'
  <2>1. StoresTyped'
    BY <1>13 DEF IncrementTokenVersion, SetUser, SessionGoes, StoresTyped, UserRows
  <2>2. session'[c] \in CallRecords
    BY <1>13 DEF IncrementTokenVersion, SetUser, SessionGoes, StoresTyped, SessionShape,
        CallRecords, SessionRecords, SessionPCs, SessionKinds
  <2>3. session' = [session EXCEPT ![c] = session'[c]]
    BY <1>13 DEF IncrementTokenVersion, SetUser, SessionGoes, SessionShape
  <2> QED
    BY <2>1, <2>2, <2>3, OneCallMoves
<1>14. ASSUME NEW c \in SessionCalls, NEW t \in handed, RefreshToken(c, t) PROVE WellTyped'
  <2>1. t \in Tokens /\ t.id \in SessionCalls \cup {NoToken} /\ session[c] \in SessionRecords
       /\ user.version \in 0..MaxVersion
    BY DEF StoresTyped, SessionShape, CallRecords, Tokens, UserRows
  <2>2. StoresTyped'
    BY <2>1, <1>14 DEF RefreshToken, Idle, StoresTyped
  <2>3. session'[c] \in CallRecords
    BY <2>1, <1>14 DEF RefreshToken, Idle, StoresTyped, SessionShape, CallRecords,
        SessionRecords, SessionPCs, SessionKinds
  <2>4. session' = [session EXCEPT ![c] = session'[c]]
    BY <1>14 DEF RefreshToken, Idle, SessionShape
  <2> QED
    BY <2>2, <2>3, <2>4, OneCallMoves
<1>15. ASSUME NEW c \in SessionCalls,
             NEW t \in handed,
             HandlerPassword(c, t)
      PROVE WellTyped'
  <2>1. StoresTyped'
    BY <1>15 DEF HandlerPassword, SetUser, SessionGoes, Idle, StoresTyped, UserRows
  <2>2. session'[c] \in CallRecords
    BY <1>15 DEF HandlerPassword, SetUser, SessionGoes, Idle, StoresTyped, SessionShape,
        CallRecords, SessionRecords, SessionPCs, SessionKinds
  <2>3. session' = [session EXCEPT ![c] = session'[c]]
    BY <1>15 DEF HandlerPassword, SetUser, SessionGoes, Idle, SessionShape
  <2> QED
    BY <2>1, <2>2, <2>3, OneCallMoves
<1>16. ASSUME NEW c \in SessionCalls, NEW t \in handed, GetProfile(c, t) PROVE WellTyped'
  <2>1. t \in Tokens /\ t.id \in SessionCalls \cup {NoToken} /\ session[c] \in SessionRecords
    BY DEF StoresTyped, SessionShape, CallRecords, Tokens
  <2>2. StoresTyped'
    BY <2>1, <1>16 DEF GetProfile, Idle, StoresTyped
  <2>3. session'[c] \in CallRecords
    BY <2>1, <1>16 DEF GetProfile, Idle, StoresTyped, SessionShape, CallRecords,
        SessionRecords, SessionPCs, SessionKinds
  <2>4. session' = [session EXCEPT ![c] = session'[c]]
    BY <1>16 DEF GetProfile, Idle, SessionShape
  <2> QED
    BY <2>2, <2>3, <2>4, OneCallMoves
<1>17. ASSUME NEW c \in SessionCalls,
             NEW t \in handed, NEW asked \in BOOLEAN,
             HandlerRefresh(c, t, asked)
      PROVE WellTyped'
  <2>1. t \in Tokens /\ t.id \in SessionCalls \cup {NoToken} /\ session[c] \in SessionRecords
       /\ user.version \in 0..MaxVersion
    BY DEF StoresTyped, SessionShape, CallRecords, Tokens, UserRows
  <2>2. StoresTyped'
    BY <2>1, <1>17 DEF HandlerRefresh, Idle, StoresTyped
  <2>3. session'[c] \in CallRecords
    BY <2>1, <1>17 DEF HandlerRefresh, Idle, StoresTyped, SessionShape, CallRecords,
        SessionRecords, SessionPCs, SessionKinds
  <2>4. session' = [session EXCEPT ![c] = session'[c]]
    BY <1>17 DEF HandlerRefresh, Idle, SessionShape
  <2> QED
    BY <2>2, <2>3, <2>4, OneCallMoves
<1>18. ASSUME NEW c \in SessionCalls,
             NEW t \in handed, NEW inHeader \in BOOLEAN, NEW ok \in BOOLEAN,
             HandlerLogout(c, t, inHeader, ok)
      PROVE WellTyped'
  <2>1. t \in Tokens /\ t.id \in SessionCalls \cup {NoToken} /\ session[c] \in SessionRecords
    BY DEF StoresTyped, SessionShape, CallRecords, Tokens
  <2>2. StoresTyped'
    BY <2>1, <1>18 DEF HandlerLogout, Idle, StoresTyped
  <2>3. session'[c] \in CallRecords
    BY <2>1, <1>18 DEF HandlerLogout, Idle, StoresTyped, SessionShape, CallRecords,
        SessionRecords, SessionPCs, SessionKinds
  <2>4. session' = [session EXCEPT ![c] = session'[c]]
    BY <1>18 DEF HandlerLogout, Idle, SessionShape
  <2> QED
    BY <2>2, <2>3, <2>4, OneCallMoves
<1>19. ASSUME NEW c \in SessionCalls,
             NEW t \in handed, NEW n \in Names,
             UpdateProfile(c, t, n)
      PROVE WellTyped'
  <2>1. StoresTyped'
    BY <1>19 DEF UpdateProfile, SetUser, SessionGoes, Idle, StoresTyped, UserRows
  <2>2. session'[c] \in CallRecords
    BY <1>19 DEF UpdateProfile, SetUser, SessionGoes, Idle, StoresTyped, SessionShape,
        CallRecords, SessionRecords, SessionPCs, SessionKinds
  <2>3. session' = [session EXCEPT ![c] = session'[c]]
    BY <1>19 DEF UpdateProfile, SetUser, SessionGoes, Idle, SessionShape
  <2> QED
    BY <2>1, <2>2, <2>3, OneCallMoves
<1>20. ASSUME NEW c \in SessionCalls,
             NEW s \in {"active", "suspended", "deleted"}, NEW t \in handed \cup {NoToken},
             UpdateStatus(c, t, s)
      PROVE WellTyped'
  <2>1. StoresTyped'
    BY <1>20 DEF UpdateStatus, SetUser, SessionGoes, Idle, StoresTyped, UserRows
  <2>2. session'[c] \in CallRecords
    BY <1>20 DEF UpdateStatus, SetUser, SessionGoes, Idle, StoresTyped, SessionShape,
        CallRecords, SessionRecords, SessionPCs, SessionKinds
  <2>3. session' = [session EXCEPT ![c] = session'[c]]
    BY <1>20 DEF UpdateStatus, SetUser, SessionGoes, Idle, SessionShape
  <2> QED
    BY <2>1, <2>2, <2>3, OneCallMoves
<1>21. ASSUME NEW c \in SessionCalls,
             NEW isAdmin \in BOOLEAN, NEW t \in handed \cup {NoToken},
             SetAdmin(c, t, isAdmin)
      PROVE WellTyped'
  <2>1. StoresTyped'
    BY <1>21 DEF SetAdmin, SetUser, SessionGoes, Idle, StoresTyped, UserRows
  <2>2. session'[c] \in CallRecords
    BY <1>21 DEF SetAdmin, SetUser, SessionGoes, Idle, StoresTyped, SessionShape,
        CallRecords, SessionRecords, SessionPCs, SessionKinds
  <2>3. session' = [session EXCEPT ![c] = session'[c]]
    BY <1>21 DEF SetAdmin, SetUser, SessionGoes, Idle, SessionShape
  <2> QED
    BY <2>1, <2>2, <2>3, OneCallMoves
<1>22. CASE UNCHANGED sessionVars
  BY <1>22 DEF sessionVars, StoresTyped, SessionShape
<1> QED
  BY <1>1, <1>2, <1>3, <1>4, <1>5, <1>6, <1>7, <1>8, <1>9, <1>10, <1>11, <1>12, <1>13,
     <1>14, <1>15, <1>16, <1>17, <1>18, <1>19, <1>20, <1>21, <1>22
  DEF SessionNext, Calling

(* What the proofs keep is at least the type invariant of the module. *)
LEMMA WellTypedImplies == WellTyped => SessionTypeOK
  BY DEF WellTyped, StoresTyped, SessionShape, CallRecords, SessionRecords, SessionTypeOK

(* No step lowers the version, and CheckVersion compares with the row.     *)
LEMMA RefreshingStep == WellTyped /\ Refreshing /\ [SessionNext]_sessionVars => Refreshing'
<1> SUFFICES ASSUME WellTyped /\ Refreshing, [SessionNext]_sessionVars PROVE Refreshing'
  OBVIOUS
<1> USE SessionAssumption
    DEF WellTyped, StoresTyped, SessionShape, CallRecords, SessionRecords, UserRows, Tokens,
        Refreshing,
        FloorsArePast, OldTokensDoNotRefresh
<1>1. CASE SecondPasses
  BY <1>1 DEF SecondPasses
<1>2. ASSUME NEW c \in SessionCalls,
             NEW kind \in {"login", "handler_login"},
             Login(c, kind)
      PROVE Refreshing'
  BY <1>2 DEF Login, Idle
<1>3. ASSUME NEW c \in SessionCalls, CheckVersion(c) PROVE Refreshing'
  BY <1>3 DEF CheckVersion, SessionGoes
<1>4. ASSUME NEW c \in SessionCalls, GenerateTokens(c) PROVE Refreshing'
  BY <1>4 DEF GenerateTokens, NewToken
<1>5. ASSUME NEW c \in SessionCalls, HandlerAnswers(c) PROVE Refreshing'
  BY <1>5 DEF HandlerAnswers, NewToken, SessionGoes
<1>6. ASSUME NEW c \in SessionCalls, ChangePassword(c) PROVE Refreshing'
  BY <1>6 DEF ChangePassword, SetUser, SessionGoes, Idle
<1>7. ASSUME NEW c \in SessionCalls, DeleteUser(c) PROVE Refreshing'
  BY <1>7 DEF DeleteUser, SetUser, SessionGoes, Idle
<1>8. ASSUME NEW c \in SessionCalls, FillProfile(c) PROVE Refreshing'
  BY <1>8 DEF FillProfile, SessionGoes
<1>9. ASSUME NEW c \in SessionCalls,
             NEW ok \in BOOLEAN,
             StoreRefreshToken(c, ok)
      PROVE Refreshing'
  BY <1>9 DEF StoreRefreshToken, SessionGoes
<1>10. ASSUME NEW c \in SessionCalls, NEW ok \in BOOLEAN, RevokeKey(c, ok) PROVE Refreshing'
  BY <1>10 DEF RevokeKey, SessionGoes, Idle
<1>11. ASSUME NEW c \in SessionCalls,
             NEW ok \in BOOLEAN,
             BlacklistRefresh(c, ok)
      PROVE Refreshing'
  BY <1>11 DEF BlacklistRefresh, SessionGoes
<1>12. ASSUME NEW c \in SessionCalls,
             NEW ok \in BOOLEAN,
             ClearProfile(c, ok)
      PROVE Refreshing'
  BY <1>12 DEF ClearProfile, SessionGoes
<1>13. ASSUME NEW c \in SessionCalls,
             NEW ok \in BOOLEAN,
             IncrementTokenVersion(c, ok)
      PROVE Refreshing'
  BY <1>13 DEF IncrementTokenVersion, SetUser, SessionGoes
<1>14. ASSUME NEW c \in SessionCalls, NEW t \in handed, RefreshToken(c, t) PROVE Refreshing'
  BY <1>14 DEF RefreshToken, Idle
<1>15. ASSUME NEW c \in SessionCalls,
             NEW t \in handed,
             HandlerPassword(c, t)
      PROVE Refreshing'
  BY <1>15 DEF HandlerPassword, SetUser, SessionGoes, Idle
<1>16. ASSUME NEW c \in SessionCalls, NEW t \in handed, GetProfile(c, t) PROVE Refreshing'
  BY <1>16 DEF GetProfile, Idle
<1>17. ASSUME NEW c \in SessionCalls,
             NEW t \in handed, NEW asked \in BOOLEAN,
             HandlerRefresh(c, t, asked)
      PROVE Refreshing'
  BY <1>17 DEF HandlerRefresh, Idle
<1>18. ASSUME NEW c \in SessionCalls,
             NEW t \in handed, NEW inHeader \in BOOLEAN, NEW ok \in BOOLEAN,
             HandlerLogout(c, t, inHeader, ok)
      PROVE Refreshing'
  BY <1>18 DEF HandlerLogout, Idle
<1>19. ASSUME NEW c \in SessionCalls,
             NEW t \in handed, NEW n \in Names,
             UpdateProfile(c, t, n)
      PROVE Refreshing'
  BY <1>19 DEF UpdateProfile, SetUser, SessionGoes, Idle
<1>20. ASSUME NEW c \in SessionCalls,
             NEW s \in {"active", "suspended", "deleted"}, NEW t \in handed \cup {NoToken},
             UpdateStatus(c, t, s)
      PROVE Refreshing'
  BY <1>20 DEF UpdateStatus, SetUser, SessionGoes, Idle
<1>21. ASSUME NEW c \in SessionCalls,
             NEW isAdmin \in BOOLEAN, NEW t \in handed \cup {NoToken},
             SetAdmin(c, t, isAdmin)
      PROVE Refreshing'
  BY <1>21 DEF SetAdmin, SetUser, SessionGoes, Idle
<1>22. CASE UNCHANGED sessionVars
  BY <1>22 DEF sessionVars
<1> QED
  BY <1>1, <1>2, <1>3, <1>4, <1>5, <1>6, <1>7, <1>8, <1>9, <1>10, <1>11, <1>12, <1>13,
     <1>14, <1>15, <1>16, <1>17, <1>18, <1>19, <1>20, <1>21, <1>22
  DEF SessionNext, Calling

(* A step that could end the end of a session is a login, or a refresh that *)
(* began before it, and then it is not over.                               *)
LEMMA LogoutStep ==
  WellTyped /\ LogoutEndsSession /\ [SessionNext]_sessionVars => LogoutEndsSession'
<1> SUFFICES ASSUME WellTyped /\ LogoutEndsSession, [SessionNext]_sessionVars
             PROVE  LogoutEndsSession'
  OBVIOUS
<1> USE SessionAssumption
    DEF WellTyped, StoresTyped, SessionShape, CallRecords, SessionRecords,
        LogoutEndsSession, SigningIn
<1>1. CASE SecondPasses
  BY <1>1 DEF SecondPasses
<1>2. ASSUME NEW c \in SessionCalls,
             NEW kind \in {"login", "handler_login"},
             Login(c, kind)
      PROVE LogoutEndsSession'
  BY <1>2 DEF Login, Idle
<1>3. ASSUME NEW c \in SessionCalls, CheckVersion(c) PROVE LogoutEndsSession'
  BY <1>3 DEF CheckVersion, SessionGoes
<1>4. ASSUME NEW c \in SessionCalls, GenerateTokens(c) PROVE LogoutEndsSession'
  BY <1>4 DEF GenerateTokens, NewToken
<1>5. ASSUME NEW c \in SessionCalls, HandlerAnswers(c) PROVE LogoutEndsSession'
  BY <1>5 DEF HandlerAnswers, NewToken, SessionGoes
<1>6. ASSUME NEW c \in SessionCalls, ChangePassword(c) PROVE LogoutEndsSession'
  BY <1>6 DEF ChangePassword, SetUser, SessionGoes, Idle
<1>7. ASSUME NEW c \in SessionCalls, DeleteUser(c) PROVE LogoutEndsSession'
  BY <1>7 DEF DeleteUser, SetUser, SessionGoes, Idle
<1>8. ASSUME NEW c \in SessionCalls, FillProfile(c) PROVE LogoutEndsSession'
  BY <1>8 DEF FillProfile, SessionGoes
<1>9. ASSUME NEW c \in SessionCalls,
             NEW ok \in BOOLEAN,
             StoreRefreshToken(c, ok)
      PROVE LogoutEndsSession'
  BY <1>9 DEF StoreRefreshToken, SessionGoes
<1>10. ASSUME NEW c \in SessionCalls,
             NEW ok \in BOOLEAN,
             RevokeKey(c, ok)
      PROVE LogoutEndsSession'
  BY <1>10 DEF RevokeKey, SessionGoes, Idle
<1>11. ASSUME NEW c \in SessionCalls,
             NEW ok \in BOOLEAN,
             BlacklistRefresh(c, ok)
      PROVE LogoutEndsSession'
  BY <1>11 DEF BlacklistRefresh, SessionGoes
<1>12. ASSUME NEW c \in SessionCalls,
             NEW ok \in BOOLEAN,
             ClearProfile(c, ok)
      PROVE LogoutEndsSession'
  BY <1>12 DEF ClearProfile, SessionGoes
<1>13. ASSUME NEW c \in SessionCalls,
             NEW ok \in BOOLEAN,
             IncrementTokenVersion(c, ok)
      PROVE LogoutEndsSession'
  BY <1>13 DEF IncrementTokenVersion, SetUser, SessionGoes
<1>14. ASSUME NEW c \in SessionCalls,
             NEW t \in handed,
             RefreshToken(c, t)
      PROVE LogoutEndsSession'
  BY <1>14 DEF RefreshToken, Idle
<1>15. ASSUME NEW c \in SessionCalls,
             NEW t \in handed,
             HandlerPassword(c, t)
      PROVE LogoutEndsSession'
  BY <1>15 DEF HandlerPassword, SetUser, SessionGoes, Idle
<1>16. ASSUME NEW c \in SessionCalls,
             NEW t \in handed,
             GetProfile(c, t)
      PROVE LogoutEndsSession'
  BY <1>16 DEF GetProfile, Idle
<1>17. ASSUME NEW c \in SessionCalls,
             NEW t \in handed, NEW asked \in BOOLEAN,
             HandlerRefresh(c, t, asked)
      PROVE LogoutEndsSession'
  BY <1>17 DEF HandlerRefresh, Idle
<1>18. ASSUME NEW c \in SessionCalls,
             NEW t \in handed, NEW inHeader \in BOOLEAN, NEW ok \in BOOLEAN,
             HandlerLogout(c, t, inHeader, ok)
      PROVE LogoutEndsSession'
  BY <1>18 DEF HandlerLogout, Idle
<1>19. ASSUME NEW c \in SessionCalls,
             NEW t \in handed, NEW n \in Names,
             UpdateProfile(c, t, n)
      PROVE LogoutEndsSession'
  BY <1>19 DEF UpdateProfile, SetUser, SessionGoes, Idle
<1>20. ASSUME NEW c \in SessionCalls,
             NEW s \in {"active", "suspended", "deleted"}, NEW t \in handed \cup {NoToken},
             UpdateStatus(c, t, s)
      PROVE LogoutEndsSession'
  BY <1>20 DEF UpdateStatus, SetUser, SessionGoes, Idle
<1>21. ASSUME NEW c \in SessionCalls,
             NEW isAdmin \in BOOLEAN, NEW t \in handed \cup {NoToken},
             SetAdmin(c, t, isAdmin)
      PROVE LogoutEndsSession'
  BY <1>21 DEF SetAdmin, SetUser, SessionGoes, Idle
<1>22. CASE UNCHANGED sessionVars
  BY <1>22 DEF sessionVars
<1> QED
  BY <1>1, <1>2, <1>3, <1>4, <1>5, <1>6, <1>7, <1>8, <1>9, <1>10, <1>11, <1>12, <1>13,
     <1>14, <1>15, <1>16, <1>17, <1>18, <1>19, <1>20, <1>21, <1>22
  DEF SessionNext, Calling

(* A name is changed by an update that is about to clear the profile, and  *)
(* clearing it counts the readers that are late.                           *)
LEMMA CachedStep == WellTyped /\ Cached /\ [SessionNext]_sessionVars => Cached'
<1> SUFFICES ASSUME WellTyped /\ Cached, [SessionNext]_sessionVars PROVE Cached'
  OBVIOUS
<1> USE SessionAssumption
    DEF WellTyped, StoresTyped, SessionShape, CallRecords, SessionRecords, Cached, FillersAreKnown,
        ProfileFollowsRow
<1>1. CASE SecondPasses
  BY <1>1 DEF SecondPasses
<1>2. ASSUME NEW c \in SessionCalls,
             NEW kind \in {"login", "handler_login"},
             Login(c, kind)
      PROVE Cached'
  BY <1>2 DEF Login, Idle
<1>3. ASSUME NEW c \in SessionCalls, CheckVersion(c) PROVE Cached'
  BY <1>3 DEF CheckVersion, SessionGoes
<1>4. ASSUME NEW c \in SessionCalls, GenerateTokens(c) PROVE Cached'
  BY <1>4 DEF GenerateTokens, NewToken
<1>5. ASSUME NEW c \in SessionCalls, HandlerAnswers(c) PROVE Cached'
  BY <1>5 DEF HandlerAnswers, NewToken, SessionGoes
<1>6. ASSUME NEW c \in SessionCalls, ChangePassword(c) PROVE Cached'
  BY <1>6 DEF ChangePassword, SetUser, SessionGoes, Idle
<1>7. ASSUME NEW c \in SessionCalls, DeleteUser(c) PROVE Cached'
  BY <1>7 DEF DeleteUser, SetUser, SessionGoes, Idle
<1>8. ASSUME NEW c \in SessionCalls, FillProfile(c) PROVE Cached'
  BY <1>8 DEF FillProfile, SessionGoes
<1>9. ASSUME NEW c \in SessionCalls,
             NEW ok \in BOOLEAN,
             StoreRefreshToken(c, ok)
      PROVE Cached'
  BY <1>9 DEF StoreRefreshToken, SessionGoes
<1>10. ASSUME NEW c \in SessionCalls, NEW ok \in BOOLEAN, RevokeKey(c, ok) PROVE Cached'
  BY <1>10 DEF RevokeKey, SessionGoes, Idle
<1>11. ASSUME NEW c \in SessionCalls,
             NEW ok \in BOOLEAN,
             BlacklistRefresh(c, ok)
      PROVE Cached'
  BY <1>11 DEF BlacklistRefresh, SessionGoes
<1>12. ASSUME NEW c \in SessionCalls, NEW ok \in BOOLEAN, ClearProfile(c, ok) PROVE Cached'
  BY <1>12 DEF ClearProfile, SessionGoes
<1>13. ASSUME NEW c \in SessionCalls,
             NEW ok \in BOOLEAN,
             IncrementTokenVersion(c, ok)
      PROVE Cached'
  BY <1>13 DEF IncrementTokenVersion, SetUser, SessionGoes
<1>14. ASSUME NEW c \in SessionCalls, NEW t \in handed, RefreshToken(c, t) PROVE Cached'
  BY <1>14 DEF RefreshToken, Idle
<1>15. ASSUME NEW c \in SessionCalls, NEW t \in handed, HandlerPassword(c, t) PROVE Cached'
  BY <1>15 DEF HandlerPassword, SetUser, SessionGoes, Idle
<1>16. ASSUME NEW c \in SessionCalls, NEW t \in handed, GetProfile(c, t) PROVE Cached'
  BY <1>16 DEF GetProfile, Idle
<1>17. ASSUME NEW c \in SessionCalls,
             NEW t \in handed, NEW asked \in BOOLEAN,
             HandlerRefresh(c, t, asked)
      PROVE Cached'
  BY <1>17 DEF HandlerRefresh, Idle
<1>18. ASSUME NEW c \in SessionCalls,
             NEW t \in handed, NEW inHeader \in BOOLEAN, NEW ok \in BOOLEAN,
             HandlerLogout(c, t, inHeader, ok)
      PROVE Cached'
  BY <1>18 DEF HandlerLogout, Idle
<1>19. ASSUME NEW c \in SessionCalls,
             NEW t \in handed, NEW n \in Names,
             UpdateProfile(c, t, n)
      PROVE Cached'
  BY <1>19 DEF UpdateProfile, SetUser, SessionGoes, Idle
<1>20. ASSUME NEW c \in SessionCalls,
             NEW s \in {"active", "suspended", "deleted"}, NEW t \in handed \cup {NoToken},
             UpdateStatus(c, t, s)
      PROVE Cached'
  BY <1>20 DEF UpdateStatus, SetUser, SessionGoes, Idle
<1>21. ASSUME NEW c \in SessionCalls,
             NEW isAdmin \in BOOLEAN, NEW t \in handed \cup {NoToken},
             SetAdmin(c, t, isAdmin)
      PROVE Cached'
  BY <1>21 DEF SetAdmin, SetUser, SessionGoes, Idle
<1>22. CASE UNCHANGED sessionVars
  BY <1>22 DEF sessionVars
<1> QED
  BY <1>1, <1>2, <1>3, <1>4, <1>5, <1>6, <1>7, <1>8, <1>9, <1>10, <1>11, <1>12, <1>13,
     <1>14, <1>15, <1>16, <1>17, <1>18, <1>19, <1>20, <1>21, <1>22
  DEF SessionNext, Calling

(* Every step preserves the invariant. *)
LEMMA SessionInvStep == SessionInv /\ [SessionNext]_sessionVars => SessionInv'
  BY WellTypedStep, RefreshingStep, LogoutStep, CachedStep DEF SessionInv

(* The row, the key, the tokens and the calls keep their types. *)
THEOREM SessionTypeCorrect == SessionSpec => []SessionTypeOK
<1>1. SessionInv => SessionTypeOK
  BY WellTypedImplies DEF SessionInv
<1> QED
  BY SessionInvInit, SessionInvStep, <1>1, PTL DEF SessionSpec

(* A refresh with a token from before a rise of the version issues nothing. *)
THEOREM SessionOldTokensDoNotRefresh == SessionSpec => []OldTokensDoNotRefresh
<1>1. SessionInv => OldTokensDoNotRefresh
  BY DEF SessionInv, Refreshing
<1> QED
  BY SessionInvInit, SessionInvStep, <1>1, PTL DEF SessionSpec

(* A session that is over stays over until somebody logs in. *)
THEOREM SessionLogoutEnds == SessionSpec => []LogoutEndsSession
<1>1. SessionInv => LogoutEndsSession
  BY DEF SessionInv
<1> QED
  BY SessionInvInit, SessionInvStep, <1>1, PTL DEF SessionSpec

(* The cached profile follows its row, but for what the code leaves open. *)
THEOREM SessionProfileFollows == SessionSpec => []ProfileFollowsRow
<1>1. SessionInv => ProfileFollowsRow
  BY DEF SessionInv, Cached
<1> QED
  BY SessionInvInit, SessionInvStep, <1>1, PTL DEF SessionSpec
===============================================================================
