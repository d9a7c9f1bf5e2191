--------------------------------- MODULE SignUp -------------------------------
(***************************************************************************)
(* How a person becomes a user: registration by e-mail (user_service.go,   *)
(* auth_handler.go) and logins through a provider (auth_oauth.go), on the  *)
(* table users, whose e-mails are unique, and the table auth_identities,   *)
(* whose pairs of provider and provider's user are.  Browsers hold one     *)
(* cookie for the state of a login; the providers are external.            *)
(***************************************************************************)
EXTENDS Integers, FiniteSets

CONSTANTS
  SignIns,      \* calls: logins of one person and registrations
  Browsers,
  Identities,   \* a provider's users
  ProviderOf,   \* the provider of each
  MailsGiven,   \* for each, the e-mails of it its provider may know of, or
                \* for WeChat the e-mail made of its union id, if it has one
  Placeholder,  \* for each, the e-mail made of the provider's id for it
  Mails,        \* the e-mails with which people register
  MaxPeople,    \* bounds the ids of users
  NoMail,       \* the empty e-mail
  NoRecord      \* no row, no cookie, no identity

AllMails == Mails \cup UNION {MailsGiven[x] \cup {Placeholder[x]} : x \in Identities}

People == 1..MaxPeople

ASSUME SignUpAssumption ==
  /\ MaxPeople \in Nat
  /\ ProviderOf \in [Identities -> {"github", "google", "wechat"}]
  /\ NoRecord \notin SignIns \cup Identities \cup AllMails
  /\ NoRecord \notin [user : People, mail : AllMails]

VARIABLES
  people,     \* the e-mail of each user, or NoRecord
  identity,   \* for each identity the row: a user and an e-mail, or NoRecord
  cookie,     \* for each browser the login whose state oauth_state holds
  signIn,     \* where a call is
  answered,   \* history: the logins that were answered, with the user
  loose       \* history: identities that were unbound, or whose row was not stored

signUpVars == <<people, identity, cookie, signIn, answered, loose>>

SignInPCs == {"idle", "away", "exchanging", "informing", "looking", "mailing", "creating",
              "binding", "signing", "registering", "refused", "done"}

SignInStart == [pc |-> "idle", browser |-> NoRecord, identity |-> NoRecord, mail |-> NoRecord,
                user |-> 0]
-------------------------------------------------------------------------------
(* A definition named after a mistake is a mutant that PROJECT.json lists. *)
SignUpInit ==
  /\ people = [u \in People |-> NoRecord]
  /\ identity = [x \in Identities |-> NoRecord]
  /\ cookie = [b \in Browsers |-> NoRecord]
  /\ signIn = [c \in SignIns |-> SignInStart]
  /\ answered = {}
  /\ loose = {}

SignInGoes(c, pc) == signIn' = [signIn EXCEPT ![c].pc = pc]

UserWith(m) == {u \in People : people[u] = m}

(* The three providers set the same cookie, to a state nobody else has,    *)
(* and send the browser away.                                              *)
Leave(c, b, x) ==
  /\ signIn[c].pc = "idle"
  /\ cookie' = [cookie EXCEPT ![b] = c]
  /\ signIn' = [signIn EXCEPT ![c] = [@ EXCEPT !.pc = "away", !.browser = b, !.identity = x]]
  /\ UNCHANGED <<people, identity, answered, loose>>

GitHubAuth(c, b, x) == ProviderOf[x] = "github" /\ Leave(c, b, x)
GoogleAuth(c, b, x) == ProviderOf[x] = "google" /\ Leave(c, b, x)
WeChatAuth(c, b, x) == ProviderOf[x] = "wechat" /\ Leave(c, b, x)

(* The login c is one of a provider's, and there.                          *)
At(c, pc, provider) == signIn[c].pc = pc /\ ProviderOf[signIn[c].identity] = provider

(* A callback asks for the state of the cookie, and takes that away.  A    *)
(* login begun later in another tab has replaced it.                       *)
ComeBack(c) ==
  /\ LET b == signIn[c].browser
     IN IF cookie[b] = c
        THEN cookie' = [cookie EXCEPT ![b] = NoRecord] /\ SignInGoes(c, "exchanging")
        ELSE UNCHANGED cookie /\ SignInGoes(c, "refused")
  /\ UNCHANGED <<people, identity, answered, loose>>

GitHubCallback(c) == At(c, "away", "github") /\ ComeBack(c)
GoogleCallback(c) == At(c, "away", "google") /\ ComeBack(c)
WeChatCallback(c) == At(c, "away", "wechat") /\ ComeBack(c)

(* No code, or the provider refuses it, or does not answer in 10 seconds.  *)
Exchanged(c, ok) ==
  /\ SignInGoes(c, IF ok THEN "informing" ELSE "refused")
  /\ UNCHANGED <<people, identity, cookie, answered, loose>>

exchangeGitHubToken(c, ok) == At(c, "exchanging", "github") /\ Exchanged(c, ok)
exchangeGoogleToken(c, ok) == At(c, "exchanging", "google") /\ Exchanged(c, ok)
exchangeWeChatToken(c, ok) == At(c, "exchanging", "wechat") /\ Exchanged(c, ok)

(* The provider is asked whose login it is, and may not answer.            *)
Informed(c, ok, mails) ==
  /\ IF ok THEN \E m \in mails : signIn' = [signIn EXCEPT ![c].pc = "looking", ![c].mail = m]
     ELSE SignInGoes(c, "refused")
  /\ UNCHANGED <<people, identity, cookie, answered, loose>>

(* A profile without an e-mail has GitHub asked for a list of them, which  *)
(* may be empty, or fail to come: then the e-mail is empty.                *)
getGitHubPrimaryEmail(x) == MailsGiven[x] \cup {NoMail}

getGitHubUserInfo(c, ok) ==
  /\ At(c, "informing", "github")
  /\ Informed(c, ok, getGitHubPrimaryEmail(signIn[c].identity))

getGoogleUserInfo(c, ok) ==
  /\ At(c, "informing", "google")
  /\ Informed(c, ok, MailsGiven[signIn[c].identity])

(* WeChat gives none: one is made of the union id or of the openid.        *)
getWeChatUserInfo(c, ok) ==
  /\ At(c, "informing", "wechat")
  /\ LET x == signIn[c].identity
     IN Informed(c, ok, MailsGiven[x] \cup {Placeholder[x]})

(* handleOAuthLogin.  A known identity is answered with its user, whatever *)
(* the user's status.                                                      *)
FindIdentity(c) ==
  /\ signIn[c].pc = "looking"
  /\ LET row == identity[signIn[c].identity]
     IN signIn' = IF row = NoRecord THEN [signIn EXCEPT ![c].pc = "mailing"]
                  ELSE [signIn EXCEPT ![c].pc = "signing", ![c].user = row.user]
  /\ UNCHANGED <<people, identity, cookie, answered, loose>>

FindIdentityFails(c) ==
  /\ signIn[c].pc = "looking"
  /\ SignInGoes(c, "refused")
  /\ UNCHANGED <<people, identity, cookie, answered, loose>>

(* An e-mail made of the openid is not looked up, one made of a union id   *)
(* is; a query that fails is taken for one that finds nobody.              *)
FindByMail(c, ok) ==
  /\ signIn[c].pc = "mailing"
  /\ LET m == signIn[c].mail
         asks == m # NoMail /\ m # Placeholder[signIn[c].identity] /\ ok
     IN IF asks /\ UserWith(m) # {}
        THEN \E u \in UserWith(m) :
               signIn' = [signIn EXCEPT ![c].pc = "binding", ![c].user = u]
        ELSE signIn' = [signIn EXCEPT ![c].pc = "creating"]
  /\ UNCHANGED <<people, identity, cookie, answered, loose>>

NextID == CHOOSE u \in People : people[u] = NoRecord /\ \A v \in 1..(u - 1) : people[v] # NoRecord

HasRoom == \E u \in People : people[u] = NoRecord

CreateUserTwice(c) ==
  /\ signIn[c].pc = "creating" /\ HasRoom
  /\ people' = [people EXCEPT ![NextID] = signIn[c].mail]
  /\ signIn' = [signIn EXCEPT ![c].pc = "binding", ![c].user = NextID]
  /\ UNCHANGED <<identity, cookie, answered, loose>>

(* An e-mail that is empty or a user has fails the insert, and the login.  *)
CreateUser(c) ==
  /\ signIn[c].pc = "creating" /\ HasRoom
  /\ LET m == signIn[c].mail
     IN IF m = NoMail \/ UserWith(m) # {}
        THEN SignInGoes(c, "refused") /\ UNCHANGED people
        ELSE /\ people' = [people EXCEPT ![NextID] = m]
             /\ signIn' = [signIn EXCEPT ![c].pc = "binding", ![c].user = NextID]
  /\ UNCHANGED <<identity, cookie, answered, loose>>

(* The row of the identity: a failure is logged, and the login goes on.    *)
(* The insert fails when the row is there, or for a reason of its own.     *)
CreateIdentity(c, ok) ==
  /\ signIn[c].pc = "binding"
  /\ LET x == signIn[c].identity
         free == identity[x] = NoRecord
     IN /\ identity' = IF free /\ ok
                       THEN [identity EXCEPT ![x] = [user |-> signIn[c].user,
                                                     mail |-> signIn[c].mail]]
                       ELSE identity
        /\ loose' = IF (free /\ ~ok) \/ (~free /\ identity[x].mail # signIn[c].mail)
                    THEN loose \cup {x} ELSE loose
  /\ SignInGoes(c, "signing")
  /\ UNCHANGED <<people, cookie, answered>>

(* GenerateToken (external) may fail.                                      *)
AnswerLogin(c, ok) ==
  /\ signIn[c].pc = "signing"
  /\ SignInGoes(c, IF ok THEN "done" ELSE "refused")
  /\ answered' = answered \cup
       IF ok THEN {[identity |-> signIn[c].identity, user |-> signIn[c].user]} ELSE {}
  /\ UNCHANGED <<people, identity, cookie, loose>>

(* Of the user and the provider all rows are deleted.                      *)
UnbindOAuth(u, p) ==
  LET bound == {x \in Identities : /\ ProviderOf[x] = p
                                   /\ identity[x] # NoRecord /\ identity[x].user = u}
  IN /\ bound # {}
     /\ identity' = [x \in Identities |-> IF x \in bound THEN NoRecord ELSE identity[x]]
     /\ loose' = loose \cup bound
     /\ UNCHANGED <<people, cookie, signIn, answered>>
-------------------------------------------------------------------------------
(* Register, of the service and of the handler: the e-mail is looked up,   *)
(* then the row is inserted.                                               *)
Register(c, m) ==
  /\ signIn[c].pc = "idle"
  /\ signIn' = [signIn EXCEPT ![c].pc = IF UserWith(m) = {} THEN "registering" ELSE "refused",
                              ![c].mail = m]
  /\ UNCHANGED <<people, identity, cookie, answered, loose>>

RegisterUser(c) ==
  /\ signIn[c].pc = "registering" /\ HasRoom
  /\ IF UserWith(signIn[c].mail) = {}
     THEN people' = [people EXCEPT ![NextID] = signIn[c].mail] /\ SignInGoes(c, "done")
     ELSE UNCHANGED people /\ SignInGoes(c, "refused")
  /\ UNCHANGED <<identity, cookie, answered, loose>>

GoingAway(c, b, x) == GitHubAuth(c, b, x) \/ GoogleAuth(c, b, x) \/ WeChatAuth(c, b, x)

ComingBack(c) ==
  \/ GitHubCallback(c) \/ GoogleCallback(c) \/ WeChatCallback(c)
  \/ \E ok \in BOOLEAN :
       \/ exchangeGitHubToken(c, ok) \/ exchangeGoogleToken(c, ok) \/ exchangeWeChatToken(c, ok)
       \/ getGitHubUserInfo(c, ok) \/ getGoogleUserInfo(c, ok) \/ getWeChatUserInfo(c, ok)

SigningUp(c) ==
  \/ \E b \in Browsers, x \in Identities : GoingAway(c, b, x)
  \/ \E m \in Mails : Register(c, m)
  \/ ComingBack(c) \/ FindIdentity(c) \/ FindIdentityFails(c)
  \/ CreateUser(c) \/ RegisterUser(c)
  \/ \E ok \in BOOLEAN : FindByMail(c, ok) \/ CreateIdentity(c, ok) \/ AnswerLogin(c, ok)

SignUpNext ==
  \/ \E c \in SignIns : SigningUp(c)
  \/ \E u \in People, p \in {ProviderOf[x] : x \in Identities} : UnbindOAuth(u, p)

SignUpSpec == SignUpInit /\ [][SignUpNext]_signUpVars
-------------------------------------------------------------------------------
SignUpTypeOK ==
  /\ people \in [People -> AllMails \cup {NoRecord}]
  /\ \A x \in Identities : identity[x] # NoRecord => identity[x].user \in People
  /\ cookie \in [Browsers -> SignIns \cup {NoRecord}]
  /\ \A c \in SignIns : signIn[c].pc \in SignInPCs /\ signIn[c].user \in 0..MaxPeople
  /\ answered \subseteq [identity : Identities, user : People]
  /\ loose \subseteq Identities

(* All the logins of one identity that are answered reach one user, also    *)
(* two first logins at a time, unless it was unbound, its row could not be  *)
(* stored, or two of its first logins were given different e-mails.         *)
OneUserPerIdentity ==
  \A a, b \in answered :
    a.identity = b.identity /\ a.identity \notin loose => a.user = b.user
===============================================================================
