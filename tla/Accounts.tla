------------------------------ MODULE Accounts ------------------------------
(***************************************************************************)
(* Accounts, e-mailed tokens and sessions: AuthService, UsersService and   *)
(* JwtStrategy.  A client's request is a process.  Each of its statements  *)
(* is a step, except that the last one of a transaction and the commit are *)
(* one: nothing is read in between.  A transaction holds the token rows it *)
(* has updated, so that another update of them waits and then looks again. *)
(*                                                                         *)
(* A request that is refused, or fails before its commit, has no effect.   *)
(***************************************************************************)
EXTENDS Naturals

CONSTANTS
  Users,       \* registered e-mail addresses
  Passwords,
  Tokens,      \* ids of auth_tokens rows
  Sessions,    \* access tokens (jti)
  Clients,     \* requests under way at the same time
  MaxVersion,  \* bound: token_version
  None

ASSUME AccountsAssumption ==
  MaxVersion \in Nat /\ None \notin Users \cup Tokens \cup Passwords

ASSUME TypeAssumption == None \notin {"EMAIL_VERIFICATION", "PASSWORD_RESET"}

VARIABLES
  users,     \* the users table
  tokens,    \* the auth_tokens table, with the mail of each token
  sessions,  \* access tokens that login has signed
  blacklist, \* the keys auth:blacklist:<jti> of Redis
  req,       \* the request of each client
  redeemed,  \* tokens that have activated a user or set a password
  revoked    \* tokens that forgotPassword has replaced

vars == <<users, tokens, sessions, blacklist, req, redeemed, revoked>>

-----------------------------------------------------------------------------
UserRow ==
  [status   : {"ABSENT", "PENDING", "ACTIVE", "INACTIVE"},
   password : Passwords \cup {None},
   version  : 0..MaxVersion]

TokenType == {"EMAIL_VERIFICATION", "PASSWORD_RESET"}

(* A token row, and the status of the notification that carries it.        *)
TokenRow ==
  [type : TokenType \cup {None}, user : Users \cup {None},
   used : BOOLEAN, expired : BOOLEAN,
   mail : {None, "PENDING", "SENT"}]

(* What an access token says, and the password it was given for.           *)
Session ==
  [user : Users \cup {None}, version : 0..MaxVersion,
   password : Passwords \cup {None}]

Step ==
  {"idle", "register", "forgot", "revoke", "reissue", "redeem", "login",
   "authenticate", "admitted", "change"}

(* A request: what it was given, the rows it has read or holds.            *)
Request ==
  [at : Step, user : Users \cup {None}, password : Passwords \cup {None},
   session : Sessions \cup {None}, seen : UserRow, rows : SUBSET Tokens]

NoUser == [status |-> "ABSENT", password |-> None, version |-> 0]
NoToken ==
  [type |-> None, user |-> None, used |-> FALSE, expired |-> FALSE, mail |-> None]
NoSession == [user |-> None, version |-> 0, password |-> None]

Idle ==
  [at |-> "idle", user |-> None, password |-> None, session |-> None,
   seen |-> NoUser, rows |-> {}]

At(c, step) == req[c].at = step
End(c) == req' = [req EXCEPT ![c] = Idle]

-----------------------------------------------------------------------------
(* register: the unique e-mail makes a second INSERT wait for the first.   *)
Register(c) ==
  \E u \in Users, p \in Passwords :
    /\ At(c, "idle")
    /\ users[u].status = "ABSENT"
    /\ \A d \in Clients : At(d, "register") => req[d].user # u
    /\ req' = [req EXCEPT ![c] =
                 [Idle EXCEPT !.at = "register", !.user = u, !.password = p]]
    /\ UNCHANGED <<users, tokens, sessions, blacklist, redeemed, revoked>>

(* createAuthToken and createAuthTokenNotification.                        *)
NewToken(type, u) ==
  [type |-> type, user |-> u, used |-> FALSE, expired |-> FALSE, mail |-> "PENDING"]

Absent(t) == tokens[t].type = None

(* Mutant: the user is committed before there is a token.                  *)
SaveUserOnly(c) ==
  /\ At(c, "register")
  /\ users' = [users EXCEPT ![req[c].user] =
                 [status |-> "PENDING", password |-> req[c].password, version |-> 0]]
  /\ End(c)
  /\ UNCHANGED <<tokens, sessions, blacklist, redeemed, revoked>>

SaveUser(c) ==
  \E t \in Tokens :
    LET u == req[c].user
    IN /\ At(c, "register") /\ Absent(t)
       /\ users' = [users EXCEPT ![u] =
            [status |-> "PENDING", password |-> req[c].password, version |-> 0]]
       /\ tokens' = [tokens EXCEPT ![t] = NewToken("EMAIL_VERIFICATION", u)]
       /\ End(c)
       /\ UNCHANGED <<sessions, blacklist, redeemed, revoked>>

-----------------------------------------------------------------------------
(* Token rows that a transaction has updated and not yet committed.        *)
Held(t) == \E c \in Clients : req[c].at \in {"redeem", "reissue"} /\ t \in req[c].rows

(* The WHERE of consumeAuthToken, which waits for a row that is held.      *)
Consumable(t) ==
  ~Absent(t) /\ ~tokens[t].used /\ ~tokens[t].expired /\ ~Held(t)

ConsumeAuthToken(c) ==
  \E t \in Tokens, p \in Passwords :
    /\ At(c, "idle")
    /\ Consumable(t)
    /\ req' = [req EXCEPT ![c] =
                 [Idle EXCEPT !.at = "redeem", !.user = tokens[t].user,
                              !.password = p, !.rows = {t}]]
    /\ UNCHANGED <<users, tokens, sessions, blacklist, redeemed, revoked>>

Redeem(c) ==
  /\ tokens' = [t \in Tokens |->
                  [tokens[t] EXCEPT !.used = @ \/ t \in req[c].rows]]
  /\ redeemed' = [t \in Tokens |-> redeemed[t] + (IF t \in req[c].rows THEN 1 ELSE 0)]
  /\ End(c)
  /\ UNCHANGED <<sessions, blacklist, revoked>>

Redeeming(c, type) ==
  At(c, "redeem") /\ \A t \in req[c].rows : tokens[t].type = type

(* verifyEmail: markEmailVerified and the commit.                          *)
VerifyEmail(c) ==
  /\ Redeeming(c, "EMAIL_VERIFICATION")
  /\ users[req[c].user].status = "PENDING"
  /\ users' = [users EXCEPT ![req[c].user].status = "ACTIVE"]
  /\ Redeem(c)

(* A new password, and every access token given so far is revoked.         *)
SetPassword(u, p) ==
  /\ users[u].version < MaxVersion
  /\ users' = [users EXCEPT ![u].password = p, ![u].version = @ + 1]

(* resetPassword: updatePassword and the commit.                           *)
ResetPassword(c) ==
  /\ Redeeming(c, "PASSWORD_RESET")
  /\ SetPassword(req[c].user, req[c].password)
  /\ Redeem(c)

-----------------------------------------------------------------------------
(* forgotPassword: findByEmail, before the transaction.                    *)
ForgotPassword(c) ==
  \E u \in Users :
    /\ At(c, "idle")
    /\ users[u].status = "ACTIVE"
    /\ req' = [req EXCEPT ![c] = [Idle EXCEPT !.at = "forgot", !.user = u]]
    /\ UNCHANGED <<users, tokens, sessions, blacklist, redeemed, revoked>>

(* revokeUnusedAuthTokens sees the tokens that are committed when the      *)
(* statement starts, waits for those that are held, and looks again.       *)
Unused(u) ==
  {t \in Tokens : /\ tokens[t].type = "PASSWORD_RESET"
                  /\ tokens[t].user = u
                  /\ ~tokens[t].used}

FindUnused(c) ==
  /\ At(c, "forgot")
  /\ req' = [req EXCEPT ![c].at = "revoke", ![c].rows = Unused(req[c].user)]
  /\ UNCHANGED <<users, tokens, sessions, blacklist, redeemed, revoked>>

(* Mutant: it does not look again.                                         *)
SeenBefore(c) == req[c].rows

StillUnused(c) == req[c].rows \cap Unused(req[c].user)

RevokeUnused(c) ==
  /\ At(c, "revoke")
  /\ \A t \in req[c].rows : ~Held(t)
  /\ req' = [req EXCEPT ![c].at = "reissue", ![c].rows = StillUnused(c)]
  /\ UNCHANGED <<users, tokens, sessions, blacklist, redeemed, revoked>>

(* createAuthToken, createAuthTokenNotification and the commit.            *)
ReissueToken(c) ==
  \E new \in Tokens :
    /\ At(c, "reissue") /\ Absent(new)
    /\ tokens' = [t \in Tokens |->
         IF t = new THEN NewToken("PASSWORD_RESET", req[c].user)
         ELSE [tokens[t] EXCEPT !.used = @ \/ t \in req[c].rows]]
    /\ revoked' = revoked \cup req[c].rows
    /\ End(c)
    /\ UNCHANGED <<users, sessions, blacklist, redeemed>>

-----------------------------------------------------------------------------
(* login: findByEmail, and after the comparison of the passwords the       *)
(* token, made from the row that was read.                                 *)
Login(c) ==
  \E u \in Users, p \in Passwords :
    /\ At(c, "idle")
    /\ users[u].status # "ABSENT"
    /\ req' = [req EXCEPT ![c] =
                 [Idle EXCEPT !.at = "login", !.user = u, !.password = p,
                              !.seen = users[u]]]
    /\ UNCHANGED <<users, tokens, sessions, blacklist, redeemed, revoked>>

(* Mutant: the version is read again.                                      *)
VersionNow(c) == users[req[c].user].version
VersionSeen(c) == req[c].seen.version

MayLogIn(c) ==
  req[c].seen.password = req[c].password /\ req[c].seen.status = "ACTIVE"

IssueAccessToken(c) ==
  \E s \in Sessions :
    /\ At(c, "login") /\ MayLogIn(c)
    /\ sessions[s] = NoSession
    /\ sessions' = [sessions EXCEPT ![s] =
         [user |-> req[c].user, version |-> VersionSeen(c),
          password |-> req[c].password]]
    /\ End(c)
    /\ UNCHANGED <<users, tokens, blacklist, redeemed, revoked>>

-----------------------------------------------------------------------------
(* JwtStrategy.validate: isTokenBlacklisted, then findById.                *)
IsTokenBlacklisted(c) ==
  \E s \in Sessions :
    /\ At(c, "idle")
    /\ sessions[s] # NoSession
    /\ s \notin blacklist
    /\ req' = [req EXCEPT ![c] =
         [Idle EXCEPT !.at = "authenticate", !.user = sessions[s].user,
                      !.session = s]]
    /\ UNCHANGED <<users, tokens, sessions, blacklist, redeemed, revoked>>

Current(s) ==
  /\ users[sessions[s].user].status = "ACTIVE"
  /\ users[sessions[s].user].version = sessions[s].version

Authenticate(c) ==
  /\ At(c, "authenticate")
  /\ IF Current(req[c].session)
     THEN req' = [req EXCEPT ![c].at = "admitted"]
     ELSE End(c)
  /\ UNCHANGED <<users, tokens, sessions, blacklist, redeemed, revoked>>

(* Mutant: the key is made of the user's id.                               *)
BlacklistUser(c) == blacklist' = blacklist \cup {req[c].user}
BlacklistToken(c) == blacklist' = blacklist \cup {req[c].session}

Logout(c) ==
  /\ At(c, "admitted")
  /\ BlacklistToken(c)
  /\ End(c)
  /\ UNCHANGED <<users, tokens, sessions, redeemed, revoked>>

(* changePassword: the current password is compared with the row as read,  *)
(* the new one is another and is written later.                            *)
ChangePassword(c) ==
  \E p \in Passwords :
    /\ At(c, "admitted")
    /\ p # users[req[c].user].password
    /\ req' = [req EXCEPT ![c].at = "change", ![c].password = p]
    /\ UNCHANGED <<users, tokens, sessions, blacklist, redeemed, revoked>>

UpdatePassword(c) ==
  /\ At(c, "change")
  /\ SetPassword(req[c].user, req[c].password)
  /\ End(c)
  /\ UNCHANGED <<tokens, sessions, blacklist, redeemed, revoked>>

(* updateUserStatus, by an administrator.                                  *)
(* Mutant of Deactivate: access tokens stay as they are.                   *)
DeactivateOnly(u) ==
  /\ users[u].status = "ACTIVE"
  /\ users' = [users EXCEPT ![u].status = "INACTIVE"]

Deactivate(u) ==
  /\ users[u].status = "ACTIVE" /\ users[u].version < MaxVersion
  /\ users' = [users EXCEPT ![u].status = "INACTIVE", ![u].version = @ + 1]

Reactivate(u) ==
  /\ users[u].status = "INACTIVE"
  /\ users' = [users EXCEPT ![u].status = "ACTIVE"]

UpdateUserStatus ==
  \E u \in Users :
    /\ Deactivate(u) \/ Reactivate(u)
    /\ UNCHANGED <<tokens, sessions, blacklist, req, redeemed, revoked>>

-----------------------------------------------------------------------------
(* A request is refused, a statement fails, or the process dies: what was  *)
(* not committed is rolled back.                                           *)
Abort(c) ==
  /\ ~At(c, "idle")
  /\ End(c)
  /\ UNCHANGED <<users, tokens, sessions, blacklist, redeemed, revoked>>

(* expires_at goes by.                                                     *)
Expire(t) ==
  /\ ~Absent(t) /\ ~tokens[t].expired
  /\ tokens' = [tokens EXCEPT ![t].expired = TRUE]
  /\ UNCHANGED <<users, sessions, blacklist, req, redeemed, revoked>>

(* The outbox has sent the mail.                                           *)
MailSent(t) ==
  /\ tokens[t].mail = "PENDING"
  /\ tokens' = [tokens EXCEPT ![t].mail = "SENT"]
  /\ UNCHANGED <<users, sessions, blacklist, req, redeemed, revoked>>

Init ==
  /\ users = [u \in Users |-> NoUser]
  /\ tokens = [t \in Tokens |-> NoToken]
  /\ sessions = [s \in Sessions |-> NoSession]
  /\ blacklist = {}
  /\ req = [c \in Clients |-> Idle]
  /\ redeemed = [t \in Tokens |-> 0]
  /\ revoked = {}

Next ==
  \/ \E c \in Clients :
       \/ Register(c) \/ SaveUser(c)
       \/ ConsumeAuthToken(c) \/ VerifyEmail(c) \/ ResetPassword(c)
       \/ ForgotPassword(c) \/ FindUnused(c) \/ RevokeUnused(c) \/ ReissueToken(c)
       \/ Login(c) \/ IssueAccessToken(c)
       \/ IsTokenBlacklisted(c) \/ Authenticate(c)
       \/ Logout(c) \/ ChangePassword(c) \/ UpdatePassword(c)
       \/ Abort(c)
  \/ UpdateUserStatus
  \/ \E t \in Tokens : Expire(t) \/ MailSent(t)

Spec == Init /\ [][Next]_vars

-----------------------------------------------------------------------------
TypeOK ==
  /\ users \in [Users -> UserRow]
  /\ tokens \in [Tokens -> TokenRow]
  /\ sessions \in [Sessions -> Session]
  /\ blacklist \subseteq Sessions
  /\ req \in [Clients -> Request]
  /\ redeemed \in [Tokens -> Nat]
  /\ revoked \subseteq Tokens

(* A request is admitted only with an access token that was given for the  *)
(* password the user has now, even when login, changePassword and          *)
(* resetPassword overlap (token_version).                                  *)
OnlyCurrentPassword ==
  \A s \in Sessions :
    sessions[s] # NoSession /\ Current(s) =>
      sessions[s].password = users[sessions[s].user].password

(* An access token that JwtStrategy would refuse is refused for good: not  *)
(* even a user who is activated again can go on with one of before.        *)
Refused(s) == s \in blacklist \/ ~Current(s)

RefusedForGood ==
  [][\A s \in Sessions : sessions[s] # NoSession /\ Refused(s) => Refused(s)']_vars

(* A token has its effect once, and one that forgotPassword has replaced   *)
(* has none, however redeeming and replacing overlap.                      *)
SpentOnce ==
  \A t \in Tokens : redeemed[t] + (IF t \in revoked THEN 1 ELSE 0) <= 1

(* A user is PENDING exactly as long as the one verification token that    *)
(* was mailed is unused, and is in use or switched off only after it was   *)
(* redeemed: register and verifyEmail write both tables or none, and no    *)
(* other request comes between.  This does not say that a PENDING user can *)
(* still verify: consumeAuthToken refuses a token that has expired and     *)
(* there is no second mail, so that its user stays PENDING for good.       *)
PendingUntilRedeemed ==
  \A u \in Users :
    LET mailed == {t \in Tokens : /\ tokens[t].type = "EMAIL_VERIFICATION"
                                 /\ tokens[t].user = u}
    IN /\ users[u].status = "ABSENT" <=> mailed = {}
       /\ users[u].status = "PENDING" <=> \E t \in mailed : ~tokens[t].used
       /\ users[u].status \in {"ACTIVE", "INACTIVE"} <=>
            \E t \in mailed : redeemed[t] = 1

(* What database.md says of a new reset token: the notification of the one *)
(* it replaces is FAILED if it was PENDING, and no dead link is sent.      *)
NoDeadLink == \A t \in revoked : tokens[t].mail # "PENDING"

-----------------------------------------------------------------------------
(* The inductive invariants of AccountsProofs.                             *)

(* An access token is no younger than its user's row, and if it is as      *)
(* young, the row still is as login saw it.                                *)
SessionsTrue ==
  \A s \in Sessions :
    LET u == sessions[s].user
    IN sessions[s] # NoSession =>
         /\ u \in Users /\ users[u].status # "ABSENT"
         /\ sessions[s].version <= users[u].version
         /\ sessions[s].version = users[u].version =>
              /\ users[u].status = "ACTIVE"
              /\ users[u].password = sessions[s].password

LoginsTrue ==
  \A c \in Clients :
    LET u == req[c].user
    IN At(c, "login") =>
         /\ u \in Users /\ users[u].status # "ABSENT"
         /\ req[c].seen.version <= users[u].version
         /\ req[c].seen.version = users[u].version =>
              /\ req[c].seen.status = "ACTIVE" => users[u].status = "ACTIVE"
              /\ users[u].password = req[c].seen.password

(* An e-mail that is being registered is nobody's yet.                     *)
RegistersTrue ==
  \A c \in Clients :
    At(c, "register") =>
      /\ req[c].user \in Users /\ users[req[c].user].status = "ABSENT"
      /\ \A d \in Clients \ {c} : At(d, "register") => req[d].user # req[c].user

(* Behind the strategy a request has an access token.                      *)
HasSession ==
  \A c \in Clients :
    req[c].at \in {"authenticate", "admitted", "change"} =>
      req[c].session \in Sessions

SessionInv == TypeOK /\ HasSession /\ SessionsTrue /\ LoginsTrue /\ RegistersTrue

(* A token that is unused has had no effect, and a token is held by one    *)
(* transaction, that found it unused.                                      *)
Holds(c) == req[c].at \in {"redeem", "reissue"}

TokensTrue ==
  \A t \in Tokens :
    /\ ~tokens[t].used => redeemed[t] = 0 /\ t \notin revoked
    /\ Absent(t) => ~tokens[t].used

HoldersTrue ==
  \A c \in Clients :
    Holds(c) =>
      /\ \A t \in req[c].rows : ~tokens[t].used /\ ~Absent(t)
      /\ \A d \in Clients \ {c} : Holds(d) => req[c].rows \cap req[d].rows = {}

SpentInv == TypeOK /\ SpentOnce /\ TokensTrue /\ HoldersTrue

(* A user has one verification token in all, for there is no second mail,  *)
(* and a request that redeems a token does so for the token's user.        *)
Verifies(t) == tokens[t].type = "EMAIL_VERIFICATION"

VerificationsTrue ==
  \A t \in Tokens :
    Verifies(t) =>
      /\ tokens[t].user \in Users /\ users[tokens[t].user].status # "ABSENT"
      /\ \A k \in Tokens \ {t} : Verifies(k) => tokens[k].user # tokens[t].user

WritersTrue ==
  \A c \in Clients :
    /\ At(c, "redeem") =>
         \E t \in Tokens : req[c].rows = {t} /\ req[c].user = tokens[t].user
    /\ At(c, "reissue") => \A t \in req[c].rows : ~Verifies(t)

PendingUnused ==
  \A u \in Users :
    users[u].status = "PENDING" <=>
      \E t \in Tokens : Verifies(t) /\ tokens[t].user = u /\ ~tokens[t].used

MailsTrue ==
  /\ \A u \in Users : users[u].status # "ABSENT" =>
       \E t \in Tokens : Verifies(t) /\ tokens[t].user = u
  /\ \A t \in Tokens : Verifies(t) /\ tokens[t].used => redeemed[t] = 1

VerifyInv == PendingUnused /\ VerificationsTrue /\ WritersTrue /\ MailsTrue
=============================================================================
