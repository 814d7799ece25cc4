--------------------------- MODULE AccountsProofs ---------------------------
(***************************************************************************)
(* Proofs about Accounts: types, what an access token is worth, and what a *)
(* mailed token can do; for any number of users, tokens, sessions and      *)
(* concurrent requests.                                                    *)
(***************************************************************************)
EXTENDS Accounts, TLAPS

USE AccountsAssumption

-----------------------------------------------------------------------------
(* Types.                                                                  *)
LEMMA IdleType == Idle \in Request /\ NoUser \in UserRow
BY DEF Idle, Request, NoUser, UserRow, Step

LEMMA EndType ==
  ASSUME TypeOK, NEW c \in Clients, End(c)
  PROVE  req' \in [Clients -> Request]
BY IdleType DEF End, TypeOK

LEMMA SetPasswordType ==
  ASSUME TypeOK, NEW u, NEW p \in Passwords \cup {None}, SetPassword(u, p)
  PROVE  users' \in [Users -> UserRow]
<1>1. CASE u \in Users
  <2>1. users[u] \in UserRow /\ users[u].version + 1 \in 0..MaxVersion
    BY <1>1 DEF SetPassword, TypeOK, UserRow
  <2>2. [users[u] EXCEPT !.password = p, !.version = @ + 1] \in UserRow
    BY <2>1 DEF UserRow
  <2>3. users' = [users EXCEPT ![u] =
                    [users[u] EXCEPT !.password = p, !.version = @ + 1]]
    BY <1>1 DEF SetPassword, TypeOK
  <2>. QED
    BY <2>2, <2>3 DEF TypeOK
<1>2. CASE u \notin Users
  BY <1>2 DEF SetPassword, TypeOK
<1>. QED
  BY <1>1, <1>2

(* A token row that is used up, or not.                                    *)
LEMMA UsedType ==
  ASSUME NEW row \in TokenRow, NEW b \in BOOLEAN
  PROVE  [row EXCEPT !.used = b] \in TokenRow
BY DEF TokenRow

LEMMA MarkType ==
  ASSUME NEW row \in TokenRow, NEW P \in BOOLEAN
  PROVE  [row EXCEPT !.used = @ \/ P] \in TokenRow
<1>1. row.used \in BOOLEAN
  BY DEF TokenRow
<1>2. (row.used \/ P) \in BOOLEAN
  BY <1>1
<1>3. [row EXCEPT !.used = @ \/ P] = [row EXCEPT !.used = row.used \/ P]
  BY DEF TokenRow
<1>. QED
  BY <1>2, <1>3, UsedType

LEMMA RedeemType ==
  ASSUME TypeOK, NEW c \in Clients, Redeem(c)
  PROVE  /\ tokens' \in [Tokens -> TokenRow]
         /\ redeemed' \in [Tokens -> Nat]
         /\ req' \in [Clients -> Request]
         /\ UNCHANGED <<sessions, blacklist, revoked>>
<1>1. tokens' \in [Tokens -> TokenRow]
  <2>1. ASSUME NEW t \in Tokens
        PROVE  [tokens[t] EXCEPT !.used = @ \/ t \in req[c].rows] \in TokenRow
    <3>1. tokens[t] \in TokenRow /\ (t \in req[c].rows) \in BOOLEAN
      BY DEF TypeOK
    <3>. QED
      BY <3>1, MarkType
  <2>. QED
    BY <2>1 DEF Redeem
<1>2. redeemed' \in [Tokens -> Nat]
  <2>1. ASSUME NEW t \in Tokens
        PROVE  redeemed[t] + (IF t \in req[c].rows THEN 1 ELSE 0) \in Nat
    BY DEF TypeOK
  <2>. QED
    BY <2>1 DEF Redeem
<1>. QED
  BY <1>1, <1>2, EndType DEF Redeem

(* A request that begins.                                                  *)
LEMMA BeginTypes ==
  ASSUME TypeOK, NEW c \in Clients,
         \/ Register(c) \/ ConsumeAuthToken(c) \/ ForgotPassword(c)
         \/ Login(c) \/ IsTokenBlacklisted(c)
  PROVE  TypeOK'
<1>. Idle \in Request /\ req \in [Clients -> Request]
  BY IdleType DEF TypeOK
<1>1. \E row \in Request : req' = [req EXCEPT ![c] = row]
  <2>1. CASE Register(c)
    <3>1. PICK u \in Users, p \in Passwords :
            req' = [req EXCEPT ![c] =
                      [Idle EXCEPT !.at = "register", !.user = u, !.password = p]]
      BY <2>1 DEF Register
    <3>2. [Idle EXCEPT !.at = "register", !.user = u, !.password = p] \in Request
      BY DEF Request, Step
    <3>. QED
      BY <3>1, <3>2
  <2>2. CASE ConsumeAuthToken(c)
    <3>1. PICK t \in Tokens, p \in Passwords :
            req' = [req EXCEPT ![c] =
                      [Idle EXCEPT !.at = "redeem", !.user = tokens[t].user,
                                   !.password = p, !.rows = {t}]]
      BY <2>2 DEF ConsumeAuthToken
    <3>2. tokens[t].user \in Users \cup {None}
      BY DEF TypeOK, TokenRow
    <3>3. [Idle EXCEPT !.at = "redeem", !.user = tokens[t].user,
                       !.password = p, !.rows = {t}] \in Request
      BY <3>2 DEF Request, Step
    <3>. QED
      BY <3>1, <3>3
  <2>3. CASE ForgotPassword(c)
    <3>1. PICK u \in Users :
            req' = [req EXCEPT ![c] = [Idle EXCEPT !.at = "forgot", !.user = u]]
      BY <2>3 DEF ForgotPassword
    <3>2. [Idle EXCEPT !.at = "forgot", !.user = u] \in Request
      BY DEF Request, Step
    <3>. QED
      BY <3>1, <3>2
  <2>4. CASE Login(c)
    <3>1. PICK u \in Users, p \in Passwords :
            req' = [req EXCEPT ![c] =
                      [Idle EXCEPT !.at = "login", !.user = u, !.password = p,
                                   !.seen = users[u]]]
      BY <2>4 DEF Login
    <3>2. users[u] \in UserRow
      BY DEF TypeOK
    <3>3. [Idle EXCEPT !.at = "login", !.user = u, !.password = p,
                       !.seen = users[u]] \in Request
      BY <3>2 DEF Request, Step
    <3>. QED
      BY <3>1, <3>3
  <2>5. CASE IsTokenBlacklisted(c)
    <3>1. PICK s \in Sessions :
            req' = [req EXCEPT ![c] =
                      [Idle EXCEPT !.at = "authenticate",
                                   !.user = sessions[s].user, !.session = s]]
      BY <2>5 DEF IsTokenBlacklisted
    <3>2. sessions[s].user \in Users \cup {None}
      BY DEF TypeOK, Session
    <3>3. [Idle EXCEPT !.at = "authenticate", !.user = sessions[s].user,
                       !.session = s] \in Request
      BY <3>2 DEF Request, Step
    <3>. QED
      BY <3>1, <3>3
  <2>. QED
    BY <2>1, <2>2, <2>3, <2>4, <2>5
<1>2. req' \in [Clients -> Request]
  BY <1>1
<1>3. UNCHANGED <<users, tokens, sessions, blacklist, redeemed, revoked>>
  BY DEF Register, ConsumeAuthToken, ForgotPassword, Login, IsTokenBlacklisted
<1>. QED
  BY <1>2, <1>3 DEF TypeOK

LEMMA ClientTypes ==
  ASSUME TypeOK, HasSession, NEW c \in Clients,
         \/ SaveUser(c) \/ VerifyEmail(c) \/ ResetPassword(c)
         \/ FindUnused(c) \/ RevokeUnused(c) \/ ReissueToken(c)
         \/ IssueAccessToken(c) \/ Authenticate(c)
         \/ Logout(c) \/ ChangePassword(c) \/ UpdatePassword(c) \/ Abort(c)
  PROVE  TypeOK'
<1>. req[c] \in Request
  BY DEF TypeOK
<1>1. /\ req[c].user \in Users \cup {None}
      /\ req[c].password \in Passwords \cup {None}
      /\ req[c].session \in Sessions \cup {None}
      /\ req[c].seen \in UserRow
      /\ req[c].rows \subseteq Tokens
  BY DEF Request
<1>2. CASE SaveUser(c)
  <2>1. users' \in [Users -> UserRow]
    <3>1. [status |-> "PENDING", password |-> req[c].password, version |-> 0]
            \in UserRow
      BY <1>1 DEF UserRow
    <3>. QED
      BY <1>2, <3>1 DEF SaveUser, TypeOK
  <2>2. NewToken("EMAIL_VERIFICATION", req[c].user) \in TokenRow
    BY <1>1 DEF NewToken, TokenRow, TokenType
  <2>3. tokens' \in [Tokens -> TokenRow]
    BY <1>2, <2>2 DEF SaveUser, TypeOK
  <2>. QED
    BY <1>2, <2>1, <2>3, EndType DEF SaveUser, TypeOK
<1>3. CASE VerifyEmail(c)
  <2>1. ASSUME NEW row \in UserRow
        PROVE  [row EXCEPT !.status = "ACTIVE"] \in UserRow
    BY DEF UserRow
  <2>2. users' = [users EXCEPT ![req[c].user] =
                    [users[req[c].user] EXCEPT !.status = "ACTIVE"]]
    BY <1>3 DEF VerifyEmail
  <2>3. users' \in [Users -> UserRow]
    BY <2>1, <2>2 DEF TypeOK
  <2>. QED
    BY <1>3, <2>3, RedeemType DEF VerifyEmail, TypeOK
<1>4. CASE ResetPassword(c)
  <2>1. users' \in [Users -> UserRow]
    BY <1>1, <1>4, SetPasswordType DEF ResetPassword
  <2>. QED
    BY <1>4, <2>1, RedeemType DEF ResetPassword, TypeOK
<1>5. CASE FindUnused(c) \/ RevokeUnused(c)
  <2>1. Unused(req[c].user) \subseteq Tokens /\ StillUnused(c) \subseteq Tokens
    BY <1>1 DEF Unused, StillUnused
  <2>2. PICK step \in {"revoke", "reissue"}, rows \in SUBSET Tokens :
          req' = [req EXCEPT ![c].at = step, ![c].rows = rows]
    BY <1>5, <2>1 DEF FindUnused, RevokeUnused
  <2>3. ASSUME NEW q \in Request
        PROVE  [q EXCEPT !.at = step, !.rows = rows] \in Request
    BY DEF Request, Step
  <2>4. req' = [req EXCEPT ![c] = [req[c] EXCEPT !.at = step, !.rows = rows]]
    BY <2>2 DEF TypeOK
  <2>5. req' \in [Clients -> Request]
    BY <2>3, <2>4 DEF TypeOK
  <2>. QED
    BY <1>5, <2>5 DEF FindUnused, RevokeUnused, TypeOK
<1>6. CASE ReissueToken(c)
  <2>1. NewToken("PASSWORD_RESET", req[c].user) \in TokenRow
    BY <1>1 DEF NewToken, TokenRow, TokenType
  <2>2. ASSUME NEW t \in Tokens
        PROVE  [tokens[t] EXCEPT !.used = @ \/ t \in req[c].rows] \in TokenRow
    <3>1. tokens[t] \in TokenRow /\ (t \in req[c].rows) \in BOOLEAN
      BY DEF TypeOK
    <3>. QED
      BY <3>1, MarkType
  <2>3. tokens' \in [Tokens -> TokenRow]
    BY <1>6, <2>1, <2>2 DEF ReissueToken
  <2>. QED
    BY <1>1, <1>6, <2>3, EndType DEF ReissueToken, TypeOK
<1>7. CASE IssueAccessToken(c)
  <2>1. [user |-> req[c].user, version |-> VersionSeen(c),
         password |-> req[c].password] \in Session
    BY <1>1 DEF VersionSeen, Session, UserRow
  <2>2. sessions' \in [Sessions -> Session]
    BY <1>7, <2>1 DEF IssueAccessToken, TypeOK
  <2>. QED
    BY <1>7, <2>2, EndType DEF IssueAccessToken, TypeOK
<1>8. CASE Authenticate(c)
  <2>1. req' \in [Clients -> Request]
    <3>1. CASE End(c)
      BY <3>1, EndType
    <3>2. CASE req' = [req EXCEPT ![c].at = "admitted"]
      BY <3>2 DEF TypeOK, Request, Step
    <3>. QED
      BY <1>8, <3>1, <3>2 DEF Authenticate
  <2>. QED
    BY <1>8, <2>1 DEF Authenticate, TypeOK
<1>9. CASE Logout(c)
  <2>1. req[c].session \in Sessions
    BY <1>9 DEF Logout, At, HasSession
  <2>. QED
    BY <1>9, <2>1, EndType DEF Logout, BlacklistToken, TypeOK
<1>10. CASE ChangePassword(c)
  <2>1. PICK p \in Passwords :
          req' = [req EXCEPT ![c].at = "change", ![c].password = p]
    BY <1>10 DEF ChangePassword
  <2>2. req' \in [Clients -> Request]
    BY <2>1 DEF TypeOK, Request, Step
  <2>. QED
    BY <1>10, <2>2 DEF ChangePassword, TypeOK
<1>11. CASE UpdatePassword(c)
  <2>1. users' \in [Users -> UserRow]
    BY <1>1, <1>11, SetPasswordType DEF UpdatePassword
  <2>. QED
    BY <1>11, <2>1, EndType DEF UpdatePassword, TypeOK
<1>12. CASE Abort(c)
  BY <1>12, EndType DEF Abort, TypeOK
<1>. QED
  BY <1>2, <1>3, <1>4, <1>5, <1>6, <1>7, <1>8, <1>9, <1>10, <1>11, <1>12

LEMMA TypesNext ==
  ASSUME TypeOK, HasSession, [Next]_vars
  PROVE  TypeOK'
<1>1. ASSUME UpdateUserStatus
      PROVE  TypeOK'
  <2>1. PICK u \in Users : Deactivate(u) \/ Reactivate(u)
    BY <1>1 DEF UpdateUserStatus
  <2>2. users[u] \in UserRow
    BY DEF TypeOK
  <2>3. users' \in [Users -> UserRow]
    <3>1. CASE Deactivate(u)
      BY <2>2, <3>1 DEF Deactivate, TypeOK, UserRow
    <3>2. CASE Reactivate(u)
      BY <2>2, <3>2 DEF Reactivate, TypeOK, UserRow
    <3>. QED
      BY <2>1, <3>1, <3>2
  <2>. QED
    BY <1>1, <2>3 DEF UpdateUserStatus, TypeOK
<1>2. ASSUME NEW t \in Tokens, Expire(t) \/ MailSent(t)
      PROVE  TypeOK'
  <2>1. tokens[t] \in TokenRow
    BY DEF TypeOK
  <2>2. /\ [tokens[t] EXCEPT !.expired = TRUE] \in TokenRow
        /\ [tokens[t] EXCEPT !.mail = "SENT"] \in TokenRow
    BY <2>1 DEF TokenRow
  <2>3. tokens' \in [Tokens -> TokenRow]
    BY <1>2, <2>2 DEF Expire, MailSent, TypeOK
  <2>. QED
    BY <1>2, <2>3 DEF Expire, MailSent, TypeOK
<1>3. ASSUME UNCHANGED vars
      PROVE  TypeOK'
  BY <1>3 DEF vars, TypeOK
<1>. QED
  BY <1>1, <1>2, <1>3, BeginTypes, ClientTypes DEF Next

-----------------------------------------------------------------------------
(* What happens to the row of a user who exists: its version does not go   *)
(* back, and as long as it stays, so do the password and an ACTIVE status. *)
Kept(u) ==
  /\ users'[u].status # "ABSENT"
  /\ users[u].version <= users'[u].version
  /\ users'[u].version = users[u].version =>
       /\ users'[u].password = users[u].password
       /\ users[u].status = "ACTIVE" => users'[u].status = "ACTIVE"

LEMMA SetPasswordKeeps ==
  ASSUME TypeOK, NEW v, NEW p, SetPassword(v, p),
         NEW u \in Users, users[u].status # "ABSENT"
  PROVE  Kept(u)
<1>1. users[u] \in UserRow /\ users[u].version \in Nat
  BY DEF TypeOK, UserRow
<1>2. CASE u = v
  BY <1>1, <1>2 DEF SetPassword, Kept, TypeOK, UserRow
<1>3. CASE u # v
  <2>1. users'[u] = users[u]
    BY <1>3 DEF SetPassword, TypeOK
  <2>. QED
    BY <1>1, <2>1 DEF Kept
<1>. QED
  BY <1>2, <1>3

LEMMA RowsKept ==
  ASSUME TypeOK, RegistersTrue, [Next]_vars,
         NEW u \in Users, users[u].status # "ABSENT"
  PROVE  Kept(u)
<1>1. users[u] \in UserRow /\ users[u].version \in Nat
  BY DEF TypeOK, UserRow
<1>2. ASSUME users'[u] = users[u]
      PROVE  Kept(u)
  BY <1>1, <1>2 DEF Kept
<1>3. ASSUME NEW c \in Clients, SaveUser(c)
      PROVE  Kept(u)
  <2>1. req[c].user # u
    BY <1>3 DEF SaveUser, RegistersTrue
  <2>. QED
    BY <1>2, <1>3, <2>1 DEF SaveUser, TypeOK
<1>4. ASSUME NEW c \in Clients, VerifyEmail(c)
      PROVE  Kept(u)
  <2>1. CASE req[c].user = u
    BY <1>1, <1>4, <2>1 DEF VerifyEmail, Kept, TypeOK, UserRow
  <2>2. CASE req[c].user # u
    BY <1>2, <1>4, <2>2 DEF VerifyEmail, TypeOK
  <2>. QED
    BY <2>1, <2>2
<1>5. ASSUME NEW c \in Clients, ResetPassword(c) \/ UpdatePassword(c)
      PROVE  Kept(u)
  BY <1>5, SetPasswordKeeps DEF ResetPassword, UpdatePassword
<1>6. ASSUME UpdateUserStatus
      PROVE  Kept(u)
  <2>1. PICK v \in Users : Deactivate(v) \/ Reactivate(v)
    BY <1>6 DEF UpdateUserStatus
  <2>2. CASE v = u
    <3>1. CASE Deactivate(v)
      BY <1>1, <2>2, <3>1 DEF Deactivate, Kept, TypeOK, UserRow
    <3>2. CASE Reactivate(v)
      BY <1>1, <2>2, <3>2 DEF Reactivate, Kept, TypeOK, UserRow
    <3>. QED
      BY <2>1, <3>1, <3>2
  <2>3. CASE v # u
    BY <1>2, <2>1, <2>3 DEF Deactivate, Reactivate, TypeOK
  <2>. QED
    BY <2>2, <2>3
<1>7. ASSUME UNCHANGED users
      PROVE  Kept(u)
  BY <1>2, <1>7
<1>. QED
  BY <1>3, <1>4, <1>5, <1>6, <1>7
  DEF Next, vars, Register, ConsumeAuthToken, ForgotPassword, FindUnused,
      RevokeUnused, ReissueToken, Login, IssueAccessToken, IsTokenBlacklisted,
      Authenticate, Logout, ChangePassword, Abort, Expire, MailSent

(* How the request of a client goes on.                                    *)
LEMMA RequestSteps ==
  ASSUME TypeOK, [Next]_vars, NEW c \in Clients
  PROVE  \/ req'[c] = req[c]
         \/ req'[c].at = "idle"
         \/ Register(c) \/ ConsumeAuthToken(c) \/ ForgotPassword(c)
         \/ FindUnused(c) \/ RevokeUnused(c) \/ Login(c)
         \/ IsTokenBlacklisted(c) \/ Authenticate(c) \/ ChangePassword(c)
<1>1. ASSUME NEW d \in Clients, End(d)
      PROVE  req'[c] = req[c] \/ req'[c].at = "idle"
  BY <1>1 DEF End, Idle, TypeOK
<1>2. ASSUME NEW d \in Clients,
             \/ SaveUser(d) \/ VerifyEmail(d) \/ ResetPassword(d)
             \/ ReissueToken(d) \/ IssueAccessToken(d)
             \/ Logout(d) \/ UpdatePassword(d) \/ Abort(d)
      PROVE  req'[c] = req[c] \/ req'[c].at = "idle"
  BY <1>1, <1>2
  DEF SaveUser, VerifyEmail, ResetPassword, Redeem, ReissueToken,
      IssueAccessToken, Logout, UpdatePassword, Abort
<1>3. ASSUME NEW d \in Clients \ {c},
             \/ Register(d) \/ ConsumeAuthToken(d) \/ ForgotPassword(d)
             \/ FindUnused(d) \/ RevokeUnused(d) \/ Login(d)
             \/ IsTokenBlacklisted(d) \/ Authenticate(d) \/ ChangePassword(d)
      PROVE  req'[c] = req[c]
  <2>1. CASE Register(d)
    BY <2>1 DEF Register, TypeOK
  <2>2. CASE ConsumeAuthToken(d)
    BY <2>2 DEF ConsumeAuthToken, TypeOK
  <2>3. CASE ForgotPassword(d)
    BY <2>3 DEF ForgotPassword, TypeOK
  <2>4. CASE FindUnused(d) \/ RevokeUnused(d)
    BY <2>4 DEF FindUnused, RevokeUnused, TypeOK
  <2>5. CASE Login(d)
    BY <2>5 DEF Login, TypeOK
  <2>6. CASE IsTokenBlacklisted(d)
    BY <2>6 DEF IsTokenBlacklisted, TypeOK
  <2>7. CASE Authenticate(d)
    BY <2>7 DEF Authenticate, End, TypeOK
  <2>8. CASE ChangePassword(d)
    BY <2>8 DEF ChangePassword, TypeOK
  <2>. QED
    BY <1>3, <2>1, <2>2, <2>3, <2>4, <2>5, <2>6, <2>7, <2>8
<1>4. CASE UNCHANGED req
  BY <1>4
<1>. QED
  BY <1>2, <1>3, <1>4 DEF Next, vars, UpdateUserStatus, Expire, MailSent

(* Where the request of a client is after each of its steps.               *)
LEMMA StepsTo ==
  ASSUME TypeOK, NEW c \in Clients
  PROVE  /\ Register(c) => req'[c].at = "register"
         /\ ConsumeAuthToken(c) => req'[c].at = "redeem"
         /\ ForgotPassword(c) => req'[c].at = "forgot"
         /\ FindUnused(c) => req'[c].at = "revoke"
         /\ RevokeUnused(c) => req'[c].at = "reissue"
         /\ Login(c) => req'[c].at = "login"
         /\ IsTokenBlacklisted(c) => req'[c].at = "authenticate"
         /\ Authenticate(c) => \/ req'[c].at = "idle"
                               \/ /\ At(c, "authenticate")
                                  /\ req'[c].at = "admitted"
                                  /\ req'[c].session = req[c].session
         /\ ChangePassword(c) => /\ At(c, "admitted") /\ req'[c].at = "change"
                                 /\ req'[c].session = req[c].session
<1>. req \in [Clients -> Request] /\ req[c] \in Request
  BY DEF TypeOK
<1>1. Register(c) => req'[c].at = "register"
  BY DEF Register, Idle
<1>2. ConsumeAuthToken(c) => req'[c].at = "redeem"
  BY DEF ConsumeAuthToken, Idle
<1>3. ForgotPassword(c) => req'[c].at = "forgot"
  BY DEF ForgotPassword, Idle
<1>4. FindUnused(c) => req'[c].at = "revoke"
  BY DEF FindUnused, Request
<1>5. RevokeUnused(c) => req'[c].at = "reissue"
  BY DEF RevokeUnused, Request
<1>6. Login(c) => req'[c].at = "login"
  BY DEF Login, Idle
<1>7. IsTokenBlacklisted(c) => req'[c].at = "authenticate"
  BY DEF IsTokenBlacklisted, Idle
<1>8. Authenticate(c) => \/ req'[c].at = "idle"
                         \/ /\ At(c, "authenticate")
                            /\ req'[c].at = "admitted"
                            /\ req'[c].session = req[c].session
  BY DEF Authenticate, End, Idle, Request
<1>9. ChangePassword(c) => /\ At(c, "admitted") /\ req'[c].at = "change"
                           /\ req'[c].session = req[c].session
  BY DEF ChangePassword, Request
<1>. QED
  BY <1>1, <1>2, <1>3, <1>4, <1>5, <1>6, <1>7, <1>8, <1>9

LEMMA AbsentStays ==
  ASSUME TypeOK, [Next]_vars, NEW u \in Users, users[u].status = "ABSENT",
         \A c \in Clients : SaveUser(c) => req[c].user # u
  PROVE  users'[u].status = "ABSENT"
<1>1. ASSUME NEW c \in Clients, SaveUser(c)
      PROVE  users'[u].status = "ABSENT"
  BY <1>1 DEF SaveUser, TypeOK
<1>2. ASSUME NEW c \in Clients, VerifyEmail(c)
      PROVE  users'[u].status = "ABSENT"
  BY <1>2 DEF VerifyEmail, TypeOK
<1>3. ASSUME NEW c \in Clients, ResetPassword(c) \/ UpdatePassword(c)
      PROVE  users'[u].status = "ABSENT"
  BY <1>3 DEF ResetPassword, UpdatePassword, SetPassword, TypeOK, UserRow
<1>4. ASSUME UpdateUserStatus
      PROVE  users'[u].status = "ABSENT"
  BY <1>4 DEF UpdateUserStatus, Deactivate, Reactivate, TypeOK, UserRow
<1>5. ASSUME UNCHANGED users
      PROVE  users'[u].status = "ABSENT"
  BY <1>5
<1>. QED
  BY <1>1, <1>2, <1>3, <1>4, <1>5
  DEF Next, vars, Register, ConsumeAuthToken, ForgotPassword, FindUnused,
      RevokeUnused, ReissueToken, Login, IssueAccessToken, IsTokenBlacklisted,
      Authenticate, Logout, ChangePassword, Abort, Expire, MailSent

LEMMA SessionInvInit == Init => SessionInv
<1>. SUFFICES ASSUME Init PROVE SessionInv
  OBVIOUS
<1>1. TypeOK
  BY IdleType DEF Init, TypeOK, NoToken, TokenRow, TokenType, NoSession, Session
<1>2. HasSession /\ LoginsTrue /\ RegistersTrue
  BY DEF Init, HasSession, LoginsTrue, RegistersTrue, At, Idle
<1>3. SessionsTrue
  BY DEF Init, SessionsTrue
<1>. QED
  BY <1>1, <1>2, <1>3 DEF SessionInv

LEMMA SessionInvNext == SessionInv /\ [Next]_vars => SessionInv'
<1>. SUFFICES ASSUME SessionInv, [Next]_vars PROVE SessionInv'
  OBVIOUS
<1>. TypeOK /\ HasSession /\ SessionsTrue /\ LoginsTrue /\ RegistersTrue
  BY DEF SessionInv
<1>1. TypeOK'
  BY TypesNext
<1>2. \A u \in Users :
        /\ users[u].version \in Nat /\ users'[u].version \in Nat
        /\ users[u].status # "ABSENT" => Kept(u)
  <2>1. \A u \in Users : users[u].version \in Nat /\ users'[u].version \in Nat
    BY <1>1 DEF TypeOK, UserRow
  <2>. QED
    BY <2>1, RowsKept
<1>3. HasSession'
  <2>1. ASSUME NEW c \in Clients,
               req'[c].at \in {"authenticate", "admitted", "change"}
        PROVE  req'[c].session \in Sessions
    <3>1. CASE req'[c] = req[c]
      BY <2>1, <3>1 DEF HasSession
    <3>2. CASE IsTokenBlacklisted(c)
      <4>1. PICK s \in Sessions :
              req' = [req EXCEPT ![c] =
                        [Idle EXCEPT !.at = "authenticate",
                                     !.user = sessions[s].user, !.session = s]]
        BY <3>2 DEF IsTokenBlacklisted
      <4>. QED
        BY <4>1 DEF TypeOK, Idle
    <3>3. CASE Authenticate(c) \/ ChangePassword(c)
      BY <2>1, <3>3, StepsTo DEF At, HasSession
    <3>. QED
      BY <2>1, <3>1, <3>2, <3>3, RequestSteps, StepsTo
  <2>. QED
    BY <2>1 DEF HasSession
<1>4. SessionsTrue'
  <2>1. ASSUME NEW s \in Sessions, sessions'[s] = sessions[s], sessions[s] # NoSession
        PROVE  LET u == sessions'[s].user
               IN /\ u \in Users /\ users'[u].status # "ABSENT"
                  /\ sessions'[s].version <= users'[u].version
                  /\ sessions'[s].version = users'[u].version =>
                       /\ users'[u].status = "ACTIVE"
                       /\ users'[u].password = sessions'[s].password
    <3>. DEFINE u == sessions[s].user
    <3>1. /\ u \in Users /\ users[u].status # "ABSENT"
          /\ sessions[s].version <= users[u].version
          /\ sessions[s].version = users[u].version =>
               /\ users[u].status = "ACTIVE"
               /\ users[u].password = sessions[s].password
      BY <2>1 DEF SessionsTrue
    <3>2. Kept(u)
      BY <1>2, <3>1
    <3>3. sessions[s].version \in Nat
      BY DEF TypeOK, Session
    <3>. QED
      BY <1>2, <2>1, <3>1, <3>2, <3>3 DEF Kept
  <2>2. ASSUME NEW c \in Clients, IssueAccessToken(c),
               NEW s \in Sessions, sessions'[s] # sessions[s]
        PROVE  LET u == sessions'[s].user
               IN /\ u \in Users /\ users'[u].status # "ABSENT"
                  /\ sessions'[s].version <= users'[u].version
                  /\ sessions'[s].version = users'[u].version =>
                       /\ users'[u].status = "ACTIVE"
                       /\ users'[u].password = sessions'[s].password
    <3>1. /\ sessions'[s] = [user |-> req[c].user, version |-> req[c].seen.version,
                             password |-> req[c].password]
          /\ At(c, "login") /\ MayLogIn(c) /\ UNCHANGED users
      BY <2>2 DEF IssueAccessToken, VersionSeen, TypeOK
    <3>. QED
      BY <3>1 DEF LoginsTrue, MayLogIn
  <2>3. \/ UNCHANGED sessions
        \/ \E c \in Clients : IssueAccessToken(c)
    BY DEF Next, vars, Register, SaveUser, ConsumeAuthToken, VerifyEmail,
           ResetPassword, Redeem, ForgotPassword, FindUnused, RevokeUnused,
           ReissueToken, Login, IsTokenBlacklisted, Authenticate, Logout,
           ChangePassword, UpdatePassword, Abort, UpdateUserStatus, Expire,
           MailSent
  <2>. QED
    BY <2>1, <2>2, <2>3 DEF SessionsTrue
<1>5. LoginsTrue'
  <2>1. ASSUME NEW c \in Clients, req'[c].at = "login"
        PROVE  LET u == req'[c].user
               IN /\ u \in Users /\ users'[u].status # "ABSENT"
                  /\ req'[c].seen.version <= users'[u].version
                  /\ req'[c].seen.version = users'[u].version =>
                       /\ req'[c].seen.status = "ACTIVE" =>
                            users'[u].status = "ACTIVE"
                       /\ users'[u].password = req'[c].seen.password
    <3>1. CASE req'[c] = req[c]
      <4>. DEFINE u == req[c].user
      <4>1. /\ u \in Users /\ users[u].status # "ABSENT"
            /\ req[c].seen.version <= users[u].version
            /\ req[c].seen.version = users[u].version =>
                 /\ req[c].seen.status = "ACTIVE" => users[u].status = "ACTIVE"
                 /\ users[u].password = req[c].seen.password
        BY <2>1, <3>1 DEF LoginsTrue, At
      <4>2. Kept(u)
        BY <1>2, <4>1
      <4>3. req[c].seen.version \in Nat
        BY DEF TypeOK, Request, UserRow
      <4>. QED
        BY <1>2, <3>1, <4>1, <4>2, <4>3 DEF Kept
    <3>2. CASE Login(c)
      <4>1. PICK u \in Users :
              /\ users[u].status # "ABSENT" /\ UNCHANGED users
              /\ req'[c].user = u /\ req'[c].seen = users[u]
        BY <3>2 DEF Login, TypeOK, Idle
      <4>. QED
        BY <1>2, <4>1
    <3>. QED
      BY <2>1, <3>1, <3>2, RequestSteps, StepsTo
  <2>. QED
    BY <2>1 DEF LoginsTrue, At
<1>6. RegistersTrue'
  <2>1. ASSUME NEW c \in Clients, req'[c].at = "register"
        PROVE  req'[c] = req[c] \/ Register(c)
    BY <2>1, RequestSteps, StepsTo
  <2>2. ASSUME NEW c \in Clients, Register(c)
        PROVE  /\ UNCHANGED users
               /\ \A d \in Clients \ {c} : req'[d] = req[d]
               /\ req'[c].user \in Users /\ users[req'[c].user].status = "ABSENT"
               /\ \A d \in Clients : At(d, "register") => req[d].user # req'[c].user
               /\ ~At(c, "register")
    BY <2>2 DEF Register, At, TypeOK, Idle
  <2>3. ASSUME NEW c \in Clients, req'[c].at = "register"
        PROVE  /\ req'[c].user \in Users /\ users'[req'[c].user].status = "ABSENT"
               /\ \A d \in Clients \ {c} :
                    req'[d].at = "register" => req'[d].user # req'[c].user
    <3>1. CASE Register(c)
      BY <2>2, <3>1 DEF At
    <3>2. CASE req'[c] = req[c]
      <4>1. \A d \in Clients \ {c} :
              req'[d].at = "register" => req'[d].user # req'[c].user
        BY <2>1, <2>2, <2>3, <3>2 DEF RegistersTrue, At
      <4>2. /\ req[c].user \in Users /\ users[req[c].user].status = "ABSENT"
            /\ \A d \in Clients \ {c} : At(d, "register") => req[d].user # req[c].user
        BY <2>3, <3>2 DEF RegistersTrue, At
      <4>3. ~SaveUser(c)
        BY <2>3 DEF SaveUser, End, Idle, TypeOK
      <4>4. \A d \in Clients : SaveUser(d) => req[d].user # req[c].user
        BY <4>2, <4>3 DEF SaveUser
      <4>. QED
        BY <3>2, <4>1, <4>2, <4>4, AbsentStays
    <3>. QED
      BY <2>1, <2>3, <3>1, <3>2
  <2>. QED
    BY <2>3 DEF RegistersTrue, At
<1>. QED
  BY <1>1, <1>3, <1>4, <1>5, <1>6 DEF SessionInv

THEOREM SessionInvariance == Spec => []SessionInv
BY SessionInvInit, SessionInvNext, PTL DEF Spec

(* The rows of the tables and what a request holds have their types.       *)
THEOREM AccountsTyped == Spec => []TypeOK
<1>1. SessionInv => TypeOK
  BY DEF SessionInv
<1>. QED
  BY <1>1, SessionInvariance, PTL

(* A request is admitted only with an access token that was given for the  *)
(* user's present password, however login, changePassword, resetPassword   *)
(* and updateUserStatus overlap.                                           *)
THEOREM CurrentPasswordOnly == Spec => []OnlyCurrentPassword
<1>1. SessionInv => OnlyCurrentPassword
  BY DEF SessionInv, SessionsTrue, OnlyCurrentPassword, Current
<1>. QED
  BY <1>1, SessionInvariance, PTL

(* An access token that has been refused stays refused: not even a user    *)
(* who is activated again gets one of before back.                         *)
LEMMA RefusedStep ==
  ASSUME SessionInv, [Next]_vars, NEW s \in Sessions,
         sessions[s] # NoSession, Refused(s)
  PROVE  Refused(s)'
<1>. TypeOK /\ SessionsTrue /\ RegistersTrue /\ TypeOK'
  BY TypesNext DEF SessionInv
<1>1. blacklist \subseteq blacklist'
  BY DEF Next, vars, Register, SaveUser, ConsumeAuthToken, VerifyEmail,
         ResetPassword, Redeem, ForgotPassword, FindUnused, RevokeUnused,
         ReissueToken, Login, IssueAccessToken, IsTokenBlacklisted,
         Authenticate, Logout, BlacklistToken, ChangePassword, UpdatePassword,
         Abort, UpdateUserStatus, Expire, MailSent
<1>2. sessions'[s] = sessions[s]
  <2>1. ASSUME NEW c \in Clients, IssueAccessToken(c)
        PROVE  sessions'[s] = sessions[s]
    BY <2>1 DEF IssueAccessToken, TypeOK
  <2>. QED
    BY <2>1
    DEF Next, vars, Register, SaveUser, ConsumeAuthToken, VerifyEmail,
        ResetPassword, Redeem, ForgotPassword, FindUnused, RevokeUnused,
        ReissueToken, Login, IsTokenBlacklisted, Authenticate, Logout,
        ChangePassword, UpdatePassword, Abort, UpdateUserStatus, Expire,
        MailSent
<1>3. CASE s \in blacklist
  BY <1>1, <1>3 DEF Refused
<1>4. CASE ~Current(s)
  <2>. DEFINE u == sessions[s].user
  <2>1. /\ u \in Users /\ users[u].status # "ABSENT"
        /\ sessions[s].version <= users[u].version
        /\ sessions[s].version # users[u].version
    BY <1>4 DEF SessionsTrue, Current
  <2>2. users[u].version <= users'[u].version
    BY <2>1, RowsKept DEF Kept
  <2>3. /\ users[u].version \in Nat /\ users'[u].version \in Nat
        /\ sessions[s].version \in Nat
    BY <2>1 DEF TypeOK, UserRow, Session
  <2>4. users'[u].version # sessions'[s].version
    BY <1>2, <2>1, <2>2, <2>3
  <2>. QED
    BY <1>2, <2>4 DEF Refused, Current
<1>. QED
  BY <1>3, <1>4 DEF Refused

THEOREM RefusalsFinal == Spec => RefusedForGood
<1>1. SessionInv /\ [Next]_vars =>
        [\A s \in Sessions :
           sessions[s] # NoSession /\ Refused(s) => Refused(s)']_vars
  BY RefusedStep
<1>. QED
  BY <1>1, SessionInvariance, PTL DEF Spec, RefusedForGood

-----------------------------------------------------------------------------
(* Tokens.  What a step does to the rows of the table, and who holds them. *)
SpentTrue(t) ==
  /\ redeemed[t] + (IF t \in revoked THEN 1 ELSE 0) <= 1
  /\ ~tokens[t].used => redeemed[t] = 0 /\ t \notin revoked
  /\ Absent(t) => ~tokens[t].used

LEMMA SpentParts ==
  /\ SpentOnce /\ TokensTrue <=> \A t \in Tokens : SpentTrue(t)
  /\ (SpentOnce /\ TokensTrue)' <=> \A t \in Tokens : SpentTrue(t)'
BY DEF SpentOnce, TokensTrue, SpentTrue

LEMMA RedeemSpends ==
  ASSUME TypeOK, TypeOK', SpentOnce, TokensTrue, HoldersTrue,
         NEW c \in Clients, At(c, "redeem"), Redeem(c)
  PROVE  SpentOnce' /\ TokensTrue' /\ HoldersTrue'
<1>1. \A t \in req[c].rows : ~tokens[t].used /\ ~Absent(t)
  BY DEF HoldersTrue, Holds, At
<1>2. req[c].rows \subseteq Tokens
  BY DEF TypeOK, Request
<1>3. ASSUME NEW t \in Tokens
      PROVE  SpentTrue(t)'
  <2>1. SpentTrue(t) /\ redeemed[t] \in Nat
    BY SpentParts DEF TypeOK
  <2>2. /\ redeemed'[t] = redeemed[t] + (IF t \in req[c].rows THEN 1 ELSE 0)
        /\ revoked' = revoked
    BY DEF Redeem
  <2>3. tokens[t] \in TokenRow
    BY DEF TypeOK
  <2>4. /\ tokens'[t].used <=> tokens[t].used \/ t \in req[c].rows
        /\ tokens'[t].type = tokens[t].type
    BY <2>3 DEF Redeem, TokenRow
  <2>5. CASE t \in req[c].rows
    BY <1>1, <2>1, <2>2, <2>4, <2>5 DEF SpentTrue, Absent
  <2>6. CASE t \notin req[c].rows
    BY <2>1, <2>2, <2>4, <2>6 DEF SpentTrue, Absent
  <2>. QED
    BY <2>5, <2>6
<1>4. HoldersTrue'
  <2>1. /\ ~Holds(c)'
        /\ \A d \in Clients \ {c} : req'[d] = req[d]
    BY DEF Redeem, End, Idle, Holds, TypeOK
  <2>2. ASSUME NEW d \in Clients \ {c}, Holds(d), NEW t \in req[d].rows
        PROVE  ~tokens'[t].used /\ ~Absent(t)'
    <3>1. t \in Tokens /\ t \notin req[c].rows /\ ~tokens[t].used /\ ~Absent(t)
      BY <2>2 DEF HoldersTrue, Holds, At, TypeOK, Request
    <3>2. tokens[t] \in TokenRow
      BY <3>1 DEF TypeOK
    <3>. QED
      BY <3>1, <3>2 DEF Redeem, TokenRow, Absent
  <2>. QED
    BY <2>1, <2>2 DEF HoldersTrue, Holds
<1>. QED
  BY <1>3, <1>4, SpentParts

LEMMA SpentInvInit == Init => SpentInv
<1>. SUFFICES ASSUME Init PROVE SpentInv
  OBVIOUS
<1>1. TypeOK
  BY SessionInvInit DEF SessionInv
<1>2. SpentOnce /\ TokensTrue
  BY DEF Init, SpentOnce, TokensTrue, NoToken
<1>3. HoldersTrue
  BY DEF Init, HoldersTrue, Holds, Idle
<1>. QED
  BY <1>1, <1>2, <1>3 DEF SpentInv

LEMMA SpentInvNext == SessionInv /\ SpentInv /\ [Next]_vars => SpentInv'
<1>. SUFFICES ASSUME SessionInv, SpentInv, [Next]_vars PROVE SpentInv'
  OBVIOUS
<1>. TypeOK /\ SpentOnce /\ TokensTrue /\ HoldersTrue /\ TypeOK'
  BY TypesNext DEF SessionInv, SpentInv
<1>. SUFFICES SpentOnce' /\ TokensTrue' /\ HoldersTrue'
  BY DEF SpentInv
(* A step of a request that writes no token, and what it holds afterwards. *)
<1>1. ASSUME NEW c \in Clients,
             UNCHANGED <<tokens, redeemed, revoked>>,
             \A d \in Clients \ {c} : req'[d] = req[d],
             \/ ~Holds(c)'
             \/ req'[c] = req[c]
             \/ \A t \in req'[c].rows :
                  t \in Tokens /\ ~tokens[t].used /\ ~Absent(t) /\ ~Held(t)
      PROVE  SpentOnce' /\ TokensTrue' /\ HoldersTrue'
  <2>1. SpentOnce' /\ TokensTrue'
    BY <1>1 DEF SpentOnce, TokensTrue, Absent
  <2>2. HoldersTrue'
    <3>1. CASE ~Holds(c)'
      BY <1>1, <3>1 DEF HoldersTrue, Holds, Absent
    <3>2. CASE req'[c] = req[c]
      <4>1. \A d \in Clients : req'[d] = req[d]
        BY <1>1, <3>2
      <4>. QED
        BY <1>1, <4>1 DEF HoldersTrue, Holds, Absent
    <3>3. CASE \A t \in req'[c].rows :
                 t \in Tokens /\ ~tokens[t].used /\ ~Absent(t) /\ ~Held(t)
      <4>1. ASSUME NEW d \in Clients \ {c}, Holds(d)
            PROVE  req'[c].rows \cap req[d].rows = {}
        BY <3>3, <4>1 DEF Held, Holds
      <4>2. ASSUME NEW d \in Clients \ {c}
            PROVE  Holds(d)' = Holds(d) /\ req'[d].rows = req[d].rows
        BY <1>1 DEF Holds
      <4>3. ASSUME NEW d \in Clients \ {c}, Holds(d)
            PROVE  \A t \in req[d].rows : ~tokens'[t].used /\ ~Absent(t)'
        BY <1>1, <4>3 DEF HoldersTrue, Absent
      <4>4. \A t \in req'[c].rows : ~tokens'[t].used /\ ~Absent(t)'
        BY <1>1, <3>3 DEF Absent
      <4>5. ASSUME NEW d \in Clients \ {c}, NEW e \in Clients \ {c, d},
                   Holds(d), Holds(e)
            PROVE  req[d].rows \cap req[e].rows = {}
        BY <4>5 DEF HoldersTrue
      <4>. QED
        BY <4>1, <4>2, <4>3, <4>4, <4>5 DEF HoldersTrue
    <3>. QED
      BY <1>1, <3>1, <3>2, <3>3
  <2>. QED
    BY <2>1, <2>2
(* A new row is nobody's.                                                  *)
<1>2. ASSUME NEW c \in Clients, NEW new \in Tokens, Absent(new), ~Holds(c)',
             \A d \in Clients \ {c} : req'[d] = req[d],
             tokens'[new].type # None, ~tokens'[new].used,
             redeemed' = redeemed, NEW S \in SUBSET Tokens,
             revoked' = revoked \cup S,
             \A t \in S : ~tokens[t].used /\ ~Absent(t),
             \A d \in Clients \ {c} : Holds(d) => req[d].rows \cap S = {},
             \A t \in Tokens \ {new} :
               /\ tokens'[t].type = tokens[t].type
               /\ tokens'[t].used <=> tokens[t].used \/ t \in S
      PROVE  SpentOnce' /\ TokensTrue' /\ HoldersTrue'
  <2>1. ASSUME NEW t \in Tokens
        PROVE  SpentTrue(t)'
    <3>1. SpentTrue(t) /\ redeemed[t] \in Nat
      BY SpentParts DEF TypeOK
    <3>2. CASE t = new
      BY <1>2, <3>1, <3>2 DEF SpentTrue, Absent
    <3>3. CASE t # new /\ t \in S
      BY <1>2, <3>1, <3>3 DEF SpentTrue, Absent
    <3>4. CASE t # new /\ t \notin S
      BY <1>2, <3>1, <3>4 DEF SpentTrue, Absent
    <3>. QED
      BY <3>2, <3>3, <3>4
  <2>2. ASSUME NEW d \in Clients \ {c}, Holds(d), NEW t \in req[d].rows
        PROVE  ~tokens'[t].used /\ ~Absent(t)'
    <3>1. t \in Tokens /\ t \notin S /\ ~tokens[t].used /\ ~Absent(t)
      BY <1>2, <2>2 DEF HoldersTrue, TypeOK, Request
    <3>. QED
      BY <1>2, <3>1 DEF Absent
  <2>3. HoldersTrue'
    BY <1>2, <2>2 DEF HoldersTrue, Holds
  <2>. QED
    BY <2>1, <2>3, SpentParts
<1>3. ASSUME NEW c \in Clients, SaveUser(c)
      PROVE  SpentOnce' /\ TokensTrue' /\ HoldersTrue'
  <2>1. PICK new \in Tokens :
          /\ Absent(new)
          /\ tokens' = [tokens EXCEPT ![new] =
                          NewToken("EMAIL_VERIFICATION", req[c].user)]
    BY <1>3 DEF SaveUser
  <2>2. /\ tokens'[new].type # None /\ ~tokens'[new].used
        /\ \A t \in Tokens \ {new} : tokens'[t] = tokens[t]
    BY <2>1, TypeAssumption DEF NewToken, TypeOK
  <2>3. /\ ~Holds(c)' /\ \A d \in Clients \ {c} : req'[d] = req[d]
        /\ UNCHANGED <<redeemed, revoked>>
    BY <1>3 DEF SaveUser, End, Idle, Holds, TypeOK
  <2>. DEFINE S == {}
  <2>4. /\ revoked' = revoked \cup S /\ S \in SUBSET Tokens
        /\ \A t \in S : ~tokens[t].used /\ ~Absent(t)
        /\ \A d \in Clients \ {c} : Holds(d) => req[d].rows \cap S = {}
    BY <2>3
  <2>5. \A t \in Tokens \ {new} :
          /\ tokens'[t].type = tokens[t].type
          /\ tokens'[t].used <=> tokens[t].used \/ t \in S
    BY <2>2
  <2>. HIDE DEF S
  <2>. QED
    BY <1>2, <2>1, <2>2, <2>3, <2>4, <2>5
<1>4. ASSUME NEW c \in Clients, ReissueToken(c)
      PROVE  SpentOnce' /\ TokensTrue' /\ HoldersTrue'
  <2>. DEFINE S == req[c].rows
  <2>1. PICK new \in Tokens :
          /\ Absent(new)
          /\ tokens' = [t \in Tokens |->
               IF t = new THEN NewToken("PASSWORD_RESET", req[c].user)
               ELSE [tokens[t] EXCEPT !.used = @ \/ t \in S]]
    BY <1>4 DEF ReissueToken
  <2>2. tokens'[new].type # None /\ ~tokens'[new].used
    BY <2>1, TypeAssumption DEF NewToken
  <2>3. /\ ~Holds(c)' /\ \A d \in Clients \ {c} : req'[d] = req[d]
        /\ UNCHANGED redeemed /\ revoked' = revoked \cup S
    BY <1>4 DEF ReissueToken, End, Idle, Holds, TypeOK
  <2>4. /\ S \in SUBSET Tokens
        /\ \A t \in S : ~tokens[t].used /\ ~Absent(t)
        /\ \A d \in Clients \ {c} : Holds(d) => req[d].rows \cap S = {}
    BY <1>4 DEF ReissueToken, HoldersTrue, Holds, At, TypeOK, Request
  <2>5. ASSUME NEW t \in Tokens \ {new}
        PROVE  /\ tokens'[t].type = tokens[t].type
               /\ tokens'[t].used <=> tokens[t].used \/ t \in S
    <3>1. tokens[t] \in TokenRow
      BY DEF TypeOK
    <3>. QED
      BY <2>1, <3>1 DEF TokenRow
  <2>. HIDE DEF S
  <2>. QED
    BY <1>2, <2>1, <2>2, <2>3, <2>4, <2>5
<1>5. ASSUME NEW c \in Clients, VerifyEmail(c) \/ ResetPassword(c)
      PROVE  SpentOnce' /\ TokensTrue' /\ HoldersTrue'
  BY <1>5, RedeemSpends DEF VerifyEmail, ResetPassword, Redeeming
<1>6. ASSUME NEW c \in Clients,
             \/ IssueAccessToken(c) \/ Logout(c) \/ UpdatePassword(c) \/ Abort(c)
      PROVE  SpentOnce' /\ TokensTrue' /\ HoldersTrue'
  <2>1. /\ ~Holds(c)' /\ \A d \in Clients \ {c} : req'[d] = req[d]
        /\ UNCHANGED <<tokens, redeemed, revoked>>
    BY <1>6 DEF IssueAccessToken, Logout, UpdatePassword, Abort, End, Idle,
                Holds, TypeOK
  <2>. QED
    BY <1>1, <2>1
<1>7. ASSUME NEW c \in Clients,
             \/ Register(c) \/ ConsumeAuthToken(c) \/ ForgotPassword(c)
             \/ FindUnused(c) \/ RevokeUnused(c) \/ Login(c)
             \/ IsTokenBlacklisted(c) \/ Authenticate(c) \/ ChangePassword(c)
      PROVE  SpentOnce' /\ TokensTrue' /\ HoldersTrue'
  <2>1. \A d \in Clients \ {c} : req'[d] = req[d]
    <3>1. CASE Register(c) \/ ForgotPassword(c)
      BY <3>1 DEF Register, ForgotPassword, TypeOK
    <3>2. CASE ConsumeAuthToken(c)
      BY <3>2 DEF ConsumeAuthToken, TypeOK
    <3>3. CASE FindUnused(c) \/ RevokeUnused(c)
      BY <3>3 DEF FindUnused, RevokeUnused, TypeOK
    <3>4. CASE Login(c) \/ IsTokenBlacklisted(c)
      BY <3>4 DEF Login, IsTokenBlacklisted, TypeOK
    <3>5. CASE Authenticate(c) \/ ChangePassword(c)
      BY <3>5 DEF Authenticate, End, ChangePassword, TypeOK
    <3>. QED
      BY <1>7, <3>1, <3>2, <3>3, <3>4, <3>5
  <2>2. UNCHANGED <<tokens, redeemed, revoked>>
    BY <1>7 DEF Register, ConsumeAuthToken, ForgotPassword, FindUnused,
                RevokeUnused, Login, IsTokenBlacklisted, Authenticate,
                ChangePassword
  <2>3. CASE ConsumeAuthToken(c)
    <3>1. PICK t \in Tokens : Consumable(t) /\ req'[c].rows = {t}
      BY <2>3 DEF ConsumeAuthToken, Idle, TypeOK
    <3>. QED
      BY <1>1, <2>1, <2>2, <3>1 DEF Consumable
  <2>4. CASE RevokeUnused(c)
    <3>1. /\ \A t \in req[c].rows : ~Held(t)
          /\ req'[c].rows = req[c].rows \cap Unused(req[c].user)
      BY <2>4 DEF RevokeUnused, StillUnused, TypeOK, Request
    <3>2. \A t \in Unused(req[c].user) :
            t \in Tokens /\ ~tokens[t].used /\ ~Absent(t)
      BY TypeAssumption DEF Unused, Absent
    <3>. QED
      BY <1>1, <2>1, <2>2, <3>1, <3>2
  <2>5. CASE \/ Register(c) \/ ForgotPassword(c) \/ FindUnused(c) \/ Login(c)
             \/ IsTokenBlacklisted(c) \/ Authenticate(c) \/ ChangePassword(c)
    <3>1. ~Holds(c)'
      BY <2>5, StepsTo DEF Holds
    <3>. QED
      BY <1>1, <2>1, <2>2, <3>1
  <2>. QED
    BY <1>7, <2>3, <2>4, <2>5
<1>8. ASSUME NEW t \in Tokens, Expire(t) \/ MailSent(t)
      PROVE  SpentOnce' /\ TokensTrue' /\ HoldersTrue'
  <2>1. ASSUME NEW k \in Tokens
        PROVE  tokens'[k].used = tokens[k].used /\ tokens'[k].type = tokens[k].type
    <3>1. tokens[k] \in TokenRow
      BY DEF TypeOK
    <3>. QED
      BY <1>8, <3>1 DEF Expire, MailSent, TypeOK, TokenRow
  <2>2. UNCHANGED <<req, redeemed, revoked>>
    BY <1>8 DEF Expire, MailSent
  <2>3. SpentOnce' /\ TokensTrue'
    BY <2>1, <2>2 DEF SpentOnce, TokensTrue, Absent
  <2>4. \A c \in Clients : req[c].rows \subseteq Tokens
    BY DEF TypeOK, Request
  <2>5. HoldersTrue'
    BY <2>1, <2>2, <2>4 DEF HoldersTrue, Holds, Absent
  <2>. QED
    BY <2>3, <2>5
<1>9. ASSUME UNCHANGED <<tokens, req, redeemed, revoked>>
      PROVE  SpentOnce' /\ TokensTrue' /\ HoldersTrue'
  BY <1>9 DEF SpentOnce, TokensTrue, HoldersTrue, Holds, Absent
<1>. QED
  BY <1>3, <1>4, <1>5, <1>6, <1>7, <1>8, <1>9 DEF Next, vars, UpdateUserStatus

(* A mailed token has its effect at most once, and one that a later        *)
(* forgotPassword has replaced has none, however many requests redeem and  *)
(* replace at the same time (consumeAuthToken, revokeUnusedAuthTokens).    *)
THEOREM TokensSpentOnce == Spec => []SpentOnce
<1>1. SpentInv => SpentOnce
  BY DEF SpentInv
<1>. QED
  BY <1>1, SpentInvInit, SpentInvNext, SessionInvariance, PTL DEF Spec

-----------------------------------------------------------------------------
(* Verification.  A row keeps its type and its user.                       *)
LEMMA RowsStay ==
  ASSUME TypeOK, [Next]_vars, NEW t \in Tokens, ~Absent(t)
  PROVE  tokens'[t].type = tokens[t].type /\ tokens'[t].user = tokens[t].user
<1>. tokens[t] \in TokenRow
  BY DEF TypeOK
<1>1. ASSUME NEW c \in Clients, SaveUser(c)
      PROVE  tokens'[t].type = tokens[t].type /\ tokens'[t].user = tokens[t].user
  BY <1>1 DEF SaveUser, TypeOK
<1>2. ASSUME NEW c \in Clients, VerifyEmail(c) \/ ResetPassword(c)
      PROVE  tokens'[t].type = tokens[t].type /\ tokens'[t].user = tokens[t].user
  BY <1>2 DEF VerifyEmail, ResetPassword, Redeem, TokenRow
<1>3. ASSUME NEW c \in Clients, ReissueToken(c)
      PROVE  tokens'[t].type = tokens[t].type /\ tokens'[t].user = tokens[t].user
  BY <1>3 DEF ReissueToken, TokenRow
<1>4. ASSUME NEW k \in Tokens, Expire(k) \/ MailSent(k)
      PROVE  tokens'[t].type = tokens[t].type /\ tokens'[t].user = tokens[t].user
  BY <1>4 DEF Expire, MailSent, TypeOK, TokenRow
<1>5. CASE UNCHANGED tokens
  BY <1>5
<1>. QED
  BY <1>1, <1>2, <1>3, <1>4, <1>5
  DEF Next, vars, Register, ConsumeAuthToken, ForgotPassword, FindUnused,
      RevokeUnused, Login, IssueAccessToken, IsTokenBlacklisted, Authenticate,
      Logout, ChangePassword, UpdatePassword, Abort, UpdateUserStatus

(* Only register and verifyEmail make a user PENDING or end that.          *)
StatusKept(u) ==
  /\ users'[u].status = "PENDING" <=> users[u].status = "PENDING"
  /\ users'[u].status = "ABSENT" <=> users[u].status = "ABSENT"

LEMMA StatusesKept ==
  ASSUME TypeOK, [Next]_vars,
         \A c \in Clients : ~SaveUser(c) /\ ~VerifyEmail(c),
         NEW u \in Users
  PROVE  StatusKept(u)
<1>. users[u] \in UserRow
  BY DEF TypeOK
<1>1. ASSUME NEW c \in Clients, ResetPassword(c) \/ UpdatePassword(c)
      PROVE  StatusKept(u)
  BY <1>1 DEF ResetPassword, UpdatePassword, SetPassword, StatusKept, TypeOK, UserRow
<1>2. CASE UpdateUserStatus
  BY <1>2
  DEF UpdateUserStatus, Deactivate, Reactivate, StatusKept, TypeOK, UserRow
<1>3. CASE UNCHANGED users
  BY <1>3 DEF StatusKept
<1>. QED
  BY <1>1, <1>2, <1>3
  DEF Next, vars, Register, ConsumeAuthToken, ForgotPassword, FindUnused,
      RevokeUnused, ReissueToken, Login, IssueAccessToken, IsTokenBlacklisted,
      Authenticate, Logout, ChangePassword, Abort, Expire, MailSent

(* They alone write verification tokens, too: revokeUnusedAuthTokens and   *)
(* resetPassword touch the others.                                         *)
VerificationKept(t) ==
  /\ Verifies(t)' <=> Verifies(t)
  /\ Verifies(t) => /\ tokens'[t].user = tokens[t].user
                    /\ tokens'[t].used <=> tokens[t].used
                    /\ redeemed'[t] = redeemed[t]

LEMMA VerificationsKept ==
  ASSUME TypeOK, WritersTrue, [Next]_vars,
         \A c \in Clients : ~SaveUser(c) /\ ~VerifyEmail(c),
         NEW t \in Tokens
  PROVE  VerificationKept(t)
<1>. tokens[t] \in TokenRow /\ redeemed[t] \in Nat
  BY DEF TypeOK
<1>1. ASSUME NEW c \in Clients, ResetPassword(c)
      PROVE  VerificationKept(t)
  <2>1. /\ tokens'[t].type = tokens[t].type /\ tokens'[t].user = tokens[t].user
        /\ tokens'[t].used <=> tokens[t].used \/ t \in req[c].rows
    BY <1>1 DEF ResetPassword, Redeem, TokenRow
  <2>2. Verifies(t) => t \notin req[c].rows /\ redeemed'[t] = redeemed[t]
    BY <1>1 DEF ResetPassword, Redeem, Redeeming, Verifies
  <2>. QED
    BY <2>1, <2>2 DEF VerificationKept, Verifies
<1>2. ASSUME NEW c \in Clients, ReissueToken(c)
      PROVE  VerificationKept(t)
  <2>1. PICK new \in Tokens :
          /\ Absent(new)
          /\ tokens' = [k \in Tokens |->
               IF k = new THEN NewToken("PASSWORD_RESET", req[c].user)
               ELSE [tokens[k] EXCEPT !.used = @ \/ k \in req[c].rows]]
    BY <1>2 DEF ReissueToken
  <2>2. CASE t = new
    BY <2>1, <2>2, TypeAssumption DEF NewToken, VerificationKept, Verifies, Absent
  <2>3. CASE t # new
    <3>1. /\ tokens'[t].type = tokens[t].type /\ tokens'[t].user = tokens[t].user
          /\ tokens'[t].used <=> tokens[t].used \/ t \in req[c].rows
      BY <2>1, <2>3 DEF TokenRow
    <3>2. Verifies(t) => t \notin req[c].rows
      BY <1>2 DEF ReissueToken, WritersTrue
    <3>3. redeemed' = redeemed
      BY <1>2 DEF ReissueToken
    <3>. QED
      BY <3>1, <3>2, <3>3 DEF VerificationKept, Verifies
  <2>. QED
    BY <2>2, <2>3
<1>3. ASSUME NEW k \in Tokens, Expire(k) \/ MailSent(k)
      PROVE  VerificationKept(t)
  BY <1>3 DEF Expire, MailSent, TypeOK, TokenRow, VerificationKept, Verifies
<1>4. CASE UNCHANGED <<tokens, redeemed>>
  BY <1>4 DEF VerificationKept, Verifies
<1>. QED
  BY <1>1, <1>2, <1>3, <1>4
  DEF Next, vars, Register, ConsumeAuthToken, ForgotPassword, FindUnused,
      RevokeUnused, Login, IssueAccessToken, IsTokenBlacklisted, Authenticate,
      Logout, ChangePassword, UpdatePassword, Abort, UpdateUserStatus

LEMMA WritersNext ==
  ASSUME TypeOK, HoldersTrue, WritersTrue, [Next]_vars
  PROVE  WritersTrue'
<1>. SUFFICES ASSUME NEW c \in Clients
              PROVE  /\ At(c, "redeem")' =>
                          \E t \in Tokens :
                            req'[c].rows = {t} /\ req'[c].user = tokens'[t].user
                     /\ At(c, "reissue")' => \A t \in req'[c].rows : ~Verifies(t)'
  BY DEF WritersTrue
<1>1. CASE req'[c] = req[c]
  <2>1. ASSUME Holds(c), NEW t \in req[c].rows
        PROVE  tokens'[t].type = tokens[t].type /\ tokens'[t].user = tokens[t].user
    <3>1. t \in Tokens /\ ~Absent(t)
      BY <2>1 DEF HoldersTrue, TypeOK, Request
    <3>. QED
      BY <3>1, RowsStay
  <2>2. CASE At(c, "redeem")
    <3>1. PICK t \in Tokens : req[c].rows = {t} /\ req[c].user = tokens[t].user
      BY <2>2 DEF WritersTrue
    <3>2. tokens'[t].user = tokens[t].user
      BY <2>1, <2>2, <3>1 DEF Holds, At
    <3>. QED
      BY <1>1, <2>2, <3>1, <3>2 DEF At
  <2>3. CASE At(c, "reissue")
    <3>1. \A t \in req[c].rows : ~Verifies(t)
      BY <2>3 DEF WritersTrue
    <3>2. \A t \in req[c].rows : ~Verifies(t)'
      BY <2>1, <2>3, <3>1 DEF Holds, At, Verifies
    <3>. QED
      BY <1>1, <2>3, <3>2 DEF At
  <2>. QED
    BY <1>1, <2>2, <2>3 DEF At
<1>2. CASE ConsumeAuthToken(c)
  <2>1. PICK t \in Tokens : req'[c].rows = {t} /\ req'[c].user = tokens[t].user
    BY <1>2 DEF ConsumeAuthToken, Idle, TypeOK
  <2>2. tokens' = tokens /\ ~At(c, "reissue")'
    BY <1>2, StepsTo DEF ConsumeAuthToken, At
  <2>. QED
    BY <2>1, <2>2
<1>3. CASE RevokeUnused(c)
  <2>1. req'[c].rows \subseteq Unused(req[c].user) /\ tokens' = tokens
    BY <1>3 DEF RevokeUnused, StillUnused, TypeOK, Request
  <2>2. ~At(c, "redeem")'
    BY <1>3, StepsTo DEF At
  <2>. QED
    BY <2>1, <2>2 DEF Unused, Verifies
<1>4. CASE \/ req'[c].at = "idle"
           \/ Register(c) \/ ForgotPassword(c) \/ FindUnused(c) \/ Login(c)
           \/ IsTokenBlacklisted(c) \/ Authenticate(c) \/ ChangePassword(c)
  <2>. ~At(c, "redeem")' /\ ~At(c, "reissue")'
    BY <1>4, StepsTo DEF At
  <2>. QED
    OBVIOUS
<1>. QED
  BY <1>1, <1>2, <1>3, <1>4, RequestSteps

(* The user and the first token of it are written together.                *)
LEMMA SaveUserVerifies ==
  ASSUME TypeOK, RegistersTrue, PendingUnused, VerificationsTrue,
         NEW c \in Clients, SaveUser(c)
  PROVE  PendingUnused' /\ VerificationsTrue'
<1>. DEFINE u == req[c].user
<1>1. u \in Users /\ users[u].status = "ABSENT"
  BY DEF SaveUser, RegistersTrue
<1>2. PICK new \in Tokens :
        Absent(new) /\ tokens' = [tokens EXCEPT ![new] = NewToken("EMAIL_VERIFICATION", u)]
  BY DEF SaveUser
<1>3. users'[u].status = "PENDING" /\ \A v \in Users \ {u} : users'[v] = users[v]
  BY <1>1 DEF SaveUser, TypeOK
<1>4. /\ Verifies(new)' /\ tokens'[new].user = u /\ ~tokens'[new].used
      /\ \A t \in Tokens \ {new} : tokens'[t] = tokens[t]
  BY <1>2 DEF NewToken, TypeOK, Verifies
<1>5. ~Verifies(new)
  BY <1>2, TypeAssumption DEF Absent, Verifies
<1>6. \A t \in Tokens : Verifies(t) => tokens[t].user # u
  BY <1>1 DEF VerificationsTrue
<1>. HIDE DEF u
<1>7. VerificationsTrue'
  BY <1>1, <1>3, <1>4, <1>5, <1>6 DEF VerificationsTrue, Verifies
<1>8. ASSUME NEW v \in Users
      PROVE  users'[v].status = "PENDING" <=>
               \E t \in Tokens : Verifies(t)' /\ tokens'[t].user = v /\ ~tokens'[t].used
  <2>1. CASE v = u
    BY <1>3, <1>4, <2>1
  <2>2. CASE v # u
    <3>1. users[v].status = "PENDING" <=>
            \E t \in Tokens : Verifies(t) /\ tokens[t].user = v /\ ~tokens[t].used
      BY DEF PendingUnused, Verifies
    <3>2. \A t \in Tokens :
            Verifies(t)' /\ tokens'[t].user = v <=> Verifies(t) /\ tokens[t].user = v
      BY <1>4, <1>5, <2>2 DEF Verifies
    <3>. QED
      BY <1>3, <1>4, <1>5, <2>2, <3>1, <3>2
  <2>. QED
    BY <2>1, <2>2
<1>. QED
  BY <1>7, <1>8 DEF PendingUnused, Verifies

(* The user becomes ACTIVE, and the one token of it is used.               *)
LEMMA VerifyEmailVerifies ==
  ASSUME TypeOK, HoldersTrue, WritersTrue, PendingUnused, VerificationsTrue,
         NEW c \in Clients, VerifyEmail(c)
  PROVE  PendingUnused' /\ VerificationsTrue'
<1>. DEFINE u == req[c].user
<1>1. PICK t \in Tokens : req[c].rows = {t} /\ u = tokens[t].user
  BY DEF VerifyEmail, Redeeming, WritersTrue
<1>2. Verifies(t) /\ u \in Users
  BY <1>1 DEF VerifyEmail, Redeeming, Verifies, VerificationsTrue
<1>3. \A k \in Tokens \ {t} : Verifies(k) => tokens[k].user # u
  BY <1>1, <1>2 DEF VerificationsTrue
<1>4. /\ users'[u].status = "ACTIVE" /\ \A v \in Users \ {u} : users'[v] = users[v]
  <2>1. users[u] \in UserRow
    BY <1>2 DEF TypeOK
  <2>. QED
    BY <1>2, <2>1 DEF VerifyEmail, TypeOK, UserRow
<1>5. ASSUME NEW k \in Tokens
      PROVE  /\ Verifies(k)' <=> Verifies(k)
             /\ tokens'[k].user = tokens[k].user
             /\ tokens'[k].used <=> tokens[k].used \/ k = t
  <2>1. tokens[k] \in TokenRow
    BY DEF TypeOK
  <2>. QED
    BY <1>1, <2>1 DEF VerifyEmail, Redeem, TokenRow, Verifies
<1>. HIDE DEF u
<1>6. VerificationsTrue'
  BY <1>2, <1>4, <1>5 DEF VerificationsTrue
<1>7. ASSUME NEW v \in Users
      PROVE  users'[v].status = "PENDING" <=>
               \E k \in Tokens : Verifies(k)' /\ tokens'[k].user = v /\ ~tokens'[k].used
  <2>1. CASE v = u
    BY <1>3, <1>4, <1>5, <2>1
  <2>2. CASE v # u
    <3>1. users[v].status = "PENDING" <=>
            \E k \in Tokens : Verifies(k) /\ tokens[k].user = v /\ ~tokens[k].used
      BY DEF PendingUnused, Verifies
    <3>. QED
      BY <1>1, <1>4, <1>5, <2>2, <3>1
  <2>. QED
    BY <2>1, <2>2
<1>. QED
  BY <1>6, <1>7 DEF PendingUnused, Verifies

(* Whoever is registered was mailed a token; a used one was redeemed.      *)
LEMMA MailsNext ==
  ASSUME TypeOK, RegistersTrue, TokensTrue, HoldersTrue, WritersTrue, MailsTrue,
         [Next]_vars
  PROVE  MailsTrue'
<1>1. ASSUME NEW c \in Clients, SaveUser(c)
      PROVE  MailsTrue'
  <2>. DEFINE u == req[c].user
  <2>1. u \in Users /\ \A v \in Users \ {u} : users'[v] = users[v]
    BY <1>1 DEF SaveUser, RegistersTrue, TypeOK
  <2>2. PICK new \in Tokens :
          Absent(new) /\ tokens' = [tokens EXCEPT ![new] = NewToken("EMAIL_VERIFICATION", u)]
    BY <1>1 DEF SaveUser
  <2>3. /\ Verifies(new)' /\ tokens'[new].user = u /\ ~tokens'[new].used
        /\ \A t \in Tokens \ {new} : tokens'[t] = tokens[t]
        /\ redeemed' = redeemed
    BY <1>1, <2>2 DEF SaveUser, NewToken, TypeOK, Verifies
  <2>4. ~Verifies(new)
    BY <2>2, TypeAssumption DEF Absent, Verifies
  <2>. HIDE DEF u
  <2>. QED
    BY <2>1, <2>3, <2>4 DEF MailsTrue, Verifies
<1>2. ASSUME NEW c \in Clients, VerifyEmail(c)
      PROVE  MailsTrue'
  <2>. DEFINE u == req[c].user
  <2>1. PICK t \in Tokens : req[c].rows = {t} /\ u = tokens[t].user
    BY <1>2 DEF VerifyEmail, Redeeming, WritersTrue
  <2>2. ~tokens[t].used /\ redeemed[t] = 0
    BY <1>2, <2>1 DEF VerifyEmail, Redeeming, HoldersTrue, Holds, At, TokensTrue
  <2>3. users[u].status # "ABSENT" /\ \A v \in Users \ {u} : users'[v] = users[v]
    BY <1>2 DEF VerifyEmail, TypeOK
  <2>4. ASSUME NEW k \in Tokens
        PROVE  /\ Verifies(k)' <=> Verifies(k)
               /\ tokens'[k].user = tokens[k].user
               /\ tokens'[k].used <=> tokens[k].used \/ k = t
               /\ redeemed'[k] = IF k = t THEN 1 ELSE redeemed[k]
    <3>1. tokens[k] \in TokenRow /\ redeemed[k] \in Nat
      BY DEF TypeOK
    <3>2. /\ tokens'[k].type = tokens[k].type /\ tokens'[k].user = tokens[k].user
          /\ tokens'[k].used <=> tokens[k].used \/ k = t
      BY <1>2, <2>1, <3>1 DEF VerifyEmail, Redeem, TokenRow
    <3>3. redeemed'[k] = redeemed[k] + (IF k = t THEN 1 ELSE 0)
      BY <1>2, <2>1 DEF VerifyEmail, Redeem
    <3>4. redeemed'[k] = IF k = t THEN 1 ELSE redeemed[k]
      BY <2>2, <3>1, <3>3
    <3>. QED
      BY <3>2, <3>4 DEF Verifies
  <2>. HIDE DEF u
  <2>. QED
    BY <2>2, <2>3, <2>4 DEF MailsTrue
<1>3. CASE \A c \in Clients : ~SaveUser(c) /\ ~VerifyEmail(c)
  <2>1. \A u \in Users : StatusKept(u)
    BY <1>3, StatusesKept
  <2>2. \A t \in Tokens : VerificationKept(t)
    BY <1>3, VerificationsKept
  <2>. QED
    BY <2>1, <2>2 DEF MailsTrue, StatusKept, VerificationKept
<1>. QED
  BY <1>1, <1>2, <1>3

LEMMA VerifyInvInit == Init => VerifyInv
<1>. SUFFICES ASSUME Init PROVE VerifyInv
  OBVIOUS
<1>1. \A t \in Tokens : ~Verifies(t)
  BY TypeAssumption DEF Init, NoToken, Verifies
<1>2. \A u \in Users : users[u].status = "ABSENT"
  BY DEF Init, NoUser
<1>3. PendingUnused /\ MailsTrue
  BY <1>1, <1>2 DEF PendingUnused, MailsTrue
<1>4. VerificationsTrue
  BY <1>1 DEF VerificationsTrue
<1>5. WritersTrue
  BY DEF Init, WritersTrue, At, Idle
<1>. QED
  BY <1>3, <1>4, <1>5 DEF VerifyInv

LEMMA VerifyInvNext ==
  SessionInv /\ SpentInv /\ VerifyInv /\ [Next]_vars => VerifyInv'
<1>. SUFFICES ASSUME SessionInv, SpentInv, VerifyInv, [Next]_vars
              PROVE  PendingUnused' /\ VerificationsTrue'
  BY WritersNext, MailsNext DEF SessionInv, SpentInv, VerifyInv
<1>. /\ TypeOK /\ RegistersTrue /\ HoldersTrue
     /\ PendingUnused /\ VerificationsTrue /\ WritersTrue
  BY DEF SessionInv, SpentInv, VerifyInv
<1>1. CASE \A c \in Clients : ~SaveUser(c) /\ ~VerifyEmail(c)
  <2>1. \A u \in Users : StatusKept(u)
    BY <1>1, StatusesKept
  <2>2. \A t \in Tokens : VerificationKept(t)
    BY <1>1, VerificationsKept
  <2>3. VerificationsTrue'
    BY <2>1, <2>2 DEF VerificationsTrue, StatusKept, VerificationKept
  <2>4. ASSUME NEW u \in Users
        PROVE  users'[u].status = "PENDING" <=>
                 \E t \in Tokens : Verifies(t)' /\ tokens'[t].user = u /\ ~tokens'[t].used
    <3>1. users[u].status = "PENDING" <=>
            \E t \in Tokens : Verifies(t) /\ tokens[t].user = u /\ ~tokens[t].used
      BY DEF PendingUnused, Verifies
    <3>. QED
      BY <2>1, <2>2, <3>1 DEF StatusKept, VerificationKept
  <2>. QED
    BY <2>3, <2>4 DEF PendingUnused, Verifies
<1>2. ASSUME NEW c \in Clients, SaveUser(c) \/ VerifyEmail(c)
      PROVE  PendingUnused' /\ VerificationsTrue'
  BY <1>2, SaveUserVerifies, VerifyEmailVerifies
<1>. QED
  BY <1>1, <1>2

LEMMA VerifiedTrue == SpentInv /\ VerifyInv => PendingUntilRedeemed
<1>. SUFFICES ASSUME SpentInv, VerifyInv, NEW u \in Users
              PROVE  LET mailed == {t \in Tokens : /\ tokens[t].type = "EMAIL_VERIFICATION"
                                                  /\ tokens[t].user = u}
                     IN /\ users[u].status = "ABSENT" <=> mailed = {}
                        /\ users[u].status = "PENDING" <=> \E t \in mailed : ~tokens[t].used
                        /\ users[u].status \in {"ACTIVE", "INACTIVE"} <=>
                             \E t \in mailed : redeemed[t] = 1
  BY DEF PendingUntilRedeemed
<1>. /\ TypeOK /\ TokensTrue
     /\ PendingUnused /\ VerificationsTrue /\ MailsTrue
  BY DEF SpentInv, VerifyInv
<1>0. users[u].status \in {"ABSENT", "PENDING", "ACTIVE", "INACTIVE"}
  BY DEF TypeOK, UserRow
<1>1. CASE users[u].status = "ABSENT"
  BY <1>1 DEF VerificationsTrue, Verifies
<1>2. CASE users[u].status # "ABSENT"
  <2>1. PICK t \in Tokens : Verifies(t) /\ tokens[t].user = u
    BY <1>2 DEF MailsTrue
  <2>2. \A k \in Tokens : Verifies(k) /\ tokens[k].user = u => k = t
    BY <2>1 DEF VerificationsTrue
  <2>3. users[u].status = "PENDING" <=> ~tokens[t].used
    BY <2>1, <2>2 DEF PendingUnused
  <2>4. tokens[t].used <=> redeemed[t] = 1
    BY <2>1 DEF MailsTrue, TokensTrue
  <2>. QED
    BY <1>0, <1>2, <2>1, <2>2, <2>3, <2>4 DEF Verifies
<1>. QED
  BY <1>1, <1>2

(* However registering, verifying, replacing tokens and deactivating       *)
(* overlap, a user is PENDING as long as the verification token is unused  *)
(* and leaves that only by redeeming it (register, verifyEmail).           *)
THEOREM PendingUsersVerify == Spec => []PendingUntilRedeemed
<1>1. SpentInv /\ VerifyInv => PendingUntilRedeemed
  BY VerifiedTrue
<1>. QED
  BY <1>1, SpentInvInit, SpentInvNext, VerifyInvInit, VerifyInvNext,
     SessionInvariance, PTL DEF Spec
=============================================================================
