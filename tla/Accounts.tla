------------------------------- MODULE Accounts --------------------------------
(***************************************************************************)
(* auth.service.ts, mfa.service.ts and users.service.ts: accounts, logins   *)
(* with and without a second factor, sessions, and what closes them.  A     *)
(* session and a challenge are named by the handler that inserts them.      *)
(* What is refused on its first read changes nothing and is left out.       *)
(***************************************************************************)
EXTENDS Handlers

CONSTANTS
  User,
  MaxAttempts   \* security.maxLoginAttempts

ASSUME AccountsAssumption == MaxAttempts \in Nat \ {0}

VARIABLES
  user,        \* table users, with the user's row of user_roles
  mfaConfig,   \* table mfa_configs, UNIQUE (user_id): the status
  setup,       \* table password_setup_tokens: the user's one token
  challenge,   \* table mfa_challenges
  session      \* table user_sessions, with the permissions of its last token

accounts == <<user, mfaConfig, setup, challenge, session>>

AccountOps == {"login", "verify", "refresh", "idle", "logout", "deactivate", "setPassword",
               "createUser", "updateUser", "revokeRole", "assignRole", "enableMfa"}
UserStatus == {"absent", "pending_verification", "active", "suspended", "deactivated"}

NewUser(status, mfa) ==
  [status |-> status, failed |-> 0, locked |-> FALSE, mfa |-> mfa, role |-> status = "active"]

AccountsInit ==
  /\ user \in Varying(AccountOps, [User ->
       {NewUser("absent", FALSE), NewUser("pending_verification", FALSE),
        NewUser("active", FALSE), NewUser("active", TRUE)}])
  /\ mfaConfig = [u \in User |-> IF user[u].mfa THEN "active" ELSE "absent"]
  /\ setup = [u \in User |->
       IF user[u].status = "pending_verification" THEN "live" ELSE "absent"]
  /\ challenge = [r \in Req |-> [user |-> None, used |-> FALSE]]
  /\ session = [r \in Req |-> [user |-> None, open |-> FALSE, granted |-> FALSE]]

AccountCall(op, pc, u) ==
  [op |-> op, pc |-> pc, catch |-> "failed", back |-> "done", user |-> u,
   attempts |-> 0, on |-> None, granted |-> FALSE, becomes |-> None]

Existing == {u \in User : user[u].status # "absent"}
OpenOf_Newest(u) ==
  {s \in Req : /\ session[s].user = u /\ session[s].open
               /\ \A t \in Req : session[t].user = u /\ session[t].open => t <= s}
OpenOf(u) == {s \in Req : session[s].user = u /\ session[s].open}
CloseSessions(ss) ==
  session' = [s \in Req |-> IF s \in ss THEN [session[s] EXCEPT !.open = FALSE] ELSE session[s]]

(***************************************************************************)
(* login and validateCredentials: the row read first decides everything.    *)
(* A lock that is set may have run out by the time of the login.            *)
(***************************************************************************)
Welcome(u) == user[u].status \notin {"absent", "suspended", "deactivated"}

WrongPassword(r) ==
  /\ CanStart(r, "login")
  /\ \E u \in User :
        /\ Welcome(u)
        /\ Begin(r, [AccountCall("login", "count", u) EXCEPT !.attempts = user[u].failed])
  /\ UNCHANGED accounts

CountFailure_Eager(r) ==
  /\ At(r, "count")
  /\ LET n == req[r].attempts + 1 IN
       user' = [user EXCEPT ![req[r].user].failed = n,
                            ![req[r].user].locked = @ \/ n >= MaxAttempts - 1]
  /\ Goto(r, "failed")
  /\ UNCHANGED <<mfaConfig, setup, challenge, session>>
CountFailure(r) ==   \* handleFailedLogin
  /\ At(r, "count")
  /\ LET n == req[r].attempts + 1 IN
       user' = [user EXCEPT ![req[r].user].failed = n,
                            ![req[r].user].locked = @ \/ n >= MaxAttempts]
  /\ Goto(r, "failed")
  /\ UNCHANGED <<mfaConfig, setup, challenge, session>>

RightPassword(r) ==   \* not that of an account whose password was never set
  /\ CanStart(r, "login")
  /\ \E u \in User :
        /\ Welcome(u)
        /\ setup[u] # "live"
        /\ LET next == IF user[u].mfa THEN "challenge" ELSE "permissions" IN
             Begin(r, [AccountCall("login", IF user[u].failed > 0 THEN "reset" ELSE next, u)
                         EXCEPT !.back = next])
  /\ UNCHANGED accounts

ResetFailures(r) ==
  /\ At(r, "reset")
  /\ user' = [user EXCEPT ![req[r].user].failed = 0, ![req[r].user].locked = FALSE]
  /\ Return(r)
  /\ UNCHANGED <<mfaConfig, setup, challenge, session>>

CreateChallenge(r) ==
  /\ At(r, "challenge")
  /\ challenge' = [challenge EXCEPT ![r].user = req[r].user]
  /\ Goto(r, "done")
  /\ UNCHANGED <<user, mfaConfig, setup, session>>

(***************************************************************************)
(* verifyMfaAndLogin: a challenge that has not been used, the secret, the   *)
(* mark that it has, and a session.                                         *)
(***************************************************************************)
Usable(c) == challenge[c].user # None /\ ~challenge[c].used

VerifyMfa(r) ==
  /\ CanStart(r, "verify")
  /\ \E c \in Req : /\ Usable(c)
                    /\ Begin(r, [AccountCall("verify", "secret", challenge[c].user)
                                   EXCEPT !.on = c])
  /\ UNCHANGED accounts

GetSecret(r) ==
  /\ At(r, "secret")
  /\ mfaConfig[req[r].user] = "active"
  /\ Goto(r, "use")
  /\ UNCHANGED accounts

CodeRefused(r) ==   \* no active secret, or not the code
  /\ At(r, "secret")
  /\ Raise(r)
  /\ UNCHANGED accounts

UseChallenge(r) ==
  /\ At(r, "use")
  /\ challenge' = [challenge EXCEPT ![req[r].on].used = TRUE]
  /\ Goto(r, "permissions")
  /\ UNCHANGED <<user, mfaConfig, setup, session>>

(***************************************************************************)
(* createSession: the permissions, the session, and the account is active.  *)
(***************************************************************************)
ReadPermissions(r) ==
  /\ At(r, "permissions")
  /\ req' = [req EXCEPT ![r].granted = user[req[r].user].role,
                        ![r].pc = IF req[r].op = "refresh" THEN "token" ELSE "session"]
  /\ UNCHANGED <<desk, holding, accounts>>

InsertSession(r) ==
  /\ At(r, "session")
  /\ session' = [session EXCEPT ![r] =
       [user |-> req[r].user, open |-> TRUE, granted |-> req[r].granted]]
  /\ Goto(r, "greet")
  /\ UNCHANGED <<user, mfaConfig, setup, challenge>>

MarkActive_Forgotten(r) ==
  /\ At(r, "greet")
  /\ Goto(r, "done")
  /\ UNCHANGED accounts
MarkActive(r) ==
  /\ At(r, "greet")
  /\ user' = [user EXCEPT ![req[r].user].status = "active"]
  /\ Goto(r, "done")
  /\ UNCHANGED <<mfaConfig, setup, challenge, session>>

(***************************************************************************)
(* refreshTokens: an open session gets a token with the permissions of now. *)
(* validateJwtPayload: a session idle for too long is closed.  logout and   *)
(* logoutAll close what is open.                                            *)
(***************************************************************************)
UseSession(r) ==
  /\ \E op \in {"refresh", "idle"} :
       /\ CanStart(r, op)
       /\ \E s \in Req :
            /\ session[s].open
            /\ Begin(r, [AccountCall(op, IF op = "idle" THEN "expire" ELSE "permissions",
                                     session[s].user) EXCEPT !.on = s])
  /\ UNCHANGED accounts

RefreshToken(r) ==
  /\ req[r].pc = "token"
  /\ session' = [session EXCEPT ![req[r].on].granted = req[r].granted]
  /\ Goto(r, "done")
  /\ UNCHANGED <<user, mfaConfig, setup, challenge>>

ExpireSession(r) ==
  /\ At(r, "expire")
  /\ CloseSessions({req[r].on})
  /\ Goto(r, "failed")
  /\ UNCHANGED <<user, mfaConfig, setup, challenge>>

Logout(r) ==
  /\ CanStart(r, "logout")
  /\ \E s \in Req, all \in BOOLEAN :
       /\ session[s].open
       /\ CloseSessions(IF all THEN OpenOf(session[s].user) ELSE {s})
       /\ Begin(r, AccountCall("logout", "done", session[s].user))
  /\ UNCHANGED <<user, mfaConfig, setup, challenge>>

(***************************************************************************)
(* deactivate: the account, then its sessions.  (No controller calls        *)
(* changePassword, which would close them too.)                             *)
(***************************************************************************)
ReadAccount(r) ==
  /\ CanStart(r, "deactivate")
  /\ \E u \in Existing : Begin(r, AccountCall("deactivate", "change", u))
  /\ UNCHANGED accounts

ChangeAccount(r) ==
  /\ At(r, "change")
  /\ user' = [user EXCEPT ![req[r].user].status = "deactivated"]
  /\ Goto(r, "close")
  /\ UNCHANGED <<mfaConfig, setup, challenge, session>>

CloseAll(r) ==
  /\ At(r, "close")
  /\ CloseSessions(OpenOf(req[r].user))
  /\ Goto(r, "done")
  /\ UNCHANGED <<user, mfaConfig, setup, challenge>>

(***************************************************************************)
(* setPassword: the token is looked at, then account and token are changed  *)
(* in one transaction, which looks at neither.                              *)
(***************************************************************************)
FindSetupToken(r) ==
  /\ CanStart(r, "setPassword")
  /\ \E u \in User : setup[u] = "live" /\ Begin(r, AccountCall("setPassword", "password", u))
  /\ UNCHANGED accounts

SetPassword(r) ==
  /\ At(r, "password")
  /\ user' = [user EXCEPT ![req[r].user].status = "active"]
  /\ setup' = [setup EXCEPT ![req[r].user] = "used"]
  /\ Goto(r, "done")
  /\ UNCHANGED <<mfaConfig, challenge, session>>

(***************************************************************************)
(* UsersService: create, with a role or without; update, to any status and  *)
(* whatever sessions are open; revokeRole.  assignRole is refused by the    *)
(* database: no unique index matches its ON CONFLICT.                       *)
(***************************************************************************)
CreateUser(r) ==
  /\ CanStart(r, "createUser")
  /\ \E u \in User \ Existing : Begin(r, AccountCall("createUser", "insert", u))
  /\ UNCHANGED accounts

InsertUser(r) ==
  /\ At(r, "insert")
  /\ user[req[r].user].status = "absent"
  /\ user' = [user EXCEPT ![req[r].user] = NewUser("pending_verification", FALSE)]
  /\ \E withRole \in BOOLEAN : Goto(r, IF withRole THEN "role" ELSE "done")
  /\ UNCHANGED <<mfaConfig, setup, challenge, session>>

UserExists(r) ==   \* UNIQUE (tenant_id, email)
  /\ At(r, "insert")
  /\ user[req[r].user].status # "absent"
  /\ Raise(r)
  /\ UNCHANGED accounts

InsertRole(r) ==
  /\ At(r, "role")
  /\ user' = [user EXCEPT ![req[r].user].role = TRUE]
  /\ Goto(r, "done")
  /\ UNCHANGED <<mfaConfig, setup, challenge, session>>

UpdateUser(r) ==
  /\ CanStart(r, "updateUser")
  /\ \E u \in Existing, s \in UserStatus \ {"absent"} :
       Begin(r, [AccountCall("updateUser", "save", u) EXCEPT !.becomes = s])
  /\ UNCHANGED accounts

SaveUser(r) ==
  /\ At(r, "save")
  /\ user' = [user EXCEPT ![req[r].user].status = req[r].becomes]
  /\ Goto(r, "done")
  /\ UNCHANGED <<mfaConfig, setup, challenge, session>>

RevokeRole(r) ==
  /\ CanStart(r, "revokeRole")
  /\ \E u \in Existing :
       /\ user' = [user EXCEPT ![u].role = FALSE]
       /\ Begin(r, AccountCall("revokeRole", "done", u))
  /\ UNCHANGED <<mfaConfig, setup, challenge, session>>

AssignRole(r) ==
  /\ CanStart(r, "assignRole")
  /\ \E u \in Existing : Begin(r, AccountCall("assignRole", "failed", u))
  /\ UNCHANGED accounts

(***************************************************************************)
(* enableMfa: the secret, then the flag the login reads.  (No controller    *)
(* calls disableMfa.)                                                       *)
(***************************************************************************)
EnableMfa(r) ==
  /\ CanStart(r, "enableMfa")
  /\ \E s \in Req :
       /\ session[s].open
       /\ mfaConfig' = [mfaConfig EXCEPT ![session[s].user] = "active"]
       /\ Begin(r, AccountCall("enableMfa", "mfa", session[s].user))
  /\ UNCHANGED <<user, setup, challenge, session>>

SetMfaFlag(r) ==
  /\ At(r, "mfa")
  /\ user' = [user EXCEPT ![req[r].user].mfa = TRUE]
  /\ Goto(r, "done")
  /\ UNCHANGED <<mfaConfig, setup, challenge, session>>

AccountsStep(r) ==
  \/ WrongPassword(r) \/ CountFailure(r) \/ RightPassword(r) \/ ResetFailures(r)
  \/ CreateChallenge(r) \/ VerifyMfa(r) \/ GetSecret(r) \/ CodeRefused(r) \/ UseChallenge(r)
  \/ ReadPermissions(r) \/ InsertSession(r) \/ MarkActive(r)
  \/ UseSession(r) \/ RefreshToken(r) \/ ExpireSession(r) \/ Logout(r)
  \/ ReadAccount(r) \/ ChangeAccount(r) \/ CloseAll(r)
  \/ FindSetupToken(r) \/ SetPassword(r)
  \/ CreateUser(r) \/ InsertUser(r) \/ UserExists(r) \/ InsertRole(r)
  \/ UpdateUser(r) \/ SaveUser(r) \/ RevokeRole(r) \/ AssignRole(r)
  \/ EnableMfa(r) \/ SetMfaFlag(r)

-------------------------------------------------------------------------------
AccountsTypeOK ==
  /\ user \in [User -> [status : UserStatus, failed : Nat, locked : BOOLEAN, mfa : BOOLEAN,
                        role : BOOLEAN]]
  /\ mfaConfig \in [User -> {"absent", "active"}]
  /\ setup \in [User -> {"absent", "live", "used"}]
  /\ challenge \in [Req -> [user : User \cup {None}, used : BOOLEAN]]
  /\ session \in [Req -> [user : User \cup {None}, open : BOOLEAN, granted : BOOLEAN]]

\* The requests after which a session of a deactivated account may be open: an
\* update of the status closes none, and a deactivation is not through, or was
\* cut off, between the account and its sessions.
LeavesOpen(q, u) ==
  \/ /\ req[q].op = "updateUser" /\ req[q].pc # "save"
     /\ req[q].user = u /\ req[q].becomes = "deactivated"
  \/ /\ req[q].op = "deactivate" /\ req[q].pc \in {"close", "failed", "died"}
     /\ req[q].user = u

\* However logins, second factors, updates and deactivations cross, and wherever
\* they fail: where the tokens of a session have been handed out and its account
\* is deactivated, the session is closed, unless one of those requests left it
\* open.  (A login overtaken by a deactivation opens its session after the others
\* were closed, but then makes the account active again.)
OpenSessionsAreExplained ==
  \A s \in Req :
    /\ session[s].open /\ req[s].pc = "done"
    /\ user[session[s].user].status = "deactivated"
    => \E q \in Req : LeavesOpen(q, session[s].user)

\* Attempts that cross may be counted as one, never as more: whoever is locked
\* out has failed MaxAttempts times, whatever interleaves.
NeverLockedEarly ==
  \A u \in User : user[u].locked =>
    Cardinality({r \in Req : req[r].op = "login" /\ req[r].pc = "failed" /\ req[r].user = u})
      >= MaxAttempts
===============================================================================
