---------------------------- MODULE AuthSessions ----------------------------
(***************************************************************************)
(* Sessions: the sign-in, refresh, sign-out, password and revocation       *)
(* operations of auth.service.ts, the validation of an access token in     *)
(* jwt.strategy.ts, and the operations of others on the account's row.     *)
(* One action per step between two awaits.  A request that is refused      *)
(* before it wrote anything has no step.                                   *)
(***************************************************************************)
EXTENDS AuthStore

codesSame == UNCHANGED <<codeVars, workload, now>>

-----------------------------------------------------------------------------
(* Signing in.  The tail of every sign-in and refresh: createRefreshToken, *)
(* then signAccessToken, which records the token before it signs it.       *)

(* loginInternal: the account with its password, compared and checked.     *)
Login(p) ==
  /\ Ready(p, "login")
  /\ user.exists /\ user.active
  /\ \E remember \in BOOLEAN :
       Begin(p, [Idle EXCEPT !.pc = "create", !.op = "login", !.user = user,
                   !.expires = now + IF remember THEN RememberTtl ELSE AccessTtl])
  /\ UNCHANGED sessionVars /\ codesSame

(* Mutant: a token that was rotated can be presented again.                *)
FoundForRefreshAlways(w) == TRUE
(* refreshTokens: the unrevoked row with its user.                         *)
FoundForRefresh(w) == ~rows[w].revoked

Refresh(p) ==
  /\ Ready(p, "refresh")
  /\ \E w \in Rows :
       /\ rows[w].signed # 0
       /\ FoundForRefresh(w) /\ now <= rows[w].expires /\ user.active
       /\ Begin(p, [Idle EXCEPT !.pc = "rotate", !.op = "refresh", !.user = user,
                      !.row = w, !.expires = rows[w].expires,
                      !.overdue = now > rows[w].until])
  /\ UNCHANGED sessionVars /\ codesSame

Rotate(p) ==
  /\ At(p, "rotate")
  /\ Revoke({req[p].row})
  /\ Outdate({req[p].row}, FALSE, p, [req[p] EXCEPT !.pc = "create"])
  /\ UNCHANGED <<user, active>> /\ codesSame

(* Mutant: the override is not passed on.                                  *)
ExpiryOfNewSession(m) == IF m.op = "refresh" THEN now + AccessTtl ELSE m.expires
(* The expiry of the new row: the old one's for a refresh.                 *)
ExpiryOf(m) == m.expires

CreateRefreshToken(p) ==
  LET m == req[p]
      refreshed == m.op = "refresh" IN
  /\ At(p, "create")
  /\ Len(rows) < workload.sessions
  /\ rows' = Append(rows,
       [parent   |-> m.row,
        expires  |-> ExpiryOf(m), revoked |-> FALSE,
        version  |-> 0, signed |-> 0,
        password |-> IF refreshed THEN rows[m.row].password ELSE m.user.password,
        until    |-> IF refreshed THEN rows[m.row].until ELSE m.expires,
        raced    |-> m.raced,
        late     |-> m.late \/ (refreshed /\ rows[m.row].late)])
  /\ req' = [req EXCEPT ![p].pc = "sign", ![p].row = Len(rows) + 1]
  /\ UNCHANGED <<user, active>> /\ codesSame

(* The token carries the tokenVersion of the copy of the account.          *)
SignAccessToken(p) ==
  LET w == req[p].row IN
  /\ At(p, "sign")
  /\ rows' = [rows EXCEPT ![w].signed = now + AccessTtl,
                          ![w].version = req[p].user.version]
  /\ active' = w
  /\ IF req[p].op = "register" THEN Goto(p, "setCode") ELSE Finish(p)
  /\ UNCHANGED user /\ codesSame

-----------------------------------------------------------------------------
(* JwtStrategy.validate: three reads, in the order of the code, of a token *)
(* that signAccessToken signed; of one that names neither itself nor a     *)
(* session nor a tokenVersion, only the last.                              *)

Guarded == {"visit", "logout", "logoutAll", "change", "revoke", "revokeOthers"}
SkipVerification == {"visit", "logout", "logoutAll"}

(* The token has not expired and is the active one, if one is recorded.    *)
CheckActive(p) ==
  \E op \in Guarded, w \in Rows :
    /\ Ready(p, op)
    /\ now < rows[w].signed
    /\ active \in {0, w}
    /\ Begin(p, [Idle EXCEPT !.pc = "session", !.op = op, !.row = w,
                   !.dead = rows[w].revoked, !.overdue = now > rows[w].until])
    /\ UNCHANGED sessionVars /\ codesSame

(* Mutant: validation relies on active_token and tokenVersion alone.       *)
SessionAcceptedUnrevoked(w) == now <= rows[w].expires
(* Its session is neither revoked nor expired.                             *)
SessionAccepted(w) == ~rows[w].revoked /\ now <= rows[w].expires

CheckSession(p) ==
  /\ At(p, "session")
  /\ IF SessionAccepted(req[p].row) THEN Goto(p, "user") ELSE Finish(p)
  /\ UNCHANGED sessionVars /\ codesSame

(* The account is active, of the token's version, and verified if the      *)
(* operation asks for it (EmailVerifiedGuard).                             *)
UserAccepted(m) ==
  /\ user.active
  /\ m.row # 0 => user.version = rows[m.row].version
  /\ user.verified \/ m.op \in SkipVerification

CheckUser(p) ==
  /\ At(p, "user")
  /\ IF UserAccepted(req[p]) THEN Goto(p, "handler") ELSE Finish(p)
  /\ UNCHANGED sessionVars /\ codesSame

(* The token that verifyResetOtp signs is such a one; row 0 stands for the *)
(* session it does not name.                                               *)
CheckResetToken(p) ==
  \E op \in Guarded :
    LET m == [Idle EXCEPT !.pc = "handler", !.op = op] IN
    /\ Ready(p, op)
    /\ reset /\ UserAccepted(m)
    /\ Begin(p, m)
    /\ UNCHANGED sessionVars /\ codesSame

InHandler(p, op) == At(p, "handler") /\ req[p].op = op

(* getMe, getSessions: read only.                                          *)
Visit(p) ==
  /\ InHandler(p, "visit")
  /\ Finish(p)
  /\ UNCHANGED sessionVars /\ codesSame

-----------------------------------------------------------------------------
(* Signing out and revoking.                                               *)

(* logout: the refresh token of the cookie, if any, then active_token.     *)
Logout(p) ==
  /\ InHandler(p, "logout")
  /\ \E w \in Rows \cup {0} :
       /\ Revoke({w})
       /\ Outdate({w}, FALSE, p, [req[p] EXCEPT !.pc = "deactivate"])
  /\ UNCHANGED <<user, active>> /\ codesSame

LogoutAll(p) ==
  /\ InHandler(p, "logoutAll")
  /\ Revoke(Rows)
  /\ Outdate(Rows, TRUE, p, [req[p] EXCEPT !.pc = "deactivate"])
  /\ UNCHANGED <<user, active>> /\ codesSame

Deactivate(p) ==
  /\ At(p, "deactivate")
  /\ active' = 0
  /\ Finish(p)
  /\ UNCHANGED <<user, rows>> /\ codesSame

(* revokeSession finds an unrevoked session; another statement revokes it. *)
FindSession(p) ==
  /\ InHandler(p, "revoke")
  /\ \E w \in Rows :
       /\ ~rows[w].revoked
       /\ req' = [req EXCEPT ![p].pc = "revoke", ![p].row = w]
  /\ UNCHANGED sessionVars /\ codesSame

RevokeSession(p) ==
  /\ At(p, "revoke")
  /\ Revoke({req[p].row})
  /\ Outdate({req[p].row}, FALSE, p, Idle)
  /\ UNCHANGED <<user, active>> /\ codesSame

(* All of them, for a token that names none.                               *)
RevokeOtherSessions(p) ==
  LET others == Rows \ {req[p].row} IN
  /\ InHandler(p, "revokeOthers")
  /\ Revoke(others)
  /\ Outdate(others, FALSE, p, Idle)
  /\ UNCHANGED <<user, active>> /\ codesSame

-----------------------------------------------------------------------------
(* Passwords.  Both operations set the password first and revoke every     *)
(* session with a second statement.                                        *)

ChangePassword(p) ==
  /\ InHandler(p, "change")
  /\ Goto(p, "setPassword")
  /\ UNCHANGED sessionVars /\ codesSame

ResetPassword(p) ==
  /\ Ready(p, "reset")
  /\ reset /\ user.active
  /\ Begin(p, [Idle EXCEPT !.pc = "setPassword", !.op = "reset"])
  /\ UNCHANGED sessionVars /\ codesSame

SetPassword(p) ==
  /\ At(p, "setPassword")
  /\ user.password < MaxPasswords
  /\ user' = [user EXCEPT !.password = @ + 1]
  /\ Goto(p, "revokeAll")
  /\ UNCHANGED <<rows, active>> /\ codesSame

(* Mutant: the session that asks for the change is kept.                   *)
RevokedByChangeButOwn(p) == Rows \ {req[p].row}
RevokedByChange(p) == Rows

RevokeAll(p) ==
  /\ At(p, "revokeAll")
  /\ Revoke(RevokedByChange(p))
  /\ Outdate(Rows, TRUE, p, Idle)
  /\ UNCHANGED <<user, active>> /\ codesSame

-----------------------------------------------------------------------------
(* Others on the account: the admin's revocation (every session, then      *)
(* tokenVersion), and the operations that save a copy of the whole row,    *)
(* setActive, updateRole and updateProfile.                                *)

AdminRevoke(p) ==
  /\ Ready(p, "adminRevoke")
  /\ user.exists
  /\ Revoke(Rows)
  /\ Outdate(Rows, TRUE, p, [Idle EXCEPT !.pc = "bump", !.op = "adminRevoke"])
  /\ UNCHANGED <<user, active>> /\ codesSame

BumpVersion(p) ==
  /\ At(p, "bump")
  /\ user.version < MaxVersions
  /\ user' = [user EXCEPT !.version = @ + 1]
  /\ Finish(p)
  /\ UNCHANGED <<rows, active>> /\ codesSame

FindUser(p) ==
  /\ \E op \in {"activate", "disable", "edit"} :
       /\ Ready(p, op)
       /\ user.exists
       /\ Begin(p, [Idle EXCEPT !.pc = "saveUser", !.op = op, !.user = user])
  /\ UNCHANGED sessionVars /\ codesSame

(* The copy has no password column (select: false).                        *)
SaveUser(p) ==
  LET m == req[p] IN
  /\ At(p, "saveUser")
  /\ user' = [m.user EXCEPT
                !.password = user.password,
                !.active = CASE m.op = "activate" -> TRUE
                             [] m.op = "disable"  -> FALSE
                             [] OTHER             -> @]
  /\ Finish(p)
  /\ UNCHANGED <<rows, active>> /\ codesSame

-----------------------------------------------------------------------------
(* Time: tokens, sessions and active_token run out.                        *)
Tick ==
  /\ now < MaxNow
  /\ now' = now + 1
  /\ active' = IF active # 0 /\ rows[active].signed <= now' THEN 0 ELSE active
  /\ UNCHANGED <<user, rows, codeVars, req, workload>>

SessionStep(p) ==
  \/ Login(p) \/ Refresh(p) \/ Rotate(p) \/ CreateRefreshToken(p)
  \/ SignAccessToken(p) \/ CheckActive(p) \/ CheckSession(p) \/ CheckUser(p)
  \/ CheckResetToken(p)
  \/ Visit(p) \/ Logout(p) \/ LogoutAll(p) \/ Deactivate(p) \/ FindSession(p)
  \/ RevokeSession(p) \/ RevokeOtherSessions(p) \/ ChangePassword(p)
  \/ ResetPassword(p) \/ SetPassword(p) \/ RevokeAll(p) \/ AdminRevoke(p)
  \/ BumpVersion(p) \/ FindUser(p) \/ SaveUser(p)
=============================================================================
