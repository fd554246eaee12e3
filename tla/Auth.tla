-------------------------------- MODULE Auth --------------------------------
(***************************************************************************)
(* Sessions and one-time codes of one account, and what makes them right.  *)
(***************************************************************************)
EXTENDS AuthSessions, AuthCodes

(* A workload says which operations the clients use, and on what account:  *)
(* none, or one whose sessions are sign-ins, which live as long as they    *)
(* were made to and are revoked unless made with the password it has.      *)
SignIn(w, u) ==
  /\ w.parent = 0 /\ w.expires = w.until /\ ~w.raced /\ ~w.late
  /\ w.revoked \/ w.password = u.password

ASSUME WorkloadAssumption ==
  \A l \in Workloads :
    /\ l.user \in UserRow
    /\ l.rows \in Seq(Row) /\ Len(l.rows) <= MaxSessions
    /\ l.sessions \in 0..MaxSessions /\ l.codes \in 0..MaxCodes
    /\ \A i \in 1..Len(l.rows) : SignIn(l.rows[i], l.user)
    /\ l.user.exists \/ (l.user = NoUser /\ l.rows = <<>>)

Init ==
  /\ workload \in Workloads
  /\ user = workload.user
  /\ rows = workload.rows
  /\ active = Len(rows)
  /\ now = 0
  /\ otp = [t \in Purposes |-> NoKeys]
  /\ reset = user.verified
  /\ req = [p \in Procs |-> Idle]
  /\ issued = 0 /\ consumed = {}
  /\ guesses = [t \in Purposes |-> 0] /\ mails = [t \in Purposes |-> 0]

Next ==
  \/ \E p \in Procs : SessionStep(p) \/ CodeStep(p)
  \/ \E t \in Purposes : Expire(t)
  \/ ExpireReset
  \/ Tick

Spec == Init /\ [][Next]_vars

-----------------------------------------------------------------------------
Steps == {"idle", "insert", "create", "sign", "rotate", "session", "user", "handler",
          "deactivate", "revoke", "setPassword", "revokeAll", "bump", "saveUser",
          "setCode", "clearAttempts", "mail", "setCooldown", "countResend", "cooldown",
          "invalidate", "invalidateAttempts", "invalidateResends",
          "compare", "count", "deleteCode", "accepted"}

Operations == Guarded \cup {"none", "login", "refresh", "reset", "adminRevoke",
               "activate", "disable", "edit", "register", "forgot", "resend",
               "verifyEmail", "verifyReset"}

Request == [pc: Steps, op: Operations, row: 0..MaxSessions, user: UserRow,
            expires: Nat, code: 0..MaxCodes, dead: BOOLEAN, overdue: BOOLEAN,
            raced: BOOLEAN, late: BOOLEAN]

TypeOK ==
  /\ user \in UserRow
  /\ rows \in Seq(Row) /\ Len(rows) <= MaxSessions
  /\ active \in 0..Len(rows)
  /\ now \in 0..MaxNow
  /\ otp \in [Purposes -> Keys]
  /\ reset \in BOOLEAN
  /\ req \in [Procs -> Request]
  /\ issued \in 0..MaxCodes /\ consumed \subseteq 1..MaxCodes
  /\ guesses \in [Purposes -> Nat] /\ mails \in [Purposes -> Nat]

Handled(p) == /\ req[p].op \in Guarded
              /\ req[p].pc \in {"handler", "deactivate", "revoke", "setPassword", "revokeAll"}

(* A session that was revoked when a request arrived is not accepted by    *)
(* that request, whatever happened to active_token, tokenVersion and the   *)
(* account between the three reads of validate (jwt.strategy.ts:45-94).    *)
(* (A request with a token that names no session is of none.)              *)
RevokedNeverAccepted == \A p \in Procs : Handled(p) => ~req[p].dead

(* No chain of refreshes stretches a session beyond the life of the        *)
(* sign-in it descends from: past it, neither a refresh nor an access      *)
(* token is accepted (auth.service.ts:361-368, jwt.strategy.ts:70).        *)
LifetimeKept ==
  \A p \in Procs : Handled(p) \/ At(p, "rotate") => ~req[p].overdue

(* A refresh token is used once: two sessions refreshed from the same row  *)
(* exist only if one of the two refreshes was overtaken by the other       *)
(* between its lookup and its update (auth.service.ts:341-359).            *)
RefreshedOnce ==
  \A v, w \in Rows :
    (v # w /\ rows[v].parent = rows[w].parent /\ rows[v].parent # 0)
      => rows[v].raced \/ rows[w].raced

(* When no password change is between its two statements, every session    *)
(* that can still be used descends from a sign-in with the password of     *)
(* now, or from one that was being made while all sessions were revoked    *)
(* (auth.service.ts:546-557, 578-585).                                     *)
ChangeInProgress == \E p \in Procs : At(p, "revokeAll")
NoSessionOutlivesChange ==
  ChangeInProgress \/ \A w \in Rows :
    rows[w].revoked \/ rows[w].late \/ rows[w].password = user.password

(* Between two clearings of the counter, clients compare no more wrong     *)
(* codes than otp.maxAttempts, and one more for each verification that     *)
(* runs beside another (otp.service.ts:52-64, 85-90).                      *)
GuessesBounded ==
  \A t \in Purposes : guesses[t] < MaxAttempts + Cardinality(Procs)

(* A code that a finished verification deleted is not accepted again by    *)
(* one that begins afterwards (otp.service.ts:66).                         *)
CodeUsedOnce ==
  \A p \in Procs : req[p].pc \in {"deleteCode", "accepted"} => ~req[p].dead

(* Until the cooldown has run out, no more codes are mailed than there are *)
(* clients asking at the same time (auth.service.ts:458-472, 673-689).     *)
MailsBounded == \A t \in Purposes : mails[t] <= Cardinality(Procs)
=============================================================================
