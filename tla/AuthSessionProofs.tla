-------------------------- MODULE AuthSessionProofs --------------------------
(***************************************************************************)
(* The sessions of an account, for any number of clients, sessions and     *)
(* requests: what validation accepts, how long a session lives, how often  *)
(* a refresh token is used, and what a change of password leaves usable.   *)
(***************************************************************************)
EXTENDS Auth, FiniteSetTheorems, TLAPS

(* TypeOK without the bounds of the counters, which AuthCodeProofs proves. *)
LooseKeys == [code: 0..MaxCodes, attempts: Nat, resends: Nat, cooldown: BOOLEAN]

SessionTyping ==
  /\ user \in UserRow
  /\ rows \in Seq(Row) /\ Len(rows) <= MaxSessions
  /\ active \in 0..Len(rows)
  /\ now \in 0..MaxNow
  /\ req \in [Procs -> Request]
  /\ workload \in Workloads
CodeTyping ==
  /\ otp \in [Purposes -> LooseKeys]
  /\ reset \in BOOLEAN
  /\ issued \in 0..MaxCodes /\ consumed \subseteq 1..MaxCodes
  /\ guesses \in [Purposes -> Nat] /\ mails \in [Purposes -> Nat]
Typing == SessionTyping /\ CodeTyping

(* What a request holds at each of its steps.                              *)
Refreshing(m) == m.pc = "rotate" \/ (m.pc = "create" /\ m.op = "refresh")
Resending     == {"cooldown", "invalidate", "invalidateAttempts", "invalidateResends"}
Senders       == {"forgot", "resend", "register"}
Control(m) ==
  /\ m.pc = "rotate" => m.op = "refresh"
  /\ m.pc = "create" /\ m.op # "refresh" => m.row = 0
  /\ \/ Refreshing(m)
     \/ m.pc \in {"sign", "session", "revoke"}
     => m.row \in Rows
  /\ \/ m.pc \in {"insert", "compare", "count", "deleteCode", "accepted"}
     \/ m.pc = "clearAttempts" /\ m.op \notin Senders
     => m.row = 0 /\ m.op # "refresh"
  /\ m.pc \in Resending => m.op = "resend"
  /\ m.pc = "setCode" => m.op \in Senders
  /\ m.pc = "deleteCode" => m.code # 0
  /\ m.pc = "saveUser" => m.user.exists
Controlled == \A p \in Procs : Control(req[p])

(* Before the account exists only registrations are under way.             *)
NoAccount ==
  user.exists \/ /\ user = NoUser /\ rows = <<>>
                 /\ \A p \in Procs : req[p].pc \in {"idle", "insert"}

(* Sessions live as long as the sign-in they descend from, and what is     *)
(* past its life when a request arrives is turned away.                    *)
Validated == {"user", "handler", "deactivate", "revoke", "setPassword", "revokeAll"}
Timely(m) ==
  /\ Refreshing(m) => m.expires = rows[m.row].expires
  /\ m.pc = "session" /\ m.overdue => now > rows[m.row].expires
  /\ m.pc \in Validated \cup {"rotate"} => ~m.overdue
Lifetimes ==
  /\ \A w \in Rows : rows[w].expires = rows[w].until
  /\ \A p \in Procs : Timely(req[p])

(* A session that was revoked stays so.                                    *)
Current(m) ==
  /\ m.pc = "session" /\ m.dead => rows[m.row].revoked
  /\ m.pc \in Validated => ~m.dead
Currents == \A p \in Procs : Current(req[p])

(* The row a refresh works on is unrevoked until it, or another that it    *)
(* then knows of, revokes it; rows that were refreshed are revoked.        *)
Unraced(m) ==
  /\ m.pc = "rotate" /\ ~m.raced => ~rows[m.row].revoked
  /\ m.pc = "create" /\ m.op = "refresh" => rows[m.row].revoked
Parents ==
  \A w \in Rows : rows[w].parent # 0 =>
    rows[w].parent \in Rows /\ rows[rows[w].parent].revoked
Creating(m) == m.pc = "create" /\ m.op = "refresh"
OneUnraced ==
  /\ \A p, q \in Procs :
       (p # q /\ Creating(req[p]) /\ Creating(req[q]) /\ req[p].row = req[q].row)
         => req[p].raced \/ req[q].raced
  /\ \A p \in Procs, w \in Rows :
       (Creating(req[p]) /\ rows[w].parent = req[p].row) => req[p].raced \/ rows[w].raced
RefreshInv ==
  /\ \A p \in Procs : Unraced(req[p])
  /\ Parents /\ OneUnraced /\ RefreshedOnce

(* What is on its way to become a session will carry the password of now,  *)
(* or is late.                                                             *)
SignsIn(m) ==
  \/ m.pc \in {"compare", "deleteCode", "accepted"}
  \/ m.pc = "clearAttempts" /\ m.op \notin Senders
  \/ m.pc = "create" /\ m.op # "refresh"
FitsPassword(m) ==
  m.late \/ /\ SignsIn(m) => m.user.password = user.password
            /\ Refreshing(m) => rows[m.row].late \/ rows[m.row].password = user.password
PasswordInv ==
  ChangeInProgress \/ /\ NoSessionOutlivesChange
                      /\ \A p \in Procs : FitsPassword(req[p])

SessionInv ==
  Typing /\ Controlled /\ NoAccount /\ Lifetimes /\ Currents /\ RefreshInv /\ PasswordInv

-----------------------------------------------------------------------------
(* The constants.                                                          *)
LEMMA Constants ==
  /\ AccessTtl \in Nat /\ RememberTtl \in Nat /\ MaxAttempts \in Nat \ {0}
  /\ MaxSessions \in Nat /\ MaxNow \in Nat /\ MaxPasswords \in Nat
  /\ MaxVersions \in Nat /\ MaxCodes \in Nat
  /\ IsFiniteSet(Procs)
BY AuthAssumption DEF AuthAssumption

(* An idle request and an account that does not exist are well typed.      *)
LEMMA IdleTyped == Idle \in Request /\ NoUser \in UserRow
BY Constants DEF Idle, Request, NoUser, UserRow, Steps, Operations

(* A request that moves on changes no other.                               *)
LEMMA Began ==
  ASSUME SessionTyping, NEW p \in Procs, NEW m \in Request, Begin(p, m)
  PROVE  /\ req' \in [Procs -> Request]
         /\ req'[p] = m /\ \A q \in Procs \ {p} : req'[q] = req[q]
BY DEF SessionTyping, Begin

(* One that revokes rows leaves marks on others, and nothing else.         *)
Marked(m, n) ==
  /\ n.pc = m.pc /\ n.op = m.op /\ n.row = m.row /\ n.user = m.user
  /\ n.expires = m.expires /\ n.code = m.code
  /\ n.dead = m.dead /\ n.overdue = m.overdue
(* What Outdate does to the requests: its own becomes m, the marks of the  *)
(* others are raised.                                                      *)
LEMMA Outdated ==
  ASSUME SessionTyping, NEW p \in Procs, NEW m \in Request, NEW W, NEW all \in BOOLEAN,
         Outdate(W, all, p, m)
  PROVE  /\ req' \in [Procs -> Request]
         /\ req'[p] = m
         /\ \A q \in Procs \ {p} :
              /\ Marked(req[q], req'[q])
              /\ req'[q].raced = (req[q].raced \/ (At(q, "rotate") /\ req[q].row \in W))
              /\ req'[q].late = (req[q].late \/ (all /\ req[q].pc \in Making))
<1>1. \A q \in Procs : req[q] \in Request
  BY DEF SessionTyping
<1>2. ASSUME NEW q \in Procs \ {p}
      PROVE  /\ req'[q] = [req[q] EXCEPT
                  !.raced = req[q].raced \/ (At(q, "rotate") /\ req[q].row \in W),
                  !.late  = req[q].late \/ (all /\ req[q].pc \in Making)]
             /\ req'[q] \in Request
             /\ Marked(req[q], req'[q])
             /\ req'[q].raced = (req[q].raced \/ (At(q, "rotate") /\ req[q].row \in W))
             /\ req'[q].late = (req[q].late \/ (all /\ req[q].pc \in Making))
  BY <1>1 DEF Outdate, Request, Marked
<1> QED
  BY <1>1, <1>2 DEF Outdate

(* Revoking rows changes nothing else of them.                             *)
LEMMA Revoked ==
  ASSUME SessionTyping, NEW W, Revoke(W)
  PROVE  /\ rows' \in Seq(Row) /\ Len(rows') = Len(rows) /\ Rows' = Rows
         /\ \A w \in Rows :
              /\ rows'[w].revoked = (rows[w].revoked \/ w \in W)
              /\ rows'[w].parent = rows[w].parent /\ rows'[w].expires = rows[w].expires
              /\ rows'[w].password = rows[w].password /\ rows'[w].until = rows[w].until
              /\ rows'[w].raced = rows[w].raced /\ rows'[w].late = rows[w].late
<1>1. Len(rows) \in Nat /\ \A w \in Rows : rows[w] \in Row
  BY DEF SessionTyping, Rows
<1>2. \A w \in Rows : [rows[w] EXCEPT !.revoked = @ \/ w \in W] \in Row
  BY <1>1 DEF Row
<1>3. rows' \in Seq(Row) /\ Len(rows') = Len(rows)
  BY <1>1, <1>2 DEF Revoke, Rows
<1>4. \A w \in Rows : rows'[w] = [rows[w] EXCEPT !.revoked = @ \/ w \in W]
  BY DEF Revoke
<1> QED
  BY <1>1, <1>3, <1>4 DEF Rows, Row

-----------------------------------------------------------------------------
(* A step that leaves the rows of the account and of its sessions alone.   *)
Fine(m) ==
  /\ Control(m) /\ Timely(m) /\ Current(m) /\ Unraced(m) /\ ~Creating(m)
  /\ ChangeInProgress \/ FitsPassword(m)
  /\ user.exists \/ m.pc \in {"idle", "insert"}
Alike ==
  /\ rows' \in Seq(Row) /\ Len(rows') = Len(rows)
  /\ \A w \in Rows :
       /\ rows'[w].revoked = rows[w].revoked
       /\ rows'[w].parent = rows[w].parent /\ rows'[w].expires = rows[w].expires
       /\ rows'[w].password = rows[w].password /\ rows'[w].until = rows[w].until
       /\ rows'[w].raced = rows[w].raced /\ rows'[w].late = rows[w].late
(* A step that changes neither an account nor what a row says of its       *)
(* session preserves the invariant.                                        *)
LEMMA AlikeStep ==
  ASSUME SessionInv, NEW p \in Procs, NEW m \in Request, Begin(p, m),
         Alike, UNCHANGED <<user, now, workload>>, active' \in 0..Len(rows),
         req[p].pc # "revokeAll", Fine(m), CodeTyping'
  PROVE  SessionInv'
<1>1. /\ req' \in [Procs -> Request]
      /\ req'[p] = m /\ \A q \in Procs \ {p} : req'[q] = req[q]
  BY Began DEF SessionInv, Typing
<1>2. Typing'
  BY <1>1 DEF SessionInv, Typing, SessionTyping, Alike
<1>3. Rows' = Rows
  BY DEF Rows, Alike
<1>4. Controlled'
  BY <1>1, <1>3, Zenon DEF SessionInv, Controlled, Fine, Control, Refreshing
<1>5. Lifetimes' /\ Currents'
  <2>1. ASSUME NEW q \in Procs PROVE Timely(req[q])' /\ Current(req[q])'
    <3>1. Control(req'[q]) /\ Timely(req'[q]) /\ Current(req'[q])
      BY <1>1 DEF SessionInv, Controlled, Lifetimes, Currents, Fine
    <3>2. /\ Refreshing(req'[q]) => req'[q].row \in Rows
          /\ req'[q].pc = "session" => req'[q].row \in Rows
      BY <3>1 DEF Control
    <3> QED BY <3>1, <3>2 DEF Timely, Current, Refreshing, Alike
  <2>2. (\A w \in Rows : rows[w].expires = rows[w].until)'
    BY <1>3 DEF SessionInv, Lifetimes, Alike
  <2> QED BY <2>1, <2>2 DEF Lifetimes, Currents
<1>6. NoAccount'
  <2>1. CASE user.exists
    BY <2>1 DEF NoAccount
  <2>2. CASE ~user.exists
    BY <1>1, <2>2 DEF SessionInv, NoAccount, Fine, Alike
  <2> QED BY <2>1, <2>2
<1>7. Parents'
  <2>1. Parents
    BY DEF SessionInv, RefreshInv
  <2> QED BY <1>3, <2>1 DEF Parents, Alike
<1>a. RefreshedOnce'
  <2>1. RefreshedOnce
    BY DEF SessionInv, RefreshInv
  <2> QED BY <1>3, <2>1 DEF RefreshedOnce, Alike
<1>b. ASSUME NEW q \in Procs PROVE Unraced(req[q])'
  <2>1. Control(req'[q]) /\ Unraced(req'[q])
    BY <1>1 DEF SessionInv, Controlled, RefreshInv, Fine
  <2>2. Refreshing(req'[q]) => req'[q].row \in Rows
    BY <2>1 DEF Control
  <2> QED BY <2>1, <2>2 DEF Unraced, Refreshing, Alike
<1>8. OneUnraced'
  <2>1. OneUnraced
    BY DEF SessionInv, RefreshInv
  <2> QED BY <1>1, <1>3, <2>1 DEF OneUnraced, Fine, Creating, Alike
<1>9. PasswordInv'
  <2>1. ChangeInProgress => ChangeInProgress'
    BY <1>1 DEF ChangeInProgress, At
  <2>2. NoSessionOutlivesChange => NoSessionOutlivesChange'
    BY <1>3, <2>1 DEF NoSessionOutlivesChange, Alike
  <2>3. ASSUME NEW q \in Procs, FitsPassword(req'[q]) PROVE FitsPassword(req[q])'
    <3>1. Control(req'[q])
      BY <1>1 DEF SessionInv, Controlled, Fine
    <3>2. Refreshing(req'[q]) => req'[q].row \in Rows
      BY <3>1 DEF Control
    <3> QED BY <2>3, <3>2 DEF FitsPassword, SignsIn, Refreshing, Alike
  <2>4. ChangeInProgress \/ \A q \in Procs : FitsPassword(req'[q])
    BY <1>1 DEF SessionInv, PasswordInv, Fine
  <2> QED
    BY <2>1, <2>2, <2>3, <2>4 DEF SessionInv, PasswordInv
<1> QED
  BY <1>2, <1>4, <1>5, <1>6, <1>7, <1>8, <1>9, <1>a, <1>b DEF SessionInv, RefreshInv

(* In particular a step that leaves the rows as they are.                  *)
LEMMA QuietStep ==
  ASSUME SessionInv, NEW p \in Procs, NEW m \in Request, Begin(p, m),
         UNCHANGED <<user, rows, now, workload>>, active' \in 0..Len(rows),
         req[p].pc # "revokeAll", Fine(m), CodeTyping'
  PROVE  SessionInv'
<1>1. Alike
  BY DEF Alike, SessionInv, Typing, SessionTyping
<1> QED BY <1>1, AlikeStep

(* What the steps need to know of the request that takes them.             *)
LEMMA Held ==
  ASSUME SessionInv, NEW p \in Procs
  PROVE  /\ req[p] \in Request /\ Control(req[p]) /\ Timely(req[p]) /\ Current(req[p])
         /\ Unraced(req[p])
         /\ ChangeInProgress \/ FitsPassword(req[p])
         /\ user.exists \/ req[p].pc \in {"idle", "insert"}
BY DEF SessionInv, Typing, SessionTyping, Controlled, Lifetimes, Currents, RefreshInv,
       PasswordInv, NoAccount

(* A request that ends, or that waits to insert an account, holds nothing. *)
LEMMA IdleFine == Fine(Idle)
BY DEF Fine, Idle, Control, Timely, Current, Unraced, Creating, FitsPassword, Refreshing,
       SignsIn, Resending, Validated

(* In particular one that ends its request.                                *)
LEMMA FinishStep ==
  ASSUME SessionInv, NEW p \in Procs, Finish(p), UNCHANGED <<user, rows, now, workload>>,
         active' \in 0..Len(rows), req[p].pc # "revokeAll", CodeTyping'
  PROVE  SessionInv'
BY IdleFine, IdleTyped, QuietStep DEF Finish, Begin

(* Rows and accounts are typed; the account of a row exists.               *)
LEMMA RowTyped ==
  ASSUME SessionInv
  PROVE  /\ \A w \in Rows : rows[w] \in Row /\ w \in 1..MaxSessions /\ w \in Nat
         /\ Len(rows) \in 0..MaxSessions /\ user \in UserRow /\ now \in Nat
         /\ active \in 0..Len(rows)
         /\ ~user.exists => user = NoUser /\ Rows = {}
BY Constants DEF SessionInv, Typing, SessionTyping, Rows, NoAccount

(* Requests that begin, are validated, or find what they will change.      *)
LEMMA QuietSessionSteps ==
  ASSUME SessionInv, NEW p \in Procs, CodeTyping',
         \/ Login(p) \/ Refresh(p) \/ CheckActive(p) \/ CheckSession(p) \/ CheckUser(p)
         \/ CheckResetToken(p) \/ Visit(p) \/ Deactivate(p) \/ FindSession(p) \/ ChangePassword(p)
         \/ ResetPassword(p) \/ FindUser(p)
  PROVE  SessionInv'
<1> USE Constants, IdleTyped, RowTyped
<1>1. CASE Login(p)
  <2>1. PICK expires \in Nat :
          Begin(p, [Idle EXCEPT !.pc = "create", !.op = "login", !.user = user,
                                !.expires = expires])
    <3>1. PICK remember \in BOOLEAN :
            Begin(p, [Idle EXCEPT !.pc = "create", !.op = "login", !.user = user,
                        !.expires = now + IF remember THEN RememberTtl ELSE AccessTtl])
      BY <1>1, Zenon DEF Login
    <3>2. (now + IF remember THEN RememberTtl ELSE AccessTtl) \in Nat
      OBVIOUS
    <3> QED BY <3>1, <3>2, Zenon
  <2> DEFINE m == [Idle EXCEPT !.pc = "create", !.op = "login", !.user = user,
                               !.expires = expires]
  <2>2. m \in Request /\ Fine(m)
    BY <1>1 DEF Login, Idle, Request, Steps, Operations, Fine, Control, Timely, Current,
      Unraced, Creating, FitsPassword, Refreshing, SignsIn, Resending, Validated
  <2> QED BY <1>1, <2>1, <2>2, QuietStep DEF Login, sessionVars, codesSame, Ready, At
<1>2. CASE Refresh(p)
  <2>1. PICK w \in Rows :
          /\ FoundForRefresh(w) /\ now <= rows[w].expires /\ user.active
          /\ Begin(p, [Idle EXCEPT !.pc = "rotate", !.op = "refresh", !.user = user,
                          !.row = w, !.expires = rows[w].expires,
                          !.overdue = now > rows[w].until])
    BY <1>2 DEF Refresh
  <2> DEFINE m == [Idle EXCEPT !.pc = "rotate", !.op = "refresh", !.user = user,
                          !.row = w, !.expires = rows[w].expires,
                          !.overdue = now > rows[w].until]
  <2>2. rows[w].expires = rows[w].until /\ rows[w] \in Row
    BY DEF SessionInv, Lifetimes
  <2>a. /\ m.pc = "rotate" /\ m.op = "refresh" /\ m.row = w /\ ~m.raced
        /\ m.expires = rows[w].expires /\ ~m.dead
        /\ m.overdue = (now > rows[w].until)
    BY DEF Idle
  <2>b. (now > rows[w].until) \in BOOLEAN /\ w \in 0..MaxSessions /\ rows[w].expires \in Nat
    BY <2>2 DEF Row
  <2>3. m \in Request
    BY <2>b DEF Idle, Request, Steps, Operations, Guarded
  <2>d. Begin(p, m)
    BY <2>1
  <2> HIDE DEF m
  <2>c. ~m.overdue
    <3>1. now \in Nat /\ rows[w].until \in Nat /\ now <= rows[w].until
      BY <2>1, <2>2 DEF Row
    <3>2. ~(now > rows[w].until)
      BY <3>1
    <3> QED BY <3>2, <2>a, Zenon
  <2>4. Control(m) /\ Timely(m) /\ Current(m) /\ Unraced(m) /\ ~Creating(m)
    BY <2>1, <2>a, <2>c DEF Control, Timely, Current, FoundForRefresh,
      Unraced, Creating, Refreshing, Resending, Validated
  <2>5. ChangeInProgress \/ FitsPassword(m)
    BY <2>1, <2>a DEF SessionInv, PasswordInv, NoSessionOutlivesChange, FoundForRefresh,
      FitsPassword, Refreshing, SignsIn
  <2>6. Fine(m)
    BY <2>4, <2>5 DEF Fine
  <2> QED BY <1>2, <2>d, <2>3, <2>6, QuietStep DEF Refresh, sessionVars, codesSame, Ready, At
<1>3. CASE CheckActive(p)
  <2>1. PICK op \in Guarded, w \in Rows :
          /\ Ready(p, op)
          /\ Begin(p, [Idle EXCEPT !.pc = "session", !.op = op, !.row = w,
                          !.dead = rows[w].revoked, !.overdue = now > rows[w].until])
          /\ UNCHANGED sessionVars /\ codesSame
    BY <1>3 DEF CheckActive
  <2> DEFINE m == [Idle EXCEPT !.pc = "session", !.op = op, !.row = w,
                     !.dead = rows[w].revoked, !.overdue = now > rows[w].until]
  <2>2. rows[w].expires = rows[w].until /\ rows[w] \in Row
    BY DEF SessionInv, Lifetimes
  <2>3. m \in Request
    <3>1. (now > rows[w].until) \in BOOLEAN /\ rows[w].revoked \in BOOLEAN /\ w \in 0..MaxSessions
      BY <2>2 DEF Row
    <3> QED BY <3>1 DEF Idle, Request, Steps, Operations, Guarded
  <2>4. user.exists
    OBVIOUS
  <2>5. Fine(m)
    BY <2>2, <2>4 DEF Row, Idle, Fine, Control, Timely, Current, Guarded,
      Unraced, Creating, Refreshing, Resending, Validated, FitsPassword, SignsIn
  <2> QED BY <2>1, <2>3, <2>5, QuietStep DEF sessionVars, codesSame, Ready, At
<1>4. CASE CheckSession(p)
  <2> DEFINE m == [req[p] EXCEPT !.pc = "user"]
  <2>1. CASE SessionAccepted(req[p].row)
    <3>1. Begin(p, m)
      BY <1>4, <2>1, Zenon DEF CheckSession, Goto, Begin
    <3>2. m \in Request
      BY Held DEF Request, Steps
    <3>3. /\ m.pc = "user" /\ m.row = req[p].row /\ m.dead = req[p].dead
          /\ m.overdue = req[p].overdue
      BY Held DEF Request
    <3> HIDE DEF m
    <3>4. m.row \in Rows /\ ~m.dead /\ ~m.overdue
      <4>1. Control(req[p]) /\ Current(req[p]) /\ Timely(req[p]) /\ req[p].pc = "session"
        BY <1>4, Held DEF CheckSession, At
      <4>2. req[p].row \in Rows
        BY <4>1 DEF Control
      <4>3. rows[req[p].row].expires \in Nat
        BY <4>2 DEF Row
      <4> QED BY <2>1, <3>3, <4>1, <4>2, <4>3 DEF SessionAccepted, Current, Timely
    <3>5. Fine(m)
      BY <3>3, <3>4 DEF Fine, Control, Timely, Current, Unraced, Creating,
        Refreshing, Resending, FitsPassword, SignsIn
    <3> QED BY <1>4, <3>1, <3>2, <3>5, QuietStep DEF CheckSession, At, sessionVars, codesSame
  <2>2. CASE ~SessionAccepted(req[p].row)
    BY <1>4, <2>2, FinishStep DEF CheckSession, At, sessionVars, codesSame
  <2> QED BY <2>1, <2>2
<1>5. CASE CheckUser(p)
  <2> DEFINE m == [req[p] EXCEPT !.pc = "handler"]
  <2>1. CASE UserAccepted(req[p])
    <3>1. Begin(p, m)
      BY <1>5, <2>1, Zenon DEF CheckUser, Goto, Begin
    <3>2. m \in Request
      BY Held DEF Request, Steps
    <3>3. /\ m.pc = "handler" /\ m.row = req[p].row /\ m.dead = req[p].dead
          /\ m.overdue = req[p].overdue
      BY Held DEF Request
    <3> HIDE DEF m
    <3>4. Fine(m)
      BY <1>5, <3>3, Held DEF CheckUser, At, Fine, Control, Timely, Current, Unraced,
        Creating, Refreshing, Resending, FitsPassword, SignsIn, Validated
    <3> QED BY <1>5, <3>1, <3>2, <3>4, QuietStep DEF CheckUser, At, sessionVars, codesSame
  <2>2. CASE ~UserAccepted(req[p])
    BY <1>5, <2>2, FinishStep DEF CheckUser, At, sessionVars, codesSame
  <2> QED BY <2>1, <2>2
<1>12. CASE CheckResetToken(p)
  <2>1. PICK op \in Guarded : /\ user.active
                             /\ Begin(p, [Idle EXCEPT !.pc = "handler", !.op = op])
    BY <1>12 DEF CheckResetToken, UserAccepted
  <2> DEFINE m == [Idle EXCEPT !.pc = "handler", !.op = op]
  <2>2. m \in Request
    BY DEF Idle, Request, Steps, Operations
  <2>3. user.exists
    BY <2>1 DEF NoUser
  <2>4. Fine(m)
    BY <2>3 DEF Idle, Fine, Control, Timely, Current, Unraced, Creating, Refreshing, Resending,
      Validated, FitsPassword, SignsIn
  <2> QED BY <1>12, <2>1, <2>2, <2>4, QuietStep
          DEF CheckResetToken, Ready, At, sessionVars, codesSame
<1>6. CASE Visit(p)
  BY <1>6, FinishStep DEF Visit, InHandler, At, sessionVars, codesSame
<1>7. CASE Deactivate(p)
  BY <1>7, FinishStep DEF Deactivate, At, sessionVars, codesSame
<1>8. CASE FindSession(p)
  <2>1. PICK w \in Rows : req' = [req EXCEPT ![p].pc = "revoke", ![p].row = w]
    BY <1>8 DEF FindSession
  <2> DEFINE m == [req[p] EXCEPT !.pc = "revoke", !.row = w]
  <2>a. req[p] \in Request /\ w \in 0..MaxSessions /\ req \in [Procs -> Request]
    BY Held DEF SessionInv, Typing, SessionTyping
  <2>2. Begin(p, m) /\ m \in Request
    <3>1. m \in Request
      BY <2>a DEF Request, Steps
    <3>2. Begin(p, m)
      BY <2>1, <2>a DEF Begin
    <3> QED BY <3>1, <3>2
  <2>3. m.pc = "revoke" /\ m.row = w /\ m.dead = req[p].dead /\ m.overdue = req[p].overdue
    BY Held DEF Request
  <2> HIDE DEF m
  <2>4. Fine(m)
    BY <1>8, <2>3, Held DEF FindSession, InHandler, At, Fine, Control, Timely, Current,
      Unraced, Creating, Refreshing, Resending, FitsPassword, SignsIn, Validated
  <2> QED BY <1>8, <2>2, <2>4, QuietStep DEF FindSession, InHandler, At, sessionVars, codesSame
<1>9. CASE ChangePassword(p)
  <2> DEFINE m == [req[p] EXCEPT !.pc = "setPassword"]
  <2>1. Begin(p, m)
    BY <1>9, Zenon DEF ChangePassword, Goto, Begin
  <2>2. m \in Request
    BY Held DEF Request, Steps
  <2>3. m.pc = "setPassword" /\ m.dead = req[p].dead /\ m.overdue = req[p].overdue
    BY Held DEF Request
  <2> HIDE DEF m
  <2>4. Fine(m)
    BY <1>9, <2>3, Held DEF ChangePassword, InHandler, At, Fine, Control, Timely, Current,
      Unraced, Creating, Refreshing, Resending, FitsPassword, SignsIn, Validated
  <2> QED BY <1>9, <2>1, <2>2, <2>4, QuietStep
    DEF ChangePassword, InHandler, At, sessionVars, codesSame
<1>10. CASE ResetPassword(p)
  <2> DEFINE m == [Idle EXCEPT !.pc = "setPassword", !.op = "reset"]
  <2>1. m \in Request
    BY DEF Idle, Request, Steps, Operations
  <2>2. Fine(m)
    BY <1>10 DEF ResetPassword, Idle, Fine, Control, Timely, Current, NoUser,
      Unraced, Creating, Refreshing, Resending, FitsPassword, SignsIn, Validated
  <2> QED BY <1>10, <2>1, <2>2, QuietStep DEF ResetPassword, Ready, At, sessionVars, codesSame
<1>11. CASE FindUser(p)
  <2>1. PICK op \in {"activate", "disable", "edit"} :
          /\ Ready(p, op)
          /\ user.exists
          /\ Begin(p, [Idle EXCEPT !.pc = "saveUser", !.op = op, !.user = user])
    BY <1>11 DEF FindUser
  <2> DEFINE m == [Idle EXCEPT !.pc = "saveUser", !.op = op, !.user = user]
  <2>2. m \in Request /\ Fine(m)
    BY <2>1 DEF Idle, Request, Steps, Operations, Fine, Control, Timely, Current,
      Unraced, Creating, Refreshing, Resending, FitsPassword, SignsIn, Validated
  <2> QED BY <1>11, <2>1, <2>2, QuietStep DEF FindUser, Ready, At, sessionVars, codesSame
<1> QED
  BY <1>1, <1>2, <1>3, <1>4, <1>5, <1>6, <1>7, <1>8, <1>9, <1>10, <1>11, <1>12

(* A request about codes that goes on to its next command.                 *)
Sending == Resending \cup {"setCode", "clearAttempts", "mail", "setCooldown", "countResend"}
Verifying(m) ==
  m.pc \in {"compare", "deleteCode"} \/ (m.pc = "clearAttempts" /\ m.op \notin Senders)
(* A request about codes may go on to the next of its commands.            *)
LEMMA CodeGoto ==
  ASSUME SessionInv, NEW p \in Procs, CodeTyping',
         NEW pc \in Sending \cup {"count", "deleteCode", "accepted"}, Goto(p, pc),
         UNCHANGED user, accountSame,
         req[p].pc \in Sending \cup {"compare", "deleteCode"},
         (\/ pc \in {"count", "deleteCode", "accepted"}
          \/ pc = "clearAttempts" /\ req[p].op \notin Senders)
           => Verifying(req[p]),
         pc \in Resending => req[p].op = "resend",
         pc = "setCode" => req[p].op \in Senders,
         pc = "deleteCode" => req[p].code # 0
  PROVE  SessionInv'
<1> DEFINE m == [req[p] EXCEPT !.pc = pc]
<1>1. Begin(p, m)
  BY Zenon DEF Goto, Begin
<1>2. /\ req[p] \in Request /\ Control(req[p])
      /\ ChangeInProgress \/ FitsPassword(req[p])
      /\ (user.exists \/ req[p].pc \in {"idle", "insert"})
  BY Held
<1>3. pc \in Steps
  BY DEF Sending, Resending, Steps
<1>4. /\ m \in Request
      /\ m.pc = pc /\ m.op = req[p].op /\ m.row = req[p].row
      /\ m.user = req[p].user /\ m.late = req[p].late /\ m.code = req[p].code
  <2>1. req[p] \in Request
    BY <1>2
  <2>2. m \in Request
    BY <2>1, <1>3 DEF Request
  <2>3. /\ m.pc = pc /\ m.op = req[p].op /\ m.row = req[p].row
        /\ m.user = req[p].user /\ m.late = req[p].late /\ m.code = req[p].code
    BY <2>1 DEF Request
  <2> QED BY <2>2, <2>3
<1> HIDE DEF m
<1>5. Control(m)
  <2>1. pc \notin {"rotate", "create", "sign", "session", "user", "handler", "revoke", "insert",
                   "compare", "saveUser"}
    BY DEF Sending, Resending
  <2>2. Verifying(req[p]) => req[p].row = 0 /\ req[p].op # "refresh"
    BY <1>2 DEF Control, Verifying
  <2> QED BY <1>4, <2>1, <2>2 DEF Control, Refreshing
<1>6. Timely(m) /\ Current(m) /\ Unraced(m) /\ ~Creating(m) /\ ~Refreshing(m)
  BY <1>4 DEF Timely, Current, Unraced, Creating, Refreshing, Sending, Resending, Validated
<1>7. ChangeInProgress \/ FitsPassword(m)
  BY <1>2, <1>4, <1>6 DEF FitsPassword, SignsIn, Verifying, Sending, Resending
<1>8. Fine(m)
  BY <1>2, <1>5, <1>6, <1>7 DEF Fine, Sending, Resending
<1>9. active' \in 0..Len(rows) /\ req[p].pc # "revokeAll"
  BY RowTyped DEF accountSame, Sending, Resending
<1> QED
  BY <1>1, <1>4, <1>8, <1>9, QuietStep DEF accountSame

(* Requests that send or verify a code, until one signs in.                *)
LEMMA QuietCodeSteps ==
  ASSUME SessionInv, NEW p \in Procs, CodeTyping',
         \/ Register(p) \/ Forgot(p) \/ Resend(p) \/ CheckCooldown(p)
         \/ InvalidateCode(p) \/ InvalidateAttempts(p) \/ InvalidateResends(p)
         \/ SetCode(p) \/ ClearAttempts(p) \/ Mail(p) \/ SetCooldown(p) \/ CountResend(p)
         \/ EnterVerified(p) \/ CheckAttempts(p) \/ Compare(p) \/ CountAttempt(p)
         \/ DeleteCode(p)
  PROVE  SessionInv'
<1> USE Constants, IdleTyped, RowTyped
<1>a. Control(req[p]) /\ issued \in 0..MaxCodes
  BY Held DEF SessionInv, Typing, CodeTyping
<1>b. accountSame => active' \in 0..Len(rows)
  BY DEF accountSame
<1>1. CASE Register(p)
  <2> DEFINE m == [Idle EXCEPT !.pc = "insert", !.op = "register"]
  <2>1. m \in Request
    BY DEF Idle, Request, Steps, Operations
  <2>2. Fine(m)
    BY DEF Idle, Fine, Control, Timely, Current, Unraced, Creating, Refreshing,
      Resending, FitsPassword, SignsIn, Validated
  <2> QED BY <1>1, <1>b, <2>1, <2>2, QuietStep DEF Register, Ready, At, accountSame
<1>2. CASE Forgot(p)
  <2> DEFINE m == [Idle EXCEPT !.pc = "setCode", !.op = "forgot"]
  <2>1. m \in Request
    BY DEF Idle, Request, Steps, Operations
  <2>2. Fine(m)
    BY <1>2 DEF Forgot, NoUser, Idle, Fine, Control, Timely, Current, Unraced, Creating,
      Refreshing, Resending, Senders, FitsPassword, SignsIn, Validated
  <2> QED BY <1>2, <1>b, <2>1, <2>2, QuietStep DEF Forgot, Ready, At, accountSame
<1>3. CASE Resend(p)
  <2> DEFINE m == [Idle EXCEPT !.pc = "cooldown", !.op = "resend"]
  <2>1. m \in Request
    BY DEF Idle, Request, Steps, Operations
  <2>2. Fine(m)
    BY <1>3 DEF Resend, NoUser, Idle, Fine, Control, Timely, Current, Unraced, Creating,
      Refreshing, Resending, Senders, FitsPassword, SignsIn, Validated
  <2> QED BY <1>3, <1>b, <2>1, <2>2, QuietStep DEF Resend, Ready, At, accountSame
<1>4. CASE CheckCooldown(p)
  <2>1. CASE Goto(p, "invalidate")
    BY <1>a, <1>4, <2>1, CodeGoto DEF CheckCooldown, Control, At, Sending, Resending
  <2>2. CASE Finish(p)
    BY <1>b, <1>4, <2>2, FinishStep DEF CheckCooldown, At, accountSame
  <2> QED BY <1>4, <2>1, <2>2 DEF CheckCooldown
<1>5. CASE InvalidateCode(p)
  BY <1>a, <1>5, CodeGoto DEF InvalidateCode, Command, Control, At, Sending, Resending
<1>6. CASE InvalidateAttempts(p)
  BY <1>a, <1>6, CodeGoto DEF InvalidateAttempts, Command, Control, At, Sending, Resending
<1>7. CASE InvalidateResends(p)
  BY <1>a, <1>7, CodeGoto DEF InvalidateResends, Command, Control, At, Sending, Resending, Senders
<1>8. CASE SetCode(p)
  BY <1>a, <1>8, CodeGoto DEF SetCode, Command, Control, At, Sending, Resending
<1>9. CASE ClearAttempts(p)
  <2>1. UNCHANGED user /\ accountSame /\ req[p].pc = "clearAttempts"
    BY <1>9 DEF ClearAttempts, Command, At
  <2>2. CASE req[p].op \in {"forgot", "resend"}
    <3>1. Goto(p, "mail")
      BY <1>9, <2>2 DEF ClearAttempts
    <3> QED BY <2>1, <3>1, CodeGoto DEF Sending, Resending
  <2>3. CASE req[p].op = "register"
    <3>1. Finish(p)
      BY <1>9, <2>3 DEF ClearAttempts
    <3> QED BY <1>b, <2>1, <3>1, FinishStep DEF accountSame
  <2>4. CASE req[p].op \notin Senders
    <3>1. Goto(p, "accepted")
      BY <1>9, <2>4 DEF ClearAttempts, Senders
    <3> QED BY <2>1, <2>4, <3>1, CodeGoto DEF Sending, Verifying, Resending
  <2> QED BY <2>2, <2>3, <2>4 DEF Senders
<1>10. CASE Mail(p)
  <2>1. CASE Goto(p, "setCooldown")
    BY <1>10, <2>1, CodeGoto DEF Mail, At, Sending, Resending
  <2>2. CASE Finish(p)
    BY <1>b, <1>10, <2>2, FinishStep DEF Mail, At, accountSame
  <2> QED BY <1>10, <2>1, <2>2 DEF Mail
<1>11. CASE SetCooldown(p)
  <2>1. CASE Goto(p, "countResend")
    BY <1>11, <2>1, CodeGoto DEF SetCooldown, Command, At, Sending, Resending
  <2>2. CASE Finish(p)
    BY <1>b, <1>11, <2>2, FinishStep DEF SetCooldown, Command, At, accountSame
  <2> QED BY <1>11, <2>1, <2>2 DEF SetCooldown
<1>12. CASE CountResend(p)
  BY <1>b, <1>12, FinishStep DEF CountResend, Command, At, accountSame
<1>13. CASE EnterVerified(p)
  <2> DEFINE m == [Idle EXCEPT !.pc = "create", !.op = "verifyEmail", !.user = user,
                     !.expires = now + AccessTtl]
  <2>1. m \in Request
    <3>1. now + AccessTtl \in Nat
      OBVIOUS
    <3> QED BY <3>1 DEF Idle, Request, Steps, Operations
  <2>2. Fine(m)
    BY <1>13 DEF EnterVerified, NoUser, Idle, Fine, Control, Timely, Current, Unraced, Creating,
      Refreshing, Resending, Senders, FitsPassword, SignsIn, Validated
  <2> QED BY <1>13, <1>b, <2>1, <2>2, QuietStep DEF EnterVerified, Ready, At, accountSame
<1>14. CASE CheckAttempts(p)
  <2>1. PICK op \in {"verifyEmail", "verifyReset"}, guess \in 0..issued :
          /\ Ready(p, op)
          /\ user.active
          /\ Begin(p, [Idle EXCEPT !.pc = "compare", !.op = op, !.user = user,
                         !.code = guess, !.dead = guess \in consumed])
    BY <1>14 DEF CheckAttempts
  <2> DEFINE m == [Idle EXCEPT !.pc = "compare", !.op = op, !.user = user,
                     !.code = guess, !.dead = guess \in consumed]
  <2>2. m \in Request
    <3>1. guess \in 0..MaxCodes
      BY <1>a
    <3>2. ASSUME NEW dead \in BOOLEAN
          PROVE  [Idle EXCEPT !.pc = "compare", !.op = op, !.user = user,
                              !.code = guess, !.dead = dead] \in Request
      BY <3>1 DEF Idle, Request, Steps, Operations
    <3>3. (guess \in consumed) \in BOOLEAN
      OBVIOUS
    <3> QED BY <3>2, <3>3, Zenon
  <2>3. Fine(m)
    BY <2>1 DEF NoUser, Idle, Fine, Control, Timely, Current, Unraced, Creating,
      Refreshing, Resending, Senders, FitsPassword, SignsIn, Validated
  <2> QED BY <1>14, <1>b, <2>1, <2>2, <2>3, QuietStep DEF CheckAttempts, Ready, At, accountSame
<1>15. CASE Compare(p)
  <2>1. UNCHANGED user /\ accountSame /\ req[p].pc = "compare"
    BY <1>15 DEF Compare, At
  <2>2. CASE Matches(p)
    <3>1. Goto(p, "deleteCode") /\ req[p].code # 0
      BY <1>15, <2>2 DEF Compare, Matches
    <3> QED BY <2>1, <3>1, CodeGoto DEF Verifying, Resending
  <2>3. CASE ~Matches(p)
    <3>1. Goto(p, "count")
      BY <1>15, <2>3 DEF Compare
    <3> QED BY <2>1, <3>1, CodeGoto DEF Verifying, Resending
  <2> QED BY <2>2, <2>3
<1>16. CASE CountAttempt(p)
  BY <1>b, <1>16, FinishStep DEF CountAttempt, Command, At, accountSame
<1>17. CASE DeleteCode(p)
  BY <1>17, CodeGoto DEF DeleteCode, At, Sending, Verifying, Resending
<1> QED
  BY <1>1, <1>2, <1>3, <1>4, <1>5, <1>6, <1>7, <1>8, <1>9, <1>10, <1>11, <1>12, <1>13,
     <1>14, <1>15, <1>16, <1>17

-----------------------------------------------------------------------------
(* A step that changes the account, whose password only as it begins to    *)
(* revoke the sessions made with the old one.                              *)
LEMMA AccountStep ==
  ASSUME SessionInv, NEW p \in Procs, NEW m \in Request, Begin(p, m),
         UNCHANGED <<rows, now, active, workload>>, CodeTyping',
         user' \in UserRow, user'.exists,
         m.pc = "revokeAll" \/ user'.password = user.password,
         req[p].pc # "revokeAll",
         Control(m), Timely(m), Current(m), Unraced(m), ~Creating(m),
         ChangeInProgress \/ FitsPassword(m)
  PROVE  SessionInv'
<1>1. /\ req' \in [Procs -> Request]
      /\ req'[p] = m /\ \A q \in Procs \ {p} : req'[q] = req[q]
  BY Began DEF SessionInv, Typing
<1>2. Typing'
  BY <1>1 DEF SessionInv, Typing, SessionTyping
<1>3. Rows' = Rows
  BY DEF Rows
<1>4. Controlled'
  BY <1>1, <1>3, ZenonT(30) DEF SessionInv, Controlled, Control, Refreshing
<1>5. Lifetimes' /\ Currents'
  <2>1. \A q \in Procs : Timely(req[q])' /\ Current(req[q])'
    BY <1>1 DEF SessionInv, Lifetimes, Currents, Timely, Refreshing, Current
  <2> QED BY <1>3, <2>1 DEF SessionInv, Lifetimes, Currents
<1>6. NoAccount'
  BY DEF NoAccount
<1>7. Parents' /\ RefreshedOnce' /\ \A q \in Procs : Unraced(req[q])'
  BY <1>1, <1>3 DEF SessionInv, RefreshInv, Parents, RefreshedOnce, Unraced
<1>8. OneUnraced'
  BY <1>1, <1>3 DEF SessionInv, RefreshInv, OneUnraced, Creating
<1>9. PasswordInv'
  <2>1. ChangeInProgress => ChangeInProgress'
    BY <1>1 DEF ChangeInProgress, At
  <2>2. CASE m.pc = "revokeAll"
    BY <1>1, <2>2 DEF PasswordInv, ChangeInProgress, At
  <2>3. CASE user'.password = user.password
    <3>1. NoSessionOutlivesChange => NoSessionOutlivesChange'
      BY <1>3, <2>1, <2>3 DEF NoSessionOutlivesChange
    <3> QED
      BY <1>1, <2>1, <2>3, <3>1 DEF SessionInv, PasswordInv, FitsPassword, SignsIn, Refreshing
  <2> QED BY <2>2, <2>3
<1> QED
  BY <1>2, <1>4, <1>5, <1>6, <1>7, <1>8, <1>9 DEF SessionInv, RefreshInv

(* Inserting, verifying, saving the account, a new password or version.    *)
LEMMA AccountSteps ==
  ASSUME SessionInv, NEW p \in Procs, CodeTyping',
         \/ InsertUser(p) \/ Accepted(p) \/ SetPassword(p) \/ BumpVersion(p) \/ SaveUser(p)
  PROVE  SessionInv'
<1> USE Constants, IdleTyped, RowTyped
<1>a. /\ req[p] \in Request /\ Control(req[p]) /\ Timely(req[p]) /\ Current(req[p])
      /\ ChangeInProgress \/ FitsPassword(req[p])
      /\ user.exists \/ req[p].pc \in {"idle", "insert"}
  BY Held
<1>b. /\ Control(Idle) /\ Timely(Idle) /\ Current(Idle) /\ Unraced(Idle) /\ ~Creating(Idle)
      /\ ChangeInProgress \/ FitsPassword(Idle)
  BY IdleFine DEF Fine
<1>1. CASE InsertUser(p)
  <2>1. CASE user.exists
    BY <1>1, <2>1, FinishStep DEF InsertUser, At, accountSame
  <2>2. CASE ~user.exists
    <3> DEFINE created == [NoUser EXCEPT !.exists = TRUE, !.active = TRUE]
               m == [req[p] EXCEPT !.pc = "create", !.user = created, !.expires = now + AccessTtl]
    <3>1. /\ req[p].pc = "insert" /\ user' = created /\ accountSame
          /\ req' = [req EXCEPT ![p].pc = "create", ![p].user = created,
                                ![p].expires = now + AccessTtl]
      BY <1>1, <2>2 DEF InsertUser, At
    <3>2. created \in UserRow /\ created.exists /\ created.password = 0
      BY DEF NoUser, UserRow
    <3>3. user.password = 0
      BY <2>2 DEF NoUser
    <3> HIDE DEF created
    <3>4. now + AccessTtl \in Nat
      OBVIOUS
    <3>5. m \in Request
      BY <1>a, <3>2, <3>4 DEF Request, Steps
    <3>6. /\ m.pc = "create" /\ m.op = req[p].op /\ m.row = req[p].row /\ m.user = created
          /\ m.late = req[p].late
      BY <1>a DEF Request
    <3>7. Begin(p, m)
      <4>1. req \in [Procs -> Request]
        BY DEF SessionInv, Typing, SessionTyping
      <4> QED BY <3>1, <4>1 DEF Begin
    <3> HIDE DEF m
    <3>8. Control(m) /\ Timely(m) /\ Current(m) /\ Unraced(m) /\ ~Creating(m)
      BY <1>a, <3>1, <3>6 DEF Control, Timely, Current, Unraced, Creating, Refreshing,
        Resending, Validated
    <3>9. FitsPassword(m)
      BY <3>2, <3>3, <3>6, <3>8 DEF FitsPassword, Refreshing, Creating
    <3> QED BY <3>1, <3>2, <3>3, <3>5, <3>7, <3>8, <3>9, AccountStep DEF accountSame
  <2> QED BY <2>1, <2>2
<1>2. CASE Accepted(p)
  <2>1. CASE req[p].op = "verifyReset"
    BY <1>2, <2>1, FinishStep DEF Accepted, At, accountSame
  <2>2. CASE req[p].op # "verifyReset"
    <3> DEFINE m == [req[p] EXCEPT !.pc = "create", !.expires = now + AccessTtl]
    <3>1. /\ req[p].pc = "accepted" /\ user' = [user EXCEPT !.verified = TRUE] /\ accountSame
          /\ req' = [req EXCEPT ![p].pc = "create", ![p].expires = now + AccessTtl]
      BY <1>2, <2>2 DEF Accepted, At
    <3>2. user' \in UserRow /\ user'.exists /\ user'.password = user.password
      <4>1. user \in UserRow /\ user.exists
        BY <1>a, <3>1
      <4> QED BY <3>1, <4>1 DEF UserRow
    <3>4. now + AccessTtl \in Nat
      OBVIOUS
    <3>5. m \in Request
      BY <1>a, <3>4 DEF Request, Steps
    <3>6. /\ m.pc = "create" /\ m.op = req[p].op /\ m.row = req[p].row /\ m.user = req[p].user
          /\ m.late = req[p].late
      BY <1>a DEF Request
    <3>7. Begin(p, m)
      <4>1. req \in [Procs -> Request]
        BY DEF SessionInv, Typing, SessionTyping
      <4> QED BY <3>1, <4>1 DEF Begin
    <3> HIDE DEF m
    <3>8. Control(m) /\ Timely(m) /\ Current(m) /\ Unraced(m) /\ ~Creating(m)
      BY <1>a, <3>1, <3>6 DEF Control, Timely, Current, Unraced, Creating, Refreshing,
        Resending, Validated
    <3>9. ChangeInProgress \/ FitsPassword(m)
      BY <1>a, <3>1, <3>6, <3>8 DEF FitsPassword, SignsIn, Refreshing, Creating
    <3> QED BY <3>1, <3>2, <3>5, <3>7, <3>8, <3>9, AccountStep DEF accountSame
  <2> QED BY <2>1, <2>2
<1>3. CASE SetPassword(p)
  <2> DEFINE m == [req[p] EXCEPT !.pc = "revokeAll"]
  <2>1. /\ req[p].pc = "setPassword" /\ user.password < MaxPasswords
        /\ user' = [user EXCEPT !.password = user.password + 1]
        /\ UNCHANGED <<rows, active, now, workload>>
    BY <1>3 DEF SetPassword, At, codesSame
  <2>2. user' \in UserRow /\ user'.exists
    <3>1. user \in UserRow /\ user.exists
      BY <1>a, <2>1
    <3>2. user.password + 1 \in 0..MaxPasswords
      <4>1. user.password \in 0..MaxPasswords
        BY <3>1 DEF UserRow
      <4> QED BY <2>1, <4>1
    <3> QED BY <2>1, <3>1, <3>2 DEF UserRow
  <2>3. Begin(p, m)
    BY <1>3, Zenon DEF SetPassword, Goto, Begin
  <2>4. m \in Request
    BY <1>a DEF Request, Steps
  <2>5. m.pc = "revokeAll" /\ m.dead = req[p].dead /\ m.overdue = req[p].overdue
    BY <1>a DEF Request
  <2> HIDE DEF m
  <2>6. /\ Control(m) /\ Timely(m) /\ Current(m) /\ Unraced(m) /\ ~Creating(m)
        /\ FitsPassword(m)
    BY <1>a, <2>1, <2>5 DEF Control, Timely, Current, Unraced, Creating, Refreshing,
      Resending, Validated, FitsPassword, SignsIn
  <2> QED BY <2>1, <2>2, <2>3, <2>4, <2>5, <2>6, AccountStep
<1>4. CASE BumpVersion(p)
  <2>1. /\ req[p].pc = "bump" /\ user.version < MaxVersions
        /\ user' = [user EXCEPT !.version = user.version + 1]
        /\ Begin(p, Idle) /\ UNCHANGED <<rows, active, now, workload>>
    BY <1>4 DEF BumpVersion, At, codesSame, Finish, Begin
  <2>2. user' \in UserRow /\ user'.exists /\ user'.password = user.password
    <3>1. user \in UserRow /\ user.exists
      BY <1>a, <2>1
    <3>2. user.version + 1 \in 0..MaxVersions
      <4>1. user.version \in 0..MaxVersions
        BY <3>1 DEF UserRow
      <4> QED BY <2>1, <4>1
    <3> QED BY <2>1, <3>1, <3>2 DEF UserRow
  <2> QED BY <1>b, <2>1, <2>2, AccountStep
<1>5. CASE SaveUser(p)
  <2>1. /\ req[p].pc = "saveUser"
        /\ Begin(p, Idle) /\ UNCHANGED <<rows, active, now, workload>>
    BY <1>5 DEF SaveUser, At, codesSame, Finish, Begin
  <2>2. PICK on \in BOOLEAN :
          user' = [req[p].user EXCEPT !.password = user.password, !.active = on]
    <3>1. req[p].user.active \in BOOLEAN
      BY <1>a DEF Request, UserRow
    <3>2. (CASE req[p].op = "activate" -> TRUE
             [] req[p].op = "disable"  -> FALSE
             [] OTHER                  -> req[p].user.active) \in BOOLEAN
      BY <3>1
    <3> QED BY <1>5, <3>2, Zenon DEF SaveUser
  <2>3. user' \in UserRow /\ user'.exists /\ user'.password = user.password
    <3>1. req[p].user \in UserRow /\ req[p].user.exists /\ user \in UserRow
      BY <1>a, <2>1 DEF Request, Control
    <3> QED BY <2>2, <3>1 DEF UserRow
  <2> QED BY <1>b, <2>1, <2>3, AccountStep
<1> QED
  BY <1>1, <1>2, <1>3, <1>4, <1>5

-----------------------------------------------------------------------------
(* A step that revokes the rows in W, and all of them if all.              *)
Leaves(p, m) == m.pc \in {"idle", "deactivate", "bump"} /\ ~m.dead /\ ~m.overdue
Rotates(p, m, W) ==
  /\ req[p].pc = "rotate" /\ m.pc = "create" /\ W = {req[p].row}
  /\ m.op = req[p].op /\ m.row = req[p].row /\ m.expires = req[p].expires
  /\ m.raced = req[p].raced /\ m.late = req[p].late
(* Revoking a set of sessions preserves the invariant: the requests that   *)
(* hold one of them are marked, and the one that revoked ends or, in a     *)
(* rotation, goes on to create the next.                                   *)
LEMMA RevokeStep ==
  ASSUME SessionInv, NEW p \in Procs, NEW m \in Request, NEW W, NEW all \in BOOLEAN,
         Revoke(W), Outdate(W, all, p, m),
         UNCHANGED <<user, active, now, workload>>, CodeTyping', user.exists,
         all => Rows \subseteq W,
         ~all => req[p].pc # "revokeAll",
         Leaves(p, m) \/ (~all /\ Rotates(p, m, W))
  PROVE  SessionInv'
<1>1. /\ req' \in [Procs -> Request]
      /\ req'[p] = m
      /\ \A q \in Procs \ {p} :
           /\ Marked(req[q], req'[q])
           /\ req'[q].raced = (req[q].raced \/ (At(q, "rotate") /\ req[q].row \in W))
           /\ req'[q].late = (req[q].late \/ (all /\ req[q].pc \in Making))
  BY Outdated DEF SessionInv, Typing
<1>2. /\ rows' \in Seq(Row) /\ Len(rows') = Len(rows) /\ Rows' = Rows
      /\ \A w \in Rows :
           /\ rows'[w].revoked = (rows[w].revoked \/ w \in W)
           /\ rows'[w].parent = rows[w].parent /\ rows'[w].expires = rows[w].expires
           /\ rows'[w].password = rows[w].password /\ rows'[w].until = rows[w].until
           /\ rows'[w].raced = rows[w].raced /\ rows'[w].late = rows[w].late
  BY Revoked DEF SessionInv, Typing
<1>3. Typing'
  BY <1>1, <1>2 DEF SessionInv, Typing, SessionTyping
<1>a. /\ Control(req[p]) /\ Timely(req[p]) /\ Unraced(req[p])
      /\ ChangeInProgress \/ FitsPassword(req[p])
  BY Held
<1>b. Rotates(p, m, W) => Refreshing(m) /\ Creating(m) /\ m.row \in Rows
  BY <1>a DEF Rotates, Control, Refreshing, Creating
<1>c. Leaves(p, m) => ~Refreshing(m) /\ ~Creating(m) /\ ~SignsIn(m)
  BY DEF Leaves, Refreshing, Creating, SignsIn
<1>4. Controlled'
  <2>1. ASSUME NEW q \in Procs PROVE Control(req[q])'
    <3>1. CASE q # p
      <4>1. Control(req[q])
        BY DEF SessionInv, Controlled
      <4> QED BY <1>1, <1>2, <3>1, <4>1 DEF Control, Marked, Refreshing
    <3>2. CASE q = p /\ Leaves(p, m)
      BY <1>1, <3>2 DEF Leaves, Control, Refreshing, Resending
    <3>3. CASE q = p /\ Rotates(p, m, W)
      BY <1>1, <1>2, <1>a, <1>b, <3>3 DEF Rotates, Control, Refreshing, Creating, Resending
    <3> QED BY <3>1, <3>2, <3>3
  <2> QED BY <2>1 DEF Controlled
<1>5. Lifetimes' /\ Currents'
  <2>1. ASSUME NEW q \in Procs PROVE Timely(req[q])' /\ Current(req[q])'
    <3>1. CASE q # p
      <4>1. Control(req[q]) /\ Timely(req[q]) /\ Current(req[q])
        BY DEF SessionInv, Controlled, Lifetimes, Currents
      <4>2. /\ Marked(req[q], req'[q])
            /\ \A w \in Rows : /\ rows'[w].expires = rows[w].expires
                               /\ rows[w].revoked => rows'[w].revoked
        BY <1>1, <1>2, <3>1
      <4>3. Refreshing(req[q]) \/ req[q].pc = "session" => req[q].row \in Rows
        BY <4>1 DEF Control
      <4>4. Timely(req[q])'
        BY <4>1, <4>2, <4>3 DEF Timely, Marked, Refreshing
      <4>5. Current(req[q])'
        BY <4>1, <4>2, <4>3 DEF Current, Marked
      <4> QED BY <4>4, <4>5
    <3>2. CASE q = p /\ Leaves(p, m)
      BY <1>1, <3>2 DEF Leaves, Timely, Current, Refreshing
    <3>3. CASE q = p /\ Rotates(p, m, W)
      BY <1>1, <1>2, <1>a, <1>b, <3>3 DEF Rotates, Timely, Current, Refreshing, Creating, Validated
    <3> QED BY <3>1, <3>2, <3>3
  <2>2. (\A w \in Rows : rows[w].expires = rows[w].until)'
    BY <1>2 DEF SessionInv, Lifetimes
  <2> QED BY <2>1, <2>2 DEF Lifetimes, Currents
<1>6. NoAccount'
  BY DEF NoAccount
<1>7. Parents' /\ RefreshedOnce'
  <2>1. Parents /\ RefreshedOnce
    BY DEF SessionInv, RefreshInv
  <2>2. \A w \in Rows : /\ rows'[w].parent = rows[w].parent
                        /\ rows[w].revoked => rows'[w].revoked
                        /\ rows[w].raced => rows'[w].raced
    BY <1>2
  <2>3. Parents'
    BY <1>2, <2>1, <2>2 DEF Parents
  <2>4. RefreshedOnce'
    BY <1>2, <2>1, <2>2 DEF RefreshedOnce
  <2> QED BY <2>3, <2>4
<1>8. \A q \in Procs : Unraced(req[q])'
  <2>1. ASSUME NEW q \in Procs PROVE Unraced(req[q])'
    <3>1. CASE q # p
      <4>1. Control(req[q]) /\ Unraced(req[q])
        BY DEF SessionInv, Controlled, RefreshInv
      <4>2. /\ Marked(req[q], req'[q])
            /\ req[q].raced => req'[q].raced
            /\ At(q, "rotate") /\ req[q].row \in W => req'[q].raced
        BY <1>1, <3>1
      <4>3. \A w \in Rows : /\ rows[w].revoked => rows'[w].revoked
                            /\ ~rows[w].revoked /\ w \notin W => ~rows'[w].revoked
        BY <1>2
      <4>4. Refreshing(req[q]) => req[q].row \in Rows
        BY <4>1 DEF Control
      <4>5. req'[q].pc = req[q].pc /\ req'[q].op = req[q].op /\ req'[q].row = req[q].row
        BY <4>2 DEF Marked
      <4>6. ASSUME req'[q].pc = "rotate", ~req'[q].raced PROVE ~rows'[req'[q].row].revoked
        BY <4>1, <4>2, <4>3, <4>4, <4>5, <4>6 DEF Unraced, Refreshing, At
      <4>7. ASSUME req'[q].pc = "create", req'[q].op = "refresh"
            PROVE  rows'[req'[q].row].revoked
        <5>1. req[q].row \in Rows /\ rows[req[q].row].revoked
          BY <4>1, <4>4, <4>5, <4>7 DEF Unraced, Refreshing
        <5>2. rows'[req[q].row].revoked
          BY <4>3, <5>1
        <5> QED BY <4>5, <5>2
      <4> QED BY <4>6, <4>7 DEF Unraced
    <3>2. CASE q = p /\ Leaves(p, m)
      BY <1>1, <3>2 DEF Leaves, Unraced
    <3>3. CASE q = p /\ Rotates(p, m, W)
      BY <1>1, <1>2, <1>b, <3>3 DEF Rotates, Unraced
    <3> QED BY <3>1, <3>2, <3>3
  <2> QED BY <2>1
<1>9. OneUnraced'
  <2>1. ASSUME NEW q \in Procs, Creating(req[q]), Rotates(p, m, W), req[q].row = m.row
        PROVE  m.raced
    <3>1. rows[req[q].row].revoked
      BY <2>1 DEF SessionInv, RefreshInv, Unraced, Creating
    <3> QED BY <1>a, <2>1, <3>1 DEF Rotates, Unraced
  <2>2. ASSUME NEW w \in Rows, Rotates(p, m, W), rows[w].parent = m.row
        PROVE  m.raced
    <3>1. m.row # 0 /\ rows[m.row].revoked
      <4>1. m.row # 0
        BY <1>b, <2>2 DEF Rows
      <4> QED BY <2>2, <4>1 DEF SessionInv, RefreshInv, Parents
    <3> QED BY <1>a, <2>2, <3>1 DEF Rotates, Unraced
  <2>3. \A q \in Procs \ {p} :
          /\ Creating(req'[q]) <=> Creating(req[q])
          /\ req'[q].row = req[q].row /\ (req[q].raced => req'[q].raced)
    BY <1>1 DEF Marked, Creating
  <2>4. OneUnraced
    BY DEF SessionInv, RefreshInv
  <2>5. Creating(req'[p]) => Rotates(p, m, W) /\ req'[p] = m
    BY <1>1, <1>c
  <2>6. ASSUME NEW q \in Procs, NEW r \in Procs, q # r, Creating(req'[q]), Creating(req'[r]),
               req'[q].row = req'[r].row
        PROVE  req'[q].raced \/ req'[r].raced
    <3>1. CASE q = p
      BY <2>1, <2>3, <2>5, <2>6, <3>1
    <3>2. CASE r = p
      BY <2>1, <2>3, <2>5, <2>6, <3>2
    <3>3. CASE q # p /\ r # p
      BY <2>3, <2>4, <2>6, <3>3 DEF OneUnraced
    <3> QED BY <3>1, <3>2, <3>3
  <2>7. ASSUME NEW q \in Procs, NEW w \in Rows, Creating(req'[q]), rows[w].parent = req'[q].row
        PROVE  req'[q].raced \/ rows[w].raced
    <3>1. CASE q = p
      BY <2>2, <2>5, <2>7, <3>1
    <3>2. CASE q # p
      BY <2>3, <2>4, <2>7, <3>2 DEF OneUnraced
    <3> QED BY <3>1, <3>2
  <2> QED BY <1>2, <2>6, <2>7 DEF OneUnraced, Creating
<1>10. PasswordInv'
  <2>1. CASE all
    <3>1. NoSessionOutlivesChange'
      BY <1>2, <2>1 DEF NoSessionOutlivesChange
    <3>2. ASSUME NEW q \in Procs PROVE FitsPassword(req[q])'
      <4>1. CASE q # p
        <5>1. Marked(req[q], req'[q]) /\ (req[q].pc \in Making => req'[q].late)
          BY <1>1, <2>1, <4>1
        <5> QED BY <5>1 DEF Marked, Making, FitsPassword, SignsIn, Refreshing
      <4>2. CASE q = p
        BY <1>1, <1>c, <2>1, <4>2 DEF FitsPassword, SignsIn, Refreshing
      <4> QED BY <4>1, <4>2
    <3> QED BY <3>1, <3>2 DEF PasswordInv
  <2>2. CASE ~all
    <3>1. ChangeInProgress => ChangeInProgress'
      BY <1>1, <2>2 DEF ChangeInProgress, At, Marked
    <3>2. NoSessionOutlivesChange => NoSessionOutlivesChange'
      BY <1>2, <3>1 DEF NoSessionOutlivesChange
    <3>3. ASSUME NEW q \in Procs, FitsPassword(req[q]) PROVE FitsPassword(req[q])'
      <4>1. CASE q # p
        <5>1. Control(req[q]) /\ Marked(req[q], req'[q]) /\ (req[q].late => req'[q].late)
          BY <1>1, <4>1 DEF SessionInv, Controlled
        <5> QED
          BY <1>2, <3>3, <5>1 DEF Control, Marked, FitsPassword, SignsIn, Refreshing
      <4>2. CASE q = p /\ Leaves(p, m)
        BY <1>1, <1>c, <4>2 DEF FitsPassword, SignsIn, Refreshing
      <4>3. CASE q = p /\ Rotates(p, m, W)
        BY <1>1, <1>2, <1>a, <1>b, <3>3, <4>3
        DEF Rotates, Control, FitsPassword, SignsIn, Refreshing, Creating
      <4> QED BY <4>1, <4>2, <4>3
    <3> QED BY <3>1, <3>2, <3>3 DEF SessionInv, PasswordInv
  <2> QED BY <2>1, <2>2
<1> QED
  BY <1>3, <1>4, <1>5, <1>6, <1>7, <1>8, <1>9, <1>10 DEF SessionInv, RefreshInv

(* The steps that revoke.                                                  *)
LEMMA RevokingSteps ==
  ASSUME SessionInv, NEW p \in Procs, CodeTyping',
         \/ Rotate(p) \/ Logout(p) \/ LogoutAll(p) \/ RevokeSession(p)
         \/ RevokeOtherSessions(p) \/ RevokeAll(p) \/ AdminRevoke(p)
  PROVE  SessionInv'
<1> USE IdleTyped
<1>a. /\ req[p] \in Request /\ Current(req[p]) /\ Timely(req[p])
      /\ user.exists \/ req[p].pc \in {"idle", "insert"}
  BY Held
<1>b. Leaves(p, Idle)
  BY DEF Leaves, Idle
<1> DEFINE m == [req[p] EXCEPT !.pc = "deactivate"]
<1>c. m \in Request
  BY <1>a DEF Request, Steps
<1>d. m.pc = "deactivate" /\ m.dead = req[p].dead /\ m.overdue = req[p].overdue
  BY <1>a DEF Request
<1>e. req[p].pc = "handler" => Leaves(p, m)
  <2> HIDE DEF m
  <2> QED BY <1>a, <1>d DEF Leaves, Current, Timely, Validated
<1>1. CASE Rotate(p)
  <2> DEFINE n == [req[p] EXCEPT !.pc = "create"]
  <2>1. /\ req[p].pc = "rotate" /\ Revoke({req[p].row})
        /\ Outdate({req[p].row}, FALSE, p, n) /\ UNCHANGED <<user, active, now, workload>>
    BY <1>1 DEF Rotate, At, codesSame
  <2>2. n \in Request
    BY <1>a DEF Request, Steps
  <2>3. Rotates(p, n, {req[p].row})
    BY <1>a, <2>1 DEF Rotates, Request
  <2> HIDE DEF n
  <2>4. user.exists
    BY <1>a, <2>1
  <2> QED BY <2>1, <2>2, <2>3, <2>4, RevokeStep
<1>2. CASE Logout(p)
  <2>1. PICK w \in Rows \cup {0} : Revoke({w}) /\ Outdate({w}, FALSE, p, m)
    BY <1>2, Zenon DEF Logout
  <2>2. req[p].pc = "handler" /\ UNCHANGED <<user, active, now, workload>>
    BY <1>2 DEF Logout, InHandler, At, codesSame
  <2> HIDE DEF m
  <2> QED BY <1>a, <1>c, <1>e, <2>1, <2>2, RevokeStep
<1>3. CASE LogoutAll(p)
  <2>1. /\ req[p].pc = "handler" /\ UNCHANGED <<user, active, now, workload>>
        /\ Revoke(Rows) /\ Outdate(Rows, TRUE, p, m)
    BY <1>3 DEF LogoutAll, InHandler, At, codesSame
  <2> HIDE DEF m
  <2> QED BY <1>a, <1>c, <1>e, <2>1, RevokeStep
<1>4. CASE RevokeSession(p)
  <2>1. /\ req[p].pc = "revoke" /\ UNCHANGED <<user, active, now, workload>>
        /\ Revoke({req[p].row}) /\ Outdate({req[p].row}, FALSE, p, Idle)
    BY <1>4 DEF RevokeSession, At, codesSame
  <2> QED BY <1>a, <1>b, <2>1, RevokeStep
<1>5. CASE RevokeOtherSessions(p)
  <2> DEFINE others == Rows \ {req[p].row}
  <2>1. /\ req[p].pc = "handler" /\ UNCHANGED <<user, active, now, workload>>
        /\ Revoke(others) /\ Outdate(others, FALSE, p, Idle)
    BY <1>5 DEF RevokeOtherSessions, InHandler, At, codesSame
  <2> HIDE DEF others
  <2> QED BY <1>a, <1>b, <2>1, RevokeStep
<1>6. CASE RevokeAll(p)
  <2>1. /\ req[p].pc = "revokeAll" /\ UNCHANGED <<user, active, now, workload>>
        /\ Revoke(Rows) /\ Outdate(Rows, TRUE, p, Idle)
    BY <1>6 DEF RevokeAll, RevokedByChange, At, codesSame
  <2> QED BY <1>a, <1>b, <2>1, RevokeStep
<1>7. CASE AdminRevoke(p)
  <2> DEFINE n == [Idle EXCEPT !.pc = "bump", !.op = "adminRevoke"]
  <2>1. /\ UNCHANGED <<user, active, now, workload>> /\ user.exists
        /\ Revoke(Rows) /\ Outdate(Rows, TRUE, p, n)
    BY <1>7 DEF AdminRevoke, codesSame
  <2>2. n \in Request /\ Leaves(p, n)
    BY DEF Request, Steps, Operations, Leaves, Idle
  <2> HIDE DEF n
  <2> QED BY <2>1, <2>2, RevokeStep
<1> QED
  BY <1>1, <1>2, <1>3, <1>4, <1>5, <1>6, <1>7

-----------------------------------------------------------------------------
(* Signing the access token of a session.                                  *)
LEMMA SignStep ==
  ASSUME SessionInv, NEW p \in Procs, CodeTyping', SignAccessToken(p)
  PROVE  SessionInv'
<1> USE Constants, RowTyped
<1>1. /\ req[p] \in Request /\ Control(req[p])
      /\ user.exists \/ req[p].pc \in {"idle", "insert"}
  BY Held
<1> DEFINE w == req[p].row
<1>2. /\ req[p].pc = "sign" /\ active' = w /\ UNCHANGED <<user, now, workload>>
      /\ rows' = [rows EXCEPT ![w].signed = now + AccessTtl,
                              ![w].version = req[p].user.version]
  BY <1>1 DEF SignAccessToken, At, codesSame
<1>3. w \in Rows
  BY <1>1, <1>2 DEF Control
<1>4. now + AccessTtl \in Nat /\ req[p].user.version \in 0..MaxVersions
  <2>1. req[p].user.version \in 0..MaxVersions
    BY <1>1 DEF Request, UserRow
  <2> QED BY <2>1
<1>5. Alike
  <2>1. /\ rows \in Seq(Row) /\ w \in 1..Len(rows) /\ rows[w] \in Row
    BY <1>3 DEF Rows, SessionInv, Typing, SessionTyping
  <2> DEFINE r == [rows[w] EXCEPT !.signed = now + AccessTtl, !.version = req[p].user.version]
  <2>2. rows' = [rows EXCEPT ![w] = r]
    BY <1>2, <2>1
  <2>3. r \in Row
    BY <1>4, <2>1 DEF Row
  <2>4. /\ r.revoked = rows[w].revoked /\ r.parent = rows[w].parent
        /\ r.expires = rows[w].expires /\ r.password = rows[w].password
        /\ r.until = rows[w].until /\ r.raced = rows[w].raced /\ r.late = rows[w].late
    BY <2>1 DEF Row
  <2> HIDE DEF r
  <2>5. rows' \in Seq(Row) /\ Len(rows') = Len(rows)
    BY <2>1, <2>2, <2>3
  <2>6. \A v \in Rows : rows'[v] = IF v = w THEN r ELSE rows[v]
    BY <2>1, <2>2 DEF Rows
  <2> QED BY <2>4, <2>5, <2>6 DEF Alike
<1>6. active' \in 0..Len(rows)
  BY <1>2, <1>3 DEF Rows
<1>7. CASE req[p].op = "register"
  <2> DEFINE m == [req[p] EXCEPT !.pc = "setCode"]
  <2>1. Begin(p, m)
    BY <1>7, Zenon DEF SignAccessToken, Goto, Begin
  <2>2. m \in Request
    BY <1>1 DEF Request, Steps
  <2>3. m.pc = "setCode" /\ m.op = "register"
    BY <1>1, <1>7 DEF Request
  <2> HIDE DEF m
  <2>4. Fine(m)
    BY <1>1, <1>2, <2>3 DEF Fine, Control, Timely, Current, Unraced, Creating, Refreshing,
      Resending, Senders, FitsPassword, SignsIn, Validated
  <2> QED BY <1>2, <1>5, <1>6, <2>1, <2>2, <2>4, AlikeStep
<1>8. CASE req[p].op # "register"
  <2>1. Begin(p, Idle)
    BY <1>8 DEF SignAccessToken, Finish, Begin
  <2> QED BY <1>2, <1>5, <1>6, <2>1, AlikeStep, IdleFine, IdleTyped
<1> QED BY <1>7, <1>8

-----------------------------------------------------------------------------
(* Making a session: the row that CreateRefreshToken appends.              *)
NewRow(m, r) ==
  /\ r \in Row /\ r.parent = m.row /\ r.expires = m.expires /\ ~r.revoked /\ r.raced = m.raced
  /\ IF m.op = "refresh"
     THEN /\ r.password = rows[m.row].password /\ r.until = rows[m.row].until
          /\ r.late = (m.late \/ rows[m.row].late)
     ELSE r.password = m.user.password /\ r.until = m.expires /\ r.late = m.late
(* What the creation of a session adds to the rows.                        *)
LEMMA Created ==
  ASSUME SessionInv, NEW p \in Procs, CreateRefreshToken(p)
  PROVE  /\ rows' \in Seq(Row) /\ Len(rows') = Len(rows) + 1 /\ Len(rows) < MaxSessions
         /\ Rows' = Rows \cup {Len(rows) + 1}
         /\ \A w \in Rows : rows'[w] = rows[w]
         /\ NewRow(req[p], rows'[Len(rows) + 1])
         /\ req[p].pc = "create" /\ UNCHANGED <<user, active, now, workload>>
         /\ Begin(p, [req[p] EXCEPT !.pc = "sign", !.row = Len(rows) + 1])
<1> USE Constants, RowTyped
<1>1. /\ req[p] \in Request /\ Control(req[p]) /\ req[p].pc = "create"
  BY Held DEF CreateRefreshToken, At
<1> DEFINE m == req[p]
           refreshed == m.op = "refresh"
           r == [parent   |-> m.row,
                 expires  |-> m.expires, revoked |-> FALSE,
                 version  |-> 0, signed |-> 0,
                 password |-> IF refreshed THEN rows[m.row].password ELSE m.user.password,
                 until    |-> IF refreshed THEN rows[m.row].until ELSE m.expires,
                 raced    |-> m.raced,
                 late     |-> m.late \/ (refreshed /\ rows[m.row].late)]
<1>2. /\ rows' = Append(rows, r) /\ Len(rows) < workload.sessions
      /\ UNCHANGED <<user, active, now, workload>>
      /\ req' = [req EXCEPT ![p].pc = "sign", ![p].row = Len(rows) + 1]
  BY DEF CreateRefreshToken, ExpiryOf, codesSame
<1>3. r \in Row /\ NewRow(m, r)
  <2>1. refreshed => rows[m.row] \in Row
    BY <1>1 DEF Control, Refreshing
  <2>2. m.user \in UserRow
    BY <1>1 DEF Request
  <2>3. /\ m.row \in 0..MaxSessions /\ m.expires \in Nat /\ m.raced \in BOOLEAN
        /\ m.late \in BOOLEAN /\ m.user.password \in 0..MaxPasswords
    BY <1>1, <2>2 DEF Request, UserRow
  <2>4. refreshed => /\ rows[m.row].password \in 0..MaxPasswords /\ rows[m.row].until \in Nat
                     /\ rows[m.row].late \in BOOLEAN
    BY <2>1 DEF Row
  <2>5. (m.late \/ (refreshed /\ rows[m.row].late)) \in BOOLEAN
    OBVIOUS
  <2> HIDE DEF m
  <2>6. CASE refreshed
    <3>1. r = [parent |-> m.row, expires |-> m.expires, revoked |-> FALSE, version |-> 0,
               signed |-> 0, password |-> rows[m.row].password, until |-> rows[m.row].until,
               raced |-> m.raced, late |-> m.late \/ rows[m.row].late]
      BY <2>6
    <3>2. (m.late \/ rows[m.row].late) \in BOOLEAN
      OBVIOUS
    <3> QED BY <2>3, <2>4, <2>6, <3>1, <3>2 DEF Row, NewRow
  <2>7. CASE ~refreshed
    <3>1. r = [parent |-> m.row, expires |-> m.expires, revoked |-> FALSE, version |-> 0,
               signed |-> 0, password |-> m.user.password, until |-> m.expires,
               raced |-> m.raced, late |-> m.late]
      BY <2>3, <2>7
    <3> QED BY <2>3, <2>7, <3>1 DEF Row, NewRow
  <2> QED BY <2>6, <2>7
<1> HIDE DEF r
<1>4. rows \in Seq(Row) /\ Len(rows) \in Nat
  BY DEF SessionInv, Typing, SessionTyping
<1>5. Len(rows) < MaxSessions
  <2>1. workload.sessions \in 0..MaxSessions
    BY WorkloadAssumption DEF SessionInv, Typing, SessionTyping
  <2> QED BY <1>2, <1>4, <2>1
<1>6. /\ rows' \in Seq(Row) /\ Len(rows') = Len(rows) + 1
      /\ \A w \in Rows : rows'[w] = rows[w]
      /\ rows'[Len(rows) + 1] = r
  BY <1>2, <1>3, <1>4 DEF Rows
<1>7. Rows' = Rows \cup {Len(rows) + 1}
  BY <1>4, <1>6 DEF Rows
<1>8. Begin(p, [req[p] EXCEPT !.pc = "sign", !.row = Len(rows) + 1])
  <2>1. req \in [Procs -> Request]
    BY DEF SessionInv, Typing, SessionTyping
  <2> QED BY <1>2, <2>1 DEF Begin
<1> QED BY <1>1, <1>2, <1>3, <1>5, <1>6, <1>7, <1>8

(* A session is created of a request that fits the password, or by the     *)
(* one refresh that rotated its parent, so the invariant carries over to   *)
(* the new row.                                                            *)
LEMMA CreateStep ==
  ASSUME SessionInv, NEW p \in Procs, CodeTyping', CreateRefreshToken(p)
  PROVE  SessionInv'
<1> USE Constants, RowTyped
<1> DEFINE n == Len(rows) + 1
           m == [req[p] EXCEPT !.pc = "sign", !.row = n]
<1>1. /\ rows' \in Seq(Row) /\ Len(rows') = n /\ n <= MaxSessions
      /\ Rows' = Rows \cup {n}
      /\ \A w \in Rows : rows'[w] = rows[w]
      /\ NewRow(req[p], rows'[n])
      /\ req[p].pc = "create" /\ UNCHANGED <<user, active, now, workload>>
      /\ Begin(p, m)
  <2>1. Len(rows) < MaxSessions
    BY Created
  <2>2. n <= MaxSessions
    BY <2>1
  <2>3. /\ rows' \in Seq(Row) /\ Len(rows') = n
        /\ Rows' = Rows \cup {n}
        /\ \A w \in Rows : rows'[w] = rows[w]
        /\ NewRow(req[p], rows'[n])
        /\ req[p].pc = "create" /\ UNCHANGED <<user, active, now, workload>>
        /\ Begin(p, m)
    BY Created, Zenon
  <2> QED BY <2>2, <2>3
<1>2. /\ req[p] \in Request /\ Control(req[p]) /\ Timely(req[p]) /\ Unraced(req[p])
      /\ ChangeInProgress \/ FitsPassword(req[p])
      /\ user.exists \/ req[p].pc \in {"idle", "insert"}
  BY Held
<1>3. n \in 0..MaxSessions /\ n \notin Rows /\ n # 0
  BY <1>1 DEF Rows
<1>4. m \in Request
  BY <1>2, <1>3 DEF Request, Steps
<1>5. m.pc = "sign" /\ m.row = n
  BY <1>2 DEF Request
<1>6. /\ req' \in [Procs -> Request]
      /\ req'[p] = m /\ \A q \in Procs \ {p} : req'[q] = req[q]
  BY <1>1, <1>4, Began DEF SessionInv, Typing
<1> HIDE DEF m, n
<1>7. Typing'
  <2>1. active \in 0..Len(rows')
    BY <1>1 DEF n
  <2> QED BY <1>1, <1>6, <2>1 DEF SessionInv, Typing, SessionTyping
<1> DEFINE old == req[p]
           row == rows'[n]
           refreshed == old.pc = "create" /\ old.op = "refresh"
<1>8. /\ row.parent = old.row /\ row.expires = old.expires /\ row.raced = old.raced
      /\ ~row.revoked
      /\ refreshed => /\ row.password = rows[old.row].password
                      /\ row.until = rows[old.row].until
                      /\ row.late = (old.late \/ rows[old.row].late)
                      /\ old.row \in Rows /\ rows[old.row].revoked
                      /\ old.expires = rows[old.row].expires
      /\ ~refreshed => /\ row.password = old.user.password /\ row.until = old.expires
                       /\ row.late = old.late /\ old.row = 0
  <2>1. NewRow(old, row) /\ old.pc = "create"
    BY <1>1
  <2>2. CASE old.op = "refresh"
    BY <1>2, <2>1, <2>2 DEF NewRow, Control, Timely, Unraced, Refreshing
  <2>3. CASE old.op # "refresh"
    BY <1>2, <2>1, <2>3 DEF NewRow, Control
  <2> QED BY <2>2, <2>3
<1> HIDE DEF old, row, refreshed
<1>9. Controlled'
  <2>1. ASSUME NEW q \in Procs PROVE Control(req[q])'
    <3>1. CASE q # p
      <4>1. Control(req[q]) /\ req'[q] = req[q] /\ Rows \subseteq Rows'
        BY <1>1, <1>6, <3>1 DEF SessionInv, Controlled
      <4> QED BY <4>1 DEF Control, Refreshing
    <3>2. CASE q = p
      BY <1>1, <1>5, <1>6, <3>2 DEF Control, Refreshing, Resending
    <3> QED BY <3>1, <3>2
  <2> QED BY <2>1 DEF Controlled
<1>a. ASSUME NEW q \in Procs \ {p}, Refreshing(req[q]) \/ req[q].pc = "session"
      PROVE  req[q].row \in Rows /\ rows'[req[q].row] = rows[req[q].row]
  <2>1. Control(req[q])
    BY DEF SessionInv, Controlled
  <2> QED BY <1>1, <1>a, <2>1 DEF Control
<1>10. Lifetimes' /\ Currents' /\ \A q \in Procs : Unraced(req[q])'
  <2>1. ASSUME NEW q \in Procs PROVE Timely(req[q])' /\ Current(req[q])' /\ Unraced(req[q])'
    <3>1. CASE q # p
      <4>1. Timely(req[q]) /\ Current(req[q]) /\ Unraced(req[q]) /\ req'[q] = req[q]
        BY <1>6, <3>1 DEF SessionInv, Lifetimes, Currents, RefreshInv
      <4>2. Timely(req[q])'
        BY <1>1, <1>a, <3>1, <4>1 DEF Timely, Refreshing
      <4>3. Current(req[q])' /\ Unraced(req[q])'
        BY <1>a, <3>1, <4>1 DEF Current, Unraced, Refreshing
      <4> QED BY <4>2, <4>3
    <3>2. CASE q = p
      BY <1>5, <1>6, <3>2 DEF Timely, Current, Unraced, Refreshing, Validated
    <3> QED BY <3>1, <3>2
  <2>2. \A w \in Rows : rows[w].expires = rows[w].until
    BY DEF SessionInv, Lifetimes
  <2>3. row.expires = row.until
    <3>1. CASE refreshed
      BY <1>8, <2>2, <3>1
    <3>2. CASE ~refreshed
      BY <1>8, <3>2
    <3> QED BY <3>1, <3>2
  <2>4. (\A w \in Rows : rows[w].expires = rows[w].until)'
    BY <1>1, <2>2, <2>3 DEF row
  <2> QED BY <2>1, <2>4 DEF Lifetimes, Currents
<1>11. NoAccount'
  BY <1>1, <1>2 DEF NoAccount
<1>12. Parents'
  <2>1. Parents
    BY DEF SessionInv, RefreshInv
  <2>2. ASSUME NEW w \in Rows', rows'[w].parent # 0
        PROVE  rows'[w].parent \in Rows' /\ rows'[rows'[w].parent].revoked
    <3>1. CASE w = n
      BY <1>1, <1>8, <2>2, <3>1 DEF row
    <3>2. CASE w \in Rows
      BY <1>1, <2>1, <2>2, <3>2 DEF Parents
    <3> QED BY <1>1, <3>1, <3>2
  <2> QED BY <2>2 DEF Parents
<1>13. ASSUME NEW w \in Rows, row.parent # 0, rows[w].parent = row.parent
       PROVE  row.raced \/ rows[w].raced
  <2>1. refreshed /\ old.row = rows[w].parent
    BY <1>8, <1>13
  <2>2. Creating(old)
    BY <2>1 DEF refreshed, Creating
  <2>3. old.raced \/ rows[w].raced
    BY <2>1, <2>2 DEF old, SessionInv, RefreshInv, OneUnraced
  <2> QED BY <1>8, <2>3
<1>14. RefreshedOnce'
  <2>1. RefreshedOnce
    BY DEF SessionInv, RefreshInv
  <2>2. ASSUME NEW v \in Rows', NEW w \in Rows', v # w, rows'[v].parent = rows'[w].parent,
               rows'[v].parent # 0
        PROVE  rows'[v].raced \/ rows'[w].raced
    <3>1. CASE v = n
      BY <1>1, <1>13, <2>2, <3>1 DEF row
    <3>2. CASE w = n
      BY <1>1, <1>13, <2>2, <3>2 DEF row
    <3>3. CASE v \in Rows /\ w \in Rows
      BY <1>1, <2>1, <2>2, <3>3 DEF RefreshedOnce
    <3> QED BY <1>1, <3>1, <3>2, <3>3
  <2> QED BY <2>2 DEF RefreshedOnce
<1>15. OneUnraced'
  <2>1. OneUnraced
    BY DEF SessionInv, RefreshInv
  <2>2. ~Creating(req'[p])
    BY <1>5, <1>6 DEF Creating
  <2>3. \A q, r \in Procs :
          (q # r /\ Creating(req'[q]) /\ Creating(req'[r]) /\ req'[q].row = req'[r].row)
            => req'[q].raced \/ req'[r].raced
    BY <1>6, <2>1, <2>2 DEF OneUnraced
  <2>4. ASSUME NEW q \in Procs, NEW w \in Rows', Creating(req'[q]),
               rows'[w].parent = req'[q].row
        PROVE  req'[q].raced \/ rows'[w].raced
    <3>1. q # p /\ req'[q] = req[q] /\ Creating(req[q])
      BY <1>6, <2>2, <2>4
    <3>2. CASE w \in Rows
      BY <1>1, <2>1, <2>4, <3>1, <3>2 DEF OneUnraced
    <3>3. CASE w = n
      <4>1. req[q].row \in Rows
        BY <1>a, <3>1 DEF Creating, Refreshing
      <4>2. req[q].row # 0 /\ row.parent = req[q].row
        BY <2>4, <3>1, <3>3, <4>1 DEF Rows, row
      <4>3. refreshed /\ old.row = req[q].row
        BY <1>8, <4>2
      <4>4. Creating(old)
        BY <4>3 DEF refreshed, Creating
      <4>5. req[q].raced \/ old.raced
        BY <2>1, <3>1, <4>3, <4>4 DEF OneUnraced, old
      <4> QED BY <1>8, <3>1, <3>3, <4>5 DEF row
    <3> QED BY <1>1, <3>2, <3>3
  <2> QED BY <2>3, <2>4 DEF OneUnraced, Creating
<1>16. PasswordInv'
  <2>1. ChangeInProgress => ChangeInProgress'
    BY <1>1, <1>6 DEF ChangeInProgress, At
  <2>2. ASSUME NoSessionOutlivesChange, FitsPassword(old), ~ChangeInProgress
        PROVE  NoSessionOutlivesChange'
    <3>1. row.late \/ row.password = user.password
      <4>1. CASE refreshed
        <5>1. Refreshing(old)
          BY <4>1 DEF refreshed, Refreshing
        <5> QED BY <1>8, <2>2, <4>1, <5>1 DEF FitsPassword
      <4>2. CASE ~refreshed
        <5>1. SignsIn(old)
          BY <1>1, <4>2 DEF refreshed, SignsIn, old
        <5> QED BY <1>8, <2>2, <4>2, <5>1 DEF FitsPassword
      <4> QED BY <4>1, <4>2
    <3> QED BY <1>1, <2>2, <3>1 DEF NoSessionOutlivesChange, row
  <2>3. ASSUME NEW q \in Procs, FitsPassword(req[q]) PROVE FitsPassword(req[q])'
    <3>1. CASE q # p
      BY <1>1, <1>6, <1>a, <2>3, <3>1 DEF FitsPassword, SignsIn, Refreshing
    <3>2. CASE q = p
      BY <1>5, <1>6, <3>2 DEF FitsPassword, SignsIn, Refreshing
    <3> QED BY <3>1, <3>2
  <2> QED
    BY <1>2, <2>1, <2>2, <2>3 DEF SessionInv, PasswordInv, old
<1> QED
  BY <1>7, <1>9, <1>10, <1>11, <1>12, <1>14, <1>15, <1>16 DEF SessionInv, RefreshInv

-----------------------------------------------------------------------------
(* Time passes, and keys run out.                                          *)
LEMMA TickStep ==
  ASSUME SessionInv, CodeTyping', Tick
  PROVE  SessionInv'
<1> USE RowTyped, Constants
<1>1. /\ now' = now + 1 /\ now < MaxNow /\ UNCHANGED <<user, rows, req, workload>>
      /\ active' \in {0, active}
  BY DEF Tick
<1>2. now \in 0..MaxNow /\ now' \in 0..MaxNow /\ active' \in 0..Len(rows) /\ Rows' = Rows
  BY <1>1 DEF Rows, SessionInv, Typing, SessionTyping
<1>3. Typing' /\ Controlled' /\ NoAccount'
  BY <1>1, <1>2 DEF SessionInv, Typing, SessionTyping, Controlled, Control, Refreshing, NoAccount
<1>4. Lifetimes'
  <2>1. ASSUME NEW p \in Procs PROVE Timely(req[p])'
    <3>1. Control(req[p]) /\ Timely(req[p])
      BY DEF SessionInv, Controlled, Lifetimes
    <3>2. req[p].pc = "session" => rows[req[p].row].expires \in Nat
      <4>1. req[p].pc = "session" => rows[req[p].row] \in Row
        BY <3>1 DEF Control
      <4> QED BY <4>1 DEF Row
    <3>3. ASSUME req[p].pc = "session", req[p].overdue
          PROVE  now' > rows[req[p].row].expires
      <4>1. now > rows[req[p].row].expires
        BY <3>1, <3>3 DEF Timely
      <4> QED BY <1>1, <1>2, <3>2, <3>3, <4>1
    <3> QED BY <1>1, <3>1, <3>3 DEF Timely, Refreshing
  <2> QED BY <1>1, <1>2, <2>1 DEF SessionInv, Lifetimes
<1>5. Currents' /\ RefreshInv' /\ PasswordInv'
  <2>1. Currents' = Currents
    BY <1>1, <1>2 DEF Currents, Current
  <2>2. RefreshInv' = RefreshInv
    BY <1>1, <1>2 DEF RefreshInv, Unraced, Parents, OneUnraced, RefreshedOnce, Creating
  <2>3. PasswordInv' = PasswordInv
    BY <1>1, <1>2 DEF PasswordInv, ChangeInProgress, At, NoSessionOutlivesChange, FitsPassword,
      SignsIn, Refreshing
  <2> QED BY <2>1, <2>2, <2>3 DEF SessionInv
<1> QED BY <1>3, <1>4, <1>5 DEF SessionInv

(* A change of the keys alone is no step of a session.                     *)
LEMMA SameSessions ==
  ASSUME SessionInv, CodeTyping', UNCHANGED <<user, rows, active, now, req, workload>>
  PROVE  SessionInv'
<1>1. Rows' = Rows
  BY DEF Rows
<1>2. Typing' /\ Controlled' /\ NoAccount' /\ Lifetimes' /\ Currents'
  BY <1>1 DEF SessionInv, Typing, SessionTyping, Controlled, Control, Refreshing, NoAccount,
    Lifetimes, Timely, Currents, Current
<1>3. RefreshInv' = RefreshInv
  BY <1>1 DEF RefreshInv, Unraced, Parents, OneUnraced, RefreshedOnce, Creating
<1>4. PasswordInv' = PasswordInv
  BY <1>1 DEF PasswordInv, ChangeInProgress, At, NoSessionOutlivesChange, FitsPassword,
    SignsIn, Refreshing
<1> QED BY <1>2, <1>3, <1>4 DEF SessionInv

-----------------------------------------------------------------------------
(* The keys of the codes keep their types.                                 *)
LEMMA PurposeTyped == \A op : Purpose(op) \in Purposes
BY DEF Purpose, Purposes

(* Changing the keys of one purpose leaves the others.                     *)
LEMMA KeysSet ==
  ASSUME CodeTyping, NEW t \in Purposes, NEW keys \in LooseKeys,
         otp' = [otp EXCEPT ![t] = keys]
  PROVE  /\ otp' \in [Purposes -> LooseKeys]
         /\ otp'[t] = keys /\ \A u \in Purposes \ {t} : otp'[u] = otp[u]
BY DEF CodeTyping

(* What each key may be changed to.                                        *)
LEMMA KeysTyped ==
  ASSUME CodeTyping, NEW t \in Purposes
  PROVE  /\ [otp[t] EXCEPT !.attempts = 0] \in LooseKeys
         /\ [otp[t] EXCEPT !.resends = 0] \in LooseKeys
         /\ \A c \in BOOLEAN : [otp[t] EXCEPT !.cooldown = c] \in LooseKeys
         /\ \A c \in 0..MaxCodes : [otp[t] EXCEPT !.code = c] \in LooseKeys
         /\ [otp[t] EXCEPT !.attempts = otp[t].attempts + 1] \in LooseKeys
         /\ [otp[t] EXCEPT !.resends = otp[t].resends + 1] \in LooseKeys
         /\ guesses[t] \in Nat /\ mails[t] \in Nat /\ 0 \in 0..MaxCodes
<1>1. otp[t] \in LooseKeys /\ guesses[t] \in Nat /\ mails[t] \in Nat
  BY DEF CodeTyping
<1>2. otp[t].attempts \in Nat /\ otp[t].resends \in Nat
  BY <1>1 DEF LooseKeys
<1>3. otp[t].attempts + 1 \in Nat /\ otp[t].resends + 1 \in Nat
  BY <1>2
<1>4. 0 \in 0..MaxCodes
  BY Constants
<1> QED
  BY <1>1, <1>3, <1>4 DEF LooseKeys

(* Every command on the keys of a code leaves them typed.                  *)
LEMMA CodeStepTyped ==
  ASSUME SessionInv, NEW p \in Procs, CodeStep(p)
  PROVE  CodeTyping'
<1> DEFINE t == PurposeOf(p)
<1>1. t \in Purposes
  BY PurposeTyped DEF PurposeOf
<1>2. CodeTyping /\ req[p] \in Request /\ Control(req[p]) /\ workload \in Workloads
  BY Held DEF SessionInv, Typing, SessionTyping
<1> HIDE DEF t
<1>a. /\ [otp[t] EXCEPT !.attempts = 0] \in LooseKeys
      /\ [otp[t] EXCEPT !.resends = 0] \in LooseKeys
      /\ \A c \in BOOLEAN : [otp[t] EXCEPT !.cooldown = c] \in LooseKeys
      /\ \A c \in 0..MaxCodes : [otp[t] EXCEPT !.code = c] \in LooseKeys
      /\ [otp[t] EXCEPT !.attempts = otp[t].attempts + 1] \in LooseKeys
      /\ [otp[t] EXCEPT !.resends = otp[t].resends + 1] \in LooseKeys
      /\ guesses[t] \in Nat /\ mails[t] \in Nat /\ 0 \in 0..MaxCodes
  BY <1>1, <1>2, KeysTyped
<1>b. ASSUME NEW keys \in LooseKeys, Command(p, keys), UNCHANGED <<issued, mails>>,
             \/ UNCHANGED guesses
             \/ guesses' = [guesses EXCEPT ![t] = 0]
      PROVE  CodeTyping'
  <2>1. otp' = [otp EXCEPT ![t] = keys] /\ UNCHANGED <<reset, consumed>>
    BY <1>b DEF Command, t
  <2>2. otp' \in [Purposes -> LooseKeys]
    BY <1>1, <1>2, <2>1, KeysSet
  <2>3. guesses' \in [Purposes -> Nat]
    BY <1>1, <1>2, <1>b DEF CodeTyping
  <2> QED BY <1>2, <1>b, <2>1, <2>2, <2>3 DEF CodeTyping
<1>c. ASSUME UNCHANGED codeVars PROVE CodeTyping'
  BY <1>2, <1>c DEF codeVars, CodeTyping
<1>3. CASE \/ Register(p) \/ InsertUser(p) \/ Forgot(p) \/ Resend(p) \/ CheckCooldown(p)
           \/ EnterVerified(p) \/ CheckAttempts(p)
  BY <1>3, <1>c DEF Register, InsertUser, Forgot, Resend, CheckCooldown, EnterVerified,
    CheckAttempts
<1>4. CASE InvalidateCode(p)
  BY <1>4, <1>a, <1>b DEF InvalidateCode, KeysOf, t
<1>5. CASE InvalidateAttempts(p)
  BY <1>5, <1>a, <1>b DEF InvalidateAttempts, KeysOf, t
<1>6. CASE InvalidateResends(p)
  BY <1>6, <1>a, <1>b DEF InvalidateResends, Invalidated, KeysOf, t
<1>7. CASE ClearAttempts(p)
  BY <1>7, <1>a, <1>b DEF ClearAttempts, KeysOf, t
<1>8. CASE SetCooldown(p)
  BY <1>8, <1>a, <1>b DEF SetCooldown, KeysOf, t
<1>9. CASE CountResend(p)
  BY <1>9, <1>a, <1>b DEF CountResend, KeysOf, t
<1>10. CASE CountAttempt(p)
  BY <1>10, <1>a, <1>b DEF CountAttempt, Counted, KeysOf, t
<1>11. CASE SetCode(p)
  <2>1. issued' = issued + 1 /\ issued' \in 0..MaxCodes
    <3>1. workload.codes \in 0..MaxCodes /\ issued \in 0..MaxCodes
      BY <1>2, WorkloadAssumption DEF CodeTyping
    <3>2. issued' = issued + 1 /\ issued < workload.codes
      BY <1>11 DEF SetCode
    <3> QED BY <3>1, <3>2, Constants
  <2>2. otp' = [otp EXCEPT ![t] = [otp[t] EXCEPT !.code = issued']]
        /\ UNCHANGED <<reset, consumed, guesses, mails>>
    BY <1>11 DEF SetCode, Command, KeysOf, t
  <2>3. otp' \in [Purposes -> LooseKeys]
    BY <1>1, <1>2, <1>a, <2>1, <2>2, KeysSet
  <2> QED BY <1>2, <2>1, <2>2, <2>3 DEF CodeTyping
<1>12. CASE Mail(p)
  <2>1. UNCHANGED <<otp, reset, issued, consumed, guesses>>
        /\ (mails' = [mails EXCEPT ![t] = mails[t] + 1] \/ mails' = mails)
    BY <1>12 DEF Mail, t
  <2>2. mails' \in [Purposes -> Nat]
    <3>1. mails[t] + 1 \in Nat
      BY <1>a
    <3> QED BY <1>2, <2>1, <3>1 DEF CodeTyping
  <2> QED BY <1>2, <2>1, <2>2 DEF CodeTyping
<1>13. CASE Compare(p)
  <2>1. UNCHANGED <<otp, reset, issued, consumed, mails>>
        /\ (guesses' = [guesses EXCEPT ![t] = guesses[t] + 1] \/ guesses' = guesses)
    BY <1>13 DEF Compare, t
  <2>2. guesses' \in [Purposes -> Nat]
    <3>1. guesses[t] + 1 \in Nat
      BY <1>a
    <3> QED BY <1>2, <2>1, <3>1 DEF CodeTyping
  <2> QED BY <1>2, <2>1, <2>2 DEF CodeTyping
<1>14. CASE DeleteCode(p)
  <2>1. /\ otp' = [otp EXCEPT ![t] = [otp[t] EXCEPT !.code = 0]]
        /\ consumed' = consumed \cup {req[p].code}
        /\ UNCHANGED <<reset, issued, guesses, mails>>
    BY <1>14 DEF DeleteCode, AfterMatch, t
  <2>2. req[p].code \in 1..MaxCodes
    <3>1. req[p].code \in 0..MaxCodes /\ req[p].code # 0
      BY <1>2, <1>14 DEF Request, Control, DeleteCode, At
    <3> QED BY <3>1, Constants
  <2>3. otp' \in [Purposes -> LooseKeys]
    BY <1>1, <1>2, <1>a, <2>1, KeysSet
  <2> QED BY <1>2, <2>1, <2>2, <2>3 DEF CodeTyping
<1>15. CASE Accepted(p)
  BY <1>2, <1>15 DEF Accepted, CodeTyping
<1> QED
  BY <1>3, <1>4, <1>5, <1>6, <1>7, <1>8, <1>9, <1>10, <1>11, <1>12, <1>13, <1>14, <1>15
  DEF CodeStep

(* So does the end of a key's time.                                        *)
LEMMA ExpireTyped ==
  ASSUME CodeTyping, NEW t \in Purposes, Expire(t)
  PROVE  CodeTyping'
<1>1. PICK keys \in LooseKeys :
        /\ otp' = [otp EXCEPT ![t] = keys]
        /\ guesses' = guesses \/ guesses' = [guesses EXCEPT ![t] = 0]
        /\ mails' = mails \/ mails' = [mails EXCEPT ![t] = 0]
  BY KeysTyped DEF Expire
<1>2. otp' \in [Purposes -> LooseKeys]
  BY <1>1, KeysSet
<1> QED BY <1>1, <1>2 DEF CodeTyping, Expire

-----------------------------------------------------------------------------
(* Every workload starts with sessions that were signed in.                *)
LEMMA SessionInit == Init => SessionInv
<1> SUFFICES ASSUME Init PROVE SessionInv
  OBVIOUS
<1> USE Constants, IdleTyped
<1>1. /\ workload \in Workloads /\ user = workload.user /\ rows = workload.rows
      /\ user \in UserRow /\ rows \in Seq(Row) /\ Len(rows) <= MaxSessions
      /\ \A w \in Rows : SignIn(rows[w], user)
      /\ user.exists \/ (user = NoUser /\ rows = <<>>)
      /\ \A p \in Procs : req[p] = Idle
  BY WorkloadAssumption DEF Init, Rows
<1>2. SessionTyping
  BY <1>1 DEF Init, SessionTyping
<1>3. CodeTyping
  <2>1. NoKeys \in LooseKeys
    BY DEF NoKeys, LooseKeys
  <2>2. reset \in BOOLEAN
    BY <1>1 DEF Init, UserRow
  <2> QED BY <2>1, <2>2 DEF Init, CodeTyping
<1>4. /\ Control(Idle) /\ Timely(Idle) /\ Current(Idle) /\ Unraced(Idle) /\ ~Creating(Idle)
  BY IdleFine DEF Fine
<1>5. Controlled /\ NoAccount /\ Lifetimes /\ Currents
  <2>1. Controlled /\ Currents
    BY <1>1, <1>4 DEF Controlled, Currents
  <2>2. NoAccount
    BY <1>1 DEF NoAccount, Idle
  <2>3. Lifetimes
    BY <1>1, <1>4 DEF Lifetimes, SignIn
  <2> QED BY <2>1, <2>2, <2>3
<1>6. RefreshInv
  BY <1>1, <1>4 DEF RefreshInv, Parents, OneUnraced, RefreshedOnce, SignIn
<1>7. PasswordInv
  <2>1. FitsPassword(Idle)
    BY DEF FitsPassword, Idle, SignsIn, Refreshing
  <2> QED BY <1>1, <2>1 DEF PasswordInv, NoSessionOutlivesChange, SignIn
<1> QED BY <1>2, <1>3, <1>5, <1>6, <1>7 DEF SessionInv, Typing

(* Every step preserves the invariant.                                     *)
LEMMA SessionNext == SessionInv /\ [Next]_vars => SessionInv'
<1> SUFFICES ASSUME SessionInv, [Next]_vars PROVE SessionInv'
  OBVIOUS
<1>0. CodeTyping
  BY DEF SessionInv, Typing
<1>1. ASSUME NEW p \in Procs, SessionStep(p) PROVE SessionInv'
  <2>1. CodeTyping'
    <3>1. UNCHANGED codeVars
      BY <1>1 DEF SessionStep, codesSame, Login, Refresh, Rotate, CreateRefreshToken,
        SignAccessToken, CheckActive, CheckSession, CheckUser, CheckResetToken, Visit, Logout,
    LogoutAll,
        Deactivate, FindSession, RevokeSession, RevokeOtherSessions, ChangePassword,
        ResetPassword, SetPassword, RevokeAll, AdminRevoke, BumpVersion, FindUser, SaveUser
    <3> QED BY <1>0, <3>1 DEF codeVars, CodeTyping
  <2> QED
    BY <1>1, <2>1, QuietSessionSteps, RevokingSteps, AccountSteps, CreateStep, SignStep
    DEF SessionStep
<1>2. ASSUME NEW p \in Procs, CodeStep(p) PROVE SessionInv'
  <2>1. CodeTyping'
    BY <1>2, CodeStepTyped
  <2> QED BY <1>2, <2>1, QuietCodeSteps, AccountSteps DEF CodeStep
<1>3. ASSUME NEW t \in Purposes, Expire(t) PROVE SessionInv'
  <2>1. CodeTyping' /\ UNCHANGED <<user, rows, active, now, req, workload>>
    BY <1>0, <1>3, ExpireTyped DEF Expire, accountSame
  <2> QED BY <2>1, SameSessions
<1>4. CASE ExpireReset
  <2>1. CodeTyping' /\ UNCHANGED <<user, rows, active, now, req, workload>>
    BY <1>0, <1>4 DEF ExpireReset, accountSame, CodeTyping
  <2> QED BY <2>1, SameSessions
<1>5. CASE Tick
  <2>1. CodeTyping'
    BY <1>0, <1>5 DEF Tick, codeVars, CodeTyping
  <2> QED BY <1>5, <2>1, TickStep
<1>6. CASE UNCHANGED vars
  <2>1. CodeTyping' /\ UNCHANGED <<user, rows, active, now, req, workload>>
    BY <1>0, <1>6 DEF vars, sessionVars, codeVars, CodeTyping
  <2> QED BY <2>1, SameSessions
<1> QED
  BY <1>1, <1>2, <1>3, <1>4, <1>5, <1>6 DEF Next

(* The invariant of the sessions holds in every run, for any number of     *)
(* clients, sessions, codes and any workload.                              *)
THEOREM SessionsInv == Spec => []SessionInv
BY SessionInit, SessionNext, PTL DEF Spec

(* A session that was revoked when a request arrived is not accepted by    *)
(* that request, for any number of clients and sessions.                   *)
THEOREM RevokedIsRefused == Spec => []RevokedNeverAccepted
<1>1. SessionInv => RevokedNeverAccepted
  BY DEF SessionInv, Currents, Current, RevokedNeverAccepted, Handled, Validated
<1> QED BY <1>1, SessionsInv, PTL

(* No chain of refreshes stretches a session beyond its sign-in's life.    *)
THEOREM SessionsEnd == Spec => []LifetimeKept
<1>1. SessionInv => LifetimeKept
  BY DEF SessionInv, Lifetimes, Timely, LifetimeKept, Handled, At, Validated
<1> QED BY <1>1, SessionsInv, PTL

(* Two sessions are refreshed from one row only by overlapping refreshes.  *)
THEOREM RefreshTokensAreUsedOnce == Spec => []RefreshedOnce
<1>1. SessionInv => RefreshedOnce
  BY DEF SessionInv, RefreshInv
<1> QED BY <1>1, SessionsInv, PTL

(* After a change of password, what was signed in with the old one and was *)
(* not being made at that moment cannot be used.                           *)
THEOREM PasswordChangeEndsSessions == Spec => []NoSessionOutlivesChange
<1>1. SessionInv => NoSessionOutlivesChange
  BY DEF SessionInv, PasswordInv, NoSessionOutlivesChange
<1> QED BY <1>1, SessionsInv, PTL
=============================================================================
