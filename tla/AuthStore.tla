------------------------------ MODULE AuthStore ------------------------------
(***************************************************************************)
(* What the requests of auth.service.ts, jwt.strategy.ts, otp.service.ts   *)
(* and of the admin's user operations share, for one account: its row in   *)
(* users, its rows in refresh_tokens, the key active_token of Redis, and   *)
(* the keys of its one-time codes.  A process stands for a client that     *)
(* sends one request after another.                                        *)
(*                                                                         *)
(* A session is named by the position of its row in `rows`.  Each row is   *)
(* followed by one access token, signed for it, so the row's number names  *)
(* that token (its jti) too.                                               *)
(***************************************************************************)
EXTENDS Naturals, Sequences, FiniteSets

CONSTANTS
  Procs,         \* clients
  Workloads,     \* what they do: the operations, the account they find,
                 \* and bounds on the sessions and codes they make
  AccessTtl,     \* lifetime of an access token, and of a session by default
  RememberTtl,   \* lifetime of a session with rememberMe
  MaxAttempts,   \* otp.maxAttempts
  MaxResends,    \* otp.maxResends
  \* bounds of the instance
  MaxSessions, MaxNow, MaxPasswords, MaxVersions, MaxCodes

ASSUME AuthAssumption ==
  /\ IsFiniteSet(Procs)
  /\ {AccessTtl, RememberTtl, MaxAttempts, MaxResends} \subseteq Nat \ {0}
  /\ {MaxSessions, MaxNow, MaxPasswords, MaxVersions, MaxCodes} \subseteq Nat

VARIABLES
  user,      \* the row of the account
  rows,      \* its refresh tokens, oldest first
  active,    \* active_token: the last access token recorded, 0 if none
  now,       \* the clock
  otp,       \* the one-time code keys, by purpose
  reset,     \* a reset token is in a client's hands
  req,       \* what each client's request holds between two awaits
  workload,  \* the workload, chosen once
  \* history, read by the properties only
  issued,    \* number of codes generated
  consumed,  \* codes that were accepted and deleted
  guesses,   \* by purpose: wrong codes compared since the attempts were cleared
  mails      \* by purpose: mails sent since the cooldown last ran out

sessionVars == <<user, rows, active>>
codeVars    == <<otp, reset, issued, consumed, guesses, mails>>
vars        == <<sessionVars, codeVars, now, req, workload>>

Purposes == {"verify", "reset"}

UserRow == [exists: BOOLEAN, password: 0..MaxPasswords, active: BOOLEAN,
            verified: BOOLEAN, version: 0..MaxVersions]

(* A row of refresh_tokens and what its access token says: parent is the   *)
(* row it was refreshed from (0: a sign-in), signed the expiry of the      *)
(* access token (0: not signed yet) and version its tokenVersion.          *)
(* History: password and until are the password and the end of life of the *)
(* sign-in it descends from; raced: another request revoked the row it was *)
(* refreshed from between its load and its own update; late: all sessions  *)
(* were revoked while it, or an ancestor of it, was being made.            *)
Row == [parent: 0..MaxSessions, expires: Nat, revoked: BOOLEAN,
        version: 0..MaxVersions, signed: Nat,
        password: 0..MaxPasswords, until: Nat, raced: BOOLEAN, late: BOOLEAN]

(* The keys of one purpose.  The resend counter is deleted by every resend *)
(* before it counts itself, so it only counts resends that overlap.        *)
Keys == [code: 0..MaxCodes, attempts: 0..(MaxAttempts - 1 + Cardinality(Procs)),
         resends: 0..Cardinality(Procs), cooldown: BOOLEAN]
NoKeys == [code |-> 0, attempts |-> 0, resends |-> 0, cooldown |-> FALSE]

(* A request: the step it is at, its operation, the session it works on,   *)
(* its copy of the account, the expiry and the sign-in of a new session,   *)
(* the code it guesses or generated; and, for the properties: whether the  *)
(* session was revoked, or past its life, or the code consumed, when the   *)
(* request began, and whether what it loaded has been revoked since.       *)
NoUser == [exists |-> FALSE, password |-> 0, active |-> FALSE,
           verified |-> FALSE, version |-> 0]
Idle == [pc |-> "idle", op |-> "none", row |-> 0, user |-> NoUser,
         expires |-> 0, code |-> 0, dead |-> FALSE, overdue |-> FALSE,
         raced |-> FALSE, late |-> FALSE]

At(p, pc)     == req[p].pc = pc
Ready(p, op)  == At(p, "idle") /\ op \in workload.ops
Begin(p, m)   == req' = [req EXCEPT ![p] = m]
Goto(p, pc)   == req' = [req EXCEPT ![p].pc = pc]
Finish(p)     == req' = [req EXCEPT ![p] = Idle]
Rows          == 1..Len(rows)

(* UPDATE refresh_tokens SET revokedAt for the rows in W.  A refresh that  *)
(* loaded one of them as unrevoked is raced; when all are revoked, what is *)
(* on its way to become a session is late: a refresh, a sign-in, and a     *)
(* verification, which signs in with the account it loaded at its start.   *)
Revoke(W) == rows' = [w \in Rows |-> [rows[w] EXCEPT !.revoked = @ \/ w \in W]]

Making == {"insert", "rotate", "create",
           "compare", "deleteCode", "clearAttempts", "accepted"}

Outdate(W, all, p, m) ==
  req' = [q \in Procs |->
            IF q = p THEN m
            ELSE [req[q] EXCEPT
                    !.raced = @ \/ (At(q, "rotate") /\ req[q].row \in W),
                    !.late  = @ \/ (all /\ req[q].pc \in Making)]]
=============================================================================
