------------------------------- MODULE MCAuth -------------------------------
EXTENDS Auth, TLC

Clients == Permutations(Procs)

(* A verified account with a session signed in with rememberMe, an account *)
(* that waits for its verification, and none.                              *)
Verified   == [NoUser EXCEPT !.exists = TRUE, !.active = TRUE, !.verified = TRUE]
Unverified == [Verified EXCEPT !.verified = FALSE]
FirstSession == [parent |-> 0, expires |-> RememberTtl, revoked |-> FALSE,
                 version |-> 0, signed |-> AccessTtl, password |-> 0,
                 until |-> RememberTtl, raced |-> FALSE, late |-> FALSE]

SignedIn(ops, sessions, codes) ==
  [ops |-> ops, user |-> Verified, rows |-> <<FirstSession>>,
   sessions |-> sessions, codes |-> codes]
ShortlySignedIn(ops, sessions, codes) ==
  [SignedIn(ops, sessions, codes) EXCEPT
     !.rows = <<[FirstSession EXCEPT !.expires = AccessTtl, !.until = AccessTtl]>>]
Asking(ops, account, codes) ==
  [ops |-> ops, user |-> account, rows |-> <<>>, sessions |-> 1, codes |-> codes]

MCWorkloads ==
  { SignedIn({"login", "change"}, 3, 0),
    SignedIn({"refresh", "reset"}, 3, 0),
    SignedIn({"refresh", "visit", "logout", "logoutAll"}, 2, 0),
    SignedIn({"refresh", "visit", "revoke", "revokeOthers"}, 3, 0),
    SignedIn({"visit", "adminRevoke", "edit"}, 2, 0),
    SignedIn({"login", "visit", "adminRevoke"}, 2, 0),
    ShortlySignedIn({"refresh", "visit", "activate", "disable"}, 3, 0),
    Asking({"resend"}, Unverified, 3),
    Asking({"resend", "verifyEmail"}, Unverified, 2),
    Asking({"register", "verifyEmail"}, NoUser, 2),
    SignedIn({"forgot", "verifyReset"}, 1, 2) }
=============================================================================
