------------------------------ MODULE AuthCodes ------------------------------
(***************************************************************************)
(* One-time codes: otp.service.ts, called by register, verifyEmail,        *)
(* resendVerification, forgotPassword and verifyResetOtp of                *)
(* auth.service.ts.  Each Redis command is a step of its own; INCRBY and   *)
(* the EXPIRE that follows it are one, as nothing but the expiry depends   *)
(* on the second.  A code is named by the order in which it was generated; *)
(* a client guesses any of them, or 0 for a number that is none.           *)
(***************************************************************************)
EXTENDS AuthStore

accountSame == UNCHANGED <<rows, active, now, workload>>
Purpose(op) == IF op \in {"forgot", "verifyReset"} THEN "reset" ELSE "verify"
PurposeOf(p) == Purpose(req[p].op)

(* A command that changes the keys of p's purpose, and nothing else.       *)
Command(p, keys) ==
  /\ otp' = [otp EXCEPT ![PurposeOf(p)] = keys]
  /\ UNCHANGED <<user, reset, consumed>> /\ accountSame
KeysOf(p) == otp[PurposeOf(p)]

-----------------------------------------------------------------------------
(* Requests that send a code.                                              *)

(* register: the address is free; inserting the account checks it again    *)
(* (unique index).                                                         *)
Register(p) ==
  /\ Ready(p, "register")
  /\ ~user.exists
  /\ Begin(p, [Idle EXCEPT !.pc = "insert", !.op = "register"])
  /\ UNCHANGED <<user, codeVars>> /\ accountSame

InsertUser(p) ==
  LET created == [NoUser EXCEPT !.exists = TRUE, !.active = TRUE] IN
  /\ At(p, "insert")
  /\ IF user.exists THEN Finish(p) /\ UNCHANGED user
     ELSE /\ user' = created
          /\ req' = [req EXCEPT ![p].pc = "create", ![p].user = created,
                                ![p].expires = now + AccessTtl]
  /\ UNCHANGED codeVars /\ accountSame

(* forgotPassword, behind its cooldown.                                    *)
Forgot(p) ==
  /\ Ready(p, "forgot")
  /\ user.active /\ ~otp["reset"].cooldown
  /\ Begin(p, [Idle EXCEPT !.pc = "setCode", !.op = "forgot"])
  /\ UNCHANGED <<user, codeVars>> /\ accountSame

(* resendVerification: the number of resends, then the cooldown.           *)
Resend(p) ==
  /\ Ready(p, "resend")
  /\ user.active /\ ~user.verified
  /\ otp["verify"].resends < MaxResends
  /\ Begin(p, [Idle EXCEPT !.pc = "cooldown", !.op = "resend"])
  /\ UNCHANGED <<user, codeVars>> /\ accountSame

CheckCooldown(p) ==
  /\ At(p, "cooldown")
  /\ IF KeysOf(p).cooldown THEN Finish(p) ELSE Goto(p, "invalidate")
  /\ UNCHANGED <<user, codeVars>> /\ accountSame

(* Mutant: the cooldown is invalidated as well.                            *)
InvalidatedCooldown(keys) == [keys EXCEPT !.resends = 0, !.cooldown = FALSE]
(* invalidate: code, attempts and resends, in three commands.              *)
Invalidated(keys) == [keys EXCEPT !.resends = 0]

InvalidateCode(p) ==
  /\ At(p, "invalidate")
  /\ Command(p, [KeysOf(p) EXCEPT !.code = 0])
  /\ Goto(p, "invalidateAttempts")
  /\ UNCHANGED <<issued, guesses, mails>>

InvalidateAttempts(p) ==
  /\ At(p, "invalidateAttempts")
  /\ Command(p, [KeysOf(p) EXCEPT !.attempts = 0])
  /\ guesses' = [guesses EXCEPT ![PurposeOf(p)] = 0]
  /\ Goto(p, "invalidateResends")
  /\ UNCHANGED <<issued, mails>>

InvalidateResends(p) ==
  /\ At(p, "invalidateResends")
  /\ Command(p, Invalidated(KeysOf(p)))
  /\ Goto(p, "setCode")
  /\ UNCHANGED <<issued, guesses, mails>>

(* generate: the code, then the attempts.                                  *)
SetCode(p) ==
  /\ At(p, "setCode")
  /\ issued < workload.codes
  /\ issued' = issued + 1
  /\ Command(p, [KeysOf(p) EXCEPT !.code = issued'])
  /\ Goto(p, "clearAttempts")
  /\ UNCHANGED <<guesses, mails>>

(* Also the last command of verify.                                        *)
ClearAttempts(p) ==
  /\ At(p, "clearAttempts")
  /\ Command(p, [KeysOf(p) EXCEPT !.attempts = 0])
  /\ guesses' = [guesses EXCEPT ![PurposeOf(p)] = 0]
  /\ CASE req[p].op \in {"forgot", "resend"} -> Goto(p, "mail")
       [] req[p].op = "register"             -> Finish(p)
       [] OTHER                              -> Goto(p, "accepted")
  /\ UNCHANGED <<issued, mails>>

(* The mail is sent, or fails: then there is no cooldown.                  *)
Mail(p) ==
  /\ At(p, "mail")
  /\ \/ /\ mails' = [mails EXCEPT ![PurposeOf(p)] = @ + 1]
        /\ Goto(p, "setCooldown")
     \/ UNCHANGED mails /\ Finish(p)
  /\ UNCHANGED <<user, otp, reset, issued, consumed, guesses>> /\ accountSame

SetCooldown(p) ==
  /\ At(p, "setCooldown")
  /\ Command(p, [KeysOf(p) EXCEPT !.cooldown = TRUE])
  /\ IF req[p].op = "resend" THEN Goto(p, "countResend") ELSE Finish(p)
  /\ UNCHANGED <<issued, guesses, mails>>

CountResend(p) ==
  /\ At(p, "countResend")
  /\ Command(p, [KeysOf(p) EXCEPT !.resends = @ + 1])
  /\ Finish(p)
  /\ UNCHANGED <<issued, guesses, mails>>

-----------------------------------------------------------------------------
(* Requests that verify a code.                                            *)

(* verifyEmail of a verified account signs in without a code.              *)
EnterVerified(p) ==
  /\ Ready(p, "verifyEmail")
  /\ user.active /\ user.verified
  /\ Begin(p, [Idle EXCEPT !.pc = "create", !.op = "verifyEmail", !.user = user,
                 !.expires = now + AccessTtl])
  /\ UNCHANGED <<user, codeVars>> /\ accountSame

(* Mutant: one attempt more.                                               *)
AttemptsLeftOneMore(keys) == keys.attempts <= MaxAttempts
(* The attempts are read by the operation and again by verify: the last    *)
(* read decides.                                                           *)
AttemptsLeft(keys) == keys.attempts < MaxAttempts

CheckAttempts(p) ==
  \E op \in {"verifyEmail", "verifyReset"}, guess \in 0..issued :
    /\ Ready(p, op)
    /\ user.active
    /\ op = "verifyEmail" => ~user.verified
    /\ AttemptsLeft(otp[Purpose(op)])
    /\ Begin(p, [Idle EXCEPT !.pc = "compare", !.op = op, !.user = user,
                   !.code = guess, !.dead = guess \in consumed])
    /\ UNCHANGED <<user, codeVars>> /\ accountSame

Matches(p) == req[p].code # 0 /\ KeysOf(p).code = req[p].code

Compare(p) ==
  /\ At(p, "compare")
  /\ IF Matches(p)
     THEN Goto(p, "deleteCode") /\ UNCHANGED guesses
     ELSE /\ Goto(p, "count")
          /\ guesses' = [guesses EXCEPT ![PurposeOf(p)] = @ + 1]
  /\ UNCHANGED <<user, otp, reset, issued, consumed, mails>> /\ accountSame

(* Mutant: the first wrong guess sets the counter, the next ones keep it.  *)
CountedOnce(keys, m) == IF keys.attempts > 0 THEN keys.attempts ELSE 1
(* INCRBY adds to what the key holds now.                                  *)
Counted(keys, m) == keys.attempts + 1

CountAttempt(p) ==
  /\ At(p, "count")
  /\ Command(p, [KeysOf(p) EXCEPT !.attempts = Counted(KeysOf(p), req[p])])
  /\ Finish(p)
  /\ UNCHANGED <<issued, guesses, mails>>

(* Mutant: an accepted code is left to expire.                             *)
AfterMatchKept(keys) == keys
(* The key of the code once verify has accepted it.                        *)
AfterMatch(keys) == [keys EXCEPT !.code = 0]

DeleteCode(p) ==
  /\ At(p, "deleteCode")
  /\ otp' = [otp EXCEPT ![PurposeOf(p)] = AfterMatch(@)]
  /\ consumed' = consumed \cup {req[p].code}
  /\ Goto(p, "clearAttempts")
  /\ UNCHANGED <<user, reset, issued, guesses, mails>> /\ accountSame

(* verifyResetOtp hands out a reset token; verifyEmail marks the account   *)
(* and signs in.                                                           *)
Accepted(p) ==
  /\ At(p, "accepted")
  /\ IF req[p].op = "verifyReset"
     THEN Finish(p) /\ reset' = TRUE /\ UNCHANGED user
     ELSE /\ user' = [user EXCEPT !.verified = TRUE]
          /\ req' = [req EXCEPT ![p].pc = "create", ![p].expires = now + AccessTtl]
          /\ UNCHANGED reset
  /\ UNCHANGED <<otp, issued, consumed, guesses, mails>> /\ accountSame

-----------------------------------------------------------------------------
(* Keys and reset tokens run out.  The attempts were last counted after    *)
(* the code was set, and both live equally long: they outlive it, except   *)
(* for attempts at the previous code that generate is about to clear.      *)
Expire(t) ==
  /\ \/ otp' = [otp EXCEPT ![t].code = 0] /\ UNCHANGED <<guesses, mails>>
     \/ /\ otp[t].code = 0 \/ \E p \in Procs : At(p, "clearAttempts") /\ PurposeOf(p) = t
        /\ otp' = [otp EXCEPT ![t].attempts = 0]
        /\ guesses' = [guesses EXCEPT ![t] = 0]
        /\ UNCHANGED mails
     \/ otp' = [otp EXCEPT ![t].resends = 0] /\ UNCHANGED <<guesses, mails>>
     \/ /\ otp[t].cooldown
        /\ otp' = [otp EXCEPT ![t].cooldown = FALSE]
        /\ mails' = [mails EXCEPT ![t] = 0]
        /\ UNCHANGED guesses
  /\ UNCHANGED <<user, reset, issued, consumed, req>> /\ accountSame

ExpireReset ==
  /\ reset' = FALSE
  /\ UNCHANGED <<user, otp, issued, consumed, guesses, mails, req>> /\ accountSame

CodeStep(p) ==
  \/ Register(p) \/ InsertUser(p) \/ Forgot(p) \/ Resend(p) \/ CheckCooldown(p)
  \/ InvalidateCode(p) \/ InvalidateAttempts(p) \/ InvalidateResends(p)
  \/ SetCode(p) \/ ClearAttempts(p) \/ Mail(p) \/ SetCooldown(p) \/ CountResend(p)
  \/ EnterVerified(p) \/ CheckAttempts(p) \/ Compare(p) \/ CountAttempt(p)
  \/ DeleteCode(p) \/ Accepted(p)
=============================================================================
