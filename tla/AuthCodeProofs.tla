--------------------------- MODULE AuthCodeProofs ---------------------------
(***************************************************************************)
(* The one-time codes, for any number of clients and requests: how many    *)
(* wrong guesses a code stands, how many codes are mailed during a         *)
(* cooldown, how far the counters of Redis run, and that a code is used    *)
(* once.  The counters are read in one step and written in a later one, so *)
(* each bound counts the requests that are between the two.                *)
(***************************************************************************)
EXTENDS AuthSessionProofs

(* Requests that were let through by the attempts and have not counted     *)
(* theirs; those of them whose guess was wrong; those that will send a     *)
(* mail; those that sent it and have not set the cooldown; and those that  *)
(* deleted the resends and have not counted themselves.                    *)
Guesses(m, t)  == m.pc \in {"compare", "count"} /\ Purpose(m.op) = t
Counts(m, t)   == m.pc = "count" /\ Purpose(m.op) = t
WillMail(m, t) ==
  /\ m.pc \in {"invalidate", "invalidateAttempts", "invalidateResends", "setCode",
               "clearAttempts", "mail"}
  /\ m.op \in {"forgot", "resend"} /\ Purpose(m.op) = t
Mailed(m, t)   == m.pc = "setCooldown" /\ Purpose(m.op) = t
Resends(m, t)  ==
  /\ m.pc \in {"setCode", "clearAttempts", "mail", "setCooldown", "countResend"}
  /\ m.op = "resend" /\ Purpose(m.op) = t

Guessing(t) == {p \in Procs : Guesses(req[p], t)}
Counting(t) == {p \in Procs : Counts(req[p], t)}
Mailing(t)  == {p \in Procs : WillMail(req[p], t)}
Cooling(t)  == {p \in Procs : Mailed(req[p], t)}
Retrying(t) == {p \in Procs : Resends(req[p], t)}

NumClients == Cardinality(Procs)
AttemptsBound(t) ==
  /\ otp[t].attempts + Cardinality(Guessing(t)) < MaxAttempts + NumClients
  /\ guesses[t] <= otp[t].attempts + Cardinality(Counting(t))
MailsBound(t) ==
  /\ mails[t] + Cardinality(Mailing(t)) <= NumClients
  /\ otp[t].cooldown \/ mails[t] <= Cardinality(Cooling(t))
ResendsBound(t) == otp[t].resends + Cardinality(Retrying(t)) <= NumClients
BoundsOf(t) == AttemptsBound(t) /\ MailsBound(t) /\ ResendsBound(t)
Bounds == \A t \in Purposes : BoundsOf(t)

Verifies == {"verifyEmail", "verifyReset"}
Asked(m) ==
  /\ m.pc \in {"mail", "setCooldown"} => m.op \in {"forgot", "resend"}
  /\ m.pc = "countResend" => m.op = "resend"
  /\ m.pc \in {"compare", "count", "deleteCode", "accepted"} => m.op \in Verifies
  /\ m.pc = "clearAttempts" => m.op \in Senders \cup Verifies
AllAsked == \A p \in Procs : Asked(req[p])

(* Codes are consumed once: what is consumed is in no key any more, a code *)
(* on its way to be deleted is in its purpose's key only, and a guess of a *)
(* consumed code meets no key that holds it.                               *)
GuessIn(m, keys, last, used) ==
  /\ m.pc \in {"compare", "deleteCode"} => m.code \in 0..last
  /\ m.pc = "compare" /\ m.dead => m.code \in used
  /\ m.pc = "deleteCode" => \A t \in Purposes : keys[t].code = m.code => t = Purpose(m.op)
  /\ m.pc \in {"deleteCode", "accepted"} \/ (m.pc = "clearAttempts" /\ m.op \notin Senders)
       => ~m.dead
Guess(m) == GuessIn(m, otp, issued, consumed)
CodesInv ==
  /\ consumed \subseteq 1..issued
  /\ \A t \in Purposes : otp[t].code \in (0..issued) \ consumed
  /\ \A t, u \in Purposes : t # u /\ otp[t].code = otp[u].code => otp[t].code = 0
  /\ \A p \in Procs : Guess(req[p])

CodeInv == SessionInv /\ AllAsked /\ Bounds /\ CodesInv

-----------------------------------------------------------------------------
(* When only p enters or leaves a set of clients, its size follows.        *)
Shift(before, after, was, is) ==
  /\ before \in Nat /\ after \in Nat /\ after <= NumClients
  /\ (was <=> is) => after = before
  /\ (is => was) => after <= before
  /\ (was => is) => before <= after
  /\ was /\ ~is => before = after + 1
  /\ ~was /\ is => after = before + 1
(* A set of requests that differs in one request at most grows or shrinks  *)
(* by one.                                                                 *)
LEMMA Shifted ==
  ASSUME NEW p \in Procs, NEW S \in SUBSET Procs, NEW T \in SUBSET Procs,
         \A q \in Procs \ {p} : q \in S <=> q \in T
  PROVE  Shift(Cardinality(S), Cardinality(T), p \in S, p \in T)
<1>1. IsFiniteSet(Procs) /\ IsFiniteSet(S) /\ IsFiniteSet(T)
  BY Constants, FS_Subset
<1>2. Cardinality(S) \in Nat /\ Cardinality(T) \in Nat /\ Cardinality(T) <= NumClients
  BY <1>1, FS_Subset, FS_CardinalityType DEF NumClients
<1>3. CASE p \in S <=> p \in T
  <2>1. S = T
    BY <1>3
  <2> QED BY <1>2, <1>3, <2>1 DEF Shift
<1>4. CASE p \in S /\ p \notin T
  <2>1. S = T \cup {p}
    BY <1>4
  <2> QED BY <1>1, <1>2, <1>4, <2>1, FS_AddElement DEF Shift
<1>5. CASE p \notin S /\ p \in T
  <2>1. T = S \cup {p}
    BY <1>5
  <2> QED BY <1>1, <1>2, <1>5, <2>1, FS_AddElement DEF Shift
<1> QED BY <1>3, <1>4, <1>5

(* So it is of the sets of requests between two steps, when only p moves.  *)
OnlyMoves(p) ==
  \A q \in Procs \ {p} : /\ req'[q].pc = req[q].pc /\ req'[q].op = req[q].op
                         /\ req'[q].code = req[q].code /\ req'[q].dead = req[q].dead
(* So it is with each of the five sets the bounds count.                   *)
LEMMA Moved ==
  ASSUME NEW p \in Procs, OnlyMoves(p), NEW t \in Purposes
  PROVE  LET m == req[p]
             n == req'[p] IN
         /\ Shift(Cardinality(Guessing(t)), Cardinality(Guessing(t)'), Guesses(m, t), Guesses(n, t))
         /\ Shift(Cardinality(Counting(t)), Cardinality(Counting(t)'), Counts(m, t), Counts(n, t))
         /\ Shift(Cardinality(Mailing(t)), Cardinality(Mailing(t)'), WillMail(m, t), WillMail(n, t))
         /\ Shift(Cardinality(Cooling(t)), Cardinality(Cooling(t)'), Mailed(m, t), Mailed(n, t))
         /\ Shift(Cardinality(Retrying(t)), Cardinality(Retrying(t)'), Resends(m, t), Resends(n, t))
<1>1. Shift(Cardinality(Guessing(t)), Cardinality(Guessing(t)'),
            Guesses(req[p], t), Guesses(req'[p], t))
  <2>1. \A q \in Procs \ {p} : q \in Guessing(t) <=> q \in Guessing(t)'
    BY DEF OnlyMoves, Guessing, Guesses
  <2>2. Shift(Cardinality(Guessing(t)), Cardinality(Guessing(t)'),
              p \in Guessing(t), p \in Guessing(t)')
    BY <2>1, Shifted DEF Guessing
  <2> QED BY <2>2 DEF Guessing, Shift
<1>2. Shift(Cardinality(Counting(t)), Cardinality(Counting(t)'),
            Counts(req[p], t), Counts(req'[p], t))
  <2>1. \A q \in Procs \ {p} : q \in Counting(t) <=> q \in Counting(t)'
    BY DEF OnlyMoves, Counting, Counts
  <2>2. Shift(Cardinality(Counting(t)), Cardinality(Counting(t)'),
              p \in Counting(t), p \in Counting(t)')
    BY <2>1, Shifted DEF Counting
  <2> QED BY <2>2 DEF Counting, Shift
<1>3. Shift(Cardinality(Mailing(t)), Cardinality(Mailing(t)'),
            WillMail(req[p], t), WillMail(req'[p], t))
  <2>1. \A q \in Procs \ {p} : q \in Mailing(t) <=> q \in Mailing(t)'
    BY DEF OnlyMoves, Mailing, WillMail
  <2>2. Shift(Cardinality(Mailing(t)), Cardinality(Mailing(t)'),
              p \in Mailing(t), p \in Mailing(t)')
    BY <2>1, Shifted DEF Mailing
  <2> QED BY <2>2 DEF Mailing, Shift
<1>4. Shift(Cardinality(Cooling(t)), Cardinality(Cooling(t)'),
            Mailed(req[p], t), Mailed(req'[p], t))
  <2>1. \A q \in Procs \ {p} : q \in Cooling(t) <=> q \in Cooling(t)'
    BY DEF OnlyMoves, Cooling, Mailed
  <2>2. Shift(Cardinality(Cooling(t)), Cardinality(Cooling(t)'),
              p \in Cooling(t), p \in Cooling(t)')
    BY <2>1, Shifted DEF Cooling
  <2> QED BY <2>2 DEF Cooling, Shift
<1>5. Shift(Cardinality(Retrying(t)), Cardinality(Retrying(t)'),
            Resends(req[p], t), Resends(req'[p], t))
  <2>1. \A q \in Procs \ {p} : q \in Retrying(t) <=> q \in Retrying(t)'
    BY DEF OnlyMoves, Retrying, Resends
  <2>2. Shift(Cardinality(Retrying(t)), Cardinality(Retrying(t)'),
              p \in Retrying(t), p \in Retrying(t)')
    BY <2>1, Shifted DEF Retrying
  <2> QED BY <2>2 DEF Retrying, Shift
<1> QED BY <1>1, <1>2, <1>3, <1>4, <1>5

(* Every counter is a natural number.                                      *)
LEMMA CountersTyped ==
  ASSUME CodeTyping, NEW t \in Purposes
  PROVE  /\ otp[t].attempts \in Nat /\ otp[t].resends \in Nat /\ guesses[t] \in Nat
         /\ mails[t] \in Nat /\ NumClients \in Nat /\ MaxAttempts \in Nat \ {0}
         /\ otp[t].code \in 0..MaxCodes
<1>1. otp[t] \in LooseKeys
  BY DEF CodeTyping
<1> QED
  BY <1>1, Constants, FS_CardinalityType DEF LooseKeys, CodeTyping, NumClients

(* A step of p that leaves a counter alone, and does not join those who    *)
(* are about to add to it, keeps the counter's bound.                      *)
LEMMA AttemptsKept ==
  ASSUME CodeTyping, NEW t \in Purposes, AttemptsBound(t), NEW p \in Procs, OnlyMoves(p),
         Guesses(req'[p], t) => Guesses(req[p], t), Counts(req[p], t) => Counts(req'[p], t),
         otp'[t].attempts = otp[t].attempts, guesses'[t] = guesses[t]
  PROVE  AttemptsBound(t)'
<1> DEFINE G == Cardinality(Guessing(t))
           H == Cardinality(Counting(t))
<1>1. Shift(G, G', Guesses(req[p], t), Guesses(req'[p], t))
  BY Moved
<1>a. Shift(H, H', Counts(req[p], t), Counts(req'[p], t))
  BY Moved
<1>2. otp[t].attempts + G < MaxAttempts + NumClients /\ guesses[t] <= otp[t].attempts + H
  BY DEF AttemptsBound
<1> HIDE DEF G, H
<1>3. G' <= G /\ H <= H' /\ G \in Nat /\ G' \in Nat /\ H \in Nat /\ H' \in Nat
  <2>1. G' <= G /\ G \in Nat /\ G' \in Nat
    BY <1>1, Zenon DEF Shift
  <2>2. H <= H' /\ H \in Nat /\ H' \in Nat
    BY <1>a, Zenon DEF Shift
  <2> QED BY <2>1, <2>2, Zenon
<1>4. /\ otp[t].attempts \in Nat /\ guesses[t] \in Nat /\ NumClients \in Nat
      /\ MaxAttempts \in Nat
  BY CountersTyped
<1>5. /\ otp[t].attempts + G' < MaxAttempts + NumClients
      /\ guesses[t] <= otp[t].attempts + H'
  BY <1>2, <1>3, <1>4
<1> QED BY <1>5 DEF AttemptsBound, G, H

(* A step that mails nothing and opens no way to a mail preserves the      *)
(* bound on mails.                                                         *)
LEMMA MailsKept ==
  ASSUME CodeTyping, NEW t \in Purposes, MailsBound(t), NEW p \in Procs, OnlyMoves(p),
         WillMail(req'[p], t) => WillMail(req[p], t), Mailed(req[p], t) => Mailed(req'[p], t),
         otp[t].cooldown => otp'[t].cooldown, mails'[t] = mails[t]
  PROVE  MailsBound(t)'
<1> DEFINE G == Cardinality(Mailing(t))
           H == Cardinality(Cooling(t))
<1>1. Shift(G, G', WillMail(req[p], t), WillMail(req'[p], t))
  BY Moved
<1>a. Shift(H, H', Mailed(req[p], t), Mailed(req'[p], t))
  BY Moved
<1>2. mails[t] + G <= NumClients /\ (otp[t].cooldown \/ mails[t] <= H)
  BY DEF MailsBound
<1> HIDE DEF G, H
<1>3. G' <= G /\ H <= H' /\ G \in Nat /\ G' \in Nat /\ H \in Nat /\ H' \in Nat
  <2>1. G' <= G /\ G \in Nat /\ G' \in Nat
    BY <1>1, Zenon DEF Shift
  <2>2. H <= H' /\ H \in Nat /\ H' \in Nat
    BY <1>a, Zenon DEF Shift
  <2> QED BY <2>1, <2>2, Zenon
<1>4. mails[t] \in Nat /\ NumClients \in Nat
  BY CountersTyped
<1>5. mails[t] + G' <= NumClients /\ (mails[t] <= H => mails[t] <= H')
  BY <1>2, <1>3, <1>4
<1>6. otp'[t].cooldown \/ mails[t] <= H'
  BY <1>2, <1>5
<1> QED BY <1>5, <1>6 DEF MailsBound, G, H

(* A step that adds no resend preserves the bound on resends.              *)
LEMMA ResendsKept ==
  ASSUME CodeTyping, NEW t \in Purposes, ResendsBound(t), NEW p \in Procs, OnlyMoves(p),
         Resends(req'[p], t) => Resends(req[p], t), otp'[t].resends = otp[t].resends
  PROVE  ResendsBound(t)'
<1> DEFINE G == Cardinality(Retrying(t))
<1>1. Shift(G, G', Resends(req[p], t), Resends(req'[p], t))
  BY Moved
<1>2. otp[t].resends + G <= NumClients
  BY DEF ResendsBound
<1> HIDE DEF G
<1>3. G' <= G /\ G \in Nat /\ G' \in Nat
  BY <1>1, Zenon DEF Shift
<1>4. otp[t].resends \in Nat /\ NumClients \in Nat
  BY CountersTyped
<1>5. otp[t].resends + G' <= NumClients
  BY <1>2, <1>3, <1>4
<1> QED BY <1>5 DEF ResendsBound, G

-----------------------------------------------------------------------------
(* The steps that change a counter, or join those about to.                *)
LEMMA SizeOf ==
  ASSUME NEW S \in SUBSET Procs
  PROVE  Cardinality(S) \in Nat /\ Cardinality(S) <= NumClients /\ NumClients \in Nat
BY Constants, FS_Subset, FS_CardinalityType DEF NumClients

(* Where the attempts are cleared the count starts again.                  *)
LEMMA AttemptsCleared ==
  ASSUME NEW t \in Purposes, otp'[t].attempts = 0, guesses'[t] = 0
  PROVE  AttemptsBound(t)'
<1> DEFINE G == Cardinality(Guessing(t))'
           H == Cardinality(Counting(t))'
<1>1. G \in Nat /\ G <= NumClients /\ NumClients \in Nat /\ H \in Nat
  BY SizeOf DEF Guessing, Counting
<1> HIDE DEF G, H
<1>2. 0 + G < MaxAttempts + NumClients /\ 0 <= 0 + H
  BY <1>1, Constants
<1> QED BY <1>2 DEF AttemptsBound, G, H

(* A request let through below the limit adds one guess to come.           *)
LEMMA AttemptAllowed ==
  ASSUME CodeTyping, NEW t \in Purposes, AttemptsBound(t), NEW p \in Procs, OnlyMoves(p),
         otp[t].attempts < MaxAttempts, Counts(req[p], t) => Counts(req'[p], t),
         otp'[t].attempts = otp[t].attempts, guesses'[t] = guesses[t]
  PROVE  AttemptsBound(t)'
<1> DEFINE G == Cardinality(Guessing(t))'
           H == Cardinality(Counting(t))
<1>1. G \in Nat /\ G <= NumClients /\ NumClients \in Nat
  BY SizeOf DEF Guessing
<1>2. Shift(H, H', Counts(req[p], t), Counts(req'[p], t))
  BY Moved
<1>3. guesses[t] <= otp[t].attempts + H
  BY DEF AttemptsBound
<1> HIDE DEF G, H
<1>4. H <= H' /\ H \in Nat /\ H' \in Nat
  BY <1>2, Zenon DEF Shift
<1>5. otp[t].attempts \in Nat /\ guesses[t] \in Nat /\ MaxAttempts \in Nat
  BY CountersTyped
<1>6. /\ otp[t].attempts + G < MaxAttempts + NumClients
      /\ guesses[t] <= otp[t].attempts + H'
  BY <1>1, <1>3, <1>4, <1>5
<1> QED BY <1>6 DEF AttemptsBound, G, H

(* A wrong guess is counted in the model before it is counted in Redis:    *)
(* its request is one of those about to count.                             *)
LEMMA WrongGuess ==
  ASSUME CodeTyping, NEW t \in Purposes, AttemptsBound(t), NEW p \in Procs, OnlyMoves(p),
         Guesses(req[p], t), Guesses(req'[p], t), ~Counts(req[p], t), Counts(req'[p], t),
         otp'[t].attempts = otp[t].attempts, guesses'[t] = guesses[t] + 1
  PROVE  AttemptsBound(t)'
<1> DEFINE G == Cardinality(Guessing(t))
           H == Cardinality(Counting(t))
<1>1. G' = G /\ G \in Nat
  <2>1. Shift(G, G', Guesses(req[p], t), Guesses(req'[p], t))
    BY Moved
  <2> QED BY <2>1, Zenon DEF Shift
<1>2. H' = H + 1 /\ H \in Nat
  <2>1. Shift(H, H', Counts(req[p], t), Counts(req'[p], t))
    BY Moved
  <2> QED BY <2>1, Zenon DEF Shift
<1>3. otp[t].attempts + G < MaxAttempts + NumClients /\ guesses[t] <= otp[t].attempts + H
  BY DEF AttemptsBound
<1> HIDE DEF G, H
<1>4. otp[t].attempts \in Nat /\ guesses[t] \in Nat
  BY CountersTyped
<1>5. guesses[t] + 1 <= otp[t].attempts + H'
  BY <1>2, <1>3, <1>4
<1> QED BY <1>1, <1>3, <1>5 DEF AttemptsBound, G, H

(* Counting it in Redis pays that back.                                    *)
LEMMA AttemptCounted ==
  ASSUME CodeTyping, NEW t \in Purposes, AttemptsBound(t), NEW p \in Procs, OnlyMoves(p),
         Guesses(req[p], t), ~Guesses(req'[p], t), Counts(req[p], t), ~Counts(req'[p], t),
         otp'[t].attempts = otp[t].attempts + 1, guesses'[t] = guesses[t]
  PROVE  AttemptsBound(t)'
<1> DEFINE G == Cardinality(Guessing(t))
           H == Cardinality(Counting(t))
<1>1. G = G' + 1 /\ G' \in Nat
  <2>1. Shift(G, G', Guesses(req[p], t), Guesses(req'[p], t))
    BY Moved
  <2> QED BY <2>1, Zenon DEF Shift
<1>2. H = H' + 1 /\ H' \in Nat
  <2>1. Shift(H, H', Counts(req[p], t), Counts(req'[p], t))
    BY Moved
  <2> QED BY <2>1, Zenon DEF Shift
<1>3. otp[t].attempts + G < MaxAttempts + NumClients /\ guesses[t] <= otp[t].attempts + H
  BY DEF AttemptsBound
<1> HIDE DEF G, H
<1>4. /\ otp[t].attempts \in Nat /\ guesses[t] \in Nat /\ MaxAttempts \in Nat
      /\ NumClients \in Nat
  BY CountersTyped
<1>5. /\ (otp[t].attempts + 1) + G' < MaxAttempts + NumClients
      /\ guesses[t] <= (otp[t].attempts + 1) + H'
  BY <1>1, <1>2, <1>3, <1>4
<1> QED BY <1>5 DEF AttemptsBound, G, H

(* The sums the bounds need.                                               *)
LEMMA Sums ==
  /\ \A a, b \in Nat : a + b - 0 = a + b
  /\ \A m, g, h, k, n \in Nat : m <= h /\ h <= k /\ g + k <= n => m + g <= n /\ m <= k
OBVIOUS

(* Without a cooldown, the mails sent are those of requests that are about *)
(* to set it, and these do not ask for another.                            *)
LEMMA MailAllowed ==
  ASSUME CodeTyping, NEW t \in Purposes, MailsBound(t), NEW p \in Procs, OnlyMoves(p),
         ~otp[t].cooldown, Mailed(req[p], t) => Mailed(req'[p], t), mails'[t] = mails[t]
  PROVE  MailsBound(t)'
<1> DEFINE G == Cardinality(Mailing(t))'
           H == Cardinality(Cooling(t))
<1>1. H <= H' /\ H \in Nat /\ H' \in Nat
  <2>1. Shift(H, H', Mailed(req[p], t), Mailed(req'[p], t))
    BY Moved
  <2> QED BY <2>1, Zenon DEF Shift
<1>2. mails[t] <= H
  BY DEF MailsBound
<1>3. G + H' <= NumClients /\ G \in Nat
  <2>1. /\ Mailing(t)' \in SUBSET Procs /\ Cooling(t)' \in SUBSET Procs
        /\ Mailing(t)' \cap Cooling(t)' = {}
    BY DEF Mailing, Cooling, WillMail, Mailed
  <2>2. IsFiniteSet(Mailing(t)') /\ IsFiniteSet(Cooling(t)')
    BY <2>1, Constants, FS_Subset
  <2>3. Cardinality(Mailing(t)' \cup Cooling(t)')
          = Cardinality(Mailing(t)') + Cardinality(Cooling(t)') - Cardinality({})
    BY <2>1, <2>2, FS_Union
  <2>4. Cardinality(Mailing(t)' \cup Cooling(t)') <= NumClients
    BY <2>1, SizeOf
  <2>5. Cardinality({}) = 0
    BY FS_EmptySet
  <2>a. G \in Nat
    BY <2>2, FS_CardinalityType
  <2>6. Cardinality(Mailing(t)') = G /\ Cardinality(Cooling(t)') = H'
    OBVIOUS
  <2> HIDE DEF G, H
  <2>7. Cardinality(Mailing(t)' \cup Cooling(t)') = G + H' - 0
    BY <2>3, <2>5, <2>6, Zenon
  <2>8. G + H' - 0 = G + H'
    <3>1. G \in Nat /\ H' \in Nat
      BY <1>1, <2>a, Zenon
    <3> QED BY <3>1, Sums, Zenon
  <2> QED BY <2>4, <2>7, <2>8, <2>a, Zenon
<1> HIDE DEF G, H
<1>4. mails[t] \in Nat /\ NumClients \in Nat
  BY CountersTyped
<1>5. mails[t] + G <= NumClients /\ mails[t] <= H'
  BY <1>1, <1>2, <1>3, <1>4, Sums, Zenon
<1> QED BY <1>5 DEF MailsBound, G, H

(* A mail sent is a request that will set the cooldown instead of one      *)
(* that will mail.                                                         *)
LEMMA MailSent ==
  ASSUME CodeTyping, NEW t \in Purposes, MailsBound(t), NEW p \in Procs, OnlyMoves(p),
         WillMail(req[p], t), ~WillMail(req'[p], t), ~Mailed(req[p], t), Mailed(req'[p], t),
         otp'[t] = otp[t], mails'[t] = mails[t] + 1
  PROVE  MailsBound(t)'
<1> DEFINE G == Cardinality(Mailing(t))
           H == Cardinality(Cooling(t))
<1>1. G = G' + 1 /\ G' \in Nat
  <2>1. Shift(G, G', WillMail(req[p], t), WillMail(req'[p], t))
    BY Moved
  <2> QED BY <2>1, Zenon DEF Shift
<1>2. H' = H + 1 /\ H \in Nat
  <2>1. Shift(H, H', Mailed(req[p], t), Mailed(req'[p], t))
    BY Moved
  <2> QED BY <2>1, Zenon DEF Shift
<1>3. mails[t] + G <= NumClients /\ (otp[t].cooldown \/ mails[t] <= H)
  BY DEF MailsBound
<1> HIDE DEF G, H
<1>4. mails[t] \in Nat /\ NumClients \in Nat
  BY CountersTyped
<1>5. (mails[t] + 1) + G' <= NumClients /\ (mails[t] <= H => mails[t] + 1 <= H')
  BY <1>1, <1>2, <1>3, <1>4
<1> QED BY <1>3, <1>5 DEF MailsBound, G, H

(* Once the cooldown is set only those already past the look at it may     *)
(* still mail.                                                             *)
LEMMA CooldownSet ==
  ASSUME CodeTyping, NEW t \in Purposes, MailsBound(t), NEW p \in Procs, OnlyMoves(p),
         WillMail(req'[p], t) => WillMail(req[p], t),
         otp'[t].cooldown, mails'[t] = mails[t]
  PROVE  MailsBound(t)'
<1> DEFINE G == Cardinality(Mailing(t))
<1>1. G' <= G /\ G \in Nat /\ G' \in Nat
  <2>1. Shift(G, G', WillMail(req[p], t), WillMail(req'[p], t))
    BY Moved
  <2> QED BY <2>1, Zenon DEF Shift
<1>2. mails[t] + G <= NumClients
  BY DEF MailsBound
<1> HIDE DEF G
<1>3. mails[t] \in Nat /\ NumClients \in Nat
  BY CountersTyped
<1>4. mails[t] + G' <= NumClients
  BY <1>1, <1>2, <1>3
<1> QED BY <1>4 DEF MailsBound, G

(* Where the resends are cleared the count starts again.                   *)
LEMMA ResendsCleared ==
  ASSUME NEW t \in Purposes, otp'[t].resends = 0
  PROVE  ResendsBound(t)'
<1> DEFINE G == Cardinality(Retrying(t))'
<1>1. G \in Nat /\ G <= NumClients /\ NumClients \in Nat
  BY SizeOf DEF Retrying
<1> HIDE DEF G
<1>2. 0 + G <= NumClients
  BY <1>1
<1> QED BY <1>2 DEF ResendsBound, G

(* Counting a resend takes the place of the request that was to count it.  *)
LEMMA ResendCounted ==
  ASSUME CodeTyping, NEW t \in Purposes, ResendsBound(t), NEW p \in Procs, OnlyMoves(p),
         Resends(req[p], t), ~Resends(req'[p], t), otp'[t].resends = otp[t].resends + 1
  PROVE  ResendsBound(t)'
<1> DEFINE G == Cardinality(Retrying(t))
<1>1. G = G' + 1 /\ G' \in Nat
  <2>1. Shift(G, G', Resends(req[p], t), Resends(req'[p], t))
    BY Moved
  <2> QED BY <2>1, Zenon DEF Shift
<1>2. otp[t].resends + G <= NumClients
  BY DEF ResendsBound
<1> HIDE DEF G
<1>3. otp[t].resends \in Nat /\ NumClients \in Nat
  BY CountersTyped
<1>4. (otp[t].resends + 1) + G' <= NumClients
  BY <1>1, <1>2, <1>3
<1> QED BY <1>4 DEF ResendsBound, G

-----------------------------------------------------------------------------
(* How a step moves its request.                                           *)
LEMMA BeginMoves ==
  ASSUME SessionInv, NEW p \in Procs, NEW m, Begin(p, m)
  PROVE  OnlyMoves(p) /\ req'[p] = m
BY DEF SessionInv, Typing, SessionTyping, Begin, OnlyMoves

(* The next requests of the shapes the actions use.                        *)
LEMMA GotoMoves ==
  ASSUME SessionInv, NEW p \in Procs, NEW pc, Goto(p, pc)
  PROVE  /\ OnlyMoves(p)
         /\ req'[p].pc = pc /\ req'[p].op = req[p].op
         /\ req'[p].code = req[p].code /\ req'[p].dead = req[p].dead
<1>1. req[p] \in Request /\ req \in [Procs -> Request]
  BY DEF SessionInv, Typing, SessionTyping
<1>2. req'[p] = [req[p] EXCEPT !.pc = pc] /\ OnlyMoves(p)
  BY <1>1 DEF Goto, OnlyMoves
<1> QED BY <1>1, <1>2 DEF Request

LEMMA FinishMoves ==
  ASSUME SessionInv, NEW p \in Procs, Finish(p)
  PROVE  OnlyMoves(p) /\ req'[p] = Idle
BY DEF SessionInv, Typing, SessionTyping, Finish, OnlyMoves

LEMMA OutdateMoves ==
  ASSUME SessionInv, NEW p \in Procs, NEW m \in Request, NEW W, NEW all \in BOOLEAN,
         Outdate(W, all, p, m)
  PROVE  OnlyMoves(p) /\ req'[p] = m
BY Outdated DEF SessionInv, Typing, OnlyMoves, Marked

(* The operations on sessions take no part in the counting of codes.       *)
CodePcs == Resending \cup {"setCode", "clearAttempts", "mail", "setCooldown", "countResend",
                           "compare", "count", "deleteCode", "accepted"}
Outside(m) == m.pc \notin CodePcs \/ (m.pc = "setCode" /\ m.op = "register")
(* The operations on sessions leave the keys alone and stay outside the    *)
(* commands on codes.                                                      *)
LEMMA SessionStepOutside ==
  ASSUME SessionInv, NEW p \in Procs, SessionStep(p)
  PROVE  OnlyMoves(p) /\ Outside(req[p]) /\ Outside(req'[p]) /\ UNCHANGED codeVars
<1>a. UNCHANGED codeVars
  BY DEF SessionStep, codesSame, Login, Refresh, Rotate, CreateRefreshToken,
    SignAccessToken, CheckActive, CheckSession, CheckUser, CheckResetToken, Visit, Logout,
    LogoutAll,
    Deactivate, FindSession, RevokeSession, RevokeOtherSessions, ChangePassword,
    ResetPassword, SetPassword, RevokeAll, AdminRevoke, BumpVersion, FindUser, SaveUser
<1>b. Outside(req[p])
  BY DEF SessionStep, Login, Refresh, Rotate, CreateRefreshToken, Ready, At, InHandler,
    SignAccessToken, CheckActive, CheckSession, CheckUser, CheckResetToken, Visit, Logout,
    LogoutAll,
    Deactivate, FindSession, RevokeSession, RevokeOtherSessions, ChangePassword,
    ResetPassword, SetPassword, RevokeAll, AdminRevoke, BumpVersion, FindUser, SaveUser,
    Outside, CodePcs, Resending
<1>c. Outside(Idle)
  BY DEF Outside, CodePcs, Resending, Idle
<1>d. ASSUME NEW pc \in {"user", "handler", "setPassword", "revokeAll"}, Goto(p, pc)
      PROVE  OnlyMoves(p) /\ Outside(req'[p])
  BY <1>d, GotoMoves DEF Outside, CodePcs, Resending
<1>e. ASSUME Finish(p) PROVE OnlyMoves(p) /\ Outside(req'[p])
  BY <1>c, <1>e, FinishMoves
<1>f. ASSUME NEW pc \in {"create", "deactivate", "revoke", "sign"}
      PROVE  Outside([req[p] EXCEPT !.pc = pc]) /\ [req[p] EXCEPT !.pc = pc] \in Request
  <2>1. req[p] \in Request
    BY Held
  <2> QED BY <2>1, <1>f DEF Request, Steps, Outside, CodePcs, Resending
<1>1. CASE \/ Login(p) \/ Refresh(p) \/ CheckActive(p) \/ CheckResetToken(p)
           \/ ResetPassword(p) \/ FindUser(p)
  <2>a. ASSUME NEW m, Begin(p, m),
               m.pc \in {"create", "rotate", "session", "handler", "setPassword", "saveUser"}
        PROVE  OnlyMoves(p) /\ Outside(req'[p])
    BY <2>a, BeginMoves DEF Outside, CodePcs, Resending
  <2>1. CASE Login(p)
    <3>1. PICK expires : Begin(p, [Idle EXCEPT !.pc = "create", !.op = "login", !.user = user,
                                     !.expires = expires])
      BY <2>1, Zenon DEF Login
    <3> QED BY <1>a, <1>b, <2>a, <3>1 DEF Idle
  <2>2. CASE Refresh(p)
    <3>1. PICK w : Begin(p, [Idle EXCEPT !.pc = "rotate", !.op = "refresh", !.user = user,
                               !.row = w, !.expires = rows[w].expires,
                               !.overdue = now > rows[w].until])
      BY <2>2, Zenon DEF Refresh
    <3> QED BY <1>a, <1>b, <2>a, <3>1 DEF Idle
  <2>3. CASE CheckActive(p)
    <3>1. PICK op, w : Begin(p, [Idle EXCEPT !.pc = "session", !.op = op, !.row = w,
                                   !.dead = rows[w].revoked, !.overdue = now > rows[w].until])
      BY <2>3, Zenon DEF CheckActive
    <3> QED BY <1>a, <1>b, <2>a, <3>1 DEF Idle
  <2>4. CASE ResetPassword(p)
    <3>1. Begin(p, [Idle EXCEPT !.pc = "setPassword", !.op = "reset"])
      BY <2>4, Zenon DEF ResetPassword
    <3> QED BY <1>a, <1>b, <2>a, <3>1 DEF Idle
  <2>5. CASE FindUser(p)
    <3>1. PICK op : Begin(p, [Idle EXCEPT !.pc = "saveUser", !.op = op, !.user = user])
      BY <2>5, Zenon DEF FindUser
    <3> QED BY <1>a, <1>b, <2>a, <3>1 DEF Idle
  <2>6. CASE CheckResetToken(p)
    <3>1. PICK op : Begin(p, [Idle EXCEPT !.pc = "handler", !.op = op])
      BY <2>6, Zenon DEF CheckResetToken
    <3> QED BY <1>a, <1>b, <2>a, <3>1 DEF Idle
  <2> QED BY <1>1, <2>1, <2>2, <2>3, <2>4, <2>5, <2>6
<1>2. CASE \/ CheckSession(p) \/ CheckUser(p) \/ Visit(p) \/ Deactivate(p) \/ ChangePassword(p)
           \/ SetPassword(p) \/ BumpVersion(p) \/ SaveUser(p)
  <2>1. Finish(p) \/ \E pc \in {"user", "handler", "setPassword", "revokeAll"} : Goto(p, pc)
    BY <1>2, Zenon DEF CheckSession, CheckUser, Visit, Deactivate, ChangePassword, SetPassword,
      BumpVersion, SaveUser
  <2> QED BY <1>a, <1>b, <1>d, <1>e, <2>1
<1>3. CASE SignAccessToken(p)
  <2>1. CASE req[p].op = "register"
    <3>1. Goto(p, "setCode")
      BY <1>3, <2>1 DEF SignAccessToken
    <3> QED BY <1>a, <1>b, <2>1, <3>1, GotoMoves DEF Outside
  <2>2. CASE req[p].op # "register"
    <3>1. Finish(p)
      BY <1>3, <2>2 DEF SignAccessToken
    <3> QED BY <1>a, <1>b, <1>e, <3>1
  <2> QED BY <2>1, <2>2
<1>4. CASE FindSession(p) \/ CreateRefreshToken(p)
  <2>0. PICK pc \in {"revoke", "sign"} : \E w : req' = [req EXCEPT ![p].pc = pc, ![p].row = w]
    BY <1>4 DEF FindSession, CreateRefreshToken
  <2>1. PICK w : req' = [req EXCEPT ![p].pc = pc, ![p].row = w]
    BY <2>0
  <2>2. req[p] \in Request /\ req \in [Procs -> Request]
    BY DEF SessionInv, Typing, SessionTyping
  <2>3. req'[p].pc = pc /\ OnlyMoves(p)
    BY <2>1, <2>2 DEF Request, OnlyMoves
  <2> QED BY <1>a, <1>b, <2>3 DEF Outside, CodePcs, Resending
<1>5. CASE Rotate(p) \/ Logout(p) \/ LogoutAll(p)
  <2>1. ASSUME NEW W, NEW all \in BOOLEAN, NEW pc \in {"create", "deactivate"},
               Outdate(W, all, p, [req[p] EXCEPT !.pc = pc])
        PROVE  OnlyMoves(p) /\ Outside(req'[p])
    <3>1. Outside([req[p] EXCEPT !.pc = pc]) /\ [req[p] EXCEPT !.pc = pc] \in Request
      BY <1>f
    <3> QED BY <2>1, <3>1, OutdateMoves
  <2>2. CASE Rotate(p)
    BY <1>a, <1>b, <2>1, <2>2 DEF Rotate
  <2>3. CASE Logout(p)
    BY <1>a, <1>b, <2>1, <2>3 DEF Logout
  <2>4. CASE LogoutAll(p)
    BY <1>a, <1>b, <2>1, <2>4 DEF LogoutAll
  <2> QED BY <1>5, <2>2, <2>3, <2>4
<1>6. CASE RevokeSession(p) \/ RevokeOtherSessions(p) \/ RevokeAll(p)
  <2>1. ASSUME NEW W, NEW all \in BOOLEAN, Outdate(W, all, p, Idle)
        PROVE  OnlyMoves(p) /\ Outside(req'[p])
    BY <1>c, <2>1, OutdateMoves, IdleTyped
  <2>2. CASE RevokeSession(p)
    BY <1>a, <1>b, <2>1, <2>2 DEF RevokeSession
  <2>3. CASE RevokeOtherSessions(p)
    BY <1>a, <1>b, <2>1, <2>3 DEF RevokeOtherSessions
  <2>4. CASE RevokeAll(p)
    BY <1>a, <1>b, <2>1, <2>4 DEF RevokeAll
  <2> QED BY <1>6, <2>2, <2>3, <2>4
<1>7. CASE AdminRevoke(p)
  <2> DEFINE m == [Idle EXCEPT !.pc = "bump", !.op = "adminRevoke"]
  <2>1. Outdate(Rows, TRUE, p, m)
    BY <1>7 DEF AdminRevoke
  <2>2. m \in Request /\ Outside(m)
    BY IdleTyped DEF Idle, Request, Steps, Operations, Outside, CodePcs, Resending
  <2> HIDE DEF m
  <2> QED BY <1>a, <1>b, <2>1, <2>2, OutdateMoves
<1> QED
  BY <1>1, <1>2, <1>3, <1>4, <1>5, <1>6, <1>7 DEF SessionStep

-----------------------------------------------------------------------------
(* A step that leaves the counters of a purpose alone, and whose request   *)
(* does not join those about to add to one, keeps the bounds.              *)
SameKeys(t) ==
  /\ otp'[t].attempts = otp[t].attempts /\ otp'[t].resends = otp[t].resends
  /\ otp[t].cooldown => otp'[t].cooldown
  /\ guesses'[t] = guesses[t] /\ mails'[t] = mails[t]
Stays(m, n, t) ==
  /\ Guesses(n, t) => Guesses(m, t)
  /\ Counts(m, t) => Counts(n, t)
  /\ WillMail(n, t) => WillMail(m, t)
  /\ Mailed(m, t) => Mailed(n, t)
  /\ Resends(n, t) => Resends(m, t)
(* A step that leaves a purpose's keys and brings no request nearer to     *)
(* spending one of its allowances preserves the purpose's bounds.          *)
LEMMA BoundsKept ==
  ASSUME CodeTyping, NEW t \in Purposes, BoundsOf(t), NEW p \in Procs, OnlyMoves(p),
         SameKeys(t), Stays(req[p], req'[p], t)
  PROVE  BoundsOf(t)'
BY AttemptsKept, MailsKept, ResendsKept DEF BoundsOf, SameKeys, Stays

Apart(m, t) == Purpose(m.op) # t \/ Outside(m)
(* So does a step about another purpose, or about sessions.                *)
LEMMA ApartKept ==
  ASSUME CodeTyping, NEW t \in Purposes, BoundsOf(t), NEW p \in Procs, OnlyMoves(p),
         SameKeys(t), Apart(req[p], t), Apart(req'[p], t)
  PROVE  BoundsOf(t)'
<1>1. Stays(req[p], req'[p], t)
  BY DEF Stays, Apart, Outside, CodePcs, Resending, Guesses, Counts, WillMail, Mailed, Resends
<1> QED BY <1>1, BoundsKept

(* A command changes the keys of one purpose.                              *)
LEMMA CommandKeys ==
  ASSUME CodeTyping, NEW p \in Procs, NEW keys, Command(p, keys)
  PROVE  /\ otp'[PurposeOf(p)] = keys
         /\ \A t \in Purposes \ {PurposeOf(p)} : otp'[t] = otp[t]
         /\ KeysOf(p) \in LooseKeys /\ PurposeOf(p) \in Purposes
BY DEF CodeTyping, Command, PurposeOf, Purpose, Purposes, KeysOf

(* Requests that begin, are refused, or go on to sign in.                  *)
LEMMA EntryBounds ==
  ASSUME SessionInv, AllAsked, Bounds, NEW p \in Procs, NEW t \in Purposes,
         \/ Register(p) \/ InsertUser(p) \/ Forgot(p) \/ Resend(p) \/ CheckCooldown(p)
         \/ EnterVerified(p) \/ CheckAttempts(p) \/ Accepted(p)
  PROVE  OnlyMoves(p) /\ Asked(req'[p]) /\ BoundsOf(t)'
<1> DEFINE m == req[p]
           n == req'[p]
<1>a. CodeTyping /\ BoundsOf(t) /\ m \in Request /\ Control(m) /\ Asked(m)
  BY Held DEF SessionInv, Typing, Bounds, AllAsked
<1>b. UNCHANGED <<otp, guesses, mails>>
  BY DEF Register, InsertUser, Forgot, Resend, CheckCooldown, EnterVerified, CheckAttempts,
    Accepted, codeVars
<1>c. SameKeys(t)
  BY <1>b DEF SameKeys
<1>d. ASSUME OnlyMoves(p), Outside(m) \/ m.pc = "accepted", Outside(n)
      PROVE  OnlyMoves(p) /\ Asked(n) /\ BoundsOf(t)'
  <2>1. Asked(n)
    BY <1>d DEF Outside, CodePcs, Asked
  <2>2. Stays(m, n, t)
    BY <1>d DEF Stays, Outside, CodePcs, Resending, Guesses, Counts, WillMail, Mailed, Resends
  <2> QED BY <1>a, <1>c, <1>d, <2>1, <2>2, BoundsKept
<1>e. Outside(Idle) /\ \A r : r.pc \in {"insert", "create"} => Outside(r)
  BY DEF Idle, Outside, CodePcs, Resending
<1> HIDE DEF m, n
<1>1. CASE Register(p)
  <2>1. m.pc = "idle" /\ Begin(p, [Idle EXCEPT !.pc = "insert", !.op = "register"])
    BY <1>1 DEF Register, Ready, At, m
  <2>2. OnlyMoves(p) /\ n = [Idle EXCEPT !.pc = "insert", !.op = "register"]
    BY <2>1, BeginMoves DEF n
  <2>3. n.pc = "insert"
    BY <2>2 DEF Idle
  <2> QED BY <1>d, <1>e, <2>1, <2>2, <2>3 DEF Outside, CodePcs, Resending, m, n
<1>2. CASE InsertUser(p)
  <2>1. m.pc = "insert"
    BY <1>2 DEF InsertUser, At, m
  <2>2. CASE user.exists
    BY <1>2, <1>d, <1>e, <2>1, <2>2, FinishMoves DEF InsertUser, n, m
  <2>3. CASE ~user.exists
    <3>1. PICK u, x : req' = [req EXCEPT ![p].pc = "create", ![p].user = u, ![p].expires = x]
      BY <1>2, <2>3, Zenon DEF InsertUser
    <3>2. req[p] \in Request /\ req \in [Procs -> Request]
      BY DEF SessionInv, Typing, SessionTyping
    <3>3. n.pc = "create" /\ OnlyMoves(p)
      BY <3>1, <3>2 DEF Request, OnlyMoves, n
    <3> QED BY <1>d, <1>e, <2>1, <3>3 DEF m, n
  <2> QED BY <2>2, <2>3
<1>3. CASE Forgot(p)
  <2>1. m.pc = "idle" /\ Begin(p, [Idle EXCEPT !.pc = "setCode", !.op = "forgot"])
    BY <1>3 DEF Forgot, Ready, At, m
  <2>2. OnlyMoves(p) /\ n = [Idle EXCEPT !.pc = "setCode", !.op = "forgot"]
    BY <2>1, BeginMoves DEF n
  <2>3. n.pc = "setCode" /\ n.op = "forgot"
    BY <2>2 DEF Idle
  <2>4. Asked(n)
    BY <2>3 DEF Asked, Verifies
  <2>5. CASE t = "reset"
    <3>1. ~otp[t].cooldown
      BY <1>3, <2>5 DEF Forgot
    <3>2. MailsBound(t)'
      BY <1>a, <1>b, <2>1, <2>2, <3>1, MailAllowed DEF BoundsOf, Mailed, m, n
    <3>3. AttemptsBound(t)' /\ ResendsBound(t)'
      BY <1>a, <1>b, <2>1, <2>2, <2>3, AttemptsKept, ResendsKept
        DEF BoundsOf, Guesses, Counts, Resends, m, n
    <3> QED BY <2>2, <2>4, <3>2, <3>3 DEF BoundsOf, n
  <2>6. CASE t # "reset"
    <3>1. Apart(m, t) /\ Apart(n, t)
      BY <2>1, <2>3, <2>6 DEF Apart, Outside, CodePcs, Resending, Purpose
    <3> QED BY <1>a, <1>c, <2>2, <2>4, <3>1, ApartKept DEF m, n
  <2> QED BY <2>5, <2>6
<1>4. CASE Resend(p)
  <2>1. m.pc = "idle" /\ Begin(p, [Idle EXCEPT !.pc = "cooldown", !.op = "resend"])
    BY <1>4 DEF Resend, Ready, At, m
  <2>2. OnlyMoves(p) /\ n = [Idle EXCEPT !.pc = "cooldown", !.op = "resend"]
    BY <2>1, BeginMoves DEF n
  <2>3. n.pc = "cooldown" /\ n.op = "resend"
    BY <2>2 DEF Idle
  <2>4. Asked(n) /\ Stays(m, n, t)
    BY <2>1, <2>3 DEF Asked, Verifies, Senders, Stays,
        Guesses, Counts, WillMail, Mailed, Resends
  <2> QED BY <1>a, <1>c, <2>2, <2>4, BoundsKept DEF m, n
<1>5. CASE CheckCooldown(p)
  <2>1. m.pc = "cooldown" /\ m.op = "resend"
    BY <1>5, <1>a DEF CheckCooldown, At, m, Control, Resending
  <2>2. CASE KeysOf(p).cooldown
    <3>1. OnlyMoves(p) /\ n = Idle
      BY <1>5, <2>2, FinishMoves DEF CheckCooldown, n
    <3>2. Asked(n) /\ Stays(m, n, t)
      BY <2>1, <3>1 DEF Idle, Asked, Verifies, Senders, Stays, Guesses, Counts, WillMail,
        Mailed, Resends
    <3> QED BY <1>a, <1>c, <3>1, <3>2, BoundsKept DEF m, n
  <2>3. CASE ~KeysOf(p).cooldown
    <3>1. OnlyMoves(p) /\ n.pc = "invalidate" /\ n.op = "resend"
      BY <1>5, <2>1, <2>3, GotoMoves DEF CheckCooldown, m, n
    <3>2. Asked(n)
      BY <3>1 DEF Asked, Verifies
    <3>3. CASE t = "verify"
      <4>1. ~otp[t].cooldown
        BY <2>1, <2>3, <3>3 DEF KeysOf, PurposeOf, Purpose, m
      <4>2. MailsBound(t)'
        BY <1>a, <1>b, <2>1, <3>1, <4>1, MailAllowed DEF BoundsOf, Mailed, m, n
      <4>3. AttemptsBound(t)' /\ ResendsBound(t)'
        BY <1>a, <1>b, <2>1, <3>1, AttemptsKept, ResendsKept
          DEF BoundsOf, Guesses, Counts, Resends, m, n
      <4> QED BY <3>1, <3>2, <4>2, <4>3 DEF BoundsOf, n
    <3>4. CASE t # "verify"
      <4>1. Apart(m, t) /\ Apart(n, t)
        BY <2>1, <3>1, <3>4 DEF Apart, Purpose
      <4> QED BY <1>a, <1>c, <3>1, <3>2, <4>1, ApartKept DEF m, n
    <3> QED BY <3>3, <3>4
  <2> QED BY <2>2, <2>3
<1>6. CASE EnterVerified(p)
  <2>1. /\ m.pc = "idle"
        /\ Begin(p, [Idle EXCEPT !.pc = "create", !.op = "verifyEmail", !.user = user,
                       !.expires = now + AccessTtl])
    BY <1>6 DEF EnterVerified, Ready, At, m
  <2>2. OnlyMoves(p) /\ n = [Idle EXCEPT !.pc = "create", !.op = "verifyEmail", !.user = user,
                               !.expires = now + AccessTtl]
    BY <2>1, BeginMoves, Zenon DEF n
  <2>3. n.pc = "create"
    BY <2>2 DEF Idle
  <2> QED BY <1>d, <1>e, <2>1, <2>2, <2>3 DEF Outside, CodePcs, Resending, m, n
<1>7. CASE CheckAttempts(p)
  <2>1. PICK op \in {"verifyEmail", "verifyReset"}, guess \in 0..issued :
          /\ m.pc = "idle"
          /\ otp[Purpose(op)].attempts < MaxAttempts
          /\ Begin(p, [Idle EXCEPT !.pc = "compare", !.op = op, !.user = user,
                         !.code = guess, !.dead = guess \in consumed])
    BY <1>7 DEF CheckAttempts, Ready, At, AttemptsLeft, m
  <2>2. OnlyMoves(p) /\ n = [Idle EXCEPT !.pc = "compare", !.op = op, !.user = user,
                               !.code = guess, !.dead = guess \in consumed]
    BY <2>1, BeginMoves DEF n
  <2>3. n.pc = "compare" /\ n.op = op
    BY <2>2 DEF Idle
  <2>4. Asked(n)
    BY <2>3 DEF Asked, Verifies
  <2>5. CASE t = Purpose(op)
    <3>1. otp[t].attempts < MaxAttempts
      BY <2>1, <2>5
    <3>2. AttemptsBound(t)'
      BY <1>a, <1>b, <2>1, <2>2, <3>1, AttemptAllowed DEF BoundsOf, Counts, m, n
    <3>3. MailsBound(t)' /\ ResendsBound(t)'
      BY <1>a, <1>b, <2>1, <2>2, <2>3, MailsKept, ResendsKept
        DEF BoundsOf, WillMail, Mailed, Resends, m, n
    <3> QED BY <2>2, <2>4, <3>2, <3>3 DEF BoundsOf, n
  <2>6. CASE t # Purpose(op)
    <3>1. Apart(m, t) /\ Apart(n, t)
      BY <2>1, <2>3, <2>6 DEF Apart, Outside, CodePcs, Resending
    <3> QED BY <1>a, <1>c, <2>2, <2>4, <3>1, ApartKept DEF m, n
  <2> QED BY <2>5, <2>6
<1>8. CASE Accepted(p)
  <2>1. m.pc = "accepted"
    BY <1>8 DEF Accepted, At, m
  <2>2. CASE req[p].op = "verifyReset"
    BY <1>8, <1>d, <1>e, <2>1, <2>2, FinishMoves DEF Accepted, n, m
  <2>3. CASE req[p].op # "verifyReset"
    <3>1. PICK x : req' = [req EXCEPT ![p].pc = "create", ![p].expires = x]
      BY <1>8, <2>3, Zenon DEF Accepted
    <3>2. req[p] \in Request /\ req \in [Procs -> Request]
      BY DEF SessionInv, Typing, SessionTyping
    <3>3. n.pc = "create" /\ OnlyMoves(p)
      BY <3>1, <3>2 DEF Request, OnlyMoves, n
    <3> QED BY <1>d, <1>e, <2>1, <3>3 DEF m, n
  <2> QED BY <2>2, <2>3
<1> QED
  BY <1>1, <1>2, <1>3, <1>4, <1>5, <1>6, <1>7, <1>8 DEF m, n

(* The commands about the keys, and the mail.                              *)
LEMMA CommandBounds ==
  ASSUME SessionInv, AllAsked, Bounds, NEW p \in Procs, NEW t \in Purposes,
         \/ InvalidateCode(p) \/ InvalidateAttempts(p) \/ InvalidateResends(p) \/ SetCode(p)
         \/ ClearAttempts(p) \/ Mail(p) \/ SetCooldown(p) \/ CountResend(p) \/ Compare(p)
         \/ CountAttempt(p) \/ DeleteCode(p)
  PROVE  OnlyMoves(p) /\ Asked(req'[p]) /\ BoundsOf(t)'
<1> DEFINE m == req[p]
           n == req'[p]
           u == PurposeOf(p)
<1>a. CodeTyping /\ BoundsOf(t) /\ m \in Request /\ Control(m) /\ Asked(m)
  BY Held DEF SessionInv, Typing, Bounds, AllAsked
<1>b. Purpose(m.op) = u /\ u \in Purposes /\ otp[u] \in LooseKeys
  BY <1>a DEF PurposeOf, Purpose, Purposes, CodeTyping
<1>c. ASSUME t # u, otp'[t] = otp[t], guesses'[t] = guesses[t], mails'[t] = mails[t],
             OnlyMoves(p), n = Idle \/ n.op = m.op
      PROVE  BoundsOf(t)'
  <2>1. Apart(m, t) /\ Apart(n, t) /\ SameKeys(t)
    BY <1>b, <1>c DEF Apart, Idle, Outside, CodePcs, Resending, SameKeys
  <2> QED BY <1>a, <1>c, <2>1, ApartKept
<1>d. ASSUME NEW keys, Command(p, keys)
      PROVE  otp'[u] = keys /\ (t # u => otp'[t] = otp[t])
  BY <1>a, <1>d, CommandKeys
<1>e. ASSUME Finish(p)
      PROVE  /\ OnlyMoves(p) /\ n = Idle /\ Asked(n)
             /\ ~Guesses(n, t) /\ ~Counts(n, t) /\ ~WillMail(n, t)
             /\ ~Mailed(n, t) /\ ~Resends(n, t)
  <2>1. OnlyMoves(p) /\ n = Idle
    BY <1>e, FinishMoves
  <2> QED BY <2>1 DEF Idle, Asked, Verifies, Senders, Guesses, Counts, WillMail, Mailed, Resends
<1>f. ASSUME NEW pc, Goto(p, pc)
      PROVE  OnlyMoves(p) /\ n.pc = pc /\ n.op = m.op
  BY <1>f, GotoMoves
<1>g. KeysOf(p) = otp[u]
  BY DEF KeysOf
<1> HIDE DEF m, n, u
<1>1. CASE InvalidateCode(p)
  <2>1. m.pc = "invalidate" /\ m.op = "resend" /\ OnlyMoves(p) /\ n.pc = "invalidateAttempts"
        /\ n.op = m.op /\ UNCHANGED <<guesses, mails>>
    BY <1>1, <1>a, <1>f DEF InvalidateCode, At, Control, Resending, m
  <2>2. Asked(n) /\ Stays(m, n, t)
    BY <2>1 DEF Asked, Verifies, Senders, Stays,
        Guesses, Counts, WillMail, Mailed, Resends
  <2>3. otp'[u] = [otp[u] EXCEPT !.code = 0] /\ (t # u => otp'[t] = otp[t])
    BY <1>1, <1>d, <1>g DEF InvalidateCode
  <2>4. SameKeys(t)
    BY <1>b, <2>1, <2>3 DEF LooseKeys, SameKeys
  <2> QED BY <1>a, <2>1, <2>2, <2>4, BoundsKept DEF m, n
<1>2. CASE InvalidateAttempts(p)
  <2>1. /\ m.pc = "invalidateAttempts" /\ m.op = "resend" /\ OnlyMoves(p)
        /\ n.pc = "invalidateResends" /\ n.op = m.op
    BY <1>2, <1>a, <1>f DEF InvalidateAttempts, At, Control, Resending, m
  <2>2. Asked(n) /\ Stays(m, n, t)
    BY <2>1 DEF Asked, Verifies, Senders, Stays,
        Guesses, Counts, WillMail, Mailed, Resends
  <2>3. otp'[u] = [otp[u] EXCEPT !.attempts = 0] /\ (t # u => otp'[t] = otp[t])
    BY <1>2, <1>d, <1>g DEF InvalidateAttempts
  <2>4. guesses' = [guesses EXCEPT ![u] = 0] /\ mails' = mails
    BY <1>2 DEF InvalidateAttempts, u
  <2>5. CASE t = u
    <3>1. /\ otp'[t].attempts = 0 /\ otp'[t].resends = otp[t].resends
          /\ otp'[t].cooldown = otp[t].cooldown /\ guesses'[t] = 0 /\ mails'[t] = mails[t]
      BY <1>a, <1>b, <2>3, <2>4, <2>5 DEF LooseKeys, CodeTyping
    <3> QED BY <1>a, <2>1, <2>2, <3>1, AttemptsCleared, MailsKept, ResendsKept
        DEF BoundsOf, Stays, m, n
  <2>6. CASE t # u
    BY <1>a, <1>c, <2>1, <2>2, <2>3, <2>4, <2>6 DEF CodeTyping, n
  <2> QED BY <2>5, <2>6
<1>3. CASE InvalidateResends(p)
  <2>1. /\ m.pc = "invalidateResends" /\ m.op = "resend" /\ OnlyMoves(p)
        /\ n.pc = "setCode" /\ n.op = m.op /\ UNCHANGED <<guesses, mails>>
    BY <1>3, <1>a, <1>f DEF InvalidateResends, At, Control, Resending, m
  <2>2. Asked(n) /\ (Guesses(n, t) => Guesses(m, t)) /\ (Counts(m, t) => Counts(n, t))
        /\ (WillMail(n, t) => WillMail(m, t)) /\ (Mailed(m, t) => Mailed(n, t))
    BY <2>1 DEF Asked, Verifies, Senders, Guesses, Counts, WillMail, Mailed
  <2>3. otp'[u] = [otp[u] EXCEPT !.resends = 0] /\ (t # u => otp'[t] = otp[t])
    BY <1>3, <1>d, <1>g DEF InvalidateResends, Invalidated
  <2>5. CASE t = u
    <3>1. /\ otp'[t].attempts = otp[t].attempts /\ otp'[t].resends = 0
          /\ otp'[t].cooldown = otp[t].cooldown
      BY <1>b, <2>3, <2>5 DEF LooseKeys
    <3> QED BY <1>a, <2>1, <2>2, <3>1, AttemptsKept, MailsKept, ResendsCleared
        DEF BoundsOf, m, n
  <2>6. CASE t # u
    BY <1>c, <2>1, <2>2, <2>3, <2>6 DEF n
  <2> QED BY <2>5, <2>6
<1>4. CASE SetCode(p)
  <2>1. /\ m.pc = "setCode" /\ m.op \in Senders /\ OnlyMoves(p)
        /\ n.pc = "clearAttempts" /\ n.op = m.op /\ UNCHANGED <<guesses, mails>>
    BY <1>4, <1>a, <1>f DEF SetCode, At, Control, m
  <2>2. Asked(n) /\ Stays(m, n, t)
    BY <2>1 DEF Asked, Verifies, Senders, Stays,
        Guesses, Counts, WillMail, Mailed, Resends
  <2>3. otp'[u] = [otp[u] EXCEPT !.code = issued'] /\ (t # u => otp'[t] = otp[t])
    BY <1>4, <1>d, <1>g DEF SetCode
  <2>4. SameKeys(t)
    BY <1>b, <2>1, <2>3 DEF LooseKeys, SameKeys
  <2> QED BY <1>a, <2>1, <2>2, <2>4, BoundsKept DEF m, n
<1>5. CASE ClearAttempts(p)
  <2>1. m.pc = "clearAttempts"
    BY <1>5 DEF ClearAttempts, At, m
  <2>2. /\ OnlyMoves(p) /\ (n = Idle \/ n.op = m.op)
        /\ Asked(n) /\ Stays(m, n, t)
    <3>1. CASE m.op \in {"forgot", "resend"}
      <4>1. OnlyMoves(p) /\ n.pc = "mail" /\ n.op = m.op
        BY <1>5, <1>f, <3>1 DEF ClearAttempts, m
      <4> QED BY <2>1, <3>1, <4>1 DEF Asked, Verifies, Senders, Stays,
        Guesses, Counts, WillMail, Mailed, Resends
    <3>2. CASE m.op = "register"
      <4>1. Finish(p)
        BY <1>5, <3>2 DEF ClearAttempts, m
      <4> QED BY <1>e, <2>1, <4>1 DEF Stays, Counts, Mailed
    <3>3. CASE m.op \notin {"forgot", "resend", "register"}
      <4>1. OnlyMoves(p) /\ n.pc = "accepted" /\ n.op = m.op
        BY <1>5, <1>f, <3>3 DEF ClearAttempts, m
      <4> QED BY <1>a, <2>1, <3>3, <4>1 DEF Asked, Verifies, Senders, Stays,
        Guesses, Counts, WillMail, Mailed, Resends
    <3> QED BY <3>1, <3>2, <3>3
  <2>3. otp'[u] = [otp[u] EXCEPT !.attempts = 0] /\ (t # u => otp'[t] = otp[t])
    BY <1>5, <1>d, <1>g DEF ClearAttempts
  <2>4. guesses' = [guesses EXCEPT ![u] = 0] /\ mails' = mails
    BY <1>5 DEF ClearAttempts, u
  <2>5. CASE t = u
    <3>1. /\ otp'[t].attempts = 0 /\ otp'[t].resends = otp[t].resends
          /\ otp'[t].cooldown = otp[t].cooldown /\ guesses'[t] = 0 /\ mails'[t] = mails[t]
      BY <1>a, <1>b, <2>3, <2>4, <2>5 DEF LooseKeys, CodeTyping
    <3> QED BY <1>a, <2>1, <2>2, <3>1, AttemptsCleared, MailsKept, ResendsKept
        DEF BoundsOf, Stays, m, n
  <2>6. CASE t # u
    BY <1>a, <1>c, <2>2, <2>3, <2>4, <2>6 DEF CodeTyping, n
  <2> QED BY <2>5, <2>6
<1>6. CASE Mail(p)
  <2>1. /\ m.pc = "mail" /\ m.op \in {"forgot", "resend"} /\ UNCHANGED <<otp, guesses>>
    BY <1>6, <1>a DEF Mail, At, Asked, m
  <2>2. CASE mails' = [mails EXCEPT ![u] = @ + 1] /\ Goto(p, "setCooldown")
    <3>1. OnlyMoves(p) /\ n.pc = "setCooldown" /\ n.op = m.op
      BY <1>f, <2>2
    <3>2. /\ Asked(n) /\ ~Guesses(n, t) /\ ~Counts(m, t) /\ (Resends(n, t) => Resends(m, t))
      BY <2>1, <3>1 DEF Asked, Guesses, Counts, Resends
    <3>3. CASE t = u
      <4>1. WillMail(m, t) /\ ~WillMail(n, t) /\ ~Mailed(m, t) /\ Mailed(n, t)
        BY <1>b, <2>1, <3>1, <3>3 DEF WillMail, Mailed
      <4>2. mails'[t] = mails[t] + 1
        BY <1>a, <1>b, <2>2, <3>3 DEF CodeTyping
      <4>3. MailsBound(t)'
        BY <1>a, <2>1, <3>1, <4>1, <4>2, MailSent DEF BoundsOf, m, n
      <4>4. AttemptsBound(t)' /\ ResendsBound(t)'
        BY <1>a, <2>1, <3>1, <3>2, AttemptsKept, ResendsKept DEF BoundsOf, m, n
      <4> QED BY <3>1, <3>2, <4>3, <4>4 DEF BoundsOf, n
    <3>4. CASE t # u
      BY <1>a, <1>c, <2>1, <2>2, <3>1, <3>2, <3>4 DEF CodeTyping, n
    <3> QED BY <3>3, <3>4
  <2>3. CASE UNCHANGED mails /\ Finish(p)
    <3>1. Stays(m, n, t) /\ SameKeys(t)
      BY <1>e, <2>1, <2>3 DEF Stays, Counts, Mailed, SameKeys
    <3> QED BY <1>a, <1>e, <2>3, <3>1, BoundsKept DEF m, n
  <2> QED BY <1>6, <2>2, <2>3 DEF Mail, u
<1>7. CASE SetCooldown(p)
  <2>1. /\ m.pc = "setCooldown" /\ m.op \in {"forgot", "resend"} /\ UNCHANGED <<guesses, mails>>
    BY <1>7, <1>a DEF SetCooldown, At, Asked, m
  <2>2. /\ OnlyMoves(p) /\ Asked(n) /\ (n = Idle \/ n.op = m.op)
        /\ ~Guesses(n, t) /\ ~Counts(m, t) /\ ~WillMail(n, t) /\ (Resends(n, t) => Resends(m, t))
    <3>1. CASE m.op = "resend"
      <4>1. OnlyMoves(p) /\ n.pc = "countResend" /\ n.op = m.op
        BY <1>7, <1>f, <3>1 DEF SetCooldown, m
      <4> QED BY <2>1, <3>1, <4>1 DEF Asked, Guesses, Counts, WillMail, Resends
    <3>2. CASE m.op # "resend"
      BY <1>7, <1>e, <2>1, <3>2 DEF SetCooldown, Counts, m
    <3> QED BY <3>1, <3>2
  <2>3. otp'[u] = [otp[u] EXCEPT !.cooldown = TRUE] /\ (t # u => otp'[t] = otp[t])
    BY <1>7, <1>d, <1>g DEF SetCooldown
  <2>4. CASE t = u
    <3>1. /\ otp'[t].attempts = otp[t].attempts /\ otp'[t].resends = otp[t].resends
          /\ otp'[t].cooldown
      BY <1>b, <2>3, <2>4 DEF LooseKeys
    <3> QED BY <1>a, <2>1, <2>2, <3>1, AttemptsKept, CooldownSet, ResendsKept DEF BoundsOf, m, n
  <2>5. CASE t # u
    BY <1>c, <2>1, <2>2, <2>3, <2>5 DEF n
  <2> QED BY <2>4, <2>5
<1>8. CASE CountResend(p)
  <2>1. /\ m.pc = "countResend" /\ m.op = "resend" /\ UNCHANGED <<guesses, mails>>
    BY <1>8, <1>a DEF CountResend, At, Asked, m
  <2>2. Finish(p)
    BY <1>8 DEF CountResend
  <2>3. /\ otp'[u] = [otp[u] EXCEPT !.resends = otp[u].resends + 1]
        /\ t # u => otp'[t] = otp[t]
    BY <1>8, <1>d, <1>g DEF CountResend
  <2>4. CASE t = u
    <3>1. /\ otp'[t].attempts = otp[t].attempts /\ otp'[t].resends = otp[t].resends + 1
          /\ otp'[t].cooldown = otp[t].cooldown
      BY <1>b, <2>3, <2>4 DEF LooseKeys
    <3>2. Resends(m, t) /\ ~Counts(m, t) /\ ~Mailed(m, t)
      BY <1>b, <2>1, <2>4 DEF Resends, Counts, Mailed
    <3> QED BY <1>a, <1>e, <2>1, <2>2, <3>1, <3>2, AttemptsKept, MailsKept, ResendCounted
        DEF BoundsOf, m, n
  <2>5. CASE t # u
    BY <1>c, <1>e, <2>1, <2>2, <2>3, <2>5 DEF n
  <2> QED BY <2>4, <2>5
<1>9. CASE Compare(p)
  <2>1. /\ m.pc = "compare" /\ m.op \in Verifies /\ UNCHANGED <<otp, mails>>
    BY <1>9, <1>a DEF Compare, At, Asked, m
  <2>2. CASE Matches(p)
    <3>1. OnlyMoves(p) /\ n.pc = "deleteCode" /\ n.op = m.op
      BY <1>9, <1>f, <2>2 DEF Compare
    <3>2. Asked(n) /\ Stays(m, n, t)
      BY <2>1, <3>1 DEF Asked, Stays, Guesses, Counts, WillMail, Mailed, Resends
    <3>3. SameKeys(t)
      BY <1>9, <2>1, <2>2 DEF Compare, SameKeys
    <3> QED BY <1>a, <3>1, <3>2, <3>3, BoundsKept DEF m, n
  <2>3. CASE ~Matches(p)
    <3>1. /\ OnlyMoves(p) /\ n.pc = "count" /\ n.op = m.op
          /\ guesses' = [guesses EXCEPT ![u] = @ + 1]
      BY <1>9, <1>f, <2>3 DEF Compare, u
    <3>2. Asked(n) /\ ~WillMail(n, t) /\ ~Mailed(m, t) /\ ~Resends(n, t)
      BY <2>1, <3>1 DEF Asked, WillMail, Mailed, Resends
    <3>3. CASE t = u
      <4>1. Guesses(m, t) /\ Guesses(n, t) /\ ~Counts(m, t) /\ Counts(n, t)
        BY <1>b, <2>1, <3>1, <3>3 DEF Guesses, Counts
      <4>2. guesses'[t] = guesses[t] + 1
        BY <1>a, <1>b, <3>1, <3>3 DEF CodeTyping
      <4>3. AttemptsBound(t)'
        BY <1>a, <2>1, <3>1, <4>1, <4>2, WrongGuess DEF BoundsOf, m, n
      <4>4. MailsBound(t)' /\ ResendsBound(t)'
        BY <1>a, <2>1, <3>1, <3>2, MailsKept, ResendsKept DEF BoundsOf, m, n
      <4> QED BY <3>1, <3>2, <4>3, <4>4 DEF BoundsOf, n
    <3>4. CASE t # u
      BY <1>a, <1>c, <2>1, <3>1, <3>2, <3>4 DEF CodeTyping, n
    <3> QED BY <3>3, <3>4
  <2> QED BY <2>2, <2>3
<1>10. CASE CountAttempt(p)
  <2>1. m.pc = "count" /\ UNCHANGED <<guesses, mails>> /\ Finish(p)
    BY <1>10 DEF CountAttempt, At, m
  <2>2. /\ otp'[u] = [otp[u] EXCEPT !.attempts = otp[u].attempts + 1]
        /\ t # u => otp'[t] = otp[t]
    BY <1>10, <1>d, <1>g DEF CountAttempt, Counted
  <2>3. CASE t = u
    <3>1. /\ otp'[t].attempts = otp[t].attempts + 1 /\ otp'[t].resends = otp[t].resends
          /\ otp'[t].cooldown = otp[t].cooldown
      BY <1>b, <2>2, <2>3 DEF LooseKeys
    <3>2. Guesses(m, t) /\ Counts(m, t) /\ ~Mailed(m, t)
      BY <1>b, <2>1, <2>3 DEF Guesses, Counts, Mailed
    <3> QED BY <1>a, <1>e, <2>1, <3>1, <3>2, AttemptCounted, MailsKept, ResendsKept
        DEF BoundsOf, m, n
  <2>4. CASE t # u
    BY <1>c, <1>e, <2>1, <2>2, <2>4 DEF n
  <2> QED BY <2>3, <2>4
<1>11. CASE DeleteCode(p)
  <2>1. /\ m.pc = "deleteCode" /\ m.op \in Verifies
        /\ OnlyMoves(p) /\ n.pc = "clearAttempts" /\ n.op = m.op
        /\ UNCHANGED <<guesses, mails>>
    BY <1>11, <1>a, <1>f DEF DeleteCode, At, Asked, m
  <2>2. Asked(n) /\ Stays(m, n, t)
    BY <2>1 DEF Asked, Verifies, Stays, Guesses, Counts, WillMail, Mailed, Resends
  <2>3. otp' = [otp EXCEPT ![u] = AfterMatch(otp[u])]
    BY <1>11 DEF DeleteCode, u
  <2>4. SameKeys(t)
    <3>1. t # u => otp'[t] = otp[t]
      BY <1>a, <2>3 DEF CodeTyping
    <3>2. otp'[u] = [otp[u] EXCEPT !.code = 0]
      BY <1>a, <1>b, <2>3 DEF AfterMatch, CodeTyping
    <3> QED BY <1>b, <2>1, <3>1, <3>2 DEF LooseKeys, SameKeys
  <2> QED BY <1>a, <2>1, <2>2, <2>4, BoundsKept DEF m, n
<1> QED
  BY <1>1, <1>2, <1>3, <1>4, <1>5, <1>6, <1>7, <1>8, <1>9, <1>10, <1>11 DEF m, n

(* What the other steps do to the bounds: the keys run out one by one.     *)
LEMMA ExpireBounds ==
  ASSUME SessionInv, Bounds, NEW u \in Purposes, Expire(u), NEW t \in Purposes
  PROVE  BoundsOf(t)'
<1>a. /\ CodeTyping /\ BoundsOf(t) /\ otp[t] \in LooseKeys /\ otp[u] \in LooseKeys
      /\ otp \in [Purposes -> LooseKeys]
      /\ guesses \in [Purposes -> Nat] /\ mails \in [Purposes -> Nat]
  BY DEF SessionInv, Typing, Bounds, CodeTyping
<1>b. req' = req
  BY DEF Expire
<1>c. /\ Guessing(t)' = Guessing(t) /\ Counting(t)' = Counting(t) /\ Mailing(t)' = Mailing(t)
      /\ Cooling(t)' = Cooling(t) /\ Retrying(t)' = Retrying(t)
  BY <1>b DEF Guessing, Counting, Mailing, Cooling, Retrying
<1>1. ASSUME otp'[t].attempts = otp[t].attempts, guesses'[t] = guesses[t]
      PROVE  AttemptsBound(t)'
  BY <1>1, <1>a, <1>c DEF BoundsOf, AttemptsBound
<1>2. ASSUME otp'[t].cooldown = otp[t].cooldown, mails'[t] = mails[t]
      PROVE  MailsBound(t)'
  BY <1>2, <1>a, <1>c DEF BoundsOf, MailsBound
<1>3. ASSUME otp'[t].resends = otp[t].resends
      PROVE  ResendsBound(t)'
  BY <1>3, <1>a, <1>c DEF BoundsOf, ResendsBound
<1>4. CASE otp' = [otp EXCEPT ![u].code = 0] /\ UNCHANGED <<guesses, mails>>
  <2>1. /\ otp'[t].attempts = otp[t].attempts /\ otp'[t].resends = otp[t].resends
        /\ otp'[t].cooldown = otp[t].cooldown
    BY <1>4, <1>a DEF LooseKeys
  <2> QED BY <1>1, <1>2, <1>3, <1>4, <2>1 DEF BoundsOf
<1>5. CASE /\ otp' = [otp EXCEPT ![u].attempts = 0]
           /\ guesses' = [guesses EXCEPT ![u] = 0] /\ UNCHANGED mails
  <2>1. /\ otp'[t].resends = otp[t].resends /\ otp'[t].cooldown = otp[t].cooldown
        /\ t # u => otp'[t].attempts = otp[t].attempts /\ guesses'[t] = guesses[t]
        /\ t = u => otp'[t].attempts = 0 /\ guesses'[t] = 0
    BY <1>5, <1>a DEF LooseKeys
  <2> QED BY <1>1, <1>2, <1>3, <1>5, <2>1, AttemptsCleared DEF BoundsOf
<1>6. CASE otp' = [otp EXCEPT ![u].resends = 0] /\ UNCHANGED <<guesses, mails>>
  <2>1. /\ otp'[t].attempts = otp[t].attempts /\ otp'[t].cooldown = otp[t].cooldown
        /\ t # u => otp'[t].resends = otp[t].resends
        /\ t = u => otp'[t].resends = 0
    BY <1>6, <1>a DEF LooseKeys
  <2> QED BY <1>1, <1>2, <1>3, <1>6, <2>1, ResendsCleared DEF BoundsOf
<1>7. CASE /\ otp' = [otp EXCEPT ![u].cooldown = FALSE]
           /\ mails' = [mails EXCEPT ![u] = 0] /\ UNCHANGED guesses
  <2>1. /\ otp'[t].attempts = otp[t].attempts /\ otp'[t].resends = otp[t].resends
        /\ t # u => otp'[t].cooldown = otp[t].cooldown /\ mails'[t] = mails[t]
        /\ t = u => mails'[t] = 0
    BY <1>7, <1>a DEF LooseKeys
  <2>2. ASSUME mails'[t] = 0 PROVE MailsBound(t)'
    <3> DEFINE G == Cardinality(Mailing(t))'
               H == Cardinality(Cooling(t))'
    <3>1. G \in Nat /\ G <= NumClients /\ NumClients \in Nat /\ H \in Nat
      BY SizeOf DEF Mailing, Cooling
    <3> HIDE DEF G, H
    <3>2. 0 + G <= NumClients /\ 0 <= H
      BY <3>1
    <3> QED BY <2>2, <3>2 DEF MailsBound, G, H
  <2> QED BY <1>1, <1>2, <1>3, <1>7, <2>1, <2>2 DEF BoundsOf
<1> QED
  BY <1>4, <1>5, <1>6, <1>7 DEF Expire

-----------------------------------------------------------------------------
(* Codes are used once.  A request that is not p keeps its guess, however  *)
(* the keys lose their codes and get new ones.                             *)
Progress ==
  /\ issued' \in Nat /\ issued <= issued' /\ consumed \subseteq consumed'
  /\ \A t \in Purposes : otp'[t].code \in {0, otp[t].code} \/ otp'[t].code > issued
(* What is true of a request that compares a code stays true while codes   *)
(* are only issued, dropped and consumed.                                  *)
LEMMA GuessKept ==
  ASSUME CodeTyping, NEW m, Guess(m), m.pc = "deleteCode" => m.code # 0, Progress
  PROVE  GuessIn(m, otp', issued', consumed')
<1>1. issued \in Nat
  BY Constants DEF CodeTyping
<1>2. m.pc \in {"compare", "deleteCode"} => m.code \in 0..issued'
  <2>1. ASSUME m.code \in 0..issued PROVE m.code \in 0..issued'
    BY <1>1, <2>1 DEF Progress
  <2> QED BY <2>1 DEF Guess, GuessIn
<1>3. ASSUME m.pc = "deleteCode", NEW t \in Purposes, otp'[t].code = m.code
      PROVE  t = Purpose(m.op)
  <2>1. m.code \in 0..issued /\ m.code # 0
    BY <1>3 DEF Guess, GuessIn
  <2>2. ~(m.code > issued)
    BY <1>1, <2>1
  <2>3. otp[t].code = m.code
    BY <1>3, <2>1, <2>2 DEF Progress
  <2> QED BY <1>3, <2>3 DEF Guess, GuessIn
<1>4. m.pc = "compare" /\ m.dead => m.code \in consumed'
  BY DEF Guess, GuessIn, Progress
<1>5. m.pc \in {"deleteCode", "accepted"} \/ (m.pc = "clearAttempts" /\ m.op \notin Senders)
        => ~m.dead
  BY DEF Guess, GuessIn
<1> QED BY <1>2, <1>3, <1>4, <1>5 DEF GuessIn

(* So it does of every request, when it does of the one that moved.        *)
LEMMA GuessesKept ==
  ASSUME SessionInv, CodesInv, NEW p \in Procs, OnlyMoves(p), Progress,
         GuessIn(req'[p], otp', issued', consumed')
  PROVE  (\A q \in Procs : Guess(req[q]))'
<1>1. ASSUME NEW q \in Procs, q # p PROVE GuessIn(req'[q], otp', issued', consumed')
  <2>1. /\ req'[q].pc = req[q].pc /\ req'[q].op = req[q].op
        /\ req'[q].code = req[q].code /\ req'[q].dead = req[q].dead
    BY <1>1 DEF OnlyMoves
  <2>2. Guess(req[q]) /\ (req[q].pc = "deleteCode" => req[q].code # 0)
    BY Held DEF CodesInv, Control
  <2>3. Guess(req'[q]) /\ (req'[q].pc = "deleteCode" => req'[q].code # 0)
    BY <2>1, <2>2 DEF Guess, GuessIn
  <2>4. CodeTyping
    BY DEF SessionInv, Typing
  <2> QED BY <2>3, <2>4, GuessKept
<1> QED BY <1>1 DEF Guess

(* A step that generates and consumes no code.                             *)
LEMMA CodesKept ==
  ASSUME SessionInv, CodesInv, NEW p \in Procs, OnlyMoves(p), UNCHANGED <<issued, consumed>>,
         \A t \in Purposes : otp'[t].code \in {0, otp[t].code},
         Guess(req'[p]), req'[p].pc = "deleteCode" => req'[p].code # 0
  PROVE  CodesInv'
<1>1. CodeTyping /\ issued \in Nat
  BY Constants DEF SessionInv, Typing, CodeTyping
<1>2. Progress
  BY <1>1 DEF Progress
<1>3. GuessIn(req'[p], otp', issued', consumed')
  BY <1>1, <1>2, GuessKept
<1>4. (\A q \in Procs : Guess(req[q]))'
  BY <1>2, <1>3, GuessesKept
<1>5. \A t \in Purposes : otp'[t].code \in (0..issued) \ consumed
  <2>1. 0 \in (0..issued) \ consumed
    BY <1>1 DEF CodesInv
  <2> QED BY <2>1 DEF CodesInv
<1>6. \A t, u \in Purposes : t # u /\ otp'[t].code = otp'[u].code => otp'[t].code = 0
  BY DEF CodesInv
<1> QED BY <1>4, <1>5, <1>6 DEF CodesInv

(* A step that issues and consumes nothing, of a request that neither      *)
(* compares nor deletes.                                                   *)
LEMMA SameCodes ==
  ASSUME SessionInv, CodesInv, NEW p \in Procs, OnlyMoves(p), UNCHANGED <<issued, consumed>>,
         \A t \in Purposes : otp'[t].code \in {0, otp[t].code},
         req'[p].pc \notin {"compare", "deleteCode", "accepted", "clearAttempts"}
  PROVE  CodesInv'
<1>1. Guess(req'[p])
  BY DEF Guess, GuessIn
<1> QED BY <1>1, CodesKept

(* Requests that begin, are refused, or go on to sign in.                  *)
LEMMA EntryCodes ==
  ASSUME SessionInv, AllAsked, Bounds, CodesInv, NEW p \in Procs,
         \/ Register(p) \/ InsertUser(p) \/ Forgot(p) \/ Resend(p) \/ CheckCooldown(p)
         \/ EnterVerified(p) \/ CheckAttempts(p) \/ Accepted(p)
  PROVE  CodesInv'
<1> DEFINE n == req'[p]
<1>a. OnlyMoves(p)
  <2>1. "verify" \in Purposes
    BY DEF Purposes
  <2> QED BY <2>1, EntryBounds
<1>b. UNCHANGED <<otp, issued, consumed>>
  BY DEF Register, InsertUser, Forgot, Resend, CheckCooldown, EnterVerified, CheckAttempts,
    Accepted, codeVars
<1>c. req[p] \in Request /\ req \in [Procs -> Request]
  BY DEF SessionInv, Typing, SessionTyping
<1> HIDE DEF n
<1>d. ASSUME n.pc \notin {"compare", "deleteCode", "accepted", "clearAttempts"}
      PROVE  CodesInv'
  BY <1>a, <1>b, <1>d, SameCodes DEF n
<1>e. Finish(p) => n.pc = "idle"
  BY FinishMoves DEF Idle, n
<1>1. CASE Register(p)
  <2>1. n = [Idle EXCEPT !.pc = "insert", !.op = "register"]
    BY <1>1, BeginMoves DEF Register, n
  <2> QED BY <1>d, <2>1 DEF Idle
<1>2. CASE InsertUser(p)
  <2>1. CASE user.exists
    BY <1>2, <1>d, <1>e, <2>1 DEF InsertUser
  <2>2. CASE ~user.exists
    <3>1. PICK u, x : req' = [req EXCEPT ![p].pc = "create", ![p].user = u, ![p].expires = x]
      BY <1>2, <2>2, Zenon DEF InsertUser
    <3>2. n.pc = "create"
      BY <1>c, <3>1 DEF Request, n
    <3> QED BY <1>d, <3>2
  <2> QED BY <2>1, <2>2
<1>3. CASE Forgot(p)
  <2>1. n = [Idle EXCEPT !.pc = "setCode", !.op = "forgot"]
    BY <1>3, BeginMoves DEF Forgot, n
  <2> QED BY <1>d, <2>1 DEF Idle
<1>4. CASE Resend(p)
  <2>1. n = [Idle EXCEPT !.pc = "cooldown", !.op = "resend"]
    BY <1>4, BeginMoves DEF Resend, n
  <2> QED BY <1>d, <2>1 DEF Idle
<1>5. CASE CheckCooldown(p)
  <2>1. n.pc = "idle" \/ n.pc = "invalidate"
    BY <1>5, <1>e, GotoMoves DEF CheckCooldown, n
  <2> QED BY <1>d, <2>1
<1>6. CASE EnterVerified(p)
  <2>1. n = [Idle EXCEPT !.pc = "create", !.op = "verifyEmail", !.user = user,
                         !.expires = now + AccessTtl]
    BY <1>6, BeginMoves, Zenon DEF EnterVerified, n
  <2> QED BY <1>d, <2>1 DEF Idle
<1>7. CASE CheckAttempts(p)
  <2>1. PICK op \in {"verifyEmail", "verifyReset"}, guess \in 0..issued :
          Begin(p, [Idle EXCEPT !.pc = "compare", !.op = op, !.user = user,
                      !.code = guess, !.dead = guess \in consumed])
    BY <1>7, Zenon DEF CheckAttempts
  <2>2. n = [Idle EXCEPT !.pc = "compare", !.op = op, !.user = user,
                         !.code = guess, !.dead = guess \in consumed]
    BY <2>1, BeginMoves, Zenon DEF n
  <2>3. n.pc = "compare" /\ n.code = guess /\ n.dead = (guess \in consumed)
    BY <2>2 DEF Idle
  <2>4. Guess(n)
    BY <2>3 DEF Guess, GuessIn
  <2> QED BY <1>a, <1>b, <2>3, <2>4, CodesKept DEF n
<1>8. CASE Accepted(p)
  <2>1. CASE req[p].op = "verifyReset"
    BY <1>8, <1>d, <1>e, <2>1 DEF Accepted
  <2>2. CASE req[p].op # "verifyReset"
    <3>1. PICK x : req' = [req EXCEPT ![p].pc = "create", ![p].expires = x]
      BY <1>8, <2>2, Zenon DEF Accepted
    <3>2. n.pc = "create"
      BY <1>c, <3>1 DEF Request, n
    <3> QED BY <1>d, <3>2
  <2> QED BY <2>1, <2>2
<1> QED
  BY <1>1, <1>2, <1>3, <1>4, <1>5, <1>6, <1>7, <1>8

(* The commands about the keys, and the mail.                              *)
LEMMA CommandCodes ==
  ASSUME SessionInv, AllAsked, Bounds, CodesInv, NEW p \in Procs,
         \/ InvalidateCode(p) \/ InvalidateAttempts(p) \/ InvalidateResends(p) \/ SetCode(p)
         \/ ClearAttempts(p) \/ Mail(p) \/ SetCooldown(p) \/ CountResend(p) \/ Compare(p)
         \/ CountAttempt(p) \/ DeleteCode(p)
  PROVE  CodesInv'
<1> DEFINE m == req[p]
           n == req'[p]
           u == PurposeOf(p)
<1>a. OnlyMoves(p)
  <2>1. "verify" \in Purposes
    BY DEF Purposes
  <2> QED BY <2>1, CommandBounds
<1>b. /\ CodeTyping /\ Control(m) /\ Asked(m) /\ Guess(m) /\ issued \in Nat
      /\ otp \in [Purposes -> LooseKeys]
  BY Held, Constants DEF SessionInv, Typing, AllAsked, CodesInv, CodeTyping
<1>c. Purpose(m.op) = u /\ u \in Purposes /\ otp[u] \in LooseKeys
  BY <1>b DEF PurposeOf, Purpose, Purposes
<1>d. ASSUME NEW keys, Command(p, keys), keys.code \in {0, otp[u].code}
      PROVE  \A t \in Purposes : otp'[t].code \in {0, otp[t].code}
  BY <1>b, <1>d, CommandKeys
<1>e. ASSUME NEW pc, Goto(p, pc)
      PROVE  n.pc = pc /\ n.op = m.op /\ n.code = m.code /\ n.dead = m.dead
  BY <1>e, GotoMoves
<1>f. Finish(p) => n.pc = "idle"
  BY FinishMoves DEF Idle
<1>g. KeysOf(p) = otp[u]
  BY DEF KeysOf
<1>h. ASSUME UNCHANGED <<issued, consumed>>, \A t \in Purposes : otp'[t].code \in {0, otp[t].code},
             n.pc \notin {"compare", "deleteCode", "accepted", "clearAttempts"}
      PROVE  CodesInv'
  BY <1>a, <1>h, SameCodes
<1> HIDE DEF m, n, u
<1>1. CASE InvalidateCode(p)
  <2>1. [otp[u] EXCEPT !.code = 0].code = 0
    BY <1>c DEF LooseKeys
  <2> QED BY <1>1, <1>d, <1>e, <1>g, <1>h, <2>1 DEF InvalidateCode, Command
<1>2. CASE \/ InvalidateAttempts(p) \/ InvalidateResends(p) \/ SetCooldown(p) \/ CountResend(p)
           \/ CountAttempt(p)
  <2>1. /\ [otp[u] EXCEPT !.attempts = 0].code = otp[u].code
        /\ [otp[u] EXCEPT !.resends = 0].code = otp[u].code
        /\ [otp[u] EXCEPT !.cooldown = TRUE].code = otp[u].code
        /\ [otp[u] EXCEPT !.resends = @ + 1].code = otp[u].code
        /\ \A x : [otp[u] EXCEPT !.attempts = x].code = otp[u].code
    BY <1>c DEF LooseKeys
  <2>2. \A t \in Purposes : otp'[t].code \in {0, otp[t].code}
    BY <1>2, <1>d, <1>g, <2>1 DEF InvalidateAttempts, InvalidateResends, Invalidated, SetCooldown,
      CountResend, CountAttempt
  <2>3. n.pc \in {"invalidateResends", "setCode", "countResend", "idle"}
    BY <1>2, <1>e, <1>f DEF InvalidateAttempts, InvalidateResends, SetCooldown, CountResend,
      CountAttempt
  <2> QED BY <1>2, <1>h, <2>2, <2>3 DEF InvalidateAttempts, InvalidateResends, SetCooldown,
      CountResend, CountAttempt, Command
<1>3. CASE SetCode(p)
  <2>1. /\ m.pc = "setCode" /\ issued' = issued + 1 /\ consumed' = consumed
        /\ Command(p, [otp[u] EXCEPT !.code = issued'])
        /\ n.pc = "clearAttempts" /\ n.op = m.op
    BY <1>3, <1>e, <1>g DEF SetCode, Command, At, m
  <2>2. otp'[u].code = issued' /\ \A t \in Purposes \ {u} : otp'[t] = otp[t]
    <3>1. otp'[u] = [otp[u] EXCEPT !.code = issued'] /\ \A t \in Purposes \ {u} : otp'[t] = otp[t]
      BY <1>b, <2>1, CommandKeys DEF u
    <3> QED BY <1>c, <3>1 DEF LooseKeys
  <2>3. issued' \in Nat /\ issued <= issued' /\ issued' > issued
    BY <1>b, <2>1
  <2>4. Progress
    BY <1>c, <2>1, <2>2, <2>3 DEF Progress
  <2>5. GuessIn(n, otp', issued', consumed')
    BY <1>b, <2>1 DEF GuessIn, Control
  <2>6. (\A q \in Procs : Guess(req[q]))'
    BY <1>a, <2>4, <2>5, GuessesKept DEF n
  <2>7. \A t \in Purposes : otp[t].code \in 0..issued /\ otp[t].code \notin consumed
    BY DEF CodesInv
  <2>8. consumed' \subseteq 1..issued' /\ issued' \notin consumed
    BY <1>b, <2>1 DEF CodesInv
  <2>9. \A t \in Purposes : otp'[t].code \in (0..issued') \ consumed'
    BY <1>b, <1>c, <2>1, <2>2, <2>7, <2>8
  <2>10. \A t, v \in Purposes : t # v /\ otp'[t].code = otp'[v].code => otp'[t].code = 0
    <3>1. \A t \in Purposes : otp[t].code # issued'
      BY <1>b, <2>1, <2>7
    <3> QED BY <2>2, <3>1 DEF CodesInv
  <2> QED BY <2>6, <2>8, <2>9, <2>10 DEF CodesInv
<1>4. CASE ClearAttempts(p)
  <2>1. /\ m.pc = "clearAttempts" /\ UNCHANGED <<issued, consumed>>
        /\ Command(p, [otp[u] EXCEPT !.attempts = 0])
    BY <1>4, <1>g DEF ClearAttempts, Command, At, m
  <2>2. \A t \in Purposes : otp'[t].code \in {0, otp[t].code}
    <3>1. [otp[u] EXCEPT !.attempts = 0].code = otp[u].code
      BY <1>c DEF LooseKeys
    <3> QED BY <1>d, <2>1, <3>1
  <2>3. CASE n.pc \in {"idle", "mail"}
    BY <1>h, <2>1, <2>2, <2>3
  <2>4. CASE m.op \notin Senders /\ Goto(p, "accepted")
    <3>1. n.pc = "accepted" /\ ~n.dead
      BY <1>b, <1>e, <2>1, <2>4 DEF Guess, GuessIn
    <3>2. Guess(n)
      BY <3>1 DEF Guess, GuessIn
    <3> QED BY <1>a, <2>1, <2>2, <3>1, <3>2, CodesKept DEF n
  <2> QED BY <1>4, <1>e, <1>f, <2>3, <2>4 DEF ClearAttempts, Senders, m
<1>5. CASE Mail(p)
  <2>1. n.pc \in {"setCooldown", "idle"} /\ UNCHANGED <<otp, issued, consumed>>
    BY <1>5, <1>e, <1>f DEF Mail
  <2> QED BY <1>h, <2>1
<1>6. CASE Compare(p)
  <2>1. m.pc = "compare" /\ UNCHANGED <<otp, issued, consumed>>
    BY <1>6 DEF Compare, At, m
  <2>2. CASE Matches(p)
    <3>1. /\ n.pc = "deleteCode" /\ n.op = m.op /\ n.code = m.code /\ n.dead = m.dead
          /\ m.code # 0 /\ otp[u].code = m.code
      BY <1>6, <1>e, <1>g, <2>2 DEF Compare, Matches, m
    <3>2. m.code \in 0..issued /\ ~m.dead
      BY <1>b, <1>c, <2>1, <3>1 DEF Guess, GuessIn, CodesInv
    <3>3. \A t \in Purposes : otp[t].code = m.code => t = u
      BY <1>c, <3>1 DEF CodesInv
    <3>4. Guess(n)
      BY <1>c, <3>1, <3>2, <3>3 DEF Guess, GuessIn
    <3> QED BY <1>a, <2>1, <3>1, <3>4, CodesKept DEF n
  <2>3. CASE ~Matches(p)
    <3>1. n.pc = "count"
      BY <1>6, <1>e, <2>3 DEF Compare
    <3> QED BY <1>h, <2>1, <3>1
  <2> QED BY <2>2, <2>3
<1>7. CASE DeleteCode(p)
  <2>1. /\ m.pc = "deleteCode" /\ issued' = issued /\ consumed' = consumed \cup {m.code}
        /\ otp' = [otp EXCEPT ![u] = AfterMatch(otp[u])]
        /\ n.pc = "clearAttempts" /\ n.dead = m.dead
    BY <1>7, <1>e DEF DeleteCode, At, m, u
  <2>2. /\ m.code \in 0..issued /\ m.code # 0 /\ ~m.dead
        /\ \A t \in Purposes : otp[t].code = m.code => t = u
    BY <1>b, <1>c, <2>1 DEF Guess, GuessIn, Control
  <2>3. otp'[u].code = 0 /\ \A t \in Purposes \ {u} : otp'[t] = otp[t]
    <3>1. otp'[u] = [otp[u] EXCEPT !.code = 0] /\ \A t \in Purposes \ {u} : otp'[t] = otp[t]
      BY <1>b, <1>c, <2>1 DEF AfterMatch
    <3> QED BY <1>c, <3>1 DEF LooseKeys
  <2>4. Progress
    BY <1>b, <2>1, <2>3 DEF Progress
  <2>5. GuessIn(n, otp', issued', consumed')
    BY <2>1, <2>2 DEF GuessIn
  <2>6. (\A q \in Procs : Guess(req[q]))'
    BY <1>a, <2>4, <2>5, GuessesKept DEF n
  <2>7. \A t \in Purposes : otp[t].code \in 0..issued /\ otp[t].code \notin consumed
    BY DEF CodesInv
  <2>8. consumed' \subseteq 1..issued'
    <3>1. m.code \in 1..issued
      BY <1>b, <2>2
    <3>2. consumed \subseteq 1..issued
      BY DEF CodesInv
    <3> QED BY <2>1, <3>1, <3>2
  <2>9. \A t \in Purposes : otp'[t].code \in (0..issued') \ consumed'
    <3>1. 0 \in 0..issued' /\ 0 \notin consumed'
      <4>1. 0 \in 0..issued' /\ 0 \notin 1..issued'
        BY <1>b, <2>1
      <4> QED BY <2>8, <4>1
    <3> QED BY <2>1, <2>2, <2>3, <2>7, <3>1
  <2>10. \A t, v \in Purposes : t # v /\ otp'[t].code = otp'[v].code => otp'[t].code = 0
    BY <2>3 DEF CodesInv
  <2> QED BY <2>6, <2>8, <2>9, <2>10 DEF CodesInv
<1> QED
  BY <1>1, <1>2, <1>3, <1>4, <1>5, <1>6, <1>7

-----------------------------------------------------------------------------
(* The invariant of the codes holds initially, and every step keeps it.    *)
LEMMA CodeInit == Init => CodeInv
<1> SUFFICES ASSUME Init PROVE CodeInv
  OBVIOUS
<1>1. SessionInv
  BY SessionInit
<1>2. /\ \A p \in Procs : req[p] = Idle
      /\ \A t \in Purposes : otp[t] = NoKeys /\ guesses[t] = 0 /\ mails[t] = 0
      /\ issued = 0 /\ consumed = {}
  BY DEF Init
<1>3. AllAsked
  BY <1>2 DEF AllAsked, Asked, Idle
<1>4. CodesInv
  BY <1>2 DEF CodesInv, Guess, GuessIn, Idle, NoKeys
<1>5. ASSUME NEW t \in Purposes PROVE BoundsOf(t)
  <2> DEFINE G == Cardinality(Guessing(t))
             H == Cardinality(Counting(t))
             I == Cardinality(Mailing(t))
             J == Cardinality(Cooling(t))
             K == Cardinality(Retrying(t))
  <2>1. /\ G \in Nat /\ G <= NumClients /\ I \in Nat /\ I <= NumClients /\ K \in Nat
        /\ K <= NumClients /\ H \in Nat /\ J \in Nat /\ NumClients \in Nat
        /\ MaxAttempts \in Nat \ {0}
    BY SizeOf, Constants DEF Guessing, Counting, Mailing, Cooling, Retrying
  <2>2. otp[t].attempts = 0 /\ otp[t].resends = 0 /\ guesses[t] = 0 /\ mails[t] = 0
    BY <1>2 DEF NoKeys
  <2> HIDE DEF G, H, I, J, K
  <2>3. /\ 0 + G < MaxAttempts + NumClients /\ 0 <= 0 + H /\ 0 + I <= NumClients /\ 0 <= J
        /\ 0 + K <= NumClients
    BY <2>1
  <2> QED BY <2>2, <2>3 DEF BoundsOf, AttemptsBound, MailsBound, ResendsBound, G, H, I, J, K
<1> QED BY <1>1, <1>3, <1>4, <1>5 DEF CodeInv, Bounds

(* A step of a client that keeps the conditions of its own.                *)
LEMMA AskedKept ==
  ASSUME AllAsked, NEW p \in Procs, OnlyMoves(p), Asked(req'[p])
  PROVE  AllAsked'
<1>1. \A q \in Procs : Asked(req'[q])
  BY DEF AllAsked, Asked, OnlyMoves
<1> QED BY <1>1 DEF AllAsked, Asked

(* Every step preserves the invariant.                                     *)
LEMMA CodeNext == CodeInv /\ [Next]_vars => CodeInv'
<1> SUFFICES ASSUME CodeInv, [Next]_vars PROVE CodeInv'
  OBVIOUS
<1>a. SessionInv /\ AllAsked /\ Bounds /\ CodesInv /\ CodeTyping
  BY DEF CodeInv, SessionInv, Typing
<1>b. SessionInv'
  BY <1>a, SessionNext
<1>c. "verify" \in Purposes
  BY DEF Purposes
<1>d. ASSUME UNCHANGED <<otp, req, issued, consumed, guesses, mails>> PROVE CodeInv'
  <2>1. AllAsked' /\ CodesInv'
    BY <1>a, <1>d DEF AllAsked, CodesInv, Asked, Guess, GuessIn
  <2>2. ASSUME NEW t \in Purposes PROVE BoundsOf(t)'
    BY <1>a, <1>d DEF Bounds, BoundsOf, AttemptsBound, MailsBound, ResendsBound, Guessing,
      Counting, Mailing, Cooling, Retrying
  <2> QED BY <1>b, <2>1, <2>2 DEF CodeInv, Bounds
<1>1. ASSUME NEW p \in Procs, SessionStep(p) PROVE CodeInv'
  <2>1. OnlyMoves(p) /\ Outside(req[p]) /\ Outside(req'[p]) /\ UNCHANGED codeVars
    BY <1>1, <1>a, SessionStepOutside
  <2>2. ASSUME NEW t \in Purposes PROVE BoundsOf(t)'
    <3>1. SameKeys(t) /\ Apart(req[p], t) /\ Apart(req'[p], t)
      BY <2>1 DEF SameKeys, Apart, codeVars
    <3> QED BY <1>a, <2>1, <3>1, ApartKept DEF Bounds
  <2>3. Asked(req'[p]) /\ req'[p].pc \notin {"compare", "deleteCode", "accepted", "clearAttempts"}
    BY <2>1 DEF Outside, CodePcs, Asked
  <2>4. AllAsked' /\ CodesInv'
    BY <1>a, <2>1, <2>3, AskedKept, SameCodes DEF codeVars
  <2> QED BY <1>b, <2>2, <2>4 DEF CodeInv, Bounds
<1>2. ASSUME NEW p \in Procs, CodeStep(p) PROVE CodeInv'
  <2>1. CASE \/ Register(p) \/ InsertUser(p) \/ Forgot(p) \/ Resend(p) \/ CheckCooldown(p)
             \/ EnterVerified(p) \/ CheckAttempts(p) \/ Accepted(p)
    <3>1. AllAsked' /\ \A t \in Purposes : BoundsOf(t)'
      BY <1>a, <1>c, <2>1, EntryBounds, AskedKept
    <3>2. CodesInv'
      BY <1>a, <2>1, EntryCodes
    <3> QED BY <1>b, <3>1, <3>2 DEF CodeInv, Bounds
  <2>2. CASE \/ InvalidateCode(p) \/ InvalidateAttempts(p) \/ InvalidateResends(p) \/ SetCode(p)
             \/ ClearAttempts(p) \/ Mail(p) \/ SetCooldown(p) \/ CountResend(p) \/ Compare(p)
             \/ CountAttempt(p) \/ DeleteCode(p)
    <3>1. AllAsked' /\ \A t \in Purposes : BoundsOf(t)'
      BY <1>a, <1>c, <2>2, CommandBounds, AskedKept
    <3>2. CodesInv'
      BY <1>a, <2>2, CommandCodes
    <3> QED BY <1>b, <3>1, <3>2 DEF CodeInv, Bounds
  <2> QED BY <1>2, <2>1, <2>2 DEF CodeStep
<1>3. ASSUME NEW u \in Purposes, Expire(u) PROVE CodeInv'
  <2>1. \A t \in Purposes : BoundsOf(t)'
    BY <1>3, <1>a, ExpireBounds
  <2>2. UNCHANGED <<req, issued, consumed>>
    BY <1>3 DEF Expire
  <2>3. AllAsked'
    BY <1>a, <2>2 DEF AllAsked, Asked
  <2>4. \A t \in Purposes : otp'[t].code \in {0, otp[t].code}
    <3>1. otp \in [Purposes -> LooseKeys] /\ otp[u] \in LooseKeys
      BY <1>a DEF CodeTyping
    <3>2. CASE otp' = [otp EXCEPT ![u].code = 0]
      BY <3>1, <3>2 DEF LooseKeys
    <3>3. CASE otp' = [otp EXCEPT ![u].attempts = 0]
      BY <3>1, <3>3 DEF LooseKeys
    <3>4. CASE otp' = [otp EXCEPT ![u].resends = 0]
      BY <3>1, <3>4 DEF LooseKeys
    <3>5. CASE otp' = [otp EXCEPT ![u].cooldown = FALSE]
      BY <3>1, <3>5 DEF LooseKeys
    <3> QED BY <1>3, <3>2, <3>3, <3>4, <3>5 DEF Expire
  <2>5. \A q \in Procs : GuessIn(req'[q], otp', issued', consumed')
    <3>1. issued \in Nat /\ Progress
      BY <1>a, <2>2, <2>4, Constants DEF Progress, CodeTyping
    <3>2. \A q \in Procs : Guess(req[q]) /\ (req[q].pc = "deleteCode" => req[q].code # 0)
      BY <1>a, Held DEF CodesInv, Control
    <3> QED BY <1>a, <2>2, <3>1, <3>2, GuessKept
  <2>6. 0 \in (0..issued) \ consumed
    <3>1. issued \in Nat /\ consumed \subseteq 1..issued
      BY <1>a, Constants DEF CodesInv, CodeTyping
    <3> QED BY <3>1
  <2>7. CodesInv'
    BY <1>a, <2>2, <2>4, <2>5, <2>6 DEF CodesInv, Guess
  <2> QED BY <1>b, <2>1, <2>3, <2>7 DEF CodeInv, Bounds
<1>4. CASE ExpireReset
  BY <1>4, <1>d DEF ExpireReset
<1>5. CASE Tick
  BY <1>5, <1>d DEF Tick, codeVars
<1>6. CASE UNCHANGED vars
  BY <1>6, <1>d DEF vars, codeVars
<1> QED
  BY <1>1, <1>2, <1>3, <1>4, <1>5, <1>6 DEF Next

(* The invariant of the codes holds in every run.                          *)
THEOREM CodesInvariant == Spec => []CodeInv
BY CodeInit, CodeNext, PTL DEF Spec

(* However many verifications run side by side, a code stands fewer wrong  *)
(* guesses than otp.maxAttempts and one for each client.                   *)
THEOREM CodesStandFewGuesses == Spec => []GuessesBounded
<1>1. CodeInv => GuessesBounded
  <2> SUFFICES ASSUME CodeInv, NEW t \in Purposes
               PROVE  guesses[t] < MaxAttempts + Cardinality(Procs)
    BY DEF GuessesBounded
  <2> DEFINE G == Cardinality(Guessing(t))
             H == Cardinality(Counting(t))
  <2>1. /\ otp[t].attempts + G < MaxAttempts + NumClients
        /\ guesses[t] <= otp[t].attempts + H
    BY DEF CodeInv, Bounds, BoundsOf, AttemptsBound
  <2>2. H <= G /\ G \in Nat /\ H \in Nat
    <3>1. Counting(t) \subseteq Guessing(t) /\ Guessing(t) \in SUBSET Procs
      BY DEF Counting, Guessing, Counts, Guesses
    <3>2. IsFiniteSet(Guessing(t))
      BY <3>1, Constants, FS_Subset
    <3> QED BY <3>1, <3>2, FS_Subset, FS_CardinalityType
  <2>3. /\ otp[t].attempts \in Nat /\ guesses[t] \in Nat /\ NumClients \in Nat
        /\ MaxAttempts \in Nat
    BY CountersTyped DEF CodeInv, SessionInv, Typing
  <2> HIDE DEF G, H
  <2>4. guesses[t] < MaxAttempts + NumClients
    BY <2>1, <2>2, <2>3
  <2> QED BY <2>4 DEF NumClients
<1> QED BY <1>1, CodesInvariant, PTL

(* During a cooldown no more codes are mailed than there are clients.      *)
THEOREM CooldownBoundsMails == Spec => []MailsBounded
<1>1. CodeInv => MailsBounded
  <2> SUFFICES ASSUME CodeInv, NEW t \in Purposes PROVE mails[t] <= Cardinality(Procs)
    BY DEF MailsBounded
  <2> DEFINE G == Cardinality(Mailing(t))
  <2>1. mails[t] + G <= NumClients
    BY DEF CodeInv, Bounds, BoundsOf, MailsBound
  <2>2. G \in Nat
    BY SizeOf DEF Mailing
  <2>3. mails[t] \in Nat /\ NumClients \in Nat
    BY CountersTyped DEF CodeInv, SessionInv, Typing
  <2> HIDE DEF G
  <2>4. mails[t] <= NumClients
    BY <2>1, <2>2, <2>3
  <2> QED BY <2>4 DEF NumClients
<1> QED BY <1>1, CodesInvariant, PTL

(* A code that was accepted and deleted is not accepted again.             *)
THEOREM CodesAreUsedOnce == Spec => []CodeUsedOnce
<1>1. CodeInv => CodeUsedOnce
  BY DEF CodeInv, CodesInv, CodeUsedOnce, Guess, GuessIn
<1> QED BY <1>1, CodesInvariant, PTL

(* Every variable has its type, and the counters in Redis their bounds:    *)
(* attempts run past otp.maxAttempts by the clients that run side by side, *)
(* and the resends count those that overlap.                               *)
THEOREM AuthTypes == Spec => []TypeOK
<1>1. CodeInv => TypeOK
  <2> SUFFICES ASSUME CodeInv PROVE TypeOK
    OBVIOUS
  <2>1. SessionTyping /\ CodeTyping
    BY DEF CodeInv, SessionInv, Typing
  <2>2. ASSUME NEW t \in Purposes PROVE otp[t] \in Keys
    <3> DEFINE G == Cardinality(Guessing(t))
               K == Cardinality(Retrying(t))
    <3>1. /\ otp[t].attempts + G < MaxAttempts + NumClients
          /\ otp[t].resends + K <= NumClients
      BY DEF CodeInv, Bounds, BoundsOf, AttemptsBound, ResendsBound
    <3>2. G \in Nat /\ K \in Nat
      BY SizeOf DEF Guessing, Retrying
    <3>3. /\ otp[t].attempts \in Nat /\ otp[t].resends \in Nat /\ NumClients \in Nat
          /\ MaxAttempts \in Nat \ {0}
      BY <2>1, CountersTyped
    <3> HIDE DEF G, K
    <3>4. otp[t].attempts \in 0..(MaxAttempts - 1 + NumClients)
      BY <3>1, <3>2, <3>3
    <3>5. otp[t].resends \in 0..NumClients
      BY <3>1, <3>2, <3>3
    <3>6. otp[t] \in LooseKeys
      BY <2>1 DEF CodeTyping
    <3> QED BY <3>4, <3>5, <3>6 DEF LooseKeys, Keys, NumClients
  <2>3. otp \in [Purposes -> Keys]
    BY <2>1, <2>2 DEF CodeTyping
  <2> QED BY <2>1, <2>3 DEF TypeOK, SessionTyping, CodeTyping
<1> QED BY <1>1, CodesInvariant, PTL
=============================================================================
