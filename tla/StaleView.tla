------------------------------ MODULE StaleView ------------------------------
(***************************************************************************)
(* What the public lists promise their readers: each part of an answer     *)
(* shows the data as they were at some moment of the last Window ticks,    *)
(* through the eyes of the reader's own scope, and the parts belong        *)
(* together.  Two parts may show two moments.                              *)
(***************************************************************************)
EXTENDS Naturals

CONSTANTS Data,       \* what can be stored
          Keys,       \* what can be asked for
          Parts(_, _),    \* the parts of an answer to a key
          Shown(_, _, _), \* what each part of it shows of the data
          Window      \* the age up to which data may be shown

VARIABLES data,   \* what is stored now
          recent, \* what was stored in the last Window ticks, with its age
          answer  \* the answer given in the last step, or <<>>: the key and what was shown

Init == data \in Data /\ recent = {<<data, 0>>} /\ answer = <<>>

Change == /\ data' \in Data
          /\ recent' = recent \cup {<<data', 0>>}
          /\ answer' = <<>>

Tick == /\ recent' = {<<data, 0>>} \cup {<<r[1], r[2] + 1>> : r \in {s \in recent : s[2] < Window}}
        /\ answer' = <<>> /\ UNCHANGED data

IsAnswer(k, value) ==
  /\ k \in Keys
  /\ DOMAIN value = Parts(k, value)
  /\ \A q \in DOMAIN value : \E r \in recent : value[q] = Shown(k, value, r[1])[q]

(* An answer, or none.                                                     *)
Answer == /\ answer' # <<>> => answer' = <<answer'[1], answer'[2]>> /\ IsAnswer(answer'[1], answer'[2])
          /\ UNCHANGED <<data, recent>>

Spec == Init /\ [][Change \/ Tick \/ Answer]_<<data, recent, answer>>
=============================================================================
