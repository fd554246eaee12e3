----------------------------- MODULE PrepaidCalls ------------------------------
(***************************************************************************)
(* What the neuron budget promises, whatever queue, retries and crashes    *)
(* stand behind it: each delivery of a job pays once, in advance and for   *)
(* itself, while the day's limit allows it, and only then may it call the  *)
(* image model.                                                            *)
(***************************************************************************)
EXTENDS Naturals

CONSTANTS
  Deliveries,  \* whoever may call
  Cost,        \* the price of a call
  Limit        \* the day's budget

VARIABLES
  used,   \* what was spent of the budget
  paid,   \* the deliveries that paid
  called  \* the deliveries that called

Init == used = 0 /\ paid = {} /\ called = {}

Pay(d) ==
  /\ d \notin paid
  /\ used + Cost <= Limit
  /\ used' = used + Cost
  /\ paid' = paid \union {d}
  /\ UNCHANGED called

Call(d) ==
  /\ d \in paid
  /\ called' = called \union {d}
  /\ UNCHANGED <<used, paid>>

Next == \E d \in Deliveries : Pay(d) \/ Call(d)

Spec == Init /\ [][Next]_<<used, paid, called>>

=============================================================================
