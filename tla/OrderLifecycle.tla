--------------------------- MODULE OrderLifecycle ---------------------------
(***************************************************************************)
(* What the service promises about the life of an order, without sagas,    *)
(* queues or payments: it goes through the stages of a repair in order,    *)
(* never skips one and never goes back; it may be canceled from any stage  *)
(* that is not an end, refused by the customer only while it is a budget,  *)
(* and an end is for ever.                                                 *)
(***************************************************************************)
CONSTANT Orders

VARIABLE stage      \* a function from the orders opened to their stage

Stage == {"budget", "work", "billing", "paid", "delivered", "canceled", "denied"}

Promised == {<<"budget", "work">>, <<"work", "billing">>, <<"billing", "paid">>,
             <<"paid", "delivered">>, <<"budget", "denied">>,
             <<"budget", "canceled">>, <<"work", "canceled">>,
             <<"billing", "canceled">>, <<"paid", "canceled">>}

LifecycleInit == DOMAIN stage = {}

Open(o) ==
  /\ o \notin DOMAIN stage
  /\ stage' = [x \in DOMAIN stage \cup {o} |-> IF x = o THEN "budget" ELSE stage[x]]

Move(o, t) ==
  /\ o \in DOMAIN stage
  /\ <<stage[o], t>> \in Promised
  /\ stage' = [stage EXCEPT ![o] = t]

LifecycleNext == \E o \in Orders : Open(o) \/ \E t \in Stage : Move(o, t)

LifecycleSpec == LifecycleInit /\ [][LifecycleNext]_stage
=============================================================================
