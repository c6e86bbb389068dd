----------------------------- MODULE AtomicOrder -----------------------------
(***************************************************************************)
(* What the saga is for: to its users an order and the stock held for it   *)
(* change together.  A budget holds nothing until it waits for the         *)
(* customer; from then until the work is completed its products are        *)
(* reserved, afterwards they are taken, and an order canceled or refused   *)
(* holds nothing.                                                          *)
(***************************************************************************)
EXTENDS OrderStatus

CONSTANTS Orders, Products

VARIABLES
  status,     \* a function from the orders opened to their status
  items,      \* ... to their products
  holding     \* what the stock service holds for each order

atomicVars == <<status, items, holding>>

HeldAt(s, i) ==
  [reserved |-> IF s \in {"PENDING_AUTHORIZATION", "AUTHORIZED", "IN_PROGRESS"}
                  THEN i ELSE {},
   taken    |-> IF s \in {"COMPLETED", "AWAITING_PAYMENT", "PAYMENT_REJECTED",
                          "PAID", "DELIVERED"}
                  THEN i ELSE {}]

AtomicInit ==
  /\ DOMAIN status = {} /\ DOMAIN items = {}
  /\ holding = [o \in Orders |-> HeldAt("RECEIVED", {})]

OpenOrder(o, i) ==
  /\ o \notin DOMAIN status
  /\ status' = [x \in DOMAIN status \cup {o} |-> IF x = o THEN "RECEIVED" ELSE status[x]]
  /\ items' = [x \in DOMAIN items \cup {o} |-> IF x = o THEN i ELSE items[x]]
  /\ UNCHANGED holding

EditOrder(o, i) ==
  /\ o \in DOMAIN status
  /\ status[o] \in {"RECEIVED", "DIAGNOSING"}
  /\ items' = [items EXCEPT ![o] = i]
  /\ UNCHANGED <<status, holding>>

MoveOrder(o, t) ==
  /\ o \in DOMAIN status
  /\ CanTransitionTo(status[o], t)
  /\ status' = [status EXCEPT ![o] = t]
  /\ holding' = [holding EXCEPT ![o] = HeldAt(t, items[o])]
  /\ UNCHANGED items

AtomicNext ==
  \E o \in Orders : \/ \E i \in SUBSET Products : OpenOrder(o, i) \/ EditOrder(o, i)
                    \/ \E t \in Status : MoveOrder(o, t)

AtomicSpec == AtomicInit /\ [][AtomicNext]_atomicVars
=============================================================================
