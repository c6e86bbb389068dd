------------------------- MODULE OrderSagaDiscipline -------------------------
(***************************************************************************)
(* The same service under callers that keep to a discipline the code does  *)
(* not enforce: nobody calls it about an order whose saga is in flight, an *)
(* order that can still be paid is not deleted, and refunds come from the  *)
(* service only.  Crashes, redelivery, reordering, refused operations and  *)
(* recovery stay.  Under it the saga keeps its promise about the stock;    *)
(* OrderSagaClaims shows what each broken rule costs.                      *)
(***************************************************************************)
EXTENDS OrderSaga

\* Delete is the only call that must also stay away from a payable order.
Payable(o) == Exists(o) /\ orders[o].status \in {"AWAITING_PAYMENT", "PAYMENT_REJECTED"}

DisciplinedCall(o) ==
  /\ o \notin Awaiting
  /\ \/ \E items \in SUBSET Products : Create(o, items) \/ UpdateItems(o, items)
     \/ Advance(o) \/ Approve(o) \/ Deny(o) \/ RetryPayment(o)
     \/ ~Payable(o) /\ Delete(o)

DisciplinedPayer ==
  /\ \E i \in DOMAIN mpOrders, s \in {"approved", "rejected"} : Pay(i, s)
  /\ UNCHANGED <<orders, sagas, processVars, inventoryVars>>

DisciplinedNext ==
  \/ \E o \in Orders : DisciplinedCall(o)
  \/ \E p \in DOMAIN payments : MarkApproved(p) \/ MarkRejected(p)
  \/ \E r \in replies : Consume(r) \/ DeadLetter(r)
  \/ \E m \in requests : Stock(m)
  \/ DisciplinedPayer
  \/ Crash
  \/ \E k \in Replicas : Recover(k)

DisciplinedSpec == Init /\ [][DisciplinedNext]_vars

(***************************************************************************)
(* Kubernetes restarts a process that died, SQS delivers every message     *)
(* that was not deleted, MS3 works its queue off.  Each saga has its own   *)
(* fairness, as messages are delivered independently of each other.        *)
(* Callers and payers owe nothing.                                         *)
(***************************************************************************)
Fairness ==
  /\ \A k \in Replicas : WF_vars(Recover(k))
  /\ \A s \in 1..MaxSagas :
       /\ WF_vars(\E m \in requests : m.saga = s /\ Stock(m))
       /\ WF_vars(\E r \in replies : r.saga = s /\ Consume(r))

FairDisciplinedSpec == DisciplinedSpec /\ Fairness

-----------------------------------------------------------------------------
(***************************************************************************)
(* Every request on the queue, first sent or republished after a crash,    *)
(* asks for the operation and the products its saga was started for:       *)
(* recovery rebuilds the request from the row alone.                       *)
(***************************************************************************)
RequestsAreFaithful == \A m \in requests : m = sagas[m.saga]

(***************************************************************************)
(* A success of the saga in flight can always be applied: no row waits for *)
(* a transition its status does not allow, which would make the reply fail *)
(* on every delivery and leave the row waiting for ever.                   *)
(***************************************************************************)
SagaCanFinish == \A o \in Awaiting : CanSettle(orders[o], orders[o].target)

\* A saga takes effect when MS3 performs its operation.
SettledOk(o) ==
  /\ o \in Awaiting
  /\ \E r \in settled : r.saga = orders[o].sagaId /\ r.ok

EffectiveStatus ==
  [o \in DOMAIN orders |-> IF SettledOk(o) THEN orders[o].target ELSE orders[o].status]

ItemsOf == [o \in DOMAIN orders |-> orders[o].items]

Atomic == INSTANCE AtomicOrder WITH status  <- EffectiveStatus,
                                    items   <- ItemsOf,
                                    holding <- stock

(***************************************************************************)
(* The saga is an atomic change of the order and its stock: the order with *)
(* its messages, replies, refusals, crashes and recoveries implements      *)
(* AtomicOrder.  Every order holds what its effective status calls for,    *)
(* and changes it in one step of that status.                              *)
(***************************************************************************)
SagaIsAtomic == Atomic!AtomicSpec

\* A saga in flight is resolved: every order that waits for the stock
\* service stops waiting, even if the process dies before it publishes.
SagasResolve ==
  \A o \in Orders : (Exists(o) /\ o \in Awaiting) ~> (o \notin Awaiting)
=============================================================================
