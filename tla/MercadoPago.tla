----------------------------- MODULE MercadoPago -----------------------------
(***************************************************************************)
(* Mercado Pago as the order service uses it: external code.  An MP order  *)
(* (a Preference) carries the id of its service order as external          *)
(* reference and stays payable: the service's client has no call that      *)
(* closes it (SDKClient.CancelOrder returns without calling the API).      *)
(* Several payments may be attempted on one MP order, at most one of them  *)
(* approved.                                                               *)
(***************************************************************************)
EXTENDS Naturals, Sequences

CONSTANTS
  MaxMPOrders,    \* bound: MP orders created
  MaxPayments     \* bound: payments attempted

VARIABLES
  mpOrders,       \* the i-th MP order: the service order it refers to
  payments        \* the i-th payment: its MP order and its status

mpVars == <<mpOrders, payments>>

PaymentStatus == {"approved", "rejected", "refunded"}

Payment == [mpOrder : Nat, status : PaymentStatus]

MPInit == mpOrders = <<>> /\ payments = <<>>

\* POST of a Preference; its id is the next index.
CreateMPOrder(o) ==
  /\ Len(mpOrders) < MaxMPOrders
  /\ mpOrders' = Append(mpOrders, o)

\* Full refund of an approved payment; any other payment is not refundable.
RefundPayment(p) ==
  /\ p \in DOMAIN payments
  /\ payments[p].status = "approved"
  /\ payments' = [payments EXCEPT ![p].status = "refunded"]

\* The customer pays through the checkout page.
Pay(i, status) ==
  /\ Len(payments) < MaxPayments
  /\ \A p \in DOMAIN payments : payments[p].mpOrder = i => payments[p].status = "rejected"
  /\ payments' = Append(payments, [mpOrder |-> i, status |-> status])
  /\ UNCHANGED mpOrders

\* The seller refunds from the Mercado Pago panel.
PanelRefund(p) ==
  /\ RefundPayment(p)
  /\ UNCHANGED mpOrders
=============================================================================
