----------------------------- MODULE MCOrderSaga -----------------------------
(***************************************************************************)
(* Small instances of the order service for TLC: with free callers (Spec), *)
(* with disciplined ones (DisciplinedSpec) and for the claims.             *)
(***************************************************************************)
EXTENDS OrderSagaDiscipline, OrderSagaClaims

\* MS3 may refuse any operation, or only a reservation for want of stock.
AnyOp == Operation
ReserveOnly == {"RESERVE"}
=============================================================================
