------------------------- MODULE MCCustomerDeletion -------------------------
(* One or two orders of the deleted customer; MS3 may refuse a reservation. *)
EXTENDS CustomerDeletion, TLC

ReserveOnly == {"RESERVE"}
Never == {}
OrderSymmetry == Permutations(Orders)
=============================================================================
