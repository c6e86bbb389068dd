----------------------------- MODULE MCOrderItems -----------------------------
(* OrderItems with handlers of the order, and products, that are              *)
(* interchangeable.                                                           *)
EXTENDS OrderItems, TLC

ItemSymmetry == Permutations(Sessions) \cup Permutations(References)
=============================================================================
