---------------------------- MODULE MCOrderAnswers ----------------------------
(* OrderAnswers with the claims about sessions, and these interchangeable. *)
EXTENDS OrderAnswers, OrderSessionsClaims, TLC

SessionSymmetry == Permutations(Sessions)
=============================================================================
