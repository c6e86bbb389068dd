--------------------------- MODULE MCOrderRequests ---------------------------
(* OrderRequests with two customers, one with two vehicles, and the items  *)
(* on which the validator, the use case and the aggregate may disagree.    *)
EXTENDS OrderRequests

CONSTANTS c1, c2, v1, v2, v3

OwnerOf == [v \in {v1, v2, v3} |-> IF v = v3 THEN c2 ELSE c1]

Inputs ==
  [type : {"known", "padded"}, ref : {"uuid"}, quantity : {1}]
    \cup {[type |-> "known", ref |-> "uuid", quantity |-> -1],
          [type |-> "known", ref |-> "malformed", quantity |-> 0],
          [type |-> "unknown", ref |-> "respelt", quantity |-> 2]}
=============================================================================
