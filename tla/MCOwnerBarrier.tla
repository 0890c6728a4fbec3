--------------------------- MODULE MCOwnerBarrier ---------------------------
(* Two owner slots for three loops, one request slot for one request. *)
EXTENDS OwnerBarrier

MCLimit == [k \in Kinds |-> IF k = "owner" THEN 2 ELSE 1]

=============================================================================
