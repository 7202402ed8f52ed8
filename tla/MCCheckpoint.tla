---------------------------- MODULE MCCheckpoint ----------------------------
(* Bounded instances of Checkpoint. *)
EXTENDS Checkpoint

CONSTANTS p1, p2, a1, a2, b1

\* one command is asked for two packages, the other for one
TwoRequests == [p \in Proc |-> IF p = p1 THEN {a1, a2} ELSE {b1}]

=============================================================================
