----------------------------- MODULE MCExecutor -----------------------------
(* Bounded instances of Executor. *)
EXTENDS Executor

\* the blocker x must go before either of two packages is merged
RequesterOfX == [b \in Blocker |-> {1, 2}]

=============================================================================
