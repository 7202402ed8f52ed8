---------------------------- MODULE AtomicStore ----------------------------
(***************************************************************************)
(* What the package journal promises: the files of the target root change  *)
(* as one, at the commit of the operation that is open, and at no other    *)
(* time.  An operation that does not commit leaves no trace.               *)
(***************************************************************************)
CONSTANTS Path, Content, Op

VARIABLES
  value,     \* the files, as they are or as recovery would restore them
  open,      \* the operations that are open: none or one
  committed  \* the operations that took effect

Init ==
  /\ value \in [Path -> Content]
  /\ open = {} /\ committed = {}

Begin(o) ==
  /\ open = {} /\ o \notin committed
  /\ open' = {o} /\ UNCHANGED <<value, committed>>

Commit(o) ==
  /\ open = {o} /\ open' = {}
  /\ committed' = committed \cup {o}
  /\ value' \in [Path -> Content]

Abort(o) ==
  /\ open = {o} /\ open' = {}
  /\ UNCHANGED <<value, committed>>

Next == \E o \in Op : Begin(o) \/ Commit(o) \/ Abort(o)

Spec == Init /\ [][Next]_<<value, open, committed>>

=============================================================================
