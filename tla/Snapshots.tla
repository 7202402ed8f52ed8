----------------------------- MODULE Snapshots -----------------------------
(* What the resolver's speculative branches promise: a branch begins by
   remembering everything it may change, and giving it up puts all of it back,
   whatever nested branches did in between. *)
EXTENDS Sequences, Naturals

CONSTANT State

VARIABLES current, saved

Init == /\ current \in State
        /\ saved = <<>>

Change == /\ current' \in State
          /\ UNCHANGED saved

Begin == /\ saved' = Append(saved, current)
         /\ UNCHANGED current

Keep == /\ saved # <<>>
        /\ saved' = SubSeq(saved, 1, Len(saved) - 1)
        /\ UNCHANGED current

GiveUp == /\ saved # <<>>
          /\ current' = saved[Len(saved)]
          /\ saved' = SubSeq(saved, 1, Len(saved) - 1)

Next == Change \/ Begin \/ Keep \/ GiveUp

Spec == Init /\ [][Next]_<<current, saved>>
=============================================================================
