--------------------------- MODULE ConfigUpdates ---------------------------
(***************************************************************************)
(* One protected configuration file: merges stage new defaults beside it   *)
(* as ._cfgNNNN_ files and remove the ones the replaced version recorded   *)
(* (internal/merge), the administrator edits it, and dispatch-conf         *)
(* sessions archive, merge, use or zap the pending updates                 *)
(* (internal/dispatchconf).  A session may end at any step: a hook or a    *)
(* command fails, the operator interrupts it.                              *)
(*                                                                         *)
(* The default of version v is the number v; what a person or diff3 writes *)
(* is a number nothing else has.                                           *)
(***************************************************************************)
EXTENDS Naturals, Sequences, FiniteSets, FiniteSetsExt

CONSTANTS
  MaxVersion,  \* bound: versions of the package, each with its own default
  Options,     \* sets of options a session may run with
  MaxWrites,   \* bound: contents made by people and by diff3
  MaxMerges    \* bound: installations and reinstallations

Absent == 0
Slot == 0..MaxMerges

VARIABLES
  current,            \* content of the file
  updates, order,     \* [Slot -> content of ._cfgNNNN_], when it was staged
  premerged,          \* [Slot -> content of ._mrgNNNN_]
  record,             \* [version, slot, content]: what the VDB says was installed
  archived, backups,  \* the archived copy and its rotations
  dist, distNew,      \* the archived defaults
  session,            \* the state of Run
  writes, merges,     \* counters
  settled,            \* history: the latest update decided on,
  overwritten,        \* the contents that sessions replaced,
  irregular           \* what happened besides: a pending update was edited, a
                      \* session was cut after its decision, a merge raced one

files == <<current, updates, order, premerged>>
history == <<settled, overwritten, irregular>>
store == <<archived, backups, dist, distNew>>
vars == <<files, record, store, session, writes, merges, history>>

NoSlot == MaxMerges + 1
Fresh == MaxVersion + writes + 1
Pending == {n \in Slot : updates[n] # Absent}
Idle == [pc |-> "idle", new |-> 0, superseded |-> {}, selected |-> "new", options |-> {},
         automatic |-> FALSE, edited |-> FALSE]

Init ==
  /\ current = 1 /\ record = [version |-> 1, slot |-> NoSlot, content |-> 1]
  /\ updates = [n \in Slot |-> Absent] /\ order = [n \in Slot |-> 0]
  /\ premerged = [n \in Slot |-> Absent]
  /\ archived = Absent /\ backups = {} /\ dist = Absent /\ distNew = Absent
  /\ session = Idle
  /\ writes = 0 /\ merges = 0 /\ settled = 0 /\ overwritten = {} /\ irregular = {}

-----------------------------------------------------------------------------
(* merge: staging a default, and removing the replaced version's           *)

nextProtectedPath == Min({n \in Slot : updates[n] = Absent})

\* removeRecordedPath removes only what is still as it was recorded
Unrecorded(staged) ==
  IF record.slot # NoSlot /\ staged[record.slot] = record.content
  THEN [staged EXCEPT ![record.slot] = Absent] ELSE staged

\* the file is written when it is absent or equal, else the default is staged;
\* a reinstallation has no replaced VDB entry, so nothing obsolete is removed
Merge(v) ==
  /\ merges < MaxMerges /\ v \in {record.version, record.version + 1} /\ v <= MaxVersion
  /\ merges' = merges + 1
  /\ LET stage == current \notin {Absent, v}
         slot == IF stage THEN nextProtectedPath ELSE NoSlot
         staged == IF stage THEN [updates EXCEPT ![slot] = v] ELSE updates
     IN  /\ current' = IF stage THEN current ELSE v
         /\ updates' = IF v = record.version THEN staged ELSE Unrecorded(staged)
         /\ order' = IF stage THEN [order EXCEPT ![slot] = merges + 1] ELSE order
         /\ record' = [version |-> v, slot |-> slot, content |-> v]
  /\ session' = [session EXCEPT !.edited = @ \/ current' # current]
  /\ irregular' = IF session.pc = "idle" THEN irregular ELSE irregular \cup {"race"}
  /\ UNCHANGED <<premerged, store, writes, settled, overwritten>>

\* the administrator writes or removes the file, during a session or not
Edit ==
  /\ writes < MaxWrites /\ writes' = writes + 1
  /\ current' \in {Fresh, Absent} /\ current' # current
  /\ session' = [session EXCEPT !.edited = TRUE]
  /\ UNCHANGED <<updates, order, premerged, record, store, merges, history>>

-----------------------------------------------------------------------------
(* dispatch-conf                                                           *)

At(pc) == session.pc = pc
Goto(pc) == session' = [session EXCEPT !.pc = pc]

\* the candidate whose name sorts last; the others are superseded
discover == Max(Pending)

Start(options) ==
  /\ At("idle") /\ Pending # {}
  /\ session' = [Idle EXCEPT !.pc = "archive", !.new = discover,
                             !.superseded = Pending \ {discover}, !.options = options]
  /\ UNCHANGED <<files, record, store, writes, merges, history>>

\* the copy moves to .1 when the file is no longer what it holds
rotate(content) ==
  IF archived \notin {Absent, content} THEN backups \cup {archived} ELSE backups

\* archive saves the current file ...
archive ==
  /\ At("archive") /\ updates[session.new] # Absent
  /\ backups' = rotate(current)
  /\ archived' = current
  /\ session' = [session EXCEPT !.pc = "premerge", !.edited = FALSE]
  /\ UNCHANGED <<files, record, dist, distNew, writes, merges, history>>

\* ... merges it with the update when there is a common default, and saves
\* the new default
prepareThreeWayMerge ==
  /\ At("premerge") /\ updates[session.new] # Absent
  /\ distNew' = updates[session.new]
  /\ IF current # Absent /\ dist # Absent
     THEN \/ /\ writes < MaxWrites /\ writes' = writes + 1
             /\ premerged' = [premerged EXCEPT ![session.new] = Fresh]
          \/ premerged' = [premerged EXCEPT ![session.new] = Absent] /\ UNCHANGED writes
     ELSE UNCHANGED <<premerged, writes>>
  /\ Goto("decide")
  /\ UNCHANGED <<current, updates, order, record, archived, backups, dist, merges, history>>

\* the comparisons that ignore CVS headers, comments and white space equate
\* contents and are left out
automaticDecision ==
  LET new == updates[session.new]
  IN  IF current = Absent \/ new = Absent THEN "ask"
      ELSE IF current = new THEN "identical"
      ELSE IF "frozen" \in session.options THEN "zap"
      ELSE IF "masked" \in session.options THEN "update"
      ELSE IF "unmodified" \in session.options /\ current = dist THEN "update"
      ELSE IF "premerged" \in session.options /\ new = dist THEN "zap"
      ELSE "ask"

Decide ==
  /\ At("decide")
  /\ LET decision == automaticDecision
     IN  /\ CASE decision = "ask" ->
                   session' = [session EXCEPT !.pc = "ask",
                                 !.selected = IF premerged[session.new] # Absent THEN "merged" ELSE "new"]
              [] decision = "update" ->
                   session' = [session EXCEPT !.pc = "replace", !.automatic = TRUE]
              [] decision = "identical" -> Goto("post")
              [] OTHER -> Goto("clean")
         /\ updates' = IF decision \in {"identical", "zap"}
                       THEN [updates EXCEPT ![session.new] = Absent] ELSE updates
         /\ settled' = IF decision \in {"identical", "zap"} THEN order[session.new] ELSE settled
  /\ UNCHANGED <<current, order, premerged, record, store, writes, merges, overwritten, irregular>>

\* the operator's choices that keep the prompt: edit, merge, toggle
EditNew ==
  /\ At("ask") /\ writes < MaxWrites /\ writes' = writes + 1
  /\ IF session.selected = "new"
     THEN updates' = [updates EXCEPT ![session.new] = Fresh] /\ UNCHANGED premerged
     ELSE premerged' = [premerged EXCEPT ![session.new] = Fresh] /\ UNCHANGED updates
  /\ irregular' = irregular \cup {"edit"}
  /\ UNCHANGED <<current, order, record, store, session, merges, settled, overwritten>>

runMerge ==
  /\ At("ask") /\ writes < MaxWrites /\ writes' = writes + 1
  /\ premerged' = [premerged EXCEPT ![session.new] = Fresh]
  /\ session' = [session EXCEPT !.selected = "merged"]
  /\ UNCHANGED <<current, updates, order, record, store, merges, history>>

Toggle ==
  /\ At("ask") /\ premerged[session.new] # Absent
  /\ session' = [session EXCEPT !.selected = IF @ = "merged" THEN "new" ELSE "merged"]
  /\ UNCHANGED <<files, record, store, writes, merges, history>>

\* quit and next leave all intact
Leave ==
  /\ At("ask") /\ session' = Idle
  /\ UNCHANGED <<files, record, store, writes, merges, history>>

Zap ==
  /\ At("ask")
  /\ updates' = [updates EXCEPT ![session.new] = Absent]
  /\ premerged' = [premerged EXCEPT ![session.new] = Absent]
  /\ settled' = order[session.new]
  /\ Goto("clean")
  /\ UNCHANGED <<current, order, record, store, writes, merges, overwritten, irregular>>

Use ==
  /\ At("ask") /\ Goto("replace")
  /\ UNCHANGED <<files, record, store, writes, merges, history>>

\* replace: the selected file takes the name of the configuration; then the
\* update it was merged from and the merge are removed
replace ==
  /\ At("replace")
  /\ LET source == IF session.selected = "merged" THEN premerged[session.new] ELSE updates[session.new]
     IN  source # Absent /\ current' = source
  /\ updates' = [updates EXCEPT ![session.new] = Absent]
  /\ premerged' = IF session.automatic THEN premerged ELSE [premerged EXCEPT ![session.new] = Absent]
  /\ settled' = order[session.new]
  /\ overwritten' = overwritten \cup (IF session.edited THEN {} ELSE {current} \ {Absent})
  /\ Goto("post")
  /\ UNCHANGED <<order, record, store, writes, merges, irregular>>

\* Mutant: what was put in place is taken for the default
postProcessArchive_current ==
  /\ At("post")
  /\ dist' = current /\ distNew' = Absent
  /\ Goto("clean")
  /\ UNCHANGED <<files, record, archived, backups, writes, merges, history>>

\* the archived new default becomes the default
postProcessArchive ==
  /\ At("post")
  /\ dist' = distNew /\ distNew' = Absent
  /\ Goto("clean")
  /\ UNCHANGED <<files, record, archived, backups, writes, merges, history>>

removePaths ==
  /\ At("clean")
  /\ updates' = [n \in Slot |-> IF n \in session.superseded THEN Absent ELSE updates[n]]
  /\ session' = Idle
  /\ UNCHANGED <<current, order, premerged, record, store, writes, merges, history>>

\* an error or an interrupt ends the session where it is
End ==
  /\ session.pc \in {"archive", "premerge", "decide", "replace", "post", "clean"}
  /\ irregular' = IF session.pc \in {"post", "clean"} THEN irregular \cup {"cut"} ELSE irregular
  /\ session' = Idle
  /\ UNCHANGED <<files, record, store, writes, merges, settled, overwritten>>

Next ==
  \/ \E v \in 1..MaxVersion : Merge(v)
  \/ \E options \in Options : Start(options)
  \/ Edit \/ archive \/ prepareThreeWayMerge \/ Decide \/ EditNew \/ runMerge \/ Toggle \/ Leave \/ Zap \/ Use
  \/ replace \/ postProcessArchive \/ removePaths \/ End

Spec == Init /\ [][Next]_vars

-----------------------------------------------------------------------------
(* Properties                                                              *)

\* What a session overwrote is the archived copy or one of its rotations
\* (nine are kept; the instance makes fewer), except what was written after the
\* session had archived the file.
OverwrittenIsArchived == overwritten \subseteq {archived} \cup backups

\* replace-unmodified: without CONFIG_PROTECT_MASK an update is put in place
\* unasked only over a default of the package, never over what a person or a
\* merge wrote (an update that was edited and left pending is archived as a
\* default by the next session, and is taken for one from then on).
AutomaticKeepsEdits ==
  At("replace") /\ session.automatic /\ "masked" \notin session.options
    /\ ~session.edited /\ "edit" \notin irregular
  => current \in 1..MaxVersion

\* Once an update was used or zapped, one staged before it is never offered
\* again, unless a session died after it had decided and before it removed
\* what it superseded, or a merge staged and removed updates under a session.
SettledStaysSettled ==
  session.pc \in {"archive", "premerge", "decide", "ask"} /\ irregular \cap {"cut", "race"} = {} =>
    order[session.new] > settled
=============================================================================
