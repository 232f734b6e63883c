----------------------------- MODULE StagingSlot -----------------------------
(***************************************************************************)
(* What a StagingService promises its callers (lib/core/interfaces.py):    *)
(* a single place in which one change waits to be confirmed.  Staging puts *)
(* a change there, replacing the one that waited; confirming writes the    *)
(* waiting change to the database and empties the place; anything else     *)
(* that empties the place writes nothing.  Immediate operations write to   *)
(* the database beside it, and a name is never written twice.              *)
(***************************************************************************)
CONSTANTS Names, NoName

VARIABLES slot,     \* the name of the user whose creation waits, or NoName
          users     \* the names of the committed users

slotVars == <<slot, users>>

SlotInit == slot = NoName /\ users \in SUBSET Names

SlotStage(n) ==
  /\ n \notin users
  /\ slot' = n
  /\ UNCHANGED users

SlotConfirm ==
  /\ slot \in Names \ users
  /\ users' = users \cup {slot}
  /\ slot' = NoName

SlotDiscard ==
  /\ slot' = NoName
  /\ UNCHANGED users

SlotCreate(n) ==
  /\ n \notin users /\ n # slot
  /\ users' = users \cup {n}
  /\ UNCHANGED slot

SlotDelete(n) ==
  /\ n \in users
  /\ users' = users \ {n}
  /\ UNCHANGED slot

SlotNext ==
  \/ SlotConfirm \/ SlotDiscard
  \/ \E n \in Names : SlotStage(n) \/ SlotCreate(n) \/ SlotDelete(n)

SlotSpec == SlotInit /\ [][SlotNext]_slotVars
=============================================================================
