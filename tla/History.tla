-------------------------------- MODULE History --------------------------------
(***************************************************************************)
(* What NavigationService promises: "browser-like navigation history".     *)
(* The pages visited, in order, and the one the user is at.  Opening pages *)
(* drops what lies ahead, going back or forward drops nothing.             *)
(***************************************************************************)
EXTENDS Naturals, Sequences

CONSTANTS Home

VARIABLES entries, cursor

Init == entries = <<Home>> /\ cursor = 1

\* One page, or a page and the one it redirects to; never the page one is at.
Open ==
  /\ cursor' = Len(entries') /\ cursor' > cursor
  /\ SubSeq(entries', 1, cursor) = SubSeq(entries, 1, cursor)
  /\ \A i \in cursor .. cursor' - 1 : entries'[i] # entries'[i + 1]

\* back and forward, any number of steps, within the history
Move ==
  /\ cursor' \in 1 .. Len(entries)
  /\ UNCHANGED entries

\* only the current page remains
Forget ==
  /\ entries' = <<entries[cursor]>>
  /\ cursor' = 1

Next == Open \/ Move \/ Forget

HistorySpec == Init /\ [][Next]_<<entries, cursor>>
=============================================================================
