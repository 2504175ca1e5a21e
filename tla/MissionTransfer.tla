--------------------------- MODULE MissionTransfer ---------------------------
(***************************************************************************)
(* What the backend relies on when it downloads a mission, without         *)
(* datagrams, retries, timers or sequence numbers to keep.  A transfer is  *)
(* under way or not.  It ends with a batch of items or with none.  The     *)
(* batch ends with a whole mission: the vehicle's own if it never changed  *)
(* its mission; otherwise each waypoint is one that some mission has at    *)
(* that place, and the batch may mix missions.                             *)
(*                                                                         *)
(* MissionDownload implements this module.                                 *)
(***************************************************************************)
EXTENDS Integers, Sequences

CONSTANTS
  Missions    \* the missions the vehicle may hold

VARIABLES
  busy,       \* a transfer is under way
  mission,    \* the mission the vehicle holds
  changed,    \* the vehicle has held another one
  batch       \* the items of the last transfer, none unless it succeeded

transferVars == <<busy, mission, changed, batch>>

(* The items of a batch that nothing follows but n - i others.             *)
Newest(items, n, i) == items[Len(items) - n + i]

(* The waypoint of the item is one that some mission has at that place.    *)
IsHeld(item) == \E m \in Missions :
  item.seq \in 0..(Len(m) - 1) /\ item.wp = m[item.seq + 1]

(* The newest items are numbered as a mission of length n is.              *)
IsNumbered(items, n) ==
  /\ n \in 1..Len(items)
  /\ \A i \in 1..n : Newest(items, n, i).seq = i - 1

EndsWith(items, m) ==
  /\ IsNumbered(items, Len(m))
  /\ \A i \in 1..Len(m) : Newest(items, Len(m), i).wp = m[i]

IsDelivery(items) ==
  /\ \A i \in 1..Len(items) : IsHeld(items[i])
  /\ \E m \in Missions : IsNumbered(items, Len(m))
  /\ ~changed => EndsWith(items, mission)

Init ==
  /\ busy = FALSE /\ mission \in Missions
  /\ changed = FALSE /\ batch = <<>>

(* The socket may not be opened; then the transfer has ended at once.      *)
Begin ==
  /\ ~busy /\ busy' \in BOOLEAN
  /\ batch' = <<>>
  /\ UNCHANGED <<mission, changed>>

Succeed ==
  /\ busy /\ ~busy'
  /\ IsDelivery(batch')
  /\ UNCHANGED <<mission, changed>>

Fail ==
  /\ busy /\ ~busy'
  /\ UNCHANGED <<mission, changed, batch>>

Change ==
  /\ mission' \in Missions /\ changed' = TRUE
  /\ UNCHANGED <<busy, batch>>

Next == Begin \/ Succeed \/ Fail \/ Change

Spec == Init /\ [][Next]_transferVars
=============================================================================
