---------------------------- MODULE RequestPort ----------------------------
(***************************************************************************)
(* What every level of the memory system of the simulated machine promises *)
(* to the level above it.  A request that was taken in is answered, or it  *)
(* is called off by the one who made it; it is never answered a second     *)
(* time, never without having been asked, and never after it was called    *)
(* off.  The levels answer in any order, and one step of a level may       *)
(* answer several requests.                                                *)
(*                                                                         *)
(* MramChannel, SharedCache and CoherentBus are shown to implement this    *)
(* module; the L3 cache that CoherentBus sees below the bus is an          *)
(* environment that behaves as this module says.                           *)
(***************************************************************************)
CONSTANT Ids                \* the requests

VARIABLE status             \* what has become of each of them

State == {"idle", "asked", "answered", "withdrawn"}

Init == status = [i \in Ids |-> "idle"]

Ask(i) == status[i] = "idle" /\ status'[i] = "asked"

Answer(i) == status[i] = "asked" /\ status'[i] = "answered"

Withdraw(i) == status[i] = "asked" /\ status'[i] = "withdrawn"

Keep(i) == status'[i] = status[i]

Next ==
  /\ status' \in [Ids -> State]
  /\ \A i \in Ids : Ask(i) \/ Answer(i) \/ Withdraw(i) \/ Keep(i)

Spec == Init /\ [][Next]_status

(* Nothing that was asked is left without an end. *)
Progress == \A i \in Ids : status[i] = "asked" ~> status[i] # "asked"
=============================================================================
