--------------------------- MODULE PaperOrderBook ---------------------------
(***************************************************************************)
(* What the paper-trading ledger promises its users, whatever transactions  *)
(* run under it: an order moves only along its lifecycle, its fills never   *)
(* exceed its quantity and never grow once it is closed, and cash and       *)
(* position move by exactly what was filled.                                *)
(*                                                                          *)
(* Money is counted in units of the fill price and fees are left out.       *)
(***************************************************************************)
EXTENDS Integers, FiniteSetsExt

CONSTANTS Orders, Side, Qty, InitialCash, InitialHeld

VARIABLES status, fills, cash, held

book == <<status, fills, cash, held>>

Init == /\ status = [o \in Orders |-> "suggested"]
        /\ fills = [o \in Orders |-> 0]
        /\ cash = InitialCash /\ held = InitialHeld

\* What a step may do to one order.
Moves(o) ==
  \/ status'[o] = status[o] /\ fills'[o] = fills[o]
  \/ /\ status[o] = "suggested" /\ fills'[o] = fills[o]
     /\ status'[o] \in {"pending", "rejected", "cancelled"}
  \/ /\ status[o] = "pending"
     /\ \/ status'[o] \in {"rejected", "cancelled", "expired"} /\ fills'[o] = fills[o]
        \/ status'[o] = "pending" /\ fills'[o] \in fills[o] .. Qty[o] - 1
        \/ status'[o] = "filled" /\ fills'[o] = Qty[o]
  \/ /\ status[o] \in {"cancelled", "rejected"}
     /\ status'[o] = "deleted" /\ fills'[o] \in {0, fills[o]}

\* The shares a step adds to the position: fills of buys less fills of sells.
\* The fills a delete takes away were settled long ago.
Added(o) == IF status'[o] = "deleted" THEN 0
            ELSE IF Side[o] = "buy" THEN fills'[o] - fills[o]
            ELSE fills[o] - fills'[o]

Step == /\ \A o \in Orders : Moves(o)
        /\ held' = held + MapThenSumSet(Added, Orders) /\ held' >= 0
        /\ cash' = cash - MapThenSumSet(Added, Orders) /\ cash' >= 0

Spec == Init /\ [][Step]_book
=============================================================================
