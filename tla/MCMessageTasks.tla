--------------------------- MODULE MCMessageTasks ---------------------------
(* Values for the constants of MessageTasks that a .cfg cannot write. *)
EXTENDS MessageTasks

CONSTANTS w1, w2, c1

OneEach    == [m \in Messages |-> m]
TwoAndOne  == [m \in Messages |-> IF m = 3 THEN 2 ELSE 1]
=============================================================================
