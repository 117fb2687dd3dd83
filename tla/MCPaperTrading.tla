--------------------------- MODULE MCPaperTrading ---------------------------
(* Values for the constants of PaperTrading that a .cfg cannot write. *)
EXTENDS PaperTrading

CONSTANTS c1, c2        \* two stock codes; c2 may play the board's ETF

NoSubstitute == [c \in Codes |-> c]
ToTheFund    == [c \in Codes |-> c2]
NoChoice     == {}
Overdrawn    == {-1}
RiskEdits    == {[enabled |-> TRUE, allowed |-> {}], [enabled |-> TRUE, allowed |-> {c2}]}

Plain == [side |-> "buy", code |-> c1, qty |-> 2, price |-> 2, sized |-> TRUE,
          meeting |-> FALSE, approval |-> "default", wait |-> Unset, life |-> Unset]

\* A meeting's buy that needs approval and one that waives it and is sized by
\* the code, a user's sell, a user's buy that asks for
\* approval, and a buy that cannot be sized.
Cheap == [Plain EXCEPT !.price = 1]
LedgerRequests == {[Cheap EXCEPT !.meeting = TRUE],
                   [Cheap EXCEPT !.meeting = TRUE, !.approval = "waived", !.qty = 0],
                   [Cheap EXCEPT !.side = "sell", !.qty = 1],
                   [Cheap EXCEPT !.approval = "required", !.qty = 1],
                   [Cheap EXCEPT !.sized = FALSE]}

\* Buys that compete for the volume of one code, some of them due later or
\* expiring, one without a price.
BatchRequests == {Plain, [Plain EXCEPT !.qty = 1, !.wait = 0],
                  [Plain EXCEPT !.price = 0], [Plain EXCEPT !.life = 1]}

\* Orders for two codes; the first code has no price and no quote.
QueueRequests == {[Plain EXCEPT !.code = c1, !.price = 0], [Plain EXCEPT !.code = c2]}
=============================================================================
