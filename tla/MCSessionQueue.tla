--------------------------- MODULE MCSessionQueue ---------------------------
(***************************************************************************)
(* SessionQueue with four calls, a channel of two and a budget of four.    *)
(* m1 and m2 fill the budget; m1, m3 and m4 fit in it and overflow the     *)
(* channel.  No call is above the limit that SendEncoded checks.           *)
(***************************************************************************)
EXTENDS SessionQueue

CONSTANTS m1, m2, m3, m4

MCSize == [m \in Call |-> IF m \in {m1, m2} THEN 2 ELSE 1]
=============================================================================
