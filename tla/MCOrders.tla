------------------------------ MODULE MCOrders ------------------------------
(* Two requests fight for one order id, a third one has no items.          *)
EXTENDS Orders

CONSTANTS p1, p2, bad, o1

MCPosts == {p1, p2, bad}
MCPostOrder == [p \in MCPosts |-> o1]
=============================================================================
