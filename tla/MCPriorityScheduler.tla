------------------------- MODULE MCPriorityScheduler -------------------------
(* Six nodes with ties at the top, in the middle and at the bottom.        *)
EXTENDS PriorityScheduler

TiedPrio == <<2, 1, 2, 0, 1, 0>>
==============================================================================
