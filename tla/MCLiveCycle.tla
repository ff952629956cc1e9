----------------------------- MODULE MCLiveCycle -----------------------------
(* A small instance of LiveCycle: a limit of one trade, and a limit that the *)
(* loss of one trade reaches.                                                *)
EXTENDS LiveCycle

MCLimit == {[trades |-> 1, loss |-> 3], [trades |-> 2, loss |-> 2]}
=============================================================================
