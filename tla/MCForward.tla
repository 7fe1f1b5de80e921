------------------------------- MODULE MCForward -------------------------------
(* Three requests to one provider of each kind, with a budget of two.          *)
EXTENDS Forward
CONSTANTS r1, r2, r3
===============================================================================
