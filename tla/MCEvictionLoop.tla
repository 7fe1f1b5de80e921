---------------------------- MODULE MCEvictionLoop ----------------------------
(* Every assignment of small sizes to three models, in every list order.     *)
EXTENDS EvictionLoop
CONSTANTS m1, m2, m3
===============================================================================
