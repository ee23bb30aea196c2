------------------------------ MODULE MCRefunds ------------------------------
(* A payment of 3: a partial refund of 2, and one for all that is left.         *)
EXTENDS Refunds

MCIds == {"re_part", "re_rest"}
MCAmount == [r \in MCIds |-> IF r = "re_rest" THEN 0 ELSE 2]
==============================================================================
