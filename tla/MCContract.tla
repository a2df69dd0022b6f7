----------------------------- MODULE MCContract -----------------------------
EXTENDS Contract

CONSTANTS c1, c2

(* Three units are enough for both customers, two for one of them: what is *)
(* free must be more than what is needed.                                  *)
Needs == [c \in Customer |-> 1]
Amounts == {2, 3}
=============================================================================
