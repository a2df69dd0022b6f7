----------------------------- MODULE MCFireHire -----------------------------
EXTENDS FireHire, TLC

CONSTANTS u1, u2, u3

Errors == [n \in Numbers |-> n \div 2]
OneOfTwo == {<<u1, None>>}

(* Who is no supplier yet.                                                 *)
Strangers == Permutations({u2, u3})
=============================================================================
