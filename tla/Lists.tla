-------------------------------- MODULE Lists --------------------------------
(* What several modules need of sequences.                                 *)
EXTENDS Integers, Sequences

(* Those of a list who are in a set, in the order of the list.             *)
Among(list, S) ==
  LET kept[n \in 0..Len(list)] ==
        IF n = 0 THEN <<>> ELSE IF list[n] \in S THEN Append(kept[n - 1], list[n]) ELSE kept[n - 1]
  IN  kept[Len(list)]
=============================================================================
