---------------------------- MODULE SupplierLists ----------------------------
(* Lists of suppliers, one for each position of the erasure code.          *)
EXTENDS Lists, SequencesExt

None == ""   \* an empty position

(* What the steps of a cycle of fire_hire have done to the list: nothing,  *)
(* filled empty positions, or taken the place of a supplier away.          *)
Effects == {"nothing", "filled", "replaced"}

(* One more step, after those that had the effect c.                       *)
Effect(before, after, c) ==
  IF c = "replaced" \/ ToSet(before) \ (ToSet(after) \cup {None}) # {} THEN "replaced"
  ELSE IF after # before THEN "filled" ELSE c
=============================================================================
