-------------------------- MODULE MCBackupRebuilder --------------------------
(* Small instances of BackupRebuilder: two suppliers.                      *)
EXTENDS BackupRebuilder

CONSTANTS b1, b2

One == <<b1>>

(* Of each backup the second supplier has lost some; on the disk one piece *)
(* more is not there, which one of the lost is to be rebuilt from.         *)
Lost == {<<b1, 0, "D", 1>>, <<b1, 1, "P", 1>>, <<b2, 1, "D", 1>>}
SomeLost == {Piece \ Lost}
SomeFiles == {Piece \ (Lost \cup {<<b1, 0, "P", 0>>})}

(* The codes of four suppliers, of which pieces are rebuilt in chains.     *)
Four == INSTANCE RaidCodes WITH ParityToData <- Ecc4

(* Evaluated by TLC for every row of a block of four suppliers: rebuild(), *)
(* raidread() and Fixable() find all that can be found.                    *)
ASSUME SameAnswersOfFour == Four!SameAnswers

FullOrNot == {{}, {0}}
=============================================================================
