--------------------------- MODULE MCRestoreWorker ---------------------------
(* Small instances of RestoreWorker: two suppliers.                        *)
EXTENDS RestoreWorker

AllOrOne == {{0, 1}, {0}}
=============================================================================
