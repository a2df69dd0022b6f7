--------------------------- MODULE MCBackupMonitor ---------------------------
EXTENDS BackupMonitor

CONSTANTS u1, u2

First == {<<u1>>}
Few == [what \in {"change", "else"} |-> 1]
SomeLists == {<<u1>>, <<u2>>, <<None>>, <<u1, u2>>}
=============================================================================
