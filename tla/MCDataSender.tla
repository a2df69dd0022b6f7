---------------------------- MODULE MCDataSender ----------------------------
(* Small instances of DataSender.                                          *)
EXTENDS DataSender

CONSTANTS data, parity, other, hired, next

OneBackup == {{data, parity}}
=============================================================================
