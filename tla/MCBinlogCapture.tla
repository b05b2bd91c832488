-------------------------- MODULE MCBinlogCapture --------------------------
(* One other connection, two binlog files and a log that holds the          *)
(* statement and two transactions of the other connection around it.        *)
EXTENDS BinlogCapture

MCMe == 7
MCOthers == {8}
=============================================================================
