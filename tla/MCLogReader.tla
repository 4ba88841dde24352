---------------------------- MODULE MCLogReader ----------------------------
(* The instance of LogReader for TLC; its constants are numbers, given in  *)
(* MCLogReader.cfg.                                                        *)
EXTENDS LogReader
=============================================================================
