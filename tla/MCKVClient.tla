------------------------------ MODULE MCKVClient ------------------------------
(* One client session with two values to PUT and three REPL commands;  *)
(* MCLong makes v2 a value longer than one recv() of sendCommand takes.  *)
EXTENDS KVClient

CONSTANTS v1, v2, none

MCValues == {v1, v2}
MCMaxCmds == 3
MCNoLong == {}
MCLong == {v2}
==============================================================================
