------------------------- MODULE MCEventLoopThread -------------------------
(* Two I/O threads, each with or without a connection at shutdown. *)
EXTENDS EventLoopThread
MCNumLoops == 2
=============================================================================
