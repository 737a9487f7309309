---------------------------- MODULE MCEventLoop -----------------------------
(* EventLoop with two other threads and at most three functors queued.   *)
EXTENDS EventLoop

MCMaxTasks == 3

=============================================================================
