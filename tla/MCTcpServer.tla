---------------------------- MODULE MCTcpServer -----------------------------
(* TcpServer with small clients: each sends at most three requests, the  *)
(* send buffer holds one response, so writes block and output queues.    *)
EXTENDS TcpServer

MCMaxReq == 3
MCSndCap == 1
MCReadCapAll == 4    \* one readv() takes everything a client sends
MCNoReq == 0          \* clients that only connect
MCOneLoop == 1
MCTwoLoops == 2

=============================================================================
