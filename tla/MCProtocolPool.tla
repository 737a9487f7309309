----------------------------- MODULE MCProtocolPool -------------------------
(***************************************************************************)
(* Both ends of the text protocol and the base thread utilities, in one   *)
(* run: the server's request framing (Codec over the buffers of MCCodec),  *)
(* one client session reading the server's replies (KVClient), and a      *)
(* ThreadPool with two workers, three tasks and a queue bound of one      *)
(* running beside two producers and two consumers making one call each on *)
(* a BlockingQueue or a BoundedBlockingQueue of size one (ThreadPool's     *)
(* variables renamed with a p, BlockingQueue's with a q), and the server  *)
(* side of one client connection on one I/O loop (TcpServer, with a t),  *)
(* which is small enough for its liveness properties, and a Buffer under *)
(* the calls TcpConnection makes on it (with a b).  The parts do         *)
(* not share state; part picks which of them a behaviour runs, so their   *)
(* state spaces add up instead of multiplying, and the others stay in one *)
(* initial state.                                                          *)
(***************************************************************************)
EXTENDS MCCodec

CONSTANTS v1, v2, none, w1, w2, main, p1, p2, c1, c2, garbage, t1

VARIABLES
    part,
    cpc, connected, cur, ncmds, exitCode, toServer, toClient, accepted,
    shut, store, sent, log,
    pPc, pRunning, pQueue, pCur, pNext, pExecuted, pStarting, pTidLatch,
    pLatch, pLatched, pJoined,
    qBounded, qPc, qQueue, qCalls, qGot,
    tConn, tReg, tBaseQ, tIoQ, tBacklog, tLrdy, tNextId,
    bBuf, bNext

MCValues == {v1, v2}
MCMaxCmds == 3

KC == INSTANCE KVClient WITH Values <- MCValues, LongValues <- {}, NoValue <- none,
                             MaxCmds <- MCMaxCmds

TP == INSTANCE ThreadPool WITH
        Workers <- {w1, w2}, Main <- main, NumTasks <- 3, MaxQueueSize <- 1,
        pc <- pPc, running <- pRunning, queue <- pQueue, cur <- pCur,
        next <- pNext, executed <- pExecuted, starting <- pStarting,
        tidLatch <- pTidLatch, latch <- pLatch, latched <- pLatched,
        joined <- pJoined

BQ == INSTANCE BlockingQueue WITH
        Producers <- {p1, p2}, Consumers <- {c1, c2}, PerThread <- 1,
        MaxSize <- 1, Garbage <- garbage,
        bounded <- qBounded, pc <- qPc, queue <- qQueue, calls <- qCalls,
        got <- qGot

TS == INSTANCE TcpServer WITH
        Conns <- {t1}, NumLoops <- 1, MaxReq <- 3, SndCap <- 1, ReadCap <- 4,
        conn <- tConn, reg <- tReg, baseQ <- tBaseQ, ioQ <- tIoQ,
        backlog <- tBacklog, lrdy <- tLrdy, nextId <- tNextId

(* kCheapPrepend, kInitialSize and extrabuf scaled down so that readFd's *)
(* two paths and makeSpace's resize and move all happen.                  *)
BF == INSTANCE Buffer WITH
        CheapPrepend <- 2, InitialSize <- 2, ExtraSize <- 3, MaxChunk <- 3,
        MaxBytes <- 8, buf <- bBuf, next <- bNext

codecVars == <<input, buf, reqs, done>>
clientVars == <<cpc, connected, cur, ncmds, exitCode, toServer, toClient,
                accepted, shut, store, sent, log>>

tpVars == <<pPc, pRunning, pQueue, pCur, pNext, pExecuted, pStarting,
            pTidLatch, pLatch, pLatched, pJoined>>
bqVars == <<qBounded, qPc, qQueue, qCalls, qGot>>
tcpVars == <<tConn, tReg, tBaseQ, tIoQ, tBacklog, tLrdy, tNextId>>
bufVars == <<bBuf, bNext>>
allVars == <<part, codecVars, clientVars, tpVars, bqVars, tcpVars, bufVars>>

(* The codec's idle input when another part runs. *)
IdleBuffer == CHOOSE b \in MCBuffers : b = <<>>

ProtocolInit ==
    /\ part \in {"codec", "client", "base", "tcp", "buffer"}
    /\ Init /\ KC!Init /\ TP!Init /\ BQ!Init /\ TS!Init /\ BF!Init
    \* the idle models in one initial state each
    /\ part # "client" => store = none
    /\ part # "codec" => input = IdleBuffer
    /\ part # "base" => qBounded = FALSE

(* A step of the running model, the others and part left alone; in       *)
(* "base" the pool and the queues run side by side.                       *)
InCodec(A) == part = "codec" /\ A /\ UNCHANGED <<part, clientVars, tpVars, bqVars, tcpVars, bufVars>>
InClient(A) == part = "client" /\ A /\ UNCHANGED <<part, codecVars, tpVars, bqVars, tcpVars, bufVars>>
InPool(A) == part = "base" /\ A /\ UNCHANGED <<part, codecVars, clientVars, bqVars, tcpVars, bufVars>>
InQueue(A) == part = "base" /\ A /\ UNCHANGED <<part, codecVars, clientVars, tpVars, tcpVars, bufVars>>
InTcp(A) == part = "tcp" /\ A /\ UNCHANGED <<part, codecVars, clientVars, tpVars, bqVars, bufVars>>
InBuffer(A) == part = "buffer" /\ A /\ UNCHANGED <<part, codecVars, clientVars, tpVars, bqVars, tcpVars>>

ProtocolNext ==
    \/ InCodec(Next) \/ InClient(KC!Next) \/ InPool(TP!Next) \/ InQueue(BQ!Next)
    \/ InTcp(TS!Next) \/ InBuffer(BF!Next)

(* ThreadPool's and BlockingQueue's Fairness on the steps of "base": every *)
(* thread that can run is scheduled.  The codec and the client have none. *)
BaseFairness ==
    /\ WF_allVars(InPool(TP!StartWait)) /\ WF_allVars(InPool(TP!Run))
    /\ WF_allVars(InPool(TP!After)) /\ WF_allVars(InPool(TP!LatchWait))
    /\ WF_allVars(InPool(TP!Stop))
    /\ \A w \in {w1, w2} :
          /\ WF_allVars(InPool(TP!Spawn(w))) /\ WF_allVars(InPool(TP!Boot(w)))
          /\ WF_allVars(InPool(TP!Loop(w))) /\ WF_allVars(InPool(TP!Take(w)))
          /\ WF_allVars(InPool(TP!Exec(w))) /\ WF_allVars(InPool(TP!Join(w)))
    /\ \A p \in {p1, p2} : WF_allVars(InQueue(BQ!PutOf(p)))
    /\ \A c \in {c1, c2} : WF_allVars(InQueue(BQ!TakeOf(c)))

(* TcpServer's Fairness on the steps of "tcp": the loops handle what     *)
(* epoll reports and what is queued, and the client reads its socket.   *)
TcpFairness ==
    /\ WF_allVars(InTcp(TS!HandleAccept))
    /\ WF_allVars(InTcp(TS!RemoveConnectionInLoop))
    /\ WF_allVars(InTcp(TS!RunIoFunctor(1)))
    /\ []<>(~tConn[t1].rdy) \/ []<><<InTcp(TS!HandleEvent(t1))>>_allVars
    /\ WF_allVars(InTcp(TS!PeerRecv(t1)))

ProtocolSpec == ProtocolInit /\ [][ProtocolNext]_allVars /\ BaseFairness /\ TcpFairness

(* Each part's properties hold in its own behaviours. *)

(* Codec's type invariant. *)
CodecTypeOK == part = "codec" => TypeOK

(* The requests onMessage parses from a buffer are the lines spec.md 4.8  *)
(* and 6.1 define, in order, up to the first QUIT (Codec's FramingAsSpec, *)
(* about Codec::parseRequest and parseLine).                               *)
RequestFraming == part = "codec" => FramingAsSpec

(* KVClient's type invariant. *)
ClientTypeOK == part = "client" => KC!TypeOK

(* Every REPL command prints the outcome of the server's reply to that    *)
(* command (KVClient's ShowsOwnReply, about main.cpp and kvclient.cpp).   *)
ShowsOwnReply == part = "client" => KC!ShowsOwnReply

(* ThreadPool's type invariant. *)
PoolTypeOK == TP!TypeOK

(* When the tests' latch opens every task has run and the queue is empty *)
(* (ThreadPool's LatchedAllRan).                                          *)
LatchedAllRan == TP!LatchedAllRan

(* start, the submissions, stop() and the joins always finish, whatever  *)
(* the order of the unlocked running_ reads and the notifications         *)
(* (ThreadPool's Terminates).                                             *)
Terminates == part = "base" => TP!Terminates

(* BlockingQueue's type invariant. *)
QueueTypeOK == BQ!TypeOK

(* Every item a put() pushed is still queued or was returned by exactly  *)
(* one take() (BlockingQueue's ExactlyOnce).                             *)
ExactlyOnce == BQ!ExactlyOnce

(* Every put() and take() returns, with single notify() calls on two     *)
(* conditions (BlockingQueue's AllReturn).                               *)
AllReturn == part = "base" => BQ!AllReturn

(* Buffered output is eventually written unless the connection closes   *)
(* (TcpServer's OutputDrains, about sendInLoop and handleWrite).        *)
OutputDrains == part = "tcp" => TS!OutputDrains

(* After QUIT the client gets every response and then end of stream     *)
(* (TcpServer's QuitHalfCloses, about shutdownInLoop and handleWrite).  *)
QuitHalfCloses == part = "tcp" => TS!QuitHalfCloses

(* A closed connection leaves the registry and is destroyed (TcpServer's *)
(* ClosedConnectionReleased, about removeConnection and connectDestroyed).*)
ClosedConnectionReleased == part = "tcp" => TS!ClosedConnectionReleased

(* Buffer's type invariant. *)
BufferTypeOK == BF!TypeOK

(* kCheapPrepend <= readerIndex_ <= writerIndex_ <= size() after any     *)
(* sequence of readFd, append and retrieve (Buffer's IndicesOrdered,     *)
(* about makeSpace and readFd's extrabuf path).                          *)
IndicesOrdered == BF!IndicesOrdered

(* The readable bytes behave as a FIFO queue: none lost, duplicated or   *)
(* reordered by makeSpace's move or readFd's split (Buffer's             *)
(* ImplementsByteQueue).                                                  *)
ImplementsByteQueue == BF!ImplementsByteQueue
=============================================================================
