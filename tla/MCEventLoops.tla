---------------------------- MODULE MCEventLoops ----------------------------
(***************************************************************************)
(* The event loop, the threads that run the I/O loops and the server      *)
(* process around them, in one run: EventLoop with two other threads and  *)
(* at most three functors (MCEventLoop), the EventLoopThreadPool's        *)
(* start-up and teardown of two I/O threads (EventLoopThread, its         *)
(* variables renamed with a t), and main() from start to exit with two I/O *)
(* threads and two PUT keys (ServerLifecycle, renamed with an s); and the *)
(* storage layer: KVStore with three ordered keys and an empty key, two   *)
(* values, towers of height 0 .. 1 under a three-slot header (renamed     *)
(* with a k), and the data file as bytes with the keys "a" and "aa" and   *)
(* the values "a" and "a:" (Snapshot, renamed with an n; 'a' = 97,        *)
(* ':' = 58).  The models do not share state; part picks which of them a  *)
(* behaviour runs, and the others stay in one initial state.              *)
(***************************************************************************)
EXTENDS MCEventLoop

CONSTANTS k1, k2, nofile, freed, v1, v2, header, nil, noval

VARIABLES
    part,
    tMpc, tCur, tTpc, tTidLatch, tLoopPtr, tQuit, tWake, tPending, tConn,
    tDestroyed, tQuitEarly,
    sMpc, sAlive, sHasPath, sGLoop, sQuit, sStore, sFile, sSaveOk, sIoPc,
    sIoQuit, sConns, sDestroying, sJIdx, sSent, sAcked, sUsedFreed,
    kSl, kFile, kRet, kPhase,
    nStore, nFile, nUp, nAttempt, nComplete

MCNumLoops == 2

LT == INSTANCE EventLoopThread WITH
        NumLoops <- MCNumLoops, mpc <- tMpc, cur <- tCur, tpc <- tTpc,
        tidLatch <- tTidLatch, loopPtr <- tLoopPtr, quit <- tQuit,
        wake <- tWake, pending <- tPending, conn <- tConn,
        destroyed <- tDestroyed, quitEarly <- tQuitEarly

SL == INSTANCE ServerLifecycle WITH
        NumIO <- MCNumLoops, Keys <- {k1, k2}, NoFile <- nofile, Freed <- freed,
        mpc <- sMpc, alive <- sAlive, hasPath <- sHasPath, gLoop <- sGLoop,
        quit <- sQuit, store <- sStore, file <- sFile, saveOk <- sSaveOk,
        ioPc <- sIoPc, ioQuit <- sIoQuit, conns <- sConns,
        destroying <- sDestroying, jIdx <- sJIdx, sent <- sSent,
        acked <- sAcked, usedFreed <- sUsedFreed

KS == INSTANCE KVStore WITH
        Keys <- {1, 2, 3}, EmptyKey <- 0, MaxLevel <- 2, Vals <- {v1, v2},
        Header <- header, Nil <- nil, NoVal <- noval, NoFile <- nofile,
        sl <- kSl, file <- kFile, ret <- kRet, phase <- kPhase

SN == INSTANCE Snapshot WITH
        Keys <- {<<97>>, <<97, 97>>}, Vals <- {<<97>>, <<97, 58>>},
        NoFile <- nofile, store <- nStore, file <- nFile, up <- nUp,
        attempt <- nAttempt, complete <- nComplete

threadVars == <<tMpc, tCur, tTpc, tTidLatch, tLoopPtr, tQuit, tWake,
                tPending, tConn, tDestroyed, tQuitEarly>>
serverVars == <<sMpc, sAlive, sHasPath, sGLoop, sQuit, sStore, sFile, sSaveOk,
                sIoPc, sIoQuit, sConns, sDestroying, sJIdx, sSent, sAcked,
                sUsedFreed>>
storeVars == <<kSl, kFile, kRet, kPhase>>
snapVars == <<nStore, nFile, nUp, nAttempt, nComplete>>
allVars == <<part, vars, threadVars, serverVars, storeVars, snapVars>>

LoopsInit ==
    /\ part \in {"loop", "thread", "server", "store", "snapshot"}
    /\ Init /\ LT!Init /\ SL!Init /\ KS!Init /\ SN!Init
    \* the idle models in one initial state each
    /\ part # "thread" => tConn = [i \in 1 .. MCNumLoops |-> FALSE]
    /\ part # "server" => sHasPath = FALSE /\ sFile = nofile
    /\ part # "snapshot" => nFile = nofile

(* A step of the running model, the others and part left alone. *)
InLoop(A) == part = "loop" /\ A /\ UNCHANGED <<part, threadVars, serverVars, storeVars, snapVars>>
InThread(A) == part = "thread" /\ A /\ UNCHANGED <<part, vars, serverVars, storeVars, snapVars>>
InServer(A) == part = "server" /\ A /\ UNCHANGED <<part, vars, threadVars, storeVars, snapVars>>
InStore(A) == part = "store" /\ A /\ UNCHANGED <<part, vars, threadVars, serverVars, snapVars>>
InSnapshot(A) == part = "snapshot" /\ A /\ UNCHANGED <<part, vars, threadVars, serverVars, storeVars>>

LoopsNext ==
    \/ InLoop(Next) \/ InThread(LT!Next) \/ InServer(SL!Next)
    \/ InStore(KS!Next) \/ InSnapshot(SN!Next)

(* Each model's own fairness (EventLoop's Fairness, EventLoopThread's and *)
(* ServerLifecycle's Spec), on the steps of its part; the storage models  *)
(* have none, their properties being safety.                             *)
LoopsFairness ==
    /\ WF_allVars(InLoop(Start)) /\ WF_allVars(InLoop(Poll))
    /\ WF_allVars(InLoop(HandleEvents)) /\ WF_allVars(InLoop(Swap))
    /\ WF_allVars(InLoop(RunFunctor)) /\ WF_allVars(InLoop(EndPending))
    /\ \A t \in Threads : WF_allVars(InLoop(Wake(t)))
    /\ WF_allVars(InThread(LT!MainStep))
    /\ \A i \in 1 .. MCNumLoops : WF_allVars(InThread(LT!IoStep(i)))
    /\ WF_allVars(InServer(SL!MainStep))
    /\ \A i \in 1 .. MCNumLoops : WF_allVars(InServer(SL!IOStep(i)))

LoopsSpec == LoopsInit /\ [][LoopsNext]_allVars /\ LoopsFairness

(* EventLoopThread's type invariant. *)
ThreadTypeOK == LT!TypeOK

(* TcpServer::start returns: each startLoop() gets through Thread::start's *)
(* latch and the wait for loop_ (EventLoopThread's StartReturns).          *)
StartReturns == part = "thread" => LT!StartReturns

(* The I/O threads' shutdown completes unless a quit() came before its    *)
(* loop() began (EventLoopThread's ShutdownCompletesUnlessQuitEarly).      *)
ShutdownCompletesUnlessQuitEarly == part = "thread" => LT!ShutdownCompletesUnlessQuitEarly

(* ServerLifecycle's type invariant. *)
ServerTypeOK == SL!TypeOK

(* Every PUT answered before ~KVServer's body saved the store is in the   *)
(* data file at exit, if that save succeeded (ServerLifecycle's           *)
(* AckedBeforeDtorSaved, about kv_server.cpp:19-24 and main.cpp:110-116). *)
AckedBeforeDtorSaved == SL!AckedBeforeDtorSaved

(* A quit() made while the base loop runs ends the process: every I/O    *)
(* thread is quit and joined (ServerLifecycle's QuitWhileLoopingEnds,     *)
(* about main.cpp:106 and eventloop_thread.cpp:15-21).                    *)
QuitWhileLoopingEnds == part = "server" => SL!QuitWhileLoopingEnds

(* KVStore's type invariant. *)
StoreTypeOK == KS!TypeOK

(* The skip list stays well formed: ordered levels, each level a subset  *)
(* of the one below, currentLevel_ and elementCount_ exact (KVStore's     *)
(* WellFormed).                                                           *)
WellFormed == KS!WellFormed

(* The store implements the abstract key/value map KVMap, return values  *)
(* and the snapshot across restarts included (KVStore's ImplementsKVMap). *)
ImplementsKVMap == KS!ImplementsKVMap

(* Snapshot's type invariant: loaded keys and values never hold a '\n'. *)
SnapshotTypeOK == SN!TypeOK

(* dumpFile then loadFile restores the dumped map (Snapshot's RoundTrip). *)
RoundTrip == SN!RoundTrip

(* A load after a crash inside dumpFile invents no key and no value     *)
(* (Snapshot's TornLoadsNothingForeign).                                 *)
TornLoadsNothingForeign == SN!TornLoadsNothingForeign
=============================================================================
