-------------------------- MODULE ServerLifecycle ---------------------------
(***************************************************************************)
(* The server process from main() to its exit (src/src/server/main.cpp),   *)
(* with the objects main() builds and the order C++ destroys them in:      *)
(*                                                                         *)
(*   main: handlers (75-77), EventLoop loop; g_loop = &loop (88-89),       *)
(*         KVServer server, setThreadNum, loadData (91-103), start (105),  *)
(*         loop.loop() (106), saveData (110-116), return 0 (119);          *)
(*   then  ~KVServer: its body saves store_ again (kv_server.cpp:19-24),   *)
(*         then its members in reverse order (kv_server.h:66-69):          *)
(*         ~dataFile_, ~KVStore store_, ~TcpServer server_, whose body     *)
(*         queues connectDestroyed on each connection's loop               *)
(*         (tcp_server.cpp:28-37) and whose threadPool_ member destroys    *)
(*         each EventLoopThread in order: quit(), join()                   *)
(*         (eventloop_thread.cpp:15-21); last ~EventLoop loop.             *)
(*                                                                         *)
(* Beside main run the I/O threads, each serving the PUTs of the           *)
(* connections the base loop handed it (KVServer::onMessage:               *)
(* handleRequest, then sendResponse), and a signal that may arrive at any  *)
(* moment and run signalHandler on whatever thread it interrupts.          *)
(*                                                                         *)
(* The store is the set of keys in it: every request is a PUT of a key not *)
(* sent before, so a key is in the store exactly when its PUT was applied; *)
(* what each command does to the index is the KVStore module's.  An I/O   *)
(* thread is in loop() from start() on: the window in which a quit() is   *)
(* lost before loop() begins is the EventLoopThread module's.             *)
(***************************************************************************)
EXTENDS Naturals

CONSTANTS
    NumIO,   \* server.setThreadNum(threads): the pool's I/O threads
    Keys,    \* the keys of the PUTs clients send, each sent once
    NoFile,  \* no data file on disk
    Freed    \* store_ after ~KVStore

ASSUME NumIO \in Nat \ {0}

IO == 1 .. NumIO

VARIABLES
    mpc,        \* where main() is
    alive,      \* the process has not been killed
    hasPath,    \* the data file path (-d) is not empty
    gLoop,      \* g_loop: "null", "set", or "dangling" once ~EventLoop ran
    quit,       \* the base loop's quit_
    store,      \* the keys in store_, or Freed
    file,       \* the keys in the data file, or NoFile
    saveOk,     \* what the last store_.save() returned
    ioPc,       \* each I/O thread: "idle", "loop", "exited", or the key it replies to
    ioQuit,     \* each I/O loop's quit_
    conns,      \* each I/O loop owns a client connection
    destroying, \* connectDestroyed is queued on each I/O loop
    jIdx,       \* the EventLoopThread the pool's destructor is at
    sent,       \* the keys whose PUT an I/O thread has taken (history)
    acked,      \* [key, at]: PUTs answered +OK, with where main() was then (history)
    usedFreed   \* some thread used an object after its destructor ran (history)

vars == <<mpc, alive, hasPath, gLoop, quit, store, file, saveOk, ioPc, ioQuit,
          conns, destroying, jIdx, sent, acked, usedFreed>>

MainPcs == {"init", "handlers", "loopMade", "built", "started", "looping",
            "returned", "saved", "dtorSaved", "storeFreed", "poolQuit",
            "poolJoin", "joined", "loopGone", "exited"}

(* Where main() is before ~KVServer's body has saved the store. *)
BeforeDtorSave == {"init", "handlers", "loopMade", "built", "started", "looping",
                   "returned", "saved"}

Init ==
    /\ mpc = "init"
    /\ alive = TRUE
    /\ hasPath \in BOOLEAN
    /\ gLoop = "null"
    /\ quit = FALSE
    /\ store = {}
    /\ file \in SUBSET Keys \cup {NoFile}
    /\ saveOk = FALSE
    /\ ioPc = [i \in IO |-> "idle"]
    /\ ioQuit = [i \in IO |-> FALSE]
    /\ conns = [i \in IO |-> FALSE]
    /\ destroying = [i \in IO |-> FALSE]
    /\ jIdx = 1
    /\ sent = {}
    /\ acked = {}
    /\ usedFreed = FALSE

ioVars == <<ioPc, ioQuit, conns, destroying, sent, acked>>

(* One step of main() from pc from to pc to, alive throughout. *)
Step(from, to) == alive /\ mpc = from /\ mpc' = to

(* KVStore::save -> SkipList::dumpFile under the index mutex: the file is  *)
(* rewritten with the store, or cannot be opened and is left alone.        *)
Save ==
    \/ file' = store /\ saveOk' = TRUE
    \/ UNCHANGED file /\ saveOk' = FALSE

(* signal(SIGINT/SIGTERM, signalHandler), signal(SIGPIPE, SIG_IGN). *)
InstallHandlers ==
    /\ Step("init", "handlers")
    /\ UNCHANGED <<alive, hasPath, gLoop, quit, store, file, saveOk, ioVars, jIdx, usedFreed>>

(* EventLoop loop; g_loop = &loop; *)
MakeLoop ==
    /\ Step("handlers", "loopMade")
    /\ gLoop' = "set"
    /\ UNCHANGED <<alive, hasPath, quit, store, file, saveOk, ioVars, jIdx, usedFreed>>

(* KVServer server(...); setThreadNum; if the path is not empty,         *)
(* loadData: KVStore::load clears the store, then loadFile fails on a     *)
(* missing file or inserts its lines.                                     *)
Boot ==
    /\ Step("loopMade", "built")
    /\ store' = IF hasPath /\ file # NoFile THEN file ELSE {}
    /\ UNCHANGED <<alive, hasPath, gLoop, quit, file, saveOk, ioVars, jIdx, usedFreed>>

(* server.start(): the pool starts every I/O thread, and listen() is      *)
(* queued on the base loop.                                                *)
Start ==
    /\ Step("built", "started")
    /\ ioPc' = [i \in IO |-> "loop"]
    /\ UNCHANGED <<alive, hasPath, gLoop, quit, store, file, saveOk, ioQuit, conns,
                   destroying, sent, acked, jIdx, usedFreed>>

(* loop.loop() begins: quit_ = false. *)
LoopStart ==
    /\ Step("started", "looping")
    /\ quit' = FALSE
    /\ UNCHANGED <<alive, hasPath, gLoop, store, file, saveOk, ioVars, jIdx, usedFreed>>

(* The base loop sees quit_ at the top of while (!quit_) and returns. *)
LoopExit ==
    /\ Step("looping", "returned")
    /\ quit
    /\ UNCHANGED <<alive, hasPath, gLoop, quit, store, file, saveOk, ioVars, jIdx, usedFreed>>

(* if (g_server && !g_dataFile.empty()) g_server->saveData(g_dataFile). *)
SaveData ==
    /\ Step("returned", "saved")
    /\ IF hasPath THEN Save ELSE UNCHANGED <<file, saveOk>>
    /\ UNCHANGED <<alive, hasPath, gLoop, quit, store, ioVars, jIdx, usedFreed>>

(* Mutant: ~KVServer without its store_.save(). *)
DtorSaveSkipped ==
    /\ Step("saved", "dtorSaved")
    /\ UNCHANGED <<alive, hasPath, gLoop, quit, store, file, saveOk, ioVars, jIdx, usedFreed>>

(* return 0: ~KVServer's body, if (!dataFile_.empty()) store_.save().   *)
(* dataFile_ was set by loadData and saveData when the path is not empty. *)
DtorSave ==
    /\ Step("saved", "dtorSaved")
    /\ IF hasPath THEN Save ELSE UNCHANGED <<file, saveOk>>
    /\ UNCHANGED <<alive, hasPath, gLoop, quit, store, ioVars, jIdx, usedFreed>>

(* Member ~KVStore store_: store_ is declared after server_, so it is    *)
(* destroyed first, while the I/O threads of server_ still run.           *)
FreeStore ==
    /\ Step("dtorSaved", "storeFreed")
    /\ store' = Freed
    /\ UNCHANGED <<alive, hasPath, gLoop, quit, file, saveOk, ioVars, jIdx, usedFreed>>

(* ~TcpServer's body: for each connection, runInLoop(connectDestroyed)   *)
(* on its I/O loop, which queues it there from the main thread.           *)
TcpServerDtor ==
    /\ Step("storeFreed", "poolQuit")
    /\ destroying' = conns
    /\ UNCHANGED <<alive, hasPath, gLoop, quit, store, file, saveOk, ioPc, ioQuit,
                   conns, sent, acked, jIdx, usedFreed>>

(* Mutant: ~EventLoopThread joins without loop_->quit(). *)
QuitIOMissing ==
    /\ Step("poolQuit", "poolJoin")
    /\ UNCHANGED <<alive, hasPath, gLoop, quit, store, file, saveOk, ioVars, jIdx, usedFreed>>

(* ~EventLoopThreadPool destroys threads_ in order; ~EventLoopThread:    *)
(* exiting_ = true, loop_->quit() ...                                    *)
QuitIO ==
    /\ Step("poolQuit", "poolJoin")
    /\ ioQuit' = [ioQuit EXCEPT ![jIdx] = TRUE]
    /\ UNCHANGED <<alive, hasPath, gLoop, quit, store, file, saveOk, ioPc, conns,
                   destroying, sent, acked, jIdx, usedFreed>>

(* Mutant: the pool's destructor steps past its last thread. *)
JoinIOPastEnd ==
    /\ Step("poolJoin", IF jIdx = NumIO THEN "joined" ELSE "poolQuit")
    /\ ioPc[jIdx] = "exited"
    /\ jIdx' = jIdx + 1
    /\ UNCHANGED <<alive, hasPath, gLoop, quit, store, file, saveOk, ioVars, usedFreed>>

(* ... thread_.join() returns once that I/O thread has left loop(). *)
JoinIO ==
    /\ Step("poolJoin", IF jIdx = NumIO THEN "joined" ELSE "poolQuit")
    /\ ioPc[jIdx] = "exited"
    /\ jIdx' = IF jIdx = NumIO THEN jIdx ELSE jIdx + 1
    /\ UNCHANGED <<alive, hasPath, gLoop, quit, store, file, saveOk, ioVars, usedFreed>>

(* ~EventLoop loop: g_loop still points at it. *)
DestroyLoop ==
    /\ Step("joined", "loopGone")
    /\ gLoop' = "dangling"
    /\ UNCHANGED <<alive, hasPath, quit, store, file, saveOk, ioVars, jIdx, usedFreed>>

(* The process exits after main() has returned. *)
ProcessExit ==
    /\ Step("loopGone", "exited")
    /\ alive' = FALSE
    /\ UNCHANGED <<hasPath, gLoop, quit, store, file, saveOk, ioVars, jIdx, usedFreed>>

MainStep ==
    \/ InstallHandlers \/ MakeLoop \/ Boot \/ Start \/ LoopStart \/ LoopExit
    \/ SaveData \/ DtorSave \/ FreeStore \/ TcpServerDtor \/ QuitIO \/ JoinIO
    \/ DestroyLoop \/ ProcessExit

(* SIGINT or SIGTERM.  Before signal() the default action kills the      *)
(* process; after it signalHandler runs: if (g_loop) g_loop->quit(),     *)
(* which sets quit_ while the loop exists and writes into the destroyed  *)
(* loop once ~EventLoop has run.                                          *)
Signal ==
    /\ alive
    /\ \/ /\ mpc = "init"
          /\ alive' = FALSE
          /\ UNCHANGED <<quit, usedFreed>>
       \/ /\ mpc # "init"
          /\ quit' = (quit \/ gLoop = "set")
          /\ usedFreed' = (usedFreed \/ gLoop = "dangling")
          /\ UNCHANGED alive
    /\ UNCHANGED <<mpc, hasPath, gLoop, store, file, saveOk, ioVars, jIdx>>

(* TcpServer::newConnection in the base loop hands a client to loop i. *)
Accept(i) ==
    /\ alive /\ mpc = "looping" /\ ~conns[i]
    /\ conns' = [conns EXCEPT ![i] = TRUE]
    /\ UNCHANGED <<mpc, alive, hasPath, gLoop, quit, store, file, saveOk, ioPc, ioQuit,
                   destroying, sent, acked, jIdx, usedFreed>>

(* KVServer::onMessage on I/O thread i parses PUT k and handleRequest     *)
(* calls store_.put(k) under the index mutex.  On a destroyed store_ the  *)
(* call is undefined: the process crashes, or the put returns and the     *)
(* reply goes out.                                                         *)
Handle(i, k) ==
    /\ alive /\ ioPc[i] = "loop" /\ conns[i] /\ k \notin sent
    /\ sent' = sent \cup {k}
    /\ \/ /\ store # Freed
          /\ store' = store \cup {k}
          /\ ioPc' = [ioPc EXCEPT ![i] = k]
          /\ UNCHANGED <<alive, usedFreed>>
       \/ /\ store = Freed
          /\ usedFreed' = TRUE
          /\ \/ ioPc' = [ioPc EXCEPT ![i] = k] /\ UNCHANGED alive
             \/ alive' = FALSE /\ UNCHANGED ioPc
          /\ UNCHANGED store
    /\ UNCHANGED <<mpc, hasPath, gLoop, quit, file, saveOk, ioQuit, conns, destroying,
                   acked, jIdx>>

(* Codec::sendResponse writes +OK for k on the connection. *)
Reply(i) ==
    /\ alive /\ ioPc[i] \in Keys
    /\ acked' = acked \cup {[key |-> ioPc[i], at |-> mpc]}
    /\ ioPc' = [ioPc EXCEPT ![i] = "loop"]
    /\ UNCHANGED <<mpc, alive, hasPath, gLoop, quit, store, file, saveOk, ioQuit, conns,
                   destroying, sent, jIdx, usedFreed>>

(* doPendingFunctors on loop i runs connectDestroyed. *)
RunDestroy(i) ==
    /\ alive /\ ioPc[i] = "loop" /\ destroying[i]
    /\ destroying' = [destroying EXCEPT ![i] = FALSE]
    /\ conns' = [conns EXCEPT ![i] = FALSE]
    /\ UNCHANGED <<mpc, alive, hasPath, gLoop, quit, store, file, saveOk, ioPc, ioQuit,
                   sent, acked, jIdx, usedFreed>>

(* Loop i sees quit_ at the top of while (!quit_): threadFunc returns. *)
IOExit(i) ==
    /\ alive /\ ioPc[i] = "loop" /\ ioQuit[i]
    /\ ioPc' = [ioPc EXCEPT ![i] = "exited"]
    /\ UNCHANGED <<mpc, alive, hasPath, gLoop, quit, store, file, saveOk, ioQuit, conns,
                   destroying, sent, acked, jIdx, usedFreed>>

IOStep(i) == Reply(i) \/ RunDestroy(i) \/ IOExit(i)

Next ==
    \/ MainStep \/ Signal
    \/ \E i \in IO : \/ Accept(i) \/ IOStep(i)
                    \/ \E k \in Keys : Handle(i, k)

(* main() and the I/O threads are scheduled; signals and clients are not *)
(* obliged to come.                                                        *)
Fairness == WF_vars(MainStep) /\ \A i \in IO : WF_vars(IOStep(i))

Spec == Init /\ [][Next]_vars /\ Fairness

-----------------------------------------------------------------------------
TypeOK ==
    /\ mpc \in MainPcs
    /\ alive \in BOOLEAN /\ hasPath \in BOOLEAN /\ quit \in BOOLEAN
    /\ gLoop \in {"null", "set", "dangling"}
    /\ store \in SUBSET Keys \cup {Freed}
    /\ file \in SUBSET Keys \cup {NoFile}
    /\ saveOk \in BOOLEAN
    /\ ioPc \in [IO -> {"idle", "loop", "exited"} \cup Keys]
    /\ ioQuit \in [IO -> BOOLEAN] /\ conns \in [IO -> BOOLEAN]
    /\ destroying \in [IO -> BOOLEAN]
    /\ jIdx \in IO /\ sent \in SUBSET Keys
    /\ acked \subseteq [key : Keys, at : MainPcs]
    /\ usedFreed \in BOOLEAN

(* Every PUT answered +OK before ~KVServer's body saved the store is in   *)
(* the data file when the process exits, if the last save succeeded:     *)
(* PUTs answered while main() saves, between saveData and the destructor, *)
(* are caught by the destructor's store_.save (kv_server.cpp:21-23).      *)
AckedBeforeDtorSaved ==
    (mpc = "exited" /\ hasPath /\ saveOk) =>
        \A a \in acked : a.at \in BeforeDtorSave => a.key \in file

(* A quit() the signal handler makes while the base loop runs leads to    *)
(* the end of the process: main() leaves loop(), ~KVServer and ~TcpServer *)
(* quit and join every I/O thread (eventloop_thread.cpp:15-21).            *)
QuitWhileLoopingEnds == (mpc = "looping" /\ quit) ~> ~alive

(* No thread touches an object after its destructor: no I/O thread calls  *)
(* store_.put once ~KVStore has run (kv_server.h:67-68), and no signal    *)
(* handler calls g_loop->quit() once ~EventLoop has run (main.cpp:24).    *)
NoUseAfterDestroy == ~usedFreed
=============================================================================
