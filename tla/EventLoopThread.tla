--------------------------- MODULE EventLoopThread ---------------------------
(***************************************************************************)
(* The life of the I/O threads: EventLoopThreadPool::start                 *)
(* (src/src/net/eventloop_thread_pool.cpp) creates one EventLoopThread     *)
(* (eventloop_thread.cpp) per I/O loop, each startLoop() starting a Thread *)
(* (thread.cpp) and waiting for the new thread to publish its EventLoop.   *)
(* At shutdown main() leaves its loop and destroys the KVServer: the body  *)
(* of ~TcpServer (tcp_server.cpp) hands connectDestroyed to the loop of    *)
(* every registered connection, then the pool's ~EventLoopThread, in      *)
(* order, calls quit() on its loop and joins the thread.                   *)
(*                                                                         *)
(* An I/O loop's own work (channels, connections) is in TcpServer; here a *)
(* loop only polls, runs its pending functors and tests quit_.  The main   *)
(* thread's accept loop is one step.  Critical sections are single steps;  *)
(* a condition wait is a waiting pc, as in ThreadPool.                     *)
(***************************************************************************)
EXTENDS Naturals, Sequences, FiniteSets

CONSTANT NumLoops   \* numThreads_ of the EventLoopThreadPool

ASSUME NumLoops \in Nat \ {0}

Loops == 1 .. NumLoops

MainPcs == {"spawn", "startwait", "startblocked", "loopwait", "condwait", "serve",
            "teardown", "tdwake", "destroy", "join", "done"}
IoPcs == {"idle", "boot", "publish", "loopstart", "check", "poll", "pending", "exit", "gone"}

VARIABLES
    mpc,        \* the main thread's place
    cur,        \* the EventLoopThread main is starting, tearing down or destroying
    tpc,        \* each I/O thread's place
    tidLatch,   \* each Thread's latch_ count
    loopPtr,    \* each EventLoopThread's loop_ != nullptr
    quit,       \* each loop's quit_
    wake,       \* each loop's eventfd is readable
    pending,    \* a connectDestroyed functor sits in the loop's pendingFunctors_
    conn,       \* the loop has a registered connection at shutdown
    destroyed,  \* that connection's connectDestroyed has run
    quitEarly   \* ~EventLoopThread's quit() came before loop() reset quit_

vars == <<mpc, cur, tpc, tidLatch, loopPtr, quit, wake, pending, conn, destroyed, quitEarly>>

ioVars == <<tidLatch, loopPtr, quit, wake, pending, destroyed, quitEarly>>

(* The next EventLoopThread to tear down after cur: the next one with a   *)
(* connection, or none.                                                   *)
NextConn(i) == {j \in Loops : j > i /\ conn[j]}

Init ==
    /\ mpc = "spawn"
    /\ cur = 1
    /\ tpc = [i \in Loops |-> "idle"]
    /\ tidLatch = [i \in Loops |-> 1]
    /\ loopPtr = [i \in Loops |-> FALSE]
    /\ quit = [i \in Loops |-> FALSE]
    /\ wake = [i \in Loops |-> FALSE]
    /\ pending = [i \in Loops |-> FALSE]
    /\ conn \in [Loops -> BOOLEAN]
    /\ destroyed = [i \in Loops |-> FALSE]
    /\ quitEarly = [i \in Loops |-> FALSE]

-----------------------------------------------------------------------------
(* Main thread.                                                           *)

(* start(): new EventLoopThread, startLoop(), thread_.start(): pthread_create. *)
Spawn ==
    /\ mpc = "spawn"
    /\ mpc' = "startwait"
    /\ tpc' = [tpc EXCEPT ![cur] = "boot"]
    /\ UNCHANGED <<cur, conn, ioVars>>

(* Thread::start: latch_.wait() until the new thread counted down. *)
StartWait ==
    /\ mpc = "startwait"
    /\ mpc' = IF tidLatch[cur] > 0 THEN "startblocked" ELSE "loopwait"
    /\ UNCHANGED <<cur, tpc, conn, ioVars>>

(* Mutant: the pool's loop runs i <= numThreads_. *)
LoopWaitOffByOne ==
    /\ mpc = "loopwait"
    /\ IF ~loopPtr[cur]
         THEN mpc' = "condwait" /\ UNCHANGED cur
         ELSE IF cur <= NumLoops THEN mpc' = "spawn" /\ cur' = cur + 1
                                 ELSE mpc' = "serve" /\ UNCHANGED cur
    /\ UNCHANGED <<tpc, conn, ioVars>>

(* startLoop(): under mutex_, wait on cond_ while loop_ is null; then the *)
(* pool's loop starts the next EventLoopThread, or start() returns and    *)
(* main runs its own loop.                                                *)
LoopWait ==
    /\ mpc = "loopwait"
    /\ IF ~loopPtr[cur]
         THEN mpc' = "condwait" /\ UNCHANGED cur
         ELSE IF cur < NumLoops THEN mpc' = "spawn" /\ cur' = cur + 1
                                ELSE mpc' = "serve" /\ UNCHANGED cur
    /\ UNCHANGED <<tpc, conn, ioVars>>

(* The signal handler's quit() ends main's loop.loop(); main returns and  *)
(* ~TcpServer starts with the first loop that has a connection.           *)
Serve ==
    /\ mpc = "serve"
    /\ IF \E i \in Loops : conn[i]
         THEN mpc' = "teardown" /\ cur' = CHOOSE i \in Loops : conn[i] /\ \A j \in Loops : conn[j] => i <= j
         ELSE mpc' = "destroy" /\ cur' = 1
    /\ UNCHANGED <<tpc, conn, ioVars>>

(* ~TcpServer: runInLoop(connectDestroyed) on the connection's loop from  *)
(* the main thread is queueInLoop: push under the loop's mutex_ ...       *)
Teardown ==
    /\ mpc = "teardown"
    /\ pending' = [pending EXCEPT ![cur] = TRUE]
    /\ mpc' = "tdwake"
    /\ UNCHANGED <<cur, tpc, conn, tidLatch, loopPtr, quit, wake, destroyed, quitEarly>>

(* ... and then wakeup(), since main is not the loop's thread. *)
TdWake ==
    /\ mpc = "tdwake"
    /\ wake' = [wake EXCEPT ![cur] = TRUE]
    /\ IF NextConn(cur) # {}
         THEN mpc' = "teardown" /\ cur' = CHOOSE j \in NextConn(cur) : \A k \in NextConn(cur) : j <= k
         ELSE mpc' = "destroy" /\ cur' = 1
    /\ UNCHANGED <<tpc, conn, tidLatch, loopPtr, quit, pending, destroyed, quitEarly>>

(* The thread is joined, or was not started: go on with the next one. *)
NextDestroy == IF cur < NumLoops THEN mpc' = "destroy" /\ cur' = cur + 1
                                 ELSE mpc' = "done" /\ UNCHANGED cur

(* Mutant: ~EventLoopThread joins without calling loop_->quit(). *)
DestroyNoQuit ==
    /\ mpc = "destroy"
    /\ IF loopPtr[cur]
         THEN mpc' = "join" /\ UNCHANGED <<cur, quit, wake, quitEarly>>
         ELSE /\ NextDestroy
              /\ UNCHANGED <<quit, wake, quitEarly>>
    /\ UNCHANGED <<tpc, conn, tidLatch, loopPtr, pending, destroyed>>

(* ~EventLoopThread: exiting_ = true; if loop_ is set, loop_->quit()     *)
(* (quit_ = true and wakeup(), from another thread) and then join().      *)
Destroy ==
    /\ mpc = "destroy"
    /\ IF loopPtr[cur]
         THEN /\ quit' = [quit EXCEPT ![cur] = TRUE]
              /\ wake' = [wake EXCEPT ![cur] = TRUE]
              /\ quitEarly' = [quitEarly EXCEPT ![cur] = tpc[cur] = "loopstart"]
              /\ mpc' = "join" /\ UNCHANGED cur
         ELSE /\ NextDestroy
              /\ UNCHANGED <<quit, wake, quitEarly>>
    /\ UNCHANGED <<tpc, conn, tidLatch, loopPtr, pending, destroyed>>

(* Thread::join: pthread_join returns once the thread has finished. *)
Join ==
    /\ mpc = "join"
    /\ tpc[cur] = "gone"
    /\ NextDestroy
    /\ UNCHANGED <<tpc, conn, ioVars>>

-----------------------------------------------------------------------------
(* I/O thread i.                                                          *)

(* ThreadData::runInThread: latch_->countDown(), notifyAll at zero. *)
Boot(i) ==
    /\ tpc[i] = "boot"
    /\ tidLatch' = [tidLatch EXCEPT ![i] = @ - 1]
    /\ tpc' = [tpc EXCEPT ![i] = "publish"]
    /\ mpc' = IF mpc = "startblocked" THEN "startwait" ELSE mpc
    /\ UNCHANGED <<cur, conn, loopPtr, quit, wake, pending, destroyed, quitEarly>>

(* Mutant: threadFunc sets loop_ but forgets cond_.notify(). *)
PublishNoNotify(i) ==
    /\ tpc[i] = "publish"
    /\ loopPtr' = [loopPtr EXCEPT ![i] = TRUE]
    /\ tpc' = [tpc EXCEPT ![i] = "loopstart"]
    /\ UNCHANGED <<mpc, cur, conn, tidLatch, quit, wake, pending, destroyed, quitEarly>>

(* threadFunc: EventLoop loop; then under mutex_ loop_ = &loop and        *)
(* cond_.notify().                                                        *)
Publish(i) ==
    /\ tpc[i] = "publish"
    /\ loopPtr' = [loopPtr EXCEPT ![i] = TRUE]
    /\ tpc' = [tpc EXCEPT ![i] = "loopstart"]
    /\ mpc' = IF mpc = "condwait" THEN "loopwait" ELSE mpc
    /\ UNCHANGED <<cur, conn, tidLatch, quit, wake, pending, destroyed, quitEarly>>

(* EventLoop::loop(): looping_ = true; quit_ = false. *)
LoopStart(i) ==
    /\ tpc[i] = "loopstart"
    /\ quit' = [quit EXCEPT ![i] = FALSE]
    /\ tpc' = [tpc EXCEPT ![i] = "check"]
    /\ UNCHANGED <<mpc, cur, conn, tidLatch, loopPtr, wake, pending, destroyed, quitEarly>>

(* while (!quit_) *)
Check(i) ==
    /\ tpc[i] = "check"
    /\ tpc' = [tpc EXCEPT ![i] = IF quit[i] THEN "exit" ELSE "poll"]
    /\ UNCHANGED <<mpc, cur, conn, ioVars>>

(* poller_->poll returns the readable wakeup channel, whose handleRead   *)
(* reads the eventfd.                                                     *)
Poll(i) ==
    /\ tpc[i] = "poll"
    /\ wake[i]
    /\ wake' = [wake EXCEPT ![i] = FALSE]
    /\ tpc' = [tpc EXCEPT ![i] = "pending"]
    /\ UNCHANGED <<mpc, cur, conn, tidLatch, loopPtr, quit, pending, destroyed, quitEarly>>

(* poll's kPollTimeMs timeout with nothing ready. *)
PollTimeout(i) ==
    /\ tpc[i] = "poll"
    /\ tpc' = [tpc EXCEPT ![i] = "pending"]
    /\ UNCHANGED <<mpc, cur, conn, ioVars>>

(* doPendingFunctors: swap pendingFunctors_ out under the mutex and run   *)
(* them; connectDestroyed tears the connection down.                      *)
DoPending(i) ==
    /\ tpc[i] = "pending"
    /\ pending' = [pending EXCEPT ![i] = FALSE]
    /\ destroyed' = [destroyed EXCEPT ![i] = @ \/ pending[i]]
    /\ tpc' = [tpc EXCEPT ![i] = "check"]
    /\ UNCHANGED <<mpc, cur, conn, tidLatch, loopPtr, quit, wake, quitEarly>>

(* After loop(): under mutex_ loop_ = nullptr; the thread returns and    *)
(* its EventLoop, with whatever functors are still pending, is destroyed. *)
Exit(i) ==
    /\ tpc[i] = "exit"
    /\ loopPtr' = [loopPtr EXCEPT ![i] = FALSE]
    /\ tpc' = [tpc EXCEPT ![i] = "gone"]
    /\ UNCHANGED <<mpc, cur, conn, tidLatch, quit, wake, pending, destroyed, quitEarly>>

IoStep(i) == Boot(i) \/ Publish(i) \/ LoopStart(i) \/ Check(i) \/ Poll(i)
             \/ DoPending(i) \/ Exit(i)

MainStep == Spawn \/ StartWait \/ LoopWait \/ Serve \/ Teardown \/ TdWake \/ Destroy \/ Join

Next == MainStep \/ \E i \in Loops : IoStep(i) \/ PollTimeout(i)

(* Every thread that can run is scheduled; nothing forces poll's timeout. *)
Spec == Init /\ [][Next]_vars /\ WF_vars(MainStep) /\ \A i \in Loops : WF_vars(IoStep(i))

-----------------------------------------------------------------------------
TypeOK ==
    /\ mpc \in MainPcs /\ cur \in Loops /\ tpc \in [Loops -> IoPcs]
    /\ tidLatch \in [Loops -> 0 .. 1]
    /\ loopPtr \in [Loops -> BOOLEAN] /\ quit \in [Loops -> BOOLEAN]
    /\ wake \in [Loops -> BOOLEAN] /\ pending \in [Loops -> BOOLEAN]
    /\ conn \in [Loops -> BOOLEAN] /\ destroyed \in [Loops -> BOOLEAN]
    /\ quitEarly \in [Loops -> BOOLEAN]

Started == mpc \in {"serve", "teardown", "tdwake", "destroy", "join", "done"}

(* TcpServer::start returns: each startLoop() gets through Thread::start's *)
(* latch and the wait for loop_, whichever of the new thread's countDown, *)
(* its notify and main's waits comes first.                               *)
StartReturns == <>Started

(* The shutdown completes, every ~EventLoopThread's join() returning, in  *)
(* every behaviour where each quit() reached a loop that had already      *)
(* entered loop().  A quit() that comes earlier is erased by loop()'s     *)
(* quit_ = false and join() never returns: the defect the eventloop_quit_ *)
(* lost run shows for the main loop.                                      *)
ShutdownCompletesUnlessQuitEarly == <>(mpc = "done" \/ \E i \in Loops : quitEarly[i])

(* spec.md 5: connections still registered are torn down in the Server   *)
(* destructor by invoking connectDestroyed on each connection's owning   *)
(* loop.  So no I/O thread ends with its connection not torn down.       *)
ConnectionsTornDown == \A i \in Loops : conn[i] /\ tpc[i] = "gone" => destroyed[i]

=============================================================================
