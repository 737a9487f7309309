----------------------------- MODULE ThreadPool -----------------------------
(***************************************************************************)
(* ThreadPool (src/src/base/threadpool.cpp) with its worker Threads        *)
(* (src/src/base/thread.cpp) and CountDownLatch (count_down_latch.h),      *)
(* driven the way src/tests/base/threadpool_test.cpp drives it: the main  *)
(* thread starts the workers, submits the tasks with run(), then either   *)
(* waits on a latch every task counts down (the tests) or stops the pool  *)
(* at once (the usage shown in threadpool.h), and joins the workers.       *)
(*                                                                         *)
(* Every critical section of mutex_ is one step.  A thread that waits on   *)
(* a condition releases the mutex and sits in a waiting pc; notify() moves *)
(* one waiter, notifyAll() every waiter, back to the pc where it takes the *)
(* mutex again and re-tests the condition of its while loop.  The loop of  *)
(* runInThread reads running_ without the mutex: that read is a step of    *)
(* its own.                                                                *)
(***************************************************************************)
EXTENDS Naturals, Sequences, FiniteSets

CONSTANTS
    Workers,        \* the threads start(numThreads) creates
    Main,           \* the thread that owns the pool
    NumTasks,       \* tasks submitted with run()
    MaxQueueSize    \* setMaxQueueSize(); 0 is unbounded

ASSUME /\ Main \notin Workers /\ Workers # {}
       /\ NumTasks \in Nat \ {0} /\ MaxQueueSize \in Nat

Tasks == 1 .. NumTasks
NoTask == 0

MainPcs == {"spawn", "startwait", "startblocked", "run", "runwait", "after",
            "latch", "latchwait", "stop", "join", "done"}
WorkerPcs == {"idle", "boot", "loop", "take", "takewait", "exec", "exit"}

VARIABLES
    pc,         \* each thread's place: Main -> MainPcs, worker -> WorkerPcs
    running,    \* running_
    queue,      \* queue_
    cur,        \* the Task a worker got from take()
    next,       \* the next task the main thread submits
    executed,   \* the tasks that have run
    starting,   \* the worker whose Thread::start is in progress
    tidLatch,   \* each Thread's latch_ (count 1 until the thread runs)
    latch,      \* the count of the tests' CountDownLatch(NumTasks)
    latched,    \* the main thread waited on that latch before stop()
    joined      \* the workers join() has returned for

vars == <<pc, running, queue, cur, next, executed, starting, tidLatch, latch,
          latched, joined>>

(* notify() on a condition: one of the threads waiting in pc w, if any,   *)
(* goes back to pc back; the set of possible outcomes.                     *)
NotifyOne(p, w, back) ==
    IF \A t \in DOMAIN p : p[t] # w THEN {p}
    ELSE {[p EXCEPT ![t] = back] : t \in {u \in DOMAIN p : p[u] = w}}

(* notifyAll() *)
NotifyAll(p, w, back) == [t \in DOMAIN p |-> IF p[t] = w THEN back ELSE p[t]]

(* isFull(), called with mutex_ held. *)
IsFull == MaxQueueSize > 0 /\ Len(queue) >= MaxQueueSize

Init ==
    /\ pc = [t \in Workers \cup {Main} |-> IF t = Main THEN "spawn" ELSE "idle"]
    /\ running = TRUE            \* start() sets running_ before any thread
    /\ queue = <<>>
    /\ cur = [w \in Workers |-> NoTask]
    /\ next = 1
    /\ executed = {}
    /\ starting = Main
    /\ tidLatch = [w \in Workers |-> 1]
    /\ latch = NumTasks
    /\ latched = FALSE
    /\ joined = {}

-----------------------------------------------------------------------------
(* start(): the loop creating thread w; Thread::start calls               *)
(* pthread_create and then waits on the thread's latch_.                  *)
Spawn(w) ==
    /\ pc[Main] = "spawn"
    /\ pc[w] = "idle"
    /\ pc' = [pc EXCEPT ![Main] = "startwait", ![w] = "boot"]
    /\ starting' = w
    /\ UNCHANGED <<running, queue, cur, next, executed, tidLatch, latch, latched, joined>>

(* latch_.wait() in Thread::start: block while the count is above zero;   *)
(* when it is zero, start the next worker or return from start().          *)
StartWait ==
    /\ pc[Main] = "startwait"
    /\ pc' = [pc EXCEPT ![Main] =
                 IF tidLatch[starting] > 0 THEN "startblocked"
                 ELSE IF \E w \in Workers : pc[w] = "idle" THEN "spawn" ELSE "run"]
    /\ UNCHANGED <<running, queue, cur, next, executed, starting, tidLatch, latch,
                   latched, joined>>

(* ThreadData::runInThread: record the tid and latch_->countDown(), which *)
(* notifies all when the count reaches zero.                               *)
Boot(w) ==
    /\ pc[w] = "boot"
    /\ tidLatch' = [tidLatch EXCEPT ![w] = @ - 1]
    /\ pc' = [NotifyAll(pc, "startblocked", "startwait") EXCEPT ![w] = "loop"]
    /\ UNCHANGED <<running, queue, cur, next, executed, starting, latch, latched, joined>>

(* while (running_) in runInThread, read without the mutex. *)
Loop(w) ==
    /\ pc[w] = "loop"
    /\ pc' = [pc EXCEPT ![w] = IF running THEN "take" ELSE "exit"]
    /\ UNCHANGED <<running, queue, cur, next, executed, starting, tidLatch, latch,
                   latched, joined>>

(* Mutant: take() reads the front task without pop_front(). *)
TakeNoPop(w) ==
    /\ pc[w] = "take"
    /\ \/ /\ queue = <<>> /\ running
          /\ pc' = [pc EXCEPT ![w] = "takewait"]
          /\ UNCHANGED <<queue, cur>>
       \/ /\ queue # <<>>
          /\ cur' = [cur EXCEPT ![w] = Head(queue)]
          /\ UNCHANGED queue
          /\ pc' \in {[p EXCEPT ![w] = "exec"] :
                        p \in IF MaxQueueSize > 0 THEN NotifyOne(pc, "runwait", "run")
                                                  ELSE {pc}}
       \/ /\ queue = <<>> /\ ~running
          /\ pc' = [pc EXCEPT ![w] = "loop"]
          /\ UNCHANGED <<queue, cur>>
    /\ UNCHANGED <<running, next, executed, starting, tidLatch, latch, latched, joined>>

(* Mutant: take() forgets notFull_.notify() after the pop. *)
TakeNoNotifyFull(w) ==
    /\ pc[w] = "take"
    /\ \/ /\ queue = <<>> /\ running
          /\ pc' = [pc EXCEPT ![w] = "takewait"]
          /\ UNCHANGED <<queue, cur>>
       \/ /\ queue # <<>>
          /\ cur' = [cur EXCEPT ![w] = Head(queue)]
          /\ queue' = Tail(queue)
          /\ pc' = [pc EXCEPT ![w] = "exec"]
       \/ /\ queue = <<>> /\ ~running
          /\ pc' = [pc EXCEPT ![w] = "loop"]
          /\ UNCHANGED <<queue, cur>>
    /\ UNCHANGED <<running, next, executed, starting, tidLatch, latch, latched, joined>>

(* take(): wait on notEmpty_ while the queue is empty and the pool runs;  *)
(* then pop the front task, if any, and notify notFull_ when the queue is *)
(* bounded.  With no task the worker goes back to its loop.               *)
Take(w) ==
    /\ pc[w] = "take"
    /\ \/ /\ queue = <<>> /\ running
          /\ pc' = [pc EXCEPT ![w] = "takewait"]
          /\ UNCHANGED <<queue, cur>>
       \/ /\ queue # <<>>
          /\ cur' = [cur EXCEPT ![w] = Head(queue)]
          /\ queue' = Tail(queue)
          /\ pc' \in {[p EXCEPT ![w] = "exec"] :
                        p \in IF MaxQueueSize > 0 THEN NotifyOne(pc, "runwait", "run")
                                                  ELSE {pc}}
       \/ /\ queue = <<>> /\ ~running
          /\ pc' = [pc EXCEPT ![w] = "loop"]
          /\ UNCHANGED <<queue, cur>>
    /\ UNCHANGED <<running, next, executed, starting, tidLatch, latch, latched, joined>>

(* The task: the tests' counter.fetch_add(1) and latch.countDown(), which *)
(* notifies all waiters when the count reaches zero.                       *)
Exec(w) ==
    /\ pc[w] = "exec"
    /\ executed' = executed \cup {cur[w]}
    /\ latch' = latch - 1
    /\ LET p == IF latch - 1 = 0 THEN NotifyAll(pc, "latchwait", "latch") ELSE pc
       IN  pc' = [p EXCEPT ![w] = "loop"]
    /\ cur' = [cur EXCEPT ![w] = NoTask]
    /\ UNCHANGED <<running, queue, next, starting, tidLatch, latched, joined>>

(* run(task) with worker threads: wait on notFull_ while the queue is     *)
(* full and the pool runs; return if it was stopped; else push and        *)
(* notify notEmpty_.  stop() is called by this same thread afterwards, *)
(* so run() never finds running_ false here.                              *)
Run ==
    /\ pc[Main] = "run"
    /\ \/ /\ IsFull /\ running
          /\ pc' = [pc EXCEPT ![Main] = "runwait"]
          /\ UNCHANGED <<queue, next>>
       \/ /\ ~IsFull /\ running
          /\ queue' = Append(queue, next)
          /\ next' = next + 1
          /\ pc' \in {[p EXCEPT ![Main] = IF next = NumTasks THEN "after" ELSE "run"] :
                        p \in NotifyOne(pc, "takewait", "take")}
    /\ UNCHANGED <<running, cur, executed, starting, tidLatch, latch, latched, joined>>

(* After the last run(): the tests wait on their latch, the usage in      *)
(* threadpool.h calls stop() at once.                                     *)
After ==
    /\ pc[Main] = "after"
    /\ \E p \in {"latch", "stop"} : pc' = [pc EXCEPT ![Main] = p]
    /\ UNCHANGED <<running, queue, cur, next, executed, starting, tidLatch, latch,
                   latched, joined>>

(* Mutant: CountDownLatch::wait tests count_ > 1, an off-by-one. *)
LatchWaitOffByOne ==
    /\ pc[Main] = "latch"
    /\ pc' = [pc EXCEPT ![Main] = IF latch > 1 THEN "latchwait" ELSE "stop"]
    /\ latched' = (latch <= 1)
    /\ UNCHANGED <<running, queue, cur, next, executed, starting, tidLatch, latch, joined>>

(* CountDownLatch::wait: block while the count is above zero. *)
LatchWait ==
    /\ pc[Main] = "latch"
    /\ pc' = [pc EXCEPT ![Main] = IF latch > 0 THEN "latchwait" ELSE "stop"]
    /\ latched' = (latch = 0)
    /\ UNCHANGED <<running, queue, cur, next, executed, starting, tidLatch, latch, joined>>

(* stop(): under the mutex, running_ = false and notifyAll on both        *)
(* conditions; then the joins.                                            *)
Stop ==
    /\ pc[Main] = "stop"
    /\ running' = FALSE
    /\ pc' = [NotifyAll(NotifyAll(pc, "takewait", "take"), "runwait", "run")
                 EXCEPT ![Main] = "join"]
    /\ UNCHANGED <<queue, cur, next, executed, starting, tidLatch, latch, latched, joined>>

(* thr->join() for worker w, in the order of threads_; it returns once    *)
(* the worker has left runInThread.                                       *)
Join(w) ==
    /\ pc[Main] = "join"
    /\ w \notin joined
    /\ pc[w] = "exit"
    /\ joined' = joined \cup {w}
    /\ pc' = [pc EXCEPT ![Main] = IF joined' = Workers THEN "done" ELSE "join"]
    /\ UNCHANGED <<running, queue, cur, next, executed, starting, tidLatch, latch, latched>>

(* The waiting pcs, each with the pc of the while loop it re-tests:     *)
(* Thread::start's latch_, run()'s notFull_, take()'s notEmpty_ and the *)
(* tests' latch.                                                         *)
Waits == {<<"startblocked", "startwait">>, <<"runwait", "run">>,
          <<"takewait", "take">>, <<"latchwait", "latch">>}

(* Condition::wait is pthread_cond_wait, which may return with no       *)
(* notify; the thread re-takes the mutex and re-tests its loop.  No     *)
(* fairness: the system need not ever do this.                           *)
SpuriousWakeup(t) ==
    /\ \E w \in Waits : pc[t] = w[1] /\ pc' = [pc EXCEPT ![t] = w[2]]
    /\ UNCHANGED <<running, queue, cur, next, executed, starting, tidLatch, latch,
                   latched, joined>>

Next ==
    \/ StartWait \/ Run \/ After \/ LatchWait \/ Stop
    \/ \E w \in Workers : Spawn(w) \/ Boot(w) \/ Loop(w) \/ Take(w) \/ Exec(w) \/ Join(w)
    \/ \E t \in DOMAIN pc : SpuriousWakeup(t)

(* Every thread that can run is eventually scheduled. *)
Fairness ==
    /\ WF_vars(StartWait) /\ WF_vars(Run) /\ WF_vars(After) /\ WF_vars(LatchWait)
    /\ WF_vars(Stop)
    /\ \A w \in Workers : /\ WF_vars(Spawn(w)) /\ WF_vars(Boot(w)) /\ WF_vars(Loop(w))
                         /\ WF_vars(Take(w)) /\ WF_vars(Exec(w)) /\ WF_vars(Join(w))

Spec == Init /\ [][Next]_vars /\ Fairness

-----------------------------------------------------------------------------
TypeOK ==
    /\ pc[Main] \in MainPcs /\ \A w \in Workers : pc[w] \in WorkerPcs
    /\ running \in BOOLEAN
    /\ queue \in Seq(Tasks) /\ Len(queue) <= NumTasks
    /\ cur \in [Workers -> Tasks \cup {NoTask}]
    /\ next \in 1 .. NumTasks + 1
    /\ executed \subseteq Tasks
    /\ tidLatch \in [Workers -> 0 .. 1]
    /\ latch \in 0 .. NumTasks
    /\ latched \in BOOLEAN
    /\ joined \subseteq Workers

(* What the tests check after latch.wait() (counter == number of tasks): *)
(* when the latch has opened, every submitted task has run exactly once   *)
(* and nothing is left in the queue.                                      *)
LatchedAllRan == latched => executed = Tasks /\ queue = <<>>

(* Start, the run() loop, stop() and the joins always complete: no thread *)
(* is left waiting on notFull_, notEmpty_, a thread's start latch or the  *)
(* tests' latch, whatever the order of the unlocked running_ reads, the   *)
(* notifications and stop().                                              *)
Terminates == <>(pc[Main] = "done")

=============================================================================
