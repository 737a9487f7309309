----------------------------- MODULE EventLoop ------------------------------
(***************************************************************************)
(* One EventLoop of src/src/net/eventloop.cpp and the threads that hand it *)
(* work: the loop thread runs loop(), other threads call queueInLoop()     *)
(* (runInLoop() from another thread is the same call) and quit(), and a    *)
(* signal handler may call quit() on the loop thread itself, as main.cpp   *)
(* installs it.                                                             *)
(*                                                                         *)
(* The loop thread goes through                                            *)
(*   "init"    constructed, loop() not entered yet                         *)
(*   "poll"    in epoll_wait (poller_->poll, kPollTimeMs)                  *)
(*   "events"  dispatching the active channels of this tick                *)
(*   "swap"    entering doPendingFunctors()                                *)
(*   "pending" running the swapped-out functors one by one                 *)
(*   "exit"    loop() has returned                                         *)
(* The wake-up eventfd is registered edge-triggered (EpollPoller::update   *)
(* adds EPOLLET): every write raises an edge (wakeEdge) and makes the      *)
(* counter non-zero (wakeCnt); handleRead() reads the counter back to 0.   *)
(* The other channels of the loop are one abstract application channel     *)
(* whose callback may queue a functor from the loop thread.                *)
(***************************************************************************)
EXTENDS Naturals, Sequences, FiniteSets

CONSTANTS
    Threads,    \* threads other than the loop thread
    MaxTasks    \* bound on the number of functors queued in a behaviour

ASSUME MaxTasks \in Nat \ {0}

VARIABLES
    lpc,        \* where the loop thread is (see above)
    quit,       \* quit_
    calling,    \* callingPendingFunctors_
    pending,    \* pendingFunctors_, functors named by their queueing order
    batch,      \* the local vector doPendingFunctors() swapped out
    active,     \* the channels the last poll reported: "wakeup", "app"
    wakeEdge,   \* an edge of the wake-up eventfd not yet reported by poll
    wakeCnt,    \* the eventfd counter is non-zero
    appEdge,    \* an edge of the application channel not yet reported
    tpc,        \* per other thread: "idle", or "wake" between push and wakeup()
    nextTask,   \* the name of the next functor queued
    executed,   \* the functors that have run (history)
    requested   \* quit() has been called at least once (history)

vars == <<lpc, quit, calling, pending, batch, active, wakeEdge, wakeCnt,
          appEdge, tpc, nextTask, executed, requested>>

Tasks == 1 .. MaxTasks

Init ==
    /\ lpc = "init"
    /\ quit = FALSE
    /\ calling = FALSE
    /\ pending = <<>>
    /\ batch = <<>>
    /\ active = {}
    /\ wakeEdge = FALSE
    /\ wakeCnt = FALSE
    /\ appEdge = FALSE
    /\ tpc = [t \in Threads |-> "idle"]
    /\ nextTask = 1
    /\ executed = {}
    /\ requested = FALSE

(* wakeup(): write one 8-byte word to the eventfd. *)
WakeupWrite == wakeEdge' = TRUE /\ wakeCnt' = TRUE

(* Fault-injected variant: queueInLoop() from the loop thread that only  *)
(* wakes for callers on other threads, dropping callingPendingFunctors_. *)
LoopQueueNoCallingWake ==
    /\ nextTask <= MaxTasks
    /\ pending' = Append(pending, nextTask)
    /\ nextTask' = nextTask + 1
    /\ UNCHANGED <<wakeEdge, wakeCnt>>

(* queueInLoop() called on the loop thread: push under the mutex, then    *)
(* wake only if doPendingFunctors() is running.                           *)
LoopQueue ==
    /\ nextTask <= MaxTasks
    /\ pending' = Append(pending, nextTask)
    /\ nextTask' = nextTask + 1
    /\ IF calling THEN WakeupWrite ELSE UNCHANGED <<wakeEdge, wakeCnt>>

(* A callback that queues nothing. *)
NoQueue == UNCHANGED <<pending, nextTask, wakeEdge, wakeCnt>>

-----------------------------------------------------------------------------
(* loop(): looping_ = true; quit_ = false. *)
Start ==
    /\ lpc = "init"
    /\ lpc' = "poll"
    /\ quit' = FALSE
    /\ UNCHANGED <<calling, pending, batch, active, wakeEdge, wakeCnt, appEdge,
                   tpc, nextTask, executed, requested>>

(* epoll_wait returns the channels with an unreported edge. *)
Poll ==
    /\ lpc = "poll"
    /\ wakeEdge \/ appEdge
    /\ active' = {c \in {"wakeup", "app"} :
                    (c = "wakeup" /\ wakeEdge) \/ (c = "app" /\ appEdge)}
    /\ wakeEdge' = FALSE
    /\ appEdge' = FALSE
    /\ lpc' = "events"
    /\ UNCHANGED <<quit, calling, pending, batch, wakeCnt, tpc, nextTask,
                   executed, requested>>

(* epoll_wait returns nothing after kPollTimeMs. *)
PollTimeout ==
    /\ lpc = "poll"
    /\ active' = {}
    /\ lpc' = "events"
    /\ UNCHANGED <<quit, calling, pending, batch, wakeEdge, wakeCnt, appEdge,
                   tpc, nextTask, executed, requested>>

(* The for loop over activeChannels_: the wake-up channel's handleRead()  *)
(* drains the counter; the application callback may queue a functor.     *)
HandleEvents ==
    /\ lpc = "events"
    /\ wakeCnt' = (wakeCnt /\ "wakeup" \notin active)
    /\ \/ /\ "app" \in active
          /\ nextTask <= MaxTasks
          /\ pending' = Append(pending, nextTask)
          /\ nextTask' = nextTask + 1
       \/ UNCHANGED <<pending, nextTask>>
    /\ lpc' = "swap"
    /\ UNCHANGED <<quit, calling, batch, active, wakeEdge, appEdge, tpc,
                   executed, requested>>

(* doPendingFunctors(): callingPendingFunctors_ = true, then swap the     *)
(* queue out under the mutex.                                             *)
Swap ==
    /\ lpc = "swap"
    /\ calling' = TRUE
    /\ batch' = pending
    /\ pending' = <<>>
    /\ lpc' = "pending"
    /\ UNCHANGED <<quit, active, wakeEdge, wakeCnt, appEdge, tpc, nextTask,
                   executed, requested>>

(* Run the next swapped-out functor; it may queue another one on this    *)
(* loop.                                                                  *)
RunFunctor ==
    /\ lpc = "pending"
    /\ batch # <<>>
    /\ executed' = executed \cup {Head(batch)}
    /\ batch' = Tail(batch)
    /\ LoopQueue \/ NoQueue
    /\ UNCHANGED <<lpc, quit, calling, active, appEdge, tpc, requested>>

(* callingPendingFunctors_ = false, then the while (!quit_) test. *)
EndPending ==
    /\ lpc = "pending"
    /\ batch = <<>>
    /\ calling' = FALSE
    /\ lpc' = IF quit THEN "exit" ELSE "poll"
    /\ UNCHANGED <<quit, pending, batch, active, wakeEdge, wakeCnt, appEdge,
                   tpc, nextTask, executed, requested>>

(* Fault-injected variant: a queueInLoop() caller that does not respect  *)
(* the bound on functors, so names run past Tasks.                        *)
SubmitUnbounded(t) ==
    /\ tpc[t] = "idle"
    /\ pending' = Append(pending, nextTask)
    /\ nextTask' = nextTask + 1
    /\ tpc' = [tpc EXCEPT ![t] = "wake"]
    /\ UNCHANGED <<lpc, quit, calling, batch, active, wakeEdge, wakeCnt,
                   appEdge, executed, requested>>

(* queueInLoop() on another thread: push under the mutex ... *)
Submit(t) ==
    /\ tpc[t] = "idle"
    /\ nextTask <= MaxTasks
    /\ pending' = Append(pending, nextTask)
    /\ nextTask' = nextTask + 1
    /\ tpc' = [tpc EXCEPT ![t] = "wake"]
    /\ UNCHANGED <<lpc, quit, calling, batch, active, wakeEdge, wakeCnt,
                   appEdge, executed, requested>>

(* Fault-injected variant: the caller returns without writing the        *)
(* eventfd.                                                                *)
WakeLost(t) ==
    /\ tpc[t] = "wake"
    /\ tpc' = [tpc EXCEPT ![t] = "idle"]
    /\ UNCHANGED <<lpc, quit, calling, pending, batch, active, wakeEdge,
                   wakeCnt, appEdge, nextTask, executed, requested>>

(* ... and, not being the loop thread, call wakeup().  quit() from       *)
(* another thread ends with the same wakeup().                           *)
Wake(t) ==
    /\ tpc[t] = "wake"
    /\ WakeupWrite
    /\ tpc' = [tpc EXCEPT ![t] = "idle"]
    /\ UNCHANGED <<lpc, quit, calling, pending, batch, active, appEdge,
                   nextTask, executed, requested>>

(* Fault-injected variant: quit() that sets quit_ and never calls        *)
(* wakeup().                                                              *)
QuitOtherNoWake(t) ==
    /\ tpc[t] = "idle"
    /\ quit' = TRUE
    /\ requested' = TRUE
    /\ UNCHANGED <<lpc, calling, pending, batch, active, wakeEdge, wakeCnt,
                   appEdge, tpc, nextTask, executed>>

(* quit() on another thread (a signal delivered to an I/O thread):       *)
(* quit_ = true, then wakeup().                                          *)
QuitOther(t) ==
    /\ tpc[t] = "idle"
    /\ quit' = TRUE
    /\ requested' = TRUE
    /\ tpc' = [tpc EXCEPT ![t] = "wake"]
    /\ UNCHANGED <<lpc, calling, pending, batch, active, wakeEdge, wakeCnt,
                   appEdge, nextTask, executed>>

(* quit() from the signal handler on the loop thread: quit_ = true and   *)
(* no wakeup; a thread blocked in epoll_wait returns with EINTR.         *)
QuitOnLoop ==
    /\ lpc # "exit"
    /\ quit' = TRUE
    /\ requested' = TRUE
    /\ IF lpc = "poll"
       THEN lpc' = "events" /\ active' = {}
       ELSE UNCHANGED <<lpc, active>>
    /\ UNCHANGED <<calling, pending, batch, wakeEdge, wakeCnt, appEdge, tpc,
                   nextTask, executed>>

(* Data arrives on the application channel. *)
AppEvent ==
    /\ appEdge' = TRUE
    /\ UNCHANGED <<lpc, quit, calling, pending, batch, active, wakeEdge,
                   wakeCnt, tpc, nextTask, executed, requested>>

LoopStep ==
    Start \/ Poll \/ PollTimeout \/ HandleEvents \/ Swap \/ RunFunctor \/ EndPending

Next ==
    \/ LoopStep \/ QuitOnLoop \/ AppEvent
    \/ \E t \in Threads : Submit(t) \/ Wake(t) \/ QuitOther(t)

(* The loop thread and a thread that has pushed are never descheduled    *)
(* for ever.  The poll timeout gets no fairness: the properties below    *)
(* say that no functor and no quit request has to wait for it.           *)
Fairness ==
    /\ WF_vars(Start) /\ WF_vars(Poll) /\ WF_vars(HandleEvents)
    /\ WF_vars(Swap) /\ WF_vars(RunFunctor) /\ WF_vars(EndPending)
    /\ \A t \in Threads : WF_vars(Wake(t))

Spec == Init /\ [][Next]_vars /\ Fairness

-----------------------------------------------------------------------------
TypeOK ==
    /\ lpc \in {"init", "poll", "events", "swap", "pending", "exit"}
    /\ quit \in BOOLEAN /\ calling \in BOOLEAN
    /\ pending \in Seq(Tasks) /\ batch \in Seq(Tasks)
    /\ active \subseteq {"wakeup", "app"}
    /\ wakeEdge \in BOOLEAN /\ wakeCnt \in BOOLEAN /\ appEdge \in BOOLEAN
    /\ tpc \in [Threads -> {"idle", "wake"}]
    /\ nextTask \in 1 .. MaxTasks + 1
    /\ executed \subseteq Tasks
    /\ requested \in BOOLEAN

(* No lost wake-up (the reason queueInLoop() tests                         *)
(* callingPendingFunctors_): whenever the loop thread blocks in epoll_wait *)
(* with functors queued, the eventfd has an edge that will end the wait,   *)
(* or a thread that queued one is about to write it.                       *)
NoLostWakeup ==
    (lpc = "poll" /\ pending # <<>>) =>
        (wakeEdge \/ \E t \in Threads : tpc[t] = "wake")

(* Every functor queued on the loop runs, without waiting for the poll    *)
(* timeout, unless quit() has stopped the loop.                           *)
QueuedFunctorsRun ==
    \A i \in Tasks :
        (\E j \in 1 .. Len(pending) : pending[j] = i) ~> (i \in executed \/ quit)

(* A quit() made once loop() is running ends loop(), without waiting for  *)
(* the poll timeout.                                                      *)
QuitAfterStartObserved ==
    (quit /\ lpc # "init") ~> (lpc = "exit")

(* spec.md 6.2 and 9: SIGINT and SIGTERM request shutdown, the handler    *)
(* setting the flag and waking the loop.  Every quit() request, whenever  *)
(* it is made, is eventually followed by loop() returning.                *)
QuitRequestObserved ==
    requested ~> (lpc = "exit")

=============================================================================
