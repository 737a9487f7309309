---------------------------- MODULE BlockingQueue ----------------------------
(***************************************************************************)
(* BlockingQueue<T> and BoundedBlockingQueue<T> (src/src/base/             *)
(* blocking_queue.h) shared by producer threads that each put() PerThread  *)
(* items and consumer threads that each take() PerThread items.  bounded   *)
(* records which of the two classes the threads share.  As in ThreadPool, each critical section of mutex_   *)
(* is one step, and a thread waiting on notEmpty_ or notFull_ sits in a    *)
(* waiting pc until notify() moves it back to re-test its while loop.      *)
(***************************************************************************)
EXTENDS Naturals, Sequences, FiniteSets

CONSTANTS
    Producers,  \* threads calling put()
    Consumers,  \* threads calling take()
    PerThread,  \* calls each thread makes
    MaxSize,    \* maxSize_ of the bounded queue
    Garbage     \* what front() of an empty deque yields (undefined behaviour)

ASSUME /\ Producers \cap Consumers = {} /\ PerThread \in Nat \ {0}
       /\ MaxSize \in Nat

Threads == Producers \cup Consumers

(* The item a producer passes to its i-th put(). *)
Items == Producers \X (1 .. PerThread)

VARIABLES
    bounded, \* TRUE: a BoundedBlockingQueue, FALSE: a BlockingQueue
    pc,     \* "put", "putwait", "take", "takewait" or "done"
    queue,  \* queue_
    calls,  \* the calls each thread has completed
    got     \* the items each consumer's take() returned, in order

vars == <<bounded, pc, queue, calls, got>>

(* notify(): one thread waiting in pc w, if any, goes back to pc back. *)
NotifyOne(p, w, back) ==
    IF \A t \in DOMAIN p : p[t] # w THEN {p}
    ELSE {[p EXCEPT ![t] = back] : t \in {u \in DOMAIN p : p[u] = w}}

(* After a completed call, the thread makes the next one or is done. *)
After(t, again) == IF calls[t] + 1 = PerThread THEN "done" ELSE again

Init ==
    /\ bounded \in BOOLEAN
    /\ pc = [t \in Threads |-> IF t \in Producers THEN "put" ELSE "take"]
    /\ queue = <<>>
    /\ calls = [t \in Threads |-> 0]
    /\ got = [c \in Consumers |-> <<>>]

-----------------------------------------------------------------------------
(* Mutant: the front is moved out but pop_front() is forgotten. *)
TakeFrontNoPop(c) ==
    /\ got' = [got EXCEPT ![c] = Append(@, Head(queue))]
    /\ calls' = [calls EXCEPT ![c] = @ + 1]
    /\ UNCHANGED queue

(* T front(std::move(queue_.front())); queue_.pop_front(); return front; *)
TakeFront(c) ==
    /\ got' = [got EXCEPT ![c] = Append(@, Head(queue))]
    /\ queue' = Tail(queue)
    /\ calls' = [calls EXCEPT ![c] = @ + 1]

(* BlockingQueue::put: push_back and notEmpty_.notify(). *)
Put(p) ==
    /\ pc[p] = "put"
    /\ queue' = Append(queue, <<p, calls[p] + 1>>)
    /\ calls' = [calls EXCEPT ![p] = @ + 1]
    /\ pc' \in {[q EXCEPT ![p] = After(p, "put")] : q \in NotifyOne(pc, "takewait", "take")}
    /\ UNCHANGED got

(* Mutant: BoundedBlockingQueue::take without its wait on notEmpty_;   *)
(* front() of an empty deque then yields garbage.                        *)
BTakeNoWait(c) ==
    /\ pc[c] = "take"
    /\ calls' = [calls EXCEPT ![c] = @ + 1]
    /\ IF queue = <<>>
         THEN /\ got' = [got EXCEPT ![c] = Append(@, Garbage)] /\ UNCHANGED queue
              /\ pc' = [pc EXCEPT ![c] = After(c, "take")]
         ELSE /\ got' = [got EXCEPT ![c] = Append(@, Head(queue))] /\ queue' = Tail(queue)
              /\ pc' \in {[q EXCEPT ![c] = After(c, "take")] :
                            q \in NotifyOne(pc, "putwait", "put")}

(* BlockingQueue::take: wait on notEmpty_ while empty, then pop the front. *)
Take(c) ==
    /\ pc[c] = "take"
    /\ \/ /\ queue = <<>>
          /\ pc' = [pc EXCEPT ![c] = "takewait"]
          /\ UNCHANGED <<queue, calls, got>>
       \/ /\ queue # <<>>
          /\ TakeFront(c)
          /\ pc' = [pc EXCEPT ![c] = After(c, "take")]

(* BoundedBlockingQueue::put: wait on notFull_ while size >= maxSize_,   *)
(* then push_back and notEmpty_.notify().                                 *)
BPut(p) ==
    /\ pc[p] = "put"
    /\ \/ /\ Len(queue) >= MaxSize
          /\ pc' = [pc EXCEPT ![p] = "putwait"]
          /\ UNCHANGED <<queue, calls, got>>
       \/ /\ Len(queue) < MaxSize
          /\ queue' = Append(queue, <<p, calls[p] + 1>>)
          /\ calls' = [calls EXCEPT ![p] = @ + 1]
          /\ pc' \in {[q EXCEPT ![p] = After(p, "put")] :
                        q \in NotifyOne(pc, "takewait", "take")}
          /\ UNCHANGED got

(* Mutant: BoundedBlockingQueue::take forgets notFull_.notify(). *)
BTakeNoNotify(c) ==
    /\ pc[c] = "take"
    /\ \/ /\ queue = <<>>
          /\ pc' = [pc EXCEPT ![c] = "takewait"]
          /\ UNCHANGED <<queue, calls, got>>
       \/ /\ queue # <<>>
          /\ TakeFront(c)
          /\ pc' = [pc EXCEPT ![c] = After(c, "take")]

(* BoundedBlockingQueue::take: as take(), then notFull_.notify(). *)
BTake(c) ==
    /\ pc[c] = "take"
    /\ \/ /\ queue = <<>>
          /\ pc' = [pc EXCEPT ![c] = "takewait"]
          /\ UNCHANGED <<queue, calls, got>>
       \/ /\ queue # <<>>
          /\ TakeFront(c)
          /\ pc' \in {[q EXCEPT ![c] = After(c, "take")] :
                        q \in NotifyOne(pc, "putwait", "put")}

(* Condition::wait is pthread_cond_wait, which may return with no       *)
(* notify() at all; the thread re-takes mutex_ and re-tests the while    *)
(* loop it waits in.  No fairness: the system need not ever do this.     *)
SpuriousWakeup(t) ==
    /\ pc[t] \in {"putwait", "takewait"}
    /\ pc' = [pc EXCEPT ![t] = IF @ = "putwait" THEN "put" ELSE "take"]
    /\ UNCHANGED <<bounded, queue, calls, got>>

PutOf(t) == (IF bounded THEN BPut(t) ELSE Put(t)) /\ UNCHANGED bounded
TakeOf(t) == (IF bounded THEN BTake(t) ELSE Take(t)) /\ UNCHANGED bounded

Next == \/ \E p \in Producers : PutOf(p)
        \/ \E c \in Consumers : TakeOf(c)
        \/ \E t \in Threads : SpuriousWakeup(t)

(* Every thread with an enabled step is eventually scheduled. *)
Fairness == /\ \A p \in Producers : WF_vars(PutOf(p))
            /\ \A c \in Consumers : WF_vars(TakeOf(c))

Spec == Init /\ [][Next]_vars /\ Fairness

-----------------------------------------------------------------------------
TypeOK ==
    /\ bounded \in BOOLEAN
    /\ pc \in [Threads -> {"put", "putwait", "take", "takewait", "done"}]
    /\ queue \in Seq(Items)
    /\ calls \in [Threads -> 0 .. PerThread]
    /\ got \in [Consumers -> Seq(Items)]

(* No item is lost or handed out twice: every item a completed put()     *)
(* pushed is either still queued or was returned by exactly one take(),   *)
(* across all consumers.                                                  *)
Taken == UNION {{<<c, i>> : i \in DOMAIN got[c]} : c \in Consumers}
ExactlyOnce ==
    /\ \A x, y \in Taken : got[x[1]][x[2]] = got[y[1]][y[2]] => x = y
    /\ {got[x[1]][x[2]] : x \in Taken} \cap {queue[i] : i \in DOMAIN queue} = {}
    /\ {got[x[1]][x[2]] : x \in Taken} \cup {queue[i] : i \in DOMAIN queue}
         = {<<p, n>> \in Items : n <= calls[p]}

(* Every put() and take() returns: no producer is left waiting on        *)
(* notFull_ while consumers wait on notEmpty_, or the reverse.            *)
AllReturn == <>(\A t \in Threads : pc[t] = "done")

=============================================================================
