------------------------------ MODULE TcpServer ------------------------------
(***************************************************************************)
(* The network side of the server: Acceptor, TcpServer, TcpConnection,     *)
(* Channel and EpollPoller (src/src/net/) with the KVServer callbacks      *)
(* (src/src/server/kv_server.cpp), and the clients at the other end of     *)
(* the sockets.                                                             *)
(*                                                                         *)
(* The base loop runs the Acceptor and the registry connections_; the      *)
(* I/O loops run the connections.  Each loop is a thread that handles the  *)
(* channels epoll reports and runs its deferred functors in FIFO order;    *)
(* the model lets the two interleave in any order within a loop, which     *)
(* contains every order loop() can produce.  That functors queued on a     *)
(* loop are not lost is the EventLoop module's result.                     *)
(*                                                                         *)
(* A connection c is a record conn[c]:                                     *)
(*   st    idle (client not connected) | backlog (in the listen queue)    *)
(*         | connecting | connected | disconnecting | disconnected        *)
(*   loop  the I/O loop getNextLoop() gave it                             *)
(*   ev    Channel::events_, a subset of {"R", "W"}                       *)
(*   idx   Channel::index_: "new" (kNew), "added", "deleted"               *)
(*   rdy   the epoll item is on the ready list (edge not yet reported)    *)
(*   rq    the socket receive queue: requests "req"/"quit", then "eof"     *)
(*   inb   inputBuffer_: requests read but not parsed yet                 *)
(*   ob    outputBuffer_: response numbers not yet written                *)
(*   sndq  the socket send queue (at most SndCap responses)               *)
(*   shut  shutdownWrite() has been called                                *)
(*   nresp the number of responses handed to sendInLoop()                 *)
(*   got   the responses the client has received                          *)
(*   nsent the requests the client has sent; fin: the client sent FIN     *)
(* Requests and responses are whole units: the protocol is line framed    *)
(* and a partial write leaves the rest in order, so the order properties   *)
(* do not depend on where a write splits.                                  *)
(***************************************************************************)
EXTENDS Naturals, Sequences, FiniteSets

CONSTANTS
    Conns,      \* the client connections
    NumLoops,   \* setThreadNum(): the I/O loops are 1 .. NumLoops
    MaxReq,     \* requests one client sends
    SndCap,     \* socket send buffer, in responses
    ReadCap     \* what one readv() can take (writable bytes + 64 KiB), in requests

ASSUME /\ NumLoops \in Nat \ {0}
       /\ MaxReq \in Nat /\ SndCap \in Nat \ {0} /\ ReadCap \in Nat \ {0}

VARIABLES
    conn,       \* per connection, the record above
    reg,        \* TcpServer::connections_, as the set of its connections
    baseQ,      \* pendingFunctors_ of the base loop
    ioQ,        \* pendingFunctors_ of each I/O loop
    backlog,    \* the listen queue of the listening socket
    lrdy,       \* the acceptChannel_ epoll item is on the ready list
    nextId      \* nextConnId_

vars == <<conn, reg, baseQ, ioQ, backlog, lrdy, nextId>>

Loops == 1 .. NumLoops
Requests == {"req", "quit"}
States == {"idle", "backlog", "connecting", "connected", "disconnecting",
           "disconnected"}

MinOf(a, b) == IF a < b THEN a ELSE b

Fresh ==
    [st |-> "idle", loop |-> 0, ev |-> {}, idx |-> "new", rdy |-> FALSE,
     rq |-> <<>>, inb |-> <<>>, ob |-> <<>>, sndq |-> <<>>, shut |-> FALSE,
     nresp |-> 0, got |-> <<>>, nsent |-> 0, fin |-> FALSE]

Init ==
    /\ conn = [c \in Conns |-> Fresh]
    /\ reg = {}
    /\ baseQ = <<>>
    /\ ioQ = [l \in Loops |-> <<>>]
    /\ backlog = <<>>
    /\ lrdy = FALSE
    /\ nextId = 1

(* A functor bound to a TcpConnectionPtr keeps the connection alive, as   *)
(* does the registry entry; the Channel's tie is only a weak_ptr.          *)
Functor(f, c) == [f |-> f, c |-> c]
Holds(q, c) == \E j \in 1 .. Len(q) : q[j].c = c
Alive(c) == c \in reg \/ Holds(baseQ, c) \/ \E l \in Loops : Holds(ioQ[l], c)
Destroyed(c) == conn[c].st \notin {"idle", "backlog"} /\ ~Alive(c)

-----------------------------------------------------------------------------
(* Readiness of the socket, as tcp_poll reports it. *)
Readable(r) == r.rq # <<>>
Writable(r) == r.shut \/ Len(r.sndq) < SndCap
Fires(r, ev) == ("R" \in ev /\ Readable(r)) \/ ("W" \in ev /\ Writable(r))

(* Channel::update -> EpollPoller::updateChannel: ADD a new or deleted     *)
(* channel, DEL one whose interest became empty, MOD otherwise.  ADD and   *)
(* MOD poll the socket once, so a condition already true is reported.     *)
Update(r, ev) ==
    IF r.idx \in {"new", "deleted"}
    THEN [r EXCEPT !.ev = ev, !.idx = "added", !.rdy = r.rdy \/ Fires(r, ev)]
    ELSE IF ev = {}
    THEN [r EXCEPT !.ev = ev, !.idx = "deleted", !.rdy = FALSE]
    ELSE [r EXCEPT !.ev = ev, !.rdy = r.rdy \/ Fires(r, ev)]

(* Channel's interest setters, each followed by update(). *)
EnableReading(r) == Update(r, r.ev \cup {"R"})
EnableWriting(r) == Update(r, r.ev \cup {"W"})
DisableWriting(r) == Update(r, r.ev \ {"W"})
DisableAll(r) == Update(r, {})
IsWriting(r) == "W" \in r.ev

(* Channel::remove -> EpollPoller::removeChannel: out of channels_ and    *)
(* out of epoll; index_ back to kNew.                                     *)
RemoveChannel(r) == [r EXCEPT !.idx = "new", !.rdy = FALSE]

(* A socket wake-up of kind k ("R" for data or FIN, "W" for freed send    *)
(* space) queues the epoll item if its interest covers k.                 *)
Wake(r, k) == [r EXCEPT !.rdy = r.rdy \/ (r.idx = "added" /\ k \in r.ev)]

(* Fault-injected variant: sendInLoop() trying a direct write whenever   *)
(* the socket has room, queued output or not.                             *)
SendInLoopAlwaysWrite(r) ==
    LET n == r.nresp + 1 IN
    IF r.st = "disconnected" THEN r
    ELSE IF Len(r.sndq) < SndCap
    THEN [r EXCEPT !.sndq = Append(r.sndq, n), !.nresp = n]
    ELSE LET r1 == [r EXCEPT !.ob = Append(r.ob, n), !.nresp = n] IN
         IF ~IsWriting(r) THEN EnableWriting(r1) ELSE r1

(* TcpConnection::sendInLoop for the next response: write directly when   *)
(* not writing and outputBuffer_ is empty, else append and enableWriting. *)
SendInLoop(r) ==
    LET n == r.nresp + 1 IN
    IF r.st = "disconnected" THEN r
    ELSE IF ~IsWriting(r) /\ r.ob = <<>> /\ Len(r.sndq) < SndCap
    THEN [r EXCEPT !.sndq = Append(r.sndq, n), !.nresp = n]
    ELSE LET r1 == [r EXCEPT !.ob = Append(r.ob, n), !.nresp = n] IN
         IF ~IsWriting(r) THEN EnableWriting(r1) ELSE r1

(* TcpConnection::send: a no-op unless kConnected; KVServer always sends  *)
(* from the connection's own loop, so sendInLoop runs inline.             *)
Send(r) == IF r.st = "connected" THEN SendInLoop(r) ELSE r

(* Socket::shutdownWrite: shutdown(SHUT_WR) changes the socket's state,  *)
(* and the state change (inet_shutdown -> sk_state_change) wakes every    *)
(* epoll waiter, as the peer's FIN does; epoll then reports what the      *)
(* socket is ready for.                                                    *)
ShutdownWrite(r) == [r EXCEPT !.shut = TRUE, !.rdy = r.rdy \/ r.idx = "added"]

(* Fault-injected variant: shutdownWrite() even while output is pending. *)
ShutdownInLoopEager(r) == ShutdownWrite(r)

(* TcpConnection::shutdownInLoop: shutdownWrite() unless still writing. *)
ShutdownInLoop(r) == IF ~IsWriting(r) THEN ShutdownWrite(r) ELSE r

(* TcpConnection::shutdown, called on the loop thread: runInLoop runs     *)
(* shutdownInLoop at once.                                                 *)
Shutdown(r) ==
    IF r.st = "connected"
    THEN ShutdownInLoop([r EXCEPT !.st = "disconnecting"])
    ELSE r

(* KVServer::onMessage: parse, handle and answer every complete request; *)
(* after QUIT, shut the connection down and leave the rest in the buffer. *)
RECURSIVE OnMessage(_)
OnMessage(r) ==
    IF r.inb = <<>> THEN r
    ELSE LET r1 == Send([r EXCEPT !.inb = Tail(r.inb)]) IN
         IF Head(r.inb) = "quit" THEN Shutdown(r1) ELSE OnMessage(r1)

(* TcpConnection::handleClose: kDisconnected, disableAll(); the close     *)
(* callback, removeConnection, is queued on the base loop by the caller.  *)
HandleClose(r) == DisableAll([r EXCEPT !.st = "disconnected"])

(* The data one readv() returns: up to ReadCap requests, never past the   *)
(* end of stream.                                                         *)
RECURSIVE DataPrefix(_, _)
DataPrefix(q, k) ==
    IF k = 0 \/ q = <<>> \/ Head(q) = "eof" THEN <<>>
    ELSE <<Head(q)>> \o DataPrefix(Tail(q), k - 1)

(* TcpConnection::handleRead: one readFd(); n > 0 runs onMessage, n = 0   *)
(* closes, n < 0 (EAGAIN) goes to handleError, which only logs.  The      *)
(* result says whether handleClose ran.                                   *)
HandleRead(r) ==
    LET d == DataPrefix(r.rq, ReadCap) IN
    IF d # <<>>
    THEN [r |-> OnMessage([r EXCEPT !.rq = SubSeq(r.rq, Len(d) + 1, Len(r.rq)),
                                    !.inb = r.inb \o d]),
          closed |-> FALSE]
    ELSE IF r.rq # <<>>
    THEN [r |-> HandleClose(r), closed |-> TRUE]
    ELSE [r |-> r, closed |-> FALSE]

(* Fault-injected variant: writeFd() taking one response more than the   *)
(* socket has room for.                                                    *)
WriteAmountOver(r) == MinOf(SndCap - Len(r.sndq) + 1, Len(r.ob))

(* How much one writeFd() moves into the socket. *)
WriteAmount(r) == MinOf(SndCap - Len(r.sndq), Len(r.ob))

(* Fault-injected variant: handleWrite() that stops writing after any    *)
(* successful write, drained or not.                                       *)
HandleWriteStopEarly(r) ==
    LET k == WriteAmount(r)
        r1 == [r EXCEPT !.sndq = r.sndq \o SubSeq(r.ob, 1, k),
                        !.ob = SubSeq(r.ob, k + 1, Len(r.ob))]
        r2 == DisableWriting(r1)
    IN  IF ~IsWriting(r) \/ r.shut \/ k = 0 THEN r
        ELSE IF r2.st = "disconnecting" /\ r1.ob = <<>> THEN ShutdownInLoop(r2)
        ELSE r2

(* Fault-injected variant: handleWrite() forgetting the pending shutdown. *)
HandleWriteNoShutdown(r) ==
    LET k == WriteAmount(r)
        r1 == [r EXCEPT !.sndq = r.sndq \o SubSeq(r.ob, 1, k),
                        !.ob = SubSeq(r.ob, k + 1, Len(r.ob))]
    IN  IF ~IsWriting(r) \/ r.shut \/ k = 0 THEN r
        ELSE IF r1.ob = <<>> THEN DisableWriting(r1)
        ELSE r1

(* TcpConnection::handleWrite: if writing, one writeFd(); once the output *)
(* buffer is empty, disableWriting() and, if kDisconnecting,              *)
(* shutdownInLoop().  A failed write (EPIPE after shutdown, or no room)   *)
(* is only logged.                                                         *)
HandleWrite(r) ==
    LET k == WriteAmount(r)
        r1 == [r EXCEPT !.sndq = r.sndq \o SubSeq(r.ob, 1, k),
                        !.ob = SubSeq(r.ob, k + 1, Len(r.ob))]
        r2 == DisableWriting(r1)
    IN  IF ~IsWriting(r) \/ r.shut \/ k = 0 THEN r
        ELSE IF r1.ob # <<>> THEN r1
        ELSE IF r2.st = "disconnecting" THEN ShutdownInLoop(r2)
        ELSE r2

(* TcpConnection::connectEstablished: kConnected, tie, enableReading(),   *)
(* then KVServer::onConnection sends the welcome line.                    *)
ConnectEstablished(r) ==
    Send(EnableReading([r EXCEPT !.st = "connected"]))

(* TcpConnection::connectDestroyed *)
ConnectDestroyed(r) ==
    RemoveChannel(IF r.st = "connected"
                  THEN DisableAll([r EXCEPT !.st = "disconnected"])
                  ELSE r)

(* Fault-injected variant: handleClose() whose close callback never      *)
(* reaches the server.                                                     *)
QueueRemoveDropped(q, c) == q

(* The close callback TcpServer::removeConnection: runInLoop on the base  *)
(* loop from an I/O thread, i.e. queue removeConnectionInLoop(conn).      *)
QueueRemove(q, c) == Append(q, Functor("remove", c))

-----------------------------------------------------------------------------
(* A client connects: the kernel completes the handshake and puts the     *)
(* connection on the listen queue, waking the listening socket.           *)
PeerConnect(c) ==
    /\ conn[c].st = "idle"
    /\ conn' = [conn EXCEPT ![c].st = "backlog"]
    /\ backlog' = Append(backlog, c)
    /\ lrdy' = TRUE
    /\ UNCHANGED <<reg, baseQ, ioQ, nextId>>

(* A client sends a request. *)
PeerSend(c, m) ==
    /\ conn[c].st # "idle"
    /\ ~conn[c].fin
    /\ conn[c].nsent < MaxReq
    /\ ~Destroyed(c)
    /\ LET r == conn[c] IN
       conn' = [conn EXCEPT ![c] = Wake([r EXCEPT !.rq = Append(r.rq, m),
                                                  !.nsent = r.nsent + 1], "R")]
    /\ UNCHANGED <<reg, baseQ, ioQ, backlog, lrdy, nextId>>

(* A client closes (or half-closes) its side: FIN ends the receive        *)
(* stream; the state change wakes every epoll waiter of the socket.       *)
PeerFin(c) ==
    /\ conn[c].st # "idle"
    /\ ~conn[c].fin
    /\ ~Destroyed(c)
    /\ LET r == conn[c] IN
       conn' = [conn EXCEPT ![c] = [r EXCEPT !.rq = Append(r.rq, "eof"),
                                             !.fin = TRUE,
                                             !.rdy = r.rdy \/ r.idx = "added"]]
    /\ UNCHANGED <<reg, baseQ, ioQ, backlog, lrdy, nextId>>

(* A client reads a response, freeing send buffer space. *)
PeerRecv(c) ==
    /\ conn[c].sndq # <<>>
    /\ LET r == conn[c] IN
       conn' = [conn EXCEPT ![c] = Wake([r EXCEPT !.got = Append(r.got, Head(r.sndq)),
                                                  !.sndq = Tail(r.sndq)], "W")]
    /\ UNCHANGED <<reg, baseQ, ioQ, backlog, lrdy, nextId>>

(* EventLoopThreadPool::getNextLoop: next_ advances once per connection, *)
(* in step with nextConnId_, so the k-th connection goes to loop          *)
(* (k - 1) % numThreads_.                                                 *)
NextLoop == ((nextId - 1) % NumLoops) + 1

(* TcpServer::newConnection for the accepted c: it gets the next id, is   *)
(* stored in connections_ and queues connectEstablished on its loop.      *)
NewConnection(c) ==
    /\ conn' = [conn EXCEPT ![c].st = "connecting", ![c].loop = NextLoop]
    /\ reg' = reg \cup {c}
    /\ ioQ' = [ioQ EXCEPT ![NextLoop] = Append(@, Functor("establish", c))]
    /\ nextId' = nextId + 1

(* Base loop: epoll reports acceptChannel_; Acceptor::handleRead accepts  *)
(* one connection and hands it to TcpServer::newConnection.  The edge is *)
(* only raised by a connect, so accept() finds one; its failure branch    *)
(* (only logged) needs a connection reset before accept, not modelled.   *)
HandleAccept ==
    /\ lrdy
    /\ backlog # <<>>
    /\ lrdy' = FALSE
    /\ backlog' = Tail(backlog)
    /\ NewConnection(Head(backlog))
    /\ UNCHANGED baseQ

(* Fault-injected variant: removeConnectionInLoop that erases the entry  *)
(* and never queues connectDestroyed.                                     *)
RemoveConnectionNoDestroy ==
    /\ baseQ # <<>>
    /\ reg' = reg \ {Head(baseQ).c}
    /\ baseQ' = Tail(baseQ)
    /\ UNCHANGED <<conn, ioQ, backlog, lrdy, nextId>>

(* Base loop: TcpServer::removeConnectionInLoop erases the registry entry *)
(* and queues connectDestroyed(conn) on the connection's loop.            *)
RemoveConnectionInLoop ==
    /\ baseQ # <<>>
    /\ LET c == Head(baseQ).c IN
       /\ reg' = reg \ {c}
       /\ ioQ' = [ioQ EXCEPT ![conn[c].loop] = Append(@, Functor("destroy", c))]
    /\ baseQ' = Tail(baseQ)
    /\ UNCHANGED <<conn, backlog, lrdy, nextId>>

(* I/O loop l runs its next functor. *)
RunIoFunctor(l) ==
    /\ ioQ[l] # <<>>
    /\ LET f == Head(ioQ[l]) IN
       conn' = [conn EXCEPT ![f.c] = IF f.f = "establish" THEN ConnectEstablished(@)
                                                          ELSE ConnectDestroyed(@)]
    /\ ioQ' = [ioQ EXCEPT ![l] = Tail(@)]
    /\ UNCHANGED <<reg, baseQ, backlog, lrdy, nextId>>

(* I/O loop: epoll reports connection c's channel; Channel::handleEvent    *)
(* upgrades the tie and, if the connection is alive, runs the read        *)
(* callback for readable and then the write callback for writable.  The   *)
(* result is the new record and whether handleClose ran.                  *)
Dispatch(c) ==
    LET r0 == [conn[c] EXCEPT !.rdy = FALSE]
        rv == {k \in {"R", "W"} : Fires(conn[c], {k}) /\ k \in conn[c].ev}
        rr == IF "R" \in rv THEN HandleRead(r0) ELSE [r |-> r0, closed |-> FALSE]
    IN  IF ~Alive(c) THEN [r |-> r0, closed |-> FALSE]
        ELSE [r |-> IF "W" \in rv THEN HandleWrite(rr.r) ELSE rr.r,
              closed |-> rr.closed]

HandleEvent(c) ==
    /\ conn[c].rdy
    /\ \E d \in {Dispatch(c)} :
          /\ conn' = [conn EXCEPT ![c] = d.r]
          /\ baseQ' = IF d.closed THEN QueueRemove(baseQ, c) ELSE baseQ
    /\ UNCHANGED <<reg, ioQ, backlog, lrdy, nextId>>

(* epoll_wait times out (kPollTimeMs) with nothing to do. *)
PollTimeout == UNCHANGED vars

Next ==
    \/ HandleAccept \/ RemoveConnectionInLoop \/ PollTimeout
    \/ \E l \in Loops : RunIoFunctor(l)
    \/ \E c \in Conns :
          \/ PeerConnect(c) \/ PeerFin(c) \/ PeerRecv(c) \/ HandleEvent(c)
          \/ \E m \in Requests : PeerSend(c, m)

(* Weak fairness of HandleEvent(c), spelt out: the action is enabled      *)
(* exactly when the item is on the ready list and it always takes it off, *)
(* so ENABLED <<HandleEvent(c)>>_vars is conn[c].rdy.                      *)
EventFair(c) == []<>(~conn[c].rdy) \/ []<><<HandleEvent(c)>>_vars

(* Every loop handles each reported channel and runs every queued functor *)
(* within one iteration, so each of these steps, once enabled, happens.   *)
(* Clients keep reading what the server sends them.                       *)
Fairness ==
    /\ WF_vars(HandleAccept) /\ WF_vars(RemoveConnectionInLoop)
    /\ \A l \in Loops : WF_vars(RunIoFunctor(l))
    /\ \A c \in Conns : EventFair(c) /\ WF_vars(PeerRecv(c))

Spec == Init /\ [][Next]_vars /\ Fairness

-----------------------------------------------------------------------------
Seqs(S, n) == UNION {[1 .. k -> S] : k \in 0 .. n}

TypeOK ==
    /\ \A c \in Conns :
          LET r == conn[c] IN
          /\ r.st \in States /\ r.loop \in 0 .. NumLoops
          /\ r.ev \subseteq {"R", "W"} /\ r.idx \in {"new", "added", "deleted"}
          /\ r.rdy \in BOOLEAN /\ r.shut \in BOOLEAN /\ r.fin \in BOOLEAN
          /\ r.rq \in Seqs(Requests \cup {"eof"}, MaxReq + 1)
          /\ r.inb \in Seqs(Requests, MaxReq)
          /\ r.sndq \in Seqs(1 .. MaxReq + 1, SndCap)
          /\ r.ob \in Seqs(1 .. MaxReq + 1, MaxReq + 1)
          /\ r.nresp \in 0 .. MaxReq + 1 /\ r.nsent \in 0 .. MaxReq
    /\ reg \subseteq Conns
    /\ nextId \in 1 .. Cardinality(Conns) + 1

(* The lifetime rule of spec.md 4.6 and 5 (shared_ptr connections, weak   *)
(* tie, connectDestroyed queued by removeConnectionInLoop): a channel is  *)
(* in the poller's channels_ map, or on epoll's ready list, only while    *)
(* its TcpConnection is alive, so epoll never hands the loop a freed      *)
(* Channel.                                                                *)
NoDanglingChannel ==
    \A c \in Conns : (conn[c].idx # "new" \/ conn[c].rdy) => Alive(c)

(* What a client receives, plus what is still in the socket and in       *)
(* outputBuffer_, is exactly the responses in the order onMessage          *)
(* produced them (sendInLoop's direct write only when nothing is queued,   *)
(* handleWrite keeping write interest until the buffer drains).           *)
ResponsesInOrder ==
    \A c \in Conns :
        conn[c].got \o conn[c].sndq \o conn[c].ob = [i \in 1 .. conn[c].nresp |-> i]

(* The write side is shut down only once outputBuffer_ is empty: the      *)
(* FIN after QUIT follows +BYE and every earlier response (shutdownInLoop *)
(* deferring to handleWrite while writing).                               *)
FinAfterResponses ==
    \A c \in Conns : conn[c].shut => conn[c].ob = <<>>

(* Output queued in outputBuffer_ is eventually written to the socket    *)
(* (write interest stays on until handleWrite drains the buffer), unless  *)
(* the connection is closed first and the output dropped.                 *)
OutputDrains ==
    \A c \in Conns :
        (conn[c].ob # <<>>) ~> (conn[c].ob = <<>> \/ conn[c].st = "disconnected")

(* spec.md 8, scenario 4: after QUIT the client receives every response   *)
(* and then sees end of stream.                                           *)
QuitHalfCloses ==
    \A c \in Conns :
        (conn[c].st = "disconnecting")
            ~> (conn[c].shut /\ conn[c].sndq = <<>> /\ conn[c].ob = <<>>)
               \/ conn[c].st = "disconnected"

(* A connection that has been closed (handleClose) is erased from the     *)
(* registry and destroyed.                                                 *)
ClosedConnectionReleased ==
    \A c \in Conns : (conn[c].st = "disconnected") ~> Destroyed(c)

(* spec.md 1 and 4.6: the connection reacts to the peer closing: once the *)
(* client has sent FIN, the server closes and destroys the connection.    *)
PeerCloseReleased ==
    \A c \in Conns : (conn[c].fin /\ conn[c].st # "backlog") ~> Destroyed(c)

(* spec.md 4.4: the Acceptor accepts in a loop until the listen queue is  *)
(* drained, so every connection a client makes is eventually accepted.    *)
AllConnectsAccepted ==
    \A c \in Conns : (conn[c].st = "backlog") ~> (conn[c].st # "backlog")

=============================================================================
