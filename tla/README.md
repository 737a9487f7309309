# TLA+ models of ReactorKV

This directory holds TLA+ specifications of the ReactorKV server
(`src/src/`), the TLC configurations that check them, and `PROJECT.json`.
`PROJECT.json` records:

- every component, with its status;
- every run and what it is expected to do;
- the mutants that show each checked property can catch a bug;
- the source lines each definition translates (`map`);
- the findings;
- the hazards of the code.

## The system

ReactorKV is a key/value server built on a main/sub reactor. Its parts:

- **Storage.**
  - `SkipList<K,V>` (`storage/skiplist.h`) is an ordered index. Every method takes one mutex for its whole body.
  - `KVStore` (`storage/kvstore.cpp`) wraps the skip list. It refuses empty keys and saves and loads a `key:value` text file.
- **Event loop.**
  - `EventLoop` (`net/eventloop.cpp`) runs `epoll_wait` via `EPollPoller` and dispatches the ready `Channel`s. Then it runs the functors other threads queued with `queueInLoop`, which wake the loop through an eventfd.
  - `quit()` sets a flag. From another thread it also writes the eventfd.
- **Network.**
  - The base loop runs the `Acceptor` and `TcpServer`'s registry `connections_`.
  - `EventLoopThreadPool` hands each new `TcpConnection` to an I/O loop, round robin.
  - Each connection reads with one `readv` into its input `Buffer` and calls `KVServer::onMessage`. Responses are queued through `send`/`sendInLoop` and the output buffer.
  - On close, a connection asks the base loop to remove it (`removeConnection`). The base loop then queues `connectDestroyed` back on the I/O loop.
  - All sockets, the listening one included, are registered edge-triggered (`EPOLLET`, `epoll_poller.cpp:100`).
- **Application.**
  - `KVServer` greets each client with `+WELCOME` and parses lines with `Codec`. It answers each request, and on `QUIT` calls `shutdown()`.
  - `main()` installs signal handlers that call `g_loop->quit()`, loads the data file and runs the base loop. It saves the store after the base loop returns.
- **Client.** The CLI (`src/client/main.cpp`) connects, sends `PING`, and then runs a REPL. `KVClient` (`kvclient.cpp`) sends each command and takes one `recv` as its reply. It never reads the server's `+WELCOME` line.

## Modules

| Module | Models | State | Actions |
|---|---|---|---|
| `SkipList` | `skiplist.h` | a record `fwd/lvl/val/cur/count` (forward pointers per level, node heights, values, `currentLevel_`, `elementCount_`) | none: `InsertH`, `Search`, `Remove`, `Clear`, `Dump`, `InsertAll` are operators from structure to structure, because each method is atomic under `mutex_`; `Collect` frees unreachable nodes as `shared_ptr` does |
| `KVMap` | the abstract promise of the store (spec.md 4.9, 8) | `map`, `file`, `ret` | put/get/del/exists/size/clear, save, load, restart |
| `KVStore` | `kvstore.cpp` and how `main()` drives it | `sl`, `file`, `ret`, `phase` | one action per `KVStore` method; `Boot` (load), `Stop` (save, which may fail), `Restart` |
| `Snapshot` | `SkipList::dumpFile`, `loadFile`, `parseString`, `KVStore::save`/`load`/`put`/`del`, main's load at start and exit | the store as a map of byte strings, the data file as bytes (or none), whether the process runs; histories: the map the last `dumpFile` wrote and whether it finished | `Boot` (clear, then getline and parseString over the file, later lines overwriting), `Put`, `Del`, `Save` (the whole text in key order, or the open fails), `TornSave` (a proper prefix reaches the file and the process dies), `Exit` |
| `EventLoop` | `eventloop.cpp` and two other threads | loop pc `lpc`, `quit_`, `callingPendingFunctors_`, `pendingFunctors_`, the swapped batch, active channels, the eventfd edge and counter, an application channel, other threads' pcs | `Start`, `Poll`, `PollTimeout`, `HandleEvents`, `Swap`, `RunFunctor`, `EndPending`, `Submit`/`Wake` (queueInLoop from another thread, split at the unlock), `QuitOther`, `QuitOnLoop` (signal handler), `AppEvent` |
| `TcpServer` | `acceptor.cpp`, `tcp_server.cpp`, `tcp_connection.cpp`, `channel.cpp`, `epoll_poller.cpp`, `buffer.cpp`, `kv_server.cpp` callbacks, and the clients | per connection a record (state, loop, `events_`, `index_`, ready-list flag, socket receive queue, input buffer, output buffer, socket send queue, shutdown flag, responses produced, responses received, client counters); the registry; each loop's functor queue; the listen backlog and its ready flag; `nextConnId_` | `HandleAccept` (with `NewConnection`, `NextLoop`), `HandleEvent` (a ready channel through `Dispatch`: tie check, `HandleRead` → `OnMessage` → `Send`/`Shutdown`, `HandleWrite`, `HandleClose`), `RunIoFunctor` (`connectEstablished`/`connectDestroyed`), `RemoveConnectionInLoop`, and the client side `PeerConnect`, `PeerSend`, `PeerFin`, `PeerRecv` |
| `Buffer` | `buffer.h`/`buffer.cpp`: the constructor, `readableBytes`, `writableBytes`, `retrieve`, `retrieveAll`, `ensureWritableBytes`, `append`, `hasWritten`, `makeSpace`, `readFd`, `writeFd`'s readable range, called as `TcpConnection` calls them | `buf`: the vector's cells (resize fills with 0), `size()`, `readerIndex_`, `writerIndex_`; `next`, the number of the next byte written | `ReadFd(n)` (readv returns n bytes: into the writable space, or fill it, `writerIndex_ = size()` and append the rest from extrabuf), `AppendData(n)` (`sendInLoop`'s unsent rest), `Retrieve(n)` (the codec, or `handleWrite` after `writeFd`), `RetrieveAll` (`send(Buffer*)`) |
| `ByteQueue` | what a Buffer promises its users: a FIFO of bytes | `content`, `next` | `Put(n)`, `Take(n)` |
| `Codec` | `codec.h` `parseRequest`, `parseLine`, `split`, `toUpper`, `Buffer::findCRLF`, under the loop of `KVServer::onMessage` | the input buffer as bytes, what is left of it, the requests parsed, whether `onMessage` returned | `OnMessageStep` (one request parsed and retrieved; QUIT breaks), `OnMessageReturn`; the spec's framing rules are separate reference operators (`SpecParse`, `SpecTokens`, `SpecValue`) |
| `ThreadPool` | `threadpool.cpp`, `Thread::start`/`join` and `ThreadData::runInThread` (`thread.cpp`), `CountDownLatch`, driven as `threadpool_test.cpp` drives them | one pc per thread (main and workers), `running_`, `queue_` of task numbers, each worker's current task, the next task to submit, the tasks executed, each Thread's start latch, the tests' latch count | `Spawn`/`StartWait`/`Boot` (start's handshake), `Run` (wait on `notFull_` or push and notify `notEmpty_`), `Loop` (the unlocked `while (running_)`), `Take` (wait, pop and notify `notFull_`, or return empty), `Exec` (the task and `countDown`), `After`, `LatchWait`, `Stop`, `Join`. Each critical section is one step; a condition wait is a waiting pc that `notify`/`notifyAll` moves back to the re-test, and `SpuriousWakeup` (pthread_cond_wait returning with no notify, `mutex.h:162`) also moves back |
| `BlockingQueue` | `blocking_queue.h`: `BlockingQueue` and `BoundedBlockingQueue` (`Bounded` picks one), with producer and consumer threads making `PerThread` calls each | each thread's pc, `queue_` of items `<<producer, n>>`, calls completed, what each consumer's `take()` returned | `Put`/`Take` and `BPut`/`BTake`, one critical section each, with `TakeFront` the shared move-and-pop; `SpuriousWakeup` returns a waiter to its while loop with no notify |
| `KVClient` | the CLI session: `main.cpp` with `KVClient::connect`, `sendCommand`, `parseResponse`, `ping`, `exists`, `size`; against `KVServer::onConnection`, `onMessage`, `handleRequest` on one key, and `Codec::encodeResponse` | client pc, connected, the command awaiting its reply, lines typed, `main()`'s exit code; requests in flight, reply lines in flight, accepted, shut down, the key's value; histories of replies sent and of what each REPL command printed | client: `Connect`, `Send` (startup `PING`, a REPL line or `QUIT`; a PUT without value fails the usage check and sends nothing), `Quit` (QUIT/EXIT/EOF), `Recv` (one `recv` returns a nonempty prefix of the reply lines that have arrived, or EOF, and a long value (`LongValues`) can be cut at the 4095-byte limit, its rest left as a `REST` reply in front of the next; then `main()` acts on it); server: `Accept` (greeting), `Serve` (one request, its reply, QUIT shuts down). Reply lines are records whose text `parseResponse`, `ping`, `exists` and `size` read: the first byte, the value after `+OK `, any reply lines glued on behind. |
| `EventLoopThread` | `EventLoopThreadPool::start`, `EventLoopThread` (`startLoop`, `threadFunc`, destructor), `Thread::start`/`join`, the parts of `EventLoop::loop`/`quit`/`queueInLoop`/`doPendingFunctors` an I/O loop runs at start and shutdown, `~TcpServer` and the end of `main()` | main's pc and the thread it is working on; per I/O thread its pc, Thread latch, `loop_ != nullptr`, `quit_`, eventfd readiness, a pending `connectDestroyed`, whether the loop has a connection at shutdown and whether it was torn down | main: `Spawn`, `StartWait`, `LoopWait`, `Serve` (main's loop returns), `Teardown`/`TdWake` (`runInLoop(connectDestroyed)` split at the unlock), `Destroy` (`~EventLoopThread`: `quit()`), `Join`; I/O thread: `Boot`, `Publish`, `LoopStart` (`quit_ = false`), `Check`, `Poll`, `PollTimeout`, `DoPending`, `Exit` |

| `ServerLifecycle` | `main()` from the signal handlers to `return 0`, `KVServer`'s construction, `loadData`/`saveData`, destructor and member order, `~TcpServer`, `~EventLoopThread`'s quit and join of each I/O thread, `~EventLoop`, `signalHandler` | main's pc, alive, whether a data path was given, `g_loop` (null, set, dangling), the base loop's `quit_`, `store_` (a key set, or `Freed`), the data file, whether the last save succeeded; per I/O thread its pc (idle, looping, replying to a key, exited), `quit_`, a connection, a pending `connectDestroyed`; the join index; histories of keys sent, PUTs acknowledged with main's pc at the time, and any use of the freed store | main: `InstallHandlers`, `MakeLoop`, `Boot` (load), `Start`, `LoopStart`, `LoopExit`, `SaveData`, `DtorSave`, `FreeStore`, `TcpServerDtor`, `QuitIO`, `JoinIO`, `DestroyLoop`, `ProcessExit`; `Signal` at any time; I/O thread: `Accept`, `Handle` (a PUT on the store, or on the freed store: the process crashes or the thread goes on), `Reply`, `RunDestroy`, `IOExit` |

`MCEventLoops` and `MCProtocolPool` each run several of these models that share no state in one check. A variable `part` picks one in `Init`, and the others stay in one pinned initial state. Their state spaces therefore add up rather than multiply. Each model's invariants and fairness apply to its own part.

### How epoll is modelled

Each epoll item carries a ready-list flag (`rdy`, `lrdy`). The flag is set:

- when the kernel sees an edge the interest covers: data, a FIN, or freed send space;
- when the socket changes state, whatever the interest: the peer's FIN, or the server's own `shutdown(SHUT_WR)` (`ShutdownWrite`; Linux's `inet_shutdown` calls `sk_state_change`, which wakes every epoll waiter);
- on `EPOLL_CTL_ADD` or `MOD` while the condition already holds.

`epoll_wait` reports an item and clears its flag. What it reports is the current readiness intersected with the interest, and the handler reads or writes once. `EPOLL_CTL_DEL` drops the item.

### Data abstractions

Requests and responses are whole units. The protocol is framed by lines, and the properties are about order and completeness, not about bytes:

- a request is `"req"` or `"quit"`;
- a response is its sequence number;
- the greeting is response 1.

Buffer sizes are counted in these units:

- `SndCap` is the socket send buffer;
- `ReadCap` is what one `readv` returns, i.e. the writable space plus the 64 KiB stack buffer.

### Thread structure

Every loop is one thread. The model interleaves the steps of all loops and all clients, and within a loop it lets channel handling and functors interleave in any order. This covers every order `loop()` can produce. The `EventLoop` module shows separately that a functor queued on a loop is not lost.

The `map` in `PROJECT.json` names the source lines of every definition.

## Runs

| Run | Config | Expect | What it shows |
|---|---|---|---|
| `loops_storage` | `MCEventLoops.cfg` | pass | Store: Any sequence of store operations, loads, saves (failing or not) and restarts keeps the skip list well formed (`WellFormed`: ordered levels, each level a subset of the one below, `currentLevel_` exact, count exact). The store refines `KVMap` (`ImplementsKVMap`), return values included. Snapshot, the data file as bytes: `RoundTrip`: at every start after a finished `dumpFile`, `load` restores exactly the dumped map (keys `a`, `aa`; values `a`, `a:`, so the split at the first `:` matters). `TornLoadsNothingForeign`: after a crash inside `dumpFile` (file truncated on open, a prefix written), the load invents no key and loads each value whole or cut short. `SnapshotTypeOK`: no loaded key or value holds a `'\n'`. EventLoop: `NoLostWakeup`: a loop blocked in `epoll_wait` with pending functors always has a wakeup on the way. `QueuedFunctorsRun`: every queued functor runs unless the loop quits. `QuitAfterStartObserved`: a `quit()` made after `loop()` started ends the loop. EventLoopThread, with two I/O threads, each with or without a connection at shutdown: `StartReturns`: `TcpServer::start` gets through every `Thread::start` latch and `startLoop` wait. `ShutdownCompletesUnlessQuitEarly`: every `join()` of shutdown returns, unless some `quit()` reached a loop before its `loop()` began. ServerLifecycle, with two I/O threads and two keys: `AckedBeforeDtorSaved`: when the process exits after a successful save, every PUT acknowledged before `~KVServer`'s own save is in the file; this holds because the destructor saves again (`dataFile_` was set by `loadData`/`saveData`), and would fail if only `main()` saved. `QuitWhileLoopingEnds`: a quit while the base loop runs always leads to the process exiting, through the destructors and every join. |
| `eventloop_quit_lost` | `MCEventLoopQuit.cfg` | violation | `QuitRequestObserved` fails: `quit()` before `loop()` starts is overwritten by `quit_ = false` (`eventloop.cpp:62`). The same window exists for every I/O thread: `startLoop` returns once `loop_` is published, before `loop()` runs. The `EventLoopThread` model reaches a shutdown whose `quit()` lands there, and `~EventLoopThread`'s `join()` then never returns. That is why its passing run states completion only for behaviours without such an early quit. |
| `tcpserver_safety` | `MCTcpServer.cfg` | pass | Checked with two clients, two I/O loops and pipelining. `NoDanglingChannel`: an epoll item never outlives its `TcpConnection`. `ResponsesInOrder`: what a client received, plus the send queue, plus the output buffer, is exactly responses 1..n in order. `FinAfterResponses`: the write half is shut only after the output buffer is empty. |
| `protocol_pool` | `MCProtocolPool.cfg` | pass | Codec and KVClient: `RequestFraming` (Codec's `FramingAsSpec`): for every buffer of one or two lines built from command words in both cases, spaces and tabs, arguments and every ending (LF, CR LF, CR CR LF, a lone CR, none), `onMessage` parses the commands and keys of spec.md 4.8's lines, stops after QUIT, and leaves exactly the unparsed rest. `ShowsOwnReply`: in a client session that gets past its startup ping, every REPL command prints the outcome of the server's reply to that very command, never the greeting or a neighbour's reply glued on. It holds because exactly one reply is outstanding once the greeting is gone. ThreadPool and the blocking queues, in the same run as Codec and KVClient (`PoolTypeOK` is ThreadPool's type invariant). ThreadPool has two workers, three tasks, queue bound 1, and both endings (wait on the latch, or `stop()` at once). `LatchedAllRan`: when the tests' latch opens, every task ran and the queue is empty. `Terminates`: start, the submissions, `stop()` and the joins always finish, whatever the order of the unlocked `running_` reads and the notifications. Stopping at once can leave tasks in the queue; the code makes no promise about them and no property claims one. The queues have two producers and two consumers on a `BlockingQueue` or a `BoundedBlockingQueue` of size 1. `ExactlyOnce`: every item a `put()` pushed is still queued or was returned by exactly one `take()`. `AllReturn`: with single `notify()` calls on two conditions, every call returns. TcpServer, one connection on one I/O loop: `OutputDrains`: buffered output drains. `QuitHalfCloses`: QUIT leads to `shutdownWrite` after every response. `ClosedConnectionReleased`: a closed connection leaves the registry and is destroyed. Buffer, with every byte numbered by its place in the stream: `IndicesOrdered`: `kCheapPrepend <= readerIndex_ <= writerIndex_ <= size()` after any sequence of reads (both readv paths), appends (resize and move) and retrieves. `ImplementsByteQueue`: the readable bytes refine `ByteQueue`, so no byte is lost, duplicated or reordered by `makeSpace`'s move or `readFd`'s split. `BufferTypeOK` is Buffer's type invariant. |
| `store_use_after_free` | `ServerLifecycleTeardown.cfg` | violation | `NoUseAfterDestroy` fails: `store_` is declared after `server_` (`kv_server.h:68`), so `~KVServer` destroys it first, while the I/O threads of `server_`'s pool still run. They are quit and joined only in `~TcpServer`. A PUT read in that window runs `store_.put` on the destroyed store (trace: `FreeStore`, then `Handle`). The same run's state space has a signal after `~EventLoop` calling `quit()` through the dangling `g_loop`. |
| `snapshot_delimiter` | `MCSnapshotColon.cfg` | violation | `RoundTrip` fails with the key `a:`, which the codec and `KVStore::put` accept though spec.md 4.10 forbids it: `PUT a: a` is dumped as `a::a` and reloaded, split at the first `:`, as key `a` with value `:a`. |
| `client_startup` | `MCKVClientStartup.cfg` | violation | `ConnectedClientStarts` fails. The server sends `+WELCOME` first; `ping()` (`main.cpp:82`) makes one `recv`, gets only the greeting, finds no `PONG`, and `main()` prints "Server not responding" and returns 1, against a live server. This is the usual order, since `PONG` needs a round trip. |
| `codec_put_value` | `MCCodecValue.cfg` | violation | `PutValueAsSpec` fails: `PUT U U` is stored with value `T U U`, because `line.find(key)` (`codec.h:133`) finds the key inside `PUT`. |
| `loopthread_teardown_lost` | `MCEventLoopThreadTeardown.cfg` | violation | `ConnectionsTornDown` fails: `~TcpServer`'s `connectDestroyed` and the pool's `quit()` both reach an I/O loop between its `doPendingFunctors` and its `while (!quit_)` test. The loop exits, and the functor is dropped with the `EventLoop`. |
| `accept_drain` | `MCTcpServerAccept.cfg` | violation | `AllConnectsAccepted` fails: two connects behind one edge, one `accept()`. |
| `read_once` | `MCTcpServerReadOnce.cfg` | violation | `PeerCloseReleased` fails. `handleRead` reads once per edge, so a FIN behind request bytes is never read: TLC's trace is a `GET`-like request followed by the client's close, one `readv` returning the request, and no further edge. The connection leaks in CLOSE_WAIT. After a QUIT the server's own `shutdownWrite` wakes the item again, so the FIN is read there; the leak needs a close after any other request. The same happens when pipelined input exceeds one `readv`. |
| `client_long_reply` | `MCKVClientLong.cfg` | violation | `ShowsOwnReply` fails: `sendCommand` (`kvclient.cpp:86`) takes one `recv` of at most 4095 bytes as the whole reply. A GET of a longer value is printed cut, and the rest of that line is taken by the next command as its reply. |

The `findings` of `PROJECT.json` record what the nine violation runs mean for the code.

Writing the Codec reference turned up one more, smaller, divergence that no run checks. A line ended by CR CR LF loses both CRs: `parseRequest` ends the line at the CR LF and then pops one more trailing CR. spec.md 4.8 says "minus a trailing CR". It only changes a PUT value that ends in CR, so `MCCodecValue.cfg` leaves those endings out to keep its counterexample about the key search.

Each property of a passing run has a mutant in `PROJECT.json`: a plausible bug in the mapped code under which TLC finds the property violated. Examples:

- `queueInLoop` without the `callingPendingFunctors_` wakeup;
- `sendInLoop` writing directly while output is buffered;
- `shutdownInLoop` not waiting for the output;
- `removeConnectionInLoop` not queueing `connectDestroyed`.

## Bounds

- **SkipList and KVStore.**
  - Setup: keys {1,2,3} plus the empty key 0, two values, `MaxLevel` 2 (tower heights 0..1, three header slots).
  - This is enough for:
    - a key above, below and between others;
    - towers of different heights;
    - a remove that empties the top level, the case where `currentLevel_` must drop;
    - an overwrite;
    - a save and reload of a non-empty file.
  - KVStore keeps the file as the sequence of `<<key, value>>` lines `dumpFile` writes. Its keys are numbers and hold no `:`, so that sequence is what `loadFile` reads back. The bytes themselves are modelled in Snapshot.
- **Snapshot** (in `MCEventLoops`; `MCSnapshot` for the violation run). Keys `a` and `aa`, values `a` and `a:`, and the file at start is absent or any dump of those. This is enough for:
  - two lines in key order;
  - a value holding the delimiter;
  - a key that is a prefix of another, so that a cut line could look like another key;
  - a torn file cut anywhere, including inside a key, at the `:`, inside a value, or before the `'\n'`;
  - a cut value saved again by the next run.
  - 1,395 states on its own; `MCEventLoops`, with the store, the snapshot, the event loops and the server lifecycle, has 96,693 and takes about 2 min. The violation run swaps `aa` for `a:`.
- **EventLoop** (in `MCEventLoops`; `MCEventLoop` for the violation run).
  - Setup: two other threads, at most 3 functors in all.
  - Two threads can both be between push and wakeup. A functor can queue another while `doPendingFunctors` runs.
- **TcpServer safety.**
  - Setup:
    - 2 clients, 2 I/O loops (they share no loop);
    - at most 3 requests per client (with the greeting, 4 responses);
    - a send buffer of 1 response, so output buffers form and write interest is switched on and off.
  - `ReadCap` 4 lets one read take everything, so the passing properties are not about the read cap; the violation run uses the same value. 1.36 M states, about 1.8 min.
- **TcpServer liveness** (in `MCProtocolPool`).
  - Setup: one client on one loop with the same sizes; 821 states.
  - Two clients make the liveness check of the full graph too slow. The properties are per connection, and connections interact only through the base loop's queue and the registry, which the safety run covers.

- **Buffer** (in `MCProtocolPool`). `kCheapPrepend` 2, `kInitialSize` 2, extrabuf 3, appends of 1 to 3 bytes, 8 bytes in all; 671 states. The sizes are scaled down together: with the writable space below extrabuf a readv can straddle the end of the buffer, and with 8 bytes makeSpace meets both its resize branch and its move branch, the latter with bytes left in front of `readerIndex_`. The real 64 KiB extrabuf is larger than `kInitialSize`, which is the same relation.
- **Codec** (in `MCProtocolPool`; `MCCodec` for the violation run). 8,254 buffers: a command word (PUT, put, GET, QUIT or none), two separators (space, tab-space, none), two arguments (`U`, `k`, `v v`, none), each of the five endings, then nothing, a bare LF or a second `GET k` line. This is enough for:
  - tokens glued together;
  - a key that is a letter of the command;
  - a value with inner spaces;
  - every terminator next to another;
  - incomplete last lines;
  - bytes after a QUIT.
- **ThreadPool** (in `MCProtocolPool`). Two workers, so both the notify-one choice among waiters and two workers racing for one task occur. Three tasks with a queue bound of 1, so `run()` blocks on `notFull_` at least twice and is woken by different workers. The latch ending and the immediate `stop()` ending are both explored.
- **BlockingQueue** (in `MCProtocolPool`). Two producers and two consumers with one call each, on either class, chosen in `Init`. With size 1 the second producer waits on `notFull_` and both consumers can wait on `notEmpty_`, so each `notify()` has a choice of waiter.  Symmetry is not used, because it is not sound for the liveness properties.
- **KVClient** (in `MCProtocolPool` with no long value; `MCKVClient` for the two violation runs, where `MCKVClientLong.cfg` makes `v2` a value longer than one `recv`). Two values, three REPL lines, and the key present or absent at start. Three lines are enough for a PUT that creates and one that updates, a GET, DEL, EXISTS or SIZE of either result, and the PUT usage error. The startup ping meets both arrival orders: the greeting alone, or the greeting and `+PONG` together. The session part has 10,053 states. The six models of `MCProtocolPool` together: 80,365 states in about 2.2 min (a spurious wakeup leads to states a notify reaches too).
- **EventLoopThread** (in `MCEventLoops`, beside EventLoop). Two I/O threads, so the pool's start loop and destructor loop each go round twice, and one loop can be mid-shutdown while the other is still starting. `conn` is chosen in `Init`, so shutdown is explored with no connection, one, or both. Its part has 1,762 states.
- **ServerLifecycle** (in `MCEventLoops`, and alone for the violation run). Two I/O threads and two keys. The data path is given or not, and the file at start is absent or any subset of the keys, so load, both saves (each may fail) and the empty start all occur. Two threads let one I/O thread still serve while the other is being joined; two keys let one PUT be acknowledged before the destructor's save and another after it. Alone: 63,942 states in about 8 s. `MCEventLoops` as a whole takes about a minute.

## Fairness

- **EventLoop.** Weak fairness is assumed on every step of the loop thread and on the other threads' wakeup write. A thread that has pushed a functor goes on to `wakeup()`: nothing in `queueInLoop` blocks.
  - There is no fairness on `PollTimeout` or on the other threads' submissions, so no property relies on the 10 s timeout.
- **TcpServer.**
  - Weak fairness on `HandleAccept`, `RemoveConnectionInLoop` and each loop's functor step: a loop that is not blocked handles what it was told about.
  - Weak fairness on `HandleEvent(c)`. It is written out as `EventFair(c)` because `ENABLED` of the dispatch is slow to evaluate.
  - Weak fairness on `PeerRecv`: clients read what they are sent.
  - There is no fairness on clients sending, connecting or closing.
  - Readiness is not re-raised by fairness: an edge the code consumed without acting on is gone. This is the point of the violation runs.

- **ThreadPool.** Weak fairness on every step of every thread. Each is a thread the OS keeps scheduling; weak fairness never wakes a waiter, because a thread in a waiting pc has no enabled step until a `notify` moves it. So a lost notification shows up as a `Terminates` violation, not as something fairness hides. Spurious wake-ups (`SpuriousWakeup`) are modelled, with no fairness, since nothing makes them happen: every wait of the code is in a `while` loop, and the run shows that a wakeup with no notify, at any wait and any time, breaks none of the properties.
- **BlockingQueue.** Weak fairness on each thread's step, for the same reason as ThreadPool: waiting threads have no enabled step until notified. `SpuriousWakeup` has no fairness here either.
- **KVClient.** No fairness and no liveness property: the client's one `recv` per command is answered because the server replies to every request, and the properties checked are invariants.
- **ServerLifecycle.** Weak fairness on main's steps and on each I/O thread's `Reply`, `RunDestroy` and exit, which run without waiting on anything outside the thread. None on `Signal`, on clients connecting or sending (`Accept`, `Handle`), since nothing forces a user or a peer to act.
- **EventLoopThread.** Weak fairness on the main thread and on each I/O thread. There is none on `PollTimeout`, so no property relies on the 10 s timeout; the lost quit loops through timeouts for ever anyway.

## Not modelled yet, and the plan

- **Replies split by the network.** `KVClient` cuts a reply in two only when it is a long value (the `client_long_reply` run). A short reply the network splits across segments would be cut the same way; the model delivers short lines whole.
- **Connection ids and errors.**
  - `nextConnId_` overflow and a duplicate connection name overwriting a live entry.
  - `EPOLLPRI`. An RST is not a separate action: epoll reports IN|ERR|HUP, `handleEventWithGuard` runs `handleError` (which logs, and whose `getsockopt(SO_ERROR)` clears the error) and then `handleRead`, whose `readv` returns the unread data or 0. So a reset behaves like the peer's FIN, including the `read_once` leak when data is still unread.
- **Requests after QUIT, on the store.** `send()` drops their replies by its `kConnected` guard, but they still run against the store; that would need the store composed with the connection.
- **Thread utilities.** `ThreadPool` with zero threads (tasks run inline), its init callback and destructor.
- **Buffer's unused operations.** `prepend`, `unwrite` and the Int32 helpers are not called by the server; `retrieveAsString`'s copy is the data the codec and `send` take, not modelled as bytes beyond `Content`.
- **MutexLock's holder_ bookkeeping and `Condition::waitForSeconds`.** `holder_` is read only by `isLockedByThisThread`/`assertLocked`, and the timed wait is called nowhere; nothing in the server depends on either.
- **Left out for good.** Logger, Timestamp, the socket and address wrappers, benchmarks, examples and tests. They are I/O, formatting or drivers.
