\* Request framing as spec.md 4.8 and 6.1 state it, and a client session
\* that prints each command's own reply; the thread pool and the blocking
\* queues; one connection's server side; a connection's Buffer.
CONSTANTS
    Buffers <- MCBuffers
    Upper <- MCUpper
    v1 = v1
    v2 = v2
    none = none
    w1 = w1
    w2 = w2
    main = main
    p1 = p1
    p2 = p2
    c1 = c1
    c2 = c2
    garbage = garbage
    t1 = t1
SPECIFICATION ProtocolSpec
\* A parse ends once the buffer is consumed, a session once main() returns,
\* the pool once its owner joined the workers, a queue call once it returned,
\* a connection once it is destroyed and its client has read everything.
CHECK_DEADLOCK FALSE
INVARIANT CodecTypeOK
INVARIANT RequestFraming
INVARIANT ClientTypeOK
INVARIANT ShowsOwnReply
INVARIANT PoolTypeOK
INVARIANT LatchedAllRan
INVARIANT QueueTypeOK
INVARIANT ExactlyOnce
PROPERTY Terminates
PROPERTY AllReturn
PROPERTY OutputDrains
PROPERTY QuitHalfCloses
PROPERTY ClosedConnectionReleased
INVARIANT BufferTypeOK
INVARIANT IndicesOrdered
PROPERTY ImplementsByteQueue
