\* The event loop's wake-up protocol, the I/O threads' start-up and
\* shutdown handshakes, the server process from main() to exit, and the
\* store with its snapshot file.
CONSTANTS
    Threads = {t1, t2}
    MaxTasks <- MCMaxTasks
    k1 = k1
    k2 = k2
    nofile = nofile
    freed = freed
    v1 = v1
    v2 = v2
    header = header
    nil = nil
    noval = noval
SPECIFICATION LoopsSpec
\* The processes end once every I/O thread is joined; the storage parts
\* can always take a step.
CHECK_DEADLOCK FALSE
INVARIANT TypeOK
INVARIANT NoLostWakeup
INVARIANT ThreadTypeOK
INVARIANT ServerTypeOK
INVARIANT AckedBeforeDtorSaved
PROPERTY QueuedFunctorsRun
PROPERTY QuitAfterStartObserved
PROPERTY StartReturns
PROPERTY ShutdownCompletesUnlessQuitEarly
PROPERTY QuitWhileLoopingEnds
INVARIANT StoreTypeOK
INVARIANT WellFormed
INVARIANT SnapshotTypeOK
PROPERTY ImplementsKVMap
PROPERTY RoundTrip
PROPERTY TornLoadsNothingForeign
