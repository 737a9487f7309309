CONSTANT NumLoops <- MCNumLoops
SPECIFICATION Spec
\* The process ends once every I/O thread is joined.
CHECK_DEADLOCK FALSE
INVARIANT ConnectionsTornDown
