------------------------------ MODULE ByteQueue -----------------------------
(***************************************************************************)
(* What a Buffer promises its users (TcpConnection's inputBuffer_ and      *)
(* outputBuffer_, the codec): the readable bytes are a FIFO queue.  Bytes  *)
(* written at the back (readFd, append) are read and retrieved from the    *)
(* front, none lost, none duplicated, none reordered.  Every byte is      *)
(* named by its number in the stream, so the queue holds exactly the      *)
(* numbers not yet retrieved, in order.                                   *)
(***************************************************************************)
EXTENDS Naturals, Sequences

CONSTANT MaxPut     \* the most bytes one step writes

VARIABLES
    content,    \* the readable bytes, front first
    next        \* the number the next byte written gets

vars == <<content, next>>

Init == content = <<>> /\ next = 1

(* n fresh bytes join the back of the queue. *)
Put(n) ==
    /\ content' = content \o [i \in 1 .. n |-> next + i - 1]
    /\ next' = next + n

(* n bytes leave the front. *)
Take(n) ==
    /\ n <= Len(content)
    /\ content' = SubSeq(content, n + 1, Len(content))
    /\ UNCHANGED next

Next == \E n \in 1 .. MaxPut : Put(n) \/ Take(n)

Spec == Init /\ [][Next]_vars

=============================================================================
