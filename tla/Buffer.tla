------------------------------- MODULE Buffer -------------------------------
(***************************************************************************)
(* The index arithmetic of src/src/net/buffer.h and buffer.cpp: a          *)
(* std::vector<char> buffer_ with readerIndex_ and writerIndex_,           *)
(*   0 <= kCheapPrepend <= readerIndex_ <= writerIndex_ <= size(),         *)
(* grown by makeSpace (resize, or move the readable bytes back to          *)
(* kCheapPrepend), filled by readFd (readv into the writable space and a  *)
(* stack extrabuf, the overflow appended) and append, emptied by retrieve *)
(* and retrieveAll.  These are called as TcpConnection uses its two       *)
(* buffers: readFd in handleRead, retrieve by Codec::parseRequest, append *)
(* in sendInLoop, retrieve(n) after writeFd in handleWrite, retrieveAll   *)
(* in send of a Buffer.  The sizes are scaled down constants.                *)
(*                                                                         *)
(* Each byte written is its number in the stream (ByteQueue), so the      *)
(* refinement below sees any byte lost, duplicated or reordered.  The     *)
(* vector's other cells hold what was last stored there; resize fills     *)
(* new cells with 0.                                                       *)
(***************************************************************************)
EXTENDS Naturals, Sequences

CONSTANTS
    CheapPrepend,   \* kCheapPrepend
    InitialSize,    \* kInitialSize
    ExtraSize,      \* sizeof(extrabuf) in readFd
    MaxChunk,       \* the longest message sendInLoop appends
    MaxBytes        \* bytes written in all, a bound for the model

ASSUME /\ CheapPrepend \in Nat \ {0} /\ InitialSize \in Nat
       /\ ExtraSize \in Nat \ {0} /\ MaxChunk \in Nat \ {0}
       /\ MaxBytes \in Nat

VARIABLES
    buf,    \* [mem : 0 .. size - 1 -> byte, size, rd, wr]
    next    \* the number of the next byte the peer or the server produces

vars == <<buf, next>>

Readable(b) == b.wr - b.rd                      \* readableBytes()
Writable(b) == b.size - b.wr                    \* writableBytes()

(* The cells at .. at + Len(s) - 1 overwritten by s (std::copy). *)
Store(m, at, s) == [i \in DOMAIN m |-> IF at <= i /\ i < at + Len(s) THEN s[i - at + 1] ELSE m[i]]

(* Fault-injected variant: one cell too many. *)
ResizeOneMore(m, n) == [i \in 0 .. n |-> IF i \in DOMAIN m THEN m[i] ELSE 0]

(* std::vector::resize: kept cells, new cells zero. *)
Resize(m, n) == [i \in 0 .. n - 1 |-> IF i \in DOMAIN m THEN m[i] ELSE 0]

(* Fault-injected variant: the room in front counted without keeping  *)
(* kCheapPrepend free.                                                   *)
MakeSpaceNoPrepend(b, len) ==
    IF Writable(b) + b.rd < len
    THEN [b EXCEPT !.mem = Resize(b.mem, b.wr + len), !.size = b.wr + len]
    ELSE LET r == Readable(b) IN
         [b EXCEPT !.mem = Store(b.mem, CheapPrepend, [i \in 1 .. r |-> b.mem[b.rd + i - 1]]),
                   !.rd = CheapPrepend, !.wr = CheapPrepend + r]

(* makeSpace: grow to writerIndex_ + len when even the free space in      *)
(* front cannot make room; else move the readable bytes to kCheapPrepend. *)
MakeSpace(b, len) ==
    IF Writable(b) + b.rd < len + CheapPrepend
    THEN [b EXCEPT !.mem = Resize(b.mem, b.wr + len), !.size = b.wr + len]
    ELSE LET r == Readable(b) IN
         [b EXCEPT !.mem = Store(b.mem, CheapPrepend, [i \in 1 .. r |-> b.mem[b.rd + i - 1]]),
                   !.rd = CheapPrepend, !.wr = CheapPrepend + r]

(* ensureWritableBytes, std::copy and hasWritten. *)
AppendBytes(b, s) ==
    LET b1 == IF Writable(b) < Len(s) THEN MakeSpace(b, Len(s)) ELSE b
    IN  [b1 EXCEPT !.mem = Store(b1.mem, b1.wr, s), !.wr = b1.wr + Len(s)]

(* retrieveAll *)
RetrieveAllOf(b) == [b EXCEPT !.rd = CheapPrepend, !.wr = CheapPrepend]

(* retrieve: advance readerIndex_, or reset both indices when everything  *)
(* readable goes.                                                          *)
RetrieveOf(b, len) == IF len < Readable(b) THEN [b EXCEPT !.rd = b.rd + len] ELSE RetrieveAllOf(b)

(* How much one readv can return: the writable space, plus extrabuf when *)
(* the writable space is smaller than it (iovcnt 2).                     *)
ReadCap(b) == Writable(b) + (IF Writable(b) < ExtraSize THEN ExtraSize ELSE 0)

(* Fault-injected variant: the whole read appended after filling the    *)
(* writable space.                                                        *)
ReadFdAppendAll(b, s) ==
    LET w == Writable(b) IN
    IF Len(s) <= w THEN [b EXCEPT !.mem = Store(b.mem, b.wr, s), !.wr = b.wr + Len(s)]
    ELSE AppendBytes([b EXCEPT !.mem = Store(b.mem, b.wr, SubSeq(s, 1, w)), !.wr = b.size], s)

(* readFd after readv returned the bytes s: all in the writable space, or *)
(* writerIndex_ = size() and the rest appended from extrabuf.              *)
ReadFdOf(b, s) ==
    LET w == Writable(b) IN
    IF Len(s) <= w THEN [b EXCEPT !.mem = Store(b.mem, b.wr, s), !.wr = b.wr + Len(s)]
    ELSE AppendBytes([b EXCEPT !.mem = Store(b.mem, b.wr, SubSeq(s, 1, w)), !.wr = b.size],
                     SubSeq(s, w + 1, Len(s)))

Fresh(n) == [i \in 1 .. n |-> next + i - 1]

Init ==
    /\ buf = [mem |-> [i \in 0 .. CheapPrepend + InitialSize - 1 |-> 0],
              size |-> CheapPrepend + InitialSize,
              rd |-> CheapPrepend, wr |-> CheapPrepend]
    /\ next = 1

(* handleRead: readv returns n > 0 bytes (0 is end of stream and an error *)
(* leaves the buffer alone).                                              *)
ReadFd(n) ==
    /\ n <= ReadCap(buf) /\ next + n - 1 <= MaxBytes
    /\ buf' = ReadFdOf(buf, Fresh(n))
    /\ next' = next + n

(* sendInLoop: the part of a response the socket did not take. *)
AppendData(n) ==
    /\ next + n - 1 <= MaxBytes
    /\ buf' = AppendBytes(buf, Fresh(n))
    /\ next' = next + n

(* Codec::parseRequest's retrieve(bytesToSkip), or handleWrite's          *)
(* retrieve(n) after writeFd wrote n bytes: never more than is readable.  *)
Retrieve(n) ==
    /\ n <= Readable(buf)
    /\ buf' = RetrieveOf(buf, n)
    /\ UNCHANGED next

(* send of a Buffer: retrieveAll after the readable bytes were sent. *)
RetrieveAll ==
    /\ buf' = RetrieveAllOf(buf)
    /\ UNCHANGED next

Next ==
    \/ \E n \in 1 .. MaxBytes : ReadFd(n) \/ Retrieve(n)
    \/ \E n \in 1 .. MaxChunk : AppendData(n)
    \/ RetrieveAll

Spec == Init /\ [][Next]_vars

-----------------------------------------------------------------------------
(* The readable bytes, front first: peek() .. beginWrite(). *)
Content == [i \in 1 .. Readable(buf) |-> buf.mem[buf.rd + i - 1]]

Q == INSTANCE ByteQueue WITH content <- Content, next <- next, MaxPut <- MaxBytes

(* Buffer's type invariant. *)
TypeOK ==
    /\ buf.size \in Nat /\ buf.rd \in Nat /\ buf.wr \in Nat
    /\ DOMAIN buf.mem = 0 .. buf.size - 1
    /\ next \in 1 .. MaxBytes + 1

(* The layout of buffer.h's comment, with the prepend area never eaten:  *)
(* kCheapPrepend <= readerIndex_ <= writerIndex_ <= size(), whatever      *)
(* makeSpace, readFd's extrabuf path and retrieve did before.             *)
IndicesOrdered == CheapPrepend <= buf.rd /\ buf.rd <= buf.wr /\ buf.wr <= buf.size

(* The buffer is the FIFO byte queue of ByteQueue: every byte readFd or  *)
(* append wrote is readable until retrieved, in order, exactly once.     *)
ImplementsByteQueue == Q!Spec

=============================================================================
