------------------------------ MODULE SkipList ------------------------------
(***************************************************************************)
(* The ordered index of src/src/storage/skiplist.h, SkipList<K, V>.        *)
(*                                                                         *)
(* Every public method of the class takes the single MutexLock mutex_ for *)
(* its whole body, so each one is one atomic step on the structure.  The  *)
(* module therefore defines each method as a pure operator from the       *)
(* structure before the call to the structure after it; the modules that  *)
(* use the index (KVStore) turn them into actions.                         *)
(*                                                                         *)
(* A node is identified by its key: the code creates a fresh Node for      *)
(* every insert of an absent key (createNode).  Nodes are held by         *)
(* shared_ptr, so a node no pointer reaches any more is destroyed at once *)
(* (Collect).  The header is the node Header.  The structure is the record *)
(*   fwd   : level -> node -> key or Nil  (Node::forward, header_ incl.)   *)
(*   lvl   : key -> tower height            (Node::nodeLevel)              *)
(*   val   : key -> value                   (Node::value)                  *)
(*   cur   : currentLevel_                                                 *)
(*   count : elementCount_                                                 *)
(***************************************************************************)
EXTENDS Integers, FiniteSets, Sequences

CONSTANTS
    Keys,       \* the keys, naturals so that K's operator< is <
    Vals,       \* the values
    MaxLevel,   \* maxLevel_ of the constructor
    Header,     \* the header node header_
    Nil,        \* nullptr
    NoVal       \* the default-constructed value of a fresh header node

ASSUME /\ Keys \subseteq Nat
       /\ MaxLevel \in Nat \ {0}
       /\ {Header, Nil, NoVal} \cap (Keys \cup Vals) = {}

Nodes  == {Header} \cup Keys
Levels == 0 .. MaxLevel          \* header_ is Node(maxLevel): forward has maxLevel+1 slots
(* Fault-injected variant: the loop of getRandomLevel() bounded by      *)
(* level < maxLevel_ instead of maxLevel_ - 1.                          *)
HeightsUnbounded == 0 .. MaxLevel

Heights == 0 .. MaxLevel - 1     \* the range of getRandomLevel()

(* The constructor: an empty header, currentLevel_ = 0, elementCount_ = 0. *)
Empty ==
    [fwd   |-> [i \in Levels |-> [n \in Nodes |-> Nil]],
     lvl   |-> [k \in Keys |-> 0],
     val   |-> [k \in Keys |-> NoVal],
     cur   |-> 0,
     count |-> 0]

(* The nodes reachable from the header along pointers of any level. *)
RECURSIVE ReachFrom(_, _)
ReachFrom(s, seen) ==
    LET next == seen \cup ({s.fwd[i][n] : i \in Levels, n \in seen} \ {Nil})
    IN  IF next = seen THEN seen ELSE ReachFrom(s, next)

(* Release every node the last shared_ptr to was just dropped. *)
Collect(s) ==
    LET live == ReachFrom(s, {Header}) IN
    [s EXCEPT !.fwd = [i \in Levels |-> [n \in Nodes |->
                          IF n \in live THEN s.fwd[i][n] ELSE Nil]],
              !.lvl = [k \in Keys |-> IF k \in live THEN s.lvl[k] ELSE 0],
              !.val = [k \in Keys |-> IF k \in live THEN s.val[k] ELSE NoVal]]

(* The inner while loop of the descent at level i: follow forward[i] as   *)
(* long as the next key is < key.  The bound stops a walk along a cycle,  *)
(* which only a corrupted structure has.                                  *)
RECURSIVE Advance(_, _, _, _, _)
Advance(s, from, i, key, bound) ==
    IF bound > 0 /\ s.fwd[i][from] # Nil /\ s.fwd[i][from] < key
    THEN Advance(s, s.fwd[i][from], i, key, bound - 1)
    ELSE from

(* update[i]: the node the descent from currentLevel_ down stops at on    *)
(* level i; levels above currentLevel_ start from the header.             *)
RECURSIVE PredAt(_, _, _)
PredAt(s, i, key) ==
    LET start == IF i >= s.cur THEN Header ELSE PredAt(s, i + 1, key)
    IN  IF i > s.cur THEN Header
        ELSE Advance(s, start, i, key, Cardinality(Keys) + 1)

Update(s, key) == [i \in Levels |-> PredAt(s, i, key)]

(* current = update[0]->forward[0] after the descent, and whether it      *)
(* holds key.                                                             *)
Found(s, key) ==
    LET c == s.fwd[0][PredAt(s, 0, key)] IN c # Nil /\ c = key

(* Fault-injected variant: insert() reporting a new key when it only    *)
(* overwrote the value of an existing one.                              *)
InsertHAlwaysNew(s, key, value, h) ==
    LET u == Update(s, key) IN
    IF Found(s, key)
    THEN <<[s EXCEPT !.val[key] = value], TRUE>>
    ELSE <<[s EXCEPT
              !.fwd = [i \in Levels |->
                         IF i <= h
                         THEN [s.fwd[i] EXCEPT ![u[i]] = key, ![key] = s.fwd[i][u[i]]]
                         ELSE [s.fwd[i] EXCEPT ![key] = Nil]],
              !.lvl[key] = h,
              !.val[key] = value,
              !.cur = IF h > s.cur THEN h ELSE s.cur,
              !.count = s.count + 1],
           TRUE>>

(* insert(key, value) with the tower height h drawn by getRandomLevel(). *)
(* The result is <<structure, returned bool>>.                            *)
InsertH(s, key, value, h) ==
    LET u == Update(s, key) IN
    IF Found(s, key)
    THEN <<[s EXCEPT !.val[key] = value], FALSE>>
    ELSE <<[s EXCEPT
              !.fwd = [i \in Levels |->
                         IF i <= h
                         THEN [s.fwd[i] EXCEPT ![u[i]] = key, ![key] = s.fwd[i][u[i]]]
                         ELSE [s.fwd[i] EXCEPT ![key] = Nil]],
              !.lvl[key] = h,
              !.val[key] = value,
              !.cur = IF h > s.cur THEN h ELSE s.cur,
              !.count = s.count + 1],
           TRUE>>

(* search(key, value): <<found, value>>. *)
Search(s, key) ==
    IF Found(s, key) THEN <<TRUE, s.val[key]>> ELSE <<FALSE, NoVal>>

(* The levels remove() unlinks: 0 .. j for the first j whose update[j]    *)
(* no longer points at the removed node (the break of the loop).          *)
Unlinked(s, key) ==
    LET u == Update(s, key) IN
    {i \in 0 .. s.cur : \A j \in 0 .. i : s.fwd[j][u[j]] = key}

(* Fault-injected variant: remove() without the loop lowering          *)
(* currentLevel_.                                                       *)
LoweredLevelKept(fwd, from) == from

(* The while loop that lowers currentLevel_ after an unlink: the highest  *)
(* level at or below the old one whose header pointer is set, or 0.       *)
LoweredLevel(fwd, from) ==
    CHOOSE l \in 0 .. from :
        /\ l = 0 \/ fwd[l][Header] # Nil
        /\ \A m \in l + 1 .. from : fwd[m][Header] = Nil

(* remove(key): <<structure, returned bool>>. *)
Remove(s, key) ==
    LET u   == Update(s, key)
        un  == Unlinked(s, key)
        fwd == [i \in Levels |->
                  IF i \in un THEN [s.fwd[i] EXCEPT ![u[i]] = s.fwd[i][key]]
                  ELSE s.fwd[i]]
    IN  IF ~Found(s, key)
        THEN <<s, FALSE>>
        ELSE <<Collect([s EXCEPT !.fwd = fwd,
                                 !.cur = LoweredLevel(fwd, s.cur),
                                 !.count = s.count - 1]), TRUE>>

(* clear(): reset the header pointers up to currentLevel_ and the counters. *)
Clear(s) ==
    Collect([s EXCEPT !.fwd = [i \in Levels |->
                         IF i <= s.cur THEN [s.fwd[i] EXCEPT ![Header] = Nil]
                         ELSE s.fwd[i]],
              !.cur = 0,
              !.count = 0])

(* The nodes reached from the header along forward[i], in order; the     *)
(* bound cuts a cycle short.                                               *)
RECURSIVE ChainFrom(_, _, _, _)
ChainFrom(s, i, n, bound) ==
    IF bound = 0 \/ s.fwd[i][n] = Nil THEN <<>>
    ELSE <<s.fwd[i][n]>> \o ChainFrom(s, i, s.fwd[i][n], bound - 1)

Chain(s, i) == ChainFrom(s, i, Header, Cardinality(Keys) + 1)

ChainSet(s, i) == LET c == Chain(s, i) IN {c[j] : j \in 1 .. Len(c)}

(* dumpFile(): the level-0 walk written as key:value lines, in order. *)
Dump(s) == LET c == Chain(s, 0) IN [j \in 1 .. Len(c) |-> <<c[j], s.val[c[j]]>>]

(* loadFile() after the lines are parsed: insert every pair in file order, *)
(* each with its own drawn height hs[j].                                   *)
RECURSIVE InsertAll(_, _, _, _)
InsertAll(s, lines, hs, j) ==
    IF j > Len(lines) THEN s
    ELSE InsertAll(InsertH(s, lines[j][1], lines[j][2], hs[j])[1], lines, hs, j + 1)

(* The nodes of the level-0 list, as a set: ChainSet(s, 0), walked        *)
(* without building the sequence, since the refinement evaluates it at   *)
(* every step.                                                            *)
RECURSIVE Level0From(_, _, _)
Level0From(s, n, bound) ==
    IF bound = 0 \/ s.fwd[0][n] = Nil THEN {}
    ELSE {s.fwd[0][n]} \cup Level0From(s, s.fwd[0][n], bound - 1)

(* The key -> value map the structure represents: the level-0 list. *)
Contents(s) == LET live == Level0From(s, Header, Cardinality(Keys) + 1) IN
               [k \in Keys |-> IF k \in live THEN s.val[k] ELSE NoVal]

=============================================================================
