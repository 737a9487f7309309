------------------------------ MODULE KVStore -------------------------------
(***************************************************************************)
(* KVStore (src/src/storage/kvstore.cpp) over the SkipList index, driven   *)
(* the way src/src/server/main.cpp drives it: the data file is loaded at   *)
(* start, requests are served, the store is saved when the main loop has   *)
(* returned, and a new process starts again from an empty store.           *)
(*                                                                         *)
(* Each operation is one step: every SkipList method it calls holds the    *)
(* index mutex for its whole body, and KVStore adds only the empty-key     *)
(* check before the call.  loadFile() takes the lock once per inserted     *)
(* pair, but it runs before the server starts, when nothing else touches   *)
(* the store, so Boot is one step too.                                     *)
(*                                                                         *)
(* The snapshot file is the sequence of (key, value) lines dumpFile()      *)
(* writes.  Keys here stand for keys without the delimiter ':', for which  *)
(* writing "key:value" and splitting at the first ':' gives the pair back; *)
(* the text-level conversion, colons included, is the Snapshot module.    *)
(***************************************************************************)
EXTENDS SkipList

CONSTANTS
    EmptyKey,   \* the empty std::string, ordered below every other key
    NoFile      \* no data file on disk, or one that cannot be opened

ASSUME /\ EmptyKey \in Nat \ Keys
       /\ \A k \in Keys : EmptyKey < k

VARIABLES
    sl,      \* the SkipList<std::string, std::string> skiplist_
    file,    \* the data file: a sequence of <<key, value>> lines, or NoFile
    ret,     \* what the last operation returned
    phase    \* where main() is: "boot", "serving" or "stopped"

vars == <<sl, file, ret, phase>>

Lines == Seq(Keys \X Vals)

(* The file as the map loadFile() rebuilds from it: later lines win. *)
FileMap(f) ==
    IF f = NoFile THEN NoFile
    ELSE [k \in Keys |->
            IF \E j \in 1 .. Len(f) : f[j][1] = k
            THEN f[CHOOSE j \in 1 .. Len(f) :
                      f[j][1] = k /\ \A m \in j + 1 .. Len(f) : f[m][1] # k][2]
            ELSE NoVal]

(* The abstract map this store is shown to implement, and its result    *)
(* constructors.                                                         *)
A == INSTANCE KVMap WITH map <- Contents(sl), file <- FileMap(file), ret <- ret

Init ==
    /\ sl = Empty
    /\ file = NoFile
    /\ ret = A!BoolRet(FALSE)
    /\ phase = "boot"

Serving == phase = "serving"

(* KVStore::put: refuse the empty key, else SkipList::insert with a     *)
(* height drawn by getRandomLevel().                                     *)
Put(k, v) ==
    /\ Serving
    /\ IF k = EmptyKey
       THEN /\ ret' = A!BoolRet(FALSE)
            /\ UNCHANGED sl
       ELSE \E h \in Heights :
               LET r == InsertH(sl, k, v, h) IN
               /\ sl' = r[1]
               /\ ret' = A!BoolRet(r[2])
    /\ UNCHANGED <<file, phase>>

(* KVStore::get: the empty key is never found. *)
Get(k) ==
    /\ Serving
    /\ ret' = IF k = EmptyKey THEN A!GetRet(FALSE, NoVal)
                                ELSE A!GetRet(Search(sl, k)[1], Search(sl, k)[2])
    /\ UNCHANGED <<sl, file, phase>>

(* KVStore::del *)
Del(k) ==
    /\ Serving
    /\ IF k = EmptyKey
       THEN /\ ret' = A!BoolRet(FALSE)
            /\ UNCHANGED sl
       ELSE LET r == Remove(sl, k) IN
            /\ sl' = r[1]
            /\ ret' = A!BoolRet(r[2])
    /\ UNCHANGED <<file, phase>>

(* KVStore::exists -> SkipList::contains -> search *)
Exists(k) ==
    /\ Serving
    /\ ret' = A!BoolRet(k # EmptyKey /\ Search(sl, k)[1])
    /\ UNCHANGED <<sl, file, phase>>

(* KVStore::size -> SkipList::size *)
Size ==
    /\ Serving
    /\ ret' = A!SizeRet(sl.count)
    /\ UNCHANGED <<sl, file, phase>>

(* KVStore::clear -> SkipList::clear *)
ClearStore ==
    /\ Serving
    /\ sl' = Clear(sl)
    /\ UNCHANGED <<file, ret, phase>>

(* main(): loadData(dataFile) before server.start().  KVStore::load     *)
(* clears, then loadFile either fails to open the file (store left       *)
(* empty) or inserts every parsed line in order.                          *)
Boot ==
    /\ phase = "boot"
    /\ IF file = NoFile
       THEN /\ sl' = Clear(sl)
            /\ ret' = A!BoolRet(FALSE)
       ELSE \E hs \in [1 .. Len(file) -> Heights] :
               /\ sl' = InsertAll(Clear(sl), file, hs, 1)
               /\ ret' = A!BoolRet(TRUE)
    /\ phase' = "serving"
    /\ UNCHANGED file

(* main(): after loop.loop() returns, saveData(dataFile) -> dumpFile,    *)
(* which writes the level-0 list or fails to open the file.              *)
Stop ==
    /\ Serving
    /\ \/ /\ file' = Dump(sl)
          /\ ret' = A!BoolRet(TRUE)
       \/ /\ ret' = A!BoolRet(FALSE)
          /\ UNCHANGED file
    /\ phase' = "stopped"
    /\ UNCHANGED sl

(* The process is started again: a fresh SkipList. *)
Restart ==
    /\ phase = "stopped"
    /\ sl' = Empty
    /\ phase' = "boot"
    /\ UNCHANGED <<file, ret>>

Next ==
    \/ \E k \in Keys \cup {EmptyKey} :
          \/ \E v \in Vals : Put(k, v)
          \/ Get(k) \/ Del(k) \/ Exists(k)
    \/ Size \/ ClearStore \/ Boot \/ Stop \/ Restart

Spec == Init /\ [][Next]_vars

-----------------------------------------------------------------------------
(* Type invariant. *)
TypeOK ==
    /\ sl.fwd \in [Levels -> [Nodes -> Keys \cup {Nil}]]
    /\ sl.lvl \in [Keys -> 0 .. MaxLevel - 1]
    /\ sl.val \in [Keys -> Vals \cup {NoVal}]
    /\ sl.cur \in 0 .. MaxLevel - 1
    /\ sl.count \in 0 .. Cardinality(Keys)
    /\ file \in Lines \cup {NoFile}
    /\ phase \in {"boot", "serving", "stopped"}

(* The skip-list invariants of spec.md 3.5 and 8, which insert, remove    *)
(* and clear must keep between them: every level is a strictly ascending  *)
(* chain ending in nullptr, each level is contained in the one below it,  *)
(* a node only appears on levels its forward array has (nodeLevel),       *)
(* currentLevel_ is the highest level whose header pointer is set, the    *)
(* header has no pointer above it, and elementCount_ is the length of the *)
(* level-0 list.                                                          *)
WellFormed ==
    /\ \A i \in Levels :
          LET c == Chain(sl, i) IN
          /\ \A j \in 1 .. Len(c) - 1 : c[j] < c[j + 1]
          /\ Len(c) = 0 \/ sl.fwd[i][c[Len(c)]] = Nil
          /\ \A j \in 1 .. Len(c) : sl.lvl[c[j]] >= i
    /\ \A i \in 1 .. MaxLevel : ChainSet(sl, i) \subseteq ChainSet(sl, i - 1)
    /\ sl.fwd[sl.cur][Header] # Nil \/ sl.cur = 0
    /\ \A i \in sl.cur + 1 .. MaxLevel : sl.fwd[i][Header] = Nil
    /\ sl.count = Len(Chain(sl, 0))

(* The store implements KVMap: the contents of the level-0 list, the     *)
(* file as loadFile() reads it and every returned value behave as the    *)
(* abstract map says (put returns TRUE exactly for a new key, get finds  *)
(* the last value put, size counts the keys, a reload restores the saved *)
(* contents).                                                             *)
ImplementsKVMap == A!Spec

=============================================================================
