------------------------------ MODULE Snapshot ------------------------------
(***************************************************************************)
(* The snapshot file of the store as bytes: SkipList::dumpFile writes the  *)
(* level-0 list as key ':' value '\n' lines, SkipList::loadFile reads it   *)
(* back with std::getline and parseString (split at the first ':'), and   *)
(* KVStore::save/load wrap them; main() loads at start and saves at the   *)
(* end, while the I/O threads may still put.                               *)
(*                                                                         *)
(* Strings are sequences of byte codes.  The store is the key -> value    *)
(* map the skip list represents (KVStore refines KVMap, run              *)
(* kvstore_skiplist), dumped in the list's order, std::string's operator<.*)
(* The process may die at any point, in particular inside dumpFile after  *)
(* the std::ofstream has truncated the file: what reaches the disk is then *)
(* a prefix of the text.                                                   *)
(***************************************************************************)
EXTENDS Integers, Sequences, SequencesExt

CONSTANTS
    Keys,       \* keys the store may hold, nonempty byte strings
    Vals,       \* values, byte strings without '\n'
    NoFile      \* the data file does not exist

Colon == 58     \* kDelimiter
LF    == 10

ASSUME /\ \A k \in Keys : k # <<>> /\ LF \notin ToSet(k)
       /\ \A v \in Vals : LF \notin ToSet(v)

Maps == UNION {[D -> Vals] : D \in SUBSET Keys}
EmptyMap == [k \in {} |-> <<>>]

VARIABLES
    store,      \* the contents of skiplist_
    file,       \* the bytes of the data file, or NoFile
    up,         \* the server process is running
    attempt,    \* history: the map the last dumpFile wrote
    complete    \* history: that dumpFile finished

vars == <<store, file, up, attempt, complete>>

(* std::string operator<: bytewise lexicographic order. *)
RECURSIVE Less(_, _)
Less(s, t) ==
    IF t = <<>> THEN FALSE
    ELSE IF s = <<>> THEN TRUE
    ELSE IF Head(s) # Head(t) THEN Head(s) < Head(t)
    ELSE Less(Tail(s), Tail(t))

(* Fault-injected variant: dumpFile with the lines not terminated. *)
EncodeNoNewline(m) ==
    LET ks == SetToSortSeq(DOMAIN m, Less)
    IN  FlattenSeq([i \in 1 .. Len(ks) |-> ks[i] \o <<Colon>> \o m[ks[i]]])

(* dumpFile: every node of level 0 in order, key ':' value '\n'. *)
Encode(m) ==
    LET ks == SetToSortSeq(DOMAIN m, Less)
    IN  FlattenSeq([i \in 1 .. Len(ks) |-> ks[i] \o <<Colon>> \o m[ks[i]] \o <<LF>>])

(* Fault-injected variant: the line handed on with its '\n'. *)
RECURSIVE LinesKeepLF(_)
LinesKeepLF(t) ==
    IF t = <<>> THEN <<>>
    ELSE LET i == SelectInSeq(t, LAMBDA c : c = LF) IN
         IF i = 0 THEN <<t>>
         ELSE <<SubSeq(t, 1, i)>> \o LinesKeepLF(SubSeq(t, i + 1, Len(t)))

(* std::getline over the whole file: lines end at '\n', and a last line   *)
(* without one is still returned.                                          *)
RECURSIVE Lines(_)
Lines(t) ==
    IF t = <<>> THEN <<>>
    ELSE LET i == SelectInSeq(t, LAMBDA c : c = LF) IN
         IF i = 0 THEN <<t>>
         ELSE <<SubSeq(t, 1, i - 1)>> \o Lines(SubSeq(t, i + 1, Len(t)))

(* Fault-injected variant: parseString splitting at the last ':'. *)
ParseLineLast(line) ==
    LET pos == SelectLastInSeq(line, LAMBDA c : c = Colon) IN
    IF line = <<>> \/ pos = 0 \/ pos = 1 THEN {}
    ELSE {<<SubSeq(line, 1, pos - 1), SubSeq(line, pos + 1, Len(line))>>}

(* parseString: nothing for an empty line, a line without ':' or an empty *)
(* key; else the pair split at the first ':'.                              *)
ParseLine(line) ==
    LET pos == SelectInSeq(line, LAMBDA c : c = Colon) IN
    IF line = <<>> \/ pos = 0 \/ pos = 1 THEN {}
    ELSE {<<SubSeq(line, 1, pos - 1), SubSeq(line, pos + 1, Len(line))>>}

(* KVStore::load: clear(), then loadFile: the pairs of all lines inserted *)
(* in file order, a later line overwriting an earlier key; no file loads  *)
(* nothing.                                                                *)
Load(f) ==
    IF f = NoFile THEN EmptyMap
    ELSE LET ls == Lines(f)
             ins(m, line) == IF ParseLine(line) = {} THEN m
                             ELSE LET p == CHOOSE p \in ParseLine(line) : TRUE
                                  IN  (p[1] :> p[2]) @@ m
         IN  FoldLeft(ins, EmptyMap, ls)

Init ==
    /\ file \in {NoFile} \cup {Encode(m) : m \in Maps}
    /\ store = EmptyMap
    /\ up = FALSE
    /\ attempt = IF file = NoFile THEN EmptyMap
                 ELSE CHOOSE m \in Maps : Encode(m) = file
    /\ complete = TRUE

(* main(): the server is built and loadData runs on the data file. *)
Boot ==
    /\ ~up
    /\ up' = TRUE
    /\ store' = Load(file)
    /\ UNCHANGED <<file, attempt, complete>>

(* KVStore::put, from a PUT on any I/O thread. *)
Put(k, v) ==
    /\ up
    /\ store' = (k :> v) @@ store
    /\ UNCHANGED <<file, up, attempt, complete>>

(* KVStore::del of a present key. *)
Del(k) ==
    /\ up
    /\ k \in DOMAIN store
    /\ store' = [x \in DOMAIN store \ {k} |-> store[x]]
    /\ UNCHANGED <<file, up, attempt, complete>>

(* KVStore::save (main's saveData or ~KVServer): dumpFile writes the     *)
(* whole text, or the ofstream does not open and nothing changes.       *)
Save ==
    /\ up
    /\ \/ /\ file' = Encode(store)
          /\ attempt' = store
          /\ complete' = TRUE
       \/ UNCHANGED <<file, attempt, complete>>
    /\ UNCHANGED <<store, up>>

(* The process dies inside dumpFile: the file was truncated on open and *)
(* only a proper prefix of the text reached it.                          *)
TornSave ==
    /\ up
    /\ \E p \in Prefixes(Encode(store)) \ {Encode(store)} : file' = p
    /\ attempt' = store
    /\ complete' = FALSE
    /\ up' = FALSE
    /\ store' = EmptyMap

(* The process ends (return from main, or a crash outside dumpFile). *)
Exit ==
    /\ up
    /\ up' = FALSE
    /\ store' = EmptyMap
    /\ UNCHANGED <<file, attempt, complete>>

Next ==
    \/ Boot \/ Save \/ TornSave \/ Exit
    \/ \E k \in Keys, v \in Vals : Put(k, v)
    \/ \E k \in Keys : Del(k)

Spec == Init /\ [][Next]_vars

-----------------------------------------------------------------------------
(* The snapshot state has its types; a torn line can load a value cut   *)
(* short, which a later save writes again, so the maps hold byte strings; *)
(* getline never leaves a '\n' in them.                                   *)
Line == Seq((0 .. 255) \ {LF})
ByteMap(m) == \A k \in DOMAIN m : k \in Line /\ m[k] \in Line

TypeOK ==
    /\ ByteMap(store) /\ ByteMap(attempt)
    /\ file = NoFile \/ file \in Seq(0 .. 255)
    /\ up \in BOOLEAN /\ complete \in BOOLEAN

(* spec.md 8: dumpFile(p) then loadFile(p) gives the same keys and values. *)
(* At every start whose data file was last written by a dumpFile that     *)
(* finished, load restores exactly the map that was dumped.               *)
RoundTrip ==
    [][(~up /\ up' /\ complete) => store' = attempt]_vars

(* A start after a crash inside dumpFile loads no key the interrupted    *)
(* dump did not hold, and each loaded value is a prefix of the dumped   *)
(* one: the torn last line is either dropped or cut, never read as       *)
(* another key.                                                          *)
TornLoadsNothingForeign ==
    [][(~up /\ up') =>
         \A k \in DOMAIN store' :
            k \in DOMAIN attempt /\ IsPrefix(store'[k], attempt[k])]_vars

=============================================================================
