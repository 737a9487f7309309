------------------------------- MODULE KVMap --------------------------------
(***************************************************************************)
(* What the key/value store promises (spec.md 4.9, 8), stated on a plain  *)
(* map from keys to values.  This is the abstract specification that the  *)
(* skip-list based KVStore module is shown to implement.                   *)
(*                                                                         *)
(*   map  : the current contents, NoVal for an absent key                  *)
(*   file : the contents of the snapshot file, or NoFile                   *)
(*   ret  : the result returned by the last operation that returns one     *)
(***************************************************************************)
EXTENDS Integers, FiniteSets

CONSTANTS Keys, Vals, EmptyKey, NoVal, NoFile

VARIABLES map, file, ret

vars == <<map, file, ret>>

Maps == [Keys -> Vals \cup {NoVal}]
EmptyMap == [k \in Keys |-> NoVal]
Present(k) == k # EmptyKey /\ map[k] # NoVal

(* The results the operations return, all of one record type: a bool, *)
(* the value get() writes to its out-parameter, and size().             *)
BoolRet(b)   == [ok |-> b, val |-> NoVal, size |-> 0]
GetRet(b, v) == [ok |-> b, val |-> v, size |-> 0]
SizeRet(n)   == [ok |-> TRUE, val |-> NoVal, size |-> n]

Init ==
    /\ map = EmptyMap
    /\ file = NoFile
    /\ ret = BoolRet(FALSE)

(* put refuses the empty key; otherwise it reports whether k was new. *)
Put(k, v) ==
    IF k = EmptyKey
    THEN /\ ret' = BoolRet(FALSE)
         /\ UNCHANGED <<map, file>>
    ELSE /\ ret' = BoolRet(map[k] = NoVal)
         /\ map' = [map EXCEPT ![k] = v]
         /\ UNCHANGED file

Get(k) ==
    /\ ret' = IF Present(k) THEN GetRet(TRUE, map[k]) ELSE GetRet(FALSE, NoVal)
    /\ UNCHANGED <<map, file>>

Del(k) ==
    /\ ret' = BoolRet(Present(k))
    /\ map' = IF Present(k) THEN [map EXCEPT ![k] = NoVal] ELSE map
    /\ UNCHANGED file

Exists(k) ==
    /\ ret' = BoolRet(Present(k))
    /\ UNCHANGED <<map, file>>

Size ==
    /\ ret' = SizeRet(Cardinality({k \in Keys : map[k] # NoVal}))
    /\ UNCHANGED <<map, file>>

Clear ==
    /\ map' = EmptyMap
    /\ UNCHANGED <<file, ret>>

(* A save either writes the whole map or fails and leaves the file. *)
Save ==
    \/ /\ file' = map
       /\ ret' = BoolRet(TRUE)
       /\ UNCHANGED map
    \/ /\ ret' = BoolRet(FALSE)
       /\ UNCHANGED <<map, file>>

(* A load replaces the contents by the file, or empties them if there is *)
(* no file.                                                               *)
Load ==
    /\ map' = IF file = NoFile THEN EmptyMap ELSE file
    /\ ret' = BoolRet(file # NoFile)
    /\ UNCHANGED file

(* A new process starts with an empty store. *)
Restart ==
    /\ map' = EmptyMap
    /\ UNCHANGED <<file, ret>>

Next ==
    \/ \E k \in Keys \cup {EmptyKey} :
          \/ \E v \in Vals : Put(k, v)
          \/ Get(k) \/ Del(k) \/ Exists(k)
    \/ Size \/ Clear \/ Save \/ Load \/ Restart

Spec == Init /\ [][Next]_vars

=============================================================================
