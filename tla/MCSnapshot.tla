----------------------------- MODULE MCSnapshot -----------------------------
(* Snapshot with a key that holds the delimiter, which KVStore::put and  *)
(* the codec accept: "a" and "a:", values "a" and "a:" ('a' = 97,       *)
(* ':' = 58).                                                            *)
EXTENDS Snapshot

MCKeysColon == {<<97>>, <<97, 58>>}
MCVals      == {<<97>>, <<97, 58>>}

=============================================================================
