---------------------------- MODULE MCKeyedLocks ----------------------------
(* Three tasks over two keys: two of them can meet on one key while a third *)
(* creates and destroys the entry.  Four allocation identities let a        *)
(* removed entry be created again with a different mutex.                   *)
EXTENDS KeyedLocks
=============================================================================
