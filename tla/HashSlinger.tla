---------------------------- MODULE HashSlinger ----------------------------
(***************************************************************************)
(* What a hash implementation promises to cache_hash.c (struct             *)
(* hash_slinger): a table from digests to objheads in which lookup finds   *)
(* the objhead of a digest, or enters a new one, and returns it with a     *)
(* reference held, and deref gives one reference up and takes the objhead  *)
(* out of the table with the last.  Both are atomic.  CritbitHash and      *)
(* OrderedHash are shown to implement this; ObjectCache relies on it.      *)
(***************************************************************************)
EXTENDS RefCount

CONSTANTS
  Threads,   \* worker threads
  Digests,   \* the digests looked up
  Heads      \* objhead memory

VARIABLES
  table,   \* the objhead each digest maps to, or None
  refs,    \* objhead refcnt
  held     \* the objhead a thread has a reference to, or None

vars == <<table, refs, held>>

Init ==
  /\ table = [d \in Digests |-> None]
  /\ refs = [h \in Heads |-> 0]
  /\ held = [t \in Threads |-> None]

\* The objhead of d; one nobody knows if there is none yet.
Found(d) ==
  LET h == table[d]
      known == {table[e] : e \in Digests}
  IN  IF h # None THEN {h} ELSE {n \in Heads \ known : refs[n] = 0}

Lookup(t, d) ==
  /\ held[t] = None
  /\ \E h \in Found(d) :
       /\ held' = [held EXCEPT ![t] = h]
       /\ refs' = [refs EXCEPT ![h] = @ + 1]
       /\ table' = [table EXCEPT ![d] = h]

Deref(t) ==
  LET h == held[t]
      last == refs[h] = 1
  IN  /\ h # None
      /\ held' = [held EXCEPT ![t] = None]
      /\ refs' = [refs EXCEPT ![h] = @ - 1]
      /\ table' = [d \in Digests |-> LET g == table[d]
                                     IN  IF g = h /\ last THEN None ELSE g]

Next == \E t \in Threads : Deref(t) \/ \E d \in Digests : Lookup(t, d)

Spec == Init /\ [][Next]_vars
=============================================================================
