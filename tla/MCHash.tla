------------------------------- MODULE MCHash -------------------------------
(***************************************************************************)
(* The hash implementations together, and for TLC.  The manager picks one  *)
(* when it reads its arguments (HSH_config): the crit-bit tree, or lists.  *)
(***************************************************************************)
EXTENDS CritbitHash, OrderedHash

\* Three digests of two two-bit bytes: the first two part in the last byte,
\* the third leaves them in the first bit.  With its first byte overwritten by
\* the count of a deleted objhead, the second looks like another digest.
ThreeDigests == {<<1, 0>>, <<1, 2>>, <<2, 2>>}

\* Digests for the lists: with two buckets, three of them share one.
ListDigests == {1, 2, 3, 5}

VARIABLE slinger   \* the implementation in use

HashInit == Init /\ hcl_start /\ slinger \in {"critbit", "classic"}

HashNext ==
  /\ UNCHANGED slinger
  /\ \/ slinger = "critbit" /\ Next /\ UNCHANGED listVars
     \/ slinger = "classic" /\ hclNext /\ UNCHANGED vars

HashSpec == HashInit /\ [][HashNext]_<<slinger, vars, listVars>>

\* Either implementation is well-formed, its counters exact and the memory it uses
\* not freed: CritbitInv, MemorySafe, FoundUnderLockIsAlive and CritbitsGrow of
\* hash_critbit.c, ListsSorted of hash_classic.c.
HashInv ==
  CritbitInv /\ MemorySafe /\ FoundUnderLockIsAlive /\ CritbitsGrow /\ ListsSorted

\* Either implementation is the atomic table that struct hash_slinger promises
\* to cache_hash.c.
SlingerKept == ImplementsSlinger /\ ListsKeepPromise

Symmetric == Permutations(Heads) \cup Permutations(Threads)
=============================================================================
