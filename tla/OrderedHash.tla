---------------------------- MODULE OrderedHash ----------------------------
(***************************************************************************)
(* hash_classic.c and hash_simple_list.c: objheads on lists sorted by      *)
(* digest, one list (and one mutex) per bucket; the simple list is the     *)
(* case of one bucket.  A digest is a number, compared as memcmp compares  *)
(* the bytes.  Lookup and deref each are one critical section.             *)
(***************************************************************************)
EXTENDS HashUsers, SequencesExt

CONSTANTS
  hclDigests,   \* the digests looked up
  hcl_nhash     \* number of buckets

ASSUME ListAssumption == hclDigests \subseteq Nat /\ hcl_nhash \in Nat \ {0}

VARIABLES
  hcl_head,   \* the list of each bucket
  hclDigest,  \* oh->digest
  hclRefcnt,  \* oh->refcnt; 0: free memory
  hclHeld     \* the objhead a thread has a reference to

listVars == <<hcl_head, hclDigest, hclRefcnt, hclHeld>>

Bucket(d) == d % hcl_nhash

hcl_start ==
  /\ hcl_head = [b \in 0 .. hcl_nhash - 1 |-> <<>>]
  /\ hclDigest = [h \in Heads |-> 0]
  /\ hclRefcnt = [h \in Heads |-> 0]
  /\ hclHeld = [t \in Threads |-> None]

\* Where the scan for d stops: at the first objhead whose digest is not less,
\* or past the end.
Scan(list, d) ==
  LET stops == {i \in DOMAIN list : hclDigest[list[i]] >= d}
  IN  IF stops = {} THEN Len(list) + 1 ELSE Min(stops)

\* hcl_lookup, hsl_lookup: the digest is there.
LookupFind(t, d) ==
  LET list == hcl_head[Bucket(d)]
      i == Scan(list, d)
  IN  /\ hclHeld[t] = None
      /\ i \in DOMAIN list /\ hclDigest[list[i]] = d
      /\ hclRefcnt' = [hclRefcnt EXCEPT ![list[i]] = @ + 1]
      /\ hclHeld' = [hclHeld EXCEPT ![t] = list[i]]
      /\ UNCHANGED <<hcl_head, hclDigest>>

\* It is not: the preallocated objhead h goes in where the scan stopped.
LookupInsert(t, d) ==
  \E h \in Heads :
    LET list == hcl_head[Bucket(d)]
        i == Scan(list, d)
    IN  /\ hclHeld[t] = None /\ hclRefcnt[h] = 0
        /\ ~ (i \in DOMAIN list /\ hclDigest[list[i]] = d)
        /\ hcl_head' = [hcl_head EXCEPT ![Bucket(d)] = InsertAt(@, i, h)]
        /\ hclDigest' = [hclDigest EXCEPT ![h] = d]
        /\ hclRefcnt' = [hclRefcnt EXCEPT ![h] = 1]
        /\ hclHeld' = [hclHeld EXCEPT ![t] = h]

\* hcl_deref, hsl_deref; with the last reference the objhead is unlinked and
\* its memory freed (HSH_DeleteObjHead).
hcl_deref(t) ==
  LET h == hclHeld[t]
      b == Bucket(hclDigest[h])
  IN  /\ h # None
      /\ hclRefcnt' = [hclRefcnt EXCEPT ![h] = @ - 1]
      /\ hcl_head' = IF hclRefcnt[h] = 1
                     THEN [hcl_head EXCEPT ![b] = RemoveFirst(@, h)]
                     ELSE hcl_head
      /\ hclHeld' = [hclHeld EXCEPT ![t] = None]
      /\ UNCHANGED hclDigest

hclNext ==
  \E t \in Threads :
    \/ \E d \in hclDigests : LookupFind(t, d) \/ LookupInsert(t, d)
    \/ hcl_deref(t)

hclSpec == hcl_start /\ [][hclNext]_listVars
-----------------------------------------------------------------------------
(* Properties. *)

\* Every list is strictly sorted and holds only objheads of its bucket that
\* are referred to: what the early break of the scan and the unlinking with
\* the last reference rely on.
ListsSorted ==
  \A b \in DOMAIN hcl_head :
    LET list == hcl_head[b]
    IN  /\ \A i \in DOMAIN list : Bucket(hclDigest[list[i]]) = b /\ hclRefcnt[list[i]] > 0
        /\ \A i, j \in DOMAIN list : i < j => hclDigest[list[i]] < hclDigest[list[j]]

\* The objhead with digest d on the list of its bucket, or None.
Listed(d) ==
  LET found == {h \in Heads : hclDigest[h] = d /\ h \in ToSet(hcl_head[Bucket(d)])}
  IN  IF found = {} THEN None ELSE CHOOSE h \in found : TRUE

\* The promise of struct hash_slinger.
ListAbstract == INSTANCE HashSlinger WITH
  table <- [d \in hclDigests |-> Listed(d)],
  refs <- hclRefcnt, held <- hclHeld, Digests <- hclDigests

ListsKeepPromise == ListAbstract!Spec
=============================================================================
