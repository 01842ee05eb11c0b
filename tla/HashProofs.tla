----------------------------- MODULE HashProofs -----------------------------
(***************************************************************************)
(* Proofs about the hash implementations, modules CritbitHash and          *)
(* OrderedHash: for any threads, objheads and digests, the crit-bit tree   *)
(* that is searched without a lock and the sorted lists are the atomic     *)
(* table that struct hash_slinger promises to cache_hash.c.                *)
(*                                                                         *)
(* Lists: ListsSorted is not inductive.  That the memory of a new objhead  *)
(* is on no list, and that the last reference unlinks what nobody has,     *)
(* needs that refcnt counts the threads that hold the objhead (Counted)    *)
(* and that an objhead with references is on the list of its digest        *)
(* (FoundOnList).                                                          *)
(*                                                                         *)
(* Tree: the invariant names what no variable has, the objheads I in the   *)
(* tree, the y's Ys in it and the objheads U[y] below each of them.  Tree  *)
(* says how they hang together: the digests below a y agree before its     *)
(* critbit and differ there.  Hence a search under the lock ends at the    *)
(* objhead with the digest, if there is one, hcb_insert finds the place    *)
(* for a new y and hcb_delete takes one objhead and one y out.  Good adds  *)
(* who may look at what: an objhead that left the tree lies low, its age   *)
(* kept at zero while its y is in the tree, and a search without the lock  *)
(* is younger than whatever it may see is old.                             *)
(***************************************************************************)
EXTENDS MCHash, SequenceTheorems, FiniteSetTheorems, WellFoundedInduction, TLAPS

-----------------------------------------------------------------------------
(* Reference counters *)

\* A count of holders is a number.
LEMMA CountType ==
  ASSUME NEW f, NEW v, IsFiniteSet(DOMAIN f)
  PROVE  IsFiniteSet(Holders(f, v)) /\ Count(f, v) \in Nat
  <1>1. Holders(f, v) \subseteq DOMAIN f
    BY DEF Holders
  <1>2. IsFiniteSet(Holders(f, v))
    BY <1>1, FS_Subset
  <1> QED
    BY <1>2, FS_CardinalityType DEF Count

\* No holder, count zero; and the other way round.
LEMMA CountZero ==
  ASSUME NEW f, NEW v, IsFiniteSet(DOMAIN f)
  PROVE  Count(f, v) = 0 <=> \A x \in DOMAIN f : f[x] # v
  <1>1. Count(f, v) = 0 <=> Holders(f, v) = {}
    BY CountType, FS_EmptySet DEF Count
  <1> QED
    BY <1>1 DEF Holders


\* One holder x moves: the count of v grows by one if x now holds v and drops
\* by one if x held v before.
LEMMA CountMove ==
  ASSUME NEW f, NEW g, NEW x \in DOMAIN f, NEW v,
         IsFiniteSet(DOMAIN f), DOMAIN g = DOMAIN f,
         \A y \in DOMAIN f \ {x} : g[y] = f[y]
  PROVE  Count(g, v) = Count(f, v) + (IF g[x] = v THEN 1 ELSE 0)
                                   - (IF f[x] = v THEN 1 ELSE 0)
  <1>0. Count(f, v) \in Nat /\ IsFiniteSet(Holders(f, v))
    BY CountType
  <1>1. CASE f[x] # v /\ g[x] = v
    <2>1. Holders(g, v) = Holders(f, v) \cup {x} /\ x \notin Holders(f, v)
      BY <1>1 DEF Holders
    <2>2. Count(g, v) = Count(f, v) + 1
      BY <1>0, <2>1, FS_AddElement DEF Count
    <2> QED
      BY <1>0, <1>1, <2>2
  <1>2. CASE f[x] = v /\ g[x] # v
    <2>1. Holders(g, v) = Holders(f, v) \ {x} /\ x \in Holders(f, v)
      BY <1>2 DEF Holders
    <2>2. Count(g, v) = Count(f, v) - 1
      BY <1>0, <2>1, FS_RemoveElement DEF Count
    <2> QED
      BY <1>0, <1>2, <2>2
  <1>3. CASE f[x] = v <=> g[x] = v
    <2>1. Holders(g, v) = Holders(f, v)
      BY <1>3 DEF Holders
    <2>2. Count(g, v) = Count(f, v)
      BY <2>1 DEF Count
    <2> QED
      BY <1>0, <1>3, <2>2
  <1> QED
    BY <1>1, <1>2, <1>3

-----------------------------------------------------------------------------
(* Lists *)

\* A set of naturals that is not empty has a least element.
LEMMA MinOf ==
  ASSUME NEW S \in SUBSET Nat, S # {}
  PROVE  Min(S) \in S /\ \A y \in S : Min(S) <= y
<1>1. PICK x \in S : \A y \in S : ~ (<<y, x>> \in OpToRel(<, Nat))
  BY NatLessThanWellFounded, WFMin
<1>2. ASSUME NEW y \in S PROVE x <= y
  <2>1. ~ (y < x)
    BY <1>1 DEF OpToRel
  <2> QED  BY <2>1
<1>3. \E z \in S : \A y \in S : z =< y
  BY <1>2
<1> QED  BY <1>3 DEF Min

\* What is on a list.
LEMMA SeqSet ==
  ASSUME NEW S, NEW q \in Seq(S)
  PROVE  /\ Len(q) \in Nat /\ DOMAIN q = 1 .. Len(q) /\ \A i \in 1 .. Len(q) : q[i] \in S
         /\ \A x : x \in ToSet(q) <=> \E i \in 1 .. Len(q) : q[i] = x
<1>1. Len(q) \in Nat /\ DOMAIN q = 1 .. Len(q) /\ \A i \in 1 .. Len(q) : q[i] \in S
  BY LenProperties
<1> QED  BY <1>1 DEF ToSet

\* The part of a list before k, and the part from k on.
LEMMA Parts ==
  ASSUME NEW S, NEW q \in Seq(S), NEW k \in 1 .. Len(q) + 1
  PROVE  /\ SubSeq(q, 1, k - 1) \in Seq(S) /\ Len(SubSeq(q, 1, k - 1)) = k - 1
         /\ \A i \in 1 .. k - 1 : SubSeq(q, 1, k - 1)[i] = q[i]
         /\ SubSeq(q, k, Len(q)) \in Seq(S) /\ Len(SubSeq(q, k, Len(q))) = (Len(q) - k) + 1
         /\ \A i \in 1 .. (Len(q) - k) + 1 : SubSeq(q, k, Len(q))[i] = q[(k + i) - 1]
<1>1. Len(q) \in Nat /\ DOMAIN q = 1 .. Len(q) /\ \A i \in 1 .. Len(q) : q[i] \in S
  BY LenProperties
<1>2. PICK n \in Nat : n = Len(q)
  BY <1>1
<1>3. k \in Nat /\ 1 <= k /\ k <= n + 1
  BY <1>2
<1>4. PICK a, b : a = SubSeq(q, 1, k - 1) /\ b = SubSeq(q, k, n)
  OBVIOUS
<1>5. a \in Seq(S) /\ Len(a) = k - 1 /\ \A i \in 1 .. k - 1 : a[i] = q[i]
  <2>1. /\ 1 \in Int /\ k - 1 \in Int
        /\ \A i \in 1 .. k - 1 : q[i] \in S
    BY <1>1, <1>2, <1>3
  <2>2. a \in Seq(S) /\ Len(a) = (IF 1 <= k - 1 THEN (k - 1) - 1 + 1 ELSE 0)
    BY <1>4, <2>1, SubSeqProperties
  <2>3. \A i \in 1 .. (k - 1) - 1 + 1 : a[i] = q[1 + i - 1]
    BY <1>4, <2>1, SubSeqProperties
  <2>4. (IF 1 <= k - 1 THEN (k - 1) - 1 + 1 ELSE 0) = k - 1 /\ (k - 1) - 1 + 1 = k - 1
    BY <1>3
  <2>5. \A i \in 1 .. k - 1 : 1 + i - 1 = i
    BY <1>3
  <2> QED  BY <2>2, <2>3, <2>4, <2>5
<1>6. b \in Seq(S) /\ Len(b) = (n - k) + 1 /\ \A i \in 1 .. (n - k) + 1 : b[i] = q[(k + i) - 1]
  <2>1. k \in Int /\ n \in Int /\ \A i \in k .. n : q[i] \in S
    BY <1>1, <1>2, <1>3
  <2>2. b \in Seq(S) /\ Len(b) = (IF k <= n THEN n - k + 1 ELSE 0)
    BY <1>4, <2>1, SubSeqProperties
  <2>3. \A i \in 1 .. n - k + 1 : b[i] = q[k + i - 1]
    BY <1>4, <2>1, SubSeqProperties
  <2>4. (IF k <= n THEN n - k + 1 ELSE 0) = (n - k) + 1 /\ n - k + 1 = (n - k) + 1
    BY <1>3
  <2>5. \A i \in 1 .. (n - k) + 1 : k + i - 1 = (k + i) - 1
    BY <1>3
  <2> QED  BY <2>2, <2>3, <2>4, <2>5
<1> QED  BY <1>2, <1>4, <1>5, <1>6

\* VTAILQ_INSERT_BEFORE and VTAILQ_INSERT_TAIL.
WithAt(S, r, q, k, x) ==
  /\ r \in Seq(S) /\ Len(r) = Len(q) + 1
  /\ \A i \in 1 .. Len(q) + 1 : r[i] = IF i < k THEN q[i] ELSE IF i = k THEN x ELSE q[i - 1]

\* InsertAt puts x at place k and leaves the order of the others.
LEMMA Inserted ==
  ASSUME NEW S, NEW q \in Seq(S), NEW k \in 1 .. Len(q) + 1, NEW x \in S
  PROVE  WithAt(S, InsertAt(q, k, x), q, k, x)
<1>1. PICK n \in Nat : n = Len(q)
  BY LenProperties
<1>2. k \in Nat /\ 1 <= k /\ k <= n + 1
  BY <1>1
<1>3. PICK a, b, c, r : /\ a = SubSeq(q, 1, k - 1) /\ b = SubSeq(q, k, n)
                        /\ c = a \o <<x>> /\ r = c \o b
  OBVIOUS
<1>4. InsertAt(q, k, x) = r
  BY <1>1, <1>3 DEF InsertAt
<1>5. /\ a \in Seq(S) /\ Len(a) = k - 1 /\ \A i \in 1 .. k - 1 : a[i] = q[i]
      /\ b \in Seq(S) /\ Len(b) = (n - k) + 1 /\ \A i \in 1 .. (n - k) + 1 : b[i] = q[(k + i) - 1]
  BY <1>1, <1>3, Parts
<1>6. c \in Seq(S) /\ Len(c) = k /\ \A i \in 1 .. k : c[i] = IF i < k THEN q[i] ELSE x
  <2>1. PICK e : e = <<x>>
    OBVIOUS
  <2>2. e \in Seq(S) /\ Len(e) = 1 /\ e[1] = x /\ c = a \o e
    BY <1>3, <2>1
  <2>3. /\ c \in Seq(S) /\ Len(c) = Len(a) + Len(e)
        /\ \A i \in 1 .. Len(a) + Len(e) : c[i] = IF i <= Len(a) THEN a[i] ELSE e[i - Len(a)]
    BY <1>5, <2>2, ConcatProperties
  <2>4. Len(a) + Len(e) = k
    BY <1>2, <1>5, <2>2
  <2>5. ASSUME NEW i \in 1 .. k PROVE c[i] = IF i < k THEN q[i] ELSE x
    <3>1. c[i] = IF i <= Len(a) THEN a[i] ELSE e[i - Len(a)]
      BY <2>3, <2>4
    <3>2. CASE i < k
      BY <1>2, <1>5, <3>1, <3>2
    <3>3. CASE i = k
      <4>1. ~ (i <= Len(a)) /\ i - Len(a) = 1
        BY <1>2, <1>5, <3>3
      <4> QED  BY <2>2, <3>1, <3>3, <4>1
    <3> QED  BY <1>2, <3>2, <3>3
  <2> QED  BY <2>3, <2>4, <2>5
<1>7. /\ r \in Seq(S) /\ Len(r) = n + 1
      /\ \A i \in 1 .. n + 1 : r[i] = IF i < k THEN q[i] ELSE IF i = k THEN x ELSE q[i - 1]
  <2>1. /\ r \in Seq(S) /\ Len(r) = Len(c) + Len(b)
        /\ \A i \in 1 .. Len(c) + Len(b) : r[i] = IF i <= Len(c) THEN c[i] ELSE b[i - Len(c)]
    BY <1>3, <1>5, <1>6, ConcatProperties
  <2>2. Len(c) + Len(b) = n + 1
    BY <1>2, <1>5, <1>6
  <2>3. ASSUME NEW i \in 1 .. n + 1
        PROVE  r[i] = IF i < k THEN q[i] ELSE IF i = k THEN x ELSE q[i - 1]
    <3>1. r[i] = IF i <= k THEN c[i] ELSE b[i - k]
      BY <1>6, <2>1, <2>2
    <3>2. CASE i <= k
      <4>1. i \in 1 .. k
        BY <1>2, <3>2
      <4>2. r[i] = IF i < k THEN q[i] ELSE x
        BY <1>6, <3>1, <3>2, <4>1
      <4> QED  BY <1>2, <3>2, <4>2
    <3>3. CASE ~ (i <= k)
      <4>1. i - k \in 1 .. (n - k) + 1 /\ (k + (i - k)) - 1 = i - 1 /\ ~ (i < k) /\ i # k
        BY <1>2, <3>3
      <4>2. r[i] = q[(k + (i - k)) - 1]
        BY <1>5, <3>1, <3>3, <4>1
      <4> QED  BY <4>1, <4>2
    <3> QED  BY <3>2, <3>3
  <2> QED  BY <2>1, <2>2, <2>3
<1>8. WithAt(S, r, q, k, x)
  BY <1>1, <1>7 DEF WithAt
<1> QED  BY <1>4, <1>8

\* VTAILQ_REMOVE of what is on the list once.
LEMMA Removed ==
  ASSUME NEW S, NEW q \in Seq(S), NEW k \in 1 .. Len(q), \A i \in 1 .. Len(q) : q[i] = q[k] => i = k
  PROVE  /\ RemoveFirst(q, q[k]) \in Seq(S) /\ Len(RemoveFirst(q, q[k])) = Len(q) - 1
         /\ \A i \in 1 .. Len(q) - 1 : RemoveFirst(q, q[k])[i] = IF i < k THEN q[i] ELSE q[i + 1]
<1> DEFINE I == {i \in 1 .. Len(q) : q[i] = q[k]}
<1>1. PICK n \in Nat : n = Len(q)
  BY LenProperties
<1>2. k \in Nat /\ 1 <= k /\ k <= n
  BY <1>1
<1>3. I = {k}
  OBVIOUS
<1> HIDE DEF I
<1>4. Min(I) = k
  <2>1. {k} \in SUBSET Nat /\ {k} # {}
    BY <1>2
  <2>2. Min({k}) \in {k}
    BY <2>1, MinOf
  <2> QED  BY <1>3, <2>2
<1>5. PICK a, b, r : a = SubSeq(q, 1, k - 1) /\ b = SubSeq(q, k + 1, n) /\ r = a \o b
  OBVIOUS
<1>6. RemoveFirst(q, q[k]) = r
  BY <1>1, <1>3, <1>4, <1>5 DEF I, RemoveFirst, RemoveAt, SelectInSeq
<1>7. /\ a \in Seq(S) /\ Len(a) = k - 1 /\ \A i \in 1 .. k - 1 : a[i] = q[i]
      /\ b \in Seq(S) /\ Len(b) = n - k /\ \A i \in 1 .. n - k : b[i] = q[k + i]
  <2>1. k \in 1 .. Len(q) + 1 /\ k + 1 \in 1 .. Len(q) + 1
    BY <1>1, <1>2
  <2>2. a \in Seq(S) /\ Len(a) = k - 1 /\ \A i \in 1 .. k - 1 : a[i] = q[i]
    BY <1>5, <2>1, Parts
  <2>3. PICK j : j = k + 1
    OBVIOUS
  <2>4. /\ b \in Seq(S) /\ Len(b) = (n - j) + 1
        /\ \A i \in 1 .. (n - j) + 1 : b[i] = q[(j + i) - 1]
    BY <1>1, <1>5, <2>1, <2>3, Parts
  <2>5. (n - j) + 1 = n - k /\ \A i \in 1 .. n - k : (j + i) - 1 = k + i
    BY <1>2, <2>3
  <2> QED  BY <2>2, <2>4, <2>5
<1>8. /\ r \in Seq(S) /\ Len(r) = n - 1
      /\ \A i \in 1 .. n - 1 : r[i] = IF i < k THEN q[i] ELSE q[i + 1]
  <2>1. /\ r \in Seq(S) /\ Len(r) = Len(a) + Len(b)
        /\ \A i \in 1 .. Len(a) + Len(b) : r[i] = IF i <= Len(a) THEN a[i] ELSE b[i - Len(a)]
    BY <1>5, <1>7, ConcatProperties
  <2>2. Len(a) + Len(b) = n - 1
    BY <1>2, <1>7
  <2>3. ASSUME NEW i \in 1 .. n - 1 PROVE r[i] = IF i < k THEN q[i] ELSE q[i + 1]
    <3>1. r[i] = IF i <= k - 1 THEN a[i] ELSE b[i - (k - 1)]
      BY <1>7, <2>1, <2>2
    <3>2. CASE i < k
      BY <1>2, <1>7, <3>1, <3>2
    <3>3. CASE ~ (i < k)
      <4>1. i - (k - 1) \in 1 .. n - k /\ k + (i - (k - 1)) = i + 1 /\ ~ (i <= k - 1)
        BY <1>2, <3>3
      <4> QED  BY <1>7, <3>1, <3>3, <4>1
    <3> QED  BY <3>2, <3>3
  <2> QED  BY <2>1, <2>2, <2>3
<1> QED  BY <1>1, <1>6, <1>8

-----------------------------------------------------------------------------
(* The inductive invariant *)

Buckets == 0 .. hcl_nhash - 1

ListTypes ==
  /\ hcl_head \in [Buckets -> Seq(Heads)]
  /\ hclDigest \in [Heads -> Nat] /\ hclRefcnt \in [Heads -> Nat]
  /\ hclHeld \in [Threads -> Heads \cup {None}]

\* What is on a list belongs there and is referred to.
Member(b, i) == LET h == hcl_head[b][i] IN Bucket(hclDigest[h]) = b /\ hclRefcnt[h] > 0
Belongs == \A b \in Buckets : \A i \in 1 .. Len(hcl_head[b]) : Member(b, i)

Sorted(q) == \A i, j \in 1 .. Len(q) : i < j => hclDigest[q[i]] < hclDigest[q[j]]
AllSorted == \A b \in Buckets : Sorted(hcl_head[b])

\* What is referred to is on the list of its digest.
IsListed(h) == \E i \in 1 .. Len(hcl_head[Bucket(hclDigest[h])]) : hcl_head[Bucket(hclDigest[h])][i] = h
FoundOnList == \A h \in Heads : hclRefcnt[h] > 0 => hclDigest[h] \in hclDigests /\ IsListed(h)

\* A reference is a thread that holds the objhead.
Counted == \A h \in Heads : hclRefcnt[h] = Count(hclHeld, h)

ListIInv == ListTypes /\ Belongs /\ AllSorted /\ FoundOnList /\ Counted

\* What is assumed of the constants.
LEMMA ListFacts ==
  None \notin Heads /\ IsFiniteSet(Threads) /\ hclDigests \subseteq Nat /\ hcl_nhash \in Nat \ {0}
  BY UsersAssumption, ListAssumption

\* Every digest has a bucket.
LEMMA BucketOf ==
  ASSUME NEW d \in Nat
  PROVE  Bucket(d) \in Buckets
  BY ListFacts DEF Bucket, Buckets

\* Where the scan stops, everything before is less and nothing after is.
LEMMA ScanStops ==
  ASSUME NEW q \in Seq(Heads), hclDigest \in [Heads -> Nat], Sorted(q), NEW d \in Nat
  PROVE  /\ Scan(q, d) \in 1 .. Len(q) + 1
         /\ \A i \in 1 .. Len(q) : i < Scan(q, d) => hclDigest[q[i]] < d
         /\ \A i \in 1 .. Len(q) : i >= Scan(q, d) => hclDigest[q[i]] >= d
         /\ Scan(q, d) \in DOMAIN q <=> Scan(q, d) # Len(q) + 1
<1> DEFINE stops == {i \in DOMAIN q : hclDigest[q[i]] >= d}
<1>1. Len(q) \in Nat /\ DOMAIN q = 1 .. Len(q) /\ \A i \in 1 .. Len(q) : q[i] \in Heads
  BY LenProperties
<1>2. \A i \in 1 .. Len(q) : hclDigest[q[i]] \in Nat
  BY <1>1
<1>3. Scan(q, d) = IF stops = {} THEN Len(q) + 1 ELSE Min(stops)
  BY DEF Scan
<1>4. CASE stops = {}
  <2>1. Scan(q, d) = Len(q) + 1
    BY <1>3, <1>4
  <2>2. \A i \in 1 .. Len(q) : ~ (hclDigest[q[i]] >= d)
    BY <1>1, <1>4
  <2> QED  BY <1>1, <1>2, <2>1, <2>2
<1>5. CASE stops # {}
  <2>1. stops \in SUBSET Nat
    BY <1>1
  <2>2. PICK k : k = Min(stops)
    OBVIOUS
  <2>3. k \in stops /\ \A i \in stops : k <= i
    BY <1>5, <2>1, <2>2, MinOf
  <2>4. Scan(q, d) = k /\ k \in 1 .. Len(q) /\ hclDigest[q[k]] >= d
    BY <1>1, <1>3, <1>5, <2>2, <2>3
  <2>5. \A i \in 1 .. Len(q) : i < k => hclDigest[q[i]] < d
    <3>1. ASSUME NEW i \in 1 .. Len(q), i < k PROVE hclDigest[q[i]] < d
      <4>1. i \notin stops
        BY <1>1, <2>3, <2>4, <3>1
      <4> QED  BY <1>1, <1>2, <4>1
    <3> QED  BY <3>1
  <2>6. \A i \in 1 .. Len(q) : i >= k => hclDigest[q[i]] >= d
    <3>1. ASSUME NEW i \in 1 .. Len(q), i >= k PROVE hclDigest[q[i]] >= d
      <4>1. CASE i = k
        BY <2>4, <4>1
      <4>2. CASE i # k
        <5>1. hclDigest[q[k]] < hclDigest[q[i]]
          BY <1>1, <2>4, <3>1, <4>2 DEF Sorted
        <5> QED  BY <1>2, <2>4, <5>1
      <4> QED  BY <4>1, <4>2
    <3> QED  BY <3>1
  <2> QED  BY <1>1, <2>4, <2>5, <2>6
<1> QED  BY <1>4, <1>5

\* No objhead is twice on a list, nor another with its digest.
LEMMA OnceListed ==
  ASSUME ListIInv, NEW b \in Buckets, NEW i \in 1 .. Len(hcl_head[b]), NEW j \in 1 .. Len(hcl_head[b]),
         hclDigest[hcl_head[b][i]] = hclDigest[hcl_head[b][j]]
  PROVE  i = j
<1>1. hcl_head[b] \in Seq(Heads)
  BY DEF ListIInv, ListTypes
<1>2. Len(hcl_head[b]) \in Nat /\ hcl_head[b][i] \in Heads /\ hcl_head[b][j] \in Heads
  BY <1>1, LenProperties
<1>3. hclDigest[hcl_head[b][i]] \in Nat
  BY <1>2 DEF ListIInv, ListTypes
<1>4. /\ i < j => hclDigest[hcl_head[b][i]] < hclDigest[hcl_head[b][j]]
      /\ j < i => hclDigest[hcl_head[b][j]] < hclDigest[hcl_head[b][i]]
  BY DEF ListIInv, AllSorted, Sorted
<1> QED  BY <1>2, <1>3, <1>4

\* Two objheads that are referred to have different digests.
LEMMA OnePerDigest ==
  ASSUME ListIInv, NEW g \in Heads, NEW h \in Heads,
         hclRefcnt[g] > 0, hclRefcnt[h] > 0, hclDigest[g] = hclDigest[h]
  PROVE  g = h
<1>1. hclDigest[g] \in Nat
  BY DEF ListIInv, ListTypes
<1>2. PICK b \in Buckets : b = Bucket(hclDigest[g])
  BY <1>1, BucketOf
<1>3. PICK i \in 1 .. Len(hcl_head[b]) : hcl_head[b][i] = g
  BY <1>2 DEF ListIInv, FoundOnList, IsListed
<1>4. PICK j \in 1 .. Len(hcl_head[b]) : hcl_head[b][j] = h
  BY <1>2 DEF ListIInv, FoundOnList, IsListed
<1>5. i = j
  BY <1>3, <1>4, OnceListed
<1> QED  BY <1>3, <1>4, <1>5

\* The lookup has found the objhead of d, or there is none.
LEMMA ScanFinds ==
  ASSUME ListIInv, NEW d \in Nat, NEW q, NEW k,
         q = hcl_head[Bucket(d)], k = Scan(q, d)
  PROVE  /\ q \in Seq(Heads) /\ k \in 1 .. Len(q) + 1
         /\ k \in DOMAIN q /\ hclDigest[q[k]] = d => q[k] \in Heads /\ hclRefcnt[q[k]] > 0
         /\ ~ (k \in DOMAIN q /\ hclDigest[q[k]] = d) =>
              /\ \A i \in 1 .. Len(q) : i < k => hclDigest[q[i]] < d
              /\ \A i \in 1 .. Len(q) : i >= k => hclDigest[q[i]] > d
              /\ \A h \in Heads : hclDigest[h] = d => hclRefcnt[h] = 0
<1>1. PICK b \in Buckets : b = Bucket(d)
  BY BucketOf
<1>2. q \in Seq(Heads) /\ Sorted(q) /\ hclDigest \in [Heads -> Nat] /\ hclRefcnt \in [Heads -> Nat]
  BY <1>1 DEF ListIInv, ListTypes, AllSorted
<1>3. Len(q) \in Nat /\ DOMAIN q = 1 .. Len(q) /\ \A i \in 1 .. Len(q) : q[i] \in Heads
  BY <1>2, LenProperties
<1>4. /\ k \in 1 .. Len(q) + 1
      /\ \A i \in 1 .. Len(q) : i < k => hclDigest[q[i]] < d
      /\ \A i \in 1 .. Len(q) : i >= k => hclDigest[q[i]] >= d
  BY <1>2, ScanStops
<1>5. \A i \in 1 .. Len(q) : hclRefcnt[q[i]] > 0
  BY <1>1 DEF ListIInv, Belongs, Member
<1>6. ASSUME ~ (k \in DOMAIN q /\ hclDigest[q[k]] = d), NEW i \in 1 .. Len(q), i >= k
      PROVE  hclDigest[q[i]] > d
  <2>1. k \in 1 .. Len(q) /\ hclDigest[q[k]] \in Nat /\ hclDigest[q[i]] \in Nat
    <3>1. k \in Nat /\ 1 <= k /\ k <= Len(q)
      BY <1>3, <1>4, <1>6
    <3>2. k \in 1 .. Len(q)
      BY <1>3, <3>1
    <3>3. q[k] \in Heads /\ q[i] \in Heads
      BY <1>3, <3>2
    <3> QED  BY <1>2, <3>2, <3>3
  <2>2. hclDigest[q[k]] >= d /\ hclDigest[q[k]] # d
    BY <1>3, <1>4, <1>6, <2>1
  <2>3. i = k \/ hclDigest[q[k]] < hclDigest[q[i]]
    <3>1. i = k \/ k < i
      BY <1>3, <1>6, <2>1
    <3>2. \A m, n \in 1 .. Len(q) : m < n => hclDigest[q[m]] < hclDigest[q[n]]
      BY <1>2 DEF Sorted
    <3> QED  BY <2>1, <3>1, <3>2
  <2> QED  BY <2>1, <2>2, <2>3
<1>7. ASSUME ~ (k \in DOMAIN q /\ hclDigest[q[k]] = d), NEW h \in Heads, hclDigest[h] = d
      PROVE  hclRefcnt[h] = 0
  <2>1. hclRefcnt[h] \in Nat
    BY <1>2
  <2>2. ASSUME hclRefcnt[h] > 0 PROVE FALSE
    <3>1. PICK i \in 1 .. Len(q) : q[i] = h
      BY <1>1, <1>7, <2>2 DEF ListIInv, FoundOnList, IsListed
    <3>2. CASE i < k
      BY <1>3, <1>4, <1>7, <3>1, <3>2
    <3>3. CASE i >= k
      BY <1>3, <1>6, <1>7, <3>1, <3>3
    <3> QED  BY <1>3, <1>4, <3>2, <3>3
  <2> QED  BY <2>1, <2>2
<1> QED  BY <1>2, <1>3, <1>4, <1>5, <1>6, <1>7

-----------------------------------------------------------------------------
(* Steps *)

\* A thread takes or gives back a reference.
LEMMA CountMoves ==
  ASSUME ListTypes, Counted, NEW t \in Threads, NEW x \in Heads \cup {None},
         hclHeld' = [hclHeld EXCEPT ![t] = x], NEW h \in Heads
  PROVE  Count(hclHeld', h) = (hclRefcnt[h] + (IF x = h THEN 1 ELSE 0)) - (IF hclHeld[t] = h THEN 1 ELSE 0)
<1>1. PICK g : g = hclHeld'
  OBVIOUS
<1>2. /\ DOMAIN hclHeld = Threads /\ DOMAIN g = Threads /\ g[t] = x
      /\ \A y \in Threads \ {t} : g[y] = hclHeld[y]
  BY <1>1 DEF ListTypes
<1>3. IsFiniteSet(DOMAIN hclHeld)
  BY <1>2, ListFacts
<1>4. Count(g, h) = Count(hclHeld, h) + (IF g[t] = h THEN 1 ELSE 0) - (IF hclHeld[t] = h THEN 1 ELSE 0)
  BY <1>2, <1>3, CountMove
<1>5. Count(hclHeld, h) = hclRefcnt[h] /\ hclRefcnt[h] \in Nat
  BY DEF ListTypes, Counted
<1> QED  BY <1>1, <1>2, <1>4, <1>5

\* An objhead that a thread holds is referred to.
LEMMA HeldCounts ==
  ASSUME ListTypes, Counted, NEW t \in Threads, hclHeld[t] # None
  PROVE  hclHeld[t] \in Heads /\ hclRefcnt[hclHeld[t]] \in Nat /\ hclRefcnt[hclHeld[t]] > 0
<1>1. hclHeld[t] \in Heads /\ hclRefcnt[hclHeld[t]] \in Nat /\ DOMAIN hclHeld = Threads
  BY DEF ListTypes
<1>2. IsFiniteSet(DOMAIN hclHeld)
  BY <1>1, ListFacts
<1>3. Count(hclHeld, hclHeld[t]) # 0
  BY <1>1, <1>2, CountZero
<1>4. hclRefcnt[hclHeld[t]] # 0
  BY <1>1, <1>3 DEF Counted
<1> QED  BY <1>1, <1>4

\* A lookup that finds its objhead keeps the invariant of the lists.
LEMMA FindStep ==
  ASSUME ListIInv, NEW t \in Threads, NEW d \in hclDigests, LookupFind(t, d)
  PROVE  ListIInv'
<1>1. d \in Nat
  BY ListFacts
<1>2. PICK q, k : q = hcl_head[Bucket(d)] /\ k = Scan(q, d)
  OBVIOUS
<1>3. PICK h : h = q[k]
  OBVIOUS
<1>4. /\ hclHeld[t] = None /\ k \in DOMAIN q /\ hclDigest[h] = d
      /\ hclRefcnt' = [hclRefcnt EXCEPT ![h] = @ + 1] /\ hclHeld' = [hclHeld EXCEPT ![t] = h]
      /\ hcl_head' = hcl_head /\ hclDigest' = hclDigest
  BY <1>2, <1>3 DEF LookupFind
<1>5. h \in Heads /\ hclRefcnt[h] > 0
  BY <1>1, <1>2, <1>3, <1>4, ScanFinds
<1>6. hclRefcnt' \in [Heads -> Nat] /\ \A g \in Heads : hclRefcnt'[g] = IF g = h THEN hclRefcnt[g] + 1 ELSE hclRefcnt[g]
  BY <1>4, <1>5 DEF ListIInv, ListTypes
<1>7. ListTypes'
  BY <1>4, <1>5, <1>6 DEF ListIInv, ListTypes
<1>8. \A g \in Heads : hclRefcnt'[g] > 0 <=> hclRefcnt[g] > 0
  <2>1. \A g \in Heads : hclRefcnt[g] \in Nat
    BY DEF ListIInv, ListTypes
  <2>2. ASSUME NEW g \in Heads PROVE hclRefcnt'[g] > 0 <=> hclRefcnt[g] > 0
    <3>1. CASE g = h
      BY <1>5, <1>6, <2>1, <3>1
    <3>2. CASE g # h
      BY <1>6, <3>2
    <3> QED  BY <3>1, <3>2
  <2> QED  BY <2>2
<1>9. Belongs'
  <2>1. \A b \in Buckets : \A i \in 1 .. Len(hcl_head[b]) : hcl_head[b][i] \in Heads
    BY LenProperties DEF ListIInv, ListTypes
  <2> QED  BY <1>4, <1>8, <2>1 DEF ListIInv, Belongs, Member
<1>10. AllSorted'
  BY <1>4 DEF ListIInv, AllSorted, Sorted
<1>11. FoundOnList'
  BY <1>4, <1>8 DEF ListIInv, FoundOnList, IsListed
<1>12. Counted'
  <2>1. ASSUME NEW g \in Heads PROVE hclRefcnt'[g] = Count(hclHeld', g)
    <3>1. Count(hclHeld', g) = (hclRefcnt[g] + (IF h = g THEN 1 ELSE 0)) - (IF hclHeld[t] = g THEN 1 ELSE 0)
      <4>1. ListTypes /\ Counted /\ h \in Heads \cup {None} /\ hclHeld' = [hclHeld EXCEPT ![t] = h]
        BY <1>4, <1>5 DEF ListIInv
      <4> QED  BY <4>1, CountMoves, ZenonT(60)
    <3>2. hclHeld[t] # g
      BY <1>4, ListFacts
    <3> QED  BY <1>6, <3>1, <3>2 DEF ListIInv, ListTypes
  <2> QED  BY <2>1 DEF Counted
<1> QED  BY <1>7, <1>9, <1>10, <1>11, <1>12 DEF ListIInv

\* What an insertion leaves on the lists.
LEMMA InsertStep ==
  ASSUME ListIInv, NEW t \in Threads, NEW d \in hclDigests, LookupInsert(t, d)
  PROVE  ListIInv'
<1>1. d \in Nat
  BY ListFacts
<1>2. PICK b \in Buckets : b = Bucket(d)
  BY <1>1, BucketOf
<1>3. PICK q, k : q = hcl_head[b] /\ k = Scan(q, d)
  OBVIOUS
<1>4. PICK h \in Heads :
        /\ hclHeld[t] = None /\ hclRefcnt[h] = 0
        /\ ~ (k \in DOMAIN q /\ hclDigest[q[k]] = d)
        /\ hcl_head' = [hcl_head EXCEPT ![b] = InsertAt(@, k, h)]
        /\ hclDigest' = [hclDigest EXCEPT ![h] = d]
        /\ hclRefcnt' = [hclRefcnt EXCEPT ![h] = 1]
        /\ hclHeld' = [hclHeld EXCEPT ![t] = h]
  BY <1>2, <1>3 DEF LookupInsert
<1>5. /\ q \in Seq(Heads) /\ k \in 1 .. Len(q) + 1
      /\ \A i \in 1 .. Len(q) : i < k => hclDigest[q[i]] < d
      /\ \A i \in 1 .. Len(q) : i >= k => hclDigest[q[i]] > d
  BY <1>1, <1>2, <1>3, <1>4, ScanFinds
<1>6. PICK r : r = InsertAt(q, k, h)
  OBVIOUS
<1>7. /\ r \in Seq(Heads) /\ Len(r) = Len(q) + 1
      /\ \A i \in 1 .. Len(q) + 1 : r[i] = IF i < k THEN q[i] ELSE IF i = k THEN h ELSE q[i - 1]
  <2>1. q \in Seq(Heads) /\ k \in 1 .. Len(q) + 1
    BY <1>5
  <2>2. WithAt(Heads, InsertAt(q, k, h), q, k, h)
    BY <2>1, Inserted
  <2>3. WithAt(Heads, r, q, k, h)
    BY <1>6, <2>2, Zenon
  <2> QED  BY <2>3 DEF WithAt
<1>8. Len(q) \in Nat /\ \A i \in 1 .. Len(q) : q[i] \in Heads
  BY <1>5, LenProperties
<1>9. ListTypes /\ Belongs /\ AllSorted /\ FoundOnList /\ Counted
  BY DEF ListIInv
<1>10. /\ \A g \in Heads : hclDigest'[g] = IF g = h THEN d ELSE hclDigest[g]
       /\ \A g \in Heads : hclRefcnt'[g] = IF g = h THEN 1 ELSE hclRefcnt[g]
       /\ \A c \in Buckets : hcl_head'[c] = IF c = b THEN r ELSE hcl_head[c]
  BY <1>3, <1>4, <1>6, <1>9 DEF ListTypes
<1>11. ListTypes'
  BY <1>1, <1>3, <1>4, <1>6, <1>7, <1>9 DEF ListTypes
<1>12. \A c \in Buckets : \A i \in 1 .. Len(hcl_head[c]) : hcl_head[c][i] \in Heads /\ hcl_head[c][i] # h
  <2>1. \A c \in Buckets : \A i \in 1 .. Len(hcl_head[c]) : hcl_head[c][i] \in Heads
    BY <1>9, LenProperties DEF ListTypes
  <2>2. \A c \in Buckets : \A i \in 1 .. Len(hcl_head[c]) : hclRefcnt[hcl_head[c][i]] > 0
    BY <1>9 DEF Belongs, Member
  <2> QED  BY <1>4, <2>1, <2>2
<1>13. \A i \in 1 .. Len(q) : q[i] # h /\ hclDigest'[q[i]] = hclDigest[q[i]] /\ hclDigest[q[i]] \in Nat
  BY <1>3, <1>8, <1>9, <1>10, <1>12 DEF ListTypes
<1>14. Belongs'
  <2>1. ASSUME NEW c \in Buckets, NEW i \in 1 .. Len(hcl_head'[c])
        PROVE  Bucket(hclDigest'[hcl_head'[c][i]]) = c /\ hclRefcnt'[hcl_head'[c][i]] > 0
    <3>1. CASE c # b
      <4>1. hcl_head'[c] = hcl_head[c]
        BY <1>10, <3>1
      <4>2. Bucket(hclDigest[hcl_head[c][i]]) = c /\ hclRefcnt[hcl_head[c][i]] > 0
        BY <1>9, <4>1 DEF Belongs, Member
      <4> QED  BY <1>10, <1>12, <4>1, <4>2
    <3>2. CASE c = b
      <4>1. hcl_head'[c] = r /\ i \in 1 .. Len(q) + 1
        BY <1>7, <1>10, <3>2
      <4>2. \A j \in 1 .. Len(q) : Bucket(hclDigest[q[j]]) = b /\ hclRefcnt[q[j]] > 0
        BY <1>3, <1>9 DEF Belongs, Member
      <4>3. CASE i = k
        <5>1. r[i] = h
          BY <1>7, <4>1, <4>3
        <5> QED  BY <1>2, <1>10, <3>2, <4>1, <5>1
      <4>4. CASE i # k
        <5>1. PICK j \in 1 .. Len(q) : r[i] = q[j]
          <6>1. CASE i < k
            BY <1>5, <1>7, <1>8, <4>1, <6>1
          <6>2. CASE i > k
            <7>1. i - 1 \in 1 .. Len(q) /\ r[i] = q[i - 1]
              BY <1>5, <1>7, <1>8, <4>1, <6>2
            <7> QED  BY <7>1
          <6> QED  BY <1>5, <1>8, <4>1, <4>4, <6>1, <6>2
        <5> QED  BY <1>8, <1>10, <1>13, <3>2, <4>1, <4>2, <5>1
      <4> QED  BY <4>3, <4>4
    <3> QED  BY <3>1, <3>2
  <2> QED  BY <2>1 DEF Belongs, Member, Bucket
<1>15. AllSorted'
  <2>1. ASSUME NEW c \in Buckets, NEW i \in 1 .. Len(hcl_head'[c]), NEW j \in 1 .. Len(hcl_head'[c]), i < j
        PROVE  hclDigest'[hcl_head'[c][i]] < hclDigest'[hcl_head'[c][j]]
    <3>1. CASE c # b
      <4>1. hcl_head'[c] = hcl_head[c]
        BY <1>10, <3>1
      <4>2. hclDigest[hcl_head[c][i]] < hclDigest[hcl_head[c][j]]
        BY <1>9, <2>1, <4>1 DEF AllSorted, Sorted
      <4> QED  BY <1>10, <1>12, <4>1, <4>2
    <3>2. CASE c = b
      <4>1. hcl_head'[c] = r /\ i \in 1 .. Len(q) + 1 /\ j \in 1 .. Len(q) + 1
        BY <1>7, <1>10, <3>2
      <4>2. \A m, n \in 1 .. Len(q) : m < n => hclDigest[q[m]] < hclDigest[q[n]]
        BY <1>3, <1>9 DEF AllSorted, Sorted
      <4>3. \A m \in 1 .. Len(q) + 1 :
              /\ m < k => m \in 1 .. Len(q) /\ hclDigest'[r[m]] = hclDigest[q[m]]
              /\ m = k => hclDigest'[r[m]] = d
              /\ m > k => m - 1 \in 1 .. Len(q) /\ hclDigest'[r[m]] = hclDigest[q[m - 1]]
        <5>1. ASSUME NEW m \in 1 .. Len(q) + 1, m < k
              PROVE  m \in 1 .. Len(q) /\ hclDigest'[r[m]] = hclDigest[q[m]]
          BY <1>5, <1>7, <1>8, <1>13, <5>1
        <5>2. ASSUME NEW m \in 1 .. Len(q) + 1, m = k PROVE hclDigest'[r[m]] = d
          BY <1>7, <1>10, <5>2
        <5>3. ASSUME NEW m \in 1 .. Len(q) + 1, m > k
              PROVE  m - 1 \in 1 .. Len(q) /\ hclDigest'[r[m]] = hclDigest[q[m - 1]]
          <6>1. m - 1 \in 1 .. Len(q) /\ ~ (m < k) /\ m # k
            BY <1>5, <1>8, <5>3
          <6>2. r[m] = q[m - 1]
            BY <1>7, <6>1
          <6> QED  BY <1>13, <6>1, <6>2
        <5> QED  BY <5>1, <5>2, <5>3
      <4>4. hclDigest'[r[i]] < hclDigest'[r[j]]
        <5>1. i \in Nat /\ j \in Nat /\ k \in Nat
          BY <1>5, <1>8, <4>1
        <5>2. CASE j < k
          BY <2>1, <4>1, <4>2, <4>3, <5>1, <5>2
        <5>3. CASE j = k
          BY <1>5, <2>1, <4>1, <4>3, <5>1, <5>3
        <5>4. CASE j > k /\ i < k
          <6>1. /\ j - 1 \in 1 .. Len(q) /\ hclDigest'[r[j]] = hclDigest[q[j - 1]] /\ j - 1 >= k
                /\ i \in 1 .. Len(q) /\ hclDigest'[r[i]] = hclDigest[q[i]]
            BY <4>1, <4>3, <5>1, <5>4
          <6>2. hclDigest[q[i]] < d /\ hclDigest[q[j - 1]] > d
            BY <1>5, <5>4, <6>1
          <6>3. hclDigest[q[i]] \in Nat /\ hclDigest[q[j - 1]] \in Nat
            BY <1>13, <6>1
          <6> QED  BY <1>1, <6>1, <6>2, <6>3
        <5>5. CASE j > k /\ i = k
          <6>1. j - 1 \in 1 .. Len(q) /\ hclDigest'[r[j]] = hclDigest[q[j - 1]] /\ j - 1 >= k /\ hclDigest'[r[i]] = d
            BY <4>1, <4>3, <5>1, <5>5
          <6>2. hclDigest[q[j - 1]] > d /\ hclDigest[q[j - 1]] \in Nat
            BY <1>5, <1>13, <6>1
          <6> QED  BY <1>1, <6>1, <6>2
        <5>6. CASE j > k /\ i > k
          <6>1. /\ j - 1 \in 1 .. Len(q) /\ hclDigest'[r[j]] = hclDigest[q[j - 1]]
                /\ i - 1 \in 1 .. Len(q) /\ hclDigest'[r[i]] = hclDigest[q[i - 1]] /\ i - 1 < j - 1
            BY <2>1, <4>1, <4>3, <5>1, <5>6
          <6>2. hclDigest[q[i - 1]] < hclDigest[q[j - 1]]
            BY <4>2, <6>1
          <6> QED  BY <6>1, <6>2
        <5> QED  BY <5>1, <5>2, <5>3, <5>4, <5>5, <5>6
      <4> QED  BY <4>1, <4>4
    <3> QED  BY <3>1, <3>2
  <2> QED  BY <2>1 DEF AllSorted, Sorted
<1>16. FoundOnList'
  <2>1. ASSUME NEW g \in Heads, hclRefcnt'[g] > 0
        PROVE  /\ hclDigest'[g] \in hclDigests
               /\ \E i \in 1 .. Len(hcl_head'[Bucket(hclDigest'[g])]) : hcl_head'[Bucket(hclDigest'[g])][i] = g
    <3>1. CASE g = h
      <4>1. hclDigest'[g] = d /\ hcl_head'[Bucket(d)] = r
        BY <1>2, <1>10, <3>1
      <4>2. k \in 1 .. Len(r) /\ r[k] = h
        BY <1>5, <1>7, <1>8
      <4> QED  BY <3>1, <4>1, <4>2
    <3>2. CASE g # h
      <4>1. hclDigest'[g] = hclDigest[g] /\ hclRefcnt[g] > 0
        BY <1>10, <2>1, <3>2
      <4>2. hclDigest[g] \in hclDigests /\ IsListed(g) /\ hclDigest[g] \in Nat
        BY <1>9, <4>1 DEF FoundOnList, ListTypes
      <4>3. PICK c \in Buckets : c = Bucket(hclDigest[g])
        BY <4>2, BucketOf
      <4>4. PICK i \in 1 .. Len(hcl_head[c]) : hcl_head[c][i] = g
        BY <4>2, <4>3 DEF IsListed
      <4>5. \E j \in 1 .. Len(hcl_head'[c]) : hcl_head'[c][j] = g
        <5>1. CASE c # b
          BY <1>10, <4>4, <5>1
        <5>2. CASE c = b
          <6>1. hcl_head'[c] = r /\ i \in 1 .. Len(q) /\ q[i] = g
            BY <1>3, <1>10, <4>4, <5>2
          <6>2. CASE i < k
            BY <1>5, <1>7, <1>8, <6>1, <6>2
          <6>3. CASE i >= k
            <7>1. i + 1 \in 1 .. Len(q) + 1 /\ ~ (i + 1 < k) /\ i + 1 # k /\ (i + 1) - 1 = i
              BY <1>5, <1>8, <6>1, <6>3
            <7>2. r[i + 1] = q[i]
              BY <1>7, <7>1
            <7> QED  BY <1>7, <6>1, <7>1, <7>2
          <6> QED  BY <1>5, <1>8, <6>1, <6>2, <6>3
        <5> QED  BY <5>1, <5>2
      <4> QED  BY <4>1, <4>2, <4>3, <4>5
    <3> QED  BY <3>1, <3>2
  <2> QED  BY <2>1 DEF FoundOnList, IsListed, Bucket
<1>17. Counted'
  <2>1. ASSUME NEW g \in Heads PROVE hclRefcnt'[g] = Count(hclHeld', g)
    <3>1. Count(hclHeld', g) = (hclRefcnt[g] + (IF h = g THEN 1 ELSE 0)) - (IF hclHeld[t] = g THEN 1 ELSE 0)
      BY <1>4, <1>9, CountMoves
    <3>2. hclHeld[t] # g /\ hclRefcnt[g] \in Nat
      BY <1>4, <1>9, ListFacts DEF ListTypes
    <3> QED  BY <1>4, <1>10, <3>1, <3>2
  <2> QED  BY <2>1 DEF Counted
<1> QED  BY <1>11, <1>14, <1>15, <1>16, <1>17 DEF ListIInv

\* What is left on the lists when an objhead is given back.
LEMMA ListDerefStep ==
  ASSUME ListIInv, NEW t \in Threads, hcl_deref(t)
  PROVE  ListIInv'
<1>1. ListTypes /\ Belongs /\ AllSorted /\ FoundOnList /\ Counted
  BY DEF ListIInv
<1>2. PICK h : h = hclHeld[t]
  OBVIOUS
<1>3. h # None /\ h \in Heads /\ hclRefcnt[h] \in Nat /\ hclRefcnt[h] > 0
  BY <1>1, <1>2, HeldCounts DEF hcl_deref
<1>4. PICK b \in Buckets : b = Bucket(hclDigest[h])
  BY <1>1, <1>3, BucketOf DEF ListTypes
<1>5. /\ hclRefcnt' = [hclRefcnt EXCEPT ![h] = @ - 1]
      /\ hcl_head' = IF hclRefcnt[h] = 1 THEN [hcl_head EXCEPT ![b] = RemoveFirst(@, h)] ELSE hcl_head
      /\ hclHeld' = [hclHeld EXCEPT ![t] = None] /\ hclDigest' = hclDigest
  BY <1>2, <1>4 DEF hcl_deref
<1>6. /\ hclRefcnt' \in [Heads -> Nat] /\ hclHeld' \in [Threads -> Heads \cup {None}]
      /\ \A g \in Heads : hclRefcnt'[g] = IF g = h THEN hclRefcnt[g] - 1 ELSE hclRefcnt[g]
  <2>1. hclRefcnt \in [Heads -> Nat] /\ hclRefcnt[h] - 1 \in Nat /\ hclHeld \in [Threads -> Heads \cup {None}]
    BY <1>1, <1>3 DEF ListTypes
  <2> QED  BY <1>3, <1>5, <2>1
<1>7. Counted'
  <2>1. ASSUME NEW g \in Heads PROVE hclRefcnt'[g] = Count(hclHeld', g)
    <3>1. Count(hclHeld', g) = (hclRefcnt[g] + (IF None = g THEN 1 ELSE 0)) - (IF h = g THEN 1 ELSE 0)
      <4>1. None \in Heads \cup {None} /\ hclHeld' = [hclHeld EXCEPT ![t] = None]
        BY <1>5
      <4>2. Count(hclHeld', g) = (hclRefcnt[g] + (IF None = g THEN 1 ELSE 0)) - (IF hclHeld[t] = g THEN 1 ELSE 0)
        BY <1>1, <4>1, CountMoves, ZenonT(60)
      <4> QED  BY <1>2, <4>2, Zenon
    <3>2. None # g /\ hclRefcnt[g] \in Nat
      BY <1>1, ListFacts DEF ListTypes
    <3> QED  BY <1>6, <3>1, <3>2
  <2> QED  BY <2>1 DEF Counted
<1>8. \A c \in Buckets : \A i \in 1 .. Len(hcl_head[c]) :
        /\ hcl_head[c][i] \in Heads
        /\ Bucket(hclDigest[hcl_head[c][i]]) = c /\ hclRefcnt[hcl_head[c][i]] > 0
  BY <1>1, LenProperties DEF ListTypes, Belongs, Member
<1>9. CASE hclRefcnt[h] # 1
  <2>1. hcl_head' = hcl_head
    BY <1>5, <1>9
  <2>2. \A g \in Heads : hclRefcnt'[g] > 0 <=> hclRefcnt[g] > 0
    <3>1. \A g \in Heads : hclRefcnt[g] \in Nat
      BY <1>1 DEF ListTypes
    <3>2. ASSUME NEW g \in Heads PROVE hclRefcnt'[g] > 0 <=> hclRefcnt[g] > 0
      <4>1. CASE g = h
        BY <1>3, <1>6, <1>9, <3>1, <4>1
      <4>2. CASE g # h
        BY <1>6, <4>2
      <4> QED  BY <4>1, <4>2
    <3> QED  BY <3>2
  <2>3. ListTypes'
    BY <1>1, <1>5, <1>6, <2>1 DEF ListTypes
  <2>4. Belongs'
    BY <1>5, <1>8, <2>1, <2>2 DEF Belongs, Member, Bucket
  <2>5. AllSorted'
    BY <1>1, <1>5, <2>1 DEF AllSorted, Sorted
  <2>6. FoundOnList'
    BY <1>1, <1>5, <2>1, <2>2 DEF FoundOnList, IsListed, Bucket
  <2> QED  BY <1>7, <2>3, <2>4, <2>5, <2>6 DEF ListIInv
<1>10. CASE hclRefcnt[h] = 1
  <2>1. PICK q : q = hcl_head[b]
    OBVIOUS
  <2>2. PICK k \in 1 .. Len(q) : q[k] = h
    BY <1>1, <1>3, <1>4, <2>1 DEF FoundOnList, IsListed
  <2>3. q \in Seq(Heads) /\ Len(q) \in Nat
    BY <1>1, <2>1, LenProperties DEF ListTypes
  <2>4. \A i \in 1 .. Len(q) : q[i] = h => i = k
    BY <2>1, <2>2, OnceListed
  <2>5. PICK r : r = RemoveFirst(q, h)
    OBVIOUS
  <2>6. /\ r \in Seq(Heads) /\ Len(r) = Len(q) - 1
        /\ \A i \in 1 .. Len(q) - 1 : r[i] = IF i < k THEN q[i] ELSE q[i + 1]
    BY <2>2, <2>3, <2>4, <2>5, Removed
  <2>7. \A c \in Buckets : hcl_head'[c] = IF c = b THEN r ELSE hcl_head[c]
    BY <1>1, <1>5, <1>10, <2>1, <2>5 DEF ListTypes
  <2>8. ListTypes'
    <3>1. hcl_head' \in [Buckets -> Seq(Heads)]
      BY <1>1, <1>5, <1>10, <2>1, <2>5, <2>6 DEF ListTypes
    <3> QED  BY <1>1, <1>5, <1>6, <3>1 DEF ListTypes
  <2>9. \A g \in Heads : g # h => hclRefcnt'[g] = hclRefcnt[g]
    BY <1>6
  <2>10. \A i \in 1 .. Len(r) : \E j \in 1 .. Len(q) :
           r[i] = q[j] /\ j # k /\ j = IF i < k THEN i ELSE i + 1
    <3>1. ASSUME NEW i \in 1 .. Len(r)
          PROVE  \E j \in 1 .. Len(q) : r[i] = q[j] /\ j # k /\ j = IF i < k THEN i ELSE i + 1
      <4>1. CASE i < k
        BY <2>2, <2>3, <2>6, <4>1
      <4>2. CASE ~ (i < k)
        <5>1. i + 1 \in 1 .. Len(q) /\ r[i] = q[i + 1] /\ i + 1 # k
          BY <2>2, <2>3, <2>6, <4>2
        <5> QED  BY <4>2, <5>1
      <4> QED  BY <4>1, <4>2
    <3> QED  BY <3>1
  <2>11. \A c \in Buckets : c # b => \A i \in 1 .. Len(hcl_head[c]) : hcl_head[c][i] # h
    BY <1>4, <1>8
  <2>12. Belongs'
    <3>1. ASSUME NEW c \in Buckets, NEW i \in 1 .. Len(hcl_head'[c])
          PROVE  Bucket(hclDigest[hcl_head'[c][i]]) = c /\ hclRefcnt'[hcl_head'[c][i]] > 0
      <4>1. CASE c # b
        <5>1. hcl_head'[c] = hcl_head[c] /\ hcl_head[c][i] # h
          BY <2>7, <2>11, <4>1
        <5> QED  BY <1>8, <2>9, <5>1
      <4>2. CASE c = b
        <5>1. hcl_head'[c] = r
          BY <2>7, <4>2
        <5>2. PICK j \in 1 .. Len(q) : r[i] = q[j] /\ j # k
          BY <2>10, <5>1
        <5>3. q[j] # h
          BY <2>4, <5>2
        <5> QED  BY <1>8, <2>1, <2>9, <4>2, <5>1, <5>2, <5>3
      <4> QED  BY <4>1, <4>2
    <3> QED  BY <1>5, <3>1 DEF Belongs, Member, Bucket
  <2>13. AllSorted'
    <3>1. ASSUME NEW c \in Buckets, NEW i \in 1 .. Len(hcl_head'[c]), NEW j \in 1 .. Len(hcl_head'[c]), i < j
          PROVE  hclDigest[hcl_head'[c][i]] < hclDigest[hcl_head'[c][j]]
      <4>1. CASE c # b
        <5>1. hcl_head'[c] = hcl_head[c]
          BY <2>7, <4>1
        <5> QED  BY <1>1, <3>1, <5>1 DEF AllSorted, Sorted
      <4>2. CASE c = b
        <5>1. hcl_head'[c] = r
          BY <2>7, <4>2
        <5>2. PICK m \in 1 .. Len(q) : r[i] = q[m] /\ m = IF i < k THEN i ELSE i + 1
          BY <2>10, <5>1
        <5>3. PICK n \in 1 .. Len(q) : r[j] = q[n] /\ n = IF j < k THEN j ELSE j + 1
          BY <2>10, <5>1
        <5>4. i \in Nat /\ j \in Nat /\ k \in Nat
          BY <2>2, <2>3, <2>6, <5>1
        <5>5. m < n
          BY <3>1, <5>2, <5>3, <5>4
        <5>6. hclDigest[q[m]] < hclDigest[q[n]]
          BY <1>1, <2>1, <5>5 DEF AllSorted, Sorted
        <5> QED  BY <5>1, <5>2, <5>3, <5>6
      <4> QED  BY <4>1, <4>2
    <3> QED  BY <1>5, <3>1 DEF AllSorted, Sorted
  <2>14. FoundOnList'
    <3>1. ASSUME NEW g \in Heads, hclRefcnt'[g] > 0
          PROVE  /\ hclDigest[g] \in hclDigests
                 /\ \E i \in 1 .. Len(hcl_head'[Bucket(hclDigest[g])]) : hcl_head'[Bucket(hclDigest[g])][i] = g
      <4>1. g # h
        BY <1>6, <1>10, <3>1
      <4>2. hclRefcnt[g] > 0
        BY <2>9, <3>1, <4>1
      <4>3. hclDigest[g] \in hclDigests /\ IsListed(g) /\ hclDigest[g] \in Nat
        BY <1>1, <4>2 DEF FoundOnList, ListTypes
      <4>4. PICK c \in Buckets : c = Bucket(hclDigest[g])
        BY <4>3, BucketOf
      <4>5. PICK i \in 1 .. Len(hcl_head[c]) : hcl_head[c][i] = g
        BY <4>3, <4>4 DEF IsListed
      <4>6. \E j \in 1 .. Len(hcl_head'[c]) : hcl_head'[c][j] = g
        <5>1. CASE c # b
          BY <2>7, <4>5, <5>1
        <5>2. CASE c = b
          <6>1. hcl_head'[c] = r /\ i \in 1 .. Len(q) /\ q[i] = g /\ i # k
            BY <2>1, <2>2, <2>7, <4>1, <4>5, <5>2
          <6>2. CASE i < k
            <7>1. i \in 1 .. Len(r) /\ r[i] = q[i]
              BY <2>2, <2>3, <2>6, <6>1, <6>2
            <7> QED  BY <6>1, <7>1
          <6>3. CASE i > k
            <7>1. i - 1 \in 1 .. Len(q) - 1 /\ ~ (i - 1 < k) /\ (i - 1) + 1 = i
              BY <2>2, <2>3, <6>1, <6>3
            <7>2. r[i - 1] = q[i]
              BY <2>6, <7>1
            <7> QED  BY <2>6, <6>1, <7>1, <7>2
          <6> QED  BY <2>2, <2>3, <6>1, <6>2, <6>3
        <5> QED  BY <5>1, <5>2
      <4> QED  BY <4>3, <4>4, <4>6
    <3> QED  BY <1>5, <3>1 DEF FoundOnList, IsListed, Bucket
  <2> QED  BY <1>7, <2>8, <2>12, <2>13, <2>14 DEF ListIInv
<1> QED  BY <1>9, <1>10

\* The invariant of the lists holds at the start.
LEMMA ListInit ==
  ASSUME hcl_start
  PROVE  ListIInv
<1>1. Buckets = 0 .. hcl_nhash - 1 /\ \A b \in Buckets : hcl_head[b] = <<>> /\ Len(hcl_head[b]) = 0
  BY DEF hcl_start, Buckets
<1>2. ListTypes
  BY DEF hcl_start, ListTypes, Buckets
<1>3. Belongs /\ AllSorted
  BY <1>1 DEF Belongs, AllSorted, Sorted
<1>4. \A h \in Heads : hclRefcnt[h] = 0
  BY DEF hcl_start
<1>5. FoundOnList
  BY <1>4 DEF FoundOnList
<1>6. Counted
  <2>1. DOMAIN hclHeld = Threads /\ \A t \in Threads : hclHeld[t] = None
    BY DEF hcl_start
  <2>2. ASSUME NEW h \in Heads PROVE Count(hclHeld, h) = 0
    <3>1. \A t \in DOMAIN hclHeld : hclHeld[t] # h
      BY <2>1, ListFacts
    <3>2. IsFiniteSet(DOMAIN hclHeld)
      BY <2>1, ListFacts
    <3> QED  BY <3>1, <3>2, CountZero
  <2> QED  BY <1>4, <2>2 DEF Counted
<1> QED  BY <1>2, <1>3, <1>5, <1>6 DEF ListIInv

\* The invariant of the lists is kept by every step.
LEMMA ListStep ==
  ASSUME ListIInv, [hclNext]_listVars
  PROVE  ListIInv'
<1>1. CASE hclNext
  BY <1>1, FindStep, InsertStep, ListDerefStep DEF hclNext
<1>2. CASE UNCHANGED listVars
  BY <1>2 DEF listVars, ListIInv, ListTypes, Belongs, Member, AllSorted, Sorted, FoundOnList, IsListed, Counted, Bucket
<1> QED  BY <1>1, <1>2

\* The invariant of the lists.
LEMMA ListAlways ==
  hclSpec => []ListIInv
  BY ListInit, ListStep, PTL DEF hclSpec

\* For any threads, objheads, digests and buckets: the lists of hash_classic.c
\* are strictly sorted and hold only objheads of their bucket that are referred
\* to.
THEOREM ListsTheorem ==
  hclSpec => []ListsSorted
<1>1. ListIInv => ListsSorted
  <2> SUFFICES ASSUME ListIInv PROVE ListsSorted
    OBVIOUS
  <2>1. DOMAIN hcl_head = Buckets /\ \A b \in Buckets : DOMAIN hcl_head[b] = 1 .. Len(hcl_head[b])
    BY LenProperties DEF ListIInv, ListTypes
  <2>2. \A b \in Buckets : \A i \in 1 .. Len(hcl_head[b]) :
          Bucket(hclDigest[hcl_head[b][i]]) = b /\ hclRefcnt[hcl_head[b][i]] > 0
    BY DEF ListIInv, Belongs, Member
  <2>3. \A b \in Buckets : \A i, j \in 1 .. Len(hcl_head[b]) :
          i < j => hclDigest[hcl_head[b][i]] < hclDigest[hcl_head[b][j]]
    BY DEF ListIInv, AllSorted, Sorted
  <2> QED  BY <2>1, <2>2, <2>3 DEF ListsSorted
<1> QED  BY <1>1, ListAlways, PTL

-----------------------------------------------------------------------------
(* The lists implement HashSlinger *)

IsOf(h, d) == h \in Heads /\ hclRefcnt[h] > 0 /\ hclDigest[h] = d

\* The objhead of a digest is the one with that digest that is referred to.
TableRight ==
  \A d \in hclDigests : /\ \A h \in Heads : IsOf(h, d) => Listed(d) = h
                        /\ Listed(d) # None => IsOf(Listed(d), d)

\* What a scan finds is the one objhead of the digest that is referred to.
LEMMA TableNow ==
  ListIInv => TableRight
<1> SUFFICES ASSUME ListIInv, NEW d \in hclDigests
             PROVE  /\ \A h \in Heads : IsOf(h, d) => Listed(d) = h
                    /\ Listed(d) # None => IsOf(Listed(d), d)
  BY DEF TableRight
<1> DEFINE found == {h \in Heads : hclDigest[h] = d /\ h \in ToSet(hcl_head[Bucket(d)])}
<1>1. PICK b \in Buckets : b = Bucket(d)
  BY BucketOf, ListFacts
<1>2. hcl_head[b] \in Seq(Heads)
  BY DEF ListIInv, ListTypes
<1>3. found = {h \in Heads : IsOf(h, d)}
  <2>1. ASSUME NEW h \in found PROVE IsOf(h, d)
    <3>1. PICK i \in 1 .. Len(hcl_head[b]) : hcl_head[b][i] = h
      BY <1>1, <1>2, SeqSet
    <3>2. hclRefcnt[h] > 0
      BY <3>1 DEF ListIInv, Belongs, Member
    <3> QED  BY <3>2 DEF IsOf
  <2>2. ASSUME NEW h \in Heads, IsOf(h, d) PROVE h \in found
    <3>1. \E i \in 1 .. Len(hcl_head[b]) : hcl_head[b][i] = h
      BY <1>1, <2>2 DEF ListIInv, FoundOnList, IsListed, IsOf
    <3>2. h \in ToSet(hcl_head[b])
      BY <1>2, <3>1, SeqSet
    <3> QED  BY <1>1, <2>2, <3>2 DEF IsOf
  <2> QED  BY <2>1, <2>2
<1>4. \A g, h \in Heads : IsOf(g, d) /\ IsOf(h, d) => g = h
  BY OnePerDigest DEF IsOf
<1>5. Listed(d) = IF found = {} THEN None ELSE CHOOSE h \in found : TRUE
  BY DEF Listed
<1> HIDE DEF found
<1>6. CASE found = {}
  BY <1>3, <1>5, <1>6
<1>7. CASE found # {}
  <2>1. Listed(d) \in found
    BY <1>5, <1>7
  <2> QED  BY <1>3, <1>4, <2>1
<1> QED  BY <1>6, <1>7

\* The same of the next state.
LEMMA TableNext ==
  ListIInv' => TableRight'
  BY TableNow, PTL

ListTable == [d \in hclDigests |-> Listed(d)]

\* A lookup that finds is the abstract table's.
LEMMA FindRefines ==
  ASSUME ListIInv, TableRight, TableRight',
         NEW t \in Threads, NEW d \in hclDigests, LookupFind(t, d)
  PROVE  ListAbstract!Lookup(t, d)
<1>1. d \in Nat
  BY ListFacts
<1>2. PICK q, k : q = hcl_head[Bucket(d)] /\ k = Scan(q, d)
  OBVIOUS
<1>3. PICK h : h = q[k]
  OBVIOUS
<1>4. /\ hclHeld[t] = None /\ k \in DOMAIN q /\ hclDigest[h] = d
      /\ hclRefcnt' = [hclRefcnt EXCEPT ![h] = @ + 1] /\ hclHeld' = [hclHeld EXCEPT ![t] = h]
      /\ hcl_head' = hcl_head /\ hclDigest' = hclDigest
  BY <1>2, <1>3 DEF LookupFind
<1>5. h \in Heads /\ hclRefcnt[h] > 0
  BY <1>1, <1>2, <1>3, <1>4, ScanFinds
<1>6. Listed(d) = h /\ h # None
  BY <1>4, <1>5, ListFacts DEF TableRight, IsOf
<1>7. h \in ListAbstract!Found(d)
  BY <1>6 DEF ListAbstract!Found, ListAbstract!None, None
<1>8. ListTable' = ListTable
  BY <1>4 DEF ListTable, Listed, Bucket
<1>9. ListTable = [ListTable EXCEPT ![d] = h]
  BY <1>6 DEF ListTable
<1> QED  BY <1>4, <1>7, <1>8, <1>9 DEF ListAbstract!Lookup, ListAbstract!None, None, ListTable

\* A lookup that inserts is the abstract table's.
LEMMA InsertRefines ==
  ASSUME ListIInv, TableRight, TableRight',
         NEW t \in Threads, NEW d \in hclDigests, LookupInsert(t, d)
  PROVE  ListAbstract!Lookup(t, d)
<1>1. d \in Nat
  BY ListFacts
<1>2. PICK q, k : q = hcl_head[Bucket(d)] /\ k = Scan(q, d)
  OBVIOUS
<1>3. PICK h \in Heads :
        /\ hclHeld[t] = None /\ hclRefcnt[h] = 0
        /\ ~ (k \in DOMAIN q /\ hclDigest[q[k]] = d)
        /\ hclDigest' = [hclDigest EXCEPT ![h] = d]
        /\ hclRefcnt' = [hclRefcnt EXCEPT ![h] = 1]
        /\ hclHeld' = [hclHeld EXCEPT ![t] = h]
  BY <1>2 DEF LookupInsert
<1>4. \A g \in Heads : hclDigest[g] = d => hclRefcnt[g] = 0
  BY <1>1, <1>2, <1>3, ScanFinds
<1>5. Listed(d) = None
  BY <1>4 DEF TableRight, IsOf
<1>6. \A e \in hclDigests : Listed(e) # h
  BY <1>3, ListFacts DEF TableRight, IsOf
<1>7. h \in ListAbstract!Found(d)
  BY <1>3, <1>5, <1>6 DEF ListAbstract!Found, ListAbstract!None, None
<1>8. /\ \A g \in Heads : hclDigest'[g] = IF g = h THEN d ELSE hclDigest[g]
      /\ \A g \in Heads : hclRefcnt'[g] = IF g = h THEN 1 ELSE hclRefcnt[g]
  BY <1>3 DEF ListIInv, ListTypes
<1>9. \A e \in hclDigests : Listed(e)' = IF e = d THEN h ELSE Listed(e)
  <2>1. ASSUME NEW e \in hclDigests PROVE Listed(e)' = IF e = d THEN h ELSE Listed(e)
    <3>1. /\ \A g \in Heads : hclRefcnt'[g] > 0 /\ hclDigest'[g] = e => Listed(e)' = g
          /\ Listed(e)' # None => /\ Listed(e)' \in Heads /\ hclRefcnt'[Listed(e)'] > 0
                                  /\ hclDigest'[Listed(e)'] = e
      BY DEF TableRight, IsOf
    <3>2. CASE e = d
      BY <1>3, <1>8, <3>1, <3>2
    <3>3. CASE e # d /\ Listed(e) # None
      <4>1. Listed(e) \in Heads /\ hclRefcnt[Listed(e)] > 0 /\ hclDigest[Listed(e)] = e
        BY <3>3 DEF TableRight, IsOf
      <4>2. Listed(e) # h
        BY <1>6
      <4> QED  BY <1>8, <3>1, <3>3, <4>1, <4>2
    <3>4. CASE e # d /\ Listed(e) = None
      <4>1. \A g \in Heads : hclRefcnt[g] > 0 => hclDigest[g] # e
        BY <3>4, ListFacts DEF TableRight, IsOf
      <4>2. Listed(e)' = None
        BY <1>8, <3>1, <3>4, <4>1
      <4> QED  BY <3>4, <4>2
    <3> QED  BY <3>2, <3>3, <3>4
  <2> QED  BY <2>1
<1>10. ListTable' = [ListTable EXCEPT ![d] = h]
  BY <1>9 DEF ListTable
<1>11. hclRefcnt' = [hclRefcnt EXCEPT ![h] = @ + 1]
  <2>1. hclRefcnt[h] + 1 = 1
    BY <1>3
  <2> QED  BY <1>3, <2>1
<1> QED  BY <1>3, <1>7, <1>10, <1>11 DEF ListAbstract!Lookup, ListAbstract!None, None, ListTable

\* A deref, last or not, is the abstract table's.
LEMMA DerefRefines ==
  ASSUME ListIInv, TableRight, TableRight', NEW t \in Threads, hcl_deref(t)
  PROVE  ListAbstract!Deref(t)
<1>1. PICK h : h = hclHeld[t]
  OBVIOUS
<1>2. h # None /\ h \in Heads /\ hclRefcnt[h] \in Nat /\ hclRefcnt[h] > 0
  BY <1>1, HeldCounts DEF hcl_deref, ListIInv
<1>3. /\ hclRefcnt' = [hclRefcnt EXCEPT ![h] = @ - 1] /\ hclHeld' = [hclHeld EXCEPT ![t] = None]
      /\ hclDigest' = hclDigest
  BY <1>1 DEF hcl_deref
<1>4. \A g \in Heads : hclRefcnt'[g] = IF g = h THEN hclRefcnt[g] - 1 ELSE hclRefcnt[g]
  BY <1>2, <1>3 DEF ListIInv, ListTypes
<1>5. ASSUME NEW e \in hclDigests
      PROVE  Listed(e)' = IF Listed(e) = h /\ hclRefcnt[h] = 1 THEN None ELSE Listed(e)
  <2>1. /\ \A g \in Heads : hclRefcnt'[g] > 0 /\ hclDigest[g] = e => Listed(e)' = g
        /\ Listed(e)' # None => /\ Listed(e)' \in Heads /\ hclRefcnt'[Listed(e)'] > 0
                                /\ hclDigest[Listed(e)'] = e
    BY <1>3 DEF TableRight, IsOf
  <2>2. /\ \A g \in Heads : hclRefcnt[g] > 0 /\ hclDigest[g] = e => Listed(e) = g
        /\ Listed(e) # None => /\ Listed(e) \in Heads /\ hclRefcnt[Listed(e)] > 0
                               /\ hclDigest[Listed(e)] = e
    BY DEF TableRight, IsOf
  <2>3. \A g \in Heads : hclRefcnt[g] \in Nat
    BY DEF ListIInv, ListTypes
  <2>4. None \notin Heads
    BY ListFacts
  <2>5. CASE Listed(e) = h /\ hclRefcnt[h] = 1
    <3>1. ASSUME Listed(e)' # None PROVE FALSE
      <4>1. PICK g \in Heads : hclRefcnt'[g] > 0 /\ hclDigest[g] = e
        BY <2>1, <3>1
      <4>2. g # h /\ hclRefcnt[g] > 0
        BY <1>2, <1>4, <2>5, <4>1
      <4> QED  BY <2>2, <2>5, <4>1, <4>2
    <3> QED  BY <2>5, <3>1
  <2>6. CASE Listed(e) = h /\ hclRefcnt[h] # 1
    <3>1. hclRefcnt'[h] > 0 /\ hclDigest[h] = e
      BY <1>2, <1>4, <2>2, <2>6
    <3> QED  BY <1>2, <2>1, <2>6, <3>1
  <2>7. CASE Listed(e) # h /\ Listed(e) # None
    <3>1. Listed(e) \in Heads /\ hclRefcnt'[Listed(e)] > 0 /\ hclDigest[Listed(e)] = e
      BY <1>4, <2>2, <2>7
    <3> QED  BY <2>1, <2>7, <3>1
  <2>8. CASE Listed(e) = None
    <3>1. ASSUME Listed(e)' # None PROVE FALSE
      <4>1. PICK g \in Heads : hclRefcnt'[g] > 0 /\ hclDigest[g] = e
        BY <2>1, <3>1
      <4>2. hclRefcnt[g] > 0
        BY <1>2, <1>4, <2>3, <4>1
      <4> QED  BY <2>2, <2>4, <2>8, <4>1, <4>2
    <3> QED  BY <1>2, <2>8, <3>1
  <2> QED  BY <2>5, <2>6, <2>7, <2>8
<1>6. ListTable' = [e \in hclDigests |-> IF ListTable[e] = h /\ hclRefcnt[h] = 1 THEN None ELSE ListTable[e]]
  BY <1>5 DEF ListTable
<1> QED  BY <1>1, <1>2, <1>3, <1>6 DEF ListAbstract!Deref, ListAbstract!None, None, ListTable

\* Every step of the lists is one of the abstract table or none.
LEMMA ListRefines ==
  ASSUME ListIInv, ListIInv', [hclNext]_listVars
  PROVE  [ListAbstract!Next]_(ListAbstract!vars)
<1>1. TableRight /\ TableRight'
  BY TableNow, TableNext
<1>2. CASE hclNext
  <2>1. CASE \E t \in Threads : \E d \in hclDigests : LookupFind(t, d)
    BY <1>1, <2>1, FindRefines DEF ListAbstract!Next
  <2>2. CASE \E t \in Threads : \E d \in hclDigests : LookupInsert(t, d)
    BY <1>1, <2>2, InsertRefines DEF ListAbstract!Next
  <2>3. CASE \E t \in Threads : hcl_deref(t)
    BY <1>1, <2>3, DerefRefines DEF ListAbstract!Next
  <2> QED  BY <1>2, <2>1, <2>2, <2>3 DEF hclNext
<1>3. CASE UNCHANGED listVars
  <2>1. ListTable' = ListTable
    BY <1>3 DEF listVars, ListTable, Listed, Bucket
  <2> QED  BY <1>3, <2>1 DEF listVars, ListAbstract!vars, ListTable
<1> QED  BY <1>2, <1>3

\* Empty lists are the empty table.
LEMMA ListInitRefines ==
  ASSUME hcl_start
  PROVE  ListAbstract!Init
<1>1. ListIInv /\ \A h \in Heads : hclRefcnt[h] = 0
  BY ListInit DEF hcl_start
<1>2. TableRight
  BY <1>1, TableNow
<1>3. \A d \in hclDigests : Listed(d) = None
  BY <1>1, <1>2 DEF TableRight, IsOf
<1>4. ListTable = [d \in hclDigests |-> None]
  BY <1>3 DEF ListTable
<1> QED  BY <1>4 DEF hcl_start, ListAbstract!Init, ListAbstract!None, None, ListTable

\* For any threads, objheads, digests and buckets: hcl_lookup and hcl_deref (with
\* one bucket, hsl_lookup and hsl_deref) are the atomic lookup and deref of a
\* table from digests to objheads.
THEOREM ListsImplementSlinger ==
  hclSpec => ListsKeepPromise
<1>1. hcl_start => ListAbstract!Init
  BY ListInitRefines
<1>2. ListIInv /\ ListIInv' /\ [hclNext]_listVars => [ListAbstract!Next]_(ListAbstract!vars)
  BY ListRefines
<1> QED  BY <1>1, <1>2, ListAlways, PTL DEF hclSpec, ListsKeepPromise, ListAbstract!Spec

-----------------------------------------------------------------------------
(* Bits of a digest *)

Full == [1 .. DIGEST_LEN -> Bytes]
BitLen == DIGEST_LEN * ByteBits

\* Division and remainder of u * B + r.
LEMMA DivMod ==
  ASSUME NEW B \in Nat \ {0}, NEW u \in Nat, NEW r \in 0 .. B - 1
  PROVE  (u * B + r) \div B = u /\ (u * B + r) % B = r
<1>1. (u * B + r) \div B = u
  OBVIOUS
<1>2. (u * B + r) % B = r
  OBVIOUS
<1> QED  BY <1>1, <1>2

\* A number from its quotient and remainder.
LEMMA ModDiv ==
  ASSUME NEW B \in Nat \ {0}, NEW m \in Nat
  PROVE  m = (m \div B) * B + (m % B) /\ m % B \in 0 .. B - 1 /\ m \div B \in Nat
  OBVIOUS

\* Where bit m is: in a byte of the digest.
LEMMA BitPlace ==
  ASSUME NEW m \in 0 .. BitLen - 1
  PROVE  /\ m \in Nat /\ m \div ByteBits \in Nat /\ m \div ByteBits + 1 \in 1 .. DIGEST_LEN
         /\ m % ByteBits \in 0 .. ByteBits - 1
         /\ m = (m \div ByteBits) * ByteBits + (m % ByteBits)
<1>1. ByteBits \in Nat \ {0} /\ DIGEST_LEN \in Nat \ {0}
  BY HashAssumption
<1>2. BitLen \in Nat /\ m \in Nat /\ m < DIGEST_LEN * ByteBits
  BY <1>1 DEF BitLen
<1>3. PICK q, r : q = m \div ByteBits /\ r = m % ByteBits
  OBVIOUS
<1>4. m = q * ByteBits + r /\ r \in 0 .. ByteBits - 1 /\ q \in Nat
  BY <1>1, <1>2, <1>3, ModDiv
<1>5. q < DIGEST_LEN
  <2>1. ASSUME q >= DIGEST_LEN PROVE FALSE
    <3>1. q * ByteBits >= DIGEST_LEN * ByteBits
      BY <1>1, <1>4, <2>1
    <3>2. q * ByteBits \in Nat /\ DIGEST_LEN * ByteBits \in Nat
      BY <1>1, <1>4
    <3> QED  BY <1>1, <1>2, <1>4, <3>1, <3>2
  <2> QED  BY <1>1, <1>4, <2>1
<1> QED  BY <1>1, <1>2, <1>3, <1>4, <1>5

\* A bit of a byte is 0 or 1.
LEMMA BitType ==
  ASSUME NEW x \in Bytes, NEW r \in 0 .. ByteBits - 1
  PROVE  ByteBit(x, r) \in 0 .. 1
<1>1. ByteBits \in Nat \ {0}
  BY HashAssumption
<1>2. PICK n : n = (ByteBits - 1) - r
  OBVIOUS
<1>3. n \in 0 .. ByteBits
  BY <1>1, <1>2
<1>4. 2 ^ n \in Int /\ 2 ^ n > 0
  BY <1>3, ByteAssumption
<1>5. x \in Nat
  BY <1>1 DEF Bytes
<1>6. PICK e \in Nat \ {0} : e = 2 ^ n
  BY <1>4
<1>7. (x \div e) % 2 \in 0 .. 1
  BY <1>5
<1>8. ByteBits - 1 - r = n
  BY <1>1, <1>2
<1> QED  BY <1>6, <1>7, <1>8 DEF ByteBit

\* The side of a y that a digest goes to.
LEMMA SideType ==
  ASSUME NEW d \in Full, NEW m \in 0 .. BitLen - 1
  PROVE  Side(d, m) \in 0 .. 1
  BY BitPlace, BitType DEF Side, Full

\* hcb_crit_bit is the first bit in which two digests differ.
LEMMA CritBit ==
  ASSUME NEW a \in Full, NEW b \in Full, a # b
  PROVE  /\ hcb_crit_bit(a, b) \in 0 .. BitLen - 1
         /\ Side(a, hcb_crit_bit(a, b)) # Side(b, hcb_crit_bit(a, b))
         /\ \A m \in 0 .. BitLen - 1 : m < hcb_crit_bit(a, b) => Side(a, m) = Side(b, m)
<1> DEFINE D == {i \in DOMAIN a : a[i] # b[i]}
           V(x, y) == {ByteBits} \cup {r \in 0 .. ByteBits - 1 : ByteBit(x, r) # ByteBit(y, r)}
<1>1. ByteBits \in Nat \ {0} /\ DIGEST_LEN \in Nat \ {0}
  BY HashAssumption
<1>2. DOMAIN a = 1 .. DIGEST_LEN /\ DOMAIN b = 1 .. DIGEST_LEN
  BY DEF Full
<1>3. D \in SUBSET Nat /\ D # {}
  <2>1. a = [i \in 1 .. DIGEST_LEN |-> a[i]] /\ b = [i \in 1 .. DIGEST_LEN |-> b[i]]
    BY DEF Full
  <2>2. \E i \in 1 .. DIGEST_LEN : a[i] # b[i]
    BY <2>1
  <2>3. D # {}
    BY <1>2, <2>2
  <2> QED  BY <1>2, <2>3
<1>4. PICK u : u = Min(D)
  OBVIOUS
<1>5. u \in 1 .. DIGEST_LEN /\ a[u] # b[u] /\ \A i \in 1 .. DIGEST_LEN : i < u => a[i] = b[i]
  <2>1. u \in D /\ \A i \in D : u <= i
    BY <1>3, <1>4, MinOf
  <2>2. u \in 1 .. DIGEST_LEN /\ a[u] # b[u]
    BY <1>2, <2>1
  <2>3. ASSUME NEW i \in 1 .. DIGEST_LEN, i < u PROVE a[i] = b[i]
    <3>1. i \notin D
      BY <1>1, <2>1, <2>2, <2>3
    <3> QED  BY <1>2, <3>1
  <2> QED  BY <2>2, <2>3
<1>6. a[u] \in Bytes /\ b[u] \in Bytes
  BY <1>5 DEF Full
<1>7. PICK v : v = Min(V(a[u], b[u]))
  OBVIOUS
<1>8. /\ v \in 0 .. ByteBits - 1 /\ ByteBit(a[u], v) # ByteBit(b[u], v)
      /\ \A r \in 0 .. ByteBits - 1 : r < v => ByteBit(a[u], r) = ByteBit(b[u], r)
  <2>1. V(a[u], b[u]) \in SUBSET Nat /\ V(a[u], b[u]) # {}
    BY <1>1
  <2>2. v \in V(a[u], b[u]) /\ \A r \in V(a[u], b[u]) : v <= r
    BY <1>7, <2>1, MinOf
  <2>3. PICK r \in 0 .. ByteBits - 1 : ByteBit(a[u], r) # ByteBit(b[u], r)
    BY <1>5, <1>6, ByteAssumption
  <2>4. v <= r
    BY <2>2, <2>3
  <2>5. v # ByteBits
    BY <1>1, <2>3, <2>4
  <2>6. v \in 0 .. ByteBits - 1 /\ ByteBit(a[u], v) # ByteBit(b[u], v)
    BY <2>2, <2>5
  <2>7. ASSUME NEW q \in 0 .. ByteBits - 1, q < v PROVE ByteBit(a[u], q) = ByteBit(b[u], q)
    <3>1. q \notin V(a[u], b[u])
      BY <1>1, <2>2, <2>6, <2>7
    <3> QED  BY <3>1
  <2> QED  BY <2>6, <2>7
<1>9. PICK c : c = (u - 1) * ByteBits + v
  OBVIOUS
<1>10. hcb_crit_bit(a, b) = c
  BY <1>4, <1>7, <1>9 DEF hcb_crit_bit, hcb_bits
<1>11. PICK w \in Nat : w = u - 1
  BY <1>1, <1>5
<1>12. c \in Nat /\ c \div ByteBits = w /\ c % ByteBits = v
  <2>1. c = w * ByteBits + v
    BY <1>9, <1>11
  <2>2. w * ByteBits \in Nat /\ v \in Nat
    BY <1>1, <1>8, <1>11
  <2> QED  BY <1>1, <1>8, <2>1, <2>2, DivMod
<1>13. c \in 0 .. BitLen - 1
  <2>1. w + 1 <= DIGEST_LEN
    BY <1>1, <1>5, <1>11
  <2>2. (w + 1) * ByteBits <= DIGEST_LEN * ByteBits
    BY <1>1, <1>11, <2>1
  <2>3. (w + 1) * ByteBits = w * ByteBits + ByteBits
    BY <1>1, <1>11
  <2>4. w * ByteBits \in Nat /\ DIGEST_LEN * ByteBits \in Nat
    BY <1>1, <1>11
  <2>5. c < DIGEST_LEN * ByteBits
    BY <1>1, <1>8, <1>9, <1>11, <2>2, <2>3, <2>4
  <2> QED  BY <1>12, <2>4, <2>5 DEF BitLen
<1>14. Side(a, c) # Side(b, c)
  <2>1. w + 1 = u
    BY <1>1, <1>5, <1>11
  <2> QED  BY <1>8, <1>12, <2>1 DEF Side
<1>15. ASSUME NEW m \in 0 .. BitLen - 1, m < c PROVE Side(a, m) = Side(b, m)
  <2>1. PICK q, r : q = m \div ByteBits /\ r = m % ByteBits
    OBVIOUS
  <2>2. m \in Nat /\ q \in Nat /\ q + 1 \in 1 .. DIGEST_LEN /\ r \in 0 .. ByteBits - 1 /\ m = q * ByteBits + r
    BY <2>1, BitPlace
  <2>3. c = w * ByteBits + v /\ w * ByteBits \in Nat /\ q * ByteBits \in Nat
    BY <1>1, <1>9, <1>11, <2>2
  <2>4. q <= w
    <3>1. ASSUME q >= w + 1 PROVE FALSE
      <4>1. q * ByteBits >= (w + 1) * ByteBits
        BY <1>1, <1>11, <2>2, <3>1
      <4>2. (w + 1) * ByteBits = w * ByteBits + ByteBits
        BY <1>1, <1>11
      <4> QED  BY <1>1, <1>8, <1>15, <2>2, <2>3, <4>1, <4>2
    <3> QED  BY <1>11, <2>2, <3>1
  <2>5. CASE q = w
    <3>1. r < v
      BY <1>8, <1>15, <2>2, <2>3, <2>5
    <3>2. q + 1 = u
      BY <1>1, <1>5, <1>11, <2>5
    <3> QED  BY <1>8, <2>1, <2>2, <3>1, <3>2 DEF Side
  <2>6. CASE q < w
    <3>1. q + 1 < u
      BY <1>1, <1>5, <1>11, <2>2, <2>6
    <3>2. a[q + 1] = b[q + 1]
      BY <1>5, <2>2, <3>1
    <3> QED  BY <2>1, <3>2 DEF Side
  <2> QED  BY <1>11, <2>2, <2>4, <2>5, <2>6
<1> QED  BY <1>10, <1>13, <1>14, <1>15

-----------------------------------------------------------------------------
(* Paths *)

Size == Cardinality(Heads)

\* A tree of the right types: its root o, the leafs lf and critbits cb of the ys.
Typed(o, lf, cb) ==
  o \in Words /\ lf \in [Heads -> [0 .. 1 -> Words]] /\ cb \in [Heads -> 0 .. BitLen - 1]

\* The word below w on the way to d.
Down(lf, cb, d, w) == IF IsY(w) THEN lf[w[2]][Side(d, cb[w[2]])] ELSE w

IsPath(f, n, o, lf, cb, d) ==
  /\ f \in [0 .. n -> Words] /\ f[0] = o
  /\ \A i \in 1 .. n : f[i] = Down(lf, cb, d, f[i - 1])

\* The number of objheads is one.
LEMMA SizeType == Size \in Nat /\ IsFiniteSet(Heads)
  BY UsersAssumption, FS_CardinalityType DEF Size

\* A word is nothing, an objhead or a y.
LEMMA WordKinds ==
  /\ Null \in Words /\ ~ IsNode(Null) /\ ~ IsY(Null)
  /\ \A h \in Heads : /\ Node(h) \in Words /\ Y(h) \in Words
  /\ \A h : /\ IsNode(Node(h)) /\ ~ IsY(Node(h)) /\ Node(h)[2] = h /\ Node(h) # Null
            /\ IsY(Y(h)) /\ ~ IsNode(Y(h)) /\ Y(h)[2] = h /\ Y(h) # Null
  /\ \A g, h : Node(g) # Y(h)
  /\ \A w \in Words : \/ w = Null
                      \/ IsNode(w) /\ w[2] \in Heads /\ w = Node(w[2])
                      \/ IsY(w) /\ w[2] \in Heads /\ w = Y(w[2])
<1>1. \A h : /\ IsNode(Node(h)) /\ ~ IsY(Node(h)) /\ Node(h)[2] = h /\ Node(h) # Null
             /\ IsY(Y(h)) /\ ~ IsNode(Y(h)) /\ Y(h)[2] = h /\ Y(h) # Null
  BY DEF IsNode, IsY, Node, Y, Null
<1>2. \A g, h : Node(g) # Y(h)
  BY DEF Node, Y
<1>3. ~ IsNode(Null) /\ ~ IsY(Null)
  BY DEF IsNode, IsY, Null
<1>4. \A w \in Words : w = Null \/ (\E h \in Heads : w = Node(h)) \/ (\E h \in Heads : w = Y(h))
  BY DEF Words
<1>5. Null \in Words /\ \A h \in Heads : Node(h) \in Words /\ Y(h) \in Words
  BY DEF Words
<1> QED  BY <1>1, <1>2, <1>3, <1>4, <1>5

\* A step down the tree ends at a word.
LEMMA DownType ==
  ASSUME NEW o, NEW lf, NEW cb, Typed(o, lf, cb), NEW d \in Full, NEW w \in Words
  PROVE  Down(lf, cb, d, w) \in Words
<1>1. CASE ~ IsY(w)
  BY <1>1 DEF Down
<1>2. CASE IsY(w)
  <2>1. w[2] \in Heads
    BY <1>2, WordKinds
  <2>2. Side(d, cb[w[2]]) \in 0 .. 1
    BY <2>1, SideType DEF Typed
  <2> QED  BY <1>2, <2>1, <2>2 DEF Down, Typed
<1> QED  BY <1>1, <1>2

\* A way down can be gone on with.
LEMMA PathLonger ==
  ASSUME NEW o, NEW lf, NEW cb, Typed(o, lf, cb), NEW d \in Full, NEW n \in Nat,
         NEW f, IsPath(f, n, o, lf, cb, d)
  PROVE  \E g : IsPath(g, n + 1, o, lf, cb, d)
<1> DEFINE last == Down(lf, cb, d, f[n])
           g == [i \in 0 .. n + 1 |-> IF i <= n THEN f[i] ELSE last]
<1>1. f \in [0 .. n -> Words] /\ f[n] \in Words /\ last \in Words
  BY DownType DEF IsPath
<1> HIDE DEF last
<1>2. g \in [0 .. n + 1 -> Words]
  <2>1. ASSUME NEW i \in 0 .. n + 1 PROVE (IF i <= n THEN f[i] ELSE last) \in Words
    <3>1. CASE i <= n
      <4>1. i \in 0 .. n
        BY <3>1
      <4> QED  BY <1>1, <3>1, <4>1
    <3>2. CASE ~ (i <= n)
      BY <1>1, <3>2
    <3> QED  BY <3>1, <3>2
  <2> QED  BY <2>1
<1>3. g[0] = o
  BY DEF IsPath
<1>4. ASSUME NEW i \in 1 .. n + 1 PROVE g[i] = Down(lf, cb, d, g[i - 1])
  <2>1. CASE i <= n
    <3>1. i \in 1 .. n /\ g[i] = f[i] /\ g[i - 1] = f[i - 1]
      BY <2>1
    <3> QED  BY <3>1 DEF IsPath
  <2>2. CASE i = n + 1
    <3>1. i - 1 = n /\ g[i] = last /\ g[n] = f[n]
      BY <2>2
    <3> QED  BY <3>1 DEF last
  <2> QED  BY <2>1, <2>2
<1>5. IsPath(g, n + 1, o, lf, cb, d)
  BY <1>2, <1>3, <1>4 DEF IsPath
<1> QED  BY <1>5

\* There is a way down of every length.
LEMMA PathExists ==
  ASSUME NEW o, NEW lf, NEW cb, Typed(o, lf, cb), NEW d \in Full, NEW n \in Nat
  PROVE  \E f : IsPath(f, n, o, lf, cb, d)
<1> DEFINE S == {m \in Nat : ~ \E f : IsPath(f, m, o, lf, cb, d)}
<1>1. CASE S = {}
  BY <1>1
<1>2. CASE S # {}
  <2>1. PICK m : m = Min(S)
    OBVIOUS
  <2>2. m \in S /\ \A y \in S : m <= y
    BY <1>2, <2>1, MinOf
  <2>3. m \in Nat /\ ~ \E f : IsPath(f, m, o, lf, cb, d)
    BY <2>2
  <2>4. m # 0
    <3> DEFINE f == [i \in 0 .. 0 |-> o]
    <3>1. IsPath(f, 0, o, lf, cb, d)
      <4>1. f \in [0 .. 0 -> Words] /\ f[0] = o
        BY DEF Typed
      <4>2. 1 .. 0 = {}
        OBVIOUS
      <4> QED  BY <4>1, <4>2 DEF IsPath
    <3>2. \E g : IsPath(g, 0, o, lf, cb, d)
      BY <3>1
    <3> QED  BY <2>3, <3>2
  <2>5. PICK k \in Nat : m = k + 1
    <3>1. m - 1 \in Nat /\ m = (m - 1) + 1
      BY <2>3, <2>4
    <3> QED  BY <3>1
  <2>6. k \notin S
    BY <2>2, <2>5
  <2>7. PICK f : IsPath(f, k, o, lf, cb, d)
    BY <2>6
  <2>8. \E g : IsPath(g, k + 1, o, lf, cb, d)
    BY <2>7, PathLonger
  <2> QED  BY <2>3, <2>5, <2>8
<1> QED  BY <1>1, <1>2

\* What Path computes.
Paths == \A d \in Full : IsPath(Path(d), Size, origo, leaf, critbit, d)

\* Path is that way.
LEMMA PathIs == Typed(origo, leaf, critbit) => Paths
<1> SUFFICES ASSUME Typed(origo, leaf, critbit), NEW d \in Full
             PROVE  IsPath(Path(d), Size, origo, leaf, critbit, d)
  BY DEF Paths
<1>1. Size \in Nat
  BY SizeType
<1>2. PICK f : IsPath(f, Size, origo, leaf, critbit, d)
  BY <1>1, PathExists
<1> DEFINE Rec(p) == [i \in 0 .. Cardinality(Heads) |->
                        IF i = 0 THEN origo
                        ELSE LET up == p[i - 1]
                             IN  IF IsY(up) THEN leaf[up[2]][Side(d, critbit[up[2]])] ELSE up]
<1>3. f = Rec(f)
  <2>1. f = [i \in 0 .. Size |-> f[i]]
    BY <1>2 DEF IsPath
  <2>2. ASSUME NEW i \in 0 .. Size
        PROVE  f[i] = IF i = 0 THEN origo
                      ELSE LET up == f[i - 1]
                           IN  IF IsY(up) THEN leaf[up[2]][Side(d, critbit[up[2]])] ELSE up
    <3>1. CASE i = 0
      BY <1>2, <3>1 DEF IsPath
    <3>2. CASE i # 0
      <4>1. i \in 1 .. Size
        BY <1>1, <3>2
      <4> QED  BY <1>2, <3>2, <4>1 DEF IsPath, Down
    <3> QED  BY <3>1, <3>2
  <2> QED  BY <2>1, <2>2 DEF Size
<1>4. Path(d) = CHOOSE p : p = Rec(p)
  BY DEF Path
<1> HIDE DEF Rec
<1>5. Path(d) = Rec(Path(d))
  BY <1>3, <1>4
<1> USE DEF Rec
<1>6. PICK p : p = Path(d)
  OBVIOUS
<1>7. p = [i \in 0 .. Size |->
             IF i = 0 THEN origo
             ELSE LET up == p[i - 1]
                  IN  IF IsY(up) THEN leaf[up[2]][Side(d, critbit[up[2]])] ELSE up]
  BY <1>5, <1>6 DEF Size
<1>8. p[0] = origo /\ DOMAIN p = 0 .. Size
  BY <1>1, <1>7
<1>9. ASSUME NEW i \in 1 .. Size PROVE p[i] = Down(leaf, critbit, d, p[i - 1])
  <2>1. i \in 0 .. Size /\ i # 0
    BY <1>1
  <2>2. p[i] = IF i = 0 THEN origo
               ELSE LET up == p[i - 1]
                    IN  IF IsY(up) THEN leaf[up[2]][Side(d, critbit[up[2]])] ELSE up
    BY <1>7, <2>1, Zenon
  <2> QED  BY <2>1, <2>2 DEF Down
<1>10. \A i \in 0 .. Size : p[i] \in Words
  <2> DEFINE S == {i \in 0 .. Size : p[i] \notin Words}
  <2>1. ASSUME S # {} PROVE FALSE
    <3>1. PICK m : m = Min(S)
      OBVIOUS
    <3>2. m \in S /\ \A y \in S : m <= y
      BY <1>1, <2>1, <3>1, MinOf
    <3>3. m # 0
      BY <1>8, <3>2 DEF Typed
    <3>4. m \in 1 .. Size /\ m - 1 \in 0 .. Size /\ m - 1 \notin S
      BY <1>1, <3>2, <3>3
    <3>5. p[m - 1] \in Words
      BY <3>4
    <3>6. p[m] \in Words
      BY <1>9, <3>4, <3>5, DownType
    <3> QED  BY <3>2, <3>6
  <2> QED  BY <2>1
<1>11. p \in [0 .. Size -> Words]
  BY <1>7, <1>8, <1>10
<1> QED  BY <1>6, <1>8, <1>9, <1>11 DEF IsPath

\* The same of the next state.
LEMMA PathIsNext == Typed(origo, leaf, critbit)' => Paths'
  BY PathIs, PTL

-----------------------------------------------------------------------------
(* The tree *)

\* The objheads below a word, when U has those below each y.
Sub(U, w) == IF IsY(w) THEN U[w[2]] ELSE IF IsNode(w) THEN {w[2]} ELSE {}

\* I are the objheads of the tree, all below its root.
Rooted(o, I, Ys, U) ==
  /\ I \subseteq Heads /\ Ys \subseteq Heads /\ U \in [Ys -> SUBSET Heads]
  /\ Sub(U, o) = I /\ (IsY(o) => o[2] \in Ys)

\* A y has two leafs; below it critbits are greater.
Linked(lf, cb, Ys) ==
  \A y \in Ys : \A s \in 0 .. 1 :
    /\ lf[y][s] # Null
    /\ IsY(lf[y][s]) => lf[y][s][2] \in Ys /\ cb[y] < cb[lf[y][s][2]]

Covers(lf, I, Ys, U) ==
  \A y \in Ys : U[y] # {} /\ U[y] \subseteq I /\ U[y] = Sub(U, lf[y][0]) \cup Sub(U, lf[y][1])

\* On which side of a y an objhead is, its digest says.
Sided(lf, cb, dg, Ys, U) ==
  \A y \in Ys : \A s \in 0 .. 1 : \A g \in Sub(U, lf[y][s]) : Side(dg[g], cb[y]) = s

\* The digests below a y differ in no bit before its critbit.
Agreed(cb, dg, Ys, U) ==
  \A y \in Ys : \A g, h \in U[y] : \A m \in 0 .. BitLen - 1 :
    m < cb[y] => Side(dg[g], m) = Side(dg[h], m)

\* Nothing is twice in the tree.
Single(o, lf, Ys) ==
  \A y \in Ys : \A s \in 0 .. 1 :
    /\ lf[y][s] # o
    /\ \A z \in Ys : \A q \in 0 .. 1 : lf[y][s] = lf[z][q] => y = z /\ s = q

Tree(o, lf, cb, dg, I, Ys, U) ==
  /\ Typed(o, lf, cb) /\ (\A g \in I : dg[g] \in Full)
  /\ Rooted(o, I, Ys, U) /\ Linked(lf, cb, Ys) /\ Covers(lf, I, Ys, U)
  /\ Sided(lf, cb, dg, Ys, U) /\ Agreed(cb, dg, Ys, U) /\ Single(o, lf, Ys)

\* A word of the tree.
Inside(w, I, Ys, U) ==
  /\ w \in Words /\ w # Null /\ (IsY(w) => w[2] \in Ys)
  /\ Sub(U, w) # {} /\ Sub(U, w) \subseteq I

\* Induction along a path.
LEMMA Along ==
  ASSUME NEW n \in Nat, NEW S, 0 \in S, \A i \in 1 .. n : i - 1 \in S => i \in S
  PROVE  \A i \in 0 .. n : i \in S
<1> DEFINE B == {i \in 0 .. n : i \notin S}
<1>1. ASSUME B # {} PROVE FALSE
  <2>1. PICK m : m = Min(B)
    OBVIOUS
  <2>2. m \in B /\ \A y \in B : m <= y
    BY <1>1, <2>1, MinOf
  <2>3. m \in 1 .. n /\ m - 1 \in 0 .. n /\ m - 1 \notin B
    BY <2>2
  <2>4. m - 1 \in S
    BY <2>3
  <2> QED  BY <2>2, <2>3, <2>4
<1> QED  BY <1>1

\* The root is inside the tree, and everything is below it.
LEMMA RootInside ==
  ASSUME NEW o, NEW lf, NEW cb, NEW dg, NEW I, NEW Ys, NEW U,
         Tree(o, lf, cb, dg, I, Ys, U), o # Null
  PROVE  Inside(o, I, Ys, U) /\ Sub(U, o) = I
<1>1. o \in Words /\ Sub(U, o) = I /\ (IsY(o) => o[2] \in Ys)
  BY DEF Tree, Typed, Rooted
<1>2. Sub(U, o) # {}
  <2>1. CASE IsY(o)
    BY <1>1, <2>1 DEF Sub, Tree, Covers
  <2>2. CASE IsNode(o)
    BY <2>2, WordKinds, <1>1 DEF Sub
  <2> QED  BY <1>1, <2>1, <2>2, WordKinds
<1> QED  BY <1>1, <1>2 DEF Inside

\* The leafs of a y.
LEMMA LeafInside ==
  ASSUME NEW o, NEW lf, NEW cb, NEW dg, NEW I, NEW Ys, NEW U,
         Tree(o, lf, cb, dg, I, Ys, U), NEW y \in Ys, NEW s \in 0 .. 1
  PROVE  /\ Inside(lf[y][s], I, Ys, U) /\ Sub(U, lf[y][s]) \subseteq U[y]
         /\ lf[y][s] \in Words
<1>1. y \in Heads /\ lf \in [Heads -> [0 .. 1 -> Words]]
  BY DEF Tree, Typed, Rooted
<1>2. PICK w : w = lf[y][s]
  OBVIOUS
<1>3. w \in Words /\ w # Null /\ (IsY(w) => w[2] \in Ys)
  BY <1>1, <1>2 DEF Tree, Linked
<1>4. Sub(U, w) \subseteq U[y] /\ U[y] \subseteq I
  <2>1. U[y] = Sub(U, lf[y][0]) \cup Sub(U, lf[y][1]) /\ U[y] \subseteq I
    BY DEF Tree, Covers
  <2>2. s = 0 \/ s = 1
    OBVIOUS
  <2> QED  BY <1>2, <2>1, <2>2
<1>5. Sub(U, w) # {}
  <2>1. CASE IsY(w)
    BY <1>3, <2>1 DEF Sub, Tree, Covers
  <2>2. CASE IsNode(w)
    BY <1>3, <2>2, WordKinds DEF Sub
  <2> QED  BY <1>3, <2>1, <2>2, WordKinds
<1> QED  BY <1>2, <1>3, <1>4, <1>5 DEF Inside

\* The two sides of a y have nothing in common.
LEMMA SidesApart ==
  ASSUME NEW o, NEW lf, NEW cb, NEW dg, NEW I, NEW Ys, NEW U,
         Tree(o, lf, cb, dg, I, Ys, U), NEW y \in Ys, NEW s \in 0 .. 1, NEW g \in Sub(U, lf[y][s])
  PROVE  g \notin Sub(U, lf[y][1 - s]) /\ Side(dg[g], cb[y]) = s
<1>1. 1 - s \in 0 .. 1 /\ 1 - s # s
  OBVIOUS
<1> QED  BY <1>1 DEF Tree, Sided

\* One step down.
LEMMA DownInside ==
  ASSUME NEW o, NEW lf, NEW cb, NEW dg, NEW I, NEW Ys, NEW U,
         Tree(o, lf, cb, dg, I, Ys, U), NEW d \in Full, NEW w, Inside(w, I, Ys, U), IsY(w),
         NEW v, v = Down(lf, cb, d, w)
  PROVE  /\ Inside(v, I, Ys, U) /\ Sub(U, v) \subseteq Sub(U, w) /\ Sub(U, v) # Sub(U, w)
         /\ Side(d, cb[w[2]]) \in 0 .. 1 /\ v = lf[w[2]][Side(d, cb[w[2]])]
         /\ \A g \in Sub(U, v) : Side(dg[g], cb[w[2]]) = Side(d, cb[w[2]])
         /\ \A g \in Sub(U, w) : dg[g] = d => g \in Sub(U, v)
         /\ IsY(v) => cb[w[2]] < cb[v[2]]
<1>1. PICK y \in Ys : y = w[2] /\ Sub(U, w) = U[y]
  BY DEF Inside, Sub
<1>2. y \in Heads /\ cb[y] \in 0 .. BitLen - 1
  BY DEF Tree, Rooted, Typed
<1>3. PICK s \in 0 .. 1 : s = Side(d, cb[y])
  BY <1>2, SideType
<1>4. v = lf[y][s]
  BY <1>1, <1>3 DEF Down
<1>5. Inside(v, I, Ys, U) /\ Sub(U, v) \subseteq U[y]
  BY <1>4, LeafInside
<1>6. \A g \in Sub(U, v) : g \notin Sub(U, lf[y][1 - s]) /\ Side(dg[g], cb[y]) = s
  BY <1>4, SidesApart
<1>7. Sub(U, v) # U[y]
  <2>1. 1 - s \in 0 .. 1
    OBVIOUS
  <2>2. PICK x : x = lf[y][1 - s]
    OBVIOUS
  <2>3. Inside(x, I, Ys, U) /\ Sub(U, x) \subseteq U[y]
    BY <2>1, <2>2, LeafInside
  <2>4. PICK g : g \in Sub(U, x)
    BY <2>3 DEF Inside
  <2>5. g \notin Sub(U, v)
    BY <1>6, <2>2, <2>4
  <2> QED  BY <2>3, <2>4, <2>5
<1>8. ASSUME NEW g \in Sub(U, w), dg[g] = d PROVE g \in Sub(U, v)
  <2>1. g \in Sub(U, lf[y][0]) \cup Sub(U, lf[y][1])
    BY <1>1 DEF Tree, Covers
  <2>2. PICK q \in 0 .. 1 : g \in Sub(U, lf[y][q])
    BY <2>1
  <2>3. Side(dg[g], cb[y]) = q
    BY <2>2, SidesApart
  <2> QED  BY <1>3, <1>4, <1>8, <2>2, <2>3
<1>9. IsY(v) => cb[y] < cb[v[2]]
  BY <1>4 DEF Tree, Linked
<1> QED  BY <1>1, <1>3, <1>4, <1>5, <1>6, <1>7, <1>8, <1>9

-----------------------------------------------------------------------------
(* A way down the tree *)

\* p is the path to d in a tree that is not empty.
OnPath(p, d, o, lf, cb, dg, I, Ys, U) ==
  /\ Tree(o, lf, cb, dg, I, Ys, U) /\ o # Null
  /\ d \in Full /\ IsPath(p, Size, o, lf, cb, d)

\* One step of a way down.
LEMMA PathStep ==
  ASSUME NEW p, NEW d, NEW o, NEW lf, NEW cb, NEW dg, NEW I, NEW Ys, NEW U,
         OnPath(p, d, o, lf, cb, dg, I, Ys, U), NEW i \in 1 .. Size
  PROVE  /\ i - 1 \in 0 .. Size /\ i \in 0 .. Size
         /\ p[i] = Down(lf, cb, d, p[i - 1]) /\ (IsY(p[i]) => IsY(p[i - 1]))
         /\ ~ IsY(p[i - 1]) => p[i] = p[i - 1]
<1>1. i - 1 \in 0 .. Size /\ i \in 0 .. Size
  BY SizeType
<1>2. p[i] = Down(lf, cb, d, p[i - 1])
  BY DEF OnPath, IsPath
<1>3. ~ IsY(p[i - 1]) => p[i] = p[i - 1]
  BY <1>2 DEF Down
<1> QED  BY <1>1, <1>2, <1>3

\* A way down stays inside the tree.
LEMMA PathInside ==
  ASSUME NEW p, NEW d, NEW o, NEW lf, NEW cb, NEW dg, NEW I, NEW Ys, NEW U,
         OnPath(p, d, o, lf, cb, dg, I, Ys, U)
  PROVE  \A i \in 0 .. Size : Inside(p[i], I, Ys, U)
<1> DEFINE S == {i \in 0 .. Size : Inside(p[i], I, Ys, U)}
<1>1. Size \in Nat /\ Tree(o, lf, cb, dg, I, Ys, U) /\ d \in Full
  BY SizeType DEF OnPath
<1>2. 0 \in S
  <2>1. Inside(o, I, Ys, U)
    BY RootInside DEF OnPath
  <2> QED  BY <1>1, <2>1 DEF OnPath, IsPath
<1>3. ASSUME NEW i \in 1 .. Size, i - 1 \in S PROVE i \in S
  <2>1. i \in 0 .. Size /\ p[i] = Down(lf, cb, d, p[i - 1]) /\ (~ IsY(p[i - 1]) => p[i] = p[i - 1])
    BY PathStep
  <2>2. Inside(p[i - 1], I, Ys, U)
    BY <1>3
  <2>3. CASE IsY(p[i - 1])
    <3>1. Inside(p[i], I, Ys, U)
      BY <1>1, <2>1, <2>2, <2>3, DownInside
    <3> QED  BY <2>1, <3>1
  <2>4. CASE ~ IsY(p[i - 1])
    BY <2>1, <2>2, <2>4
  <2> QED  BY <2>3, <2>4
<1> HIDE DEF S
<1>4. \A i \in 0 .. Size : i \in S
  BY <1>1, <1>2, <1>3, Along
<1> QED  BY <1>4 DEF S

\* One word of the path and the next.
LEMMA PathNext ==
  ASSUME NEW p, NEW d, NEW o, NEW lf, NEW cb, NEW dg, NEW I, NEW Ys, NEW U,
         OnPath(p, d, o, lf, cb, dg, I, Ys, U), NEW i \in 1 .. Size, NEW v, NEW w, v = p[i], w = p[i - 1]
  PROVE  /\ Inside(v, I, Ys, U) /\ Inside(w, I, Ys, U) /\ Sub(U, v) \subseteq Sub(U, w)
         /\ \A g \in Sub(U, w) : dg[g] = d => g \in Sub(U, v)
         /\ IsY(w) => /\ Sub(U, v) # Sub(U, w)
                      /\ Side(d, cb[w[2]]) \in 0 .. 1 /\ v = lf[w[2]][Side(d, cb[w[2]])]
                      /\ \A g \in Sub(U, v) : Side(dg[g], cb[w[2]]) = Side(d, cb[w[2]])
         /\ IsY(v) => IsY(w) /\ cb[w[2]] < cb[v[2]]
<1>1. /\ i - 1 \in 0 .. Size /\ i \in 0 .. Size
      /\ v = Down(lf, cb, d, w) /\ (IsY(v) => IsY(w)) /\ (~ IsY(w) => v = w)
  BY PathStep
<1>2. Inside(v, I, Ys, U) /\ Inside(w, I, Ys, U)
  BY <1>1, PathInside
<1>3. Tree(o, lf, cb, dg, I, Ys, U) /\ d \in Full
  BY DEF OnPath
<1>4. CASE IsY(w)
  <2>1. /\ Sub(U, v) \subseteq Sub(U, w) /\ Sub(U, v) # Sub(U, w)
        /\ Side(d, cb[w[2]]) \in 0 .. 1 /\ v = lf[w[2]][Side(d, cb[w[2]])]
        /\ \A g \in Sub(U, v) : Side(dg[g], cb[w[2]]) = Side(d, cb[w[2]])
        /\ \A g \in Sub(U, w) : dg[g] = d => g \in Sub(U, v)
        /\ IsY(v) => cb[w[2]] < cb[v[2]]
    BY <1>1, <1>2, <1>3, <1>4, DownInside
  <2> QED  BY <1>2, <1>4, <2>1
<1>5. CASE ~ IsY(w)
  BY <1>1, <1>2, <1>5
<1> QED  BY <1>4, <1>5

EndsAt(p, e, I, U) ==
  e \in I /\ p[Size] = Node(e) /\ \A i \in 0 .. Size : e \in Sub(U, p[i])

\* The path ends at an objhead, which is below every word of it, and which is
\* the one with digest d if there is one.
LEMMA PathEnds ==
  ASSUME NEW p, NEW d, NEW o, NEW lf, NEW cb, NEW dg, NEW I, NEW Ys, NEW U,
         OnPath(p, d, o, lf, cb, dg, I, Ys, U)
  PROVE  \E e : EndsAt(p, e, I, U) /\ \A g \in I : dg[g] = d => g = e
<1> DEFINE S == {i \in 0 .. Size : IsY(p[i]) => Cardinality(Sub(U, p[i])) <= Size - i}
<1>1. Size \in Nat /\ Tree(o, lf, cb, dg, I, Ys, U) /\ p[0] = o /\ IsFiniteSet(Heads)
  BY SizeType DEF OnPath, IsPath
<1>2. I \subseteq Heads /\ Sub(U, o) = I
  BY <1>1 DEF Tree, Rooted
<1>3. \A i \in 0 .. Size : Inside(p[i], I, Ys, U)
  BY PathInside
<1>4. \A i \in 0 .. Size : /\ IsFiniteSet(Sub(U, p[i])) /\ Cardinality(Sub(U, p[i])) \in Nat
                           /\ Sub(U, p[i]) # {}
  <2>1. ASSUME NEW i \in 0 .. Size
        PROVE  IsFiniteSet(Sub(U, p[i])) /\ Cardinality(Sub(U, p[i])) \in Nat /\ Sub(U, p[i]) # {}
    <3>1. PICK T : T = Sub(U, p[i])
      OBVIOUS
    <3>2. T \subseteq Heads /\ T # {}
      BY <1>2, <1>3, <3>1 DEF Inside
    <3>3. IsFiniteSet(T)
      BY <1>1, <3>2, FS_Subset
    <3>4. Cardinality(T) \in Nat
      BY <3>3, FS_CardinalityType
    <3> QED  BY <3>1, <3>2, <3>3, <3>4
  <2> QED  BY <2>1
<1>5. 0 \in S
  <2>1. Cardinality(I) <= Cardinality(Heads)
    BY <1>1, <1>2, FS_Subset
  <2>2. Cardinality(Sub(U, p[0])) <= Size - 0
    BY <1>1, <1>2, <2>1 DEF Size
  <2> QED  BY <1>1, <2>2
<1>6. ASSUME NEW i \in 1 .. Size, i - 1 \in S PROVE i \in S
  <2>1. i \in 0 .. Size /\ i - 1 \in 0 .. Size
    BY <1>1
  <2>2. ASSUME IsY(p[i]) PROVE Cardinality(Sub(U, p[i])) <= Size - i
    <3>1. PICK v, w : v = p[i] /\ w = p[i - 1]
      OBVIOUS
    <3>2. IsY(w) /\ Sub(U, v) \subseteq Sub(U, w) /\ Sub(U, v) # Sub(U, w)
      BY <2>2, <3>1, PathNext
    <3>3. PICK A, B : A = Sub(U, v) /\ B = Sub(U, w)
      OBVIOUS
    <3>4. IsFiniteSet(B) /\ Cardinality(A) \in Nat /\ Cardinality(B) \in Nat /\ A \subseteq B /\ A # B
      BY <1>4, <2>1, <3>1, <3>2, <3>3
    <3>5. Cardinality(A) < Cardinality(B)
      <4>1. Cardinality(A) <= Cardinality(B) /\ (Cardinality(A) = Cardinality(B) => A = B)
        BY <3>4, FS_Subset
      <4> QED  BY <3>4, <4>1
    <3>6. Cardinality(B) <= Size - (i - 1)
      BY <1>6, <3>1, <3>2, <3>3
    <3>7. Cardinality(A) <= Size - i
      BY <1>1, <2>1, <3>4, <3>5, <3>6
    <3> QED  BY <3>1, <3>3, <3>7
  <2> QED  BY <2>1, <2>2
<1>7. \A i \in 0 .. Size : IsY(p[i]) => Cardinality(Sub(U, p[i])) <= Size - i
  <2> HIDE DEF S
  <2>1. \A i \in 0 .. Size : i \in S
    BY <1>1, <1>5, <1>6, Along
  <2> QED  BY <2>1 DEF S
<1>8. ~ IsY(p[Size])
  <2>1. ASSUME IsY(p[Size]) PROVE FALSE
    <3>1. PICK T : T = Sub(U, p[Size])
      OBVIOUS
    <3>2. Size \in 0 .. Size
      BY <1>1
    <3>3. IsFiniteSet(T) /\ Cardinality(T) \in Nat /\ T # {} /\ Cardinality(T) <= Size - Size
      BY <1>4, <1>7, <2>1, <3>1, <3>2
    <3>4. Cardinality(T) = 0
      BY <1>1, <3>3
    <3> QED  BY <3>3, <3>4, FS_EmptySet
  <2> QED  BY <2>1
<1>9. PICK e \in I : p[Size] = Node(e) /\ Sub(U, p[Size]) = {e}
  <2>1. Inside(p[Size], I, Ys, U)
    BY <1>1, <1>3
  <2>2. IsNode(p[Size]) /\ p[Size] = Node(p[Size][2])
    BY <1>8, <2>1, WordKinds DEF Inside
  <2>3. Sub(U, p[Size]) = {p[Size][2]}
    BY <1>8, <2>2 DEF Sub
  <2> QED  BY <2>1, <2>2, <2>3 DEF Inside
<1>10. \A i \in 0 .. Size : e \in Sub(U, p[i])
  <2> DEFINE R == {j \in 0 .. Size : e \in Sub(U, p[Size - j])}
  <2>1. 0 \in R
    BY <1>1, <1>9
  <2>2. ASSUME NEW j \in 1 .. Size, j - 1 \in R PROVE j \in R
    <3>1. PICK i \in 1 .. Size : i = Size - (j - 1)
      BY <1>1
    <3>2. i - 1 = Size - j /\ j \in 0 .. Size
      BY <1>1, <3>1
    <3>3. e \in Sub(U, p[i])
      BY <2>2, <3>1
    <3>4. Sub(U, p[i]) \subseteq Sub(U, p[i - 1])
      BY PathNext
    <3> QED  BY <3>2, <3>3, <3>4
  <2>3. ASSUME NEW i \in 0 .. Size PROVE e \in Sub(U, p[i])
    <3>1. \A j \in 0 .. Size : j \in R
      <4> HIDE DEF R
      <4> QED  BY <1>1, <2>1, <2>2, Along
    <3>2. Size - i \in 0 .. Size /\ Size - (Size - i) = i
      BY <1>1
    <3>3. e \in Sub(U, p[Size - (Size - i)])
      BY <3>1, <3>2
    <3> QED  BY <3>2, <3>3
  <2> QED  BY <2>3
<1>11. ASSUME NEW g \in I, dg[g] = d PROVE g = e
  <2> DEFINE R == {i \in 0 .. Size : g \in Sub(U, p[i])}
  <2>1. 0 \in R
    BY <1>1, <1>2
  <2>2. ASSUME NEW i \in 1 .. Size, i - 1 \in R PROVE i \in R
    <3>1. g \in Sub(U, p[i - 1]) /\ i \in 0 .. Size
      BY <2>2
    <3>2. g \in Sub(U, p[i])
      BY <1>11, <3>1, PathNext
    <3> QED  BY <3>1, <3>2
  <2>3. \A i \in 0 .. Size : i \in R
    <3> HIDE DEF R
    <3> QED  BY <1>1, <2>1, <2>2, Along
  <2>4. g \in Sub(U, p[Size])
    BY <1>1, <2>3
  <2> QED  BY <1>9, <2>4
<1>12. EndsAt(p, e, I, U)
  BY <1>9, <1>10 DEF EndsAt
<1> QED  BY <1>11, <1>12

\* No two objheads of a tree have the same digest.
LEMMA Unique ==
  ASSUME NEW o, NEW lf, NEW cb, NEW dg, NEW I, NEW Ys, NEW U,
         Tree(o, lf, cb, dg, I, Ys, U), NEW g \in I, NEW h \in I, dg[g] = dg[h]
  PROVE  g = h
<1>1. Typed(o, lf, cb) /\ dg[g] \in Full /\ Size \in Nat
  BY SizeType DEF Tree
<1>2. PICK p : IsPath(p, Size, o, lf, cb, dg[g])
  BY <1>1, PathExists
<1>3. o # Null
  <2>1. ASSUME o = Null PROVE FALSE
    <3>1. Sub(U, o) = {}
      BY <2>1, WordKinds DEF Sub
    <3> QED  BY <3>1 DEF Tree, Rooted
  <2> QED  BY <2>1
<1>4. OnPath(p, dg[g], o, lf, cb, dg, I, Ys, U)
  BY <1>1, <1>2, <1>3 DEF OnPath
<1>5. PICK e : \A f \in I : dg[f] = dg[g] => f = e
  BY <1>4, PathEnds
<1> QED  BY <1>5

-----------------------------------------------------------------------------
(* hcb_insert *)

\* The new y goes above the k-th word of the path.
PlacedAt(p, cb, bit, k) ==
  /\ k \in 0 .. Size /\ (~ IsY(p[k]) \/ cb[p[k][2]] > bit)
  /\ \A i \in 0 .. Size : i < k => IsY(p[i]) /\ ~ (cb[p[i][2]] > bit)

\* The place hcb_insert stops at: the first that is no y or has a greater critbit.
LEMMA PlaceIs ==
  ASSUME NEW p, NEW d, NEW o, NEW lf, NEW cb, NEW dg, NEW I, NEW Ys, NEW U,
         OnPath(p, d, o, lf, cb, dg, I, Ys, U), NEW bit, NEW k,
         k = Min({i \in 0 .. Size : ~ IsY(p[i]) \/ cb[p[i][2]] > bit})
  PROVE  PlacedAt(p, cb, bit, k)
<1> DEFINE S == {i \in 0 .. Size : ~ IsY(p[i]) \/ cb[p[i][2]] > bit}
<1>1. Size \in Nat
  BY SizeType
<1>2. PICK e : p[Size] = Node(e)
  BY PathEnds DEF EndsAt
<1>3. Size \in S
  BY <1>1, <1>2, WordKinds
<1>4. k \in S /\ \A i \in S : k <= i
  BY <1>1, <1>3, MinOf
<1>5. ASSUME NEW i \in 0 .. Size, i < k PROVE IsY(p[i]) /\ ~ (cb[p[i][2]] > bit)
  <2>1. ASSUME i \in S PROVE FALSE
    <3>1. k \in Int /\ i \in Int /\ i < k
      BY <1>1, <1>4, <1>5
    <3>2. k <= i
      BY <1>4, <2>1
    <3> QED  BY <3>1, <3>2
  <2> QED  BY <2>1
<1>6. k \in 0 .. Size /\ (~ IsY(p[k]) \/ cb[p[k][2]] > bit)
  BY <1>4
<1> QED  BY <1>5, <1>6 DEF PlacedAt

\* The ys above the place.
Above(p, k) == {p[i][2] : i \in {j \in 0 .. Size : j < k}}

\* What the digests around the place have in common with the new one.
Fits(p, k, d, bit, e, cb, dg, Ys, U) ==
  /\ bit \in 0 .. BitLen - 1 /\ Side(d, bit) \in 0 .. 1
  /\ \A y \in Above(p, k) : /\ y \in Ys /\ cb[y] < bit /\ e \in U[y]
                            /\ \A m \in 0 .. BitLen - 1 : m < cb[y] => Side(d, m) = Side(dg[e], m)
  /\ \A g \in Sub(U, p[k]) : /\ Side(dg[g], bit) = 1 - Side(d, bit)
                             /\ \A m \in 0 .. BitLen - 1 : m < bit => Side(d, m) = Side(dg[g], m)
  /\ IsY(p[k]) => p[k][2] \notin Above(p, k) /\ bit < cb[p[k][2]]

\* All that is below that place agrees with the digest up to bit.
LEMMA Placed ==
  ASSUME NEW p, NEW d, NEW o, NEW lf, NEW cb, NEW dg, NEW I, NEW Ys, NEW U,
         OnPath(p, d, o, lf, cb, dg, I, Ys, U), NEW e, EndsAt(p, e, I, U), dg[e] # d,
         NEW bit, bit = hcb_crit_bit(d, dg[e]), NEW k, PlacedAt(p, cb, bit, k)
  PROVE  Fits(p, k, d, bit, e, cb, dg, Ys, U)
<1>0. e \in I /\ \A i \in 0 .. Size : e \in Sub(U, p[i])
  BY DEF EndsAt
<1>1. /\ Size \in Nat /\ Tree(o, lf, cb, dg, I, Ys, U) /\ d \in Full /\ dg[e] \in Full
      /\ cb \in [Heads -> 0 .. BitLen - 1] /\ Ys \subseteq Heads
  BY <1>0, SizeType DEF OnPath, Tree, Typed, Rooted
<1>2. /\ bit \in 0 .. BitLen - 1 /\ Side(d, bit) # Side(dg[e], bit)
      /\ \A m \in 0 .. BitLen - 1 : m < bit => Side(d, m) = Side(dg[e], m)
  BY <1>1, CritBit
<1>3. Side(d, bit) \in 0 .. 1 /\ Side(dg[e], bit) \in 0 .. 1
  BY <1>1, <1>2, SideType
<1>4. BitLen \in Nat
  BY HashAssumption DEF BitLen
<1>5. ASSUME NEW y \in Above(p, k)
      PROVE  /\ y \in Ys /\ cb[y] < bit /\ e \in U[y]
             /\ \A m \in 0 .. BitLen - 1 : m < cb[y] => Side(d, m) = Side(dg[e], m)
  <2>1. PICK i \in 0 .. Size : i < k /\ y = p[i][2]
    BY DEF Above
  <2>2. IsY(p[i]) /\ ~ (cb[y] > bit) /\ i + 1 \in 1 .. Size /\ (i + 1) - 1 = i /\ k \in 0 .. Size
    BY <1>1, <2>1 DEF PlacedAt
  <2>3. y \in Ys /\ e \in U[y]
    <3>1. Inside(p[i], I, Ys, U) /\ e \in Sub(U, p[i])
      BY <1>0, PathInside
    <3> QED  BY <2>1, <2>2, <3>1 DEF Inside, Sub
  <2>4. PICK j \in 1 .. Size : j = i + 1 /\ j - 1 = i
    BY <2>2
  <2>5. \A g \in Sub(U, p[j]) : Side(dg[g], cb[y]) = Side(d, cb[y])
    BY <2>1, <2>2, <2>4, PathNext
  <2>6. Side(dg[e], cb[y]) = Side(d, cb[y])
    <3>1. j \in 0 .. Size
      BY <1>1
    <3> QED  BY <1>0, <2>5, <3>1
  <2>7. cb[y] \in 0 .. BitLen - 1 /\ cb[y] # bit
    BY <1>1, <1>2, <2>3, <2>6
  <2>8. cb[y] < bit
    BY <1>2, <1>4, <2>2, <2>7
  <2>9. ASSUME NEW m \in 0 .. BitLen - 1, m < cb[y] PROVE Side(d, m) = Side(dg[e], m)
    <3>1. m < bit
      BY <1>2, <1>4, <2>7, <2>8, <2>9
    <3> QED  BY <1>2, <3>1
  <2> QED  BY <2>3, <2>8, <2>9
<1>6. PICK w : w = p[k] /\ Inside(w, I, Ys, U) /\ e \in Sub(U, w) /\ (~ IsY(w) \/ cb[w[2]] > bit)
  BY <1>0, PathInside DEF PlacedAt
<1>7. ASSUME IsY(w) PROVE /\ w[2] \notin Above(p, k) /\ bit < cb[w[2]] /\ w[2] \in Ys
                          /\ cb[w[2]] \in 0 .. BitLen - 1 /\ Sub(U, w) = U[w[2]]
  <2>1. w[2] \in Ys /\ cb[w[2]] > bit /\ Sub(U, w) = U[w[2]]
    BY <1>6, <1>7 DEF Inside, Sub
  <2>2. cb[w[2]] \in 0 .. BitLen - 1
    BY <1>1, <2>1
  <2>3. bit < cb[w[2]] /\ ~ (cb[w[2]] < bit)
    BY <1>2, <1>4, <2>1, <2>2
  <2> QED  BY <1>5, <2>1, <2>2, <2>3
<1>8. ASSUME NEW g \in Sub(U, w), NEW m \in 0 .. BitLen - 1, m <= bit
      PROVE  Side(dg[g], m) = Side(dg[e], m)
  <2>1. CASE IsY(w)
    <3>1. m < cb[w[2]]
      BY <1>2, <1>4, <1>7, <1>8, <2>1
    <3> QED  BY <1>1, <1>6, <1>7, <1>8, <2>1, <3>1 DEF Tree, Agreed
  <2>2. CASE ~ IsY(w)
    <3>1. Sub(U, w) = {w[2]}
      BY <1>6, <2>2, WordKinds DEF Sub, Inside
    <3> QED  BY <1>6, <3>1
  <2> QED  BY <2>1, <2>2
<1>9. ASSUME NEW g \in Sub(U, p[k]) PROVE Side(dg[g], bit) = 1 - Side(d, bit)
  <2>1. bit <= bit
    BY <1>2, <1>4
  <2>2. Side(dg[g], bit) = Side(dg[e], bit)
    BY <1>2, <1>6, <1>8, <2>1
  <2> QED  BY <1>2, <1>3, <2>2
<1>10. ASSUME NEW g \in Sub(U, p[k]), NEW m \in 0 .. BitLen - 1, m < bit
       PROVE  Side(d, m) = Side(dg[g], m)
  <2>1. m <= bit
    BY <1>2, <1>4, <1>10
  <2> QED  BY <1>2, <1>6, <1>8, <1>10, <2>1
<1> QED  BY <1>2, <1>3, <1>5, <1>6, <1>7, <1>9, <1>10 DEF Fits

\* Which words of the tree are ys above the place: those on the path.
LEMMA AboveLinks ==
  ASSUME NEW p, NEW d, NEW o, NEW lf, NEW cb, NEW dg, NEW I, NEW Ys, NEW U,
         OnPath(p, d, o, lf, cb, dg, I, Ys, U), NEW bit, NEW k, PlacedAt(p, cb, bit, k),
         IsY(p[k]) => p[k][2] \notin Above(p, k),
         NEW y \in Ys, NEW s \in 0 .. 1, NEW w, w = lf[y][s]
  PROVE  /\ (IsY(w) /\ w[2] \in Above(p, k)) =>
              y \in Above(p, k) /\ s = Side(d, cb[y]) /\ ~ (k > 0 /\ y = p[k - 1][2])
         /\ (y \in Above(p, k) /\ s = Side(d, cb[y])) =>
              \/ IsY(w) /\ w[2] \in Above(p, k)
              \/ k > 0 /\ y = p[k - 1][2] /\ w = p[k]
<1>1. /\ Size \in Nat /\ k \in 0 .. Size /\ Tree(o, lf, cb, dg, I, Ys, U) /\ o = p[0]
      /\ w \in Words
  BY SizeType, LeafInside DEF OnPath, PlacedAt, IsPath
<1>2. ASSUME IsY(w), w[2] \in Above(p, k)
      PROVE  y \in Above(p, k) /\ s = Side(d, cb[y]) /\ ~ (k > 0 /\ y = p[k - 1][2])
  <2>1. PICK i \in 0 .. Size : i < k /\ w[2] = p[i][2]
    BY <1>2 DEF Above
  <2>2. IsY(p[i]) /\ p[i] \in Words
    BY <2>1, PathInside DEF PlacedAt, Inside
  <2>3. w = p[i]
    BY <1>1, <1>2, <2>1, <2>2, WordKinds
  <2>4. i # 0
    BY <1>1, <2>3 DEF Tree, Single
  <2>5. PICK j \in 0 .. Size : j = i - 1 /\ i \in 1 .. Size /\ j < k
    BY <1>1, <2>1, <2>4
  <2>6. IsY(p[j])
    BY <2>5 DEF PlacedAt
  <2>7. PICK z, q : z = p[j][2] /\ q = Side(d, cb[z])
    OBVIOUS
  <2>8. q \in 0 .. 1 /\ p[i] = lf[z][q]
    BY <2>5, <2>6, <2>7, PathNext
  <2>9. z \in Ys /\ z \in Above(p, k)
    <3>1. Inside(p[j], I, Ys, U)
      BY PathInside
    <3> QED  BY <2>5, <2>6, <2>7, <3>1 DEF Inside, Above
  <2>10. y = z /\ s = q
    <3>1. lf[y][s] = lf[z][q]
      BY <2>3, <2>8
    <3>2. Single(o, lf, Ys)
      BY <1>1 DEF Tree
    <3> QED  BY <2>8, <2>9, <3>1, <3>2 DEF Single
  <2>11. ASSUME k > 0, y = p[k - 1][2] PROVE FALSE
    <3>1. PICK m \in 1 .. Size : m = k
      BY <1>1, <2>11
    <3>2. m - 1 \in 0 .. Size /\ m - 1 < k
      BY <1>1, <3>1
    <3>3. IsY(p[m - 1])
      BY <3>2 DEF PlacedAt
    <3>4. p[m] = lf[y][Side(d, cb[y])]
      BY <2>11, <3>1, <3>3, PathNext
    <3>5. p[k] = w
      BY <2>7, <2>10, <3>1, <3>4
    <3> QED  BY <1>2, <3>5
  <2> QED  BY <2>7, <2>9, <2>10, <2>11
<1>3. ASSUME y \in Above(p, k), s = Side(d, cb[y])
      PROVE  (IsY(w) /\ w[2] \in Above(p, k)) \/ (k > 0 /\ y = p[k - 1][2] /\ w = p[k])
  <2>1. PICK i \in 0 .. Size : i < k /\ y = p[i][2]
    BY <1>3 DEF Above
  <2>2. PICK j \in 1 .. Size : j = i + 1 /\ j - 1 = i
    BY <1>1, <2>1
  <2>3. IsY(p[i])
    BY <2>1 DEF PlacedAt
  <2>4. p[j] = w
    BY <1>3, <2>1, <2>2, <2>3, PathNext
  <2>5. CASE j = k
    <3>1. k > 0 /\ k - 1 = i
      BY <1>1, <2>2, <2>5
    <3> QED  BY <2>1, <2>4, <2>5, <3>1
  <2>6. CASE j < k
    <3>1. j \in 0 .. Size
      BY <1>1
    <3> QED  BY <2>4, <2>6, <3>1 DEF Above, PlacedAt
  <2> QED  BY <1>1, <2>1, <2>2, <2>5, <2>6
<1> QED  BY <1>2, <1>3

\* The leafs after hcb_insert: the new y inside h has node h on side q and on the
\* other what was at the place, and takes that place.
Inserting(p, d, k, h, q, o, lf, cb, o2, lf2) ==
  /\ lf2 \in [Heads -> [0 .. 1 -> Words]]
  /\ o2 = IF k = 0 THEN Y(h) ELSE o
  /\ \A y \in Heads : \A s \in 0 .. 1 :
       lf2[y][s] = IF y = h THEN (IF s = q THEN Node(h) ELSE p[k])
                   ELSE IF k > 0 /\ y = p[k - 1][2] /\ s = Side(d, cb[y]) THEN Y(h)
                   ELSE lf[y][s]

\* These objheads and y's are a tree.
HasTree(o, lf, cb, dg, I, Ys) == \E U : Tree(o, lf, cb, dg, I, Ys, U)

\* hcb_insert leaves a tree with one objhead and one y more.
LEMMA InsertTree ==
  ASSUME NEW p, NEW d, NEW o, NEW lf, NEW cb, NEW dg, NEW I, NEW Ys, NEW U,
         OnPath(p, d, o, lf, cb, dg, I, Ys, U), NEW e, EndsAt(p, e, I, U), dg[e] # d,
         NEW bit, bit = hcb_crit_bit(d, dg[e]), NEW k, PlacedAt(p, cb, bit, k),
         NEW h \in Heads, h \notin I, h \notin Ys, dg[h] = d, NEW q, q = Side(d, bit),
         NEW o2, NEW lf2, NEW cb2, cb2 = [cb EXCEPT ![h] = bit],
         Inserting(p, d, k, h, q, o, lf, cb, o2, lf2)
  PROVE  HasTree(o2, lf2, cb2, dg, I \cup {h}, Ys \cup {h})
<1> DEFINE A == Above(p, k)
           V == [y \in Ys \cup {h} |-> IF y = h THEN Sub(U, p[k]) \cup {h}
                                       ELSE IF y \in A THEN U[y] \cup {h} ELSE U[y]]
           At(y, s) == k > 0 /\ y = p[k - 1][2] /\ s = Side(d, cb[y])
<1>1. /\ Size \in Nat /\ k \in 0 .. Size /\ Tree(o, lf, cb, dg, I, Ys, U) /\ d \in Full /\ o = p[0]
      /\ BitLen \in Nat
  BY SizeType, HashAssumption DEF OnPath, PlacedAt, IsPath, BitLen
<1>2. /\ Typed(o, lf, cb) /\ (\A g \in I : dg[g] \in Full)
      /\ Rooted(o, I, Ys, U) /\ Linked(lf, cb, Ys) /\ Covers(lf, I, Ys, U)
      /\ Sided(lf, cb, dg, Ys, U) /\ Agreed(cb, dg, Ys, U) /\ Single(o, lf, Ys)
  BY <1>1 DEF Tree
<1>3. /\ o \in Words /\ lf \in [Heads -> [0 .. 1 -> Words]] /\ cb \in [Heads -> 0 .. BitLen - 1]
      /\ I \subseteq Heads /\ Ys \subseteq Heads /\ U \in [Ys -> SUBSET Heads] /\ Sub(U, o) = I
  BY <1>2 DEF Typed, Rooted
<1>4. /\ bit \in 0 .. BitLen - 1 /\ q \in 0 .. 1
      /\ \A y \in A : /\ y \in Ys /\ cb[y] < bit /\ e \in U[y]
                      /\ \A m \in 0 .. BitLen - 1 : m < cb[y] => Side(d, m) = Side(dg[e], m)
      /\ \A g \in Sub(U, p[k]) : /\ Side(dg[g], bit) = 1 - q
                                 /\ \A m \in 0 .. BitLen - 1 : m < bit => Side(d, m) = Side(dg[g], m)
      /\ IsY(p[k]) => p[k][2] \notin A /\ bit < cb[p[k][2]]
  <2>1. Fits(p, k, d, bit, e, cb, dg, Ys, U)
    BY Placed
  <2> QED  BY <2>1 DEF Fits
<1>5. Inside(p[k], I, Ys, U)
  BY <1>1, PathInside
<1>6. /\ \A y \in Ys : \A s \in 0 .. 1 : /\ Inside(lf[y][s], I, Ys, U) /\ Sub(U, lf[y][s]) \subseteq U[y]
                                         /\ lf[y][s] # Node(h) /\ lf[y][s] # Y(h)
      /\ p[k] # Node(h) /\ p[k] # Y(h)
  <2>1. \A w : Inside(w, I, Ys, U) => w # Node(h) /\ w # Y(h)
    BY WordKinds DEF Inside, Sub
  <2>2. \A y \in Ys : \A s \in 0 .. 1 : Inside(lf[y][s], I, Ys, U) /\ Sub(U, lf[y][s]) \subseteq U[y]
    BY <1>1, LeafInside
  <2> QED  BY <1>5, <2>1, <2>2
<1>7. \A y \in Heads : cb2[y] = IF y = h THEN bit ELSE cb[y]
  BY <1>3
<1>8. /\ lf2 \in [Heads -> [0 .. 1 -> Words]] /\ o2 = IF k = 0 THEN Y(h) ELSE o
      /\ \A s \in 0 .. 1 : lf2[h][s] = IF s = q THEN Node(h) ELSE p[k]
      /\ \A y \in Ys : \A s \in 0 .. 1 : lf2[y][s] = IF At(y, s) THEN Y(h) ELSE lf[y][s]
  BY <1>3 DEF Inserting
\* Above(k - 1) is the y whose leaf the place is.
<1>9. ASSUME NEW y \in Ys, NEW s \in 0 .. 1, At(y, s) PROVE y \in A /\ lf[y][s] = p[k]
  <2>1. PICK j \in 1 .. Size : j = k /\ j - 1 \in 0 .. Size /\ j - 1 < k
    BY <1>1, <1>9
  <2>2. IsY(p[j - 1])
    BY <2>1 DEF PlacedAt
  <2>3. p[j] = lf[y][s]
    BY <1>9, <2>1, <2>2, PathNext
  <2>4. y \in A
    BY <1>9, <2>1 DEF Above
  <2> QED  BY <2>1, <2>3, <2>4
<1>10. \A y \in Ys : \A s \in 0 .. 1 :
         /\ (IsY(lf[y][s]) /\ lf[y][s][2] \in A) => y \in A /\ s = Side(d, cb[y]) /\ ~ At(y, s)
         /\ (y \in A /\ s = Side(d, cb[y])) => (IsY(lf[y][s]) /\ lf[y][s][2] \in A) \/ At(y, s)
  <2>1. ASSUME NEW y \in Ys, NEW s \in 0 .. 1
        PROVE  /\ (IsY(lf[y][s]) /\ lf[y][s][2] \in A) => y \in A /\ s = Side(d, cb[y]) /\ ~ At(y, s)
               /\ (y \in A /\ s = Side(d, cb[y])) => (IsY(lf[y][s]) /\ lf[y][s][2] \in A) \/ At(y, s)
    <3>1. PICK w : w = lf[y][s]
      OBVIOUS
    <3>2. IsY(p[k]) => p[k][2] \notin Above(p, k)
      BY <1>4
    <3>3. /\ (IsY(w) /\ w[2] \in Above(p, k)) =>
              y \in Above(p, k) /\ s = Side(d, cb[y]) /\ ~ (k > 0 /\ y = p[k - 1][2])
          /\ (y \in Above(p, k) /\ s = Side(d, cb[y])) =>
              \/ IsY(w) /\ w[2] \in Above(p, k)
              \/ k > 0 /\ y = p[k - 1][2] /\ w = p[k]
      BY <3>1, <3>2, AboveLinks
    <3> QED  BY <3>1, <3>3
  <2> QED  BY <2>1
<1> HIDE DEF At, A
\* What is below a word of the old tree.
<1>11. \A w : Inside(w, I, Ys, U) =>
         Sub(V, w) = IF IsY(w) /\ w[2] \in A THEN Sub(U, w) \cup {h} ELSE Sub(U, w)
  <2>1. ASSUME NEW w, Inside(w, I, Ys, U)
        PROVE  Sub(V, w) = IF IsY(w) /\ w[2] \in A THEN Sub(U, w) \cup {h} ELSE Sub(U, w)
    <3>1. CASE IsY(w)
      <4>1. w[2] \in Ys /\ w[2] # h
        BY <2>1, <3>1 DEF Inside
      <4>2. V[w[2]] = IF w[2] \in A THEN U[w[2]] \cup {h} ELSE U[w[2]]
        BY <4>1
      <4> QED  BY <3>1, <4>2 DEF Sub
    <3>2. CASE ~ IsY(w)
      BY <3>2 DEF Sub
    <3> QED  BY <3>1, <3>2
  <2> QED  BY <2>1
<1>12. /\ Sub(V, Node(h)) = {h} /\ Sub(V, Y(h)) = Sub(U, p[k]) \cup {h} /\ Sub(V, p[k]) = Sub(U, p[k])
       /\ V[h] = Sub(U, p[k]) \cup {h}
       /\ \A y \in Ys : V[y] = IF y \in A THEN U[y] \cup {h} ELSE U[y]
  <2>1. V[h] = Sub(U, p[k]) \cup {h}
    OBVIOUS
  <2>2. Sub(V, Node(h)) = {h} /\ Sub(V, Y(h)) = V[h]
    BY WordKinds DEF Sub
  <2>3. Sub(V, p[k]) = Sub(U, p[k])
    BY <1>4, <1>5, <1>11
  <2>4. \A y \in Ys : V[y] = IF y \in A THEN U[y] \cup {h} ELSE U[y]
    OBVIOUS
  <2> QED  BY <2>1, <2>2, <2>3, <2>4
<1>13. V \in [Ys \cup {h} -> SUBSET Heads]
  <2>1. Sub(U, p[k]) \subseteq Heads
    BY <1>3, <1>5 DEF Inside
  <2>2. \A y \in Ys \cup {h} : (IF y = h THEN Sub(U, p[k]) \cup {h}
                                ELSE IF y \in A THEN U[y] \cup {h} ELSE U[y]) \in SUBSET Heads
    BY <1>3, <2>1
  <2> QED  BY <2>2
<1> HIDE DEF V
\* What is below a leaf of an old y now.
<1>14. \A y \in Ys : \A s \in 0 .. 1 :
         Sub(V, lf2[y][s]) = IF y \in A /\ s = Side(d, cb[y]) THEN Sub(U, lf[y][s]) \cup {h}
                             ELSE Sub(U, lf[y][s])
  <2>1. ASSUME NEW y \in Ys, NEW s \in 0 .. 1
        PROVE  Sub(V, lf2[y][s]) = IF y \in A /\ s = Side(d, cb[y]) THEN Sub(U, lf[y][s]) \cup {h}
                                   ELSE Sub(U, lf[y][s])
    <3>1. CASE At(y, s)
      <4>1. y \in A /\ lf[y][s] = p[k] /\ s = Side(d, cb[y])
        BY <1>9, <3>1 DEF At
      <4>2. lf2[y][s] = Y(h)
        BY <1>8, <3>1
      <4> QED  BY <1>12, <4>1, <4>2
    <3>2. CASE ~ At(y, s)
      <4>1. lf2[y][s] = lf[y][s] /\ Inside(lf[y][s], I, Ys, U)
        BY <1>6, <1>8, <3>2
      <4>2. (IsY(lf[y][s]) /\ lf[y][s][2] \in A) <=> (y \in A /\ s = Side(d, cb[y]))
        BY <1>10, <3>2
      <4>3. Sub(V, lf[y][s]) = IF IsY(lf[y][s]) /\ lf[y][s][2] \in A THEN Sub(U, lf[y][s]) \cup {h}
                               ELSE Sub(U, lf[y][s])
        BY <1>11, <4>1
      <4> QED  BY <4>1, <4>2, <4>3
    <3> QED  BY <3>1, <3>2
  <2> QED  BY <2>1
<1>15. Typed(o2, lf2, cb2)
  <2>1. o2 \in Words
    BY <1>3, <1>8, WordKinds
  <2>2. cb2 \in [Heads -> 0 .. BitLen - 1]
    BY <1>3, <1>4
  <2> QED  BY <1>8, <2>1, <2>2 DEF Typed
<1>16. \A g \in I \cup {h} : dg[g] \in Full
  BY <1>1, <1>2
<1>17. Rooted(o2, I \cup {h}, Ys \cup {h}, V)
  <2>1. Sub(V, o2) = I \cup {h} /\ (IsY(o2) => o2[2] \in Ys \cup {h})
    <3>1. CASE k = 0
      BY <1>1, <1>3, <1>8, <1>12, <3>1, WordKinds
    <3>2. CASE k # 0
      <4>1. o2 = o /\ 0 \in 0 .. Size /\ 0 < k
        BY <1>1, <1>8, <3>2
      <4>2. IsY(o) /\ o[2] \in A
        BY <1>1, <4>1 DEF PlacedAt, Above, A
      <4>3. Inside(o, I, Ys, U)
        BY <1>1, <4>1, PathInside
      <4>4. Sub(V, o) = Sub(U, o) \cup {h}
        BY <1>11, <4>2, <4>3
      <4> QED  BY <1>3, <4>1, <4>2, <4>3, <4>4 DEF Inside
    <3> QED  BY <3>1, <3>2
  <2> QED  BY <1>3, <1>13, <2>1 DEF Rooted
<1>18. Linked(lf2, cb2, Ys \cup {h})
  <2>1. ASSUME NEW s \in 0 .. 1
        PROVE  /\ lf2[h][s] # Null
               /\ IsY(lf2[h][s]) => lf2[h][s][2] \in Ys \cup {h} /\ cb2[h] < cb2[lf2[h][s][2]]
    <3>1. CASE s = q
      BY <1>8, <3>1, WordKinds
    <3>2. CASE s # q
      <4>1. lf2[h][s] = p[k]
        BY <1>8, <3>2
      <4>2. IsY(p[k]) => p[k][2] \in Ys /\ p[k][2] # h /\ p[k][2] \in Heads
        BY <1>3, <1>5 DEF Inside
      <4> QED  BY <1>4, <1>5, <1>7, <4>1, <4>2 DEF Inside
    <3> QED  BY <3>1, <3>2
  <2>2. ASSUME NEW y \in Ys, NEW s \in 0 .. 1
        PROVE  /\ lf2[y][s] # Null
               /\ IsY(lf2[y][s]) => lf2[y][s][2] \in Ys \cup {h} /\ cb2[y] < cb2[lf2[y][s][2]]
    <3>1. y # h /\ y \in Heads /\ cb2[y] = cb[y]
      BY <1>3, <1>7
    <3>2. CASE At(y, s)
      <4>1. lf2[y][s] = Y(h) /\ cb[y] < bit
        BY <1>4, <1>8, <1>9, <3>2
      <4> QED  BY <1>7, <3>1, <4>1, WordKinds
    <3>3. CASE ~ At(y, s)
      <4>1. lf2[y][s] = lf[y][s]
        BY <1>8, <3>3
      <4>2. lf[y][s] # Null /\ (IsY(lf[y][s]) => lf[y][s][2] \in Ys /\ cb[y] < cb[lf[y][s][2]])
        BY <1>2 DEF Linked
      <4> QED  BY <1>3, <1>7, <3>1, <4>1, <4>2
    <3> QED  BY <3>2, <3>3
  <2> QED  BY <2>1, <2>2 DEF Linked
<1>19. Covers(lf2, I \cup {h}, Ys \cup {h}, V)
  <2>1. V[h] # {} /\ V[h] \subseteq I \cup {h} /\ V[h] = Sub(V, lf2[h][0]) \cup Sub(V, lf2[h][1])
    <3>1. V[h] # {} /\ V[h] \subseteq I \cup {h}
      BY <1>5, <1>12 DEF Inside
    <3>2. q = 0 \/ q = 1
      BY <1>4
    <3>3. (lf2[h][0] = Node(h) /\ lf2[h][1] = p[k]) \/ (lf2[h][0] = p[k] /\ lf2[h][1] = Node(h))
      BY <1>8, <3>2
    <3> QED  BY <1>12, <3>1, <3>3
  <2>2. ASSUME NEW y \in Ys
        PROVE  V[y] # {} /\ V[y] \subseteq I \cup {h} /\ V[y] = Sub(V, lf2[y][0]) \cup Sub(V, lf2[y][1])
    <3>1. U[y] # {} /\ U[y] \subseteq I /\ U[y] = Sub(U, lf[y][0]) \cup Sub(U, lf[y][1])
      BY <1>2 DEF Covers
    <3>2. V[y] = IF y \in A THEN U[y] \cup {h} ELSE U[y]
      BY <1>12
    <3>3. V[y] = Sub(V, lf2[y][0]) \cup Sub(V, lf2[y][1])
      <4>1. PICK r \in 0 .. 1 : r = Side(d, cb[y])
        <5>1. y \in Heads
          BY <1>3
        <5>2. cb[y] \in 0 .. BitLen - 1
          BY <1>3, <5>1
        <5> QED  BY <1>1, <5>2, SideType
      <4>2. r = 0 \/ r = 1
        OBVIOUS
      <4>3. \A s \in 0 .. 1 : Sub(V, lf2[y][s]) = IF y \in A /\ s = r THEN Sub(U, lf[y][s]) \cup {h}
                                                  ELSE Sub(U, lf[y][s])
        BY <1>14, <4>1
      <4> QED  BY <3>1, <3>2, <4>2, <4>3
    <3> QED  BY <3>1, <3>2, <3>3
  <2> QED  BY <2>1, <2>2 DEF Covers
<1>20. Sided(lf2, cb2, dg, Ys \cup {h}, V)
  <2>1. ASSUME NEW s \in 0 .. 1, NEW g \in Sub(V, lf2[h][s]) PROVE Side(dg[g], cb2[h]) = s
    <3>1. cb2[h] = bit
      BY <1>7
    <3>2. CASE s = q
      BY <1>8, <1>12, <3>1, <3>2
    <3>3. CASE s # q
      <4>1. g \in Sub(U, p[k]) /\ s = 1 - q
        BY <1>4, <1>8, <1>12, <3>3
      <4> QED  BY <1>4, <3>1, <4>1
    <3> QED  BY <3>2, <3>3
  <2>2. ASSUME NEW y \in Ys, NEW s \in 0 .. 1, NEW g \in Sub(V, lf2[y][s]) PROVE Side(dg[g], cb2[y]) = s
    <3>1. y \in Heads /\ y # h /\ cb2[y] = cb[y]
      BY <1>3, <1>7
    <3>2. CASE g \in Sub(U, lf[y][s])
      BY <1>2, <3>1, <3>2 DEF Sided
    <3>3. CASE g \notin Sub(U, lf[y][s])
      <4>1. g = h /\ s = Side(d, cb[y])
        BY <1>14, <3>3
      <4> QED  BY <3>1, <4>1
    <3> QED  BY <3>2, <3>3
  <2> QED  BY <2>1, <2>2 DEF Sided
<1>21. Agreed(cb2, dg, Ys \cup {h}, V)
  <2>1. ASSUME NEW f \in V[h], NEW g \in V[h], NEW m \in 0 .. BitLen - 1, m < cb2[h]
        PROVE  Side(dg[f], m) = Side(dg[g], m)
    <3>1. \A x \in V[h] : Side(dg[x], m) = Side(d, m)
      BY <1>4, <1>7, <1>12, <2>1
    <3> QED  BY <3>1
  <2>2. ASSUME NEW y \in Ys, NEW f \in V[y], NEW g \in V[y], NEW m \in 0 .. BitLen - 1, m < cb2[y]
        PROVE  Side(dg[f], m) = Side(dg[g], m)
    <3>1. m < cb[y]
      BY <1>3, <1>7, <2>2
    <3>2. \A a, b \in U[y] : Side(dg[a], m) = Side(dg[b], m)
      BY <1>2, <3>1 DEF Agreed
    <3>3. CASE y \in A
      <4>1. e \in U[y] /\ Side(d, m) = Side(dg[e], m)
        BY <1>4, <3>1, <3>3
      <4>2. \A x \in V[y] : Side(dg[x], m) = Side(dg[e], m)
        BY <1>12, <3>2, <3>3, <4>1
      <4> QED  BY <4>2
    <3>4. CASE y \notin A
      <4>1. V[y] = U[y]
        BY <1>12, <3>4
      <4> QED  BY <2>2, <3>2, <4>1
    <3> QED  BY <3>3, <3>4
  <2> QED  BY <2>1, <2>2 DEF Agreed
<1>22. Single(o2, lf2, Ys \cup {h})
  \* The word at the place was nowhere else.
  <2>1. ASSUME NEW y \in Ys, NEW s \in 0 .. 1, ~ At(y, s) PROVE lf[y][s] # p[k]
    <3>1. CASE k = 0
      BY <1>1, <1>2, <3>1 DEF Single
    <3>2. CASE k # 0
      <4>1. PICK j \in 1 .. Size : j = k /\ j - 1 \in 0 .. Size /\ j - 1 < k /\ k > 0
        BY <1>1, <3>2
      <4>2. IsY(p[j - 1]) /\ Inside(p[j - 1], I, Ys, U)
        BY <4>1, PathInside DEF PlacedAt
      <4>3. PICK z, r : z = p[j - 1][2] /\ r = Side(d, cb[z])
        OBVIOUS
      <4>4. z \in Ys /\ r \in 0 .. 1 /\ p[j] = lf[z][r]
        BY <4>2, <4>3, PathNext DEF Inside
      <4>5. At(z, r)
        BY <4>1, <4>3 DEF At
      <4>6. ~ (y = z /\ s = r)
        BY <2>1, <4>5
      <4>7. lf[y][s] # lf[z][r]
        BY <1>2, <4>4, <4>6 DEF Single
      <4> QED  BY <4>1, <4>4, <4>7
    <3> QED  BY <3>1, <3>2
  <2>2. p[k] # o \/ k = 0
    <3>1. CASE k # 0
      <4>1. PICK j \in 1 .. Size : j = k /\ j - 1 \in 0 .. Size /\ j - 1 < k
        BY <1>1, <3>1
      <4>2. IsY(p[j - 1]) /\ Inside(p[j - 1], I, Ys, U)
        BY <4>1, PathInside DEF PlacedAt
      <4>3. PICK z, r : z = p[j - 1][2] /\ r = Side(d, cb[z])
        OBVIOUS
      <4>4. z \in Ys /\ r \in 0 .. 1 /\ p[j] = lf[z][r]
        BY <4>2, <4>3, PathNext DEF Inside
      <4>5. lf[z][r] # o
        BY <1>2, <4>4 DEF Single
      <4> QED  BY <4>1, <4>4, <4>5
    <3> QED  BY <3>1
  <2>3. Node(h) # Y(h) /\ o # Node(h) /\ o # Y(h)
    <3>1. Inside(o, I, Ys, U)
      BY <1>1, PathInside
    <3>2. \A w : Inside(w, I, Ys, U) => w # Node(h) /\ w # Y(h)
      BY WordKinds DEF Inside, Sub
    <3> QED  BY <3>1, <3>2, WordKinds
  <2>4. ASSUME NEW y \in Ys \cup {h}, NEW s \in 0 .. 1 PROVE lf2[y][s] # o2
    <3>1. CASE y = h
      BY <1>6, <1>8, <2>2, <2>3, <3>1
    <3>2. CASE y # h
      <4>1. y \in Ys /\ lf[y][s] # o
        BY <1>2, <3>2 DEF Single
      <4>2. CASE At(y, s)
        <5>1. k # 0 /\ lf2[y][s] = Y(h)
          BY <1>1, <1>8, <4>1, <4>2 DEF At
        <5> QED  BY <1>8, <2>3, <5>1
      <4>3. CASE ~ At(y, s)
        BY <1>6, <1>8, <4>1, <4>3
      <4> QED  BY <4>2, <4>3
    <3> QED  BY <3>1, <3>2
  <2>5. \A y \in Ys : \A s \in 0 .. 1 : \A r \in 0 .. 1 : lf2[y][s] # lf2[h][r]
    BY <1>6, <1>8, <2>1, <2>3
  <2>6. \A s, r \in 0 .. 1 : lf2[h][s] = lf2[h][r] => s = r
    <3>1. ASSUME NEW s \in 0 .. 1, NEW r \in 0 .. 1, s # r PROVE lf2[h][s] # lf2[h][r]
      <4>1. s = q \/ r = q
        BY <1>4, <3>1
      <4> QED  BY <1>6, <1>8, <3>1, <4>1
    <3> QED  BY <3>1
  <2>7. ASSUME NEW y \in Ys, NEW z \in Ys, NEW s \in 0 .. 1, NEW r \in 0 .. 1, lf2[y][s] = lf2[z][r]
        PROVE  y = z /\ s = r
    <3>1. At(y, s) <=> At(z, r)
      BY <1>6, <1>8, <2>7
    <3>2. CASE At(y, s)
      BY <3>1, <3>2 DEF At
    <3>3. CASE ~ At(y, s)
      <4>1. lf[y][s] = lf[z][r]
        BY <1>8, <2>7, <3>1, <3>3
      <4> QED  BY <1>2, <4>1 DEF Single
    <3> QED  BY <3>2, <3>3
  <2>8. \A y \in Ys \cup {h} : y = h \/ y \in Ys
    OBVIOUS
  <2> QED  BY <2>4, <2>5, <2>6, <2>7, <2>8 DEF Single
<1>23. Tree(o2, lf2, cb2, dg, I \cup {h}, Ys \cup {h}, V)
  BY <1>15, <1>16, <1>17, <1>18, <1>19, <1>20, <1>21, <1>22 DEF Tree
<1> QED  BY <1>23 DEF HasTree

-----------------------------------------------------------------------------
(* hcb_delete *)

\* h hangs on side s of the y that is word i of the path to its digest.
HangsAt(p, d, i, h, y, s, lf, cb) ==
  /\ i \in 0 .. Size /\ p[i] = Y(y) /\ s = Side(d, cb[y]) /\ lf[y][s] = Node(h)

\* The y that an objhead hangs from, on the way down with its digest.
LEMMA HangsIs ==
  ASSUME NEW p, NEW d, NEW o, NEW lf, NEW cb, NEW dg, NEW I, NEW Ys, NEW U,
         OnPath(p, d, o, lf, cb, dg, I, Ys, U), NEW h \in I, dg[h] = d, o # Node(h),
         NEW i, i = Min({j \in 0 .. Size : p[j] = Node(h)}) - 1
  PROVE  /\ HangsAt(p, d, i, h, p[i][2], Side(d, cb[p[i][2]]), lf, cb)
         /\ p[i][2] \in Ys /\ Side(d, cb[p[i][2]]) \in 0 .. 1
<1> DEFINE S == {j \in 0 .. Size : p[j] = Node(h)}
<1>1. Size \in Nat /\ o = p[0]
  BY SizeType DEF OnPath, IsPath
<1>2. p[Size] = Node(h)
  BY PathEnds DEF EndsAt
<1>3. S # {} /\ S \in SUBSET Nat
  BY <1>1, <1>2
<1>4. PICK j : j = Min(S)
  OBVIOUS
<1>5. j \in S /\ \A x \in S : j <= x
  BY <1>3, <1>4, MinOf
<1>6. j \in 1 .. Size /\ p[j] = Node(h) /\ i = j - 1 /\ i \in 0 .. Size /\ p[i] # Node(h)
  <2>1. j \in 0 .. Size /\ p[j] = Node(h) /\ i = j - 1
    BY <1>4, <1>5
  <2>2. j # 0
    BY <1>1, <2>1
  <2>3. i \in 0 .. Size /\ i \notin S
    BY <1>1, <1>5, <2>1, <2>2
  <2> QED  BY <1>1, <2>1, <2>2, <2>3
<1>7. IsY(p[i])
  BY <1>6, PathStep
<1>8. PICK y, s : y = p[i][2] /\ s = Side(d, cb[y])
  OBVIOUS
<1>9. y \in Ys /\ p[i] = Y(y)
  <2>1. Inside(p[i], I, Ys, U)
    BY <1>6, PathInside
  <2> QED  BY <1>7, <1>8, <2>1, WordKinds DEF Inside
<1>10. s \in 0 .. 1 /\ p[j] = lf[y][s]
  BY <1>6, <1>7, <1>8, PathNext
<1> QED  BY <1>6, <1>8, <1>9, <1>10 DEF HangsAt

\* The leafs after the store of hcb_delete: the sibling of h takes the place of
\* the y above them.
Deleting(p, d, i, y, s, o, lf, cb, o2, lf2) ==
  /\ lf2 \in [Heads -> [0 .. 1 -> Words]]
  /\ o2 = IF i = 0 THEN lf[y][1 - s] ELSE o
  /\ \A z \in Heads : \A r \in 0 .. 1 :
       lf2[z][r] = IF i > 0 /\ z = p[i - 1][2] /\ r = Side(d, cb[z]) THEN lf[y][1 - s] ELSE lf[z][r]

\* A tree with w in it.
LeavesTree(o, lf, cb, dg, I, Ys, w) ==
  \E U : Tree(o, lf, cb, dg, I, Ys, U) /\ Inside(w, I, Ys, U)

\* The leaf of z towards r is the one that points to p[i].
LinkAt(p, d, cb, i, z, r) ==
  i > 0 /\ z = p[i - 1][2] /\ r = Side(d, cb[z])

OnlyLink(p, d, cb, i, z, r) ==
  /\ LinkAt(p, d, cb, i, z, r)
  /\ \A z2, r2 : LinkAt(p, d, cb, i, z2, r2) => z2 = z /\ r2 = r

\* A link has one place.
LEMMA LinkOnce ==
  ASSUME NEW p, NEW d, NEW cb, NEW i, NEW z, NEW r, LinkAt(p, d, cb, i, z, r)
  PROVE  OnlyLink(p, d, cb, i, z, r)
  BY DEF LinkAt, OnlyLink

\* hcb_delete leaves a tree without the objhead and the y it hung from.
LEMMA DeleteTree ==
  ASSUME NEW p, NEW d, NEW o, NEW lf, NEW cb, NEW dg, NEW I, NEW Ys, NEW U,
         OnPath(p, d, o, lf, cb, dg, I, Ys, U), NEW h \in I, dg[h] = d,
         NEW i, NEW y \in Ys, NEW s \in 0 .. 1, HangsAt(p, d, i, h, y, s, lf, cb),
         NEW o2, NEW lf2, Deleting(p, d, i, y, s, o, lf, cb, o2, lf2)
  PROVE  LeavesTree(o2, lf2, cb, dg, I \ {h}, Ys \ {y}, lf[y][1 - s])
<1> DEFINE V == [z \in Ys \ {y} |-> U[z] \ {h}]
           At(z, r) == LinkAt(p, d, cb, i, z, r)
<1>1. /\ Size \in Nat /\ Tree(o, lf, cb, dg, I, Ys, U) /\ d \in Full /\ o = p[0]
      /\ BitLen \in Nat /\ i \in 0 .. Size /\ p[i] = Y(y) /\ s = Side(d, cb[y]) /\ lf[y][s] = Node(h)
  BY SizeType, HashAssumption DEF OnPath, HangsAt, IsPath, BitLen
<1>2. /\ Typed(o, lf, cb) /\ (\A g \in I : dg[g] \in Full)
      /\ Rooted(o, I, Ys, U) /\ Linked(lf, cb, Ys) /\ Covers(lf, I, Ys, U)
      /\ Sided(lf, cb, dg, Ys, U) /\ Agreed(cb, dg, Ys, U) /\ Single(o, lf, Ys)
  BY <1>1 DEF Tree
<1>3. /\ o \in Words /\ lf \in [Heads -> [0 .. 1 -> Words]] /\ cb \in [Heads -> 0 .. BitLen - 1]
      /\ I \subseteq Heads /\ Ys \subseteq Heads /\ U \in [Ys -> SUBSET Heads] /\ Sub(U, o) = I
      /\ (IsY(o) => o[2] \in Ys)
  BY <1>2 DEF Typed, Rooted
<1>4. PICK w : w = lf[y][1 - s]
  OBVIOUS
<1>5. 1 - s \in 0 .. 1 /\ 1 - s # s
  OBVIOUS
<1>6. \A z \in Ys : \A r \in 0 .. 1 : Inside(lf[z][r], I, Ys, U) /\ Sub(U, lf[z][r]) \subseteq U[z]
  BY <1>1, LeafInside
<1>7. /\ Inside(w, I, Ys, U) /\ w # Node(h) /\ w # Y(y) /\ (IsY(w) => cb[y] < cb[w[2]])
      /\ h \notin Sub(U, w) /\ U[y] = Sub(U, w) \cup {h}
  <2>1. Inside(w, I, Ys, U)
    BY <1>4, <1>5, <1>6
  <2>2. w # Node(h)
    BY <1>1, <1>2, <1>4, <1>5 DEF Single
  <2>3. IsY(w) => cb[y] < cb[w[2]]
    BY <1>2, <1>4, <1>5 DEF Linked
  <2>4. w # Y(y)
    <3>1. cb[y] \in 0 .. BitLen - 1
      BY <1>3
    <3>2. ~ (cb[y] < cb[y])
      BY <1>1, <3>1
    <3> QED  BY <2>3, <3>2, WordKinds
  <2>5. Sub(U, lf[y][s]) = {h}
    BY <1>1, WordKinds DEF Sub
  <2>6. h \notin Sub(U, w)
    <3>1. h \in Sub(U, lf[y][s])
      BY <2>5
    <3> QED  BY <1>1, <1>4, <3>1, SidesApart
  <2>7. U[y] = Sub(U, lf[y][0]) \cup Sub(U, lf[y][1])
    BY <1>2 DEF Covers
  <2>8. U[y] = Sub(U, w) \cup {h}
    <3>1. CASE s = 0
      BY <1>4, <2>5, <2>7, <3>1
    <3>2. CASE s = 1
      BY <1>4, <2>5, <2>7, <3>2
    <3> QED  BY <3>1, <3>2
  <2> QED  BY <2>1, <2>2, <2>3, <2>4, <2>6, <2>8
<1>8. /\ lf2 \in [Heads -> [0 .. 1 -> Words]] /\ o2 = IF i = 0 THEN w ELSE o
      /\ \A z \in Heads : \A r \in 0 .. 1 : lf2[z][r] = IF At(z, r) THEN w ELSE lf[z][r]
  BY <1>4 DEF Deleting, LinkAt
\* Where Y(y) is.
<1>9. IF i = 0 THEN o = Y(y)
      ELSE \E z \in Ys : \E r \in 0 .. 1 : /\ OnlyLink(p, d, cb, i, z, r) /\ lf[z][r] = Y(y)
                                           /\ z # y /\ cb[z] < cb[y]
  <2>1. CASE i = 0
    BY <1>1, <2>1
  <2>2. CASE i # 0
    <3>1. PICK j \in 1 .. Size : j = i /\ j - 1 \in 0 .. Size /\ i > 0
      BY <1>1, <2>2
    <3>2. IsY(p[j])
      BY <1>1, <3>1, WordKinds
    <3>3. PICK z, r : z = p[j - 1][2] /\ r = Side(d, cb[z])
      OBVIOUS
    <3>4. IsY(p[j - 1]) /\ Inside(p[j - 1], I, Ys, U) /\ cb[z] < cb[p[j][2]]
      BY <3>2, <3>3, PathNext
    <3>5. z \in Ys /\ r \in 0 .. 1 /\ p[j] = lf[z][r]
      BY <3>3, <3>4, PathNext DEF Inside
    <3>6. p[j] = Y(y) /\ p[j][2] = y
      BY <1>1, <3>1, WordKinds
    <3>7. cb[y] \in 0 .. BitLen - 1 /\ ~ (cb[y] < cb[y])
      BY <1>1, <1>3
    <3>8. z # y
      BY <3>4, <3>6, <3>7
    <3>9. i > 0 /\ z = p[i - 1][2] /\ r = Side(d, cb[z])
      BY <3>1, <3>3
    <3>10. At(z, r)
      BY <3>9 DEF LinkAt
    <3>11. OnlyLink(p, d, cb, i, z, r)
      BY <3>10, LinkOnce
    <3> QED  BY <2>2, <3>4, <3>5, <3>6, <3>8, <3>11
  <2> QED  BY <2>1, <2>2
<1> HIDE DEF At
<1>10. ASSUME NEW z \in Ys, NEW r \in 0 .. 1, ~ At(z, r) PROVE lf[z][r] # Y(y)
  <2>1. CASE i = 0
    BY <1>2, <1>9, <2>1 DEF Single
  <2>2. CASE i # 0
    <3>1. PICK z2 \in Ys, r2 \in 0 .. 1 : At(z2, r2) /\ lf[z2][r2] = Y(y)
      BY <1>9, <2>2 DEF At, OnlyLink
    <3>2. ~ (z = z2 /\ r = r2)
      BY <1>10, <3>1
    <3> QED  BY <1>2, <3>1, <3>2 DEF Single
  <2> QED  BY <2>1, <2>2
<1>11. \A z \in Ys \ {y} : \A r \in 0 .. 1 : lf[z][r] # Node(h)
  BY <1>1, <1>2 DEF Single
<1>12. \A z \in Ys : \A r \in 0 .. 1 : lf2[z][r] = IF At(z, r) THEN w ELSE lf[z][r]
  BY <1>3, <1>8
\* What is below a word that stays.
<1>13. \A v : (Inside(v, I, Ys, U) /\ v # Node(h) /\ v # Y(y)) => Sub(V, v) = Sub(U, v) \ {h}
  <2>1. ASSUME NEW v, Inside(v, I, Ys, U), v # Node(h), v # Y(y) PROVE Sub(V, v) = Sub(U, v) \ {h}
    <3>1. CASE IsY(v)
      <4>1. v[2] \in Ys /\ v[2] # y
        BY <2>1, <3>1, WordKinds DEF Inside
      <4>2. V[v[2]] = U[v[2]] \ {h}
        BY <4>1
      <4> QED  BY <3>1, <4>2 DEF Sub
    <3>2. CASE ~ IsY(v)
      <4>1. IsNode(v) /\ v[2] # h
        BY <2>1, <3>2, WordKinds DEF Inside
      <4> QED  BY <3>2, <4>1 DEF Sub
    <3> QED  BY <3>1, <3>2
  <2> QED  BY <2>1
<1>14. /\ V \in [Ys \ {y} -> SUBSET Heads] /\ \A z \in Ys \ {y} : V[z] = U[z] \ {h}
  BY <1>3
<1> HIDE DEF V
<1>15. Sub(V, w) = Sub(U, w) /\ Sub(V, w) = U[y] \ {h} /\ Sub(V, w) # {}
  BY <1>7, <1>13 DEF Inside
<1>16. \A z \in Ys \ {y} : \A r \in 0 .. 1 : /\ Sub(V, lf2[z][r]) = Sub(U, lf[z][r]) \ {h}
                                             /\ lf2[z][r] # Null
                                             /\ IsY(lf2[z][r]) => lf2[z][r][2] \in Ys \ {y}
                                             /\ IsY(lf2[z][r]) => cb[z] < cb[lf2[z][r][2]]
  <2>1. ASSUME NEW z \in Ys \ {y}, NEW r \in 0 .. 1
        PROVE  /\ Sub(V, lf2[z][r]) = Sub(U, lf[z][r]) \ {h} /\ lf2[z][r] # Null
               /\ IsY(lf2[z][r]) => lf2[z][r][2] \in Ys \ {y}
               /\ IsY(lf2[z][r]) => cb[z] < cb[lf2[z][r][2]]
    <3>1. CASE At(z, r)
      <4>1. lf2[z][r] = w
        BY <1>12, <3>1
      <4>2. lf[z][r] = Y(y) /\ cb[z] < cb[y]
        BY <1>1, <1>9, <3>1 DEF At, LinkAt, OnlyLink
      <4>3. Sub(U, lf[z][r]) = U[y]
        BY <4>2, WordKinds DEF Sub
      <4>4. IsY(w) => w[2] \in Ys /\ w[2] # y
        BY <1>7, WordKinds DEF Inside
      <4>5. IsY(w) => cb[z] < cb[w[2]]
        <5>1. cb[z] \in 0 .. BitLen - 1 /\ cb[y] \in 0 .. BitLen - 1
          BY <1>3
        <5>2. IsY(w) => w[2] \in Heads
          BY <1>3, <4>4
        <5>3. IsY(w) => cb[w[2]] \in 0 .. BitLen - 1
          BY <1>3, <5>2
        <5> QED  BY <1>1, <1>7, <4>2, <5>1, <5>3
      <4> QED  BY <1>7, <1>15, <4>1, <4>3, <4>4, <4>5 DEF Inside
    <3>2. CASE ~ At(z, r)
      <4>1. lf2[z][r] = lf[z][r] /\ Inside(lf[z][r], I, Ys, U)
        BY <1>6, <1>12, <3>2
      <4>2. lf[z][r] # Y(y) /\ lf[z][r] # Node(h)
        BY <1>10, <1>11, <3>2
      <4>3. Sub(V, lf[z][r]) = Sub(U, lf[z][r]) \ {h}
        BY <1>13, <4>1, <4>2
      <4>4. IsY(lf[z][r]) => lf[z][r][2] \in Ys /\ lf[z][r][2] # y /\ cb[z] < cb[lf[z][r][2]]
        BY <1>2, <4>1, <4>2, WordKinds DEF Inside, Linked
      <4> QED  BY <4>1, <4>3, <4>4 DEF Inside
    <3> QED  BY <3>1, <3>2
  <2> QED  BY <2>1
<1>17. Typed(o2, lf2, cb)
  <2>1. o2 \in Words
    BY <1>3, <1>7, <1>8 DEF Inside
  <2> QED  BY <1>3, <1>8, <2>1 DEF Typed
<1>18. Rooted(o2, I \ {h}, Ys \ {y}, V)
  <2>1. Sub(V, o2) = I \ {h} /\ (IsY(o2) => o2[2] \in Ys \ {y})
    <3>1. CASE i = 0
      <4>1. o = Y(y) /\ o2 = w
        BY <1>8, <1>9, <3>1
      <4>2. I = U[y]
        BY <1>3, <4>1, WordKinds DEF Sub
      <4>3. IsY(w) => w[2] \in Ys /\ w[2] # y
        BY <1>7, WordKinds DEF Inside
      <4> QED  BY <1>15, <4>1, <4>2, <4>3
    <3>2. CASE i # 0
      <4>1. PICK z \in Ys, r \in 0 .. 1 : lf[z][r] = Y(y)
        BY <1>9, <3>2 DEF At, OnlyLink
      <4>2. o # Y(y) /\ o # Node(h) /\ o2 = o
        BY <1>1, <1>2, <1>8, <3>2, <4>1 DEF Single
      <4>3. Inside(o, I, Ys, U)
        BY <1>1, RootInside DEF OnPath
      <4>4. Sub(V, o) = Sub(U, o) \ {h}
        BY <1>13, <4>2, <4>3
      <4>5. IsY(o) => o[2] # y
        BY <1>3, <4>2, WordKinds
      <4> QED  BY <1>3, <4>2, <4>4, <4>5
    <3> QED  BY <3>1, <3>2
  <2> QED  BY <1>3, <1>14, <2>1 DEF Rooted
<1>19. Linked(lf2, cb, Ys \ {y})
  BY <1>16 DEF Linked
<1>20. Covers(lf2, I \ {h}, Ys \ {y}, V)
  <2>1. ASSUME NEW z \in Ys \ {y}
        PROVE  V[z] # {} /\ V[z] \subseteq I \ {h} /\ V[z] = Sub(V, lf2[z][0]) \cup Sub(V, lf2[z][1])
    <3>1. U[z] # {} /\ U[z] \subseteq I /\ U[z] = Sub(U, lf[z][0]) \cup Sub(U, lf[z][1])
      BY <1>2 DEF Covers
    <3>2. V[z] = U[z] \ {h}
      BY <1>14
    <3>3. 0 \in 0 .. 1 /\ 1 \in 0 .. 1 /\ 1 - 0 = 1
      OBVIOUS
    <3>4. Sub(V, lf2[z][0]) = Sub(U, lf[z][0]) \ {h} /\ Sub(V, lf2[z][1]) = Sub(U, lf[z][1]) \ {h}
      BY <1>16, <3>3
    <3>5. PICK a, b : a \in Sub(U, lf[z][0]) /\ b \in Sub(U, lf[z][1])
      BY <1>6, <3>3 DEF Inside
    <3>6. a # b
      <4>1. Side(dg[a], cb[z]) = 0 /\ Side(dg[b], cb[z]) = 1
        BY <1>2, <3>3, <3>5 DEF Sided
      <4> QED  BY <4>1
    <3> QED  BY <3>1, <3>2, <3>4, <3>5, <3>6
  <2> QED  BY <2>1 DEF Covers
<1>21. Sided(lf2, cb, dg, Ys \ {y}, V)
  BY <1>2, <1>16 DEF Sided
<1>22. Agreed(cb, dg, Ys \ {y}, V)
  BY <1>2, <1>14 DEF Agreed
<1>23. Single(o2, lf2, Ys \ {y})
  \* The sibling was nowhere else.
  <2>1. w # o /\ \A z \in Ys \ {y} : \A r \in 0 .. 1 : lf[z][r] # w
    <3>1. Single(o, lf, Ys) /\ y \in Ys /\ 1 - s \in 0 .. 1 /\ w = lf[y][1 - s]
      BY <1>2, <1>4, <1>5
    <3> QED  BY <3>1 DEF Single
  <2>2. ASSUME NEW z \in Ys \ {y}, NEW r \in 0 .. 1 PROVE lf2[z][r] # o2
    <3>1. CASE i = 0
      <4>1. ~ At(z, r) /\ o2 = w
        BY <1>1, <1>8, <3>1 DEF At, LinkAt
      <4> QED  BY <1>12, <2>1, <4>1
    <3>2. CASE i # 0
      <4>1. o2 = o /\ lf[z][r] # o
        BY <1>2, <1>8, <3>2 DEF Single
      <4> QED  BY <1>12, <2>1, <4>1
    <3> QED  BY <3>1, <3>2
  <2>3. ASSUME NEW z \in Ys \ {y}, NEW x \in Ys \ {y}, NEW r \in 0 .. 1, NEW q \in 0 .. 1,
               lf2[z][r] = lf2[x][q]
        PROVE  z = x /\ r = q
    <3>1. At(z, r) <=> At(x, q)
      BY <1>12, <2>1, <2>3
    <3>2. CASE At(z, r)
      BY <3>1, <3>2 DEF At, LinkAt
    <3>3. CASE ~ At(z, r)
      <4>1. lf[z][r] = lf[x][q]
        BY <1>12, <2>3, <3>1, <3>3
      <4> QED  BY <1>2, <4>1 DEF Single
    <3> QED  BY <3>2, <3>3
  <2> QED  BY <2>2, <2>3 DEF Single
<1>24. Tree(o2, lf2, cb, dg, I \ {h}, Ys \ {y}, V)
  BY <1>2, <1>17, <1>18, <1>19, <1>20, <1>21, <1>22, <1>23 DEF Tree
<1>25. Inside(w, I \ {h}, Ys \ {y}, V)
  <2>1. IsY(w) => w[2] # y
    BY <1>7, WordKinds DEF Inside
  <2> QED  BY <1>7, <1>15, <2>1 DEF Inside
<1>26. LeavesTree(o2, lf2, cb, dg, I \ {h}, Ys \ {y}, w)
  BY <1>24, <1>25 DEF LeavesTree
<1> QED  BY <1>4, <1>26

-----------------------------------------------------------------------------
(* Small trees, and steps that leave the tree alone *)

\* What is not in the tree does not matter.
LEMMA TreeSame ==
  ASSUME NEW o, NEW lf, NEW cb, NEW dg, NEW I, NEW Ys, NEW U,
         Tree(o, lf, cb, dg, I, Ys, U), NEW lf2, Typed(o, lf2, cb),
         \A y \in Ys : lf2[y] = lf[y], NEW dg2, \A g \in I : dg2[g] = dg[g]
  PROVE  Tree(o, lf2, cb, dg2, I, Ys, U)
<1>1. /\ Typed(o, lf, cb) /\ (\A g \in I : dg[g] \in Full)
      /\ Rooted(o, I, Ys, U) /\ Linked(lf, cb, Ys) /\ Covers(lf, I, Ys, U)
      /\ Sided(lf, cb, dg, Ys, U) /\ Agreed(cb, dg, Ys, U) /\ Single(o, lf, Ys)
  BY DEF Tree
<1>2. \A y \in Ys : \A s \in 0 .. 1 : Sub(U, lf[y][s]) \subseteq I
  BY LeafInside DEF Inside
<1>3. \A y \in Ys : U[y] \subseteq I
  BY <1>1 DEF Covers
<1>4. Linked(lf2, cb, Ys)
  BY <1>1 DEF Linked
<1>5. Covers(lf2, I, Ys, U)
  BY <1>1 DEF Covers
<1>6. Sided(lf2, cb, dg2, Ys, U)
  <2>1. ASSUME NEW y \in Ys, NEW s \in 0 .. 1, NEW g \in Sub(U, lf2[y][s]) PROVE Side(dg2[g], cb[y]) = s
    <3>1. g \in Sub(U, lf[y][s]) /\ dg2[g] = dg[g]
      BY <1>2
    <3> QED  BY <1>1, <3>1 DEF Sided
  <2> QED  BY <2>1 DEF Sided
<1>7. Agreed(cb, dg2, Ys, U)
  <2>1. ASSUME NEW y \in Ys, NEW g \in U[y], NEW h \in U[y], NEW m \in 0 .. BitLen - 1, m < cb[y]
        PROVE  Side(dg2[g], m) = Side(dg2[h], m)
    <3>1. dg2[g] = dg[g] /\ dg2[h] = dg[h]
      BY <1>3
    <3>2. Side(dg[g], m) = Side(dg[h], m)
      BY <1>1, <2>1 DEF Agreed
    <3> QED  BY <3>1, <3>2
  <2> QED  BY <2>1 DEF Agreed
<1>8. Single(o, lf2, Ys)
  BY <1>1 DEF Single
<1>9. \A g \in I : dg2[g] \in Full
  BY <1>1
<1> QED  BY <1>1, <1>4, <1>5, <1>6, <1>7, <1>8, <1>9 DEF Tree

\* A tree without a y at its root has no y at all.
LEMMA NoYs ==
  ASSUME NEW o, NEW lf, NEW cb, NEW dg, NEW I, NEW Ys, NEW U,
         Tree(o, lf, cb, dg, I, Ys, U), ~ IsY(o)
  PROVE  Ys = {} /\ (o = Null => I = {}) /\ (\A h : o = Node(h) => I = {h})
<1>1. Sub(U, o) = I /\ o \in Words
  BY DEF Tree, Rooted, Typed
<1>2. (o = Null => I = {}) /\ (\A h : o = Node(h) => I = {h})
  BY <1>1, WordKinds DEF Sub
<1>3. o = Null \/ \E h : o = Node(h)
  BY <1>1, WordKinds
<1>4. ASSUME NEW y \in Ys PROVE FALSE
  <2>1. 0 \in 0 .. 1 /\ 1 \in 0 .. 1 /\ 1 - 0 = 1
    OBVIOUS
  <2>2. /\ Sub(U, lf[y][0]) # {} /\ Sub(U, lf[y][0]) \subseteq I
        /\ Sub(U, lf[y][1]) # {} /\ Sub(U, lf[y][1]) \subseteq I
    BY <2>1, LeafInside DEF Inside
  <2>3. PICK a, b : a \in Sub(U, lf[y][0]) /\ b \in Sub(U, lf[y][1])
    BY <2>2
  <2>4. Side(dg[a], cb[y]) = 0 /\ Side(dg[b], cb[y]) = 1
    BY <2>1, <2>3 DEF Tree, Sided
  <2>5. a # b /\ a \in I /\ b \in I
    BY <2>2, <2>3, <2>4
  <2> QED  BY <1>2, <1>3, <2>5
<1> QED  BY <1>2, <1>4

\* The empty tree.
LEMMA EmptyTree ==
  ASSUME NEW lf, NEW cb, NEW dg, Typed(Null, lf, cb)
  PROVE  \E U : Tree(Null, lf, cb, dg, {}, {}, U)
<1> DEFINE U == [y \in {} |-> {}]
<1>1. Rooted(Null, {}, {}, U)
  <2>1. Sub(U, Null) = {} /\ ~ IsY(Null)
    BY WordKinds DEF Sub
  <2> QED  BY <2>1 DEF Rooted
<1>2. Tree(Null, lf, cb, dg, {}, {}, U)
  <2> HIDE DEF U
  <2> QED  BY <1>1 DEF Tree, Linked, Covers, Sided, Agreed, Single
<1> QED  BY <1>2

\* A tree with one objhead has no y.
LEMMA OneTree ==
  ASSUME NEW lf, NEW cb, NEW dg, NEW h \in Heads, Typed(Node(h), lf, cb), dg[h] \in Full
  PROVE  \E U : Tree(Node(h), lf, cb, dg, {h}, {}, U)
<1> DEFINE U == [y \in {} |-> {}]
<1>1. Rooted(Node(h), {h}, {}, U)
  <2>1. Sub(U, Node(h)) = {h} /\ ~ IsY(Node(h))
    BY WordKinds DEF Sub
  <2> QED  BY <2>1 DEF Rooted
<1>2. Tree(Node(h), lf, cb, dg, {h}, {}, U)
  <2> HIDE DEF U
  <2> QED  BY <1>1 DEF Tree, Linked, Covers, Sided, Agreed, Single
<1> QED  BY <1>2

-----------------------------------------------------------------------------
(* The tree of a state *)

TreeNow(I, Ys, U) == Tree(origo, leaf, critbit, digest, I, Ys, U)

\* Path of the program's tree is a way down in it.
LEMMA NowOnPath ==
  ASSUME NEW I, NEW Ys, NEW U, NEW d \in Full, TreeNow(I, Ys, U), origo # Null
  PROVE  OnPath(Path(d), d, origo, leaf, critbit, digest, I, Ys, U)
<1>1. Typed(origo, leaf, critbit)
  BY DEF TreeNow, Tree
<1>2. IsPath(Path(d), Size, origo, leaf, critbit, d)
  BY <1>1, PathIs DEF Paths
<1> QED  BY <1>2 DEF OnPath, TreeNow

\* In the empty tree every word of a path is Null.
LEMMA NullPath ==
  ASSUME NEW d \in Full, Typed(origo, leaf, critbit), origo = Null
  PROVE  \A i \in 0 .. Size : Path(d)[i] = Null
<1>1. PICK p : p = Path(d)
  OBVIOUS
<1>2. IsPath(p, Size, origo, leaf, critbit, d) /\ Size \in Nat
  BY <1>1, PathIs, SizeType DEF Paths
<1> DEFINE S == {i \in 0 .. Size : p[i] = Null}
<1>3. 0 \in S
  BY <1>2 DEF IsPath
<1>4. ASSUME NEW i \in 1 .. Size, i - 1 \in S PROVE i \in S
  <2>1. p[i] = Null /\ i \in 0 .. Size
    BY <1>2, <1>4, WordKinds DEF IsPath, Down
  <2> QED  BY <2>1
<1>5. \A i \in 0 .. Size : i \in S
  <2> HIDE DEF S
  <2> QED  BY <1>2, <1>3, <1>4, Along
<1> QED  BY <1>1, <1>5

\* What Search finds: the objhead of the tree with that digest.
Finds(I, d) ==
  \/ Search(d) = None /\ \A g \in I : digest[g] # d
  \/ Search(d) \in I /\ digest[Search(d)] = d /\ \A g \in I : digest[g] = d => g = Search(d)

\* Search finds the objhead with the digest, if the tree has one.
LEMMA SearchIs ==
  ASSUME NEW I, NEW Ys, NEW U, NEW d \in Full
  PROVE  TreeNow(I, Ys, U) => Finds(I, d)
<1> SUFFICES ASSUME TreeNow(I, Ys, U) PROVE Finds(I, d)
  OBVIOUS
<1>1. Typed(origo, leaf, critbit) /\ Tree(origo, leaf, critbit, digest, I, Ys, U) /\ Size \in Nat
  BY SizeType DEF TreeNow, Tree
<1>2. PICK p : p = Path(d)
  OBVIOUS
<1>3. Search(d) = IF IsNode(p[Size]) /\ digest[p[Size][2]] = d THEN p[Size][2] ELSE None
  BY <1>2 DEF Search, Foot, Size
<1>4. CASE origo = Null
  <2>1. I = {}
    BY <1>1, <1>4, NoYs, WordKinds
  <2>2. \A i \in 0 .. Size : Path(d)[i] = Null
    BY <1>1, <1>4, NullPath
  <2>3. p[Size] = Null
    BY <1>1, <1>2, <2>2
  <2>4. Search(d) = None
    BY <1>3, <2>3, WordKinds
  <2> QED  BY <2>1, <2>4 DEF Finds
<1>5. CASE origo # Null
  <2>1. OnPath(p, d, origo, leaf, critbit, digest, I, Ys, U)
    BY <1>2, <1>5, NowOnPath
  <2>2. PICK e : EndsAt(p, e, I, U) /\ \A g \in I : digest[g] = d => g = e
    BY <2>1, PathEnds
  <2>3. e \in I /\ IsNode(p[Size]) /\ p[Size][2] = e
    BY <2>2, WordKinds DEF EndsAt
  <2>4. CASE digest[e] = d
    <3>1. Search(d) = e
      BY <1>3, <2>3, <2>4
    <3> QED  BY <2>2, <2>3, <2>4, <3>1 DEF Finds
  <2>5. CASE digest[e] # d
    <3>1. Search(d) = None
      BY <1>3, <2>3, <2>5
    <3> QED  BY <2>2, <2>5, <3>1 DEF Finds
  <2> QED  BY <2>4, <2>5
<1> QED  BY <1>4, <1>5

\* The same of the next state.
LEMMA SearchIsNext ==
  ASSUME NEW I, NEW Ys, NEW U, NEW d \in Full
  PROVE  TreeNow(I, Ys, U)' => Finds(I, d)'
  BY SearchIs, PTL

-----------------------------------------------------------------------------
(* The invariant *)

Places == {"idle", "walk", "lock", "match", "locked", "held",
           "delete", "clear0", "clear1", "cool", "unref"}
Needing == {"walk", "lock", "match", "locked"}            \* uses its spare objhead
Unlinked == {"clear0", "clear1", "cool"}                  \* hcb_delete under way
Last1 == {"delete", "clear0", "clear1", "cool", "unref"}  \* has the last reference

Types ==
  /\ Typed(origo, leaf, critbit)
  /\ digest \in [Heads -> Full \cup {<<>>}] /\ ref \in [Heads -> Nat]
  /\ laylow \subseteq mem /\ mem \subseteq Heads
  /\ hcbMtx \in Threads \cup {None} /\ ohMtx \in [Heads -> Threads \cup {None}]
  /\ pc \in [Threads -> Places] /\ pp \in [Threads -> Words] /\ age \in [Threads -> Nat]
  /\ noh \in [Threads -> Heads \cup {None}] /\ oh \in [Threads -> Heads \cup {None}]
  /\ dy \in [Threads -> Heads \cup {None}]

\* The objheads that have left the tree and are not yet laid low.
Going == {oh[t] : t \in {u \in Threads : pc[u] \in Unlinked}}

\* The objheads I of the tree have a reference; those that left it lie low, the
\* round they are in counted in the digest.  An objhead whose y is in the tree does
\* not get older.
Kept(I, Ys) ==
  /\ I \subseteq mem /\ Going \subseteq mem /\ (\A h \in mem : digest[h] \in Full)
  /\ (\A h \in I : digest[h] \in Digests /\ ref[h] > 0)
  /\ (\A h \in I : h \notin Going /\ h \notin laylow) /\ (\A h \in Going : h \notin laylow)
  /\ (\A h \in laylow : digest[h][1] \in 0 .. COOL_DURATION)
  /\ (\A y \in Ys : y \in I \/ y \in Going \/ (y \in laylow /\ digest[y][1] = 0))

\* A preallocated objhead is in nobody else's hands.
Spare(I) ==
  \A t \in Threads :
    /\ noh[t] # None => /\ noh[t] \in mem /\ noh[t] \notin I /\ noh[t] \notin Going
                        /\ noh[t] \notin laylow /\ digest[noh[t]] \in Digests
                        /\ \A u \in Threads : noh[u] = noh[t] => u = t
    /\ pc[t] \in Needing => noh[t] # None

\* A thread without a lock may look at h: it is in the tree, or left it, and has
\* not lain low longer than the search takes.
Safe(t, h, I) ==
  h \in Heads /\ (h \in I \/ h \in Going \/ (h \in laylow /\ digest[h][1] <= age[t]))

Users(I) ==
  \A t \in Threads :
    /\ pc[t] \in {"idle", "walk", "lock"} => oh[t] = None
    /\ (pc[t] = "walk" /\ pp[t] # Null) => Safe(t, pp[t][2], I)
    /\ pc[t] = "match" => /\ Safe(t, oh[t], I)
                          /\ oh[t] \in I => digest[oh[t]] = digest[noh[t]]
    /\ pc[t] = "locked" => oh[t] \in I /\ digest[oh[t]] = digest[noh[t]]
    /\ pc[t] \in {"held", "delete"} => oh[t] \in I
    /\ pc[t] = "unref" => oh[t] \in laylow

\* Who holds which mutex, and that the counter waits for the tree.
Locks ==
  \A t \in Threads :
    /\ hcbMtx = t <=> (pc[t] = "locked" \/ pc[t] \in Unlinked)
    /\ \A h \in Heads : ohMtx[h] = t <=> (oh[t] = h /\ pc[t] \in Last1)
    /\ pc[t] \in Last1 => oh[t] \in Heads /\ ref[oh[t]] = 1

\* A y that left the tree is cleared, under hcb_mtx.
Clearing(I, Ys, U) ==
  /\ \A t \in Threads : pc[t] \in {"clear0", "clear1"} =>
       /\ dy[t] \in Heads /\ dy[t] \notin Ys
       /\ dy[t] \in I \/ dy[t] \in Going \/ dy[t] \in laylow
       /\ \A s \in 0 .. 1 : LET w == leaf[dy[t]][s]
                            IN  w = Null \/ w = Node(oh[t]) \/ Inside(w, I, Ys, U)
       /\ pc[t] = "clear1" => leaf[dy[t]][0] = Null
  /\ \A h \in Heads : h \notin Ys =>
       \/ \A s \in 0 .. 1 : leaf[h][s] = Null
       \/ \E t \in Threads : pc[t] \in {"clear0", "clear1"} /\ dy[t] = h

\* Who has a reference to h.
Owners(h) == {t \in Threads : (oh[t] = h /\ pc[t] \notin {"match", "locked"}) \/ noh[t] = h}

Good(I, Ys, U) ==
  /\ Types /\ TreeNow(I, Ys, U) /\ Kept(I, Ys) /\ Spare(I) /\ Users(I) /\ Locks
  /\ Clearing(I, Ys, U) /\ RefExact

IInv == \E I, Ys, U : Good(I, Ys, U)

\* What is assumed of the constants.
LEMMA Consts ==
  /\ None \notin Heads /\ None \notin Threads /\ IsFiniteSet(Threads) /\ IsFiniteSet(Heads)
  /\ Digests \subseteq Full /\ BitLen \in Nat /\ COOL_DURATION \in Nat
  /\ 1 \in 1 .. DIGEST_LEN /\ 0 \in 0 .. BitLen - 1
  /\ \A n \in 0 .. COOL_DURATION + 1 : n \in Bytes
<1>1. ByteBits \in Nat \ {0} /\ DIGEST_LEN \in Nat \ {0}
  BY HashAssumption
<1>2. BitLen \in Nat /\ BitLen > 0
  BY <1>1 DEF BitLen
<1>3. ByteBits \in 0 .. ByteBits
  BY <1>1
<1>4. 2 ^ ByteBits > 0
  BY <1>3, ByteAssumption
<1>5. COOL_DURATION \in 0 .. 2 ^ ByteBits - 2 /\ 2 ^ ByteBits \in Int
  BY <1>1, HashAssumption
<1>6. PICK e \in Int : e = 2 ^ ByteBits
  BY <1>5
<1>7. COOL_DURATION \in 0 .. e - 2 /\ Bytes = 0 .. e - 1
  BY <1>5, <1>6 DEF Bytes
<1>8. COOL_DURATION \in Nat /\ \A n \in 0 .. COOL_DURATION + 1 : n \in Bytes
  BY <1>6, <1>7
<1> QED  BY <1>1, <1>2, <1>8, UsersAssumption, HashAssumption DEF Full

\* What is in the tree may be looked at.
LEMMA InsideSafe ==
  ASSUME NEW I, NEW Ys, NEW U, Types, Kept(I, Ys), NEW w, Inside(w, I, Ys, U), NEW t \in Threads
  PROVE  Safe(t, w[2], I)
<1>1. w \in Words /\ w # Null
  BY DEF Inside
<1>2. w[2] \in I \/ w[2] \in Ys
  BY <1>1, WordKinds DEF Inside, Sub
<1>3. w[2] \in Heads
  BY <1>1, WordKinds
<1>4. age[t] \in Nat
  BY DEF Types
<1>5. w[2] \in I \/ w[2] \in Going \/ (w[2] \in laylow /\ digest[w[2]][1] = 0)
  BY <1>2 DEF Kept
<1> QED  BY <1>3, <1>4, <1>5 DEF Safe

\* One holder more.
LEMMA OwnersAdd ==
  ASSUME NEW A \in SUBSET Threads, NEW B, NEW t \in Threads, t \notin A, B = A \cup {t}
  PROVE  Cardinality(B) = Cardinality(A) + 1 /\ Cardinality(A) \in Nat
<1>1. IsFiniteSet(A)
  BY Consts, FS_Subset
<1> QED  BY <1>1, FS_AddElement, FS_CardinalityType

\* One holder less.
LEMMA OwnersDrop ==
  ASSUME NEW A \in SUBSET Threads, NEW B, NEW t \in A, B = A \ {t}
  PROVE  Cardinality(B) = Cardinality(A) - 1 /\ Cardinality(A) \in Nat \ {0}
<1>1. IsFiniteSet(A)
  BY Consts, FS_Subset
<1>2. Cardinality(A) \in Nat
  BY <1>1, FS_CardinalityType
<1>3. Cardinality(A) # 0
  BY <1>1, FS_EmptySet
<1> QED  BY <1>1, <1>2, <1>3, FS_RemoveElement

\* A counter of one has one owner.
LEMMA OwnersOne ==
  ASSUME NEW A \in SUBSET Threads, Cardinality(A) = 1, NEW t \in A, NEW u \in A
  PROVE  t = u
<1>1. IsFiniteSet(A)
  BY Consts, FS_Subset
<1>2. \E x : A = {x}
  BY <1>1, FS_Singleton
<1> QED  BY <1>2

\* refcnt counts the holders.
LEMMA RefIs ==
  ASSUME NEW h \in mem, mem \subseteq Heads, RefExact
  PROVE  ref[h] = Cardinality(Owners(h))
  BY DEF RefExact, Owners

\* The invariant of the tree holds at the start.
LEMMA InitGood == Init => IInv
<1> SUFFICES ASSUME Init PROVE IInv
  OBVIOUS
<1>1. /\ origo = Null /\ mem = {} /\ laylow = {}
      /\ \A t \in Threads : pc[t] = "idle" /\ noh[t] = None /\ oh[t] = None
      /\ \A h \in Heads : \A s \in 0 .. 1 : leaf[h][s] = Null
      /\ \A h \in Heads : ohMtx[h] = None
      /\ hcbMtx = None
  BY DEF Init
<1>2. Typed(origo, leaf, critbit)
  <2>1. [s \in 0 .. 1 |-> Null] \in [0 .. 1 -> Words]
    BY WordKinds
  <2>2. leaf \in [Heads -> [0 .. 1 -> Words]]
    BY <2>1 DEF Init
  <2>3. critbit \in [Heads -> 0 .. BitLen - 1]
    BY Consts DEF Init
  <2> QED  BY <1>1, <2>2, <2>3, WordKinds DEF Typed
<1>3. Types
  BY <1>1, <1>2, WordKinds DEF Init, Types, Places
<1>4. PICK U : TreeNow({}, {}, U)
  BY <1>1, <1>2, EmptyTree DEF TreeNow
<1>5. Going = {}
  BY <1>1 DEF Going, Unlinked
<1>6. Kept({}, {})
  BY <1>1, <1>5 DEF Kept
<1>7. Spare({})
  BY <1>1 DEF Spare, Needing
<1>8. Users({})
  BY <1>1 DEF Users
<1>9. Locks
  BY <1>1, Consts DEF Locks, Unlinked, Last1
<1>10. Clearing({}, {}, U)
  BY <1>1 DEF Clearing
<1>11. RefExact
  BY <1>1 DEF RefExact
<1>12. Good({}, {}, U)
  BY <1>3, <1>4, <1>6, <1>7, <1>8, <1>9, <1>10, <1>11 DEF Good
<1> QED  BY <1>12 DEF IInv

-----------------------------------------------------------------------------
(* hcb_lookup without and with the lock *)

\* A step of a search without the lock keeps Good.
LEMMA WalkStep ==
  ASSUME NEW I, NEW Ys, NEW U, Good(I, Ys, U), NEW t \in Threads, Walk(t)
  PROVE  Good(I, Ys, U)'
<1>1. /\ Types /\ TreeNow(I, Ys, U) /\ Kept(I, Ys) /\ Spare(I) /\ Users(I) /\ Locks
      /\ Clearing(I, Ys, U) /\ RefExact
  BY DEF Good
<1>2. PICK y, w : y = pp[t][2] /\ w = leaf[y][Side(digest[noh[t]], critbit[y])]
  OBVIOUS
<1>3. /\ pc[t] = "walk" /\ IsY(pp[t]) /\ pp' = [pp EXCEPT ![t] = w]
      /\ UNCHANGED <<treeVars, lockVars, pc, left, noh, oh, dy, age>>
  BY <1>2 DEF Walk
<1>4. UNCHANGED <<origo, leaf, critbit, digest, laylow, mem, ref, hcbMtx, ohMtx, pc, noh, oh, dy, age>>
  BY <1>3 DEF treeVars, lockVars
<1>5. pp[t] \in Words /\ y \in Heads /\ pp[t] = Y(y)
  BY <1>1, <1>2, <1>3, WordKinds DEF Types
<1>6. Side(digest[noh[t]], critbit[y]) \in 0 .. 1
  <2>1. digest[noh[t]] \in Digests
    BY <1>1, <1>3 DEF Spare, Needing
  <2>2. critbit[y] \in 0 .. BitLen - 1
    BY <1>1, <1>5 DEF Types, Typed
  <2> QED  BY <2>1, <2>2, Consts, SideType
<1>7. w \in Words /\ (w # Null => Safe(t, w[2], I))
  <2>1. PICK s \in 0 .. 1 : w = leaf[y][s]
    BY <1>2, <1>6
  <2>2. w \in Words
    BY <1>1, <1>5, <2>1 DEF Types, Typed
  <2>3. CASE y \in Ys
    <3>1. Inside(w, I, Ys, U)
      BY <1>1, <2>1, <2>3, LeafInside DEF TreeNow
    <3> QED  BY <1>1, <2>2, <3>1, InsideSafe
  <2>4. CASE y \notin Ys /\ \A r \in 0 .. 1 : leaf[y][r] = Null
    BY <2>1, <2>2, <2>4
  <2>5. ASSUME NEW u \in Threads, pc[u] \in {"clear0", "clear1"}, dy[u] = y
        PROVE  w # Null => Safe(t, w[2], I)
    <3>1. w = Null \/ w = Node(oh[u]) \/ Inside(w, I, Ys, U)
      BY <1>1, <2>1, <2>5 DEF Clearing
    <3>2. CASE w = Node(oh[u])
      <4>1. oh[u] \in Going
        BY <2>5 DEF Going, Unlinked
      <4>2. w[2] = oh[u] /\ oh[u] \in Heads
        BY <1>1, <3>2, <4>1, WordKinds DEF Kept, Types
      <4> QED  BY <4>1, <4>2 DEF Safe
    <3>3. CASE Inside(w, I, Ys, U)
      BY <1>1, <3>3, InsideSafe
    <3> QED  BY <3>1, <3>2, <3>3
  <2>6. y \notin Ys => \/ \A r \in 0 .. 1 : leaf[y][r] = Null
                       \/ \E u \in Threads : pc[u] \in {"clear0", "clear1"} /\ dy[u] = y
    BY <1>1, <1>5 DEF Clearing
  <2> QED  BY <2>2, <2>3, <2>4, <2>5, <2>6
<1>8. pp' \in [Threads -> Words] /\ pp'[t] = w /\ \A u \in Threads : u # t => pp'[u] = pp[u]
  BY <1>1, <1>3, <1>7 DEF Types
<1>9. Types'
  BY <1>1, <1>4, <1>8 DEF Types
<1>10. TreeNow(I, Ys, U)'
  BY <1>1, <1>4 DEF TreeNow
<1>11. Going' = Going
  BY <1>4 DEF Going
<1>12. Kept(I, Ys)'
  BY <1>1, <1>4, <1>11 DEF Kept
<1>13. Spare(I)'
  BY <1>1, <1>4, <1>11 DEF Spare
<1>14. Users(I)'
  BY <1>1, <1>4, <1>7, <1>8, <1>11 DEF Users, Safe
<1>15. Locks'
  BY <1>1, <1>4 DEF Locks
<1>16. Clearing(I, Ys, U)'
  BY <1>1, <1>4, <1>11 DEF Clearing
<1>17. RefExact'
  BY <1>1, <1>4 DEF RefExact
<1> QED  BY <1>9, <1>10, <1>12, <1>13, <1>14, <1>15, <1>16, <1>17 DEF Good

\* The comparison at the end of a search keeps Good.
LEMMA CompareStep ==
  ASSUME NEW I, NEW Ys, NEW U, Good(I, Ys, U), NEW t \in Threads, WalkEndsAtNode, Compare(t)
  PROVE  Good(I, Ys, U)'
<1>1. /\ Types /\ TreeNow(I, Ys, U) /\ Kept(I, Ys) /\ Spare(I) /\ Users(I) /\ Locks
      /\ Clearing(I, Ys, U) /\ RefExact
  BY DEF Good
<1>2. PICK h : h = pp[t][2]
  OBVIOUS
<1>3. /\ pc[t] = "walk" /\ IsNode(pp[t])
      /\ IF digest[h] = digest[noh[t]]
         THEN oh' = [oh EXCEPT ![t] = h] /\ pc' = [pc EXCEPT ![t] = "match"]
         ELSE oh' = oh /\ pc' = [pc EXCEPT ![t] = "lock"]
      /\ UNCHANGED <<treeVars, lockVars, left, noh, pp, dy, age>>
  BY <1>2 DEF Compare, Goto
<1>4. UNCHANGED <<origo, leaf, critbit, digest, laylow, mem, ref, hcbMtx, ohMtx, noh, pp, dy, age>>
  BY <1>3 DEF treeVars, lockVars
<1>5. Safe(t, h, I) /\ h \in Heads /\ oh[t] = None
  BY <1>1, <1>2, <1>3 DEF Users, Safe, WalkEndsAtNode
<1>6. /\ \A u \in Threads : u # t => pc'[u] = pc[u] /\ oh'[u] = oh[u]
      /\ \/ pc'[t] = "match" /\ oh'[t] = h /\ digest[h] = digest[noh[t]]
         \/ pc'[t] = "lock" /\ oh'[t] = None
      /\ pc' \in [Threads -> Places] /\ oh' \in [Threads -> Heads \cup {None}]
  <2>1. pc \in [Threads -> Places] /\ oh \in [Threads -> Heads \cup {None}]
    BY <1>1 DEF Types
  <2>2. CASE digest[h] = digest[noh[t]]
    <3>1. oh' = [oh EXCEPT ![t] = h] /\ pc' = [pc EXCEPT ![t] = "match"]
      BY <1>3, <2>2
    <3> QED  BY <1>5, <2>1, <2>2, <3>1 DEF Places
  <2>3. CASE digest[h] # digest[noh[t]]
    <3>1. oh' = oh /\ pc' = [pc EXCEPT ![t] = "lock"]
      BY <1>3, <2>3
    <3> QED  BY <1>5, <2>1, <3>1 DEF Places
  <2> QED  BY <2>2, <2>3
<1>7. Going' = Going
  BY <1>3, <1>6 DEF Going, Unlinked
<1>8. Types'
  BY <1>1, <1>4, <1>6 DEF Types
<1>9. TreeNow(I, Ys, U)'
  BY <1>1, <1>4 DEF TreeNow
<1>10. Kept(I, Ys)'
  BY <1>1, <1>4, <1>7 DEF Kept
<1>11. Spare(I)'
  BY <1>1, <1>3, <1>4, <1>6, <1>7 DEF Spare, Needing
<1>12. Users(I)'
  BY <1>1, <1>4, <1>5, <1>6, <1>7 DEF Users, Safe
<1>13. Locks'
  <2>1. ASSUME NEW u \in Threads
        PROVE  /\ (hcbMtx = u <=> (pc'[u] = "locked" \/ pc'[u] \in Unlinked))
               /\ \A g \in Heads : ohMtx[g] = u <=> (oh'[u] = g /\ pc'[u] \in Last1)
               /\ pc'[u] \in Last1 => oh'[u] \in Heads /\ ref[oh'[u]] = 1
    <3>1. CASE u = t
      BY <1>1, <1>3, <1>6, <3>1 DEF Locks, Unlinked, Last1
    <3>2. CASE u # t
      BY <1>1, <1>6, <3>2 DEF Locks
    <3> QED  BY <3>1, <3>2
  <2> QED  BY <1>4, <2>1 DEF Locks
<1>14. Clearing(I, Ys, U)'
  <2>1. \A u \in Threads : pc'[u] \in {"clear0", "clear1"} => pc[u] = pc'[u] /\ oh'[u] = oh[u]
    BY <1>6
  <2>2. \A u \in Threads : pc[u] \in {"clear0", "clear1"} => pc[u] = pc'[u]
    BY <1>3, <1>6
  <2> QED  BY <1>1, <1>4, <1>7, <2>1, <2>2 DEF Clearing
<1>15. RefExact'
  <2>1. \A g \in Heads : Owners(g)' = Owners(g)
    BY <1>3, <1>4, <1>5, <1>6, Consts DEF Owners
  <2>2. \A g \in mem : g \in Heads
    BY <1>1 DEF Types
  <2> QED  BY <1>1, <1>4, <2>1, <2>2 DEF RefExact, Owners
<1> QED  BY <1>8, <1>9, <1>10, <1>11, <1>12, <1>13, <1>14, <1>15 DEF Good

\* The search under hcb_mtx keeps Good.
LEMMA LockedFindStep ==
  ASSUME NEW I, NEW Ys, NEW U, Good(I, Ys, U), NEW t \in Threads, LockedFind(t)
  PROVE  Good(I, Ys, U)'
<1>1. /\ Types /\ TreeNow(I, Ys, U) /\ Kept(I, Ys) /\ Spare(I) /\ Users(I) /\ Locks
      /\ Clearing(I, Ys, U) /\ RefExact
  BY DEF Good
<1>2. PICK h : h = Search(digest[noh[t]])
  OBVIOUS
<1>3. /\ pc[t] = "lock" /\ hcbMtx = None /\ h # None /\ hcbMtx' = t
      /\ oh' = [oh EXCEPT ![t] = h] /\ pc' = [pc EXCEPT ![t] = "locked"]
      /\ UNCHANGED <<treeVars, ref, ohMtx, left, noh, pp, dy, age>>
  BY <1>2 DEF LockedFind, Goto
<1>4. UNCHANGED <<origo, leaf, critbit, digest, laylow, mem, ref, ohMtx, noh, pp, dy, age>>
  BY <1>3 DEF treeVars
<1>5. h \in I /\ digest[h] = digest[noh[t]] /\ h \in Heads /\ oh[t] = None
  <2>1. digest[noh[t]] \in Full
    BY <1>1, <1>3, Consts DEF Spare, Needing
  <2>2. h \in I /\ digest[h] = digest[noh[t]]
    BY <1>1, <1>2, <1>3, <2>1, SearchIs DEF Finds
  <2>3. h \in Heads
    BY <1>1, <2>2 DEF Kept, Types
  <2> QED  BY <1>1, <1>3, <2>2, <2>3 DEF Users
<1>6. /\ \A u \in Threads : u # t => pc'[u] = pc[u] /\ oh'[u] = oh[u]
      /\ pc'[t] = "locked" /\ oh'[t] = h
      /\ pc' \in [Threads -> Places] /\ oh' \in [Threads -> Heads \cup {None}]
  BY <1>1, <1>3, <1>5 DEF Types, Places
<1>7. Going' = Going
  BY <1>3, <1>6 DEF Going, Unlinked
<1>8. Types'
  BY <1>1, <1>3, <1>4, <1>6 DEF Types
<1>9. TreeNow(I, Ys, U)'
  BY <1>1, <1>4 DEF TreeNow
<1>10. Kept(I, Ys)'
  BY <1>1, <1>4, <1>7 DEF Kept
<1>11. Spare(I)'
  BY <1>1, <1>3, <1>4, <1>6, <1>7 DEF Spare, Needing
<1>12. Users(I)'
  BY <1>1, <1>4, <1>5, <1>6, <1>7 DEF Users, Safe
<1>13. Locks'
  <2>1. ASSUME NEW u \in Threads
        PROVE  /\ (hcbMtx' = u <=> (pc'[u] = "locked" \/ pc'[u] \in Unlinked))
               /\ \A g \in Heads : ohMtx[g] = u <=> (oh'[u] = g /\ pc'[u] \in Last1)
               /\ pc'[u] \in Last1 => oh'[u] \in Heads /\ ref[oh'[u]] = 1
    <3>1. CASE u = t
      BY <1>1, <1>3, <1>6, <3>1 DEF Locks, Unlinked, Last1
    <3>2. CASE u # t
      <4>1. ~ (pc[u] = "locked" \/ pc[u] \in Unlinked)
        BY <1>1, <1>3, Consts DEF Locks
      <4> QED  BY <1>1, <1>3, <1>6, <3>2, <4>1 DEF Locks
    <3> QED  BY <3>1, <3>2
  <2> QED  BY <1>4, <2>1 DEF Locks
<1>14. Clearing(I, Ys, U)'
  <2>1. \A u \in Threads : pc'[u] \in {"clear0", "clear1"} => pc[u] = pc'[u] /\ oh'[u] = oh[u]
    BY <1>6
  <2>2. \A u \in Threads : pc[u] \in {"clear0", "clear1"} => pc[u] = pc'[u]
    BY <1>3, <1>6
  <2> QED  BY <1>1, <1>4, <1>7, <2>1, <2>2 DEF Clearing
<1>15. RefExact'
  <2>1. \A g \in Heads : Owners(g)' = Owners(g)
    BY <1>3, <1>4, <1>5, <1>6, Consts DEF Owners
  <2>2. \A g \in mem : g \in Heads
    BY <1>1 DEF Types
  <2> QED  BY <1>1, <1>4, <2>1, <2>2 DEF RefExact, Owners
<1> QED  BY <1>8, <1>9, <1>10, <1>11, <1>12, <1>13, <1>14, <1>15 DEF Good

\* An objhead found without the lock that has a reference, and nobody deletes it,
\* is in the tree.
LEMMA AliveInTree ==
  ASSUME NEW I, NEW Ys, NEW U, Good(I, Ys, U), NEW t \in Threads, NEW h, Safe(t, h, I),
         ref[h] > 0, ohMtx[h] = None
  PROVE  h \in I
<1>1. /\ Types /\ Kept(I, Ys) /\ Spare(I) /\ Users(I) /\ Locks /\ RefExact
  BY DEF Good
<1>2. h \in Heads
  BY DEF Safe
<1>3. ASSUME NEW u \in Threads, oh[u] = h, pc[u] \in Last1 PROVE FALSE
  BY <1>1, <1>2, <1>3, Consts DEF Locks
<1>4. h \notin Going
  BY <1>3 DEF Going, Unlinked, Last1
<1>5. ASSUME h \in laylow PROVE FALSE
  <2>1. h \in mem /\ mem \subseteq Heads
    BY <1>1, <1>5 DEF Types
  <2>2. ref[h] = Cardinality(Owners(h))
    BY <1>1, <2>1, RefIs
  <2>3. Owners(h) # {}
    BY <2>2, FS_EmptySet
  <2>4. PICK u \in Threads : (oh[u] = h /\ pc[u] \notin {"match", "locked"}) \/ noh[u] = h
    BY <2>3 DEF Owners
  <2>5. noh[u] # h
    BY <1>1, <1>2, <1>5, Consts DEF Spare
  <2>6. oh[u] = h /\ pc[u] \notin {"match", "locked"} /\ pc[u] \notin Last1
    BY <1>3, <2>4, <2>5
  <2>7. pc[u] \in Places
    BY <1>1 DEF Types
  <2>8. pc[u] \in {"idle", "walk", "lock", "held"}
    BY <2>6, <2>7 DEF Places, Last1
  <2>9. oh[u] # None
    BY <1>2, <2>6, Consts
  <2>10. h \in I
    BY <1>1, <2>6, <2>8, <2>9 DEF Users
  <2> QED  BY <1>1, <1>5, <2>10 DEF Kept
<1> QED  BY <1>4, <1>5 DEF Safe

\* Taking a reference after a search without hcb_mtx keeps Good.
LEMMA TryRefStep ==
  ASSUME NEW I, NEW Ys, NEW U, Good(I, Ys, U), NEW t \in Threads, TryRef(t)
  PROVE  Good(I, Ys, U)'
<1>1. /\ Types /\ TreeNow(I, Ys, U) /\ Kept(I, Ys) /\ Spare(I) /\ Users(I) /\ Locks
      /\ Clearing(I, Ys, U) /\ RefExact
  BY DEF Good
<1>2. PICK h : h = oh[t]
  OBVIOUS
<1>3. /\ pc[t] = "match" /\ ohMtx[h] = None
      /\ IF ref[h] > 0
         THEN ref' = [ref EXCEPT ![h] = @ + 1] /\ pc' = [pc EXCEPT ![t] = "held"] /\ oh' = oh
         ELSE pc' = [pc EXCEPT ![t] = "lock"] /\ oh' = [oh EXCEPT ![t] = None] /\ ref' = ref
      /\ UNCHANGED <<treeVars, hcbMtx, ohMtx, left, noh, pp, dy, age>>
  BY <1>2 DEF TryRef, Goto
<1>4. UNCHANGED <<origo, leaf, critbit, digest, laylow, mem, hcbMtx, ohMtx, noh, pp, dy, age>>
  BY <1>3 DEF treeVars
<1>5. Safe(t, h, I) /\ h \in Heads /\ noh[t] # None /\ noh[t] # h
  <2>1. Safe(t, h, I) /\ h \in Heads
    BY <1>1, <1>2, <1>3 DEF Users, Safe
  <2>2. noh[t] # None
    BY <1>1, <1>3 DEF Spare, Needing
  <2>3. noh[t] # h
    BY <1>1, <2>1, <2>2 DEF Spare, Safe
  <2> QED  BY <2>1, <2>2, <2>3
<1>6. ref[h] > 0 => h \in I
  BY <1>3, <1>5, AliveInTree
<1>7. /\ \A u \in Threads : u # t => pc'[u] = pc[u] /\ oh'[u] = oh[u]
      /\ \/ pc'[t] = "held" /\ oh'[t] = h /\ h \in I /\ ref' = [ref EXCEPT ![h] = @ + 1]
         \/ pc'[t] = "lock" /\ oh'[t] = None /\ ref' = ref
      /\ pc' \in [Threads -> Places] /\ oh' \in [Threads -> Heads \cup {None}]
      /\ ref' \in [Heads -> Nat]
  <2>1. ref' = ref \/ ref' = [ref EXCEPT ![h] = @ + 1]
    BY <1>3
  <2>2. ref \in [Heads -> Nat] /\ ref[h] \in Nat
    BY <1>1, <1>5 DEF Types
  <2>3. ref' \in [Heads -> Nat]
    BY <2>1, <2>2
  <2>4. pc \in [Threads -> Places] /\ oh \in [Threads -> Heads \cup {None}]
    BY <1>1 DEF Types
  <2>5. CASE ref[h] > 0
    BY <1>2, <1>3, <1>6, <2>3, <2>4, <2>5 DEF Places
  <2>6. CASE ~ (ref[h] > 0)
    BY <1>2, <1>3, <2>3, <2>4, <2>6 DEF Places
  <2> QED  BY <2>5, <2>6
<1>8. Going' = Going
  BY <1>3, <1>7 DEF Going, Unlinked
<1>9. Types'
  BY <1>1, <1>4, <1>7 DEF Types
<1>10. TreeNow(I, Ys, U)'
  BY <1>1, <1>4 DEF TreeNow
<1>11. \A g \in Heads : ref'[g] >= ref[g] /\ (g # h => ref'[g] = ref[g]) /\ ref[g] \in Nat /\ ref'[g] \in Nat
  BY <1>1, <1>7 DEF Types
<1>12. Kept(I, Ys)'
  <2>1. \A g \in I : ref'[g] > 0
    BY <1>1, <1>11 DEF Kept, Types
  <2> QED  BY <1>1, <1>4, <1>8, <2>1 DEF Kept
<1>13. Spare(I)'
  BY <1>1, <1>3, <1>4, <1>7, <1>8 DEF Spare, Needing
<1>14. Users(I)'
  BY <1>1, <1>4, <1>7, <1>8 DEF Users, Safe
<1>15. Locks'
  <2>1. ASSUME NEW u \in Threads
        PROVE  /\ (hcbMtx = u <=> (pc'[u] = "locked" \/ pc'[u] \in Unlinked))
               /\ \A g \in Heads : ohMtx[g] = u <=> (oh'[u] = g /\ pc'[u] \in Last1)
               /\ pc'[u] \in Last1 => oh'[u] \in Heads /\ ref'[oh'[u]] = 1
    <3>1. CASE u = t
      BY <1>1, <1>3, <1>7, <3>1 DEF Locks, Unlinked, Last1
    <3>2. CASE u # t
      <4>1. pc[u] \in Last1 => oh[u] # h
        BY <1>1, <1>3, <1>5, Consts DEF Locks
      <4> QED  BY <1>1, <1>7, <1>11, <3>2, <4>1 DEF Locks
    <3> QED  BY <3>1, <3>2
  <2> QED  BY <1>4, <2>1 DEF Locks
<1>16. Clearing(I, Ys, U)'
  <2>1. \A u \in Threads : pc'[u] \in {"clear0", "clear1"} => pc[u] = pc'[u] /\ oh'[u] = oh[u]
    BY <1>7
  <2>2. \A u \in Threads : pc[u] \in {"clear0", "clear1"} => pc[u] = pc'[u]
    BY <1>3, <1>7
  <2> QED  BY <1>1, <1>4, <1>8, <2>1, <2>2 DEF Clearing
<1>17. RefExact'
  <2>1. ASSUME NEW g \in mem PROVE ref'[g] = Cardinality(Owners(g)')
    <3>1. g \in Heads /\ ref[g] = Cardinality(Owners(g))
      BY <1>1, RefIs DEF Types
    <3>2. CASE pc'[t] = "held" /\ g = h
      <4>1. PICK A, B : A = Owners(g) /\ B = Owners(g)'
        OBVIOUS
      <4>2. A \in SUBSET Threads /\ t \notin A
        BY <1>3, <1>5, <3>2, <4>1 DEF Owners
      <4>3. B = A \cup {t}
        BY <1>4, <1>5, <1>7, <3>2, <4>1 DEF Owners
      <4>4. Cardinality(B) = Cardinality(A) + 1
        BY <4>2, <4>3, OwnersAdd
      <4>5. ref'[h] = ref[h] + 1
        BY <1>1, <1>5, <1>7, <3>2 DEF Types
      <4> QED  BY <3>1, <3>2, <4>1, <4>4, <4>5
    <3>3. CASE ~ (pc'[t] = "held" /\ g = h)
      <4>1. Owners(g)' = Owners(g)
        BY <1>2, <1>3, <1>4, <1>7, <3>1, <3>3, Consts DEF Owners
      <4>2. ref'[g] = ref[g]
        BY <1>7, <1>11, <3>1, <3>3
      <4> QED  BY <3>1, <4>1, <4>2
    <3> QED  BY <3>2, <3>3
  <2> QED  BY <1>4, <2>1 DEF RefExact, Owners
<1> QED  BY <1>9, <1>10, <1>12, <1>13, <1>14, <1>15, <1>16, <1>17 DEF Good

\* Taking a reference under hcb_mtx keeps Good.
LEMMA LockedRefStep ==
  ASSUME NEW I, NEW Ys, NEW U, Good(I, Ys, U), NEW t \in Threads, LockedRef(t)
  PROVE  Good(I, Ys, U)'
<1>1. /\ Types /\ TreeNow(I, Ys, U) /\ Kept(I, Ys) /\ Spare(I) /\ Users(I) /\ Locks
      /\ Clearing(I, Ys, U) /\ RefExact
  BY DEF Good
<1>2. PICK h : h = oh[t]
  OBVIOUS
<1>3. /\ pc[t] = "locked" /\ ohMtx[h] = None
      /\ ref' = [ref EXCEPT ![h] = @ + 1] /\ pc' = [pc EXCEPT ![t] = "held"] /\ hcbMtx' = None
      /\ UNCHANGED <<treeVars, ohMtx, left, noh, pp, oh, dy, age>>
  BY <1>2 DEF LockedRef, Goto
<1>4. UNCHANGED <<origo, leaf, critbit, digest, laylow, mem, ohMtx, noh, pp, oh, dy, age>>
  BY <1>3 DEF treeVars
<1>5. h \in I /\ h \in Heads /\ noh[t] # h
  <2>1. h \in I /\ h \in Heads
    BY <1>1, <1>2, <1>3 DEF Users, Kept, Types
  <2>2. noh[t] # h
    BY <1>1, <2>1, Consts DEF Spare
  <2> QED  BY <2>1, <2>2
<1>6. /\ \A u \in Threads : u # t => pc'[u] = pc[u]
      /\ pc'[t] = "held" /\ pc' \in [Threads -> Places] /\ ref' \in [Heads -> Nat]
  <2>1. ref \in [Heads -> Nat] /\ ref[h] \in Nat
    BY <1>1, <1>5 DEF Types
  <2>2. ref' = [ref EXCEPT ![h] = ref[h] + 1] /\ ref[h] + 1 \in Nat
    BY <1>3, <2>1
  <2>4. ref' \in [Heads -> Nat]
    BY <2>1, <2>2
  <2>3. pc \in [Threads -> Places]
    BY <1>1 DEF Types
  <2> QED  BY <1>3, <2>3, <2>4 DEF Places
<1>7. Going' = Going
  BY <1>3, <1>4, <1>6 DEF Going, Unlinked
<1>8. Types'
  BY <1>1, <1>3, <1>4, <1>6 DEF Types
<1>9. TreeNow(I, Ys, U)'
  BY <1>1, <1>4 DEF TreeNow
<1>10. \A g \in Heads : ref'[g] >= ref[g] /\ (g # h => ref'[g] = ref[g]) /\ ref[g] \in Nat /\ ref'[g] \in Nat
  BY <1>1, <1>3 DEF Types
<1>11. Kept(I, Ys)'
  <2>1. \A g \in I : ref'[g] > 0
    BY <1>1, <1>10 DEF Kept, Types
  <2> QED  BY <1>1, <1>4, <1>7, <2>1 DEF Kept
<1>12. Spare(I)'
  BY <1>1, <1>3, <1>4, <1>6, <1>7 DEF Spare, Needing
<1>13. Users(I)'
  BY <1>1, <1>2, <1>4, <1>5, <1>6, <1>7 DEF Users, Safe
<1>14. Locks'
  <2>1. ASSUME NEW u \in Threads
        PROVE  /\ (hcbMtx' = u <=> (pc'[u] = "locked" \/ pc'[u] \in Unlinked))
               /\ \A g \in Heads : ohMtx[g] = u <=> (oh[u] = g /\ pc'[u] \in Last1)
               /\ pc'[u] \in Last1 => oh[u] \in Heads /\ ref'[oh[u]] = 1
    <3>0. hcbMtx' # u
      BY <1>3, Consts
    <3>1. CASE u = t
      BY <1>1, <1>3, <1>6, <3>0, <3>1 DEF Locks, Unlinked, Last1
    <3>2. CASE u # t
      <4>1. pc[u] \in Last1 => oh[u] # h
        BY <1>1, <1>3, <1>5, Consts DEF Locks
      <4>2. ~ (pc[u] = "locked" \/ pc[u] \in Unlinked)
        BY <1>1, <1>3, <3>2 DEF Locks
      <4> QED  BY <1>1, <1>6, <1>10, <3>0, <3>2, <4>1, <4>2 DEF Locks
    <3> QED  BY <3>1, <3>2
  <2> QED  BY <1>4, <2>1 DEF Locks
<1>15. Clearing(I, Ys, U)'
  <2>1. \A u \in Threads : pc'[u] \in {"clear0", "clear1"} => pc[u] = pc'[u]
    BY <1>6
  <2>2. \A u \in Threads : pc[u] \in {"clear0", "clear1"} => pc[u] = pc'[u]
    BY <1>3, <1>6
  <2> QED  BY <1>1, <1>4, <1>7, <2>1, <2>2 DEF Clearing
<1>16. RefExact'
  <2>1. ASSUME NEW g \in mem PROVE ref'[g] = Cardinality(Owners(g)')
    <3>1. g \in Heads /\ ref[g] = Cardinality(Owners(g))
      BY <1>1, RefIs DEF Types
    <3>2. CASE g = h
      <4>1. PICK A, B : A = Owners(g) /\ B = Owners(g)'
        OBVIOUS
      <4>2. A \in SUBSET Threads /\ t \notin A
        BY <1>3, <1>5, <3>2, <4>1 DEF Owners
      <4>3. B = A \cup {t}
        BY <1>2, <1>4, <1>5, <1>6, <3>2, <4>1 DEF Owners
      <4>4. Cardinality(B) = Cardinality(A) + 1
        BY <4>2, <4>3, OwnersAdd
      <4>5. ref'[h] = ref[h] + 1
        BY <1>1, <1>3, <1>5 DEF Types
      <4> QED  BY <3>1, <3>2, <4>1, <4>4, <4>5
    <3>3. CASE g # h
      <4>1. Owners(g)' = Owners(g)
        BY <1>2, <1>3, <1>4, <1>6, <3>1, <3>3, Consts DEF Owners
      <4>2. ref'[g] = ref[g]
        BY <1>10, <3>1, <3>3
      <4> QED  BY <3>1, <4>1, <4>2
    <3> QED  BY <3>2, <3>3
  <2> QED  BY <1>4, <2>1 DEF RefExact, Owners
<1> QED  BY <1>8, <1>9, <1>11, <1>12, <1>13, <1>14, <1>15, <1>16 DEF Good

\* What a thread has in its hands is in the tree, leaving it or lying low.
LEMMA InHands ==
  ASSUME NEW I, NEW Ys, NEW U, Good(I, Ys, U), NEW t \in Threads, oh[t] # None
  PROVE  oh[t] \in I \/ oh[t] \in Going \/ oh[t] \in laylow
<1>1. Types /\ Users(I)
  BY DEF Good
<1>2. pc[t] \in Places
  BY <1>1 DEF Types
<1>3. pc[t] \in {"match", "locked", "held", "delete", "unref"} \/ pc[t] \in Unlinked
  BY <1>1, <1>2 DEF Users, Places, Unlinked
<1>4. CASE pc[t] \in {"match", "locked", "held", "delete", "unref"}
  BY <1>1, <1>4 DEF Users, Safe
<1>5. CASE pc[t] \in Unlinked
  BY <1>5 DEF Going
<1> QED  BY <1>3, <1>4, <1>5

\* The start of hcb_lookup keeps Good.
LEMMA LookupStartStep ==
  ASSUME NEW I, NEW Ys, NEW U, Good(I, Ys, U), NEW t \in Threads, LookupStart(t)
  PROVE  Good(I, Ys, U)'
<1>1. /\ Types /\ TreeNow(I, Ys, U) /\ Kept(I, Ys) /\ Spare(I) /\ Users(I) /\ Locks
      /\ Clearing(I, Ys, U) /\ RefExact
  BY DEF Good
<1>2. PICK d \in Digests, h \in IF noh[t] # None THEN {noh[t]} ELSE Heads \ mem :
        /\ pc[t] = "idle"
        /\ noh' = [noh EXCEPT ![t] = h]
        /\ mem' = mem \cup {h}
        /\ ref' = [ref EXCEPT ![h] = 1]
        /\ leaf' = [leaf EXCEPT ![h] = [s \in 0 .. 1 |-> Null]]
        /\ digest' = [digest EXCEPT ![h] = d]
        /\ pp' = [pp EXCEPT ![t] = origo]
        /\ age' = [age EXCEPT ![t] = 0]
        /\ pc' = [pc EXCEPT ![t] = IF origo = Null THEN "lock" ELSE "walk"]
        /\ UNCHANGED <<origo, critbit, laylow, hcbMtx, ohMtx, oh, dy>>
  BY DEF LookupStart, Goto
<1>3. (h = noh[t] /\ noh[t] # None) \/ (h \in Heads /\ h \notin mem /\ noh[t] = None)
  BY <1>2
<1>4. /\ h \in Heads /\ h # None /\ h \notin I /\ h \notin Going /\ h \notin laylow
      /\ \A u \in Threads : noh[u] = h => u = t
  <2>1. CASE h = noh[t] /\ noh[t] # None
    BY <1>1, <2>1 DEF Spare, Types
  <2>2. CASE h \in Heads /\ h \notin mem /\ noh[t] = None
    BY <1>1, <2>2, Consts DEF Kept, Types, Spare
  <2> QED  BY <1>3, <2>1, <2>2
<1>5. h \notin Ys /\ (\A u \in Threads : oh[u] # h)
  <2>1. h \notin Ys
    BY <1>1, <1>4 DEF Kept
  <2>2. \A u \in Threads : oh[u] # h
    BY <1>4, InHands
  <2> QED  BY <2>1, <2>2
<1>6. oh[t] = None
  BY <1>1, <1>2 DEF Users
<1>7. /\ \A u \in Threads : u # t => /\ pc'[u] = pc[u] /\ noh'[u] = noh[u]
                                     /\ pp'[u] = pp[u] /\ age'[u] = age[u]
      /\ pc'[t] = (IF origo = Null THEN "lock" ELSE "walk") /\ noh'[t] = h
      /\ pp'[t] = origo /\ age'[t] = 0
  BY <1>1, <1>2 DEF Types
<1>8. /\ \A g \in Heads : g # h => ref'[g] = ref[g] /\ leaf'[g] = leaf[g] /\ digest'[g] = digest[g]
      /\ ref'[h] = 1 /\ leaf'[h] = [s \in 0 .. 1 |-> Null] /\ digest'[h] = d
  BY <1>1, <1>2, <1>4 DEF Types, Typed
<1>9. Typed(origo, leaf', critbit)
  <2>1. [s \in 0 .. 1 |-> Null] \in [0 .. 1 -> Words]
    BY WordKinds
  <2>2. leaf' \in [Heads -> [0 .. 1 -> Words]]
    BY <1>1, <1>2, <2>1 DEF Types, Typed
  <2> QED  BY <1>1, <2>2 DEF Types, Typed
<1>10. d \in Full
  BY Consts
<1>11. Types'
  <2>1. digest' \in [Heads -> Full \cup {<<>>}]
    BY <1>1, <1>2, <1>10 DEF Types
  <2>2. ref' \in [Heads -> Nat] /\ mem' \subseteq Heads /\ laylow' \subseteq mem'
    BY <1>1, <1>2, <1>4 DEF Types
  <2>3. pc' \in [Threads -> Places] /\ age' \in [Threads -> Nat]
    BY <1>1, <1>2 DEF Types, Places
  <2>4. pp' \in [Threads -> Words] /\ noh' \in [Threads -> Heads \cup {None}]
    BY <1>1, <1>2, <1>4 DEF Types, Typed
  <2> QED  BY <1>1, <1>2, <1>9, <2>1, <2>2, <2>3, <2>4 DEF Types
<1>12. Ys \subseteq Heads /\ I \subseteq Heads /\ laylow \subseteq Heads /\ Going \subseteq Heads
  BY <1>1 DEF TreeNow, Tree, Rooted, Kept, Types
<1>13. TreeNow(I, Ys, U)'
  <2>1. \A y \in Ys : leaf'[y] = leaf[y]
    BY <1>5, <1>8, <1>12
  <2>2. \A g \in I : digest'[g] = digest[g]
    BY <1>4, <1>8, <1>12
  <2>3. Tree(origo, leaf', critbit, digest', I, Ys, U)
    BY <1>1, <1>9, <2>1, <2>2, TreeSame DEF TreeNow
  <2> QED  BY <1>2, <2>3 DEF TreeNow
<1>14. Going' = Going
  BY <1>2, <1>7 DEF Going, Unlinked
<1>15. Kept(I, Ys)'
  <2>1. I \subseteq mem' /\ Going' \subseteq mem'
    BY <1>1, <1>2, <1>14 DEF Kept
  <2>2. \A g \in mem' : digest'[g] \in Full
    BY <1>1, <1>2, <1>8, <1>10 DEF Kept, Types
  <2>3. \A g \in I : digest'[g] \in Digests /\ ref'[g] > 0
    BY <1>1, <1>4, <1>8, <1>12 DEF Kept
  <2>4. \A g \in laylow : digest'[g] = digest[g]
    BY <1>4, <1>8, <1>12
  <2> QED  BY <1>1, <1>2, <1>14, <2>1, <2>2, <2>3, <2>4 DEF Kept
<1>16. Spare(I)'
  <2>1. ASSUME NEW u \in Threads
        PROVE  /\ noh'[u] # None => /\ noh'[u] \in mem' /\ noh'[u] \notin I /\ noh'[u] \notin Going
                                    /\ noh'[u] \notin laylow /\ digest'[noh'[u]] \in Digests
                                    /\ \A v \in Threads : noh'[v] = noh'[u] => v = u
               /\ pc'[u] \in Needing => noh'[u] # None
    <3>1. CASE u = t
      BY <1>2, <1>4, <1>7, <1>8, <3>1
    <3>2. CASE u # t
      <4>1. noh'[u] = noh[u] /\ noh[u] # h /\ pc'[u] = pc[u]
        BY <1>4, <1>7, <3>2
      <4>2. noh[u] # None => noh[u] \in Heads
        BY <1>1 DEF Types
      <4>3. \A v \in Threads : noh'[v] = noh[u] => v # t /\ noh[v] = noh[u]
        BY <1>7, <4>1
      <4> QED  BY <1>1, <1>2, <1>8, <4>1, <4>2, <4>3 DEF Spare
    <3> QED  BY <3>1, <3>2
  <2> QED  BY <1>2, <1>14, <2>1 DEF Spare
<1>17. Users(I)'
  <2> DEFINE SafeN(u, g) ==
        g \in Heads /\ (g \in I \/ g \in Going' \/ (g \in laylow' /\ digest'[g][1] <= age'[u]))
  <2>1. \A u \in Threads, g \in Heads : u # t /\ Safe(u, g, I) => SafeN(u, g)
    BY <1>2, <1>4, <1>7, <1>8, <1>12, <1>14 DEF Safe
  <2>2. pc'[t] = "walk" => SafeN(t, origo[2])
    <3>1. ASSUME origo # Null PROVE SafeN(t, origo[2])
      <4>1. Inside(origo, I, Ys, U)
        BY <1>1, <3>1, RootInside DEF TreeNow
      <4>2. origo \in Words /\ origo[2] \in Heads
        BY <3>1, <4>1, WordKinds DEF Inside
      <4>3. origo[2] \in I \/ origo[2] \in Ys
        BY <3>1, <4>1, WordKinds DEF Inside, Sub
      <4>4. origo[2] \in I \/ origo[2] \in Going' \/ (origo[2] \in laylow' /\ digest'[origo[2]][1] = 0)
        BY <1>15, <4>3 DEF Kept
      <4> QED  BY <1>7, <4>2, <4>4
    <3> QED  BY <1>7, <3>1
  <2> HIDE DEF SafeN
  <2>3. ASSUME NEW u \in Threads
        PROVE  /\ pc'[u] \in {"idle", "walk", "lock"} => oh'[u] = None
               /\ (pc'[u] = "walk" /\ pp'[u] # Null) => SafeN(u, pp'[u][2])
               /\ pc'[u] = "match" => /\ SafeN(u, oh'[u])
                                      /\ oh'[u] \in I => digest'[oh'[u]] = digest'[noh'[u]]
               /\ pc'[u] = "locked" => oh'[u] \in I /\ digest'[oh'[u]] = digest'[noh'[u]]
               /\ pc'[u] \in {"held", "delete"} => oh'[u] \in I
               /\ pc'[u] = "unref" => oh'[u] \in laylow'
    <3>1. CASE u = t
      BY <1>2, <1>6, <1>7, <2>2, <3>1
    <3>2. CASE u # t
      <4>1. pc'[u] = pc[u] /\ noh'[u] = noh[u] /\ pp'[u] = pp[u] /\ oh'[u] = oh[u]
        BY <1>2, <1>7, <3>2
      <4>2. pc[u] \in {"match", "locked"} => noh[u] \in Heads /\ noh[u] # h /\ digest'[noh[u]] = digest[noh[u]]
        <5>1. pc[u] \in {"match", "locked"} => noh[u] # None
          BY <1>1 DEF Spare, Needing
        <5> QED  BY <1>1, <1>4, <1>8, <3>2, <5>1 DEF Types
      <4>3. oh[u] \in I => digest'[oh[u]] = digest[oh[u]]
        BY <1>4, <1>8, <1>12
      <4>4. (pc[u] = "walk" /\ pp[u] # Null) => SafeN(u, pp[u][2])
        BY <1>1, <2>1, <3>2 DEF Users, Safe
      <4>5. pc[u] = "match" => SafeN(u, oh[u])
        BY <1>1, <2>1, <3>2 DEF Users, Safe
      <4> QED  BY <1>1, <1>2, <4>1, <4>2, <4>3, <4>4, <4>5 DEF Users
    <3> QED  BY <3>1, <3>2
  <2> QED  BY <2>3 DEF Users, Safe, SafeN
<1>18. Locks'
  <2>1. ASSUME NEW u \in Threads
        PROVE  /\ (hcbMtx = u <=> (pc'[u] = "locked" \/ pc'[u] \in Unlinked))
               /\ \A g \in Heads : ohMtx[g] = u <=> (oh[u] = g /\ pc'[u] \in Last1)
               /\ pc'[u] \in Last1 => oh[u] \in Heads /\ ref'[oh[u]] = 1
    <3>1. CASE u = t
      <4>1. pc'[t] \notin Unlinked /\ pc'[t] # "locked" /\ pc'[t] \notin Last1
        BY <1>7 DEF Unlinked, Last1
      <4>2. pc[t] \notin Unlinked /\ pc[t] # "locked" /\ pc[t] \notin Last1
        BY <1>2 DEF Unlinked, Last1
      <4> QED  BY <1>1, <3>1, <4>1, <4>2 DEF Locks
    <3>2. CASE u # t
      BY <1>1, <1>5, <1>7, <1>8, <3>2 DEF Locks
    <3> QED  BY <3>1, <3>2
  <2> QED  BY <1>2, <2>1 DEF Locks
<1>19. Clearing(I, Ys, U)'
  <2>1. \A u \in Threads : pc'[u] \in {"clear0", "clear1"} <=> (pc[u] \in {"clear0", "clear1"} /\ u # t)
    BY <1>2, <1>7
  <2>2. ASSUME NEW u \in Threads, pc[u] \in {"clear0", "clear1"}
        PROVE  u # t /\ pc'[u] = pc[u] /\ dy[u] \in Heads /\ dy[u] # h /\ leaf'[dy[u]] = leaf[dy[u]]
    BY <1>1, <1>2, <1>4, <1>7, <1>8, <2>2 DEF Clearing
  <2>3. ASSUME NEW g \in Heads, g \notin Ys
        PROVE  \/ \A s \in 0 .. 1 : leaf'[g][s] = Null
               \/ \E u \in Threads : pc'[u] \in {"clear0", "clear1"} /\ dy'[u] = g
    <3>1. CASE g = h
      BY <1>8, <3>1
    <3>2. CASE g # h
      BY <1>1, <1>2, <1>8, <2>2, <2>3, <3>2 DEF Clearing
    <3> QED  BY <3>1, <3>2
  <2>4. ASSUME NEW u \in Threads, pc'[u] \in {"clear0", "clear1"}
        PROVE  /\ dy'[u] \in Heads /\ dy'[u] \notin Ys
               /\ dy'[u] \in I \/ dy'[u] \in Going' \/ dy'[u] \in laylow'
               /\ \A s \in 0 .. 1 : LET w == leaf'[dy'[u]][s]
                                    IN  w = Null \/ w = Node(oh'[u]) \/ Inside(w, I, Ys, U)
               /\ pc'[u] = "clear1" => leaf'[dy'[u]][0] = Null
    <3>1. pc[u] \in {"clear0", "clear1"} /\ dy'[u] = dy[u] /\ oh'[u] = oh[u]
      BY <1>2, <2>1, <2>4
    <3> QED  BY <1>1, <1>2, <1>14, <2>2, <3>1 DEF Clearing
  <2> QED  BY <2>3, <2>4 DEF Clearing
<1>20. RefExact'
  <2>1. ASSUME NEW g \in mem' PROVE ref'[g] = Cardinality(Owners(g)')
    <3>1. CASE g = h
      <4>1. Owners(g)' = {t}
        <5>1. \A u \in Threads : oh'[u] # h
          BY <1>2, <1>5
        <5>2. \A u \in Threads : noh'[u] = h <=> u = t
          BY <1>4, <1>7
        <5> QED  BY <3>1, <5>1, <5>2 DEF Owners
      <4>2. Cardinality({t}) = 1
        BY FS_Singleton
      <4> QED  BY <1>8, <3>1, <4>1, <4>2
    <3>2. CASE g # h
      <4>1. g \in mem /\ g \in Heads /\ ref[g] = Cardinality(Owners(g))
        BY <1>1, <1>2, <3>2, RefIs DEF Types
      <4>2. Owners(g)' = Owners(g)
        <5>1. g # None /\ noh[t] # g /\ oh[t] # g
          BY <1>3, <1>6, <3>2, <4>1, Consts
        <5> QED  BY <1>2, <1>7, <3>2, <5>1 DEF Owners
      <4> QED  BY <1>8, <3>2, <4>1, <4>2
    <3> QED  BY <3>1, <3>2
  <2> QED  BY <2>1 DEF RefExact, Owners
<1> QED  BY <1>11, <1>13, <1>15, <1>16, <1>17, <1>18, <1>19, <1>20 DEF Good

\* The stores of hcb_insert into a tree that is not empty.
Stores(h, d, bit) ==
  LET below == Path(d)[Place(d, bit)]
      y == [[q \in 0 .. 1 |-> below] EXCEPT ![Side(d, bit)] = Node(h)]
      above == Path(d)[Place(d, bit) - 1][2]
  IN  /\ critbit' = [critbit EXCEPT ![h] = bit]
      /\ IF Place(d, bit) = 0
         THEN origo' = Y(h) /\ leaf' = [leaf EXCEPT ![h] = y]
         ELSE /\ leaf' = [leaf EXCEPT ![h] = y, ![above][Side(d, critbit[above])] = Y(h)]
              /\ origo' = origo

\* The tree after hcb_insert.
LEMMA InsertNow ==
  ASSUME NEW I, NEW Ys, NEW U, Good(I, Ys, U), NEW t \in Threads, LockedInsert(t),
         NEW h, h = noh[t], h \in Heads, h \notin I, h \notin Ys, digest[h] \in Full
  PROVE  \E Zs, V : /\ TreeNow(I \cup {h}, Zs, V)' /\ Zs \subseteq Ys \cup {h}
                    /\ \A g \in Heads : g \notin Zs => g \notin Ys /\ \A s \in 0 .. 1 : leaf'[g][s] = leaf[g][s]
<1>1. Types /\ TreeNow(I, Ys, U) /\ Typed(origo, leaf, critbit)
  BY DEF Good, Types
<1>2. PICK d, p : d = digest[h] /\ p = Path(d)
  OBVIOUS
<1>3. d \in Full /\ Search(d) = None /\ \A g \in I : digest[g] # d
  <2>1. Search(d) = None
    BY <1>2 DEF LockedInsert
  <2>2. Finds(I, d)
    BY <1>1, <1>2, SearchIs
  <2>3. None \notin I
    BY <1>1, Consts DEF TreeNow, Tree, Rooted
  <2> QED  BY <1>2, <2>1, <2>2, <2>3 DEF Finds
<1>4. UNCHANGED <<digest>>
  BY DEF LockedInsert
<1>5. CASE origo = Null
  <2>1. origo' = Node(h) /\ UNCHANGED <<leaf, critbit>>
    BY <1>5 DEF LockedInsert
  <2>2. I = {} /\ Ys = {}
    BY <1>1, <1>5, NoYs, WordKinds DEF TreeNow
  <2>3. Typed(Node(h), leaf, critbit)
    BY <1>1, WordKinds DEF Typed
  <2>4. PICK V : Tree(Node(h), leaf, critbit, digest, {h}, {}, V)
    BY <2>3, OneTree
  <2>5. TreeNow(I \cup {h}, {}, V)'
    BY <1>4, <2>1, <2>2, <2>4 DEF TreeNow
  <2> QED  BY <2>1, <2>2, <2>5
<1>6. CASE origo # Null
  <2>1. OnPath(p, d, origo, leaf, critbit, digest, I, Ys, U)
    BY <1>1, <1>2, <1>3, <1>6, NowOnPath
  <2>2. PICK e : EndsAt(p, e, I, U)
    BY <2>1, PathEnds
  <2>3. e \in I /\ Foot(d) = Node(e) /\ Foot(d)[2] = e /\ digest[e] # d
    BY <1>2, <1>3, <2>2, WordKinds DEF EndsAt, Foot, Size
  <2>4. PICK bit, k, q : bit = hcb_crit_bit(d, digest[e]) /\ k = Place(d, bit) /\ q = Side(d, bit)
    OBVIOUS
  <2>5. PlacedAt(p, critbit, bit, k)
    <3>1. k = Min({i \in 0 .. Size : ~ IsY(p[i]) \/ critbit[p[i][2]] > bit})
      BY <1>2, <2>4 DEF Place, Size
    <3> QED  BY <2>1, <3>1, PlaceIs
  <2>6. PICK new : new = [[r \in 0 .. 1 |-> p[k]] EXCEPT ![q] = Node(h)]
    OBVIOUS
  <2>7. /\ critbit' = [critbit EXCEPT ![h] = bit]
        /\ IF k = 0 THEN origo' = Y(h) /\ leaf' = [leaf EXCEPT ![h] = new]
           ELSE /\ leaf' = [leaf EXCEPT ![h] = new,
                              ![p[k - 1][2]][Side(d, critbit[p[k - 1][2]])] = Y(h)]
                /\ origo' = origo
    <3> DEFINE H == noh[t]
               D == digest[H]
               B == hcb_crit_bit(D, digest[Foot(D)[2]])
    <3>1. Stores(H, D, B)
      BY <1>6 DEF LockedInsert, Stores
    <3>2. H = h /\ D = d /\ B = bit
      BY <1>2, <2>3, <2>4
    <3> HIDE DEF H, D, B
    <3>3. Stores(h, d, bit)
      BY <3>1, <3>2
    <3>4. Path(d)[Place(d, bit)] = p[k] /\ Path(d)[Place(d, bit) - 1] = p[k - 1]
      BY <1>2, <2>4
    <3>5. [[r \in 0 .. 1 |-> Path(d)[Place(d, bit)]] EXCEPT ![Side(d, bit)] = Node(h)] = new
      BY <2>4, <2>6, <3>4
    <3>6. /\ critbit' = [critbit EXCEPT ![h] = bit]
          /\ IF Place(d, bit) = 0 THEN origo' = Y(h) /\ leaf' = [leaf EXCEPT ![h] = new]
             ELSE /\ leaf' = [leaf EXCEPT ![h] = new,
                                ![Path(d)[Place(d, bit) - 1][2]]
                                 [Side(d, critbit[Path(d)[Place(d, bit) - 1][2]])] = Y(h)]
                  /\ origo' = origo
      BY <3>3, <3>5 DEF Stores
    <3> QED  BY <2>4, <3>4, <3>6
  <2>8. k \in 0 .. Size /\ Size \in Nat /\ p[k] \in Words /\ q \in 0 .. 1
    <3>1. k \in 0 .. Size /\ Size \in Nat
      BY <2>5, SizeType DEF PlacedAt
    <3>2. p[k] \in Words
      BY <2>1, <3>1 DEF OnPath, IsPath
    <3>3. Fits(p, k, d, bit, e, critbit, digest, Ys, U)
      BY <2>1, <2>2, <2>3, <2>4, <2>5, Placed
    <3> QED  BY <2>4, <3>1, <3>2, <3>3 DEF Fits
  <2>9. new \in [0 .. 1 -> Words] /\ \A r \in 0 .. 1 : new[r] = IF r = q THEN Node(h) ELSE p[k]
    BY <2>6, <2>8, WordKinds
  <2>10. leaf \in [Heads -> [0 .. 1 -> Words]]
    BY <1>1 DEF Typed
  <2>11. /\ Inserting(p, d, k, h, q, origo, leaf, critbit, origo', leaf')
         /\ \A g \in Heads : (g # h /\ g \notin Ys) => leaf'[g] = leaf[g]
    <3>1. CASE k = 0
      <4>1. leaf' = [leaf EXCEPT ![h] = new] /\ origo' = Y(h)
        BY <2>7, <3>1
      <4>2. leaf' \in [Heads -> [0 .. 1 -> Words]]
        BY <2>9, <2>10, <4>1
      <4>3. \A y \in Heads : leaf'[y] = IF y = h THEN new ELSE leaf[y]
        BY <2>10, <4>1
      <4>4. ~ (k > 0)
        BY <3>1
      <4> QED  BY <2>9, <3>1, <4>1, <4>2, <4>3, <4>4 DEF Inserting
    <3>2. CASE k # 0
      <4>1. PICK z, r : z = p[k - 1][2] /\ r = Side(d, critbit[z])
        OBVIOUS
      <4>2. PICK j \in 1 .. Size : j = k /\ j - 1 \in 0 .. Size /\ j - 1 < k /\ k > 0
        BY <2>8, <3>2
      <4>3. IsY(p[j - 1]) /\ Inside(p[j - 1], I, Ys, U)
        BY <2>1, <2>5, <4>2, PathInside DEF PlacedAt
      <4>4. z \in Ys /\ z \in Heads /\ z # h
        BY <1>1, <4>1, <4>2, <4>3 DEF Inside, TreeNow, Tree, Rooted
      <4>5. r \in 0 .. 1
        BY <2>1, <4>1, <4>2, <4>3, PathNext
      <4>6. leaf' = [leaf EXCEPT ![h] = new, ![z][r] = Y(h)] /\ origo' = origo
        BY <2>7, <3>2, <4>1
      <4>7. leaf' \in [Heads -> [0 .. 1 -> Words]]
        BY <2>9, <2>10, <4>4, <4>5, <4>6, WordKinds
      <4>8. \A y \in Heads : leaf'[y] = IF y = h THEN new ELSE IF y = z THEN [leaf[z] EXCEPT ![r] = Y(h)] ELSE leaf[y]
        BY <2>10, <4>4, <4>6
      <4>9. \A x \in 0 .. 1 : leaf'[z][x] = IF x = r THEN Y(h) ELSE leaf[z][x]
        <5>1. leaf'[z] = [leaf[z] EXCEPT ![r] = Y(h)] /\ leaf[z] \in [0 .. 1 -> Words]
          BY <2>10, <4>4, <4>8
        <5> QED  BY <5>1
      <4>10. ASSUME NEW y \in Heads, NEW x \in 0 .. 1
             PROVE  leaf'[y][x] = IF y = h THEN (IF x = q THEN Node(h) ELSE p[k])
                                  ELSE IF k > 0 /\ y = p[k - 1][2] /\ x = Side(d, critbit[y]) THEN Y(h)
                                  ELSE leaf[y][x]
        <5>1. CASE y = h
          BY <2>9, <4>8, <5>1
        <5>2. CASE y = z
          BY <4>1, <4>2, <4>4, <4>9, <5>2
        <5>3. CASE y # h /\ y # z
          BY <4>1, <4>8, <5>3
        <5> QED  BY <5>1, <5>2, <5>3
      <4> QED  BY <3>2, <4>4, <4>6, <4>7, <4>8, <4>10 DEF Inserting
    <3> QED  BY <3>1, <3>2
  <2>12. PICK V : Tree(origo', leaf', critbit', digest, I \cup {h}, Ys \cup {h}, V)
    <3>1. PICK o2, lf2, cb2 : o2 = origo' /\ lf2 = leaf' /\ cb2 = critbit'
      OBVIOUS
    <3>2. cb2 = [critbit EXCEPT ![h] = bit] /\ Inserting(p, d, k, h, q, origo, leaf, critbit, o2, lf2)
      BY <2>7, <2>11, <3>1
    <3>3. digest[h] = d /\ q = Side(d, bit) /\ bit = hcb_crit_bit(d, digest[e]) /\ digest[e] # d
      BY <1>2, <2>3, <2>4
    <3>4. HasTree(o2, lf2, cb2, digest, I \cup {h}, Ys \cup {h})
      BY <2>1, <2>2, <2>5, <3>2, <3>3, InsertTree
    <3> QED  BY <3>1, <3>4 DEF HasTree
  <2>13. TreeNow(I \cup {h}, Ys \cup {h}, V)'
    BY <1>4, <2>12 DEF TreeNow
  <2> QED  BY <2>11, <2>13
<1> QED  BY <1>5, <1>6

\* hcb_insert under hcb_mtx: Good of the tree with the new objhead.
LEMMA LockedInsertStep ==
  ASSUME NEW I, NEW Ys, NEW U, Good(I, Ys, U), NEW t \in Threads, LockedInsert(t),
         NEW h, h = noh[t]
  PROVE  /\ \E Zs, V : Good(I \cup {h}, Zs, V)'
         /\ h \in Heads /\ h \notin I /\ (\A g \in I : digest[g] # digest[h])
<1>1. /\ Types /\ TreeNow(I, Ys, U) /\ Kept(I, Ys) /\ Spare(I) /\ Users(I) /\ Locks
      /\ Clearing(I, Ys, U) /\ RefExact
  BY DEF Good
<1>2. h = noh[t]
  OBVIOUS
<1>3. /\ pc[t] = "lock" /\ hcbMtx = None /\ Search(digest[h]) = None
      /\ oh' = [oh EXCEPT ![t] = h] /\ noh' = [noh EXCEPT ![t] = None]
      /\ pc' = [pc EXCEPT ![t] = "held"]
      /\ UNCHANGED <<digest, laylow, mem, ref, hcbMtx, ohMtx, pp, dy, age>>
  BY <1>2 DEF LockedInsert, Goto, lockVars
<1>4. /\ h \in Heads /\ h # None /\ h \in mem /\ h \notin I /\ h \notin Going /\ h \notin laylow
      /\ digest[h] \in Digests /\ \A u \in Threads : noh[u] = h => u = t
  BY <1>1, <1>2, <1>3 DEF Spare, Needing, Types
<1>5. h \notin Ys /\ (\A u \in Threads : oh[u] # h) /\ digest[h] \in Full
  <2>1. h \notin Ys
    BY <1>1, <1>4 DEF Kept
  <2>2. \A u \in Threads : oh[u] # h
    BY <1>4, InHands
  <2> QED  BY <1>4, <2>1, <2>2, Consts
<1>6. oh[t] = None
  BY <1>1, <1>3 DEF Users
<1>7. \A g \in I : digest[g] # digest[h]
  <2>1. Finds(I, digest[h])
    BY <1>1, <1>5, SearchIs
  <2>2. None \notin I
    BY <1>1, Consts DEF TreeNow, Tree, Rooted
  <2> QED  BY <1>3, <2>1, <2>2 DEF Finds
<1>8. PICK Zs, V : /\ TreeNow(I \cup {h}, Zs, V)' /\ Zs \subseteq Ys \cup {h}
                   /\ \A g \in Heads : g \notin Zs => g \notin Ys /\ \A s \in 0 .. 1 : leaf'[g][s] = leaf[g][s]
  BY <1>2, <1>4, <1>5, InsertNow
<1>9. /\ \A u \in Threads : u # t => pc'[u] = pc[u] /\ noh'[u] = noh[u] /\ oh'[u] = oh[u]
      /\ pc'[t] = "held" /\ noh'[t] = None /\ oh'[t] = h
      /\ pc' \in [Threads -> Places] /\ noh' \in [Threads -> Heads \cup {None}]
      /\ oh' \in [Threads -> Heads \cup {None}]
  BY <1>1, <1>3, <1>4 DEF Types, Places
<1>10. \A u \in Threads : pc[u] # "locked" /\ pc[u] \notin Unlinked
  BY <1>1, <1>3, Consts DEF Locks
<1>11. Going = {} /\ Going' = {}
  BY <1>3, <1>9, <1>10 DEF Going, Unlinked
<1>12. Types'
  <2>1. Typed(origo, leaf, critbit)'
    BY <1>8 DEF TreeNow, Tree
  <2> QED  BY <1>1, <1>3, <1>9, <2>1 DEF Types
<1>13. ref[h] > 0
  <2>1. t \in Owners(h) /\ Owners(h) \in SUBSET Threads
    BY <1>2 DEF Owners
  <2>2. ref[h] = Cardinality(Owners(h))
    BY <1>1, <1>4, RefIs DEF Types
  <2>3. IsFiniteSet(Owners(h))
    BY <2>1, Consts, FS_Subset
  <2>4. Cardinality(Owners(h)) \in Nat /\ Cardinality(Owners(h)) # 0
    BY <2>1, <2>3, FS_EmptySet, FS_CardinalityType
  <2> QED  BY <2>2, <2>4
<1>14. Kept(I \cup {h}, Zs)'
  BY <1>1, <1>3, <1>4, <1>8, <1>11, <1>13 DEF Kept
<1>15. Spare(I \cup {h})'
  <2>1. ASSUME NEW u \in Threads
        PROVE  /\ noh'[u] # None => /\ noh'[u] \in mem /\ noh'[u] \notin I \cup {h} /\ noh'[u] \notin Going
                                    /\ noh'[u] \notin laylow /\ digest[noh'[u]] \in Digests
                                    /\ \A v \in Threads : noh'[v] = noh'[u] => v = u
               /\ pc'[u] \in Needing => noh'[u] # None
    <3>1. CASE u = t
      BY <1>9, <3>1 DEF Needing
    <3>2. CASE u # t
      <4>1. noh'[u] = noh[u] /\ noh[u] # h /\ pc'[u] = pc[u]
        BY <1>4, <1>9, <3>2
      <4>2. noh[u] # None => \A v \in Threads : noh'[v] = noh[u] => noh[v] = noh[u]
        BY <1>9
      <4> QED  BY <1>1, <4>1, <4>2 DEF Spare
    <3> QED  BY <3>1, <3>2
  <2> QED  BY <1>3, <1>11, <2>1 DEF Spare
<1>16. Users(I \cup {h})'
  <2>1. ASSUME NEW u \in Threads, u # t
        PROVE  pc'[u] = pc[u] /\ noh'[u] = noh[u] /\ oh'[u] = oh[u] /\ oh[u] # h /\ pp'[u] = pp[u]
    BY <1>3, <1>5, <1>9, <2>1
  <2> QED  BY <1>1, <1>3, <1>9, <1>11, <2>1 DEF Users, Safe
<1>17. Locks'
  <2>1. ASSUME NEW u \in Threads
        PROVE  /\ (hcbMtx = u <=> (pc'[u] = "locked" \/ pc'[u] \in Unlinked))
               /\ \A g \in Heads : ohMtx[g] = u <=> (oh'[u] = g /\ pc'[u] \in Last1)
               /\ pc'[u] \in Last1 => oh'[u] \in Heads /\ ref[oh'[u]] = 1
    <3>1. CASE u = t
      BY <1>1, <1>3, <1>9, <3>1 DEF Locks, Unlinked, Last1
    <3>2. CASE u # t
      BY <1>1, <1>9, <3>2 DEF Locks
    <3> QED  BY <3>1, <3>2
  <2> QED  BY <1>3, <2>1 DEF Locks
<1>18. Clearing(I \cup {h}, Zs, V)'
  <2>1. \A u \in Threads : pc'[u] \notin {"clear0", "clear1"} /\ pc[u] \notin {"clear0", "clear1"}
    BY <1>9, <1>10 DEF Unlinked
  <2>2. ASSUME NEW g \in Heads, g \notin Zs, NEW s \in 0 .. 1 PROVE leaf'[g][s] = Null
    <3>1. g \notin Ys /\ leaf'[g][s] = leaf[g][s]
      BY <1>8, <2>2
    <3> QED  BY <1>1, <2>1, <3>1 DEF Clearing
  <2> QED  BY <2>1, <2>2 DEF Clearing
<1>19. RefExact'
  <2>1. ASSUME NEW g \in mem PROVE ref[g] = Cardinality(Owners(g)')
    <3>1. g \in Heads /\ ref[g] = Cardinality(Owners(g))
      BY <1>1, RefIs DEF Types
    <3>2. Owners(g)' = Owners(g)
      <4>1. g # None
        BY <3>1, Consts
      <4>2. \A u \in Threads : u # t => (u \in Owners(g)' <=> u \in Owners(g))
        BY <1>9 DEF Owners
      <4>3. t \in Owners(g)' <=> t \in Owners(g)
        BY <1>2, <1>6, <1>9, <4>1 DEF Owners
      <4>4. Owners(g)' \subseteq Threads /\ Owners(g) \subseteq Threads
        BY DEF Owners
      <4> QED  BY <4>2, <4>3, <4>4
    <3> QED  BY <3>1, <3>2
  <2> QED  BY <1>3, <2>1 DEF RefExact, Owners
<1>20. Good(I \cup {h}, Zs, V)'
  BY <1>8, <1>12, <1>14, <1>15, <1>16, <1>17, <1>18, <1>19 DEF Good
<1>21. \E Ws, W : Good(I \cup {h}, Ws, W)'
  BY <1>20
<1> QED  BY <1>4, <1>7, <1>21

-----------------------------------------------------------------------------
(* hcb_deref *)

\* The first step of hcb_deref keeps Good.
LEMMA DerefStep1 ==
  ASSUME NEW I, NEW Ys, NEW U, Good(I, Ys, U), NEW t \in Threads, Deref(t)
  PROVE  Good(I, Ys, U)'
<1>1. /\ Types /\ TreeNow(I, Ys, U) /\ Kept(I, Ys) /\ Spare(I) /\ Users(I) /\ Locks
      /\ Clearing(I, Ys, U) /\ RefExact
  BY DEF Good
<1>2. PICK h : h = oh[t]
  OBVIOUS
<1>3. /\ pc[t] = "held" /\ ohMtx[h] = None
      /\ IF ref[h] = 1
         THEN /\ ohMtx' = [ohMtx EXCEPT ![h] = t] /\ pc' = [pc EXCEPT ![t] = "delete"]
              /\ ref' = ref /\ oh' = oh
         ELSE /\ ref' = [ref EXCEPT ![h] = @ - 1] /\ oh' = [oh EXCEPT ![t] = None]
              /\ pc' = [pc EXCEPT ![t] = "idle"] /\ ohMtx' = ohMtx
      /\ UNCHANGED <<treeVars, hcbMtx, left, noh, pp, dy, age>>
  BY <1>2 DEF Deref, Goto
<1>4. UNCHANGED <<origo, leaf, critbit, digest, laylow, mem, hcbMtx, noh, pp, dy, age>>
  BY <1>3 DEF treeVars
<1>5. h \in I /\ h \in Heads /\ h \in mem /\ noh[t] # h /\ h # None
  <2>1. h \in I /\ h \in Heads /\ h \in mem
    BY <1>1, <1>2, <1>3 DEF Users, Kept, Types
  <2>2. noh[t] # h
    BY <1>1, <2>1, Consts DEF Spare
  <2> QED  BY <2>1, <2>2, Consts
<1>6. PICK A : A = Owners(h) /\ A \in SUBSET Threads /\ t \in A /\ ref[h] = Cardinality(A)
  <2>1. t \in Owners(h) /\ Owners(h) \in SUBSET Threads
    BY <1>2, <1>3 DEF Owners
  <2>2. ref[h] = Cardinality(Owners(h))
    BY <1>1, <1>5, RefIs DEF Types
  <2> QED  BY <2>1, <2>2
<1>7. ref[h] \in Nat \ {0}
  <2>1. PICK B : B = A \ {t}
    OBVIOUS
  <2> QED  BY <1>6, <2>1, OwnersDrop
<1>8. /\ \A u \in Threads : u # t => pc'[u] = pc[u] /\ oh'[u] = oh[u]
      /\ \/ pc'[t] = "delete" /\ oh'[t] = h /\ ref' = ref /\ ref[h] = 1 /\ ohMtx' = [ohMtx EXCEPT ![h] = t]
         \/ /\ pc'[t] = "idle" /\ oh'[t] = None /\ ref[h] > 1 /\ ohMtx' = ohMtx
            /\ ref' = [ref EXCEPT ![h] = ref[h] - 1]
      /\ pc' \in [Threads -> Places] /\ oh' \in [Threads -> Heads \cup {None}]
  <2>1. pc \in [Threads -> Places] /\ oh \in [Threads -> Heads \cup {None}]
    BY <1>1 DEF Types
  <2>2. CASE ref[h] = 1
    BY <1>2, <1>3, <2>1, <2>2 DEF Places
  <2>3. CASE ref[h] # 1
    <3>1. ref[h] > 1
      BY <1>7, <2>3
    <3> QED  BY <1>3, <2>1, <2>3, <3>1 DEF Places
  <2> QED  BY <2>2, <2>3
<1>9. ref' \in [Heads -> Nat] /\ ohMtx' \in [Heads -> Threads \cup {None}]
  <2>1. ref \in [Heads -> Nat] /\ ohMtx \in [Heads -> Threads \cup {None}] /\ ref[h] - 1 \in Nat
    BY <1>1, <1>7 DEF Types
  <2>2. ref' = ref \/ ref' = [ref EXCEPT ![h] = ref[h] - 1]
    BY <1>8
  <2>3. ref' \in [Heads -> Nat]
    BY <2>1, <2>2
  <2>4. ohMtx' = ohMtx \/ ohMtx' = [ohMtx EXCEPT ![h] = t]
    BY <1>8
  <2> QED  BY <2>1, <2>3, <2>4
<1>10. Going' = Going
  BY <1>3, <1>8 DEF Going, Unlinked
<1>11. Types'
  BY <1>1, <1>4, <1>8, <1>9 DEF Types
<1>12. TreeNow(I, Ys, U)'
  BY <1>1, <1>4 DEF TreeNow
<1>13. /\ \A g \in Heads : g # h => ref'[g] = ref[g] /\ ohMtx'[g] = ohMtx[g]
       /\ ref'[h] > 0
       /\ IF pc'[t] = "delete" THEN ref'[h] = ref[h] /\ ohMtx'[h] = t
          ELSE ref'[h] = ref[h] - 1 /\ ohMtx'[h] = None
  <2>1. ref \in [Heads -> Nat] /\ ohMtx \in [Heads -> Threads \cup {None}]
    BY <1>1 DEF Types
  <2> QED  BY <1>3, <1>5, <1>7, <1>8, <2>1
<1>14. Kept(I, Ys)'
  <2>1. \A g \in I : ref'[g] > 0
    BY <1>1, <1>13 DEF Kept, Types
  <2> QED  BY <1>1, <1>4, <1>10, <2>1 DEF Kept
<1>15. Spare(I)'
  BY <1>1, <1>3, <1>4, <1>8, <1>10 DEF Spare, Needing
<1>16. Users(I)'
  BY <1>1, <1>4, <1>5, <1>8, <1>10 DEF Users, Safe
<1>17. Locks'
  <2>1. ASSUME NEW u \in Threads
        PROVE  /\ (hcbMtx = u <=> (pc'[u] = "locked" \/ pc'[u] \in Unlinked))
               /\ \A g \in Heads : ohMtx'[g] = u <=> (oh'[u] = g /\ pc'[u] \in Last1)
               /\ pc'[u] \in Last1 => oh'[u] \in Heads /\ ref'[oh'[u]] = 1
    <3>1. CASE u = t
      <4>1. pc[t] # "locked" /\ pc[t] \notin Unlinked /\ pc[t] \notin Last1
        BY <1>3 DEF Unlinked, Last1
      <4>2. hcbMtx # t /\ \A g \in Heads : ohMtx[g] # t
        BY <1>1, <4>1 DEF Locks
      <4>3. pc'[t] # "locked" /\ pc'[t] \notin Unlinked /\ (pc'[t] \in Last1 <=> pc'[t] = "delete")
        BY <1>8 DEF Unlinked, Last1
      <4>4. CASE pc'[t] = "delete"
        <5>1. oh'[t] = h /\ ref'[h] = 1 /\ ohMtx'[h] = t
          BY <1>8, <1>13, <4>4
        <5> QED  BY <1>5, <1>13, <3>1, <4>2, <4>3, <4>4, <5>1
      <4>5. CASE pc'[t] # "delete"
        <5>1. \A g \in Heads : ohMtx'[g] # t
          BY <1>8, <4>2, <4>5
        <5> QED  BY <3>1, <4>2, <4>3, <4>5, <5>1
      <4> QED  BY <4>4, <4>5
    <3>2. CASE u # t
      <4>1. pc[u] \in Last1 => oh[u] # h
        BY <1>1, <1>3, <1>5, Consts DEF Locks
      <4>2. ohMtx[h] # u /\ ohMtx'[h] # u
        BY <1>3, <1>13, <3>2, Consts
      <4>3. pc'[u] = pc[u] /\ oh'[u] = oh[u]
        BY <1>8, <3>2
      <4>4. /\ hcbMtx = u <=> (pc[u] = "locked" \/ pc[u] \in Unlinked)
            /\ \A g \in Heads : ohMtx[g] = u <=> (oh[u] = g /\ pc[u] \in Last1)
            /\ pc[u] \in Last1 => oh[u] \in Heads /\ ref[oh[u]] = 1
        BY <1>1 DEF Locks
      <4>5. ASSUME NEW g \in Heads PROVE ohMtx'[g] = u <=> (oh[u] = g /\ pc[u] \in Last1)
        BY <1>13, <4>1, <4>2, <4>4
      <4>6. pc[u] \in Last1 => ref'[oh[u]] = 1
        BY <1>13, <4>1, <4>4
      <4> QED  BY <4>3, <4>4, <4>5, <4>6
    <3> QED  BY <3>1, <3>2
  <2> QED  BY <1>4, <2>1 DEF Locks
<1>18. Clearing(I, Ys, U)'
  <2>1. \A u \in Threads : pc'[u] \in {"clear0", "clear1"} => pc[u] = pc'[u] /\ oh'[u] = oh[u]
    BY <1>8
  <2>2. \A u \in Threads : pc[u] \in {"clear0", "clear1"} => pc[u] = pc'[u]
    BY <1>3, <1>8
  <2> QED  BY <1>1, <1>4, <1>10, <2>1, <2>2 DEF Clearing
<1>19. RefExact'
  <2>1. ASSUME NEW g \in mem PROVE ref'[g] = Cardinality(Owners(g)')
    <3>1. g \in Heads /\ ref[g] = Cardinality(Owners(g))
      BY <1>1, RefIs DEF Types
    <3>2. CASE pc'[t] = "idle" /\ g = h
      <4>1. PICK B : B = Owners(g)'
        OBVIOUS
      <4>2. B = A \ {t}
        BY <1>4, <1>5, <1>6, <1>8, <3>2, <4>1 DEF Owners
      <4>3. Cardinality(B) = Cardinality(A) - 1
        BY <1>6, <4>2, OwnersDrop
      <4>4. ref'[h] = ref[h] - 1
        BY <1>13, <3>2
      <4> QED  BY <1>6, <3>2, <4>1, <4>3, <4>4
    <3>3. CASE ~ (pc'[t] = "idle" /\ g = h)
      <4>1. Owners(g)' = Owners(g)
        BY <1>2, <1>3, <1>4, <1>8, <3>1, <3>3, Consts DEF Owners
      <4>2. ref'[g] = ref[g]
        BY <1>8, <1>13, <3>1, <3>3
      <4> QED  BY <3>1, <4>1, <4>2
    <3> QED  BY <3>2, <3>3
  <2> QED  BY <1>4, <2>1 DEF RefExact, Owners
<1> QED  BY <1>11, <1>12, <1>14, <1>15, <1>16, <1>17, <1>18, <1>19 DEF Good

\* The tree after the store of hcb_delete.  The y that left it still has its leafs.
LEMMA DeleteNow ==
  ASSUME NEW I, NEW Ys, NEW U, Good(I, Ys, U), NEW t \in Threads, DeleteUnlink(t),
         NEW h, h = oh[t], h \in I
  PROVE  \E Zs, V :
           /\ TreeNow(I \ {h}, Zs, V)' /\ Zs \subseteq Ys
           /\ \/ /\ Zs = Ys /\ leaf' = leaf /\ dy' = dy /\ pc' = [pc EXCEPT ![t] = "cool"]
              \/ \E y \in Ys :
                   /\ Zs = Ys \ {y} /\ dy' = [dy EXCEPT ![t] = y] /\ pc' = [pc EXCEPT ![t] = "clear0"]
                   /\ \A s \in 0 .. 1 : leaf'[y][s] = Node(h) \/ Inside(leaf'[y][s], I \ {h}, Zs, V)
                   /\ \A g \in Heads \ Ys : \A s \in 0 .. 1 : leaf'[g][s] = leaf[g][s]
<1>1. Types /\ TreeNow(I, Ys, U) /\ Typed(origo, leaf, critbit) /\ Kept(I, Ys)
  BY DEF Good, Types
<1>2. PICK d, p : d = digest[h] /\ p = Path(d)
  OBVIOUS
<1>3. d \in Full /\ h \in Heads /\ Ys \subseteq Heads
  BY <1>1, <1>2 DEF TreeNow, Tree, Rooted
<1>4. UNCHANGED <<digest, critbit>>
  BY DEF DeleteUnlink
<1>5. CASE origo = Node(h)
  <2>1. origo' = Null /\ pc' = [pc EXCEPT ![t] = "cool"] /\ UNCHANGED <<leaf, dy>>
    BY <1>5 DEF DeleteUnlink, Goto
  <2>2. I = {h} /\ Ys = {}
    BY <1>1, <1>5, NoYs, WordKinds DEF TreeNow
  <2>3. Typed(Null, leaf, critbit)
    BY <1>1, WordKinds DEF Typed
  <2>4. PICK V : Tree(Null, leaf, critbit, digest, {}, {}, V)
    BY <2>3, EmptyTree
  <2>5. I \ {h} = {}
    BY <2>2
  <2>6. TreeNow(I \ {h}, {}, V)'
    BY <1>4, <2>1, <2>4, <2>5 DEF TreeNow
  <2> QED  BY <2>1, <2>2, <2>6
<1>6. CASE origo # Node(h)
  <2>1. origo # Null
    BY <1>1, NoYs, WordKinds DEF TreeNow
  <2>2. OnPath(p, d, origo, leaf, critbit, digest, I, Ys, U)
    BY <1>1, <1>2, <1>3, <2>1, NowOnPath
  <2>3. PICK i : i = Min({j \in 0 .. Size : p[j] = Node(h)}) - 1
    OBVIOUS
  <2>4. PICK y, s : y = p[i][2] /\ s = Side(d, critbit[y])
    OBVIOUS
  <2>5. HangsAt(p, d, i, h, y, s, leaf, critbit) /\ y \in Ys /\ s \in 0 .. 1
    <3>1. digest[h] = d
      BY <1>2
    <3>2. /\ HangsAt(p, d, i, h, p[i][2], Side(d, critbit[p[i][2]]), leaf, critbit)
          /\ p[i][2] \in Ys /\ Side(d, critbit[p[i][2]]) \in 0 .. 1
      BY <1>6, <2>2, <2>3, <3>1, HangsIs
    <3> QED  BY <2>4, <3>2
  <2>6. /\ Store(d, i, leaf[y][1 - s]) /\ dy' = [dy EXCEPT ![t] = y] /\ pc' = [pc EXCEPT ![t] = "clear0"]
    <3> DEFINE H == oh[t]
               D == digest[H]
               J == Min({j \in 0 .. Cardinality(Heads) : Path(D)[j] = Node(H)}) - 1
               Z == Path(D)[J][2]
    <3>1. /\ Store(D, J, leaf[Z][1 - Side(D, critbit[Z])]) /\ dy' = [dy EXCEPT ![t] = Z]
          /\ pc' = [pc EXCEPT ![t] = "clear0"]
      BY <1>6 DEF DeleteUnlink, Goto
    <3>2. H = h /\ D = d
      BY <1>2
    <3>3. J = i
      BY <1>2, <2>3, <3>2 DEF Size
    <3> HIDE DEF J, D, H
    <3>4. Z = y
      BY <1>2, <2>4, <3>2, <3>3
    <3>5. Side(D, critbit[Z]) = s
      BY <2>4, <3>2, <3>4
    <3> HIDE DEF Z
    <3> QED  BY <3>1, <3>2, <3>3, <3>4, <3>5
  <2>7. /\ i \in 0 .. Size /\ Size \in Nat /\ y \in Heads /\ p[i] = Y(y) /\ leaf[y][s] = Node(h)
        /\ leaf \in [Heads -> [0 .. 1 -> Words]] /\ leaf[y][1 - s] \in Words
    <3>1. y \in Heads /\ leaf \in [Heads -> [0 .. 1 -> Words]] /\ 1 - s \in 0 .. 1
      BY <1>1, <1>3, <2>5 DEF Typed
    <3> QED  BY <2>5, <3>1, SizeType DEF HangsAt
  <2>8. PICK w : w = leaf[y][1 - s] /\ w \in Words
    BY <2>7
  <2>9. /\ Deleting(p, d, i, y, s, origo, leaf, critbit, origo', leaf')
        /\ \A g \in Heads : (g \notin Ys \/ g = y) => leaf'[g] = leaf[g]
    <3>1. CASE i = 0
      <4>1. origo' = w /\ leaf' = leaf
        BY <2>6, <2>8, <3>1 DEF Store
      <4>2. ~ (i > 0)
        BY <3>1
      <4> QED  BY <2>7, <2>8, <3>1, <4>1, <4>2 DEF Deleting
    <3>2. CASE i # 0
      <4>1. PICK z, r : z = p[i - 1][2] /\ r = Side(d, critbit[z])
        OBVIOUS
      <4>2. PICK j \in 1 .. Size : j = i /\ j - 1 \in 0 .. Size /\ i > 0
        BY <2>7, <3>2
      <4>3. IsY(p[j]) /\ p[j][2] = y
        BY <2>7, <4>2, WordKinds
      <4>4. /\ IsY(p[j - 1]) /\ critbit[p[j - 1][2]] < critbit[p[j][2]] /\ Inside(p[j - 1], I, Ys, U)
        BY <2>2, <4>3, PathNext
      <4>5. Side(d, critbit[p[j - 1][2]]) \in 0 .. 1
        BY <2>2, <4>4, PathNext
      <4>6. z \in Ys /\ z \in Heads /\ r \in 0 .. 1
        BY <1>3, <4>1, <4>2, <4>4, <4>5 DEF Inside
      <4>7. z # y
        <5>1. critbit[y] \in 0 .. BitLen - 1 /\ BitLen \in Nat
          BY <1>1, <2>7, Consts DEF Typed
        <5>2. ~ (critbit[y] < critbit[y])
          BY <5>1
        <5> QED  BY <4>1, <4>2, <4>3, <4>4, <5>2
      <4>8. leaf' = [leaf EXCEPT ![z][r] = w] /\ origo' = origo
        BY <1>2, <2>6, <2>8, <3>2, <4>1 DEF Store
      <4>9. leaf' \in [Heads -> [0 .. 1 -> Words]]
        BY <2>7, <2>8, <4>6, <4>8
      <4>10. \A g \in Heads : leaf'[g] = IF g = z THEN [leaf[z] EXCEPT ![r] = w] ELSE leaf[g]
        BY <2>7, <4>6, <4>8
      <4>11. \A x \in 0 .. 1 : leaf'[z][x] = IF x = r THEN w ELSE leaf[z][x]
        <5>1. leaf'[z] = [leaf[z] EXCEPT ![r] = w] /\ leaf[z] \in [0 .. 1 -> Words]
          BY <2>7, <4>6, <4>10
        <5> QED  BY <5>1
      <4>12. ASSUME NEW g \in Heads, NEW x \in 0 .. 1
             PROVE  leaf'[g][x] = IF i > 0 /\ g = p[i - 1][2] /\ x = Side(d, critbit[g])
                                  THEN leaf[y][1 - s] ELSE leaf[g][x]
        <5>1. CASE g = z
          BY <2>8, <4>1, <4>2, <4>11, <5>1
        <5>2. CASE g # z
          BY <4>1, <4>10, <5>2
        <5> QED  BY <5>1, <5>2
      <4>13. origo' = IF i = 0 THEN leaf[y][1 - s] ELSE origo
        BY <3>2, <4>8
      <4>14. Deleting(p, d, i, y, s, origo, leaf, critbit, origo', leaf')
        BY <4>9, <4>12, <4>13 DEF Deleting
      <4>15. \A g \in Heads : (g \notin Ys \/ g = y) => leaf'[g] = leaf[g]
        BY <4>6, <4>7, <4>10
      <4> QED  BY <4>14, <4>15
    <3> QED  BY <3>1, <3>2
  <2>10. PICK V : /\ Tree(origo', leaf', critbit, digest, I \ {h}, Ys \ {y}, V)
                  /\ Inside(w, I \ {h}, Ys \ {y}, V)
    <3>1. PICK o2, lf2 : o2 = origo' /\ lf2 = leaf'
      OBVIOUS
    <3>2. Deleting(p, d, i, y, s, origo, leaf, critbit, o2, lf2)
      BY <2>9, <3>1
    <3>3. LeavesTree(o2, lf2, critbit, digest, I \ {h}, Ys \ {y}, leaf[y][1 - s])
      <4>1. digest[h] = d
        BY <1>2
      <4> QED  BY <2>2, <2>5, <3>2, <4>1, DeleteTree
    <3>4. LeavesTree(o2, lf2, critbit, digest, I \ {h}, Ys \ {y}, w)
      BY <2>8, <3>3
    <3> QED  BY <3>1, <3>4 DEF LeavesTree
  <2>11. TreeNow(I \ {h}, Ys \ {y}, V)'
    BY <1>4, <2>10 DEF TreeNow
  <2>12. \A r \in 0 .. 1 : leaf'[y][r] = Node(h) \/ Inside(leaf'[y][r], I \ {h}, Ys \ {y}, V)
    <3>1. leaf'[y] = leaf[y]
      BY <2>7, <2>9
    <3>2. ASSUME NEW r \in 0 .. 1 PROVE r = s \/ r = 1 - s
      BY <2>5
    <3> QED  BY <2>7, <2>8, <2>10, <3>1, <3>2
  <2>13. \A g \in Heads \ Ys : \A r \in 0 .. 1 : leaf'[g][r] = leaf[g][r]
    BY <2>9
  <2>14. Ys \ {y} \subseteq Ys
    OBVIOUS
  <2>15. \/ /\ Ys \ {y} = Ys /\ leaf' = leaf /\ dy' = dy /\ pc' = [pc EXCEPT ![t] = "cool"]
         \/ \E x \in Ys :
              /\ Ys \ {y} = Ys \ {x} /\ dy' = [dy EXCEPT ![t] = x] /\ pc' = [pc EXCEPT ![t] = "clear0"]
              /\ \A r \in 0 .. 1 : leaf'[x][r] = Node(h) \/ Inside(leaf'[x][r], I \ {h}, Ys \ {y}, V)
              /\ \A g \in Heads \ Ys : \A r \in 0 .. 1 : leaf'[g][r] = leaf[g][r]
    BY <2>5, <2>6, <2>12, <2>13
  <2> QED  BY <2>11, <2>14, <2>15
<1> QED  BY <1>5, <1>6

\* The store of hcb_delete: Good of the tree without the objhead.
LEMMA DeleteUnlinkStep ==
  ASSUME NEW I, NEW Ys, NEW U, Good(I, Ys, U), NEW t \in Threads, DeleteUnlink(t),
         NEW h, h = oh[t]
  PROVE  h \in I /\ \E Zs, V : Good(I \ {h}, Zs, V)'
<1>1. /\ Types /\ TreeNow(I, Ys, U) /\ Kept(I, Ys) /\ Spare(I) /\ Users(I) /\ Locks
      /\ Clearing(I, Ys, U) /\ RefExact
  BY DEF Good
<1>2. h = oh[t] /\ pc[t] = "delete" /\ hcbMtx = None /\ hcbMtx' = t
      /\ UNCHANGED <<critbit, digest, laylow, mem, ref, ohMtx, noh, pp, oh, age>>
  BY DEF DeleteUnlink
<1>3. h \in I /\ h \in Heads /\ h \in mem /\ h # None /\ I \subseteq Heads /\ Ys \subseteq Heads
  BY <1>1, <1>2, Consts DEF Users, Kept, Types, TreeNow, Tree, Rooted
<1>4. PICK Zs, V :
        /\ TreeNow(I \ {h}, Zs, V)' /\ Zs \subseteq Ys
        /\ \/ /\ Zs = Ys /\ leaf' = leaf /\ dy' = dy /\ pc' = [pc EXCEPT ![t] = "cool"]
           \/ \E y \in Ys :
                /\ Zs = Ys \ {y} /\ dy' = [dy EXCEPT ![t] = y] /\ pc' = [pc EXCEPT ![t] = "clear0"]
                /\ \A s \in 0 .. 1 : leaf'[y][s] = Node(h) \/ Inside(leaf'[y][s], I \ {h}, Zs, V)
                /\ \A g \in Heads \ Ys : \A s \in 0 .. 1 : leaf'[g][s] = leaf[g][s]
  BY <1>3, DeleteNow
<1>5. PICK to \in {"cool", "clear0"} : pc' = [pc EXCEPT ![t] = to]
  BY <1>4
<1>6. /\ \A u \in Threads : u # t => pc'[u] = pc[u]
      /\ pc'[t] = to /\ pc'[t] \in Unlinked /\ pc' \in [Threads -> Places]
  BY <1>1, <1>5 DEF Types, Places, Unlinked
<1>7. dy' \in [Threads -> Heads \cup {None}] /\ \A u \in Threads : u # t => dy'[u] = dy[u]
  <2>1. dy \in [Threads -> Heads \cup {None}]
    BY <1>1 DEF Types
  <2>2. dy' = dy \/ \E y \in Heads : dy' = [dy EXCEPT ![t] = y]
    BY <1>3, <1>4
  <2> QED  BY <2>1, <2>2
<1>8. \A u \in Threads : pc[u] # "locked" /\ pc[u] \notin Unlinked
  BY <1>1, <1>2, Consts DEF Locks
<1>9. Going = {} /\ Going' = {h}
  <2>1. Going = {}
    BY <1>8 DEF Going
  <2>2. \A u \in Threads : pc'[u] \in Unlinked <=> u = t
    BY <1>6, <1>8
  <2> QED  BY <1>2, <2>1, <2>2 DEF Going
<1>10. \A u \in Threads : (pc[u] \in {"held", "delete"} /\ oh[u] = h) => u = t
  <2>1. ref[h] = 1
    BY <1>1, <1>2 DEF Locks, Last1
  <2>2. Cardinality(Owners(h)) = 1
    BY <1>1, <1>3, <2>1, RefIs DEF Types
  <2>3. Owners(h) \in SUBSET Threads /\ t \in Owners(h)
    BY <1>2 DEF Owners
  <2>4. ASSUME NEW u \in Threads, pc[u] \in {"held", "delete"}, oh[u] = h PROVE u = t
    <3>1. u \in Owners(h)
      BY <2>4 DEF Owners
    <3> QED  BY <2>2, <2>3, <3>1, OwnersOne
  <2> QED  BY <2>4
<1>11. Types'
  <2>1. Typed(origo, leaf, critbit)'
    BY <1>4 DEF TreeNow, Tree
  <2> QED  BY <1>1, <1>2, <1>6, <1>7, <2>1 DEF Types
<1>12. Kept(I \ {h}, Zs)'
  <2>1. I \ {h} \subseteq mem /\ Going' \subseteq mem /\ (\A g \in mem : digest[g] \in Full)
    BY <1>1, <1>3, <1>9 DEF Kept
  <2>2. \A g \in I \ {h} : digest[g] \in Digests /\ ref[g] > 0 /\ g \notin Going' /\ g \notin laylow
    BY <1>1, <1>9 DEF Kept
  <2>3. \A y \in Zs : y \in I \ {h} \/ y \in Going' \/ (y \in laylow /\ digest[y][1] = 0)
    BY <1>1, <1>4, <1>9 DEF Kept
  <2>4. \A g \in Going' : g \notin laylow
    BY <1>1, <1>3, <1>9 DEF Kept
  <2> QED  BY <1>1, <1>2, <2>1, <2>2, <2>3, <2>4 DEF Kept
<1>13. Spare(I \ {h})'
  <2>1. \A u \in Threads : noh[u] # h
    BY <1>1, <1>3 DEF Spare
  <2>2. \A u \in Threads : pc'[u] \in Needing => pc[u] \in Needing
    BY <1>6 DEF Needing, Unlinked
  <2> QED  BY <1>1, <1>2, <1>9, <2>1, <2>2 DEF Spare
<1>14. Users(I \ {h})'
  <2>1. \A u \in Threads : u # t /\ pc[u] \in {"held", "delete"} => oh[u] # h
    BY <1>10
  <2>2. pc'[t] \notin {"idle", "walk", "lock", "match", "locked", "held", "delete", "unref"}
    BY <1>6 DEF Unlinked
  <2>3. \A u \in Threads, g \in Heads : Safe(u, g, I) =>
          g \in I \ {h} \/ g \in Going' \/ (g \in laylow' /\ digest'[g][1] <= age'[u])
    BY <1>2, <1>9 DEF Safe
  <2> QED  BY <1>1, <1>2, <1>6, <1>8, <2>1, <2>2, <2>3 DEF Users, Safe
<1>15. Locks'
  <2>1. ASSUME NEW u \in Threads
        PROVE  /\ (hcbMtx' = u <=> (pc'[u] = "locked" \/ pc'[u] \in Unlinked))
               /\ \A g \in Heads : ohMtx[g] = u <=> (oh[u] = g /\ pc'[u] \in Last1)
               /\ pc'[u] \in Last1 => oh[u] \in Heads /\ ref[oh[u]] = 1
    <3>1. CASE u = t
      BY <1>1, <1>2, <1>6, <3>1 DEF Locks, Unlinked, Last1
    <3>2. CASE u # t
      BY <1>1, <1>2, <1>6, <1>8, <3>2 DEF Locks
    <3> QED  BY <3>1, <3>2
  <2> QED  BY <1>2, <2>1 DEF Locks
<1>16. Clearing(I \ {h}, Zs, V)'
  <2>1. \A u \in Threads : u # t => pc'[u] \notin {"clear0", "clear1"} /\ pc[u] \notin {"clear0", "clear1"}
    BY <1>6, <1>8 DEF Unlinked
  <2>2. pc[t] \notin {"clear0", "clear1"} /\ pc'[t] # "clear1"
    BY <1>2, <1>6
  <2>3. \A g \in Heads : g \notin Ys => \A s \in 0 .. 1 : leaf[g][s] = Null
    BY <1>1, <2>1, <2>2 DEF Clearing
  <2>4. CASE Zs = Ys /\ leaf' = leaf /\ dy' = dy /\ pc' = [pc EXCEPT ![t] = "cool"]
    <3>1. pc'[t] = "cool"
      BY <1>1, <2>4 DEF Types
    <3> QED  BY <2>1, <2>3, <2>4, <3>1 DEF Clearing
  <2>5. ASSUME NEW y \in Ys,
               /\ Zs = Ys \ {y} /\ dy' = [dy EXCEPT ![t] = y] /\ pc' = [pc EXCEPT ![t] = "clear0"],
               \A s \in 0 .. 1 : leaf'[y][s] = Node(h) \/ Inside(leaf'[y][s], I \ {h}, Zs, V),
               \A g \in Heads \ Ys : \A s \in 0 .. 1 : leaf'[g][s] = leaf[g][s]
        PROVE  Clearing(I \ {h}, Zs, V)'
    <3>1. pc'[t] = "clear0" /\ dy'[t] = y /\ y \in Heads /\ y \notin Zs /\ oh'[t] = h
      BY <1>1, <1>2, <1>3, <2>5 DEF Types
    <3>2. y \in I \ {h} \/ y \in Going' \/ y \in laylow'
      BY <1>1, <1>2, <1>9 DEF Kept
    <3>3. ASSUME NEW g \in Heads, g \notin Zs
          PROVE  \/ \A s \in 0 .. 1 : leaf'[g][s] = Null
                 \/ \E u \in Threads : pc'[u] \in {"clear0", "clear1"} /\ dy'[u] = g
      <4>1. CASE g = y
        BY <3>1, <4>1
      <4>2. CASE g # y
        <5>1. g \notin Ys
          BY <2>5, <3>3, <4>2
        <5> QED  BY <2>3, <2>5, <5>1
      <4> QED  BY <4>1, <4>2
    <3>4. ASSUME NEW u \in Threads, pc'[u] \in {"clear0", "clear1"}
          PROVE  /\ dy'[u] \in Heads /\ dy'[u] \notin Zs
                 /\ dy'[u] \in I \ {h} \/ dy'[u] \in Going' \/ dy'[u] \in laylow'
                 /\ \A s \in 0 .. 1 : LET w == leaf'[dy'[u]][s]
                                      IN  w = Null \/ w = Node(oh'[u]) \/ Inside(w, I \ {h}, Zs, V)
                 /\ pc'[u] = "clear1" => leaf'[dy'[u]][0] = Null
      <4>1. u = t
        BY <2>1, <3>4
      <4> QED  BY <2>2, <2>5, <3>1, <3>2, <4>1
    <3> QED  BY <3>3, <3>4 DEF Clearing
  <2> QED  BY <1>4, <2>4, <2>5
<1>17. RefExact'
  <2>1. \A g \in Heads : Owners(g)' = Owners(g)
    <3>1. pc[t] \notin {"match", "locked"} /\ pc'[t] \notin {"match", "locked"}
      BY <1>2, <1>6 DEF Unlinked
    <3> QED  BY <1>2, <1>6, <3>1 DEF Owners
  <2>2. \A g \in mem : g \in Heads
    BY <1>1 DEF Types
  <2> QED  BY <1>1, <1>2, <2>1, <2>2 DEF RefExact, Owners
<1>18. Good(I \ {h}, Zs, V)'
  BY <1>4, <1>11, <1>12, <1>13, <1>14, <1>15, <1>16, <1>17 DEF Good
<1> QED  BY <1>3, <1>18

\* Clearing the y that left the tree keeps Good.
LEMMA DeleteClearStep ==
  ASSUME NEW I, NEW Ys, NEW U, Good(I, Ys, U), NEW t \in Threads, NEW s \in 0 .. 1, DeleteClear(t, s)
  PROVE  Good(I, Ys, U)'
<1>1. /\ Types /\ TreeNow(I, Ys, U) /\ Kept(I, Ys) /\ Spare(I) /\ Users(I) /\ Locks
      /\ Clearing(I, Ys, U) /\ RefExact
  BY DEF Good
<1>2. PICK y : y = dy[t]
  OBVIOUS
<1>3. /\ pc[t] = (IF s = 0 THEN "clear0" ELSE "clear1")
      /\ leaf' = [leaf EXCEPT ![y][s] = Null]
      /\ pc' = [pc EXCEPT ![t] = IF s = 0 THEN "clear1" ELSE "cool"]
      /\ UNCHANGED <<origo, critbit, digest, laylow, mem, ref, hcbMtx, ohMtx, noh, pp, oh, dy, age>>
  BY <1>2 DEF DeleteClear, Goto, lockVars
<1>4. /\ y \in Heads /\ y \notin Ys /\ (y \in I \/ y \in Going \/ y \in laylow)
      /\ \A r \in 0 .. 1 : leaf[y][r] = Null \/ leaf[y][r] = Node(oh[t]) \/ Inside(leaf[y][r], I, Ys, U)
      /\ s = 1 => leaf[y][0] = Null
  <2>1. pc[t] \in {"clear0", "clear1"} /\ (s = 1 => pc[t] = "clear1")
    BY <1>3
  <2> QED  BY <1>1, <1>2, <2>1 DEF Clearing
<1>5. leaf \in [Heads -> [0 .. 1 -> Words]] /\ Ys \subseteq Heads
  BY <1>1 DEF Types, Typed, TreeNow, Tree, Rooted
<1>6. /\ leaf' \in [Heads -> [0 .. 1 -> Words]]
      /\ \A g \in Heads : g # y => leaf'[g] = leaf[g]
      /\ \A r \in 0 .. 1 : leaf'[y][r] = IF r = s THEN Null ELSE leaf[y][r]
  <2>1. leaf' \in [Heads -> [0 .. 1 -> Words]]
    BY <1>3, <1>4, <1>5, WordKinds
  <2>2. \A g \in Heads : g # y => leaf'[g] = leaf[g]
    BY <1>3, <1>5
  <2>3. leaf'[y] = [leaf[y] EXCEPT ![s] = Null] /\ leaf[y] \in [0 .. 1 -> Words]
    BY <1>3, <1>4, <1>5
  <2> QED  BY <2>1, <2>2, <2>3
<1>7. /\ \A u \in Threads : u # t => pc'[u] = pc[u]
      /\ pc'[t] = (IF s = 0 THEN "clear1" ELSE "cool") /\ pc' \in [Threads -> Places]
  BY <1>1, <1>3 DEF Types, Places
<1>8. pc[t] \in Unlinked /\ pc'[t] \in Unlinked /\ pc[t] \in Last1 /\ pc'[t] \in Last1
  BY <1>3, <1>7 DEF Unlinked, Last1
<1>9. \A u \in Threads : u # t => pc[u] # "locked" /\ pc[u] \notin Unlinked
  BY <1>1, <1>8 DEF Locks
<1>10. Going' = Going
  <2>1. \A u \in Threads : pc'[u] \in Unlinked <=> pc[u] \in Unlinked
    BY <1>7, <1>8
  <2> QED  BY <1>3, <2>1 DEF Going
<1>11. Typed(origo, leaf', critbit)
  BY <1>1, <1>6 DEF Types, Typed
<1>12. Types'
  BY <1>1, <1>3, <1>7, <1>11 DEF Types
<1>13. TreeNow(I, Ys, U)'
  <2>1. \A z \in Ys : leaf'[z] = leaf[z]
    BY <1>4, <1>5, <1>6
  <2>2. Tree(origo, leaf', critbit, digest, I, Ys, U)
    BY <1>1, <1>11, <2>1, TreeSame DEF TreeNow
  <2> QED  BY <1>3, <2>2 DEF TreeNow
<1>14. Kept(I, Ys)'
  BY <1>1, <1>3, <1>10 DEF Kept
<1>15. Spare(I)'
  <2>1. \A u \in Threads : pc'[u] \in Needing => pc[u] \in Needing
    BY <1>7 DEF Needing
  <2> QED  BY <1>1, <1>3, <1>10, <2>1 DEF Spare
<1>16. Users(I)'
  BY <1>1, <1>3, <1>7, <1>10 DEF Users, Safe
<1>17. Locks'
  <2>1. ASSUME NEW u \in Threads
        PROVE  /\ (hcbMtx = u <=> (pc'[u] = "locked" \/ pc'[u] \in Unlinked))
               /\ \A g \in Heads : ohMtx[g] = u <=> (oh[u] = g /\ pc'[u] \in Last1)
               /\ pc'[u] \in Last1 => oh[u] \in Heads /\ ref[oh[u]] = 1
    <3>1. CASE u = t
      BY <1>1, <1>8, <3>1 DEF Locks
    <3>2. CASE u # t
      BY <1>1, <1>7, <3>2 DEF Locks
    <3> QED  BY <3>1, <3>2
  <2> QED  BY <1>3, <2>1 DEF Locks
<1>18. Clearing(I, Ys, U)'
  <2>1. ASSUME NEW u \in Threads, pc'[u] \in {"clear0", "clear1"}
        PROVE  /\ dy[u] \in Heads /\ dy[u] \notin Ys
               /\ dy[u] \in I \/ dy[u] \in Going \/ dy[u] \in laylow
               /\ \A r \in 0 .. 1 : LET w == leaf'[dy[u]][r]
                                    IN  w = Null \/ w = Node(oh[u]) \/ Inside(w, I, Ys, U)
               /\ pc'[u] = "clear1" => leaf'[dy[u]][0] = Null
    <3>1. u = t /\ s = 0 /\ dy[u] = y
      BY <1>2, <1>7, <1>9, <2>1 DEF Unlinked
    <3> QED  BY <1>4, <1>6, <3>1
  <2>2. ASSUME NEW g \in Heads, g \notin Ys
        PROVE  \/ \A r \in 0 .. 1 : leaf'[g][r] = Null
               \/ \E u \in Threads : pc'[u] \in {"clear0", "clear1"} /\ dy[u] = g
    <3>1. CASE g = y /\ s = 0
      BY <1>2, <1>7, <3>1
    <3>2. CASE g = y /\ s # 0
      <4>1. s = 1
        BY <3>2
      <4>2. \A r \in 0 .. 1 : leaf'[y][r] = Null
        BY <1>4, <1>6, <4>1
      <4> QED  BY <3>2, <4>2
    <3>3. CASE g # y
      <4>1. ~ \E u \in Threads : pc[u] \in {"clear0", "clear1"} /\ dy[u] = g
        BY <1>2, <1>9, <3>3 DEF Unlinked
      <4>2. \A r \in 0 .. 1 : leaf[g][r] = Null
        BY <1>1, <2>2, <4>1 DEF Clearing
      <4> QED  BY <1>6, <3>3, <4>2
    <3> QED  BY <3>1, <3>2, <3>3
  <2> QED  BY <1>3, <1>10, <2>1, <2>2 DEF Clearing
<1>19. RefExact'
  <2>1. \A g \in Heads : Owners(g)' = Owners(g)
    <3>1. pc[t] \notin {"match", "locked"} /\ pc'[t] \notin {"match", "locked"}
      BY <1>8 DEF Unlinked
    <3> QED  BY <1>3, <1>7, <3>1 DEF Owners
  <2>2. \A g \in mem : g \in Heads
    BY <1>1 DEF Types
  <2> QED  BY <1>1, <1>3, <2>1, <2>2 DEF RefExact, Owners
<1> QED  BY <1>12, <1>13, <1>14, <1>15, <1>16, <1>17, <1>18, <1>19 DEF Good

\* Putting the objhead on the cooling list keeps Good.
LEMMA DerefCoolStep ==
  ASSUME NEW I, NEW Ys, NEW U, Good(I, Ys, U), NEW t \in Threads, DerefCool(t)
  PROVE  Good(I, Ys, U)'
<1>1. /\ Types /\ TreeNow(I, Ys, U) /\ Kept(I, Ys) /\ Spare(I) /\ Users(I) /\ Locks
      /\ Clearing(I, Ys, U) /\ RefExact
  BY DEF Good
<1>2. PICK h : h = oh[t]
  OBVIOUS
<1>3. /\ pc[t] = "cool" /\ digest' = [digest EXCEPT ![h][1] = 0] /\ laylow' = laylow \cup {h}
      /\ hcbMtx' = None /\ dy' = [dy EXCEPT ![t] = None] /\ pc' = [pc EXCEPT ![t] = "unref"]
      /\ UNCHANGED <<origo, leaf, critbit, mem, ref, ohMtx, noh, pp, oh, age>>
  BY <1>2 DEF DerefCool, Goto
<1>4. pc[t] \in Unlinked /\ pc[t] \in Last1
  BY <1>3 DEF Unlinked, Last1
<1>5. \A u \in Threads : u # t => pc[u] # "locked" /\ pc[u] \notin Unlinked
  BY <1>1, <1>4 DEF Locks
<1>6. /\ \A u \in Threads : u # t => pc'[u] = pc[u]
      /\ pc'[t] = "unref" /\ pc' \in [Threads -> Places] /\ dy' \in [Threads -> Heads \cup {None}]
  BY <1>1, <1>3 DEF Types, Places
<1>7. Going = {h} /\ Going' = {}
  <2>1. \A u \in Threads : (pc[u] \in Unlinked <=> u = t) /\ pc'[u] \notin Unlinked
    BY <1>4, <1>5, <1>6 DEF Unlinked
  <2> QED  BY <1>2, <2>1 DEF Going
<1>8. h \in Heads /\ h \in mem /\ h \notin I /\ h \notin laylow /\ digest[h] \in Full
  BY <1>1, <1>7 DEF Kept, Types
<1>9. I \subseteq Heads /\ Ys \subseteq Heads /\ laylow \subseteq Heads
  BY <1>1 DEF TreeNow, Tree, Rooted, Types
<1>10. /\ digest' \in [Heads -> Full \cup {<<>>}] /\ digest'[h] \in Full /\ digest'[h][1] = 0
       /\ \A g \in Heads : g # h => digest'[g] = digest[g]
  <2>1. digest \in [Heads -> Full \cup {<<>>}]
    BY <1>1 DEF Types
  <2>2. PICK e : e = [digest[h] EXCEPT ![1] = 0]
    OBVIOUS
  <2>3. e \in Full /\ e[1] = 0
    <3>1. COOL_DURATION \in Nat /\ 1 \in 1 .. DIGEST_LEN
          /\ \A n \in 0 .. COOL_DURATION + 1 : n \in Bytes
      BY Consts
    <3>2. 0 \in Bytes
      <4>1. 0 \in 0 .. COOL_DURATION + 1
        BY <3>1
      <4> QED  BY <3>1, <4>1
    <3>3. PICK D : D = 1 .. DIGEST_LEN
      OBVIOUS
    <3>4. digest[h] \in [D -> Bytes] /\ 1 \in D
      BY <1>8, <3>1, <3>3 DEF Full
    <3>5. e \in [D -> Bytes] /\ e[1] = 0
      BY <2>2, <3>2, <3>4
    <3> QED  BY <3>3, <3>5 DEF Full
  <2>4. digest' = [digest EXCEPT ![h] = e]
    BY <1>3, <2>2
  <2> QED  BY <1>8, <2>1, <2>3, <2>4
<1>11. Types'
  BY <1>1, <1>3, <1>6, <1>8, <1>10 DEF Types
<1>12. TreeNow(I, Ys, U)'
  <2>1. \A g \in I : digest'[g] = digest[g]
    BY <1>8, <1>9, <1>10
  <2>2. Tree(origo, leaf, critbit, digest', I, Ys, U)
    BY <1>1, <2>1, TreeSame DEF TreeNow, Types
  <2> QED  BY <1>3, <2>2 DEF TreeNow
<1>13. Kept(I, Ys)'
  <2>1. I \subseteq mem' /\ Going' \subseteq mem' /\ (\A g \in mem' : digest'[g] \in Full)
    BY <1>1, <1>3, <1>7, <1>10 DEF Kept, Types
  <2>2. \A g \in I : digest'[g] \in Digests /\ ref'[g] > 0 /\ g \notin Going' /\ g \notin laylow'
    BY <1>1, <1>3, <1>7, <1>8, <1>9, <1>10 DEF Kept
  <2>3. \A g \in laylow' : digest'[g][1] \in 0 .. COOL_DURATION
    BY <1>1, <1>3, <1>8, <1>9, <1>10, Consts DEF Kept
  <2>4. \A y \in Ys : y \in I \/ y \in Going' \/ (y \in laylow' /\ digest'[y][1] = 0)
    BY <1>1, <1>3, <1>7, <1>9, <1>10 DEF Kept
  <2> QED  BY <1>7, <2>1, <2>2, <2>3, <2>4 DEF Kept
<1>14. \A u \in Threads : noh[u] # h /\ (noh[u] # None => digest'[noh[u]] = digest[noh[u]])
  <2>1. \A u \in Threads : noh[u] # h
    BY <1>1, <1>7, <1>8, Consts DEF Spare
  <2> QED  BY <1>1, <1>10, <2>1 DEF Types
<1>15. Spare(I)'
  <2>1. \A u \in Threads : pc'[u] \in Needing => pc[u] \in Needing
    BY <1>6 DEF Needing
  <2>2. \A u \in Threads : noh[u] \notin {} /\ noh[u] # h
    BY <1>14
  <2> QED  BY <1>1, <1>3, <1>7, <1>14, <2>1, <2>2 DEF Spare
<1>16. Users(I)'
  <2> DEFINE SafeN(u, g) ==
        g \in Heads /\ (g \in I \/ g \in Going' \/ (g \in laylow' /\ digest'[g][1] <= age'[u]))
  <2>1. ASSUME NEW u \in Threads, NEW g, Safe(u, g, I) PROVE SafeN(u, g)
    <3>1. g \in Heads /\ age[u] \in Nat
      BY <1>1, <2>1 DEF Safe, Types
    <3>2. CASE g = h
      <4>1. g \in laylow' /\ digest'[g][1] = 0
        BY <1>3, <1>10, <3>2
      <4> QED  BY <1>3, <3>1, <4>1
    <3>3. CASE g # h
      BY <1>3, <1>7, <1>10, <2>1, <3>1, <3>3 DEF Safe
    <3> QED  BY <3>2, <3>3
  <2> HIDE DEF SafeN
  <2>2. ASSUME NEW u \in Threads
        PROVE  /\ pc'[u] \in {"idle", "walk", "lock"} => oh[u] = None
               /\ (pc'[u] = "walk" /\ pp[u] # Null) => SafeN(u, pp[u][2])
               /\ pc'[u] = "match" => /\ SafeN(u, oh[u])
                                      /\ oh[u] \in I => digest'[oh[u]] = digest'[noh[u]]
               /\ pc'[u] = "locked" => oh[u] \in I /\ digest'[oh[u]] = digest'[noh[u]]
               /\ pc'[u] \in {"held", "delete"} => oh[u] \in I
               /\ pc'[u] = "unref" => oh[u] \in laylow'
    <3>1. CASE u = t
      BY <1>2, <1>3, <1>6, <3>1
    <3>2. CASE u # t
      <4>1. pc'[u] = pc[u]
        BY <1>6, <3>2
      <4>2. pc[u] \in {"match", "locked"} => digest'[noh[u]] = digest[noh[u]]
        <5>1. pc[u] \in {"match", "locked"} => noh[u] # None
          BY <1>1 DEF Spare, Needing
        <5> QED  BY <1>14, <5>1
      <4>3. oh[u] \in I => digest'[oh[u]] = digest[oh[u]]
        BY <1>8, <1>9, <1>10
      <4> QED  BY <1>1, <1>3, <2>1, <4>1, <4>2, <4>3 DEF Users
    <3> QED  BY <3>1, <3>2
  <2> QED  BY <1>3, <2>2 DEF Users, Safe, SafeN
<1>17. Locks'
  <2>1. ASSUME NEW u \in Threads
        PROVE  /\ (hcbMtx' = u <=> (pc'[u] = "locked" \/ pc'[u] \in Unlinked))
               /\ \A g \in Heads : ohMtx[g] = u <=> (oh[u] = g /\ pc'[u] \in Last1)
               /\ pc'[u] \in Last1 => oh[u] \in Heads /\ ref[oh[u]] = 1
    <3>1. hcbMtx' # u
      BY <1>3, Consts
    <3>2. CASE u = t
      <4>1. pc'[u] # "locked" /\ pc'[u] \notin Unlinked /\ pc'[u] \in Last1
        BY <1>6, <3>2 DEF Unlinked, Last1
      <4> QED  BY <1>1, <1>4, <3>1, <3>2, <4>1 DEF Locks
    <3>3. CASE u # t
      BY <1>1, <1>5, <1>6, <3>1, <3>3 DEF Locks
    <3> QED  BY <3>2, <3>3
  <2> QED  BY <1>3, <2>1 DEF Locks
<1>18. Clearing(I, Ys, U)'
  <2>1. \A u \in Threads : pc'[u] \notin {"clear0", "clear1"} /\ pc[u] \notin {"clear0", "clear1"}
    BY <1>3, <1>5, <1>6 DEF Unlinked
  <2> QED  BY <1>1, <1>3, <2>1 DEF Clearing
<1>19. RefExact'
  <2>1. \A g \in Heads : Owners(g)' = Owners(g)
    <3>1. pc[t] \notin {"match", "locked"} /\ pc'[t] \notin {"match", "locked"}
      BY <1>3, <1>6
    <3> QED  BY <1>3, <1>6, <3>1 DEF Owners
  <2>2. \A g \in mem : g \in Heads
    BY <1>1 DEF Types
  <2> QED  BY <1>1, <1>3, <2>1, <2>2 DEF RefExact, Owners
<1> QED  BY <1>11, <1>12, <1>13, <1>15, <1>16, <1>17, <1>18, <1>19 DEF Good

\* The decrement at the end of hcb_deref keeps Good.
LEMMA DerefUnrefStep ==
  ASSUME NEW I, NEW Ys, NEW U, Good(I, Ys, U), NEW t \in Threads, DerefUnref(t)
  PROVE  Good(I, Ys, U)'
<1>1. /\ Types /\ TreeNow(I, Ys, U) /\ Kept(I, Ys) /\ Spare(I) /\ Users(I) /\ Locks
      /\ Clearing(I, Ys, U) /\ RefExact
  BY DEF Good
<1>2. PICK h : h = oh[t]
  OBVIOUS
<1>3. /\ pc[t] = "unref" /\ ref' = [ref EXCEPT ![h] = @ - 1] /\ ohMtx' = [ohMtx EXCEPT ![h] = None]
      /\ oh' = [oh EXCEPT ![t] = None] /\ pc' = [pc EXCEPT ![t] = "idle"]
      /\ UNCHANGED <<treeVars, hcbMtx, left, noh, pp, dy, age>>
  BY <1>2 DEF DerefUnref, Goto
<1>4. UNCHANGED <<origo, leaf, critbit, digest, laylow, mem, hcbMtx, noh, pp, dy, age>>
  BY <1>3 DEF treeVars
<1>5. /\ h \in laylow /\ h \in mem /\ h \in Heads /\ h \notin I /\ h # None /\ noh[t] # h
      /\ ref[h] = 1 /\ ohMtx[h] = t
  <2>1. h \in laylow /\ h \in mem /\ h \in Heads
    BY <1>1, <1>2, <1>3 DEF Users, Types
  <2>2. h \notin I /\ h # None
    BY <1>1, <2>1, Consts DEF Kept
  <2>3. noh[t] # h
    BY <1>1, <2>1, <2>2 DEF Spare
  <2>4. pc[t] \in Last1
    BY <1>3 DEF Last1
  <2> QED  BY <1>1, <1>2, <2>1, <2>2, <2>3, <2>4 DEF Locks
<1>6. /\ \A u \in Threads : u # t => pc'[u] = pc[u] /\ oh'[u] = oh[u]
      /\ pc'[t] = "idle" /\ oh'[t] = None
      /\ pc' \in [Threads -> Places] /\ oh' \in [Threads -> Heads \cup {None}]
  BY <1>1, <1>3 DEF Types, Places
<1>7. /\ ref' \in [Heads -> Nat] /\ ohMtx' \in [Heads -> Threads \cup {None}]
      /\ \A g \in Heads : g # h => ref'[g] = ref[g] /\ ohMtx'[g] = ohMtx[g]
      /\ ref'[h] = 0 /\ ohMtx'[h] = None
  <2>1. ref \in [Heads -> Nat] /\ ohMtx \in [Heads -> Threads \cup {None}]
    BY <1>1 DEF Types
  <2>2. ref' = [ref EXCEPT ![h] = 0]
    BY <1>3, <1>5
  <2> QED  BY <1>3, <1>5, <2>1, <2>2
<1>8. Going' = Going
  BY <1>3, <1>6 DEF Going, Unlinked
<1>9. Types'
  BY <1>1, <1>4, <1>6, <1>7 DEF Types
<1>10. TreeNow(I, Ys, U)'
  BY <1>1, <1>4 DEF TreeNow
<1>11. Kept(I, Ys)'
  <2>1. \A g \in I : ref'[g] > 0
    BY <1>1, <1>5, <1>7 DEF Kept, Types
  <2> QED  BY <1>1, <1>4, <1>8, <2>1 DEF Kept
<1>12. Spare(I)'
  BY <1>1, <1>3, <1>4, <1>6, <1>8 DEF Spare, Needing
<1>13. Users(I)'
  BY <1>1, <1>4, <1>6, <1>8 DEF Users, Safe
<1>14. Locks'
  <2>1. ASSUME NEW u \in Threads
        PROVE  /\ (hcbMtx = u <=> (pc'[u] = "locked" \/ pc'[u] \in Unlinked))
               /\ \A g \in Heads : ohMtx'[g] = u <=> (oh'[u] = g /\ pc'[u] \in Last1)
               /\ pc'[u] \in Last1 => oh'[u] \in Heads /\ ref'[oh'[u]] = 1
    <3>1. CASE u = t
      <4>1. pc[t] # "locked" /\ pc[t] \notin Unlinked
        BY <1>3 DEF Unlinked
      <4>2. pc'[t] # "locked" /\ pc'[t] \notin Unlinked /\ pc'[t] \notin Last1
        BY <1>6 DEF Unlinked, Last1
      <4>3. \A g \in Heads : g # h => ohMtx[g] # t
        BY <1>1, <1>2 DEF Locks
      <4>4. \A g \in Heads : ohMtx'[g] # t
        BY <1>7, <4>3, Consts
      <4> QED  BY <1>1, <3>1, <4>1, <4>2, <4>4 DEF Locks
    <3>2. CASE u # t
      <4>1. pc[u] \in Last1 => oh[u] # h
        BY <1>1, <1>5, <3>2 DEF Locks
      <4>2. ohMtx[h] # u /\ ohMtx'[h] # u
        BY <1>5, <1>7, <3>2, Consts
      <4>3. pc'[u] = pc[u] /\ oh'[u] = oh[u]
        BY <1>6, <3>2
      <4>4. /\ hcbMtx = u <=> (pc[u] = "locked" \/ pc[u] \in Unlinked)
            /\ \A g \in Heads : ohMtx[g] = u <=> (oh[u] = g /\ pc[u] \in Last1)
            /\ pc[u] \in Last1 => oh[u] \in Heads /\ ref[oh[u]] = 1
        BY <1>1 DEF Locks
      <4>5. ASSUME NEW g \in Heads PROVE ohMtx'[g] = u <=> (oh[u] = g /\ pc[u] \in Last1)
        BY <1>7, <4>1, <4>2, <4>4
      <4>6. pc[u] \in Last1 => ref'[oh[u]] = 1
        BY <1>7, <4>1, <4>4
      <4> QED  BY <4>3, <4>4, <4>5, <4>6
    <3> QED  BY <3>1, <3>2
  <2> QED  BY <1>4, <2>1 DEF Locks
<1>15. Clearing(I, Ys, U)'
  <2>1. \A u \in Threads : pc'[u] \in {"clear0", "clear1"} => pc[u] = pc'[u] /\ oh'[u] = oh[u]
    BY <1>6
  <2>2. \A u \in Threads : pc[u] \in {"clear0", "clear1"} => pc[u] = pc'[u]
    BY <1>3, <1>6
  <2> QED  BY <1>1, <1>4, <1>8, <2>1, <2>2 DEF Clearing
<1>16. RefExact'
  <2>1. ASSUME NEW g \in mem PROVE ref'[g] = Cardinality(Owners(g)')
    <3>1. g \in Heads /\ ref[g] = Cardinality(Owners(g))
      BY <1>1, RefIs DEF Types
    <3>2. CASE g = h
      <4>1. PICK A, B : A = Owners(g) /\ B = Owners(g)'
        OBVIOUS
      <4>2. A \in SUBSET Threads /\ t \in A
        BY <1>2, <1>3, <3>2, <4>1 DEF Owners
      <4>3. B = A \ {t}
        BY <1>4, <1>5, <1>6, <3>2, <4>1 DEF Owners
      <4>4. Cardinality(B) = Cardinality(A) - 1
        BY <4>2, <4>3, OwnersDrop
      <4> QED  BY <1>5, <1>7, <3>1, <3>2, <4>1, <4>4
    <3>3. CASE g # h
      <4>1. Owners(g)' = Owners(g)
        BY <1>2, <1>3, <1>4, <1>6, <3>1, <3>3, Consts DEF Owners
      <4>2. ref'[g] = ref[g]
        BY <1>7, <3>1, <3>3
      <4> QED  BY <3>1, <4>1, <4>2
    <3> QED  BY <3>2, <3>3
  <2> QED  BY <1>4, <2>1 DEF RefExact, Owners
<1> QED  BY <1>9, <1>10, <1>11, <1>12, <1>13, <1>14, <1>15, <1>16 DEF Good

\* A round of hcb_cleaner keeps Good.
LEMMA CleanerStep ==
  ASSUME NEW I, NEW Ys, NEW U, Good(I, Ys, U), Cleaner
  PROVE  Good(I, Ys, U)'
<1>1. /\ Types /\ TreeNow(I, Ys, U) /\ Kept(I, Ys) /\ Spare(I) /\ Users(I) /\ Locks
      /\ Clearing(I, Ys, U) /\ RefExact
  BY DEF Good
<1>2. PICK colder, cold : /\ colder = {h \in laylow : Cleared(h)}
                          /\ cold = {h \in colder : digest[h][1] + 1 > COOL_DURATION}
  OBVIOUS
<1>3. /\ hcbMtx = None /\ CleanerFindsNoRefs /\ WalksAreShort
      /\ digest' = [h \in Heads |-> IF h \in colder THEN [digest[h] EXCEPT ![1] = @ + 1]
                                    ELSE digest[h]]
      /\ laylow' = laylow \ cold /\ mem' = mem \ cold
      /\ age' = [t \in Threads |-> IF t \in Unlocked THEN age[t] + 1 ELSE age[t]]
      /\ UNCHANGED <<origo, leaf, critbit, ref, hcbMtx, ohMtx, pc, noh, pp, oh, dy>>
  BY <1>2 DEF Cleaner, lockVars
<1>4. /\ colder \subseteq laylow /\ cold \subseteq colder /\ laylow \subseteq mem /\ mem \subseteq Heads
      /\ I \subseteq mem
  BY <1>1, <1>2 DEF Types, Kept
<1>5. \A u \in Threads : pc[u] # "locked" /\ pc[u] \notin Unlinked
  BY <1>1, <1>3, Consts DEF Locks
<1>6. Going = {} /\ Going' = {}
  BY <1>3, <1>5 DEF Going
<1>7. \A u \in Threads : pc[u] # "unref"
  <2>1. ASSUME NEW u \in Threads, pc[u] = "unref" PROVE FALSE
    <3>1. oh[u] \in laylow /\ pc[u] \in Last1
      BY <1>1, <2>1 DEF Users, Last1
    <3>2. ref[oh[u]] = 1
      BY <1>1, <3>1 DEF Locks
    <3>3. ref[oh[u]] = 0
      BY <1>3, <3>1 DEF CleanerFindsNoRefs
    <3> QED  BY <3>2, <3>3
  <2> QED  BY <2>1
<1>8. \A h \in colder : h \notin Ys /\ h \notin I
  <2>1. \A h \in colder : h \notin I
    BY <1>1, <1>4 DEF Kept
  <2>2. ASSUME NEW h \in colder, h \in Ys PROVE FALSE
    <3>1. 0 \in 0 .. 1 /\ leaf[h][0] = Null
      BY <1>2 DEF Cleared
    <3>2. Inside(leaf[h][0], I, Ys, U)
      BY <1>1, <2>2, <3>1, LeafInside DEF TreeNow
    <3> QED  BY <3>1, <3>2 DEF Inside
  <2> QED  BY <2>1, <2>2
<1>9. /\ \A h \in colder : digest'[h] \in Full /\ digest'[h][1] = digest[h][1] + 1
      /\ \A h \in Heads : h \notin colder => digest'[h] = digest[h]
  <2>1. ASSUME NEW h \in colder PROVE digest'[h] \in Full /\ digest'[h][1] = digest[h][1] + 1
    <3>1. PICK n : n = digest[h][1] + 1
      OBVIOUS
    <3>2. h \in laylow /\ h \in mem /\ h \in Heads
      BY <1>4
    <3>3. digest'[h] = [digest[h] EXCEPT ![1] = n]
      BY <1>3, <3>1, <3>2
    <3>4. digest[h][1] \in 0 .. COOL_DURATION /\ digest[h] \in Full
      BY <1>1, <3>2 DEF Kept
    <3>5. COOL_DURATION \in Nat /\ 1 \in 1 .. DIGEST_LEN
          /\ \A k \in 0 .. COOL_DURATION + 1 : k \in Bytes
      BY Consts
    <3>6. n \in Bytes
      <4>1. n \in 0 .. COOL_DURATION + 1
        BY <3>1, <3>4, <3>5
      <4> QED  BY <3>5, <4>1
    <3>7. PICK D : D = 1 .. DIGEST_LEN
      OBVIOUS
    <3>8. digest[h] \in [D -> Bytes] /\ 1 \in D
      BY <3>4, <3>5, <3>7 DEF Full
    <3>9. digest'[h] \in [D -> Bytes] /\ digest'[h][1] = n
      BY <3>3, <3>6, <3>8
    <3> QED  BY <3>1, <3>7, <3>9 DEF Full
  <2>2. \A h \in Heads : h \notin colder => digest'[h] = digest[h]
    BY <1>3
  <2> QED  BY <2>1, <2>2
<1>10. digest' \in [Heads -> Full \cup {<<>>}]
  <2>1. digest \in [Heads -> Full \cup {<<>>}]
    BY <1>1 DEF Types
  <2>2. \A h \in Heads : digest'[h] \in Full \cup {<<>>}
    BY <1>9, <2>1
  <2>3. digest' = [h \in Heads |-> digest'[h]]
    BY <1>3
  <2> QED  BY <2>2, <2>3
<1>11. age' \in [Threads -> Nat] /\ \A u \in Threads : age'[u] = age[u] \/ age'[u] = age[u] + 1
  BY <1>1, <1>3 DEF Types
<1>12. Types'
  BY <1>1, <1>3, <1>4, <1>10, <1>11 DEF Types
<1>13. TreeNow(I, Ys, U)'
  <2>1. \A g \in I : digest'[g] = digest[g]
    BY <1>4, <1>8, <1>9
  <2>2. Tree(origo, leaf, critbit, digest', I, Ys, U)
    BY <1>1, <2>1, TreeSame DEF TreeNow, Types
  <2> QED  BY <1>3, <2>2 DEF TreeNow
<1>14. Kept(I, Ys)'
  <2>1. I \subseteq mem' /\ Going' \subseteq mem'
    BY <1>3, <1>4, <1>6, <1>8
  <2>2. \A h \in mem' : digest'[h] \in Full
    BY <1>1, <1>3, <1>4, <1>9 DEF Kept
  <2>3. \A h \in I : digest'[h] \in Digests /\ ref'[h] > 0 /\ h \notin Going' /\ h \notin laylow'
    BY <1>1, <1>3, <1>4, <1>6, <1>8, <1>9 DEF Kept
  <2>4. ASSUME NEW h \in laylow' PROVE digest'[h][1] \in 0 .. COOL_DURATION
    <3>1. h \in laylow /\ h \notin cold /\ h \in Heads
      BY <1>3, <1>4
    <3>2. digest[h][1] \in 0 .. COOL_DURATION /\ COOL_DURATION \in Nat
      BY <1>1, <3>1, Consts DEF Kept
    <3>3. CASE h \in colder
      <4>1. ~ (digest[h][1] + 1 > COOL_DURATION)
        BY <1>2, <3>1, <3>3
      <4> QED  BY <1>9, <3>2, <3>3, <4>1
    <3>4. CASE h \notin colder
      BY <1>9, <3>1, <3>2, <3>4
    <3> QED  BY <3>3, <3>4
  <2>5. ASSUME NEW y \in Ys PROVE y \in I \/ y \in Going' \/ (y \in laylow' /\ digest'[y][1] = 0)
    <3>1. y \in I \/ (y \in laylow /\ digest[y][1] = 0)
      BY <1>1, <1>6 DEF Kept
    <3>2. y \notin colder /\ y \notin cold
      BY <1>4, <1>8
    <3> QED  BY <1>3, <1>4, <1>9, <3>1, <3>2
  <2> QED  BY <1>6, <2>1, <2>2, <2>3, <2>4, <2>5 DEF Kept
<1>15. ASSUME NEW u \in Threads, noh[u] # None
       PROVE  noh[u] \in mem' /\ noh[u] \notin laylow' /\ digest'[noh[u]] = digest[noh[u]]
  <2>1. noh[u] \in mem /\ noh[u] \notin laylow
    BY <1>1, <1>15 DEF Spare
  <2> QED  BY <1>3, <1>4, <1>9, <2>1
<1>16. Spare(I)'
  BY <1>1, <1>3, <1>6, <1>15 DEF Spare
<1>17. Users(I)'
  <2> DEFINE SafeN(u, g) ==
        g \in Heads /\ (g \in I \/ g \in Going' \/ (g \in laylow' /\ digest'[g][1] <= age'[u]))
  <2>1. ASSUME NEW u \in Threads, NEW g, Safe(u, g, I), pc[u] \in {"walk", "match"}
        PROVE  SafeN(u, g)
    <3>1. g \in Heads /\ age[u] \in Nat /\ COOL_DURATION \in Nat
      BY <1>1, <2>1, Consts DEF Safe, Types
    <3>2. u \in Unlocked /\ age[u] < COOL_DURATION /\ age'[u] = age[u] + 1
      BY <1>3, <2>1 DEF Unlocked, WalksAreShort
    <3>3. CASE g \in I
      BY <3>1, <3>3
    <3>4. CASE g \notin I
      <4>1. g \in laylow /\ digest[g][1] <= age[u] /\ digest[g][1] \in 0 .. COOL_DURATION
        BY <1>1, <1>6, <2>1, <3>4 DEF Safe, Kept
      <4>2. g \in laylow'
        BY <1>2, <1>3, <3>1, <3>2, <4>1
      <4>3. digest'[g][1] <= age'[u]
        <5>1. CASE g \in colder
          BY <1>9, <3>1, <3>2, <4>1, <5>1
        <5>2. CASE g \notin colder
          BY <1>9, <3>1, <3>2, <4>1, <5>2
        <5> QED  BY <5>1, <5>2
      <4> QED  BY <3>1, <4>2, <4>3
    <3> QED  BY <3>3, <3>4
  <2> HIDE DEF SafeN
  <2>2. ASSUME NEW u \in Threads
        PROVE  /\ pc[u] \in {"idle", "walk", "lock"} => oh[u] = None
               /\ (pc[u] = "walk" /\ pp[u] # Null) => SafeN(u, pp[u][2])
               /\ pc[u] = "match" => /\ SafeN(u, oh[u])
                                     /\ oh[u] \in I => digest'[oh[u]] = digest'[noh[u]]
               /\ pc[u] = "locked" => oh[u] \in I /\ digest'[oh[u]] = digest'[noh[u]]
               /\ pc[u] \in {"held", "delete"} => oh[u] \in I
               /\ pc[u] = "unref" => oh[u] \in laylow'
    <3>1. pc[u] \in {"idle", "walk", "lock"} => oh[u] = None
      BY <1>1 DEF Users
    <3>2. (pc[u] = "walk" /\ pp[u] # Null) => SafeN(u, pp[u][2])
      BY <1>1, <2>1 DEF Users
    <3>3. pc[u] = "match" => SafeN(u, oh[u])
      BY <1>1, <2>1 DEF Users
    <3>4. (pc[u] = "match" /\ oh[u] \in I) => digest'[oh[u]] = digest'[noh[u]]
      <4>1. pc[u] = "match" => noh[u] # None
        BY <1>1 DEF Spare, Needing
      <4>2. oh[u] \in I => digest'[oh[u]] = digest[oh[u]]
        BY <1>4, <1>8, <1>9
      <4> QED  BY <1>1, <1>15, <4>1, <4>2 DEF Users
    <3>5. pc[u] \in {"held", "delete"} => oh[u] \in I
      BY <1>1 DEF Users
    <3> QED  BY <1>5, <1>7, <3>1, <3>2, <3>3, <3>4, <3>5
  <2> QED  BY <1>3, <2>2 DEF Users, Safe, SafeN
<1>18. Locks'
  BY <1>1, <1>3 DEF Locks
<1>19. Clearing(I, Ys, U)'
  <2>1. \A u \in Threads : pc[u] \notin {"clear0", "clear1"}
    BY <1>5 DEF Unlinked
  <2> QED  BY <1>1, <1>3, <2>1 DEF Clearing
<1>20. RefExact'
  BY <1>1, <1>3 DEF RefExact
<1> QED  BY <1>12, <1>13, <1>14, <1>16, <1>17, <1>18, <1>19, <1>20 DEF Good

-----------------------------------------------------------------------------
(* The invariant is kept, and what it says *)

\* Stuttering keeps Good.
LEMMA IdleStep ==
  ASSUME NEW I, NEW Ys, NEW U, Good(I, Ys, U), UNCHANGED vars
  PROVE  Good(I, Ys, U)'
<1>1. UNCHANGED <<origo, leaf, critbit, digest, laylow, mem, ref, hcbMtx, ohMtx,
                  pc, noh, pp, oh, dy, age>>
  BY DEF vars, treeVars, lockVars, threadVars
<1>2. /\ Types /\ TreeNow(I, Ys, U) /\ Kept(I, Ys) /\ Spare(I) /\ Users(I) /\ Locks
      /\ Clearing(I, Ys, U) /\ RefExact
  BY DEF Good
<1>3. Going' = Going
  BY <1>1 DEF Going
<1>4. Types' /\ TreeNow(I, Ys, U)'
  BY <1>1, <1>2 DEF Types, TreeNow
<1>5. Kept(I, Ys)' /\ Spare(I)'
  BY <1>1, <1>2, <1>3 DEF Kept, Spare
<1>6. Users(I)'
  BY <1>1, <1>2, <1>3 DEF Users, Safe
<1>7. Locks' /\ RefExact'
  BY <1>1, <1>2 DEF Locks, RefExact
<1>8. Clearing(I, Ys, U)'
  BY <1>1, <1>2, <1>3 DEF Clearing
<1> QED  BY <1>4, <1>5, <1>6, <1>7, <1>8 DEF Good

\* The steps that leave the objheads of the tree as they are.
Steady(t) ==
  \/ LookupStart(t) \/ Walk(t) \/ Compare(t) \/ TryRef(t) \/ LockedFind(t) \/ LockedRef(t)
  \/ Deref(t) \/ (\E s \in 0 .. 1 : DeleteClear(t, s)) \/ DerefCool(t) \/ DerefUnref(t)

\* The steps that change no tree keep Good.
LEMMA SteadyStep ==
  ASSUME NEW I, NEW Ys, NEW U, Good(I, Ys, U), NEW t \in Threads, WalkEndsAtNode, Steady(t)
  PROVE  Good(I, Ys, U)'
<1>1. CASE LookupStart(t)  BY <1>1, LookupStartStep
<1>2. CASE Walk(t)         BY <1>2, WalkStep
<1>3. CASE Compare(t)      BY <1>3, CompareStep
<1>4. CASE TryRef(t)       BY <1>4, TryRefStep
<1>5. CASE LockedFind(t)   BY <1>5, LockedFindStep
<1>6. CASE LockedRef(t)    BY <1>6, LockedRefStep
<1>7. CASE Deref(t)        BY <1>7, DerefStep1
<1>8. CASE \E s \in 0 .. 1 : DeleteClear(t, s)  BY <1>8, DeleteClearStep
<1>9. CASE DerefCool(t)    BY <1>9, DerefCoolStep
<1>10. CASE DerefUnref(t)  BY <1>10, DerefUnrefStep
<1> QED  BY <1>1, <1>2, <1>3, <1>4, <1>5, <1>6, <1>7, <1>8, <1>9, <1>10 DEF Steady

\* The steps by what they do to the tree.
LEMMA NextCases ==
  ASSUME Next
  PROVE  /\ WalkEndsAtNode
         /\ Cleaner \/ \E t \in Threads : Steady(t) \/ LockedInsert(t) \/ DeleteUnlink(t)
  BY DEF Next, LookupStep, DerefStep, Steady

\* The invariant of the tree is kept by every step.
LEMMA CritbitStep == IInv /\ [Next]_vars => IInv'
<1> SUFFICES ASSUME IInv, [Next]_vars PROVE IInv'
  OBVIOUS
<1>1. PICK I, Ys, U : Good(I, Ys, U)
  BY DEF IInv
<1>2. (\E J, Zs, V : Good(J, Zs, V)') => IInv'
  BY DEF IInv
<1>3. CASE UNCHANGED vars
  BY <1>1, <1>2, <1>3, IdleStep
<1>4. CASE Next
  <2>1. CASE Cleaner
    BY <1>1, <1>2, <2>1, CleanerStep
  <2>2. ASSUME NEW t \in Threads, Steady(t) PROVE IInv'
    BY <1>1, <1>2, <1>4, <2>2, NextCases, SteadyStep
  <2>3. ASSUME NEW t \in Threads, LockedInsert(t) PROVE IInv'
    <3>1. PICK h : h = noh[t]
      OBVIOUS
    <3>2. \E Zs, V : Good(I \cup {h}, Zs, V)'
      BY <1>1, <2>3, <3>1, LockedInsertStep
    <3> QED  BY <1>2, <3>2
  <2>4. ASSUME NEW t \in Threads, DeleteUnlink(t) PROVE IInv'
    <3>1. PICK h : h = oh[t]
      OBVIOUS
    <3>2. \E Zs, V : Good(I \ {h}, Zs, V)'
      BY <1>1, <2>4, <3>1, DeleteUnlinkStep
    <3> QED  BY <1>2, <3>2
  <2> QED  BY <1>4, <2>1, <2>2, <2>3, <2>4, NextCases
<1> QED  BY <1>3, <1>4

\* The invariant of the tree.
LEMMA CritbitAlways == Spec => []IInv
  BY InitGood, CritbitStep, PTL DEF Spec

\* Good gives types and counters.
LEMMA GoodTypes ==
  ASSUME NEW I, NEW Ys, NEW U, Good(I, Ys, U)
  PROVE  CritbitInv
<1>1. Types /\ Kept(I, Ys) /\ RefExact
  BY DEF Good
<1>2. TypeOK
  BY <1>1 DEF Types, Typed, Kept, TypeOK, Full
<1> QED  BY <1>1, <1>2 DEF CritbitInv

\* Good gives memory safety and growing critbits.
LEMMA GoodSafe ==
  ASSUME NEW I, NEW Ys, NEW U, Good(I, Ys, U)
  PROVE  MemorySafe /\ CritbitsGrow
<1>1. Types /\ TreeNow(I, Ys, U) /\ Kept(I, Ys) /\ Users(I) /\ Typed(origo, leaf, critbit)
  BY DEF Good, Types
<1>2. I \subseteq mem /\ Ys \subseteq mem /\ Going \subseteq mem /\ laylow \subseteq mem
  BY <1>1 DEF Kept, Types
<1>3. ASSUME NEW d \in Digests
      PROVE  /\ \A i \in 0 .. Size : Path(d)[i] # Null => Path(d)[i][2] \in mem
             /\ \A i \in 1 .. Size : IsY(Path(d)[i]) => critbit[Path(d)[i - 1][2]] < critbit[Path(d)[i][2]]
  <2>1. d \in Full /\ Size \in Nat
    BY Consts, SizeType
  <2>2. CASE origo = Null
    <3>1. \A i \in 0 .. Size : Path(d)[i] = Null /\ ~ IsY(Null)
      BY <1>1, <2>1, <2>2, NullPath, WordKinds
    <3>2. \A i \in 1 .. Size : i \in 0 .. Size
      BY <2>1
    <3> QED  BY <3>1, <3>2
  <2>3. CASE origo # Null
    <3>1. OnPath(Path(d), d, origo, leaf, critbit, digest, I, Ys, U)
      BY <1>1, <2>1, <2>3, NowOnPath
    <3>2. ASSUME NEW i \in 0 .. Size PROVE Path(d)[i][2] \in mem
      <4>1. PICK w : w = Path(d)[i]
        OBVIOUS
      <4>2. Inside(w, I, Ys, U)
        BY <3>1, <4>1, PathInside
      <4>3. w[2] \in I \/ w[2] \in Ys
        BY <4>2, WordKinds DEF Inside, Sub
      <4> QED  BY <1>2, <4>1, <4>3
    <3>3. ASSUME NEW i \in 1 .. Size, IsY(Path(d)[i])
          PROVE  critbit[Path(d)[i - 1][2]] < critbit[Path(d)[i][2]]
      BY <3>1, <3>3, PathNext
    <3> QED  BY <3>2, <3>3
  <2> QED  BY <2>2, <2>3
<1>4. \A t \in Threads : (pc[t] = "walk" /\ pp[t] # Null) => pp[t][2] \in mem
  BY <1>1, <1>2 DEF Users, Safe
<1>5. \A t \in Threads : oh[t] # None => oh[t] \in mem
  BY <1>2, InHands
<1>6. MemorySafe
  BY <1>3, <1>4, <1>5 DEF MemorySafe, Size
<1>7. CritbitsGrow
  BY <1>3 DEF CritbitsGrow, Size
<1> QED  BY <1>6, <1>7

\* Good gives that what is found under hcb_mtx is referred to.
LEMMA GoodAlive ==
  ASSUME NEW I, NEW Ys, NEW U, Good(I, Ys, U)
  PROVE  FoundUnderLockIsAlive
<1>1. Users(I) /\ Kept(I, Ys)
  BY DEF Good
<1> QED  BY <1>1 DEF Users, Kept, FoundUnderLockIsAlive

\* For any threads, objheads, digests and COOL_DURATION: through every race of
\* hcb_lookup, hcb_insert, hcb_deref, hcb_delete and hcb_cleaner the counters are
\* exact, whatever can be reached in the tree or by a search under way is
\* allocated memory, an objhead found with hcb_mtx has a reference, and on every
\* way down the critbits grow.
THEOREM CritbitTheorem ==
  Spec => [](CritbitInv /\ MemorySafe /\ FoundUnderLockIsAlive /\ CritbitsGrow)
<1>1. IInv => CritbitInv /\ MemorySafe /\ FoundUnderLockIsAlive /\ CritbitsGrow
  BY GoodTypes, GoodSafe, GoodAlive DEF IInv
<1> QED  BY <1>1, CritbitAlways, PTL

-----------------------------------------------------------------------------
(* The tree implements HashSlinger *)

HeldBy(t) == IF Holds(t) THEN oh[t] ELSE None
Havers(h) == {t \in Threads : Holds(t) /\ oh[t] = h}
Table == [d \in Digests |-> Search(d)]
Refs == [h \in Heads |-> Cardinality(Havers(h))]
HeldAll == [t \in Threads |-> HeldBy(t)]

\* The abstract state, read off the objheads I of the tree.
View(I) ==
  /\ I \subseteq Heads /\ (\A t \in Threads : HeldBy(t) \in I \cup {None})
  /\ (\A h \in I : ref[h] = Refs[h]) /\ (\A d \in Digests : Finds(I, d))

\* Good gives what the refinement needs to know.
LEMMA GoodView ==
  ASSUME NEW I, NEW Ys, NEW U
  PROVE  Good(I, Ys, U) => View(I)
<1> SUFFICES ASSUME Good(I, Ys, U) PROVE View(I)
  OBVIOUS
<1>1. Types /\ TreeNow(I, Ys, U) /\ Kept(I, Ys) /\ Spare(I) /\ Users(I) /\ RefExact
  BY DEF Good
<1>2. I \subseteq Heads /\ I \subseteq mem /\ mem \subseteq Heads
  BY <1>1 DEF Kept, Types
<1>3. \A t \in Threads : HeldBy(t) \in I \cup {None}
  BY <1>1 DEF Users, HeldBy, Holds
<1>4. ASSUME NEW h \in I PROVE ref[h] = Refs[h]
  <2>1. h \in mem /\ h \in Heads /\ h # None /\ h \notin Going /\ h \notin laylow
    BY <1>1, <1>2, Consts DEF Kept
  <2>2. ASSUME NEW t \in Threads
        PROVE  ((oh[t] = h /\ pc[t] \notin {"match", "locked"}) \/ noh[t] = h) <=> (Holds(t) /\ oh[t] = h)
    <3>1. noh[t] # h
      BY <1>1, <2>1 DEF Spare
    <3>2. pc[t] \in Places
      BY <1>1 DEF Types
    <3>3. oh[t] = h => /\ pc[t] \notin {"idle", "walk", "lock"} /\ pc[t] # "unref"
                       /\ pc[t] \notin Unlinked
      BY <1>1, <2>1 DEF Users, Going
    <3> QED  BY <3>1, <3>2, <3>3 DEF Places, Unlinked, Holds
  <2>3. Owners(h) = Havers(h)
    BY <2>2 DEF Owners, Havers
  <2>4. ref[h] = Cardinality(Owners(h))
    BY <1>1, <1>2, <2>1, RefIs
  <2> QED  BY <2>1, <2>3, <2>4 DEF Refs
<1>5. \A d \in Digests : Finds(I, d)
  BY <1>1, Consts, SearchIs
<1> QED  BY <1>2, <1>3, <1>4, <1>5 DEF View

\* The same of the next state.
LEMMA GoodViewNext ==
  ASSUME NEW I, NEW Ys, NEW U
  PROVE  Good(I, Ys, U)' => View(I)'
  BY GoodView, PTL

\* The same objheads with the same digests: the same table.
LEMMA SameTable ==
  ASSUME NEW I, View(I), View(I)', \A g \in I : digest'[g] = digest[g]
  PROVE  Table' = Table
<1>1. None \notin I
  BY Consts DEF View
<1>2. ASSUME NEW d \in Digests PROVE Search(d)' = Search(d)
  <2>1. Finds(I, d) /\ Finds(I, d)'
    BY DEF View
  <2> QED  BY <1>1, <2>1 DEF Finds
<1> QED  BY <1>2 DEF Table

\* Who has a reference to h.
LEMMA HaversAre ==
  ASSUME NEW h \in Heads
  PROVE  Havers(h) = {t \in Threads : HeldBy(t) = h} /\ Havers(h)' = {t \in Threads : HeldBy(t)' = h}
  BY Consts DEF Havers, HeldBy

Calm(I) ==
  /\ \A g \in I : digest'[g] = digest[g]
  /\ \A t \in Threads : HeldBy(t)' = HeldBy(t)

\* A step that changes neither table nor holders stutters.
LEMMA CalmMaps ==
  ASSUME NEW I, View(I), View(I)', Calm(I)
  PROVE  UNCHANGED Abstract!vars
<1>1. Table' = Table
  BY SameTable DEF Calm
<1>2. HeldAll' = HeldAll
  BY DEF HeldAll, Calm
<1>3. ASSUME NEW h \in Heads PROVE Havers(h)' = Havers(h)
  BY HaversAre DEF Calm
<1>4. Refs' = Refs
  BY <1>3 DEF Refs
<1> QED  BY <1>1, <1>2, <1>4 DEF Abstract!vars, Table, Refs, Havers, HeldAll, HeldBy

\* Thread t gets h.
LEMMA GetsRefs ==
  ASSUME NEW t \in Threads, NEW h \in Heads, HeldBy(t) = None, HeldBy(t)' = h,
         \A u \in Threads : u # t => HeldBy(u)' = HeldBy(u)
  PROVE  Refs' = [Refs EXCEPT ![h] = @ + 1] /\ HeldAll' = [HeldAll EXCEPT ![t] = h]
<1>1. ASSUME NEW g \in Heads
      PROVE  Cardinality(Havers(g)') = IF g = h THEN Cardinality(Havers(g)) + 1 ELSE Cardinality(Havers(g))
  <2>1. PICK A, B : A = Havers(g) /\ B = Havers(g)'
    OBVIOUS
  <2>2. A = {u \in Threads : HeldBy(u) = g} /\ B = {u \in Threads : HeldBy(u)' = g}
    BY <2>1, HaversAre
  <2>3. CASE g = h
    <3>1. A \in SUBSET Threads /\ t \notin A /\ B = A \cup {t}
      BY <2>2, <2>3, Consts
    <3>2. Cardinality(B) = Cardinality(A) + 1
      BY <3>1, OwnersAdd
    <3> QED  BY <2>1, <2>3, <3>2
  <2>4. CASE g # h
    <3>1. A = B
      BY <2>2, <2>4, Consts
    <3> QED  BY <2>1, <2>4, <3>1
  <2> QED  BY <2>3, <2>4
<1>2. Refs' = [Refs EXCEPT ![h] = @ + 1]
  BY <1>1 DEF Refs
<1>3. HeldAll' = [HeldAll EXCEPT ![t] = h]
  BY DEF HeldAll
<1> QED  BY <1>2, <1>3

\* Thread t gives h up.
LEMMA GivesRefs ==
  ASSUME NEW t \in Threads, NEW h \in Heads, HeldBy(t) = h, HeldBy(t)' = None,
         \A u \in Threads : u # t => HeldBy(u)' = HeldBy(u)
  PROVE  Refs' = [Refs EXCEPT ![h] = @ - 1] /\ HeldAll' = [HeldAll EXCEPT ![t] = None]
<1>1. ASSUME NEW g \in Heads
      PROVE  Cardinality(Havers(g)') = IF g = h THEN Cardinality(Havers(g)) - 1 ELSE Cardinality(Havers(g))
  <2>1. PICK A, B : A = Havers(g) /\ B = Havers(g)'
    OBVIOUS
  <2>2. A = {u \in Threads : HeldBy(u) = g} /\ B = {u \in Threads : HeldBy(u)' = g}
    BY <2>1, HaversAre
  <2>3. CASE g = h
    <3>1. A \in SUBSET Threads /\ t \in A /\ B = A \ {t}
      BY <2>2, <2>3, Consts
    <3>2. Cardinality(B) = Cardinality(A) - 1
      BY <3>1, OwnersDrop
    <3> QED  BY <2>1, <2>3, <3>2
  <2>4. CASE g # h
    <3>1. A = B
      BY <2>2, <2>4, Consts
    <3> QED  BY <2>1, <2>4, <3>1
  <2> QED  BY <2>3, <2>4
<1>2. Refs' = [Refs EXCEPT ![h] = @ - 1]
  BY <1>1 DEF Refs
<1>3. HeldAll' = [HeldAll EXCEPT ![t] = None]
  BY DEF HeldAll
<1> QED  BY <1>2, <1>3

\* Thread t gets h, the objhead of d: one of the tree, or a new one.
LEMMA LookupMaps ==
  ASSUME NEW I, NEW J, View(I), View(J)', NEW t \in Threads, NEW h \in Heads, NEW d \in Digests,
         J = I \cup {h}, digest[h] = d, \A g \in J : digest'[g] = digest[g],
         h \notin I => \A g \in I : digest[g] # d,
         HeldBy(t) = None, HeldBy(t)' = h, \A u \in Threads : u # t => HeldBy(u)' = HeldBy(u)
  PROVE  Abstract!Lookup(t, d)
<1>1. None \notin I /\ None \notin J /\ h # None /\ I \subseteq Heads
  BY Consts DEF View
<1>2. \A e \in Digests : Finds(I, e) /\ Finds(J, e)'
  BY DEF View
<1>3. ASSUME NEW e \in Digests PROVE Search(e)' = IF e = d THEN h ELSE Search(e)
  <2>1. Finds(I, e) /\ Finds(J, e)'
    BY <1>2
  <2>2. CASE e = d
    BY <1>1, <2>1, <2>2 DEF Finds
  <2>3. CASE e # d
    BY <1>1, <2>1, <2>3 DEF Finds
  <2> QED  BY <2>2, <2>3
<1>4. Table' = [Table EXCEPT ![d] = h]
  BY <1>3 DEF Table
<1>5. Refs' = [Refs EXCEPT ![h] = @ + 1] /\ HeldAll' = [HeldAll EXCEPT ![t] = h]
  BY GetsRefs
<1>6. Finds(I, d) /\ \A e \in Digests : Search(e) \in I \cup {None}
  BY <1>2 DEF Finds
<1>7. h \in Abstract!Found(d)
  <2>1. CASE h \in I
    <3>1. Table[d] = h
      BY <1>1, <1>6, <2>1 DEF Finds, Table
    <3> QED  BY <1>1, <3>1 DEF Abstract!Found, Abstract!None, None, Table
  <2>2. CASE h \notin I
    <3>1. Table[d] = None
      BY <1>6, <2>2 DEF Finds, Table
    <3>2. h \notin {Table[e] : e \in Digests}
      BY <1>1, <1>6, <2>2 DEF Table
    <3>3. Refs[h] = 0
      <4>1. \A u \in Threads : HeldBy(u) # h
        BY <1>1, <2>2 DEF View
      <4>2. Havers(h) = {}
        BY <4>1, HaversAre
      <4> QED  BY <4>2, FS_EmptySet DEF Refs
    <3> QED  BY <3>1, <3>2, <3>3 DEF Abstract!Found, Abstract!None, None, Table, Refs, Havers
  <2> QED  BY <2>1, <2>2
<1>8. HeldAll[t] = None
  BY DEF HeldAll
<1> QED  BY <1>4, <1>5, <1>7, <1>8
         DEF Abstract!Lookup, Abstract!None, None, Table, Refs, Havers, HeldAll, HeldBy

\* Thread t gives h up, with the last reference it leaves the tree.
LEMMA DerefMaps ==
  ASSUME NEW I, NEW J, View(I), View(J)', NEW t \in Threads, NEW h \in I,
         J = IF ref[h] = 1 THEN I \ {h} ELSE I, \A g \in I : digest'[g] = digest[g],
         HeldBy(t) = h, HeldBy(t)' = None, \A u \in Threads : u # t => HeldBy(u)' = HeldBy(u)
  PROVE  Abstract!Deref(t)
<1>1. None \notin I /\ None \notin J /\ h # None /\ h \in Heads /\ Refs[h] = ref[h]
  BY Consts DEF View
<1>2. \A e \in Digests : Finds(I, e) /\ Finds(J, e)'
  BY DEF View
<1>3. ASSUME NEW e \in Digests
      PROVE  Search(e)' = IF Search(e) = h /\ Refs[h] = 1 THEN None ELSE Search(e)
  <2>1. Finds(I, e) /\ Finds(J, e)'
    BY <1>2
  <2>2. CASE ref[h] = 1
    <3>1. J = I \ {h}
      BY <2>2
    <3>2. CASE Search(e) = h
      BY <1>1, <2>1, <2>2, <3>1, <3>2 DEF Finds
    <3>3. CASE Search(e) # h
      BY <1>1, <2>1, <3>1, <3>3 DEF Finds
    <3> QED  BY <3>2, <3>3
  <2>3. CASE ref[h] # 1
    <3>1. J = I
      BY <2>3
    <3> QED  BY <1>1, <2>1, <2>3, <3>1 DEF Finds
  <2> QED  BY <2>2, <2>3
<1>4. Table' = [e \in Digests |-> IF Table[e] = h /\ Refs[h] = 1 THEN None ELSE Table[e]]
  BY <1>3 DEF Table
<1>5. Refs' = [Refs EXCEPT ![h] = @ - 1] /\ HeldAll' = [HeldAll EXCEPT ![t] = None]
  BY <1>1, GivesRefs
<1>6. HeldAll[t] = h
  BY DEF HeldAll
<1> QED  BY <1>1, <1>4, <1>5, <1>6
         DEF Abstract!Deref, Abstract!None, None, Table, Refs, Havers, HeldAll, HeldBy

\* A step that moves thread t from one place without a reference to another.
LEMMA Aside ==
  ASSUME NEW t \in Threads, ~ Holds(t), ~ Holds(t)',
         \A u \in Threads : u # t => pc'[u] = pc[u] /\ oh'[u] = oh[u]
  PROVE  \A u \in Threads : HeldBy(u)' = HeldBy(u)
  BY DEF HeldBy, Holds

\* The steps that do not change the table.
LEMMA SearchCalm ==
  ASSUME NEW I, NEW Ys, NEW U, Good(I, Ys, U), NEW t \in Threads,
         LookupStart(t) \/ Walk(t) \/ Compare(t) \/ LockedFind(t)
  PROVE  Calm(I)
<1>1. /\ pc \in [Threads -> Places] /\ oh \in [Threads -> Heads \cup {None}] /\ I \subseteq mem
      /\ digest \in [Heads -> Full \cup {<<>>}] /\ I \subseteq Heads /\ Spare(I)
  BY DEF Good, Types, Kept
<1>2. CASE LookupStart(t)
  <2>1. PICK d \in Digests, h \in IF noh[t] # None THEN {noh[t]} ELSE Heads \ mem :
          /\ pc[t] = "idle" /\ digest' = [digest EXCEPT ![h] = d]
          /\ pc' = [pc EXCEPT ![t] = IF origo = Null THEN "lock" ELSE "walk"] /\ oh' = oh
    BY <1>2 DEF LookupStart, Goto
  <2>2. h \notin I
    <3>1. CASE noh[t] # None
      BY <1>1, <2>1, <3>1 DEF Spare
    <3>2. CASE noh[t] = None
      BY <1>1, <2>1, <3>2
    <3> QED  BY <3>1, <3>2
  <2>3. \A g \in I : digest'[g] = digest[g]
    BY <1>1, <2>1, <2>2
  <2>4. pc'[t] \in {"lock", "walk"} /\ \A u \in Threads : u # t => pc'[u] = pc[u] /\ oh'[u] = oh[u]
    BY <1>1, <2>1
  <2>5. ~ Holds(t) /\ ~ Holds(t)'
    BY <2>1, <2>4 DEF Holds
  <2> QED  BY <2>3, <2>4, <2>5, Aside DEF Calm
<1>3. CASE Walk(t)
  BY <1>3 DEF Walk, treeVars, Calm, HeldBy, Holds
<1>4. CASE Compare(t)
  <2>1. /\ pc[t] = "walk" /\ UNCHANGED digest
        /\ pc' = [pc EXCEPT ![t] = "match"] \/ pc' = [pc EXCEPT ![t] = "lock"]
        /\ oh' = oh \/ \E g : oh' = [oh EXCEPT ![t] = g]
    BY <1>4 DEF Compare, Goto, treeVars
  <2>2. pc'[t] \in {"lock", "match"} /\ \A u \in Threads : u # t => pc'[u] = pc[u] /\ oh'[u] = oh[u]
    BY <1>1, <2>1
  <2>3. ~ Holds(t) /\ ~ Holds(t)'
    BY <2>1, <2>2 DEF Holds
  <2> QED  BY <2>1, <2>2, <2>3, Aside DEF Calm
<1>5. CASE LockedFind(t)
  <2>1. /\ pc[t] = "lock" /\ UNCHANGED digest /\ pc' = [pc EXCEPT ![t] = "locked"]
        /\ \E g : oh' = [oh EXCEPT ![t] = g]
    BY <1>5 DEF LockedFind, Goto, treeVars
  <2>2. pc'[t] = "locked" /\ \A u \in Threads : u # t => pc'[u] = pc[u] /\ oh'[u] = oh[u]
    BY <1>1, <2>1
  <2>3. ~ Holds(t) /\ ~ Holds(t)'
    BY <2>1, <2>2 DEF Holds
  <2> QED  BY <2>1, <2>2, <2>3, Aside DEF Calm
<1> QED  BY <1>2, <1>3, <1>4, <1>5

\* What hcb_deref does after its store changes nothing of the table.
LEMMA DeleteCalm ==
  ASSUME NEW I, NEW Ys, NEW U, Good(I, Ys, U), NEW t \in Threads,
         (\E s \in 0 .. 1 : DeleteClear(t, s)) \/ DerefCool(t) \/ DerefUnref(t)
  PROVE  Calm(I)
<1>1. /\ pc \in [Threads -> Places] /\ oh \in [Threads -> Heads \cup {None}] /\ I \subseteq Heads
      /\ digest \in [Heads -> Full \cup {<<>>}] /\ Kept(I, Ys)
  BY DEF Good, Types, Kept
<1>2. CASE \E s \in 0 .. 1 : DeleteClear(t, s)
  <2>1. /\ pc[t] \in {"clear0", "clear1"} /\ UNCHANGED <<digest, oh>>
        /\ pc' = [pc EXCEPT ![t] = "clear1"] \/ pc' = [pc EXCEPT ![t] = "cool"]
    BY <1>2 DEF DeleteClear, Goto
  <2>2. pc'[t] \in {"clear1", "cool"} /\ \A u \in Threads : u # t => pc'[u] = pc[u] /\ oh'[u] = oh[u]
    BY <1>1, <2>1
  <2>3. ~ Holds(t) /\ ~ Holds(t)'
    BY <2>1, <2>2 DEF Holds
  <2> QED  BY <2>1, <2>2, <2>3, Aside DEF Calm
<1>3. CASE DerefCool(t)
  <2>1. PICK h : h = oh[t]
    OBVIOUS
  <2>2. pc[t] = "cool" /\ digest' = [digest EXCEPT ![h][1] = 0] /\ pc' = [pc EXCEPT ![t] = "unref"] /\ oh' = oh
    BY <1>3, <2>1 DEF DerefCool, Goto
  <2>3. h \in Going
    BY <2>1, <2>2 DEF Going, Unlinked
  <2>4. \A g \in I : digest'[g] = digest[g]
    <3>1. h \notin I
      BY <1>1, <2>3 DEF Kept
    <3> QED  BY <1>1, <2>2, <3>1
  <2>5. pc'[t] = "unref" /\ \A u \in Threads : u # t => pc'[u] = pc[u] /\ oh'[u] = oh[u]
    BY <1>1, <2>2
  <2>6. ~ Holds(t) /\ ~ Holds(t)'
    BY <2>2, <2>5 DEF Holds
  <2> QED  BY <2>4, <2>5, <2>6, Aside DEF Calm
<1>4. CASE DerefUnref(t)
  <2>1. /\ pc[t] = "unref" /\ UNCHANGED digest /\ pc' = [pc EXCEPT ![t] = "idle"]
        /\ oh' = [oh EXCEPT ![t] = None]
    BY <1>4 DEF DerefUnref, Goto, treeVars
  <2>2. pc'[t] = "idle" /\ \A u \in Threads : u # t => pc'[u] = pc[u] /\ oh'[u] = oh[u]
    BY <1>1, <2>1
  <2>3. ~ Holds(t) /\ ~ Holds(t)'
    BY <2>1, <2>2 DEF Holds
  <2> QED  BY <2>1, <2>2, <2>3, Aside DEF Calm
<1> QED  BY <1>2, <1>3, <1>4

\* The cleaner changes nothing of the table.
LEMMA CleanerCalm ==
  ASSUME NEW I, NEW Ys, NEW U, Good(I, Ys, U), Cleaner
  PROVE  Calm(I)
<1>1. I \subseteq Heads /\ (\A g \in I : g \notin laylow)
  BY DEF Good, Types, Kept
<1>2. /\ digest' = [h \in Heads |-> IF h \in {g \in laylow : Cleared(g)}
                                    THEN [digest[h] EXCEPT ![1] = @ + 1] ELSE digest[h]]
      /\ UNCHANGED <<pc, oh>>
  BY DEF Cleaner
<1>3. \A g \in I : digest'[g] = digest[g]
  BY <1>1, <1>2
<1> QED  BY <1>2, <1>3 DEF Calm, HeldBy, Holds

\* hcb_lookup finds an objhead.
LEMMA RefMaps ==
  ASSUME NEW I, NEW Ys, NEW U, Good(I, Ys, U), Good(I, Ys, U)', NEW t \in Threads,
         TryRef(t) \/ LockedRef(t)
  PROVE  Calm(I) \/ \E d \in Digests : Abstract!Lookup(t, d)
<1>1. /\ pc \in [Threads -> Places] /\ oh \in [Threads -> Heads \cup {None}] /\ I \subseteq Heads
      /\ Users(I) /\ Spare(I) /\ View(I) /\ View(I)'
  BY GoodView, GoodViewNext DEF Good, Types, Kept
<1>2. PICK h : h = oh[t]
  OBVIOUS
<1>3. pc[t] \in {"match", "locked"} /\ ohMtx[h] = None /\ digest' = digest
  BY <1>2 DEF TryRef, LockedRef, treeVars
<1>4. \/ pc' = [pc EXCEPT ![t] = "held"] /\ oh' = oh /\ (ref[h] > 0 \/ pc[t] = "locked")
      \/ pc' = [pc EXCEPT ![t] = "lock"] /\ oh' = [oh EXCEPT ![t] = None]
  BY <1>2 DEF TryRef, LockedRef, Goto
<1>5. CASE pc' = [pc EXCEPT ![t] = "held"] /\ oh' = oh /\ (ref[h] > 0 \/ pc[t] = "locked")
  <2>1. h \in I
    <3>1. CASE pc[t] = "locked"
      BY <1>1, <1>2, <3>1 DEF Users
    <3>2. CASE pc[t] # "locked"
      <4>1. Safe(t, h, I) /\ ref[h] > 0
        BY <1>1, <1>2, <1>3, <1>5, <3>2 DEF Users
      <4> QED  BY <1>3, <4>1, AliveInTree
    <3> QED  BY <3>1, <3>2
  <2>2. PICK d : d = digest[noh[t]]
    OBVIOUS
  <2>3. digest[h] = d
    BY <1>1, <1>2, <1>3, <2>1, <2>2 DEF Users
  <2>4. d \in Digests
    BY <1>1, <1>3, <2>2 DEF Spare, Needing
  <2>5. /\ HeldBy(t) = None /\ HeldBy(t)' = h
        /\ \A u \in Threads : u # t => HeldBy(u)' = HeldBy(u)
    <3>1. pc'[t] = "held" /\ \A u \in Threads : u # t => pc'[u] = pc[u]
      BY <1>1, <1>5
    <3> QED  BY <1>2, <1>3, <1>5, <3>1 DEF HeldBy, Holds
  <2>6. I = I \cup {h} /\ h \in Heads /\ \A g \in I : digest'[g] = digest[g]
    BY <1>1, <1>3, <2>1
  <2>7. Abstract!Lookup(t, d)
    BY <1>1, <2>1, <2>3, <2>4, <2>5, <2>6, LookupMaps
  <2> QED  BY <2>4, <2>7
<1>6. CASE pc' = [pc EXCEPT ![t] = "lock"] /\ oh' = [oh EXCEPT ![t] = None]
  <2>1. pc'[t] = "lock" /\ \A u \in Threads : u # t => pc'[u] = pc[u] /\ oh'[u] = oh[u]
    BY <1>1, <1>6
  <2>2. ~ Holds(t) /\ ~ Holds(t)'
    BY <1>3, <2>1 DEF Holds
  <2> QED  BY <1>3, <2>1, <2>2, Aside DEF Calm
<1> QED  BY <1>4, <1>5, <1>6

\* hcb_lookup enters an objhead.
LEMMA InsertMaps ==
  ASSUME NEW I, NEW Ys, NEW U, Good(I, Ys, U), NEW t \in Threads, LockedInsert(t)
  PROVE  \E d \in Digests : Abstract!Lookup(t, d)
<1>1. /\ pc \in [Threads -> Places] /\ oh \in [Threads -> Heads \cup {None}] /\ I \subseteq Heads
      /\ Spare(I) /\ View(I)
  BY GoodView DEF Good, Types, Kept
<1>2. PICK h : h = noh[t]
  OBVIOUS
<1>3. (\E Zs, V : Good(I \cup {h}, Zs, V)') /\ h \in Heads /\ h \notin I /\ (\A g \in I : digest[g] # digest[h])
  BY <1>2, LockedInsertStep
<1>4. View(I \cup {h})'
  BY <1>3, GoodViewNext
<1>5. /\ pc[t] = "lock" /\ oh' = [oh EXCEPT ![t] = h] /\ pc' = [pc EXCEPT ![t] = "held"] /\ digest' = digest
  BY <1>2 DEF LockedInsert, Goto
<1>6. PICK d : d = digest[h]
  OBVIOUS
<1>7. d \in Digests
  BY <1>1, <1>2, <1>5, <1>6 DEF Spare, Needing
<1>8. /\ HeldBy(t) = None /\ HeldBy(t)' = h
      /\ \A u \in Threads : u # t => HeldBy(u)' = HeldBy(u)
  <2>1. /\ pc'[t] = "held" /\ oh'[t] = h
        /\ \A u \in Threads : u # t => pc'[u] = pc[u] /\ oh'[u] = oh[u]
    BY <1>1, <1>5
  <2> QED  BY <1>5, <2>1 DEF HeldBy, Holds
<1>9. PICK J : J = I \cup {h}
  OBVIOUS
<1>10. View(J)' /\ digest[h] = d /\ (\A g \in J : digest'[g] = digest[g]) /\ (\A g \in I : digest[g] # d)
  BY <1>3, <1>4, <1>5, <1>6, <1>9
<1>11. Abstract!Lookup(t, d)
  BY <1>1, <1>3, <1>7, <1>8, <1>9, <1>10, LookupMaps
<1> QED  BY <1>7, <1>11

\* hcb_deref with a reference that is not the last; with the last it only takes
\* oh->mtx.
LEMMA DerefMaps1 ==
  ASSUME NEW I, NEW Ys, NEW U, Good(I, Ys, U), Good(I, Ys, U)', NEW t \in Threads, Deref(t)
  PROVE  Calm(I) \/ Abstract!Deref(t)
<1>1. /\ pc \in [Threads -> Places] /\ oh \in [Threads -> Heads \cup {None}]
      /\ Users(I) /\ View(I) /\ View(I)'
  BY GoodView, GoodViewNext DEF Good, Types
<1>2. PICK h : h = oh[t]
  OBVIOUS
<1>3. pc[t] = "held" /\ digest' = digest
  BY <1>2 DEF Deref, treeVars
<1>4. IF ref[h] = 1 THEN pc' = [pc EXCEPT ![t] = "delete"] /\ oh' = oh
      ELSE pc' = [pc EXCEPT ![t] = "idle"] /\ oh' = [oh EXCEPT ![t] = None]
  BY <1>2 DEF Deref, Goto
<1>5. CASE ref[h] = 1
  <2>1. oh' = oh /\ pc'[t] = "delete" /\ \A u \in Threads : u # t => pc'[u] = pc[u]
    BY <1>1, <1>4, <1>5
  <2>2. \A u \in Threads : HeldBy(u)' = HeldBy(u)
    BY <1>3, <2>1 DEF HeldBy, Holds
  <2> QED  BY <1>3, <2>2 DEF Calm
<1>6. CASE ref[h] # 1
  <2>1. h \in I
    BY <1>1, <1>2, <1>3 DEF Users
  <2>2. pc'[t] = "idle" /\ \A u \in Threads : u # t => pc'[u] = pc[u] /\ oh'[u] = oh[u]
    BY <1>1, <1>4, <1>6
  <2>3. /\ HeldBy(t) = h /\ HeldBy(t)' = None
        /\ \A u \in Threads : u # t => HeldBy(u)' = HeldBy(u)
    BY <1>2, <1>3, <2>2 DEF HeldBy, Holds
  <2>4. I = (IF ref[h] = 1 THEN I \ {h} ELSE I) /\ \A g \in I : digest'[g] = digest[g]
    BY <1>3, <1>6
  <2>5. Abstract!Deref(t)
    BY <1>1, <2>1, <2>3, <2>4, DerefMaps
  <2> QED  BY <2>5
<1> QED  BY <1>5, <1>6

\* hcb_delete of the objhead with the last reference.
LEMMA DeleteMaps ==
  ASSUME NEW I, NEW Ys, NEW U, Good(I, Ys, U), NEW t \in Threads, DeleteUnlink(t)
  PROVE  Abstract!Deref(t)
<1>1. /\ pc \in [Threads -> Places] /\ oh \in [Threads -> Heads \cup {None}]
      /\ Locks /\ View(I)
  BY GoodView DEF Good, Types
<1>2. PICK h : h = oh[t]
  OBVIOUS
<1>3. h \in I /\ \E Zs, V : Good(I \ {h}, Zs, V)'
  BY <1>2, DeleteUnlinkStep
<1>4. View(I \ {h})'
  BY <1>3, GoodViewNext
<1>5. /\ pc[t] = "delete" /\ UNCHANGED <<digest, oh>>
      /\ pc' = [pc EXCEPT ![t] = "cool"] \/ pc' = [pc EXCEPT ![t] = "clear0"]
  BY DEF DeleteUnlink, Goto
<1>6. ref[h] = 1
  BY <1>1, <1>2, <1>5 DEF Locks, Last1
<1>7. pc'[t] \in {"cool", "clear0"} /\ \A u \in Threads : u # t => pc'[u] = pc[u]
  BY <1>1, <1>5
<1>8. /\ HeldBy(t) = h /\ HeldBy(t)' = None
      /\ \A u \in Threads : u # t => HeldBy(u)' = HeldBy(u)
  BY <1>2, <1>5, <1>7 DEF HeldBy, Holds
<1>9. PICK J : J = I \ {h}
  OBVIOUS
<1>10. View(J)' /\ J = (IF ref[h] = 1 THEN I \ {h} ELSE I) /\ \A g \in I : digest'[g] = digest[g]
  BY <1>4, <1>5, <1>6, <1>9
<1> QED  BY <1>1, <1>3, <1>8, <1>10, DerefMaps

\* Every step of the tree is one of the abstract table or none.
LEMMA CritbitRefines ==
  ASSUME IInv, [Next]_vars
  PROVE  [Abstract!Next]_(Abstract!vars)
<1>1. PICK I, Ys, U : Good(I, Ys, U)
  BY DEF IInv
<1>2. View(I)
  BY <1>1, GoodView
<1>3. ASSUME Good(I, Ys, U)', Calm(I) PROVE UNCHANGED Abstract!vars
  BY <1>2, <1>3, GoodViewNext, CalmMaps
<1>4. CASE UNCHANGED vars
  <2>1. Calm(I)
    BY <1>4 DEF vars, treeVars, threadVars, Calm, HeldBy, Holds
  <2> QED  BY <1>1, <1>3, <1>4, <2>1, IdleStep
<1>5. CASE Next
  <2>1. CASE Cleaner
    BY <1>1, <1>3, <2>1, CleanerStep, CleanerCalm
  <2>2. ASSUME NEW t \in Threads, Steady(t) PROVE [Abstract!Next]_(Abstract!vars)
    <3>1. Good(I, Ys, U)'
      BY <1>1, <1>5, <2>2, NextCases, SteadyStep
    <3>2. \/ Calm(I) \/ Abstract!Deref(t)
          \/ \E d \in Digests : Abstract!Lookup(t, d)
      <4>1. CASE LookupStart(t) \/ Walk(t) \/ Compare(t) \/ LockedFind(t)
        BY <1>1, <4>1, SearchCalm
      <4>2. CASE TryRef(t) \/ LockedRef(t)
        BY <1>1, <3>1, <4>2, RefMaps
      <4>3. CASE Deref(t)
        BY <1>1, <3>1, <4>3, DerefMaps1
      <4>4. CASE (\E s \in 0 .. 1 : DeleteClear(t, s)) \/ DerefCool(t) \/ DerefUnref(t)
        BY <1>1, <4>4, DeleteCalm
      <4> QED  BY <2>2, <4>1, <4>2, <4>3, <4>4 DEF Steady
    <3> QED  BY <1>3, <3>1, <3>2 DEF Abstract!Next
  <2>3. ASSUME NEW t \in Threads, LockedInsert(t) PROVE [Abstract!Next]_(Abstract!vars)
    BY <1>1, <2>3, InsertMaps DEF Abstract!Next
  <2>4. ASSUME NEW t \in Threads, DeleteUnlink(t) PROVE [Abstract!Next]_(Abstract!vars)
    BY <1>1, <2>4, DeleteMaps DEF Abstract!Next
  <2> QED  BY <1>5, <2>1, <2>2, <2>3, <2>4, NextCases
<1> QED  BY <1>4, <1>5

\* The empty tree is the empty table.
LEMMA CritbitInit ==
  ASSUME Init
  PROVE  Abstract!Init
<1>1. \A t \in Threads : HeldBy(t) = None
  BY DEF Init, HeldBy, Holds
<1>2. PICK I, Ys, U : Good(I, Ys, U)
  BY InitGood DEF IInv
<1>3. View(I) /\ mem = {} /\ I \subseteq mem
  BY <1>2, GoodView DEF Init, Good, Kept
<1>4. \A d \in Digests : Search(d) = None
  BY <1>3 DEF View, Finds
<1>5. Table = [d \in Digests |-> None]
  BY <1>4 DEF Table
<1>6. \A h \in Heads : Havers(h) = {}
  BY <1>1, HaversAre, Consts
<1>7. Refs = [h \in Heads |-> 0]
  BY <1>6, FS_EmptySet DEF Refs
<1>8. HeldAll = [t \in Threads |-> None]
  BY <1>1 DEF HeldAll
<1> QED  BY <1>5, <1>7, <1>8 DEF Abstract!Init, Abstract!None, None, Table, Refs, Havers, HeldAll, HeldBy

\* For any threads, objheads, digests and COOL_DURATION: the search without a
\* lock, the insertions, the deletions and the late decrement of refcnt are together
\* the atomic lookup and deref of a table from digests to objheads.
THEOREM CritbitImplementsSlinger == Spec => ImplementsSlinger
<1>1. Init => Abstract!Init
  BY CritbitInit
<1>2. IInv /\ [Next]_vars => [Abstract!Next]_(Abstract!vars)
  BY CritbitRefines
<1> QED  BY <1>1, <1>2, CritbitAlways, PTL DEF Spec, ImplementsSlinger, Abstract!Spec

-----------------------------------------------------------------------------
(* Both implementations *)

\* A step of the two implementations side by side is one of each or none.
LEMMA BothHashes == HashSpec => Spec /\ hclSpec
<1>1. HashInit => Init /\ hcl_start
  BY DEF HashInit
<1>2. [HashNext]_<<slinger, vars, listVars>> => [Next]_vars /\ [hclNext]_listVars
  BY DEF HashNext
<1> QED  BY <1>1, <1>2, PTL DEF HashSpec, Spec, hclSpec

\* For any threads, objheads, digests, buckets and COOL_DURATION, and whichever
\* implementation the manager picked: tree and lists are well-formed, counters are
\* exact, and no memory that a search of hash_critbit.c can reach is freed.
THEOREM HashTheorem == HashSpec => []HashInv
<1>1. CritbitInv /\ MemorySafe /\ FoundUnderLockIsAlive /\ CritbitsGrow /\ ListsSorted => HashInv
  BY DEF HashInv
<1> QED  BY <1>1, BothHashes, CritbitTheorem, ListsTheorem, PTL

\* For any threads, objheads, digests, buckets and COOL_DURATION: to cache_hash.c
\* either implementation is a table with an atomic lookup and an atomic deref.
THEOREM SlingerTheorem == HashSpec => SlingerKept
  BY BothHashes, CritbitImplementsSlinger, ListsImplementSlinger, PTL DEF SlingerKept
=============================================================================
