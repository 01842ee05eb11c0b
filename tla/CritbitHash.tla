---------------------------- MODULE CritbitHash ----------------------------
(***************************************************************************)
(* hash_critbit.c: objheads in a crit-bit tree that is searched without a  *)
(* lock and changed under hcb_mtx.  A leaf of the tree is an objhead; an   *)
(* inner node ("y") lives inside the objhead whose insertion made it, and  *)
(* may stay in the tree after that objhead has left it.  Deleted objheads  *)
(* lie low until hcb_cleaner frees their memory.                           *)
(*                                                                         *)
(* One action reads or writes one word of the tree, or is a critical       *)
(* section nobody can look into.  Memory is sequentially consistent.  The  *)
(* y->ptr and y->bitmask of a node follow from its critbit and are not     *)
(* kept; a byte has ByteBits bits.                                         *)
(***************************************************************************)
EXTENDS HashUsers, FiniteSetsExt

CONSTANTS
  Digests,        \* the digests looked up: sequences of bytes
  ByteBits,       \* bits in a byte
  DIGEST_LEN,     \* bytes in a digest
  COOL_DURATION,  \* cleaner rounds before the memory of an objhead is freed
  MaxLookups      \* bound: lookups of all threads together

Bytes == 0 .. 2 ^ ByteBits - 1

ASSUME HashAssumption ==
  /\ ByteBits \in Nat \ {0} /\ DIGEST_LEN \in Nat \ {0}
  /\ Digests \subseteq [1 .. DIGEST_LEN -> Bytes]
  /\ COOL_DURATION \in 0 .. 2 ^ ByteBits - 2
  /\ MaxLookups \in Nat

VARIABLES
  origo,    \* root of the tree
  leaf,     \* leaf[h][s]: the two leafs of the y inside h
  critbit,  \* its critbit
  digest,   \* oh->digest; of a deleted objhead digest[0] counts rounds
  ref,      \* oh->refcnt
  mem,      \* the objheads that are allocated
  laylow,   \* deleted objheads
  hcbMtx,   \* who holds hcb_mtx
  ohMtx,    \* who holds oh->mtx
  pc,       \* where each thread is
  left,     \* lookups that may still start
  noh,      \* its preallocated objhead (w->nobjhead)
  pp,       \* the word its search read last
  oh,       \* the objhead it found, holds or deletes
  dy,       \* the y that its deletion is clearing
  age       \* cleaner rounds since its search without the lock began

treeVars == <<origo, leaf, critbit, digest, laylow, mem>>
lockVars == <<ref, hcbMtx, ohMtx>>
threadVars == <<pc, left, noh, pp, oh, dy, age>>
vars == <<treeVars, lockVars, threadVars>>

-----------------------------------------------------------------------------
(* Tagged words: hcb_r_node, hcb_r_y, hcb_is_node, hcb_is_y. *)

Null == <<"null", None>>
Node(h) == <<"node", h>>
Y(h) == <<"y", h>>
IsNode(p) == p[1] = "node"
IsY(p) == p[1] = "y"
Words == {Null} \cup {Node(h) : h \in Heads} \cup {Y(h) : h \in Heads}

-----------------------------------------------------------------------------
(* Bits of a digest. *)

\* Bit r of byte x, the most significant being bit 0.
ByteBit(x, r) == (x \div 2 ^ (ByteBits - 1 - r)) % 2

\* What every width of a byte has: a byte is its bits.
ASSUME ByteAssumption ==
  /\ \A r \in 0 .. ByteBits : 2 ^ r > 0
  /\ \A x, y \in Bytes : x # y => \E r \in 0 .. ByteBits - 1 : ByteBit(x, r) # ByteBit(y, r)

\* hcb_bits: the first bit in which two bytes differ, ByteBits if none.
hcb_bits(x, y) ==
  Min({ByteBits} \cup {r \in 0 .. ByteBits - 1 : ByteBit(x, r) # ByteBit(y, r)})

\* hcb_crit_bit, for two different digests.
hcb_crit_bit(a, b) ==
  LET u == Min({i \in DOMAIN a : a[i] # b[i]})
  IN  (u - 1) * ByteBits + hcb_bits(a[u], b[u])

\* (digest[y->ptr] & y->bitmask) != 0
Side(d, bit) == ByteBit(d[bit \div ByteBits + 1], bit % ByteBits)

-----------------------------------------------------------------------------
(* The tree as somebody with hcb_mtx sees it. *)

\* The words read on the way down for digest d; the last one repeats.
Path(d) ==
  LET path[i \in 0 .. Cardinality(Heads)] ==
        IF i = 0 THEN origo
        ELSE LET up == path[i - 1]
             IN  IF IsY(up) THEN leaf[up[2]][Side(d, critbit[up[2]])] ELSE up
  IN  path

Foot(d) == Path(d)[Cardinality(Heads)]

\* *p = w, where p is the place the i-th word of the path was read from.
Store(d, i, w) ==
  IF i = 0 THEN origo' = w /\ UNCHANGED leaf
  ELSE LET y == Path(d)[i - 1][2]
       IN  /\ leaf' = [leaf EXCEPT ![y][Side(d, critbit[y])] = w]
           /\ UNCHANGED origo

\* The objhead the tree has for digest d, or None.
Search(d) == LET end == Foot(d)
             IN  IF IsNode(end) /\ digest[end[2]] = d THEN end[2] ELSE None

-----------------------------------------------------------------------------
Init ==
  /\ origo = Null
  /\ leaf = [h \in Heads |-> [s \in 0 .. 1 |-> Null]]
  /\ critbit = [h \in Heads |-> 0]
  /\ digest = [h \in Heads |-> <<>>]
  /\ ref = [h \in Heads |-> 0]
  /\ mem = {}
  /\ laylow = {}
  /\ hcbMtx = None
  /\ ohMtx = [h \in Heads |-> None]
  /\ pc = [t \in Threads |-> "idle"]
  /\ left = MaxLookups
  /\ noh = [t \in Threads |-> None]
  /\ pp = [t \in Threads |-> Null]
  /\ oh = [t \in Threads |-> None]
  /\ dy = [t \in Threads |-> None]
  /\ age = [t \in Threads |-> 0]

Goto(t, to) == pc' = [pc EXCEPT ![t] = to]

\* HSH_Prealloc and the start of hcb_lookup: read the root.  An empty tree is
\* searched again with the lock.
LookupStart(t) ==
  \E d \in Digests, h \in IF noh[t] # None THEN {noh[t]} ELSE Heads \ mem :
    /\ pc[t] = "idle" /\ left > 0
    /\ left' = left - 1
    /\ noh' = [noh EXCEPT ![t] = h]
    /\ mem' = mem \cup {h}
    /\ ref' = [ref EXCEPT ![h] = 1]
    /\ leaf' = [leaf EXCEPT ![h] = [s \in 0 .. 1 |-> Null]]
    /\ digest' = [digest EXCEPT ![h] = d]
    /\ pp' = [pp EXCEPT ![t] = origo]
    /\ age' = [age EXCEPT ![t] = 0]
    /\ Goto(t, IF origo = Null THEN "lock" ELSE "walk")
    /\ UNCHANGED <<origo, critbit, laylow, hcbMtx, ohMtx, oh, dy>>

\* hcb_insert without the lock, one y further down.
Walk(t) ==
  LET y == pp[t][2]
  IN  /\ pc[t] = "walk" /\ IsY(pp[t])
      /\ pp' = [pp EXCEPT ![t] = leaf[y][Side(digest[noh[t]], critbit[y])]]
      /\ UNCHANGED <<treeVars, lockVars, pc, left, noh, oh, dy, age>>

\* ... and at a node: does it match?
Compare(t) ==
  LET h == pp[t][2]
  IN  /\ pc[t] = "walk" /\ IsNode(pp[t])
      /\ IF digest[h] = digest[noh[t]]
         THEN oh' = [oh EXCEPT ![t] = h] /\ Goto(t, "match")
         ELSE UNCHANGED oh /\ Goto(t, "lock")
      /\ UNCHANGED <<treeVars, lockVars, left, noh, pp, dy, age>>

\* Mutated form: an objhead found without the lock is taken as it is.
TryRef_blind(t) ==
  LET h == oh[t]
  IN  /\ pc[t] = "match" /\ ohMtx[h] = None
      /\ ref' = [ref EXCEPT ![h] = @ + 1]
      /\ Goto(t, "held")
      /\ UNCHANGED <<treeVars, hcbMtx, ohMtx, left, noh, pp, oh, dy, age>>

\* hcb_lookup with oh->mtx: take a reference unless there is none left.
TryRef(t) ==
  LET h == oh[t]
  IN  /\ pc[t] = "match" /\ ohMtx[h] = None
      /\ IF ref[h] > 0
         THEN /\ ref' = [ref EXCEPT ![h] = @ + 1]
              /\ Goto(t, "held")
              /\ UNCHANGED oh
         ELSE /\ Goto(t, "lock")
              /\ oh' = [oh EXCEPT ![t] = None]
              /\ UNCHANGED ref
      /\ UNCHANGED <<treeVars, hcbMtx, ohMtx, left, noh, pp, dy, age>>

\* How far down the path the new y goes: above the first word that is no y or
\* whose critbit is greater.
Place(d, bit) ==
  Min({i \in 0 .. Cardinality(Heads) :
         ~ IsY(Path(d)[i]) \/ critbit[Path(d)[i][2]] > bit})

\* hcb_lookup with hcb_mtx, nothing found: hcb_insert puts our objhead in.
LockedInsert(t) ==
  LET h == noh[t]
      d == digest[h]
      end == Foot(d)
      bit == hcb_crit_bit(d, digest[end[2]])
      s == Side(d, bit)
  IN  /\ pc[t] = "lock" /\ hcbMtx = None /\ Search(d) = None
      /\ IF origo = Null
         THEN origo' = Node(h) /\ UNCHANGED <<leaf, critbit>>
         ELSE \* The y is complete before the one store that publishes it.
              /\ critbit' = [critbit EXCEPT ![h] = bit]
              /\ LET below == Path(d)[Place(d, bit)]
                     y == [[q \in 0 .. 1 |-> below] EXCEPT ![s] = Node(h)]
                     above == Path(d)[Place(d, bit) - 1][2]
                 IN  IF Place(d, bit) = 0
                     THEN origo' = Y(h) /\ leaf' = [leaf EXCEPT ![h] = y]
                     ELSE /\ leaf' = [leaf EXCEPT ![h] = y,
                                        ![above][Side(d, critbit[above])] = Y(h)]
                          /\ UNCHANGED origo
      /\ oh' = [oh EXCEPT ![t] = h]
      /\ noh' = [noh EXCEPT ![t] = None]
      /\ Goto(t, "held")
      /\ UNCHANGED <<digest, laylow, mem, lockVars, left, pp, dy, age>>

\* hcb_lookup with hcb_mtx, somebody beat us to it: now we want oh->mtx too.
LockedFind(t) ==
  LET h == Search(digest[noh[t]])
  IN  /\ pc[t] = "lock" /\ hcbMtx = None /\ h # None
      /\ hcbMtx' = t
      /\ oh' = [oh EXCEPT ![t] = h]
      /\ Goto(t, "locked")
      /\ UNCHANGED <<treeVars, ref, ohMtx, left, noh, pp, dy, age>>

LockedRef(t) ==
  LET h == oh[t]
  IN  /\ pc[t] = "locked" /\ ohMtx[h] = None
      /\ ref' = [ref EXCEPT ![h] = @ + 1]
      /\ hcbMtx' = None
      /\ Goto(t, "held")
      /\ UNCHANGED <<treeVars, ohMtx, left, noh, pp, oh, dy, age>>

-----------------------------------------------------------------------------
(* hcb_deref *)

\* Mutated form: the counter goes to zero before the objhead leaves the tree.
Deref_early(t) ==
  LET h == oh[t]
  IN  /\ pc[t] = "held" /\ ohMtx[h] = None
      /\ ref' = [ref EXCEPT ![h] = @ - 1]
      /\ IF ref[h] = 1
         THEN Goto(t, "delete") /\ UNCHANGED oh
         ELSE Goto(t, "idle") /\ oh' = [oh EXCEPT ![t] = None]
      /\ UNCHANGED <<treeVars, hcbMtx, ohMtx, left, noh, pp, dy, age>>

\* Not the last reference: give it up.  The last: keep oh->mtx, ask for
\* hcb_mtx.
Deref(t) ==
  LET h == oh[t]
  IN  /\ pc[t] = "held" /\ ohMtx[h] = None
      /\ IF ref[h] = 1
         THEN /\ ohMtx' = [ohMtx EXCEPT ![h] = t]
              /\ Goto(t, "delete")
              /\ UNCHANGED <<ref, oh>>
         ELSE /\ ref' = [ref EXCEPT ![h] = @ - 1]
              /\ oh' = [oh EXCEPT ![t] = None]
              /\ Goto(t, "idle")
              /\ UNCHANGED ohMtx
      /\ UNCHANGED <<treeVars, hcbMtx, left, noh, pp, dy, age>>

\* hcb_delete up to the store that takes the objhead, and the y above it, out
\* of the tree.
DeleteUnlink(t) ==
  LET h == oh[t]
      d == digest[h]
  IN  /\ pc[t] = "delete" /\ hcbMtx = None
      /\ hcbMtx' = t
      /\ IF origo = Node(h)
         THEN origo' = Null /\ Goto(t, "cool") /\ UNCHANGED <<leaf, dy>>
         ELSE LET i == Min({j \in 0 .. Cardinality(Heads) : Path(d)[j] = Node(h)}) - 1
                  y == Path(d)[i][2]
              IN  /\ Store(d, i, leaf[y][1 - Side(d, critbit[y])])
                  /\ dy' = [dy EXCEPT ![t] = y]
                  /\ Goto(t, "clear0")
      /\ UNCHANGED <<critbit, digest, laylow, mem, ref, ohMtx, left, noh, pp, oh, age>>

\* The two stores that clear the y.
DeleteClear(t, s) ==
  /\ pc[t] = IF s = 0 THEN "clear0" ELSE "clear1"
  /\ leaf' = [leaf EXCEPT ![dy[t]][s] = Null]
  /\ Goto(t, IF s = 0 THEN "clear1" ELSE "cool")
  /\ UNCHANGED <<origo, critbit, digest, laylow, mem, lockVars,
                 left, noh, pp, oh, dy, age>>

\* digest[0] = 0, onto laylow, hcb_mtx released ...
DerefCool(t) ==
  /\ pc[t] = "cool"
  /\ digest' = [digest EXCEPT ![oh[t]][1] = 0]
  /\ laylow' = laylow \cup {oh[t]}
  /\ hcbMtx' = None
  /\ dy' = [dy EXCEPT ![t] = None]
  /\ Goto(t, "unref")
  /\ UNCHANGED <<origo, leaf, critbit, mem, ref, ohMtx, left, noh, pp, oh, age>>

\* ... and only then the counter goes to zero and oh->mtx is released.
DerefUnref(t) ==
  /\ pc[t] = "unref"
  /\ ref' = [ref EXCEPT ![oh[t]] = @ - 1]
  /\ ohMtx' = [ohMtx EXCEPT ![oh[t]] = None]
  /\ oh' = [oh EXCEPT ![t] = None]
  /\ Goto(t, "idle")
  /\ UNCHANGED <<treeVars, hcbMtx, left, noh, pp, dy, age>>

-----------------------------------------------------------------------------
(* hcb_cleaner *)

\* Threads that use the tree or an objhead from it without holding a lock or
\* a reference.
Unlocked == {t \in Threads : pc[t] \in {"walk", "match"}}

\* What COOL_DURATION is for: no search is still under way when the cleaner
\* has been round that often since it began.
WalksAreShort == \A t \in Unlocked : age[t] < COOL_DURATION

\* A y that is no longer in the tree has no leafs.
Cleared(h) == \A s \in 0 .. 1 : leaf[h][s] = Null

\* AZ(oh->refcnt) for every objhead on laylow, each round.
CleanerFindsNoRefs == hcbMtx = None => \A h \in laylow : ref[h] = 0

\* One round: every laid low objhead whose y is out of the tree gets one round
\* older, and is freed when it is old enough (HSH_DeleteObjHead).
Cleaner ==
  LET colder == {h \in laylow : Cleared(h)}
      cold == {h \in colder : digest[h][1] + 1 > COOL_DURATION}
  IN  /\ hcbMtx = None
      /\ CleanerFindsNoRefs
      /\ colder # {}
      /\ WalksAreShort
      /\ digest' = [h \in Heads |-> IF h \in colder
                                    THEN [digest[h] EXCEPT ![1] = @ + 1]
                                    ELSE digest[h]]
      /\ laylow' = laylow \ cold
      /\ mem' = mem \ cold
      /\ age' = [t \in Threads |-> IF t \in Unlocked THEN age[t] + 1 ELSE age[t]]
      /\ UNCHANGED <<origo, leaf, critbit, lockVars, pc, left, noh, pp, oh, dy>>

-----------------------------------------------------------------------------
LookupStep(t) ==
  \/ Walk(t) \/ Compare(t) \/ TryRef(t)
  \/ LockedInsert(t) \/ LockedFind(t) \/ LockedRef(t)

DerefStep(t) ==
  \/ Deref(t) \/ DeleteUnlink(t)
  \/ \E s \in 0 .. 1 : DeleteClear(t, s)
  \/ DerefCool(t) \/ DerefUnref(t)

\* assert(hcb_is_node(pp)) after the loop of hcb_insert.
WalkEndsAtNode == \A t \in Threads : pc[t] = "walk" => pp[t] # Null

\* A failed assertion is the end of the process.
Next ==
  /\ WalkEndsAtNode
  /\ \/ \E t \in Threads : LookupStart(t) \/ LookupStep(t) \/ DerefStep(t)
     \/ Cleaner

Spec == Init /\ [][Next]_vars

-----------------------------------------------------------------------------
(* Properties. *)

\* Every word holds a value of its type; nothing on laylow has been freed
\* (hcb_cleaner), and the rounds counted in digest[0] fit into a byte.
TypeOK ==
  /\ origo \in Words
  /\ leaf \in [Heads -> [0 .. 1 -> Words]]
  /\ \A h \in mem : digest[h] \in [1 .. DIGEST_LEN -> Bytes]
  /\ ref \in [Heads -> Nat]
  /\ laylow \subseteq mem /\ mem \subseteq Heads
  /\ hcbMtx \in Threads \cup {None}
  /\ ohMtx \in [Heads -> Threads \cup {None}]
  /\ noh \in [Threads -> Heads \cup {None}]
  /\ pp \in [Threads -> Words]
  /\ oh \in [Threads -> Heads \cup {None}]
  /\ age \in [Threads -> Nat]

\* The threads that have a reference: from the increment to the store that
\* takes the objhead out of the tree, or the decrement.
Holds(t) == pc[t] \in {"held", "delete"}

\* The promise of struct hash_slinger: searches without a lock, insertions,
\* deletions and the late decrement of refcnt together behave like one table
\* with an atomic lookup and an atomic deref.
Abstract == INSTANCE HashSlinger WITH
  table <- [d \in Digests |-> Search(d)],
  refs <- [h \in Heads |-> Cardinality({t \in Threads : Holds(t) /\ oh[t] = h})],
  held <- [t \in Threads |-> IF Holds(t) THEN oh[t] ELSE None]

ImplementsSlinger == Abstract!Spec

\* oh->refcnt is exactly the references: what the threads hold, plus one of
\* the deleting thread, plus the one a preallocated objhead is born with.
RefExact ==
  \A h \in Heads :
    h \in mem => ref[h] = Cardinality({t \in Threads :
                    \/ oh[t] = h /\ pc[t] \notin {"match", "locked"}
                    \/ noh[t] = h})

\* Types and counters: what hash->deref decides by is right through every race of
\* hcb_lookup, hcb_deref and hcb_cleaner.
CritbitInv == TypeOK /\ RefExact

\* Every y and every objhead in the tree, and every one a searching thread is
\* about to look at, is allocated memory: an objhead is not freed while its
\* embedded y is in the tree, nor before the searches that may have seen it
\* are over (hcb_cleaner).
MemorySafe ==
  /\ \A d \in Digests : \A i \in 0 .. Cardinality(Heads) :
       Path(d)[i] # Null => Path(d)[i][2] \in mem
  /\ \A t \in Threads : pc[t] = "walk" /\ pp[t] # Null => pp[t][2] \in mem
  /\ \A t \in Threads : oh[t] # None => oh[t] \in mem

\* assert(oh->refcnt > 0) with hcb_mtx held: "Remove from tree before
\* decrementing refcnt to zero" makes whatever is found under the lock alive.
FoundUnderLockIsAlive ==
  \A t \in Threads : pc[t] = "locked" => ref[oh[t]] > 0

\* On every way down the critbits grow, so that a y tests a bit all objheads
\* below it agree before.
CritbitsGrow ==
  \A d \in Digests : \A i \in 1 .. Cardinality(Heads) :
    IsY(Path(d)[i]) => critbit[Path(d)[i - 1][2]] < critbit[Path(d)[i][2]]
=============================================================================
