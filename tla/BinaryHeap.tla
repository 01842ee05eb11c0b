----------------------------- MODULE BinaryHeap -----------------------------
(***************************************************************************)
(* The binary heap of lib/libvarnish/binary_heap.c, as the expiry code     *)
(* uses it: exp_heap of cache_expire.c, always under exp_mtx.  The tree is *)
(* laid out so that a path from a leaf to the root touches few pages of    *)
(* memory (VM_AWARE): parent and child compute with page offsets.          *)
(*                                                                         *)
(* A step is one turn of a loop of binheap_trickleup or                    *)
(* binheap_trickledown.                                                    *)
(***************************************************************************)
EXTENDS Naturals, Sequences, FiniteSets, SequencesExt

CONSTANTS Items,       \* objcores that may be on the heap
          Times,       \* values of timer_when
          PageSize     \* pointers in a page of memory, a power of two

\* The page layout needs a top, a middle and a bottom row.
HeapAssumption ==
  /\ Times \subseteq Nat
  /\ \E k \in 2 .. 20 : PageSize = 2 ^ k

VARIABLES array,       \* A(bh, 1) to A(bh, next - 1)
          timer_idx,   \* of each item, 0 when it is not on the heap
          timer_when,  \* its time
          op,          \* the running loop, and what it is part of
          at,          \* u of the running loop
          v2,          \* the local variable of binheap_trickledown
          again        \* the item EXP_Rearm will insert, a sequence

vars == <<array, timer_idx, timer_when, op, at, v2, again>>

\* bh->next
next == Len(array) + 1

\* u & page_mask
Offset(u) == u % PageSize

parent(u) ==
  LET po == Offset(u)
      up == (u - PageSize) \div PageSize       \* the page above, as a number
  IN IF u < PageSize \/ po > 3 THEN u - po + po \div 2
     ELSE IF po < 2 THEN up + (up - (up % (PageSize \div 2))) + PageSize \div 2
     ELSE u - 2

\* The children of u, given what *b holds before the call.  In the last case the
\* code says "*b += 1", not "*b = *a + 1".
child(u, b) ==
  LET po == Offset(u)
      below == ((u - po) \div 2 + (u % (PageSize \div 2)) + 1) * PageSize
  IN IF u >= PageSize /\ po < 2 THEN <<u + 2, u + 2>>
     ELSE IF po >= PageSize \div 2 THEN <<below, below + 1>>
     ELSE <<u + po, b + 1>>

\* object_cmp
cmp(i, j) == timer_when[i] < timer_when[j]

Idle == op = "none" /\ again = <<>>

\* binheap_swap, with the two calls of object_update.
\* Mutated form: the second item is not told where it is.
Swap_one(u, v) ==
  /\ array' = [array EXCEPT ![u] = array[v], ![v] = array[u]]
  /\ timer_idx' = [timer_idx EXCEPT ![array[v]] = u]

Swap(u, v) ==
  /\ array' = [array EXCEPT ![u] = array[v], ![v] = array[u]]
  /\ timer_idx' = [timer_idx EXCEPT ![array[v]] = u, ![array[u]] = v]

Init ==
  /\ array = <<>>
  /\ timer_idx = [i \in Items |-> 0]
  /\ timer_when = [i \in Items |-> 0]
  /\ op = "none" /\ at = 0 /\ v2 = 0 /\ again = <<>>

\* The end of binheap_insert: a new last item, about to trickle up.
PutLast(i) ==
  /\ array' = Append(array, i)
  /\ timer_idx' = [timer_idx EXCEPT ![i] = next]
  /\ op' = "insert" /\ at' = next
  /\ UNCHANGED v2

\* EXP_Insert and EXP_Inject: the time is set, then the item is inserted.
binheap_insert(i, t) ==
  /\ Idle /\ timer_idx[i] = 0
  /\ timer_when' = [timer_when EXCEPT ![i] = t]
  /\ PutLast(i)
  /\ UNCHANGED again

\* binheap_delete replaces the item by the last one, which then trickles up or
\* down.  v2 is not initialised: it may be anything.
TakeOut(i) ==
  LET u == timer_idx[i]
      tail == Last(array)
  IN /\ u # 0
     /\ IF u = Len(array)
        THEN /\ array' = Front(array)
             /\ timer_idx' = [timer_idx EXCEPT ![i] = 0]
             /\ UNCHANGED <<op, at, v2>>
        ELSE /\ array' = Front([array EXCEPT ![u] = tail])
             /\ timer_idx' = [timer_idx EXCEPT ![i] = 0, ![tail] = u]
             /\ op' = "delete" /\ at' = u
             /\ v2' \in 0 .. next

\* exp_timer takes the root, EXP_NukeOne takes any item.
binheap_delete(i) ==
  /\ Idle
  /\ TakeOut(i)
  /\ UNCHANGED <<timer_when, again>>

\* EXP_Rearm: the time is changed while the item is on the heap; then it is
\* deleted and inserted.
EXP_Rearm(i, t) ==
  /\ Idle /\ timer_idx[i] # 0 /\ timer_when[i] # t
  /\ timer_when' = [timer_when EXCEPT ![i] = t]
  /\ TakeOut(i)
  /\ again' = <<i>>

RearmInserts ==
  /\ op = "none" /\ again # <<>>
  /\ PutLast(again[1])
  /\ again' = <<>>
  /\ UNCHANGED timer_when

\* One turn of the loop of binheap_trickleup.
binheap_trickleup ==
  /\ op \in {"insert", "delete"} /\ at > 1
  /\ LET v == parent(at) IN
     /\ cmp(array[at], array[v])
     /\ Swap(at, v)
     /\ at' = v
  /\ UNCHANGED <<timer_when, op, v2, again>>

\* Its end: an insertion is complete, a deletion goes on with
\* binheap_trickledown.
UpDone ==
  /\ op \in {"insert", "delete"}
  /\ at > 1 => ~cmp(array[at], array[parent(at)])
  /\ IF op = "insert" THEN op' = "none" /\ at' = 0
     ELSE op' = "down" /\ UNCHANGED at
  /\ UNCHANGED <<array, timer_idx, timer_when, v2, again>>

\* One turn of the loop of binheap_trickledown.
binheap_trickledown ==
  /\ op = "down"
  /\ LET c == child(at, v2)
         v1 == IF c[2] < next /\ cmp(array[c[2]], array[c[1]]) THEN c[2] ELSE c[1]
     IN IF c[1] >= next \/ cmp(array[at], array[v1])
        THEN /\ op' = "none" /\ at' = 0 /\ v2' = 0
             /\ UNCHANGED <<array, timer_idx>>
        ELSE /\ Swap(at, v1)
             /\ at' = v1 /\ v2' = c[2]
             /\ UNCHANGED op
  /\ UNCHANGED <<timer_when, again>>

Next ==
  \/ \E i \in Items, t \in Times : binheap_insert(i, t) \/ EXP_Rearm(i, t)
  \/ \E i \in Items : binheap_delete(i)
  \/ RearmInserts \/ binheap_trickleup \/ UpDone \/ binheap_trickledown

Spec == Init /\ [][Next]_vars

-----------------------------------------------------------------------------
\* Between two calls every item on the heap is there once and knows where: a
\* deletion by timer_idx (EXP_NukeOne, EXP_Rearm, exp_timer) takes the item it
\* means.  The pages link up: an item's place is a child of its parent's, and
\* parents lead to the root.
HeapExact ==
  /\ op = "none" =>
       /\ \A u \in 1 .. Len(array) : timer_idx[array[u]] = u
       /\ \A i \in Items : timer_idx[i] # 0 => array[timer_idx[i]] = i
  /\ \A u \in 2 .. Len(array) :
       /\ parent(u) \in 1 .. u - 1
       /\ u - child(parent(u), 0)[1] \in {0, 1}

\* What chk() of the test driver in binary_heap.c asserts between two calls: no
\* item is due before its parent, so that the root, which exp_timer looks at, is
\* the first to expire.
HeapOrdered ==
  op = "none" => \A u \in 2 .. Len(array) : ~cmp(array[u], array[parent(u)])

=============================================================================
