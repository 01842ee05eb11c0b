------------------------- MODULE SessionLifeProofs -------------------------
(***************************************************************************)
(* Proofs about module SessionLife: session memory and descriptors are     *)
(* where one thread, and no other, uses them, whichever waiter is used and *)
(* however many sessions, descriptors and workers there are.               *)
(*                                                                         *)
(* SessionInv is not inductive.  That a session is in one place is proved  *)
(* with a function p from memory to places (Placed); a step of the program *)
(* moves one session.  That an event or a pending change names the owner   *)
(* of a descriptor needs to know who owns descriptors, the acceptor too    *)
(* (Owned), that the kernel and the waiter know of no session that they    *)
(* are done with (Told), and what the waiter has at each point of its loop *)
(* (Loop).                                                                 *)
(***************************************************************************)
EXTENDS SessionLife, SequenceTheorems, FiniteSetTheorems, WellFoundedInduction, TLAPS

-----------------------------------------------------------------------------
(* Lists on which nothing is twice *)

Once(q) == \A i, j \in 1 .. Len(q) : q[i] = q[j] => i = j

\* A set of naturals that is not empty has a least element.
LEMMA MinOf ==
  ASSUME NEW S \in SUBSET Nat, S # {}
  PROVE  Min(S) \in S /\ \A y \in S : Min(S) <= y
<1>1. PICK x \in S : \A y \in S : ~ (<<y, x>> \in OpToRel(<, Nat))
  BY NatLessThanWellFounded, WFMin
<1>2. ASSUME NEW y \in S PROVE x <= y
  <2>1. ~ (y < x)
    BY <1>1 DEF OpToRel
  <2> QED  BY <2>1
<1>3. \E z \in S : \A y \in S : z =< y
  BY <1>2
<1> QED  BY <1>3 DEF Min

\* What is on a list.
LEMMA SeqSet ==
  ASSUME NEW S, NEW q \in Seq(S)
  PROVE  /\ Len(q) \in Nat /\ DOMAIN q = 1 .. Len(q)
         /\ ToSet(q) \subseteq S /\ \A i \in 1 .. Len(q) : q[i] \in S /\ q[i] \in ToSet(q)
         /\ \A x \in ToSet(q) : \E i \in 1 .. Len(q) : q[i] = x
         /\ q = <<>> <=> ToSet(q) = {}
<1>1. Len(q) \in Nat /\ DOMAIN q = 1 .. Len(q) /\ \A i \in 1 .. Len(q) : q[i] \in S
  BY LenProperties, ElementOfSeq
<1>2. q = <<>> <=> Len(q) = 0
  BY EmptySeq
<1>3. ToSet(q) = {q[i] : i \in 1 .. Len(q)}
  BY <1>1 DEF ToSet
<1>4. q = <<>> => ToSet(q) = {}
  BY <1>1, <1>2, <1>3
<1>5. q # <<>> => 1 \in 1 .. Len(q)
  BY <1>1, <1>2
<1>6. q # <<>> => ToSet(q) # {}
  BY <1>3, <1>5
<1> QED  BY <1>1, <1>3, <1>4, <1>6

\* The empty list.
LEMMA NoneOnEmpty ==
  /\ Once(<<>>) /\ ToSet(<<>>) = {}
  /\ \A S : <<>> \in Seq(S)
<1>1. \A S : <<>> \in Seq(S)
  BY EmptySeq
<1>2. Len(<<>>) = 0 /\ DOMAIN <<>> = 1 .. 0
  BY EmptySeq
<1> QED  BY <1>1, <1>2 DEF Once, ToSet

\* VTAILQ_INSERT_TAIL.
LEMMA Appended ==
  ASSUME NEW S, NEW q \in Seq(S), NEW x \in S, Once(q), x \notin ToSet(q)
  PROVE  /\ Append(q, x) \in Seq(S) /\ Once(Append(q, x))
         /\ ToSet(Append(q, x)) = ToSet(q) \cup {x}
<1>1. PICK r : r = Append(q, x)
  OBVIOUS
<1>2. /\ r \in Seq(S) /\ Len(r) = Len(q) + 1 /\ r[Len(q) + 1] = x
      /\ \A i \in 1 .. Len(q) : r[i] = q[i]
  BY <1>1, AppendProperties
<1>3. /\ Len(q) \in Nat /\ DOMAIN r = 1 .. Len(q) + 1 /\ DOMAIN q = 1 .. Len(q)
      /\ \A i \in 1 .. Len(q) : q[i] # x
  BY <1>2, LenProperties, SeqSet
<1>4. Once(r)
  BY <1>2, <1>3 DEF Once
<1>5. ToSet(r) = ToSet(q) \cup {x}
  <2>1. \A i \in 1 .. Len(q) + 1 : i \in 1 .. Len(q) \/ i = Len(q) + 1
    BY <1>3
  <2>2. \A y \in ToSet(r) : y \in ToSet(q) \cup {x}
    BY <1>2, <1>3, <2>1 DEF ToSet
  <2>3. \A y \in ToSet(q) : y \in ToSet(r)
    BY <1>2, <1>3 DEF ToSet
  <2>4. x \in ToSet(r)
    BY <1>2, <1>3 DEF ToSet
  <2> QED  BY <2>2, <2>3, <2>4
<1> QED  BY <1>1, <1>2, <1>4, <1>5

\* VTAILQ_INSERT_HEAD.
LEMMA Pushed ==
  ASSUME NEW S, NEW q \in Seq(S), NEW x \in S, Once(q), x \notin ToSet(q)
  PROVE  /\ <<x>> \o q \in Seq(S) /\ Once(<<x>> \o q)
         /\ ToSet(<<x>> \o q) = ToSet(q) \cup {x}
<1>1. PICK r : r = <<x>> \o q
  OBVIOUS
<1>2. /\ <<x>> \in Seq(S) /\ Len(<<x>>) = 1 /\ <<x>>[1] = x
  OBVIOUS
<1>3. /\ Len(q) \in Nat /\ DOMAIN q = 1 .. Len(q)
      /\ \A i \in 1 .. Len(q) : q[i] # x
  BY LenProperties, SeqSet
<1>4. r \in Seq(S) /\ Len(r) = 1 + Len(q)
  BY <1>1, <1>2, ConcatProperties
<1>5. /\ r[1] = x /\ \A i \in 1 .. Len(r) : i # 1 => r[i] = q[i - 1]
  <2>1. \A i \in 1 .. Len(<<x>>) + Len(q) :
          (<<x>> \o q)[i] = IF i <= Len(<<x>>) THEN <<x>>[i] ELSE q[i - Len(<<x>>)]
    BY <1>2, ConcatProperties
  <2> QED  BY <1>1, <1>2, <1>3, <1>4, <2>1
<1>6. DOMAIN r = 1 .. Len(q) + 1
  BY <1>3, <1>4, LenProperties
<1>7. Once(r)
  BY <1>3, <1>4, <1>5 DEF Once
<1>8. ToSet(r) = ToSet(q) \cup {x}
  <2>1. \A i \in 1 .. Len(q) + 1 : i = 1 \/ i - 1 \in 1 .. Len(q)
    BY <1>3
  <2>2. \A y \in ToSet(r) : y \in ToSet(q) \cup {x}
    BY <1>3, <1>4, <1>5, <1>6, <2>1 DEF ToSet
  <2>3. \A i \in 1 .. Len(q) : i + 1 \in 1 .. Len(r) /\ i + 1 # 1 /\ (i + 1) - 1 = i
    BY <1>3, <1>4
  <2>4. \A i \in 1 .. Len(q) : r[i + 1] = q[i]
    BY <1>5, <2>3
  <2>5. \A y \in ToSet(q) : y \in ToSet(r)
    BY <1>3, <1>4, <1>6, <2>3, <2>4 DEF ToSet
  <2>6. x \in ToSet(r)
    BY <1>3, <1>5, <1>6 DEF ToSet
  <2> QED  BY <2>2, <2>5, <2>6
<1> QED  BY <1>1, <1>4, <1>7, <1>8

\* The first of a list is taken off it.
LEMMA Tailed ==
  ASSUME NEW S, NEW q \in Seq(S), q # <<>>, Once(q)
  PROVE  /\ Head(q) \in S /\ Head(q) = q[1] /\ Head(q) \in ToSet(q)
         /\ Tail(q) \in Seq(S) /\ Once(Tail(q)) /\ ToSet(Tail(q)) = ToSet(q) \ {Head(q)}
         /\ Len(q) = 1 <=> Tail(q) = <<>>
<1>1. PICK r : r = Tail(q)
  OBVIOUS
<1>2. /\ Len(q) \in Nat \ {0} /\ DOMAIN q = 1 .. Len(q) /\ \A i \in 1 .. Len(q) : q[i] \in S
      /\ \A i \in 1 .. Len(q) : q[i] \in ToSet(q)
  BY LenProperties, SeqSet, EmptySeq
<1>3. /\ Head(q) = q[1] /\ r \in Seq(S) /\ Len(r) = Len(q) - 1
      /\ \A i \in 1 .. Len(r) : r[i] = q[i + 1]
  BY <1>1, HeadTailProperties
<1>4. DOMAIN r = 1 .. Len(r)
  BY <1>3, LenProperties
<1>5. Once(r)
  BY <1>2, <1>3 DEF Once
<1>6. ToSet(r) = ToSet(q) \ {q[1]}
  <2>1. \A i \in 1 .. Len(r) : i + 1 \in 1 .. Len(q) /\ i + 1 # 1
    BY <1>2, <1>3
  <2>2. \A i \in 1 .. Len(r) : r[i] \in ToSet(q) /\ r[i] # q[1]
    BY <1>2, <1>3, <2>1 DEF Once
  <2>3. \A i \in 1 .. Len(q) : i # 1 => i - 1 \in 1 .. Len(r) /\ (i - 1) + 1 = i
    BY <1>2, <1>3
  <2>4. \A i \in 1 .. Len(q) : i # 1 => r[i - 1] = q[i]
    BY <1>3, <2>3
  <2>5. ASSUME NEW y \in ToSet(q), y # q[1] PROVE y \in ToSet(r)
    <3>1. PICK i \in 1 .. Len(q) : q[i] = y
      BY SeqSet
    <3>2. i - 1 \in 1 .. Len(r) /\ r[i - 1] = y
      BY <2>3, <2>4, <2>5, <3>1
    <3> QED  BY <1>4, <3>2 DEF ToSet
  <2>6. \A y \in ToSet(r) : y \in ToSet(q) /\ y # q[1]
    BY <1>4, <2>2 DEF ToSet
  <2> QED  BY <2>5, <2>6
<1>7. Len(q) = 1 <=> r = <<>>
  BY <1>2, <1>3, EmptySeq
<1> QED  BY <1>1, <1>2, <1>3, <1>5, <1>6, <1>7

\* VTAILQ_REMOVE.
LEMMA Removed ==
  ASSUME NEW S, NEW q \in Seq(S), Once(q), NEW x, x \in ToSet(q)
  PROVE  /\ RemoveFirst(q, x) \in Seq(S) /\ Once(RemoveFirst(q, x))
         /\ ToSet(RemoveFirst(q, x)) = ToSet(q) \ {x}
<1> DEFINE I == {i \in 1 .. Len(q) : q[i] = x}
<1>1. /\ Len(q) \in Nat /\ DOMAIN q = 1 .. Len(q) /\ \A i \in 1 .. Len(q) : q[i] \in S
      /\ \A i \in 1 .. Len(q) : q[i] \in ToSet(q)
  BY LenProperties, SeqSet
<1>2. PICK k \in 1 .. Len(q) : q[k] = x /\ I = {k}
  BY <1>1 DEF Once, ToSet
<1>a. k \in Nat /\ 1 <= k /\ k <= Len(q) /\ Len(q) \in Nat
  BY <1>1, <1>2
<1> HIDE DEF I
<1>3. Min(I) = k
  <2>1. {k} \in SUBSET Nat /\ {k} # {}
    BY <1>a
  <2>2. Min({k}) \in {k}
    BY <2>1, MinOf
  <2> QED  BY <1>2, <2>2
<1>4. PICK a, b, r : a = SubSeq(q, 1, k - 1) /\ b = SubSeq(q, k + 1, Len(q)) /\ r = a \o b
  OBVIOUS
<1>5. RemoveFirst(q, x) = r
  BY <1>2, <1>3, <1>4 DEF I, RemoveFirst, RemoveAt, SelectInSeq
<1>6. /\ a \in Seq(S) /\ Len(a) = k - 1 /\ \A i \in 1 .. k - 1 : a[i] = q[i]
      /\ b \in Seq(S) /\ Len(b) = Len(q) - k /\ \A i \in 1 .. Len(q) - k : b[i] = q[k + i]
  <2>1. /\ k \in Nat /\ k >= 1 /\ k - 1 \in Int /\ k + 1 \in Int /\ (k - 1) - 1 + 1 = k - 1
        /\ \A i \in 1 .. k - 1 : q[i] \in S /\ 1 + i - 1 = i
        /\ \A i \in k + 1 .. Len(q) : q[i] \in S
        /\ Len(q) - (k + 1) + 1 = Len(q) - k
    BY <1>1, <1>2
  <2>2. a \in Seq(S) /\ Len(a) = k - 1 /\ \A i \in 1 .. k - 1 : a[i] = q[i]
    <3>1. a \in Seq(S) /\ Len(a) = IF 1 <= k - 1 THEN (k - 1) - 1 + 1 ELSE 0
      BY <1>1, <1>4, <2>1, SubSeqProperties
    <3>2. \A i \in 1 .. (k - 1) - 1 + 1 : a[i] = q[1 + i - 1]
      BY <1>1, <1>4, <2>1, SubSeqProperties
    <3> QED  BY <2>1, <3>1, <3>2
  <2>3. b \in Seq(S) /\ Len(b) = Len(q) - k /\ \A i \in 1 .. Len(q) - k : b[i] = q[k + i]
    <3>1. b \in Seq(S) /\ Len(b) = IF k + 1 <= Len(q) THEN Len(q) - (k + 1) + 1 ELSE 0
      BY <1>1, <1>4, <2>1, SubSeqProperties
    <3>2. \A i \in 1 .. Len(q) - (k + 1) + 1 : b[i] = q[(k + 1) + i - 1]
      BY <1>1, <1>4, <2>1, SubSeqProperties
    <3>3. ASSUME NEW i \in 1 .. Len(q) - k PROVE b[i] = q[k + i]
      <4>1. i \in 1 .. Len(q) - (k + 1) + 1 /\ (k + 1) + i - 1 = k + i
        BY <1>1, <1>2, <2>1
      <4> QED  BY <3>2, <4>1
    <3>4. PICK n \in Nat : n = Len(q) /\ k <= n
      BY <1>a
    <3>5. Len(b) = IF k + 1 <= n THEN n - (k + 1) + 1 ELSE 0
      BY <3>1, <3>4
    <3>6. (IF k + 1 <= n THEN n - (k + 1) + 1 ELSE 0) = n - k
      BY <1>a, <3>4
    <3>7. Len(b) = Len(q) - k
      BY <3>4, <3>5, <3>6
    <3> QED  BY <3>1, <3>3, <3>7
  <2> QED  BY <2>2, <2>3
<1>7. /\ r \in Seq(S) /\ Len(r) = Len(q) - 1
      /\ \A i \in 1 .. Len(r) : r[i] = IF i < k THEN q[i] ELSE q[i + 1]
  <2>1. /\ r \in Seq(S) /\ Len(r) = Len(a) + Len(b)
        /\ \A i \in 1 .. Len(a) + Len(b) : r[i] = IF i <= Len(a) THEN a[i] ELSE b[i - Len(a)]
    <3>1. a \in Seq(S) /\ b \in Seq(S)
      BY <1>6
    <3>2. /\ a \o b \in Seq(S) /\ Len(a \o b) = Len(a) + Len(b)
          /\ \A i \in 1 .. Len(a) + Len(b) : (a \o b)[i] = IF i <= Len(a) THEN a[i] ELSE b[i - Len(a)]
      BY <3>1, ConcatProperties
    <3> QED  BY <1>4, <3>2
  <2>2. Len(r) = Len(q) - 1
    BY <1>1, <1>2, <1>6, <2>1
  <2>3. ASSUME NEW i \in 1 .. Len(r) PROVE r[i] = IF i < k THEN q[i] ELSE q[i + 1]
    <3>1. i \in 1 .. Len(a) + Len(b) /\ (i <= Len(a) <=> i < k)
      BY <1>1, <1>2, <1>6, <2>1
    <3>2. CASE i < k
      BY <1>1, <1>2, <1>6, <2>1, <3>1, <3>2
    <3>3. CASE ~ (i < k)
      <4>1. i - Len(a) \in 1 .. Len(q) - k /\ k + (i - Len(a)) = i + 1
        BY <1>1, <1>2, <1>6, <2>1, <3>1, <3>3
      <4>2. r[i] = b[i - Len(a)]
        BY <2>1, <3>1, <3>3
      <4>3. b[i - Len(a)] = q[k + (i - Len(a))]
        BY <1>6, <4>1
      <4> QED  BY <3>3, <4>1, <4>2, <4>3
    <3> QED  BY <3>2, <3>3
  <2> QED  BY <2>1, <2>2, <2>3
<1>8. DOMAIN r = 1 .. Len(q) - 1
  BY <1>1, <1>7, LenProperties
<1>9. Once(r)
  BY <1>1, <1>2, <1>7 DEF Once
<1>10. ToSet(r) = ToSet(q) \ {x}
  <2>1. \A i \in 1 .. Len(r) : r[i] \in ToSet(q) /\ r[i] # x
    BY <1>1, <1>2, <1>7 DEF Once
  <2>2. \A i \in 1 .. Len(q) : i < k => i \in 1 .. Len(r) /\ r[i] = q[i]
    BY <1>1, <1>2, <1>7
  <2>3. \A i \in 1 .. Len(q) : i > k => i - 1 \in 1 .. Len(r) /\ r[i - 1] = q[i]
    BY <1>1, <1>2, <1>7
  <2>4. ASSUME NEW y \in ToSet(q), y # x PROVE y \in ToSet(r)
    <3>1. PICK i \in 1 .. Len(q) : q[i] = y
      BY SeqSet
    <3>2. i < k \/ i > k
      BY <1>1, <1>2, <2>4, <3>1
    <3>3. \E j \in 1 .. Len(r) : r[j] = y
      BY <2>2, <2>3, <3>1, <3>2
    <3> QED  BY <1>7, <1>8, <3>3 DEF ToSet
  <2>5. \A y \in ToSet(r) : y \in ToSet(q) /\ y # x
    BY <1>7, <1>8, <2>1 DEF ToSet
  <2> QED  BY <2>4, <2>5
<1> QED  BY <1>5, <1>7, <1>9, <1>10

-----------------------------------------------------------------------------
(* The inductive invariant *)

PlaceNames == {"none", "free0", "free1", "acc", "queue", "work", "pipe", "list", "lost"}
Open == {"queue", "work", "pipe", "list"}
Jobs == [sess : Chunks, step : {"wait", "start"}]
Entries == [sess : Chunks \cup {None}, armed : BOOLEAN]
Changes == [fd : Fds, sess : Chunks]
AccStates == [pc : {"poll", "flip", "take", "check", "alloc", "queue"},
              fd : Fds \cup {None}, sm : Chunks \cup {None}]
DelStates == [Threads -> {"idle", "check", "alloc"}]
Inputs == [Fds -> {Closed, "none", "ready"}]

InFree(q) == ToSet(freeq[q])
WithAcc == IF acc.pc = "queue" THEN {acc.sm} ELSE {}
InQueue == {queue[i].sess : i \in 1 .. Len(queue)}
AtWork == {work[w].sess : w \in Workers} \ {None}
InPipe == ToSet(pipe)
OnList == ToSet(sesshead)

\* Every session is where p says and nowhere else.
Where(p) ==
  /\ p \in [Chunks -> PlaceNames]
  /\ mem = {s \in Chunks : p[s] # "none"}
  /\ InFree(0) = {s \in Chunks : p[s] = "free0"}
  /\ InFree(1) = {s \in Chunks : p[s] = "free1"}
  /\ WithAcc = {s \in Chunks : p[s] = "acc"}
  /\ InQueue = {s \in Chunks : p[s] = "queue"}
  /\ AtWork = {s \in Chunks : p[s] = "work"}
  /\ InPipe = {s \in Chunks : p[s] = "pipe"}
  /\ OnList = {s \in Chunks : p[s] = "list"}
  /\ lost = {s \in Chunks : p[s] = "lost"}

\* No list has a session twice, no two workers have the same, and what the
\* acceptor found first on its free list is still first.
JobsOnce(q) == \A i, j \in 1 .. Len(q) : q[i].sess = q[j].sess => i = j
WorkOnce == \A v, w \in Workers : work[v].sess = work[w].sess /\ work[v].sess # None => v = w
Kept ==
  /\ qp \in 0 .. 1 /\ freeq \in [0 .. 1 -> Seq(Chunks)]
  /\ queue \in Seq(Jobs) /\ work \in [Workers -> Jobs \cup {Idle}]
  /\ pipe \in Seq(Chunks) /\ sesshead \in Seq(Chunks) /\ lost \subseteq Chunks
  /\ Once(freeq[0]) /\ Once(freeq[1]) /\ JobsOnce(queue) /\ Once(pipe) /\ Once(sesshead)
  /\ WorkOnce
  /\ acc.pc = "take" => freeq[qp] # <<>> /\ freeq[qp][1] = acc.sm

\* Who owns a descriptor.
Owned(p) ==
  /\ fd \in [Chunks -> Fds \cup {None}] /\ in \in Inputs
  /\ del \in DelStates /\ acc \in AccStates
  /\ \A s \in Chunks : fd[s] # None <=> p[s] \in Open
  /\ \A s, t \in Chunks : s # t /\ fd[s] # None => fd[s] # fd[t]
  /\ \A s \in Chunks : fd[s] # None => in[fd[s]] # Closed
  /\ acc.pc # "poll" => /\ acc.fd \in Fds /\ in[acc.fd] # Closed /\ del["acceptor"] = "idle"
                        /\ \A s \in Chunks : fd[s] # acc.fd

\* What the kernel has been told of descriptors and still will be.
Told ==
  /\ waiter \in {"epoll", "kqueue", "ports", "poll"}
  /\ entry \in [Fds -> Entries] /\ added \subseteq Chunks /\ ki \in Seq(Changes)
  /\ events \subseteq Chunks \cup {Pipe}
  /\ \A f \in Fds : entry[f].sess # None => fd[entry[f].sess] = f
  /\ \A f \in Fds : entry[f].armed => entry[f].sess \in OnList /\ entry[f].sess \notin events
  /\ \A s \in Chunks : fd[s] # None =>
       IF waiter = "epoll" THEN s \in added <=> entry[fd[s]].sess # None
       ELSE s \notin OnList \/ s \in events => entry[fd[s]].sess = None
  /\ \A s \in added : fd[s] # None \/ s \in lost
  /\ \A i \in 1 .. Len(ki) : /\ ki[i].sess \in OnList /\ ki[i].sess \notin events
                             /\ fd[ki[i].sess] = ki[i].fd
  /\ waiter # "kqueue" \/ wpc = "scan" => ki = <<>>

\* Where the waiter is in its loop.
Loop ==
  /\ pollfd \subseteq Fds /\ walk \in Seq(Chunks) /\ Once(walk) /\ ToSet(walk) \subseteq OnList
  /\ wpc \in {"wait", "events", "eventsT", "scan", "walk", "pipe"}
  /\ events \ {Pipe} \subseteq OnList
  /\ wpc \in {"wait", "scan"} => events = {}
  /\ wpc = "pipe" => events \subseteq {Pipe}
  /\ waiter = "poll" => /\ pollfd = {fd[s] : s \in OnList} /\ wpc \in {"wait", "walk", "pipe"}
                        /\ \A f \in Fds : entry[f].sess = None
  /\ waiter # "poll" => pollfd = {} /\ wpc \notin {"walk", "pipe"}
  /\ wpc # "walk" => walk = <<>>
  /\ wpc = "walk" => events \subseteq ToSet(walk) \cup {Pipe}

\* Threads that have looked at the limit and not allocated yet.
Allocs == {t \in Threads : del[t] = "alloc" \/ (t = "acceptor" /\ acc.pc = "alloc")}
Bound ==
  /\ IsFiniteSet(mem) /\ nsess = Cardinality(mem)
  /\ nsess + Cardinality(Allocs) < MaxSess + Cardinality(Threads)

Inv(p) == Where(p) /\ Kept /\ Owned(p) /\ Told /\ Loop /\ Bound
IInv == \E p \in [Chunks -> PlaceNames] : Inv(p)

-----------------------------------------------------------------------------
(* One session moves *)

\* One place, when s goes from one to another.
Goes(X, Y, n, s, from, to) ==
  Y = IF n = to THEN X \cup {s} ELSE IF n = from THEN X \ {s} ELSE X
Moves(s, from, to) ==
  /\ mem' = IF to = "none" THEN mem \ {s} ELSE mem \cup {s}
  /\ Goes(InFree(0), InFree(0)', "free0", s, from, to)
  /\ Goes(InFree(1), InFree(1)', "free1", s, from, to)
  /\ Goes(WithAcc, WithAcc', "acc", s, from, to)
  /\ Goes(InQueue, InQueue', "queue", s, from, to)
  /\ Goes(AtWork, AtWork', "work", s, from, to)
  /\ Goes(InPipe, InPipe', "pipe", s, from, to)
  /\ Goes(OnList, OnList', "list", s, from, to)
  /\ Goes(lost, lost', "lost", s, from, to)

\* Moving s in p changes the set of each place as Goes says.
LEMMA PlaceMoves ==
  ASSUME NEW p \in [Chunks -> PlaceNames], NEW s \in Chunks, NEW to \in PlaceNames,
         NEW n, NEW X, NEW Y, X = {x \in Chunks : p[x] = n}, Goes(X, Y, n, s, p[s], to)
  PROVE  Y = {x \in Chunks : [p EXCEPT ![s] = to][x] = n}
<1>1. \A x \in Chunks : [p EXCEPT ![s] = to][x] = IF x = s THEN to ELSE p[x]
  OBVIOUS
<1>2. \A x \in Chunks : x \in Y <=> (IF x = s THEN to ELSE p[x]) = n
  BY DEF Goes
<1>3. Y \subseteq Chunks
  BY DEF Goes
<1> QED  BY <1>1, <1>2, <1>3

\* One session that moves, in the lists and in p.
LEMMA Moved ==
  ASSUME NEW p, Where(p), NEW s \in Chunks, NEW to \in PlaceNames, Moves(s, p[s], to)
  PROVE  Where([p EXCEPT ![s] = to])' /\ [p EXCEPT ![s] = to] \in [Chunks -> PlaceNames]
<1>1. PICK r : r = [p EXCEPT ![s] = to]
  OBVIOUS
<1>2. p \in [Chunks -> PlaceNames] /\ r \in [Chunks -> PlaceNames]
  BY <1>1 DEF Where
<1>3. mem' = {x \in Chunks : r[x] # "none"}
  <2>1. \A x \in Chunks : r[x] = IF x = s THEN to ELSE p[x]
    BY <1>1, <1>2
  <2>2. mem = {x \in Chunks : p[x] # "none"}
    BY DEF Where
  <2>3. mem' = IF to = "none" THEN mem \ {s} ELSE mem \cup {s}
    BY DEF Moves
  <2> QED  BY <2>1, <2>2, <2>3
<1>a. ASSUME NEW n, NEW X, NEW Y, X = {x \in Chunks : p[x] = n}, Goes(X, Y, n, s, p[s], to)
      PROVE  Y = {x \in Chunks : r[x] = n}
  <2>1. Y = {x \in Chunks : [p EXCEPT ![s] = to][x] = n}
    BY <1>2, <1>a, PlaceMoves
  <2> QED  BY <1>1, <2>1
<1>4. InFree(0)' = {x \in Chunks : r[x] = "free0"}
  <2>1. InFree(0) = {x \in Chunks : p[x] = "free0"}
    BY DEF Where
  <2>2. Goes(InFree(0), InFree(0)', "free0", s, p[s], to)
    BY DEF Moves
  <2> QED  BY <1>a, <2>1, <2>2, Zenon
<1>5. InFree(1)' = {x \in Chunks : r[x] = "free1"}
  <2>1. InFree(1) = {x \in Chunks : p[x] = "free1"}
    BY DEF Where
  <2>2. Goes(InFree(1), InFree(1)', "free1", s, p[s], to)
    BY DEF Moves
  <2> QED  BY <1>a, <2>1, <2>2, Zenon
<1>6. WithAcc' = {x \in Chunks : r[x] = "acc"}
  <2>1. WithAcc = {x \in Chunks : p[x] = "acc"}
    BY DEF Where
  <2>2. Goes(WithAcc, WithAcc', "acc", s, p[s], to)
    BY DEF Moves
  <2> QED  BY <1>a, <2>1, <2>2, Zenon
<1>7. InQueue' = {x \in Chunks : r[x] = "queue"}
  <2>1. InQueue = {x \in Chunks : p[x] = "queue"}
    BY DEF Where
  <2>2. Goes(InQueue, InQueue', "queue", s, p[s], to)
    BY DEF Moves
  <2> QED  BY <1>a, <2>1, <2>2, Zenon
<1>8. AtWork' = {x \in Chunks : r[x] = "work"}
  <2>1. AtWork = {x \in Chunks : p[x] = "work"}
    BY DEF Where
  <2>2. Goes(AtWork, AtWork', "work", s, p[s], to)
    BY DEF Moves
  <2> QED  BY <1>a, <2>1, <2>2, Zenon
<1>9. InPipe' = {x \in Chunks : r[x] = "pipe"}
  <2>1. InPipe = {x \in Chunks : p[x] = "pipe"}
    BY DEF Where
  <2>2. Goes(InPipe, InPipe', "pipe", s, p[s], to)
    BY DEF Moves
  <2> QED  BY <1>a, <2>1, <2>2, Zenon
<1>10. OnList' = {x \in Chunks : r[x] = "list"}
  <2>1. OnList = {x \in Chunks : p[x] = "list"}
    BY DEF Where
  <2>2. Goes(OnList, OnList', "list", s, p[s], to)
    BY DEF Moves
  <2> QED  BY <1>a, <2>1, <2>2, Zenon
<1>11. lost' = {x \in Chunks : r[x] = "lost"}
  <2>1. lost = {x \in Chunks : p[x] = "lost"}
    BY DEF Where
  <2>2. Goes(lost, lost', "lost", s, p[s], to)
    BY DEF Moves
  <2> QED  BY <1>a, <2>1, <2>2, Zenon
<1>12. Where(r)'
  BY <1>2, <1>3, <1>4, <1>5, <1>6, <1>7, <1>8, <1>9, <1>10, <1>11 DEF Where
<1> QED  BY <1>1, <1>2, <1>12

\* A session is in the place p gives it.
LEMMA AtPlace ==
  ASSUME NEW p, Where(p), NEW s
  PROVE  /\ s \in InFree(0) => s \in Chunks /\ p[s] = "free0"
         /\ s \in InFree(1) => s \in Chunks /\ p[s] = "free1"
         /\ s \in WithAcc => s \in Chunks /\ p[s] = "acc"
         /\ s \in InQueue => s \in Chunks /\ p[s] = "queue"
         /\ s \in AtWork => s \in Chunks /\ p[s] = "work"
         /\ s \in InPipe => s \in Chunks /\ p[s] = "pipe"
         /\ s \in OnList <=> s \in Chunks /\ p[s] = "list"
         /\ s \in Chunks /\ s \notin mem => p[s] = "none"
         /\ p \in [Chunks -> PlaceNames]
<1> QED  BY DEF Where

\* VSTAILQ_INSERT_TAIL on a pool's queue.
LEMMA JobAppended ==
  ASSUME NEW q \in Seq(Jobs), NEW j \in Jobs, JobsOnce(q),
         \A i \in 1 .. Len(q) : q[i].sess # j.sess
  PROVE  /\ Append(q, j) \in Seq(Jobs) /\ JobsOnce(Append(q, j))
         /\ {Append(q, j)[i].sess : i \in 1 .. Len(Append(q, j))}
              = {q[i].sess : i \in 1 .. Len(q)} \cup {j.sess}
<1>1. PICK r : r = Append(q, j)
  OBVIOUS
<1>2. /\ r \in Seq(Jobs) /\ Len(r) = Len(q) + 1 /\ r[Len(q) + 1] = j
      /\ \A i \in 1 .. Len(q) : r[i] = q[i]
  BY <1>1, AppendProperties
<1>3. Len(q) \in Nat
  BY LenProperties
<1>4. JobsOnce(r)
  BY <1>2, <1>3 DEF JobsOnce
<1>5. \A i \in 1 .. Len(r) : i \in 1 .. Len(q) \/ i = Len(q) + 1
  BY <1>2, <1>3
<1>6. \A i \in 1 .. Len(q) : i \in 1 .. Len(r)
  BY <1>2, <1>3
<1>7. Len(q) + 1 \in 1 .. Len(r)
  BY <1>2, <1>3
<1>8. {r[i].sess : i \in 1 .. Len(r)} = {q[i].sess : i \in 1 .. Len(q)} \cup {j.sess}
  <2>1. ASSUME NEW y \in {r[i].sess : i \in 1 .. Len(r)}
        PROVE  y \in {q[i].sess : i \in 1 .. Len(q)} \cup {j.sess}
    BY <1>2, <1>5
  <2>2. ASSUME NEW y \in {q[i].sess : i \in 1 .. Len(q)}
        PROVE  y \in {r[i].sess : i \in 1 .. Len(r)}
    BY <1>2, <1>6
  <2>3. j.sess \in {r[i].sess : i \in 1 .. Len(r)}
    BY <1>2, <1>7
  <2> QED  BY <2>1, <2>2, <2>3
<1> QED  BY <1>1, <1>2, <1>4, <1>8

\* VSTAILQ_REMOVE_HEAD.
LEMMA JobTaken ==
  ASSUME NEW q \in Seq(Jobs), q # <<>>, JobsOnce(q)
  PROVE  /\ Head(q) \in Jobs /\ Tail(q) \in Seq(Jobs) /\ JobsOnce(Tail(q))
         /\ Head(q).sess \in {q[i].sess : i \in 1 .. Len(q)}
         /\ {Tail(q)[i].sess : i \in 1 .. Len(Tail(q))}
              = {q[i].sess : i \in 1 .. Len(q)} \ {Head(q).sess}
<1>1. PICK r : r = Tail(q)
  OBVIOUS
<1>2. /\ Len(q) \in Nat \ {0} /\ \A i \in 1 .. Len(q) : q[i] \in Jobs
  BY LenProperties, EmptySeq, ElementOfSeq
<1>3. /\ Head(q) = q[1] /\ r \in Seq(Jobs) /\ Len(r) = Len(q) - 1
      /\ \A i \in 1 .. Len(r) : r[i] = q[i + 1]
  BY <1>1, HeadTailProperties
<1>4. JobsOnce(r)
  BY <1>2, <1>3 DEF JobsOnce
<1>5. \A i \in 1 .. Len(r) : i + 1 \in 1 .. Len(q) /\ i + 1 # 1
  BY <1>2, <1>3
<1>6. \A i \in 1 .. Len(q) : i # 1 => i - 1 \in 1 .. Len(r) /\ r[i - 1] = q[i]
  BY <1>2, <1>3
<1>7. 1 \in 1 .. Len(q)
  BY <1>2
<1>8. {r[i].sess : i \in 1 .. Len(r)} = {q[i].sess : i \in 1 .. Len(q)} \ {q[1].sess}
  <2>1. ASSUME NEW i \in 1 .. Len(r)
        PROVE  r[i].sess \in {q[k].sess : k \in 1 .. Len(q)} /\ r[i].sess # q[1].sess
    BY <1>3, <1>5, <1>7 DEF JobsOnce
  <2>2. ASSUME NEW i \in 1 .. Len(q), q[i].sess # q[1].sess
        PROVE  q[i].sess \in {r[k].sess : k \in 1 .. Len(r)}
    BY <1>6, <2>2
  <2> QED  BY <2>1, <2>2
<1> QED  BY <1>1, <1>2, <1>3, <1>4, <1>7, <1>8

-----------------------------------------------------------------------------
(* What leaves each part of the invariant true *)

\* Facts about the constants.
LEMMA Constants ==
  /\ None \notin Chunks /\ None \notin Fds /\ Pipe \notin Chunks /\ Pipe # None
  /\ Chunks \subseteq Nat /\ Fds \subseteq Nat
  /\ "acceptor" \in Threads /\ "waiter" \in Threads /\ "acceptor" # "waiter"
  /\ \A w \in Workers : w \in Threads /\ w # "acceptor" /\ w # "waiter"
  /\ IsFiniteSet(Threads) /\ Cardinality(Threads) \in Nat /\ MaxSess \in Nat
<1>1. IsFiniteSet({"acceptor", "waiter"})
  <2>1. IsFiniteSet({"acceptor"}) /\ IsFiniteSet({"waiter"})
    BY FS_Singleton
  <2>2. {"acceptor", "waiter"} = {"acceptor"} \cup {"waiter"}
    OBVIOUS
  <2> QED  BY <2>1, <2>2, FS_Union
<1>2. IsFiniteSet(Threads)
  BY <1>1, FS_Union, SessionAssumption DEF Threads
<1>3. Cardinality(Threads) \in Nat
  BY <1>2, FS_CardinalityType
<1> QED  BY <1>2, <1>3, SessionAssumption DEF None, Pipe, Threads

\* Nothing was allocated and nobody has come to allocate since.
LEMMA BoundKept ==
  ASSUME Bound, mem' = mem, nsess' = nsess, Allocs' \subseteq Allocs
  PROVE  Bound'
<1>1. IsFiniteSet(Allocs) /\ Cardinality(Allocs) \in Nat
  BY Constants, FS_Subset, FS_CardinalityType DEF Allocs
<1>2. PICK A, B : A = Allocs /\ B = Allocs'
  OBVIOUS
<1>3. Cardinality(B) <= Cardinality(A) /\ Cardinality(B) \in Nat
  BY <1>1, <1>2, FS_Subset, FS_CardinalityType
<1>4. nsess \in Nat /\ MaxSess \in Nat /\ Cardinality(Threads) \in Nat
  BY Constants, FS_CardinalityType DEF Bound
<1>5. nsess + Cardinality(B) < MaxSess + Cardinality(Threads)
  <2>1. nsess + Cardinality(A) < MaxSess + Cardinality(Threads)
    BY <1>2 DEF Bound
  <2> QED  BY <1>1, <1>2, <1>3, <1>4, <2>1
<1> QED  BY <1>2, <1>5 DEF Bound

\* Who is about to allocate depends on two program counters.
LEMMA AllocsKept ==
  ASSUME \A t \in Threads : del'[t] = "alloc" => del[t] = "alloc",
         acc'.pc = "alloc" => acc.pc = "alloc"
  PROVE  Allocs' \subseteq Allocs
<1> QED  BY DEF Allocs, Threads

\* Sessions that are open stay open with the same descriptor, and no others are.
LEMMA OwnedKept ==
  ASSUME NEW p, Owned(p), NEW r \in [Chunks -> PlaceNames],
         \A x \in Chunks : r[x] \in Open <=> p[x] \in Open,
         fd' = fd, in' \in Inputs, \A f \in Fds : in'[f] = Closed <=> in[f] = Closed,
         del' \in DelStates, acc' \in AccStates,
         \/ acc'.pc = "poll"
         \/ acc.pc # "poll" /\ acc'.fd = acc.fd /\ del'["acceptor"] = "idle"
  PROVE  Owned(r)'
<1>1. fd \in [Chunks -> Fds \cup {None}]
  BY DEF Owned
<1>2. \A s \in Chunks : fd'[s] # None <=> r[s] \in Open
  BY DEF Owned
<1>3. \A s, t \in Chunks : s # t /\ fd'[s] # None => fd'[s] # fd'[t]
  BY DEF Owned
<1>4. \A s \in Chunks : fd'[s] # None => in'[fd'[s]] # Closed
  BY <1>1 DEF Owned
<1>5. acc'.pc # "poll" => /\ acc'.fd \in Fds /\ in'[acc'.fd] # Closed /\ del'["acceptor"] = "idle"
                          /\ \A s \in Chunks : fd'[s] # acc'.fd
  BY DEF Owned
<1> QED  BY <1>1, <1>2, <1>3, <1>4, <1>5 DEF Owned

\* A descriptor is closed, with the session that has it if there is one.
LEMMA OwnedClosed ==
  ASSUME NEW p, Owned(p), p \in [Chunks -> PlaceNames], NEW s \in Chunks, NEW to \in PlaceNames \ Open,
         NEW f \in Fds, fd[s] \in {f, None}, \A x \in Chunks : x # s => fd[x] # f,
         fd' = [fd EXCEPT ![s] = None], in' = [in EXCEPT ![f] = Closed],
         del' \in DelStates, acc' \in AccStates,
         \/ acc'.pc = "poll"
         \/ acc' = acc /\ acc.fd # f /\ del'["acceptor"] = del["acceptor"]
  PROVE  Owned([p EXCEPT ![s] = to])'
<1>1. PICK r : r = [p EXCEPT ![s] = to]
  OBVIOUS
<1>2. \A x \in Chunks : r[x] = IF x = s THEN to ELSE p[x]
  BY <1>1
<1>3. fd \in [Chunks -> Fds \cup {None}] /\ in \in Inputs
  BY DEF Owned
<1>4. /\ fd' \in [Chunks -> Fds \cup {None}] /\ in' \in Inputs
      /\ \A x \in Chunks : fd'[x] = IF x = s THEN None ELSE fd[x]
      /\ \A g \in Fds : in'[g] = IF g = f THEN Closed ELSE in[g]
  BY <1>3 DEF Inputs
<1>5. \A x \in Chunks : fd'[x] # None <=> r[x] \in Open
  BY <1>2, <1>4 DEF Owned
<1>6. \A x, t \in Chunks : x # t /\ fd'[x] # None => fd'[x] # fd'[t]
  BY <1>4 DEF Owned
<1>7. \A x \in Chunks : fd'[x] # None => in'[fd'[x]] # Closed
  BY <1>3, <1>4 DEF Owned
<1>8. acc'.pc # "poll" => /\ acc'.fd \in Fds /\ in'[acc'.fd] # Closed /\ del'["acceptor"] = "idle"
                          /\ \A x \in Chunks : fd'[x] # acc'.fd
  BY <1>4, Constants DEF Owned
<1>9. Owned(r)'
  BY <1>4, <1>5, <1>6, <1>7, <1>8 DEF Owned
<1> QED  BY <1>1, <1>9

\* ... and forgotten by the kernel and by the waiter.
LEMMA ToldClosed ==
  ASSUME NEW p, Owned(p), Told, NEW s \in Chunks, NEW f \in Fds,
         fd[s] \in {f, None}, \A x \in Chunks : x # s => fd[x] # f,
         fd' = [fd EXCEPT ![s] = None], entry' = [entry EXCEPT ![f] = NoEntry],
         \/ added' = added \ {s} /\ lost' = lost
         \/ added' = added /\ lost' = lost \cup {s},
         OnList' = OnList \ {s}, events' = events \ {s},
         \A i \in 1 .. Len(ki) : ki[i].sess # s,
         waiter' = waiter, wpc' = wpc, ki' = ki
  PROVE  Told'
<1>1. fd \in [Chunks -> Fds \cup {None}] /\ entry \in [Fds -> Entries]
      /\ ki \in Seq(Changes) /\ added \subseteq Chunks /\ events \subseteq Chunks \cup {Pipe}
  BY DEF Owned, Told
<1>2. /\ \A x \in Chunks : fd'[x] = IF x = s THEN None ELSE fd[x]
      /\ \A g \in Fds : entry'[g] = IF g = f THEN NoEntry ELSE entry[g]
      /\ fd' \in [Chunks -> Fds \cup {None}]
  BY <1>1
<1>3. NoEntry \in Entries /\ NoEntry.sess = None /\ NoEntry.armed = FALSE
  BY DEF NoEntry, Entries
<1>4. entry' \in [Fds -> Entries] /\ added' \subseteq Chunks /\ events' \subseteq Chunks \cup {Pipe}
  BY <1>1, <1>3
<1>5. \A g \in Fds : entry[g].sess \in Chunks \cup {None}
  BY <1>1 DEF Entries
<1>6. ASSUME NEW g \in Fds, entry'[g].sess # None
      PROVE  g # f /\ entry'[g] = entry[g] /\ fd'[entry'[g].sess] = g /\ entry[g].sess # s
  <2>1. g # f /\ entry'[g] = entry[g]
    BY <1>2, <1>3, <1>6
  <2>2. fd[entry[g].sess] = g /\ entry[g].sess \in Chunks
    BY <1>5, <1>6, <2>1 DEF Told
  <2>3. entry[g].sess # s
    BY <2>1, <2>2, Constants
  <2> QED  BY <1>2, <2>1, <2>2, <2>3
<1>7. ASSUME NEW g \in Fds, entry'[g].armed
      PROVE  entry'[g].sess \in OnList' /\ entry'[g].sess \notin events'
  <2>1. g # f /\ entry'[g] = entry[g]
    BY <1>2, <1>3, <1>7
  <2>2. entry[g].sess \in OnList /\ entry[g].sess \notin events
    BY <1>7, <2>1 DEF Told
  <2>3. entry[g].sess = s => fd[s] = g
    BY Constants DEF Told
  <2>4. entry[g].sess # s
    BY <2>1, <2>3, Constants
  <2> QED  BY <2>1, <2>2, <2>4
<1>8. ASSUME NEW x \in Chunks, fd'[x] # None
      PROVE  IF waiter' = "epoll" THEN x \in added' <=> entry'[fd'[x]].sess # None
             ELSE x \notin OnList' \/ x \in events' => entry'[fd'[x]].sess = None
  <2>1. x # s /\ fd'[x] = fd[x] /\ fd[x] \in Fds /\ fd[x] # f
    BY <1>1, <1>2, <1>8
  <2>2. entry'[fd'[x]] = entry[fd[x]]
    BY <1>2, <2>1
  <2>3. IF waiter = "epoll" THEN x \in added <=> entry[fd[x]].sess # None
        ELSE x \notin OnList \/ x \in events => entry[fd[x]].sess = None
    BY <1>8, <2>1 DEF Told
  <2>4. x \in added' <=> x \in added
    BY <2>1
  <2> QED  BY <2>1, <2>2, <2>3, <2>4
<1>9. \A x \in added' : fd'[x] # None \/ x \in lost'
  BY <1>1, <1>2 DEF Told
<1>10. \A i \in 1 .. Len(ki') : /\ ki'[i].sess \in OnList' /\ ki'[i].sess \notin events'
                                /\ fd'[ki'[i].sess] = ki'[i].fd
  <2>1. \A i \in 1 .. Len(ki) : ki[i].sess \in Chunks
    <3>1. \A i \in 1 .. Len(ki) : ki[i] \in Changes
      BY <1>1
    <3> QED  BY <3>1 DEF Changes
  <2> QED  BY <1>2, <2>1 DEF Told
<1>11. waiter' # "kqueue" \/ wpc' = "scan" => ki' = <<>>
  BY DEF Told
<1>12. waiter' \in {"epoll", "kqueue", "ports", "poll"} /\ ki' \in Seq(Changes)
  BY DEF Told
<1> QED  BY <1>4, <1>6, <1>7, <1>8, <1>9, <1>10, <1>11, <1>12 DEF Told

\* A session whose event was handled leaves the waiter.
LEMMA ToldTaken ==
  ASSUME NEW p, Owned(p), Told, NEW s \in Chunks, s \in events,
         fd' = fd, entry' = entry, added' = added, lost' = lost,
         OnList' = OnList \ {s}, events' = events \ {s},
         waiter' = waiter, wpc' = wpc, ki' = ki
  PROVE  Told'
<1>1. \A f \in Fds : entry[f].armed => entry[f].sess # s
  BY DEF Told
<1>2. \A i \in 1 .. Len(ki) : ki[i].sess # s
  BY DEF Told
<1>3. \A x \in Chunks : fd[x] # None =>
        IF waiter = "epoll" THEN x \in added <=> entry[fd[x]].sess # None
        ELSE x \notin OnList' \/ x \in events' => entry[fd[x]].sess = None
  BY DEF Told
<1>4. events' \subseteq Chunks \cup {Pipe}
  BY DEF Told
<1> QED  BY <1>1, <1>2, <1>3, <1>4 DEF Told

\* The acceptor gives its descriptor to a session.
LEMMA ToldOpened ==
  ASSUME NEW p, Owned(p), Told, Loop, OnList \subseteq Chunks,
         NEW s \in Chunks, fd[s] = None, s \notin lost, s \notin OnList,
         acc.pc # "poll", fd' = [fd EXCEPT ![s] = acc.fd],
         OnList' = OnList,
         UNCHANGED <<waiter, entry, added, lost, events, wpc, ki>>
  PROVE  Told'
<1>1. fd \in [Chunks -> Fds \cup {None}] /\ entry \in [Fds -> Entries]
      /\ ki \in Seq(Changes) /\ added \subseteq Chunks
  BY DEF Owned, Told
<1>2. \A x \in Chunks : fd'[x] = IF x = s THEN acc.fd ELSE fd[x]
  BY <1>1
<1>3. acc.fd \in Fds /\ \A x \in Chunks : fd[x] # acc.fd
  BY DEF Owned
<1>4. \A f \in Fds : entry[f].sess # None =>
        entry[f].sess \in Chunks /\ fd[entry[f].sess] = f /\ entry[f].sess # s /\ f # acc.fd
  <2>1. \A f \in Fds : entry[f].sess \in Chunks \cup {None}
    BY <1>1 DEF Entries
  <2>2. \A f \in Fds : entry[f].sess # None => fd[entry[f].sess] = f
    BY DEF Told
  <2>3. ASSUME NEW f \in Fds, entry[f].sess # None
        PROVE  /\ entry[f].sess \in Chunks /\ fd[entry[f].sess] = f
               /\ entry[f].sess # s /\ f # acc.fd
    <3>1. entry[f].sess \in Chunks /\ fd[entry[f].sess] = f
      BY <2>1, <2>2, <2>3
    <3>2. f # None
      BY Constants
    <3> QED  BY <1>3, <3>1, <3>2
  <2> QED  BY <2>3, Zenon
<1>5. \A x \in Chunks : fd'[x] # None =>
        IF waiter = "epoll" THEN x \in added <=> entry[fd'[x]].sess # None
        ELSE x \notin OnList \/ x \in events => entry[fd'[x]].sess = None
  <2>1. s \notin added /\ entry[acc.fd].sess = None
    BY <1>3, <1>4 DEF Told
  <2>2. ASSUME NEW x \in Chunks, x # s, fd'[x] # None
        PROVE  IF waiter = "epoll" THEN x \in added <=> entry[fd'[x]].sess # None
               ELSE x \notin OnList \/ x \in events => entry[fd'[x]].sess = None
    BY <1>2, <2>2 DEF Told
  <2> QED  BY <1>2, <2>1, <2>2
<1>6. \A f \in Fds : entry[f].sess # None => fd'[entry[f].sess] = f
  BY <1>2, <1>4
<1>7. \A x \in added : fd'[x] # None \/ x \in lost
  BY <1>1, <1>2, <1>3, Constants DEF Told
<1>8. \A i \in 1 .. Len(ki) : fd'[ki[i].sess] = ki[i].fd
  BY <1>2 DEF Told
<1> QED  BY <1>5, <1>6, <1>7, <1>8 DEF Told

\* The waiter's list, events and walk are not touched.
LEMMA LoopKept ==
  ASSUME Loop, OnList' = OnList, \A x \in OnList : fd'[x] = fd[x],
         \A f \in Fds : entry[f].sess = None => entry'[f].sess = None,
         UNCHANGED <<waiter, pollfd, walk, wpc, events>>
  PROVE  Loop'
<1>1. {fd'[s] : s \in OnList'} = {fd[s] : s \in OnList}
  OBVIOUS
<1>2. waiter' = "poll" => \A f \in Fds : entry'[f].sess = None
  BY DEF Loop
<1>3. waiter' = "poll" => pollfd' = {fd'[s] : s \in OnList'}
  BY <1>1 DEF Loop
<1> QED  BY <1>2, <1>3 DEF Loop

\* A waiter other than poll takes a session off its list.
LEMMA LoopTaken ==
  ASSUME Loop, waiter # "poll", NEW s, OnList' = OnList \ {s}, events' = events \ {s},
         wpc' = wpc, UNCHANGED <<waiter, pollfd, walk>>
  PROVE  Loop'
<1>1. walk = <<>>
  BY DEF Loop
<1>2. ToSet(walk) = {}
  BY <1>1, NoneOnEmpty
<1>3. events' \ {Pipe} \subseteq OnList' /\ (wpc' \in {"wait", "scan"} => events' = {})
  BY DEF Loop
<1> QED  BY <1>2, <1>3 DEF Loop

-----------------------------------------------------------------------------
(* SES_Delete and vca_close_session *)

\* What putting s up for adoption does to the free lists.
PutTo(s, to) ==
  /\ InFree(0)' = IF to = "free0" THEN InFree(0) \cup {s} ELSE InFree(0)
  /\ InFree(1)' = IF to = "free1" THEN InFree(1) \cup {s} ELSE InFree(1)
  /\ freeq' \in [0 .. 1 -> Seq(Chunks)] /\ Once(freeq'[0]) /\ Once(freeq'[1])
  /\ freeq'[qp] = freeq[qp]

\* What is put back is on one of the two free lists.
LEMMA PutBackTo ==
  ASSUME Kept, NEW s \in Chunks, s \notin InFree(0), s \notin InFree(1), PutBack(s)
  PROVE  \E to \in {"free0", "free1"} : PutTo(s, to)
<1>1. /\ freeq \in [0 .. 1 -> Seq(Chunks)] /\ freeq[0] \in Seq(Chunks) /\ freeq[1] \in Seq(Chunks)
      /\ Once(freeq[0]) /\ Once(freeq[1])
  BY DEF Kept
<1>2. CASE qp = 0
  <2>1. freeq' = [freeq EXCEPT ![1] = <<s>> \o freeq[1]]
    BY <1>2 DEF PutBack
  <2>2. PICK q : q = <<s>> \o freeq[1]
    OBVIOUS
  <2>3. q \in Seq(Chunks) /\ Once(q) /\ ToSet(q) = ToSet(freeq[1]) \cup {s}
    BY <1>1, <2>2, Pushed DEF InFree
  <2>4. freeq'[0] = freeq[0] /\ freeq'[1] = q /\ freeq' \in [0 .. 1 -> Seq(Chunks)]
    BY <1>1, <2>1, <2>2, <2>3
  <2>5. PutTo(s, "free1")
    BY <1>1, <1>2, <2>3, <2>4 DEF PutTo, InFree
  <2> QED  BY <2>5
<1>3. CASE qp = 1
  <2>1. freeq' = [freeq EXCEPT ![0] = <<s>> \o freeq[0]]
    BY <1>3 DEF PutBack
  <2>2. PICK q : q = <<s>> \o freeq[0]
    OBVIOUS
  <2>3. q \in Seq(Chunks) /\ Once(q) /\ ToSet(q) = ToSet(freeq[0]) \cup {s}
    BY <1>1, <2>2, Pushed DEF InFree
  <2>4. freeq'[1] = freeq[1] /\ freeq'[0] = q /\ freeq' \in [0 .. 1 -> Seq(Chunks)]
    BY <1>1, <2>1, <2>2, <2>3
  <2>5. PutTo(s, "free0")
    BY <1>1, <1>3, <2>3, <2>4 DEF PutTo, InFree
  <2> QED  BY <2>5
<1> QED  BY <1>2, <1>3 DEF Kept

\* SES_Delete frees s, or puts it up for adoption.
Freed(s, to) ==
  /\ PutTo(s, to) /\ qp' = qp
  /\ mem' = IF to = "none" THEN mem \ {s} ELSE mem
  /\ IsFiniteSet(mem') /\ nsess' = Cardinality(mem') /\ nsess' <= nsess

\* SES_Delete frees the memory or puts it on a free list.
LEMMA Deleted ==
  ASSUME NEW p, Inv(p), NEW t, NEW s \in mem, s \notin InFree(0), s \notin InFree(1),
         SES_Delete(t, s)
  PROVE  \E to \in {"none", "free0", "free1"} : Freed(s, to)
<1>1. IsFiniteSet(mem) /\ nsess = Cardinality(mem) /\ nsess \in Nat
  BY FS_CardinalityType DEF Inv, Bound
<1>2. qp' = qp /\ s \in Chunks
  BY DEF SES_Delete, Inv, Where
<1>3. CASE mem' = mem \ {s} /\ nsess' = nsess - 1 /\ UNCHANGED freeq
  <2>1. PICK M : M = mem
    OBVIOUS
  <2>2. IsFiniteSet(M \ {s}) /\ Cardinality(M \ {s}) = Cardinality(M) - 1
    BY <1>1, <2>1, FS_RemoveElement
  <2>3. PutTo(s, "none")
    BY <1>3 DEF PutTo, InFree, Inv, Kept
  <2>4. Freed(s, "none")
    BY <1>1, <1>2, <1>3, <2>1, <2>2, <2>3 DEF Freed
  <2> QED  BY <2>4
<1>4. CASE PutBack(s) /\ mem' = mem /\ nsess' = nsess
  <2>1. PICK to \in {"free0", "free1"} : PutTo(s, to)
    BY <1>2, <1>4, PutBackTo DEF Inv
  <2>2. Freed(s, to)
    BY <1>1, <1>2, <1>4, <2>1 DEF Freed
  <2> QED  BY <2>2
<1> QED  BY <1>3, <1>4 DEF SES_Delete

\* Memory that is freed leaves the bound.
LEMMA BoundFell ==
  ASSUME Bound, NEW s, NEW to, Freed(s, to), Allocs' \subseteq Allocs
  PROVE  Bound'
<1>1. IsFiniteSet(Allocs) /\ Cardinality(Allocs) \in Nat
  BY Constants, FS_Subset, FS_CardinalityType DEF Allocs
<1>2. PICK A, B, M : A = Allocs /\ B = Allocs' /\ M = mem'
  OBVIOUS
<1>3. Cardinality(B) <= Cardinality(A) /\ Cardinality(B) \in Nat
  BY <1>1, <1>2, FS_Subset, FS_CardinalityType
<1>4. nsess \in Nat /\ MaxSess \in Nat /\ Cardinality(Threads) \in Nat
  BY Constants, FS_CardinalityType DEF Bound
<1>5. nsess' \in Nat
  <2>1. IsFiniteSet(M) /\ nsess' = Cardinality(M)
    BY <1>2 DEF Freed
  <2> QED  BY <2>1, FS_CardinalityType
<1>6. nsess' + Cardinality(B) < MaxSess + Cardinality(Threads)
  <2>1. nsess + Cardinality(A) < MaxSess + Cardinality(Threads)
    BY <1>2 DEF Bound
  <2>2. nsess' <= nsess
    BY DEF Freed
  <2> QED  BY <1>1, <1>2, <1>3, <1>4, <1>5, <2>1, <2>2
<1> QED  BY <1>2, <1>6 DEF Bound, Freed

\* The invariant but for what the waiter's loop has.
Most(r) == Where(r) /\ Kept /\ Owned(r) /\ Told /\ Bound

\* Thread t, which has taken session s from where it was, closes its
\* descriptor and deletes it.
LEMMA ClosedDeleted ==
  ASSUME NEW p, Inv(p), NEW t \in Threads, Free(t),
         NEW s \in Chunks, p[s] \in {"acc", "work", "list"},
         NEW f \in Fds, fd[s] \in {f, None}, \A x \in Chunks : x # s => fd[x] # f,
         CloseDelete(t, s, f),
         acc' \in AccStates,
         acc'.pc = "poll" \/ (acc' = acc /\ acc.fd # f /\ t # "acceptor"),
         Goes(WithAcc, WithAcc', "acc", s, p[s], "none"),
         Goes(AtWork, AtWork', "work", s, p[s], "none"),
         work' \in [Workers -> Jobs \cup {Idle}], WorkOnce',
         OnList' = OnList \ {s}, sesshead' \in Seq(Chunks), Once(sesshead'),
         events' = events \ {s}, \A i \in 1 .. Len(ki) : ki[i].sess # s,
         UNCHANGED <<waiter, wpc, ki, lost, pipe>>
  PROVE  /\ \E r \in [Chunks -> PlaceNames] : Most(r)'
         /\ fd' = [fd EXCEPT ![s] = None]
         /\ \A g \in Fds : entry[g].sess = None => entry'[g].sess = None
<1>1. /\ Where(p) /\ Kept /\ Owned(p) /\ Told /\ Bound /\ p \in [Chunks -> PlaceNames]
  BY DEF Inv, Where
<1>2. s \in mem /\ s \notin InFree(0) /\ s \notin InFree(1)
  BY <1>1 DEF Where
<1>3. /\ SES_Delete(t, s) /\ queue' = queue
      /\ in' = [in EXCEPT ![f] = Closed] /\ entry' = [entry EXCEPT ![f] = NoEntry]
      /\ fd' = [fd EXCEPT ![s] = None] /\ added' = added \ {s}
      /\ del' = [del EXCEPT ![t] = "check"]
  BY DEF CloseDelete, Close, SES_Delete, ses_setup
<1>4. PICK to \in {"none", "free0", "free1"} : Freed(s, to)
  BY <1>2, <1>3, Deleted
<1>5. PICK r : r = [p EXCEPT ![s] = to]
  OBVIOUS
<1>6. Moves(s, p[s], to)
  <2>1. mem' = IF to = "none" THEN mem \ {s} ELSE mem \cup {s}
    BY <1>2, <1>4 DEF Freed
  <2>2. /\ Goes(InFree(0), InFree(0)', "free0", s, p[s], to)
        /\ Goes(InFree(1), InFree(1)', "free1", s, p[s], to)
    BY <1>4 DEF Freed, PutTo, Goes
  <2>3. /\ Goes(WithAcc, WithAcc', "acc", s, p[s], to)
        /\ Goes(AtWork, AtWork', "work", s, p[s], to)
    BY DEF Goes
  <2>4. Goes(InQueue, InQueue', "queue", s, p[s], to)
    BY <1>3 DEF Goes, InQueue
  <2>5. Goes(InPipe, InPipe', "pipe", s, p[s], to) /\ Goes(lost, lost', "lost", s, p[s], to)
    BY DEF Goes, InPipe
  <2>6. Goes(OnList, OnList', "list", s, p[s], to)
    BY <1>1 DEF Goes, Where
  <2> QED  BY <2>1, <2>2, <2>3, <2>4, <2>5, <2>6 DEF Moves
<1>7. Where(r)' /\ r \in [Chunks -> PlaceNames]
  <2>1. to \in PlaceNames
    BY DEF PlaceNames
  <2>2. Where([p EXCEPT ![s] = to])' /\ [p EXCEPT ![s] = to] \in [Chunks -> PlaceNames]
    BY <1>1, <1>6, <2>1, Moved
  <2> QED  BY <1>5, <2>2
<1>8. Kept'
  <2>1. /\ freeq' \in [0 .. 1 -> Seq(Chunks)] /\ Once(freeq'[0]) /\ Once(freeq'[1])
        /\ freeq'[qp] = freeq[qp] /\ qp' = qp
    BY <1>4 DEF Freed, PutTo
  <2>2. acc'.pc = "take" => freeq'[qp'] # <<>> /\ freeq'[qp'][1] = acc'.sm
    BY <1>1, <2>1 DEF Kept
  <2> QED  BY <1>1, <1>3, <2>1, <2>2 DEF Kept
<1>9. del' \in DelStates
  BY <1>1, <1>3 DEF Owned, DelStates
<1>10. Owned(r)'
  <2>1. to \in PlaceNames \ Open
    BY DEF PlaceNames, Open
  <2>2. t # "acceptor" => del'["acceptor"] = del["acceptor"]
    BY <1>1, <1>3, Constants DEF Owned, DelStates
  <2> QED  BY <1>1, <1>3, <1>5, <1>9, <2>1, <2>2, OwnedClosed
<1>11. Told'
  BY <1>1, <1>3, ToldClosed
<1>12. Bound'
  <2>1. \A x \in Threads : del'[x] = "alloc" => del[x] = "alloc"
    BY <1>1, <1>3 DEF Owned, DelStates
  <2>2. Allocs' \subseteq Allocs
    BY <2>1, AllocsKept
  <2> QED  BY <1>1, <1>4, <2>2, BoundFell
<1>13. \A g \in Fds : entry[g].sess = None => entry'[g].sess = None
  BY <1>1, <1>3 DEF Told, NoEntry
<1> QED  BY <1>3, <1>7, <1>8, <1>10, <1>11, <1>12, <1>13 DEF Most

-----------------------------------------------------------------------------
(* The acceptor *)

\* Steps that touch no list keep Where.
LEMMA WhereKept ==
  ASSUME NEW p, Where(p), WithAcc' = WithAcc,
         UNCHANGED <<mem, freeq, queue, work, pipe, sesshead, lost>>
  PROVE  Where(p)'
<1>1. InFree(0)' = InFree(0) /\ InFree(1)' = InFree(1) /\ InQueue' = InQueue
      /\ AtWork' = AtWork /\ InPipe' = InPipe /\ OnList' = OnList
  BY DEF InFree, InQueue, AtWork, InPipe, OnList
<1> QED  BY <1>1 DEF Where

\* Steps that touch nothing of the kernel's and the waiter's keep Told.
LEMMA ToldKept ==
  ASSUME Told, UNCHANGED <<waiter, entry, added, ki, events, fd, sesshead, lost, wpc>>
  PROVE  Told'
<1> QED  BY DEF Told, OnList

\* Steps that touch nothing of the waiter's keep Loop.
LEMMA LoopSame ==
  ASSUME Loop, UNCHANGED <<waiter, entry, fd, sesshead, pollfd, walk, wpc, events>>
  PROVE  Loop'
<1> QED  BY DEF Loop, OnList

\* The acceptor's accept keeps the invariant.
LEMMA AcceptStep ==
  ASSUME NEW p, Inv(p), Accept
  PROVE  IInv'
<1>1. /\ Where(p) /\ Kept /\ Owned(p) /\ Told /\ Loop /\ Bound /\ p \in [Chunks -> PlaceNames]
  BY DEF Inv, Where
<1>2. PICK f : f = Min(FreeFds)
  OBVIOUS
<1>3. f \in Fds /\ in[f] = Closed
  <2>1. PICK F : F = FreeFds
    OBVIOUS
  <2>2. F \in SUBSET Nat /\ F # {}
    BY <2>1, Constants DEF Accept, FreeFds
  <2>3. Min(F) \in F
    BY <2>2, MinOf
  <2> QED  BY <1>2, <2>1, <2>3 DEF FreeFds
<1>4. /\ UNCHANGED <<waiter, work, pipe, sesshead, ki, pollfd, walk, wpc, events, lost>>
      /\ UNCHANGED <<mem, nsess, freeq, qp, del, fd, added, queue, entry>>
      /\ acc.pc = "poll" /\ del["acceptor"] = "idle"
      /\ in' = [in EXCEPT ![f] = "none"]
      /\ acc' = [pc |-> IF freeq[qp] = <<>> THEN "flip" ELSE "take", fd |-> f, sm |-> First(freeq[qp])]
  BY <1>2 DEF Accept, Accepts, Free, waitVars, memVars, sessVars
<1>5. freeq[qp] \in Seq(Chunks)
  BY <1>1 DEF Kept
<1>6. First(freeq[qp]) \in Chunks \cup {None} /\ (freeq[qp] # <<>> => First(freeq[qp]) = freeq[qp][1])
  BY <1>5, HeadTailProperties, Constants DEF First
<1>7. acc' \in AccStates /\ acc'.pc \in {"flip", "take"} /\ acc'.fd = f /\ acc'.sm = First(freeq[qp])
  BY <1>3, <1>4, <1>6 DEF AccStates
<1>8. acc'.pc = "take" => freeq[qp] # <<>>
  BY <1>4
<1>9. Where(p)'
  <2>1. WithAcc' = WithAcc
    BY <1>4, <1>7 DEF WithAcc
  <2> QED  BY <1>1, <1>4, <2>1, WhereKept
<1>10. Kept'
  BY <1>1, <1>4, <1>6, <1>7, <1>8 DEF Kept, WorkOnce
<1>11. Owned(p)'
  <2>1. in \in Inputs /\ in' \in Inputs /\ fd \in [Chunks -> Fds \cup {None}]
        /\ \A g \in Fds : in'[g] = IF g = f THEN "none" ELSE in[g]
    BY <1>1, <1>3, <1>4 DEF Owned, Inputs
  <2>2. \A s \in Chunks : fd[s] # f
    BY <1>1, <1>3, Constants DEF Owned
  <2>3. \A s \in Chunks : fd'[s] # None => in'[fd'[s]] # Closed
    BY <1>1, <1>4, <2>1, <2>2 DEF Owned, Closed
  <2>4. in'[f] # Closed
    BY <1>3, <2>1 DEF Closed
  <2> QED  BY <1>1, <1>3, <1>4, <1>7, <2>1, <2>2, <2>3, <2>4 DEF Owned
<1>12. Told' /\ Loop'
  BY <1>1, <1>4, ToldKept, LoopSame
<1>13. Bound'
  BY <1>1, <1>4, <1>7, AllocsKept, BoundKept
<1> QED  BY <1>1, <1>9, <1>10, <1>11, <1>12, <1>13 DEF IInv, Inv

\* SES_New's look at the other free list keeps the invariant.
LEMMA SesFlipStep ==
  ASSUME NEW p, Inv(p), SesFlip
  PROVE  IInv'
<1>1. /\ Where(p) /\ Kept /\ Owned(p) /\ Told /\ Loop /\ Bound /\ p \in [Chunks -> PlaceNames]
  BY DEF Inv, Where
<1>4. /\ UNCHANGED <<waiter, work, pipe, sesshead, ki, pollfd, walk, wpc, events, lost>>
      /\ UNCHANGED <<mem, nsess, freeq, del, fd, added, queue, entry, in>>
      /\ acc.pc = "flip" /\ qp' = 1 - qp
      /\ acc' = [acc EXCEPT !.pc = IF freeq[qp'] = <<>> THEN "check" ELSE "take",
                            !.sm = First(freeq[qp'])]
  BY DEF SesFlip, Accepts, waitVars, memVars, sessVars
<1>5. qp' \in 0 .. 1 /\ freeq[qp'] \in Seq(Chunks)
  BY <1>1, <1>4 DEF Kept
<1>6. First(freeq[qp']) \in Chunks \cup {None} /\ (freeq[qp'] # <<>> => First(freeq[qp']) = freeq[qp'][1])
  <2>1. PICK q : q = freeq[qp']
    OBVIOUS
  <2>2. First(q) \in Chunks \cup {None} /\ (q # <<>> => First(q) = q[1])
    BY <1>5, <2>1, HeadTailProperties, Constants DEF First
  <2> QED  BY <2>1, <2>2
<1>7. acc' \in AccStates /\ acc'.pc \in {"check", "take"} /\ acc'.fd = acc.fd /\ acc'.sm = First(freeq[qp'])
  BY <1>1, <1>4, <1>6 DEF AccStates, Owned
<1>8. acc'.pc = "take" => freeq[qp'] # <<>>
  BY <1>1, <1>4 DEF Owned, AccStates
<1>9. Where(p)'
  <2>1. WithAcc' = WithAcc
    BY <1>4, <1>7 DEF WithAcc
  <2> QED  BY <1>1, <1>4, <2>1, WhereKept
<1>10. Kept'
  BY <1>1, <1>4, <1>5, <1>6, <1>7, <1>8 DEF Kept, WorkOnce
<1>11. Owned(p)'
  BY <1>1, <1>4, <1>7, OwnedKept DEF Owned
<1>12. Told' /\ Loop'
  BY <1>1, <1>4, ToldKept, LoopSame
<1>13. Bound'
  BY <1>1, <1>4, <1>7, AllocsKept, BoundKept
<1> QED  BY <1>1, <1>9, <1>10, <1>11, <1>12, <1>13 DEF IInv, Inv

\* There is room for one more at the limit, and at most all threads have seen it.
LEMMA RoomSeen ==
  ASSUME Bound, nsess < MaxSess, mem' = mem, nsess' = nsess
  PROVE  Bound'
<1>1. PICK A : A = Allocs'
  OBVIOUS
<1>2. A \subseteq Threads
  BY <1>1 DEF Allocs
<1>3. Cardinality(A) <= Cardinality(Threads) /\ Cardinality(A) \in Nat
  BY <1>2, Constants, FS_Subset, FS_CardinalityType
<1>4. nsess \in Nat /\ MaxSess \in Nat /\ Cardinality(Threads) \in Nat
  BY Constants, FS_CardinalityType DEF Bound
<1>5. nsess + Cardinality(A) < MaxSess + Cardinality(Threads)
  BY <1>3, <1>4
<1> QED  BY <1>1, <1>5 DEF Bound

\* SES_New's look at n_sess keeps the invariant.
LEMMA SesCheckStep ==
  ASSUME NEW p, Inv(p), SesCheck
  PROVE  IInv'
<1>1. /\ Where(p) /\ Kept /\ Owned(p) /\ Told /\ Loop /\ Bound /\ p \in [Chunks -> PlaceNames]
  BY DEF Inv, Where
<1>2. /\ UNCHANGED <<waiter, work, pipe, sesshead, ki, pollfd, walk, wpc, events, lost>>
      /\ UNCHANGED <<mem, nsess, freeq, qp, del, fd, added, queue>>
      /\ acc.pc = "check"
  BY DEF SesCheck, Accepts, waitVars, memVars, sessVars
<1>3. /\ acc.fd \in Fds /\ del["acceptor"] = "idle" /\ \A s \in Chunks : fd[s] # acc.fd
      /\ in \in Inputs /\ entry \in [Fds -> Entries] /\ fd \in [Chunks -> Fds \cup {None}]
      /\ del \in DelStates
  BY <1>1, <1>2 DEF Owned, Told
<1>4. CASE Full /\ acc' = AtPoll /\ Close(acc.fd)
  <2>1. /\ in' = [in EXCEPT ![acc.fd] = Closed] /\ entry' = [entry EXCEPT ![acc.fd] = NoEntry]
    BY <1>4 DEF Close
  <2>2. entry[acc.fd] = NoEntry
    <3>1. entry[acc.fd].sess \in Chunks \cup {None} /\ entry[acc.fd].armed \in BOOLEAN
          /\ entry[acc.fd] = [sess |-> entry[acc.fd].sess, armed |-> entry[acc.fd].armed]
      BY <1>3 DEF Entries
    <3>2. entry[acc.fd].sess = None
      BY <1>1, <1>3, <3>1 DEF Told
    <3>3. entry[acc.fd].armed = FALSE
      <4>1. OnList \subseteq Chunks
        BY <1>1 DEF Where
      <4> QED  BY <1>1, <1>3, <3>1, <3>2, <4>1, Constants DEF Told
    <3> QED  BY <3>1, <3>2, <3>3 DEF NoEntry
  <2>3. entry' = entry
    BY <1>3, <2>1, <2>2
  <2>4. acc' \in AccStates /\ acc'.pc = "poll"
    BY <1>4 DEF AtPoll, AccStates
  <2>5. WithAcc' = WithAcc
    BY <1>2, <2>4 DEF WithAcc
  <2>6. Kept'
    BY <1>1, <1>2, <2>4 DEF Kept, WorkOnce
  <2>7. Owned(p)'
    <3>1. in' \in Inputs /\ \A g \in Fds : g # acc.fd => in'[g] = in[g]
      BY <1>3, <2>1 DEF Inputs
    <3>2. \A s \in Chunks : fd'[s] # None => in'[fd'[s]] # Closed
      BY <1>1, <1>2, <1>3, <3>1 DEF Owned
    <3> QED  BY <1>1, <1>2, <2>4, <3>1, <3>2 DEF Owned
  <2>8. Where(p)' /\ Told' /\ Loop'
    BY <1>1, <1>2, <2>3, <2>5, WhereKept, ToldKept, LoopSame
  <2>9. Bound'
    BY <1>1, <1>2, <2>4, AllocsKept, BoundKept
  <2> QED  BY <1>1, <2>6, <2>7, <2>8, <2>9 DEF IInv, Inv
<1>5. CASE ~ Full /\ acc' = [acc EXCEPT !.pc = "alloc"] /\ UNCHANGED <<in, entry>>
  <2>1. acc' \in AccStates /\ acc'.pc = "alloc" /\ acc'.fd = acc.fd
    BY <1>1, <1>5 DEF AccStates, Owned
  <2>2. WithAcc' = WithAcc
    BY <1>2, <2>1 DEF WithAcc
  <2>3. Where(p)' /\ Told' /\ Loop'
    BY <1>1, <1>2, <1>5, <2>2, WhereKept, ToldKept, LoopSame
  <2>4. Kept'
    BY <1>1, <1>2, <2>1 DEF Kept, WorkOnce
  <2>5. Owned(p)'
    BY <1>1, <1>2, <1>3, <1>5, <2>1, OwnedKept
  <2>6. nsess < MaxSess
    <3>1. nsess \in Nat
      BY <1>1, FS_CardinalityType DEF Bound
    <3> QED  BY <1>5, <3>1, Constants DEF Full
  <2>7. Bound'
    BY <1>1, <1>2, <2>6, RoomSeen
  <2> QED  BY <1>1, <2>3, <2>4, <2>5, <2>7 DEF IInv, Inv
<1> QED  BY <1>4, <1>5 DEF SesCheck

\* malloc gives a piece that is in use nowhere.
LEMMA MallocNew ==
  ASSUME NEW p, Where(p), mem # Chunks
  PROVE  Malloc \in Chunks /\ p[Malloc] = "none" /\ Malloc \notin mem
<1>1. PICK M : M = Chunks \ mem
  OBVIOUS
<1>2. M \in SUBSET Nat /\ M # {}
  BY <1>1, Constants DEF Where
<1>3. Min(M) \in M
  BY <1>2, MinOf
<1> QED  BY <1>1, <1>3 DEF Malloc, Where

\* A thread that has looked at the limit counts its piece.
LEMMA BoundCounted ==
  ASSUME Bound, NEW s, s \notin mem, mem' = mem \cup {s}, nsess' = nsess + 1,
         NEW t \in Allocs, Allocs' \subseteq Allocs \ {t}
  PROVE  Bound'
<1>1. PICK A, B, M : A = Allocs /\ B = Allocs' /\ M = mem
  OBVIOUS
<1>2. IsFiniteSet(A) /\ Cardinality(A) \in Nat
  BY <1>1, Constants, FS_Subset, FS_CardinalityType DEF Allocs
<1>3. IsFiniteSet(A \ {t}) /\ Cardinality(A \ {t}) = Cardinality(A) - 1
  BY <1>1, <1>2, FS_RemoveElement
<1>4. Cardinality(B) <= Cardinality(A \ {t}) /\ Cardinality(B) \in Nat
  BY <1>1, <1>3, FS_Subset, FS_CardinalityType
<1>5. IsFiniteSet(M) /\ nsess = Cardinality(M) /\ nsess \in Nat
  BY <1>1, FS_CardinalityType DEF Bound
<1>6. IsFiniteSet(M \cup {s}) /\ Cardinality(M \cup {s}) = Cardinality(M) + 1
  BY <1>1, <1>5, FS_AddElement
<1>7. nsess + Cardinality(A) < MaxSess + Cardinality(Threads)
  BY <1>1 DEF Bound
<1>8. MaxSess \in Nat /\ Cardinality(Threads) \in Nat
  BY Constants
<1>9. (nsess + 1) + Cardinality(B) < MaxSess + Cardinality(Threads)
  BY <1>2, <1>3, <1>4, <1>5, <1>7, <1>8
<1> QED  BY <1>1, <1>5, <1>6, <1>9 DEF Bound

\* SES_New's malloc keeps the invariant.
LEMMA SesAllocStep ==
  ASSUME NEW p, Inv(p), SesAlloc
  PROVE  IInv'
<1>1. /\ Where(p) /\ Kept /\ Owned(p) /\ Told /\ Loop /\ Bound /\ p \in [Chunks -> PlaceNames]
  BY DEF Inv, Where
<1>2. PICK s : s = Malloc
  OBVIOUS
<1>3. s \in Chunks /\ p[s] = "none" /\ s \notin mem
  BY <1>1, <1>2, MallocNew DEF SesAlloc
<1>4. /\ UNCHANGED <<waiter, work, pipe, sesshead, ki, pollfd, walk, wpc, events, lost>>
      /\ UNCHANGED <<freeq, qp, del, fd, added, queue, entry, in>>
      /\ mem' = mem \cup {s} /\ nsess' = nsess + 1
      /\ acc.pc = "alloc" /\ acc' = [acc EXCEPT !.pc = "queue", !.sm = s]
  BY <1>2 DEF SesAlloc, ses_sm_alloc, Accepts, waitVars, memVars, sessVars
<1>5. acc' \in AccStates /\ acc'.pc = "queue" /\ acc'.sm = s /\ acc'.fd = acc.fd
  BY <1>1, <1>3, <1>4 DEF AccStates, Owned
<1>6. PICK r : r = [p EXCEPT ![s] = "acc"]
  OBVIOUS
<1>7. Moves(s, p[s], "acc")
  BY <1>3, <1>4, <1>5 DEF Moves, Goes, InFree, WithAcc, InQueue, AtWork, InPipe, OnList
<1>8. Where(r)' /\ r \in [Chunks -> PlaceNames]
  <2>1. "acc" \in PlaceNames
    BY DEF PlaceNames
  <2> QED  BY <1>1, <1>3, <1>6, <1>7, <2>1, Moved
<1>9. Kept'
  BY <1>1, <1>4, <1>5 DEF Kept, WorkOnce
<1>10. Owned(r)'
  <2>1. \A x \in Chunks : r[x] \in Open <=> p[x] \in Open
    BY <1>1, <1>3, <1>6 DEF Open
  <2>2. in \in Inputs /\ del \in DelStates /\ del["acceptor"] = "idle"
    BY <1>1, <1>4 DEF Owned
  <2> QED  BY <1>1, <1>4, <1>5, <1>8, <2>1, <2>2, OwnedKept
<1>11. Told' /\ Loop'
  BY <1>1, <1>4, ToldKept, LoopSame
<1>12. Bound'
  <2>1. "acceptor" \in Allocs
    BY <1>4, Constants DEF Allocs
  <2>2. del["acceptor"] = "idle"
    BY <1>1, <1>4 DEF Owned
  <2>3. Allocs' \subseteq Allocs \ {"acceptor"}
    BY <1>4, <1>5, <2>2 DEF Allocs, Threads
  <2> QED  BY <1>1, <1>3, <1>4, <2>1, <2>3, BoundCounted
<1> QED  BY <1>8, <1>9, <1>10, <1>11, <1>12 DEF IInv, Inv

\* SES_New's use of free memory keeps the invariant.
LEMMA SesTakeStep ==
  ASSUME NEW p, Inv(p), SesTake
  PROVE  IInv'
<1>1. /\ Where(p) /\ Kept /\ Owned(p) /\ Told /\ Loop /\ Bound /\ p \in [Chunks -> PlaceNames]
  BY DEF Inv, Where
<1>2. PICK s : s = acc.sm
  OBVIOUS
<1>3. /\ UNCHANGED <<waiter, work, pipe, sesshead, ki, pollfd, walk, wpc, events, lost>>
      /\ UNCHANGED <<mem, nsess, qp, del, fd, added, queue, entry, in>>
      /\ freeq' = [freeq EXCEPT ![qp] = RemoveFirst(freeq[qp], s)]
      /\ acc.pc = "take" /\ acc' = [acc EXCEPT !.pc = "queue"]
  BY <1>2 DEF SesTake, Accepts, waitVars, memVars, sessVars
<1>4. acc' \in AccStates /\ acc'.pc = "queue" /\ acc'.sm = s /\ acc'.fd = acc.fd
  BY <1>1, <1>2, <1>3 DEF AccStates, Owned
<1>5. /\ freeq \in [0 .. 1 -> Seq(Chunks)] /\ qp \in 0 .. 1 /\ freeq[qp] \in Seq(Chunks)
      /\ Once(freeq[0]) /\ Once(freeq[1]) /\ Once(freeq[qp])
      /\ freeq[qp] # <<>> /\ freeq[qp][1] = s
  BY <1>1, <1>2, <1>3 DEF Kept
<1>6. PICK q, h : q = freeq[qp] /\ h = RemoveFirst(q, s)
  OBVIOUS
<1>7. s \in ToSet(q) /\ s \in Chunks
  <2>1. Len(q) # 0 /\ Len(q) \in Nat
    BY <1>5, <1>6, EmptySeq, LenProperties
  <2> QED  BY <1>5, <1>6, <2>1, SeqSet
<1>8. h \in Seq(Chunks) /\ Once(h) /\ ToSet(h) = ToSet(q) \ {s}
  BY <1>5, <1>6, <1>7, Removed
<1>9. /\ freeq' \in [0 .. 1 -> Seq(Chunks)] /\ freeq'[qp] = h
      /\ \A i \in 0 .. 1 : i # qp => freeq'[i] = freeq[i]
  BY <1>3, <1>5, <1>6, <1>8
<1>10. PICK r : r = [p EXCEPT ![s] = "acc"]
  OBVIOUS
<1>11. s \in mem /\ p[s] = IF qp = 0 THEN "free0" ELSE "free1"
  <2>1. s \in InFree(qp) /\ (qp = 0 \/ qp = 1)
    BY <1>5, <1>6, <1>7 DEF InFree
  <2> QED  BY <1>1, <1>7, <2>1 DEF Where
<1>12. Moves(s, p[s], "acc")
  <2>1. CASE qp = 0
    <3>1. InFree(0)' = InFree(0) \ {s} /\ InFree(1)' = InFree(1)
      BY <1>6, <1>8, <1>9, <2>1 DEF InFree
    <3> QED  BY <1>3, <1>4, <1>11, <2>1, <3>1 DEF Moves, Goes, WithAcc, InQueue, AtWork, InPipe, OnList
  <2>2. CASE qp = 1
    <3>1. InFree(1)' = InFree(1) \ {s} /\ InFree(0)' = InFree(0)
      BY <1>6, <1>8, <1>9, <2>2 DEF InFree
    <3> QED  BY <1>3, <1>4, <1>11, <2>2, <3>1 DEF Moves, Goes, WithAcc, InQueue, AtWork, InPipe, OnList
  <2> QED  BY <1>5, <2>1, <2>2
<1>13. Where(r)' /\ r \in [Chunks -> PlaceNames]
  <2>1. "acc" \in PlaceNames
    BY DEF PlaceNames
  <2> QED  BY <1>1, <1>7, <1>10, <1>12, <2>1, Moved
<1>14. Kept'
  <2>1. Once(freeq'[0]) /\ Once(freeq'[1])
    BY <1>5, <1>8, <1>9
  <2> QED  BY <1>1, <1>3, <1>4, <1>9, <2>1 DEF Kept, WorkOnce
<1>15. Owned(r)'
  <2>1. \A x \in Chunks : r[x] \in Open <=> p[x] \in Open
    BY <1>1, <1>10, <1>11 DEF Open
  <2>2. in \in Inputs /\ del \in DelStates /\ del["acceptor"] = "idle"
    BY <1>1, <1>3 DEF Owned
  <2> QED  BY <1>1, <1>3, <1>4, <1>13, <2>1, <2>2, OwnedKept
<1>16. Told' /\ Loop'
  BY <1>1, <1>3, ToldKept, LoopSame
<1>17. Bound'
  BY <1>1, <1>3, <1>4, AllocsKept, BoundKept
<1> QED  BY <1>13, <1>14, <1>15, <1>16, <1>17 DEF IInv, Inv

\* Handing a new session to the workers keeps the invariant.
LEMMA AcceptQueueStep ==
  ASSUME NEW p, Inv(p), AcceptQueue
  PROVE  IInv'
<1>1. /\ Where(p) /\ Kept /\ Owned(p) /\ Told /\ Loop /\ Bound /\ p \in [Chunks -> PlaceNames]
  BY DEF Inv, Where
<1>2. PICK s, f : s = acc.sm /\ f = acc.fd
  OBVIOUS
<1>3. /\ UNCHANGED <<waiter, work, pipe, sesshead, ki, pollfd, walk, wpc, events, lost>>
      /\ acc.pc = "queue" /\ acc' = AtPoll /\ Free("acceptor")
      /\ WRK_QueueSession("acceptor", s, f, "wait", in)
  BY <1>2 DEF AcceptQueue, Accepts, waitVars
<1>4. acc' \in AccStates /\ acc'.pc = "poll"
  BY <1>3 DEF AtPoll, AccStates
<1>5. s \in Chunks /\ p[s] = "acc" /\ fd[s] = None /\ s \notin lost /\ s \notin OnList
  <2>1. s \in WithAcc
    BY <1>2, <1>3 DEF WithAcc
  <2>2. s \in Chunks /\ p[s] = "acc"
    BY <1>1, <2>1, AtPlace
  <2> QED  BY <1>1, <2>2 DEF Where, Owned, Open
<1>6. f \in Fds /\ in[f] # Closed /\ \A x \in Chunks : fd[x] # f
  BY <1>1, <1>2, <1>3 DEF Owned
<1>7. OnList' = OnList /\ AtWork' = AtWork /\ OnList \subseteq Chunks /\ WithAcc' = {} /\ WithAcc = {s}
      /\ InPipe' = InPipe
  BY <1>1, <1>2, <1>3, <1>4 DEF OnList, AtWork, WithAcc, Where, InPipe
<1>8. CASE /\ queue' = Append(queue, [sess |-> s, step |-> "wait"])
           /\ fd' = [fd EXCEPT ![s] = f] /\ in' = in
           /\ UNCHANGED <<memVars, age, added, entry, del>>
  <2>1. UNCHANGED <<mem, nsess, freeq, qp, added, entry, del>>
    BY <1>8 DEF memVars
  <2>2. PICK j : j = [sess |-> s, step |-> "wait"]
    OBVIOUS
  <2>3. j \in Jobs /\ j.sess = s
    BY <1>5, <2>2 DEF Jobs
  <2>4. \A i \in 1 .. Len(queue) : queue[i].sess # j.sess
    <3>1. s \notin InQueue
      BY <1>1, <1>5 DEF Where
    <3> QED  BY <2>3, <3>1 DEF InQueue
  <2>5. queue' \in Seq(Jobs) /\ JobsOnce(queue') /\ InQueue' = InQueue \cup {s}
    <3>1. PICK q : q = queue
      OBVIOUS
    <3>2. /\ Append(q, j) \in Seq(Jobs) /\ JobsOnce(Append(q, j))
          /\ {Append(q, j)[i].sess : i \in 1 .. Len(Append(q, j))}
               = {q[i].sess : i \in 1 .. Len(q)} \cup {j.sess}
      <4>1. q \in Seq(Jobs) /\ JobsOnce(q) /\ \A i \in 1 .. Len(q) : q[i].sess # j.sess
        BY <1>1, <2>4, <3>1 DEF Kept
      <4> QED  BY <2>3, <4>1, JobAppended
    <3> QED  BY <1>8, <2>2, <2>3, <3>1, <3>2 DEF InQueue
  <2>6. PICK r : r = [p EXCEPT ![s] = "queue"]
    OBVIOUS
  <2>7. s \in mem
    BY <1>1, <1>5 DEF Where
  <2>8. Moves(s, p[s], "queue")
    BY <1>3, <1>5, <1>7, <2>1, <2>5, <2>7 DEF Moves, Goes, InFree
  <2>9. Where(r)' /\ r \in [Chunks -> PlaceNames]
    <3>1. "queue" \in PlaceNames
      BY DEF PlaceNames
    <3> QED  BY <1>1, <1>5, <2>6, <2>8, <3>1, Moved
  <2>10. Kept'
    BY <1>1, <1>3, <1>4, <2>1, <2>5 DEF Kept, WorkOnce
  <2>11. Owned(r)'
    <3>1. fd \in [Chunks -> Fds \cup {None}] /\ fd' \in [Chunks -> Fds \cup {None}]
          /\ \A x \in Chunks : fd'[x] = IF x = s THEN f ELSE fd[x]
      BY <1>1, <1>5, <1>6, <1>8 DEF Owned
    <3>2. \A x \in Chunks : fd'[x] # None <=> r[x] \in Open
      <4>1. \A x \in Chunks : r[x] = IF x = s THEN "queue" ELSE p[x]
        BY <1>1, <2>6
      <4> QED  BY <1>1, <1>6, <3>1, <4>1, Constants DEF Owned, Open
    <3>3. \A x, t \in Chunks : x # t /\ fd'[x] # None => fd'[x] # fd'[t]
      BY <1>1, <1>6, <3>1 DEF Owned
    <3>4. \A x \in Chunks : fd'[x] # None => in'[fd'[x]] # Closed
      BY <1>1, <1>6, <1>8, <3>1 DEF Owned
    <3> QED  BY <1>1, <1>4, <1>8, <2>1, <3>1, <3>2, <3>3, <3>4 DEF Owned
  <2>12. Told'
    BY <1>1, <1>2, <1>3, <1>5, <1>7, <1>8, <2>1, ToldOpened
  <2>13. Loop'
    <3>1. \A x \in OnList : fd'[x] = fd[x]
      BY <1>1, <1>5, <1>7, <1>8 DEF Owned
    <3> QED  BY <1>1, <1>3, <1>7, <2>1, <3>1, LoopKept
  <2>14. Bound'
    BY <1>1, <1>4, <2>1, AllocsKept, BoundKept
  <2> QED  BY <2>9, <2>10, <2>11, <2>12, <2>13, <2>14 DEF IInv, Inv
<1>9. CASE CloseDelete("acceptor", s, f)
  <2>1. Goes(WithAcc, WithAcc', "acc", s, p[s], "none") /\ Goes(AtWork, AtWork', "work", s, p[s], "none")
    BY <1>5, <1>7 DEF Goes
  <2>2. /\ work' \in [Workers -> Jobs \cup {Idle}] /\ WorkOnce' /\ sesshead' \in Seq(Chunks)
        /\ Once(sesshead')
    BY <1>1, <1>3 DEF Kept, WorkOnce
  <2>3. OnList' = OnList \ {s} /\ s \notin events
    BY <1>1, <1>5, <1>7, Constants DEF Loop
  <2>4. events' = events \ {s} /\ \A i \in 1 .. Len(ki) : ki[i].sess # s
    BY <1>1, <1>3, <1>5, <2>3 DEF Told
  <2>5. "acceptor" \in Threads
    BY Constants
  <2>6. /\ \E r \in [Chunks -> PlaceNames] : Most(r)'
        /\ fd' = [fd EXCEPT ![s] = None]
        /\ \A g \in Fds : entry[g].sess = None => entry'[g].sess = None
    <3>1. /\ p[s] \in {"acc", "work", "list"} /\ fd[s] \in {f, None}
          /\ \A x \in Chunks : x # s => fd[x] # f
      BY <1>5, <1>6
    <3>2. UNCHANGED <<waiter, wpc, ki, lost, pipe>>
      BY <1>3
    <3>3. acc'.pc = "poll" \/ (acc' = acc /\ acc.fd # f /\ "acceptor" # "acceptor")
      BY <1>4
    <3>4. Free("acceptor") /\ acc' \in AccStates /\ s \in Chunks /\ f \in Fds
      BY <1>3, <1>4, <1>5, <1>6
    <3> QED  BY <1>9, <2>1, <2>2, <2>3, <2>4, <2>5, <3>1, <3>2, <3>3, <3>4, ClosedDeleted, Zenon
  <2>7. Loop'
    <3>1. \A x \in OnList : fd'[x] = fd[x]
      BY <1>1, <1>5, <1>7, <2>6 DEF Owned
    <3> QED  BY <1>1, <1>3, <1>7, <2>6, <3>1, LoopKept
  <2> QED  BY <2>6, <2>7 DEF IInv, Inv, Most
<1> QED  BY <1>3, <1>8, <1>9 DEF WRK_QueueSession

-----------------------------------------------------------------------------
(* The rest of SES_Delete *)

\* SES_Delete's look at n_sess, to make more memory keeps the invariant.
LEMMA DeleteCheckStep ==
  ASSUME NEW p, Inv(p), NEW t \in Threads, DeleteCheck(t)
  PROVE  IInv'
<1>1. /\ Where(p) /\ Kept /\ Owned(p) /\ Told /\ Loop /\ Bound /\ p \in [Chunks -> PlaceNames]
  BY DEF Inv, Where
<1>2. /\ UNCHANGED <<waiter, work, pipe, sesshead, ki, pollfd, walk, wpc, events, lost>>
      /\ UNCHANGED <<mem, nsess, freeq, qp, acc, fd, added, queue, entry, in>>
      /\ del[t] = "check"
      /\ \/ del' = [del EXCEPT ![t] = "idle"]
         \/ ~Full /\ del' = [del EXCEPT ![t] = "alloc"]
  BY DEF DeleteCheck, waitVars, memVars, sessVars
<1>3. WithAcc' = WithAcc
  BY <1>2 DEF WithAcc
<1>4. Where(p)' /\ Told' /\ Loop' /\ Kept'
  BY <1>1, <1>2, <1>3, WhereKept, ToldKept, LoopSame DEF Kept, WorkOnce
<1>5. Owned(p)'
  <2>1. del \in DelStates /\ in \in Inputs /\ acc \in AccStates
    BY <1>1 DEF Owned
  <2>2. del' \in DelStates /\ \A x \in Threads : x # t => del'[x] = del[x]
    BY <1>2, <2>1 DEF DelStates
  <2>3. acc.pc # "poll" => del["acceptor"] = "idle" /\ t # "acceptor"
    BY <1>1, <1>2 DEF Owned
  <2>4. acc'.pc = "poll" \/ (acc.pc # "poll" /\ acc'.fd = acc.fd /\ del'["acceptor"] = "idle")
    <3>1. acc' = acc /\ (t # "acceptor" => del'["acceptor"] = del["acceptor"])
      BY <1>2, <2>2 DEF Threads
    <3> QED  BY <2>3, <3>1
  <2> QED  BY <1>1, <1>2, <2>1, <2>2, <2>4, OwnedKept
<1>6. Bound'
  <2>1. del \in DelStates
    BY <1>1 DEF Owned
  <2>2. CASE del' = [del EXCEPT ![t] = "idle"]
    <3>1. \A x \in Threads : del'[x] = "alloc" => del[x] = "alloc"
      BY <2>1, <2>2 DEF DelStates
    <3> QED  BY <1>1, <1>2, <3>1, AllocsKept, BoundKept
  <2>3. CASE ~ Full
    <3>1. nsess \in Nat
      BY <1>1, FS_CardinalityType DEF Bound
    <3>2. nsess < MaxSess
      BY <2>3, <3>1, Constants DEF Full
    <3> QED  BY <1>1, <1>2, <3>2, RoomSeen
  <2> QED  BY <1>2, <2>2, <2>3
<1> QED  BY <1>1, <1>4, <1>5, <1>6 DEF IInv, Inv

\* The malloc of SES_Delete keeps the invariant.
LEMMA DeletePrecreateStep ==
  ASSUME NEW p, Inv(p), NEW t \in Threads, DeletePrecreate(t)
  PROVE  IInv'
<1>1. /\ Where(p) /\ Kept /\ Owned(p) /\ Told /\ Loop /\ Bound /\ p \in [Chunks -> PlaceNames]
  BY DEF Inv, Where
<1>2. PICK s : s = Malloc
  OBVIOUS
<1>3. s \in Chunks /\ p[s] = "none" /\ s \notin mem
  BY <1>1, <1>2, MallocNew DEF DeletePrecreate
<1>4. /\ UNCHANGED <<waiter, work, pipe, sesshead, ki, pollfd, walk, wpc, events, lost>>
      /\ UNCHANGED <<qp, acc, fd, added, queue, entry, in>>
      /\ del[t] = "alloc" /\ del' = [del EXCEPT ![t] = "idle"]
      /\ mem' = mem \cup {s} /\ nsess' = nsess + 1 /\ PutBack(s)
  BY <1>2 DEF DeletePrecreate, ses_sm_alloc, waitVars, memVars, sessVars
<1>5. s \notin InFree(0) /\ s \notin InFree(1)
  BY <1>1, <1>3 DEF Where
<1>6. PICK to \in {"free0", "free1"} : PutTo(s, to)
  BY <1>1, <1>3, <1>4, <1>5, PutBackTo
<1>7. PICK r : r = [p EXCEPT ![s] = to]
  OBVIOUS
<1>8. Moves(s, p[s], to)
  <2>1. WithAcc' = WithAcc /\ InQueue' = InQueue /\ AtWork' = AtWork /\ InPipe' = InPipe
        /\ OnList' = OnList
    BY <1>4 DEF WithAcc, InQueue, AtWork, InPipe, OnList
  <2> QED  BY <1>3, <1>4, <1>6, <2>1 DEF Moves, Goes, PutTo
<1>9. Where(r)' /\ r \in [Chunks -> PlaceNames]
  <2>1. to \in PlaceNames
    BY DEF PlaceNames
  <2>2. Where([p EXCEPT ![s] = to])' /\ [p EXCEPT ![s] = to] \in [Chunks -> PlaceNames]
    BY <1>1, <1>3, <1>8, <2>1, Moved
  <2> QED  BY <1>7, <2>2
<1>10. Kept'
  BY <1>1, <1>4, <1>6 DEF Kept, WorkOnce, PutTo
<1>11. del \in DelStates /\ del' \in DelStates /\ \A x \in Threads : del'[x] = IF x = t THEN "idle" ELSE del[x]
  BY <1>1, <1>4 DEF Owned, DelStates
<1>12. Owned(r)'
  <2>1. \A x \in Chunks : r[x] \in Open <=> p[x] \in Open
    BY <1>1, <1>3, <1>7 DEF Open
  <2>2. in \in Inputs /\ acc \in AccStates /\ (acc.pc # "poll" => del["acceptor"] = "idle")
    BY <1>1 DEF Owned
  <2>3. acc'.pc = "poll" \/ (acc.pc # "poll" /\ acc'.fd = acc.fd /\ del'["acceptor"] = "idle")
    <3>1. acc' = acc /\ (del["acceptor"] = "idle" => del'["acceptor"] = "idle")
      BY <1>4, <1>11 DEF Threads
    <3> QED  BY <2>2, <3>1
  <2> QED  BY <1>1, <1>4, <1>9, <1>11, <2>1, <2>2, <2>3, OwnedKept
<1>13. Told' /\ Loop'
  BY <1>1, <1>4, ToldKept, LoopSame
<1>14. Bound'
  <2>1. t \in Allocs
    BY <1>4 DEF Allocs
  <2>2. t = "acceptor" => acc.pc = "poll"
    BY <1>1, <1>4 DEF Owned
  <2>3. Allocs' \subseteq Allocs \ {t}
    BY <1>4, <1>11, <2>2 DEF Allocs, Threads
  <2> QED  BY <1>1, <1>3, <1>4, <2>1, <2>3, BoundCounted
<1> QED  BY <1>9, <1>10, <1>12, <1>13, <1>14 DEF IInv, Inv

-----------------------------------------------------------------------------
(* Workers *)

\* What a worker knows of its session.
HasWork(p, w, s) ==
  /\ w \in Workers /\ w \in Threads /\ w # "acceptor"
  /\ work[w] \in Jobs /\ work[w].sess = s /\ s \in Chunks /\ p[s] = "work"
  /\ fd[s] \in Fds /\ in[fd[s]] # Closed /\ \A x \in Chunks : x # s => fd[x] # fd[s]
  /\ acc.pc # "poll" => acc.fd # fd[s]
  /\ s \in mem /\ s \notin OnList /\ s \notin events /\ s \notin lost /\ s \notin InPipe
  /\ \A i \in 1 .. Len(ki) : ki[i].sess # s

\* What a worker at "wait" or "start" has.
LEMMA Working ==
  ASSUME NEW p, Inv(p), NEW w \in Workers, NEW step \in {"wait", "start"}, At(w, step),
         NEW s, s = work[w].sess
  PROVE  HasWork(p, w, s)
<1>1. /\ Where(p) /\ Kept /\ Owned(p) /\ Told /\ Loop /\ p \in [Chunks -> PlaceNames]
  BY DEF Inv, Where
<1>2. work[w] \in Jobs
  BY <1>1 DEF Kept, At, Idle
<1>3. s \in Chunks
  BY <1>2 DEF Jobs
<1>4. s \in AtWork
  BY <1>3, Constants DEF AtWork
<1>5. p[s] = "work" /\ s \in mem /\ s \notin OnList /\ s \notin lost /\ s \notin InPipe
  BY <1>1, <1>4 DEF Where
<1>6. fd[s] # None /\ fd[s] \in Fds /\ in[fd[s]] # Closed /\ \A x \in Chunks : x # s => fd[x] # fd[s]
  BY <1>1, <1>3, <1>5 DEF Owned, Open
<1>7. acc.pc # "poll" => acc.fd # fd[s]
  BY <1>1, <1>3 DEF Owned
<1>8. s \notin events /\ \A i \in 1 .. Len(ki) : ki[i].sess # s
  BY <1>1, <1>3, <1>5, Constants DEF Loop, Told
<1>9. w \in Threads /\ w # "acceptor"
  BY Constants
<1> QED  BY <1>2, <1>3, <1>5, <1>6, <1>7, <1>8, <1>9 DEF HasWork

\* A worker that leaves its session is idle.
LEMMA Left ==
  ASSUME Kept, NEW w \in Workers, Leave(w), work[w] \in Jobs
  PROVE  /\ work' \in [Workers -> Jobs \cup {Idle}] /\ WorkOnce'
         /\ AtWork' = AtWork \ {work[w].sess}
<1>1. work \in [Workers -> Jobs \cup {Idle}] /\ WorkOnce
  BY DEF Kept
<1>2. /\ work' \in [Workers -> Jobs \cup {Idle}]
      /\ \A v \in Workers : work'[v] = IF v = w THEN Idle ELSE work[v]
  BY <1>1 DEF Leave
<1>3. Idle.sess = None
  BY DEF Idle
<1>4. work[w].sess # None
  BY Constants DEF Jobs
<1>5. WorkOnce'
  BY <1>1, <1>2, <1>3 DEF WorkOnce
<1>6. ASSUME NEW x \in AtWork' PROVE x \in AtWork /\ x # work[w].sess
  <2>1. PICK v \in Workers : x = work'[v].sess
    BY DEF AtWork
  <2>2. x # None
    BY DEF AtWork
  <2>3. v # w /\ x = work[v].sess
    BY <1>2, <1>3, <2>1, <2>2
  <2> QED  BY <1>1, <2>2, <2>3 DEF AtWork, WorkOnce
<1>7. ASSUME NEW x \in AtWork, x # work[w].sess PROVE x \in AtWork'
  <2>1. PICK v \in Workers : x = work[v].sess
    BY DEF AtWork
  <2>2. v # w /\ x = work'[v].sess /\ x # None
    BY <1>2, <1>7, <2>1 DEF AtWork
  <2> QED  BY <2>2 DEF AtWork
<1> QED  BY <1>2, <1>5, <1>6, <1>7

\* What a worker's step leaves alone unless it deletes its session.
Untouched ==
  UNCHANGED <<waiter, acc, mem, nsess, freeq, qp, added, del, queue,
              sesshead, ki, pollfd, walk, wpc, events>>

\* The session goes on in the same worker.
LEMMA StepKept ==
  ASSUME NEW p, Inv(p), NEW w \in Workers, NEW s, HasWork(p, w, s),
         NEW step \in {"wait", "start"}, Step(w, step), Untouched,
         UNCHANGED <<fd, entry, lost, pipe>>,
         in' \in Inputs, \A f \in Fds : in'[f] = Closed <=> in[f] = Closed
  PROVE  IInv'
<1>1. /\ Where(p) /\ Kept /\ Owned(p) /\ Told /\ Loop /\ Bound /\ p \in [Chunks -> PlaceNames]
  BY DEF Inv, Where
<1>2. work \in [Workers -> Jobs \cup {Idle}] /\ WorkOnce /\ work[w] \in Jobs
  BY <1>1 DEF Kept, HasWork
<1>3. PICK j : j = [work[w] EXCEPT !.step = step]
  OBVIOUS
<1>4. j \in Jobs /\ j.sess = work[w].sess
  BY <1>2, <1>3 DEF Jobs
<1>5. /\ work' = [work EXCEPT ![w] = j]
  BY <1>3 DEF Step
<1>6. /\ work' \in [Workers -> Jobs \cup {Idle}] /\ \A v \in Workers : work'[v].sess = work[v].sess
  BY <1>2, <1>4, <1>5
<1>7. WorkOnce' /\ AtWork' = AtWork
  BY <1>2, <1>6 DEF WorkOnce, AtWork
<1>8. Where(p)'
  <2>1. InFree(0)' = InFree(0) /\ InFree(1)' = InFree(1) /\ InQueue' = InQueue /\ WithAcc' = WithAcc
        /\ InPipe' = InPipe /\ OnList' = OnList /\ mem' = mem /\ lost' = lost
    BY DEF Untouched, InFree, InQueue, WithAcc, InPipe, OnList
  <2> QED  BY <1>1, <1>7, <2>1 DEF Where
<1>9. Kept'
  BY <1>1, <1>6, <1>7 DEF Kept, Untouched
<1>10. Owned(p)'
  <2>1. del \in DelStates /\ acc \in AccStates /\ acc' = acc /\ del' = del
        /\ (acc.pc # "poll" => del["acceptor"] = "idle")
    BY <1>1 DEF Owned, Untouched
  <2> QED  BY <1>1, <2>1, OwnedKept
<1>11. Told' /\ Loop'
  BY <1>1, ToldKept, LoopSame DEF Untouched
<1>12. Bound'
  BY <1>1, AllocsKept, BoundKept DEF Untouched
<1> QED  BY <1>1, <1>8, <1>9, <1>10, <1>11, <1>12 DEF IInv, Inv

\* The session goes to the waiter's pipe.
LEMMA PipeKept ==
  ASSUME NEW p, Inv(p), NEW w \in Workers, NEW s, HasWork(p, w, s),
         Leave(w), pipe' = Append(pipe, s), Untouched, UNCHANGED <<fd, entry, lost>>,
         in' \in Inputs, \A f \in Fds : in'[f] = Closed <=> in[f] = Closed
  PROVE  IInv'
<1>1. /\ Where(p) /\ Kept /\ Owned(p) /\ Told /\ Loop /\ Bound /\ p \in [Chunks -> PlaceNames]
  BY DEF Inv, Where
<1>2. work[w] \in Jobs /\ work[w].sess = s /\ s \in Chunks /\ p[s] = "work" /\ s \in mem /\ s \notin InPipe
  BY DEF HasWork
<1>3. /\ work' \in [Workers -> Jobs \cup {Idle}] /\ WorkOnce'
      /\ AtWork' = AtWork \ {s}
  BY <1>1, <1>2, Left
<1>4. pipe' \in Seq(Chunks) /\ Once(pipe') /\ InPipe' = InPipe \cup {s}
  <2>1. PICK q : q = pipe
    OBVIOUS
  <2>2. q \in Seq(Chunks) /\ Once(q) /\ s \notin ToSet(q)
    BY <1>1, <1>2, <2>1 DEF Kept, InPipe
  <2>3. Append(q, s) \in Seq(Chunks) /\ Once(Append(q, s)) /\ ToSet(Append(q, s)) = ToSet(q) \cup {s}
    BY <1>2, <2>2, Appended
  <2> QED  BY <2>1, <2>3 DEF InPipe
<1>5. PICK r : r = [p EXCEPT ![s] = "pipe"]
  OBVIOUS
<1>6. Moves(s, p[s], "pipe")
  <2>1. InFree(0)' = InFree(0) /\ InFree(1)' = InFree(1) /\ InQueue' = InQueue /\ WithAcc' = WithAcc
        /\ OnList' = OnList /\ mem' = mem /\ lost' = lost
    BY DEF Untouched, InFree, InQueue, WithAcc, OnList
  <2> QED  BY <1>2, <1>3, <1>4, <2>1 DEF Moves, Goes
<1>7. Where(r)' /\ r \in [Chunks -> PlaceNames]
  <2>1. "pipe" \in PlaceNames
    BY DEF PlaceNames
  <2> QED  BY <1>1, <1>2, <1>5, <1>6, <2>1, Moved
<1>8. Kept'
  BY <1>1, <1>3, <1>4 DEF Kept, Untouched
<1>9. Owned(r)'
  <2>1. del \in DelStates /\ acc \in AccStates /\ acc' = acc /\ del' = del
        /\ (acc.pc # "poll" => del["acceptor"] = "idle")
    BY <1>1 DEF Owned, Untouched
  <2>2. \A x \in Chunks : r[x] \in Open <=> p[x] \in Open
    BY <1>1, <1>2, <1>5 DEF Open
  <2> QED  BY <1>1, <1>7, <2>1, <2>2, OwnedKept
<1>10. Told' /\ Loop'
  BY <1>1, ToldKept, LoopSame DEF Untouched
<1>11. Bound'
  BY <1>1, AllocsKept, BoundKept DEF Untouched
<1> QED  BY <1>7, <1>8, <1>9, <1>10, <1>11 DEF IInv, Inv

\* The connection has failed: its descriptor is closed, the session lost.
LEMMA LostKept ==
  ASSUME NEW p, Inv(p), NEW w \in Workers, NEW s, HasWork(p, w, s),
         Leave(w), Close(fd[s]), fd' = [fd EXCEPT ![s] = None], lost' = lost \cup {s},
         pipe' = pipe, Untouched
  PROVE  IInv'
<1>1. /\ Where(p) /\ Kept /\ Owned(p) /\ Told /\ Loop /\ Bound /\ p \in [Chunks -> PlaceNames]
  BY DEF Inv, Where
<1>2. /\ work[w] \in Jobs /\ work[w].sess = s /\ s \in Chunks /\ p[s] = "work" /\ s \in mem
      /\ fd[s] \in Fds /\ \A x \in Chunks : x # s => fd[x] # fd[s]
      /\ s \notin OnList /\ s \notin events /\ \A i \in 1 .. Len(ki) : ki[i].sess # s
      /\ (acc.pc # "poll" => acc.fd # fd[s])
  BY DEF HasWork
<1>3. /\ work' \in [Workers -> Jobs \cup {Idle}] /\ WorkOnce'
      /\ AtWork' = AtWork \ {s}
  BY <1>1, <1>2, Left
<1>4. PICK r, f : r = [p EXCEPT ![s] = "lost"] /\ f = fd[s]
  OBVIOUS
<1>5. InFree(0)' = InFree(0) /\ InFree(1)' = InFree(1) /\ InQueue' = InQueue /\ WithAcc' = WithAcc
      /\ OnList' = OnList /\ mem' = mem /\ InPipe' = InPipe
  BY DEF Untouched, InFree, InQueue, WithAcc, OnList, InPipe
<1>6. Moves(s, p[s], "lost")
  BY <1>2, <1>3, <1>5 DEF Moves, Goes
<1>7. Where(r)' /\ r \in [Chunks -> PlaceNames]
  <2>1. "lost" \in PlaceNames
    BY DEF PlaceNames
  <2> QED  BY <1>1, <1>2, <1>4, <1>6, <2>1, Moved
<1>8. Kept'
  <2>1. lost' \subseteq Chunks
    BY <1>1, <1>2 DEF Kept
  <2> QED  BY <1>1, <1>3, <2>1 DEF Kept, Untouched
<1>9. in' = [in EXCEPT ![f] = Closed] /\ entry' = [entry EXCEPT ![f] = NoEntry]
  BY <1>4 DEF Close
<1>10. Owned(r)'
  <2>1. del \in DelStates /\ acc \in AccStates /\ acc' = acc /\ del' = del
    BY <1>1 DEF Owned, Untouched
  <2>2. "lost" \in PlaceNames \ Open
    BY DEF PlaceNames, Open
  <2>3. fd[s] \in {f, None} /\ \A x \in Chunks : x # s => fd[x] # f
    BY <1>2, <1>4
  <2>4. Owned([p EXCEPT ![s] = "lost"])'
    BY <1>1, <1>2, <1>4, <1>9, <2>1, <2>2, <2>3, OwnedClosed
  <2> QED  BY <1>4, <2>4
<1>11. Told'
  <2>1. OnList' = OnList \ {s} /\ events' = events \ {s} /\ added' = added /\ lost' = lost \cup {s}
        /\ waiter' = waiter /\ wpc' = wpc /\ ki' = ki
    BY <1>2, <1>5 DEF Untouched
  <2>2. fd[s] \in {f, None} /\ \A x \in Chunks : x # s => fd[x] # f
    BY <1>2, <1>4
  <2>3. s \in Chunks /\ f \in Fds /\ \A i \in 1 .. Len(ki) : ki[i].sess # s
    BY <1>2, <1>4
  <2>4. fd' = [fd EXCEPT ![s] = None]
    OBVIOUS
  <2> QED  BY <1>1, <1>9, <2>1, <2>2, <2>3, <2>4, ToldClosed, Zenon
<1>12. Loop'
  <2>1. \A x \in OnList : fd'[x] = fd[x]
    BY <1>1, <1>2 DEF Where, Owned
  <2>2. \A g \in Fds : entry[g].sess = None => entry'[g].sess = None
    BY <1>1, <1>9 DEF Told, NoEntry
  <2>3. UNCHANGED <<waiter, pollfd, walk, wpc, events>>
    BY DEF Untouched
  <2> QED  BY <1>1, <1>5, <2>1, <2>2, <2>3, LoopKept
<1>13. Bound'
  BY <1>1, AllocsKept, BoundKept DEF Untouched
<1> QED  BY <1>7, <1>8, <1>10, <1>11, <1>12, <1>13 DEF IInv, Inv

\* The session is deleted.
LEMMA DoneClosedKept ==
  ASSUME NEW p, Inv(p), NEW w \in Workers, NEW s, HasWork(p, w, s), Free(w), DoneClosed(w, s),
         UNCHANGED <<waiter, acc, waitVars>>
  PROVE  IInv'
<1>1. /\ Where(p) /\ Kept /\ Owned(p) /\ Told /\ Loop /\ Bound /\ p \in [Chunks -> PlaceNames]
  BY DEF Inv, Where
<1>2. PICK f : f = fd[s]
  OBVIOUS
<1>3. /\ work[w] \in Jobs /\ work[w].sess = s /\ s \in Chunks /\ p[s] = "work"
      /\ f \in Fds /\ \A x \in Chunks : x # s => fd[x] # f
      /\ s \notin OnList /\ s \notin events /\ \A i \in 1 .. Len(ki) : ki[i].sess # s
      /\ (acc.pc # "poll" => acc.fd # f) /\ w \in Threads /\ w # "acceptor"
  BY <1>2 DEF HasWork
<1>4. /\ Leave(w) /\ CloseDelete(w, s, f)
      /\ UNCHANGED <<waiter, acc, sesshead, ki, pollfd, walk, wpc, events, lost, pipe>>
  BY <1>2 DEF DoneClosed, waitVars
<1>5. /\ work' \in [Workers -> Jobs \cup {Idle}] /\ WorkOnce'
      /\ AtWork' = AtWork \ {s}
  BY <1>1, <1>3, <1>4, Left
<1>6. Goes(AtWork, AtWork', "work", s, p[s], "none") /\ Goes(WithAcc, WithAcc', "acc", s, p[s], "none")
  BY <1>3, <1>4, <1>5 DEF Goes, WithAcc
<1>7. /\ OnList' = OnList \ {s} /\ events' = events \ {s} /\ OnList' = OnList
      /\ sesshead' \in Seq(Chunks) /\ Once(sesshead')
  BY <1>1, <1>3, <1>4 DEF OnList, Kept
<1>8. acc' \in AccStates /\ (acc'.pc = "poll" \/ (acc' = acc /\ acc.fd # f /\ w # "acceptor"))
  BY <1>1, <1>3, <1>4 DEF Owned
<1>9. p[s] \in {"acc", "work", "list"} /\ fd[s] \in {f, None} /\ UNCHANGED <<waiter, wpc, ki, lost, pipe>>
  BY <1>2, <1>3, <1>4
<1>10. /\ \E r \in [Chunks -> PlaceNames] : Most(r)'
       /\ fd' = [fd EXCEPT ![s] = None]
       /\ \A g \in Fds : entry[g].sess = None => entry'[g].sess = None
  <2>1. /\ w \in Threads /\ s \in Chunks /\ f \in Fds /\ CloseDelete(w, s, f)
        /\ \A x \in Chunks : x # s => fd[x] # f
        /\ \A i \in 1 .. Len(ki) : ki[i].sess # s
    BY <1>3, <1>4
  <2> QED  BY <1>5, <1>6, <1>7, <1>8, <1>9, <2>1, ClosedDeleted, Zenon
<1>11. Loop'
  <2>1. \A x \in OnList : fd'[x] = fd[x]
    BY <1>1, <1>3, <1>10 DEF Owned, Where
  <2>2. UNCHANGED <<waiter, pollfd, walk, wpc, events>>
    BY <1>4
  <2> QED  BY <1>1, <1>7, <1>10, <2>1, <2>2, LoopKept
<1> QED  BY <1>10, <1>11 DEF IInv, Inv, Most

\* A worker that takes a session keeps the invariant.
LEMMA WorkTakeStep ==
  ASSUME NEW p, Inv(p), NEW w \in Workers, WorkTake(w)
  PROVE  IInv'
<1>1. /\ Where(p) /\ Kept /\ Owned(p) /\ Told /\ Loop /\ Bound /\ p \in [Chunks -> PlaceNames]
  BY DEF Inv, Where
<1>2. /\ UNCHANGED <<waiter, acc, sesshead, ki, pollfd, walk, wpc, events>>
      /\ UNCHANGED <<mem, nsess, freeq, qp, del, fd, added, pipe, entry, in, lost>>
      /\ work[w] = Idle /\ queue # <<>>
      /\ work' = [work EXCEPT ![w] = Head(queue)] /\ queue' = Tail(queue)
  BY DEF WorkTake, Works, waitVars, memVars, sessVars
<1>3. PICK q, j, s : q = queue /\ j = Head(q) /\ s = j.sess
  OBVIOUS
<1>4. q \in Seq(Jobs) /\ q # <<>> /\ JobsOnce(q)
  BY <1>1, <1>2, <1>3 DEF Kept
<1>5. /\ j \in Jobs /\ Tail(q) \in Seq(Jobs) /\ JobsOnce(Tail(q))
      /\ s \in {q[i].sess : i \in 1 .. Len(q)}
      /\ {Tail(q)[i].sess : i \in 1 .. Len(Tail(q))} = {q[i].sess : i \in 1 .. Len(q)} \ {s}
  BY <1>3, <1>4, JobTaken
<1>6. queue' \in Seq(Jobs) /\ JobsOnce(queue') /\ s \in InQueue /\ InQueue' = InQueue \ {s}
  <2>1. queue = q /\ queue' = Tail(q)
    BY <1>2, <1>3
  <2>2. InQueue = {q[i].sess : i \in 1 .. Len(q)}
    BY <2>1 DEF InQueue
  <2>3. InQueue' = {Tail(q)[i].sess : i \in 1 .. Len(Tail(q))}
    BY <2>1 DEF InQueue
  <2> QED  BY <1>5, <2>1, <2>2, <2>3
<1>7. s \in Chunks /\ p[s] = "queue" /\ s \in mem /\ s \notin AtWork /\ s # None
  BY <1>1, <1>6, Constants DEF Where
<1>8. /\ work \in [Workers -> Jobs \cup {Idle}] /\ WorkOnce /\ Idle.sess = None
      /\ \A v \in Workers : work[v].sess # s
  <2>1. \A v \in Workers : work[v].sess # s
    BY <1>7 DEF AtWork
  <2> QED  BY <1>1, <2>1 DEF Kept, Idle
<1>9. /\ work' \in [Workers -> Jobs \cup {Idle}]
      /\ \A v \in Workers : work'[v] = IF v = w THEN j ELSE work[v]
  BY <1>2, <1>3, <1>5, <1>8
<1>10. WorkOnce'
  BY <1>3, <1>8, <1>9 DEF WorkOnce
<1>11. AtWork' = AtWork \cup {s}
  <2>1. ASSUME NEW x \in AtWork' PROVE x \in AtWork \cup {s}
    BY <1>3, <1>9 DEF AtWork
  <2>2. ASSUME NEW x \in AtWork PROVE x \in AtWork'
    <3>1. PICK v \in Workers : x = work[v].sess /\ x # None
      BY DEF AtWork
    <3>2. v # w
      BY <1>2, <1>8, <3>1
    <3>3. work'[v].sess = x
      BY <1>9, <3>1, <3>2
    <3> QED  BY <3>1, <3>3 DEF AtWork
  <2>3. s \in AtWork'
    BY <1>3, <1>7, <1>9 DEF AtWork
  <2> QED  BY <2>1, <2>2, <2>3
<1>12. PICK r : r = [p EXCEPT ![s] = "work"]
  OBVIOUS
<1>13. Moves(s, p[s], "work")
  <2>1. InFree(0)' = InFree(0) /\ InFree(1)' = InFree(1) /\ InPipe' = InPipe /\ WithAcc' = WithAcc
        /\ OnList' = OnList /\ mem' = mem /\ lost' = lost
    BY <1>2 DEF InFree, InPipe, WithAcc, OnList
  <2> QED  BY <1>6, <1>7, <1>11, <2>1 DEF Moves, Goes
<1>14. Where(r)' /\ r \in [Chunks -> PlaceNames]
  <2>1. "work" \in PlaceNames
    BY DEF PlaceNames
  <2> QED  BY <1>1, <1>7, <1>12, <1>13, <2>1, Moved
<1>15. Kept'
  BY <1>1, <1>2, <1>6, <1>9, <1>10 DEF Kept
<1>16. Owned(r)'
  <2>1. del \in DelStates /\ acc \in AccStates /\ in \in Inputs
        /\ (acc.pc # "poll" => del["acceptor"] = "idle")
    BY <1>1 DEF Owned
  <2>2. \A x \in Chunks : r[x] \in Open <=> p[x] \in Open
    BY <1>1, <1>7, <1>12 DEF Open
  <2> QED  BY <1>1, <1>2, <1>14, <2>1, <2>2, OwnedKept
<1>17. Told' /\ Loop'
  BY <1>1, <1>2, ToldKept, LoopSame
<1>18. Bound'
  BY <1>1, <1>2, AllocsKept, BoundKept
<1> QED  BY <1>14, <1>15, <1>16, <1>17, <1>18 DEF IInv, Inv

\* Reading leaves an open descriptor open.
LEMMA ReadOpen ==
  ASSUME NEW p, Owned(p), NEW f \in Fds, in[f] # Closed, in' = [in EXCEPT ![f] = "none"]
  PROVE  in' \in Inputs /\ \A g \in Fds : in'[g] = Closed <=> in[g] = Closed
<1>1. in \in Inputs
  BY DEF Owned
<1>2. \A g \in Fds : in'[g] = IF g = f THEN "none" ELSE in[g]
  BY <1>1 DEF Inputs
<1> QED  BY <1>1, <1>2 DEF Inputs, Closed

\* vca_return_session, in each waiter's way, keeps the invariant.
LEMMA ReturnStep ==
  ASSUME NEW p, Inv(p), NEW w \in Workers, NEW s, HasWork(p, w, s),
         vca_return_session(w, s), Untouched
  PROVE  IInv'
<1>1. CASE pipe' = Append(pipe, s) /\ UNCHANGED <<fd, entry, in, lost>>
  <2>1. in' \in Inputs /\ \A f \in Fds : in'[f] = Closed <=> in[f] = Closed
    BY <1>1 DEF Inv, Owned
  <2>2. Leave(w) /\ pipe' = Append(pipe, s) /\ UNCHANGED <<fd, entry, lost>>
    BY <1>1 DEF vca_return_session
  <2> QED  BY <2>1, <2>2, PipeKept
<1>2. CASE Close(fd[s]) /\ fd' = [fd EXCEPT ![s] = None] /\ lost' = lost \cup {s} /\ UNCHANGED pipe
  <2>1. Leave(w)
    BY DEF vca_return_session
  <2> QED  BY <1>2, <2>1, LostKept
<1> QED  BY <1>1, <1>2 DEF vca_return_session

\* Cnt_wait keeps the invariant.
LEMMA CntWaitStep ==
  ASSUME NEW p, Inv(p), NEW w \in Workers, cnt_wait(w)
  PROVE  IInv'
<1>1. PICK s : s = work[w].sess
  OBVIOUS
<1>2. HasWork(p, w, s)
  BY <1>1, Working DEF cnt_wait
<1>3. UNCHANGED <<waiter, acc, waitVars>> /\ Free(w)
  BY DEF cnt_wait, Works
<1>4. Keeps => Untouched
  BY <1>3 DEF Keeps, Untouched, waitVars, memVars
<1>5. CASE vca_return_session(w, s) /\ Keeps
  BY <1>2, <1>4, <1>5, ReturnStep
<1>6. CASE /\ in' = [in EXCEPT ![fd[s]] = "none"]
           /\ \/ Step(w, "start") /\ UNCHANGED pipe
              \/ Leave(w) /\ pipe' = Append(pipe, s)
           /\ Keeps /\ UNCHANGED <<fd, age, entry, lost>>
  <2>1. fd[s] \in Fds /\ in[fd[s]] # Closed
    BY <1>2 DEF HasWork
  <2>2. in' \in Inputs /\ \A g \in Fds : in'[g] = Closed <=> in[g] = Closed
    BY <1>6, <2>1, ReadOpen DEF Inv
  <2>3. UNCHANGED <<fd, entry, lost>> /\ Untouched
    BY <1>4, <1>6
  <2>4. CASE Step(w, "start") /\ UNCHANGED pipe
    BY <1>2, <2>2, <2>3, <2>4, StepKept
  <2>5. CASE Leave(w) /\ pipe' = Append(pipe, s)
    BY <1>2, <2>2, <2>3, <2>5, PipeKept
  <2> QED  BY <1>6, <2>4, <2>5
<1>7. CASE DoneClosed(w, s)
  BY <1>2, <1>3, <1>7, DoneClosedKept
<1> QED  BY <1>1, <1>5, <1>6, <1>7 DEF cnt_wait

\* Cnt_done keeps the invariant.
LEMMA CntDoneStep ==
  ASSUME NEW p, Inv(p), NEW w \in Workers, cnt_done(w)
  PROVE  IInv'
<1>1. PICK s : s = work[w].sess
  OBVIOUS
<1>2. HasWork(p, w, s)
  BY <1>1, Working DEF cnt_done
<1>3. UNCHANGED <<waiter, acc, waitVars>> /\ Free(w)
  BY DEF cnt_done, Works
<1>4. Keeps => Untouched
  BY <1>3 DEF Keeps, Untouched, waitVars, memVars
<1>5. CASE DoneClosed(w, s)
  BY <1>2, <1>3, <1>5, DoneClosedKept
<1>6. CASE Keeps /\ vca_return_session(w, s)
  BY <1>2, <1>4, <1>6, ReturnStep
<1>7. CASE Keeps /\ \E step \in {"start", "wait"} : Step(w, step) /\ UNCHANGED <<fd, in, entry, pipe, lost>>
  <2>1. PICK step \in {"start", "wait"} : Step(w, step) /\ UNCHANGED <<fd, in, entry, pipe, lost>>
    BY <1>7
  <2>2. in' \in Inputs /\ \A g \in Fds : in'[g] = Closed <=> in[g] = Closed
    BY <2>1 DEF Inv, Owned
  <2>3. UNCHANGED <<fd, entry, lost, pipe>> /\ Untouched /\ step \in {"wait", "start"}
    BY <1>4, <1>7, <2>1
  <2> QED  BY <1>2, <2>1, <2>2, <2>3, StepKept
<1> QED  BY <1>1, <1>5, <1>6, <1>7 DEF cnt_done

-----------------------------------------------------------------------------
(* The waiter *)

\* A change that was applied is there, armed; what no change is for is as before.
LEMMA AppliedTo ==
  ASSUME NEW e \in [Fds -> Entries], NEW ch \in Seq(Changes)
  PROVE  /\ Applied(e, ch) \in [Fds -> Entries]
         /\ \A f \in Fds : (\A i \in 1 .. Len(ch) : ch[i].fd # f) => Applied(e, ch)[f] = e[f]
         /\ \A f \in Fds : (\E i \in 1 .. Len(ch) : ch[i].fd = f) =>
              \E i \in 1 .. Len(ch) :
                ch[i].fd = f /\ Applied(e, ch)[f] = [sess |-> ch[i].sess, armed |-> TRUE]
<1>1. \A i \in 1 .. Len(ch) : ch[i] \in Changes
  OBVIOUS
<1>2. ASSUME NEW f \in Fds, \A i \in 1 .. Len(ch) : ch[i].fd # f
      PROVE  Applied(e, ch)[f] = e[f]
  BY <1>2 DEF Applied
<1>3. ASSUME NEW f \in Fds, \E i \in 1 .. Len(ch) : ch[i].fd = f
      PROVE  \E i \in 1 .. Len(ch) :
               ch[i].fd = f /\ Applied(e, ch)[f] = [sess |-> ch[i].sess, armed |-> TRUE]
  <2>1. PICK i : i = CHOOSE j \in 1 .. Len(ch) : ch[j].fd = f
    OBVIOUS
  <2>2. i \in 1 .. Len(ch) /\ ch[i].fd = f
    BY <1>3, <2>1
  <2>3. Applied(e, ch)[f] = [sess |-> ch[i].sess, armed |-> TRUE]
    BY <1>3, <2>1 DEF Applied
  <2> QED  BY <2>2, <2>3
<1>4. \A f \in Fds : Applied(e, ch)[f] \in Entries
  <2>1. \A i \in 1 .. Len(ch) : [sess |-> ch[i].sess, armed |-> TRUE] \in Entries
    BY <1>1 DEF Changes, Entries
  <2>2. \A f \in Fds : e[f] \in Entries
    OBVIOUS
  <2>3. ASSUME NEW f \in Fds
        PROVE  Applied(e, ch)[f] \in Entries
    <3>1. CASE \A i \in 1 .. Len(ch) : ch[i].fd # f
      BY <1>2, <2>2, <3>1, Zenon
    <3>2. CASE \E i \in 1 .. Len(ch) : ch[i].fd = f
      <4>1. PICK i \in 1 .. Len(ch) :
              ch[i].fd = f /\ Applied(e, ch)[f] = [sess |-> ch[i].sess, armed |-> TRUE]
        BY <1>3, <3>2, Zenon
      <4> QED  BY <2>1, <4>1, Zenon
    <3> QED  BY <3>1, <3>2, Zenon
  <2> QED  BY <2>3, Zenon
<1>5. Applied(e, ch) = [f \in Fds |-> Applied(e, ch)[f]]
  BY DEF Applied
<1>6. Applied(e, ch) \in [Fds -> Entries]
  BY <1>4, <1>5
<1> QED  BY <1>2, <1>3, <1>6

\* Changes that name sessions of the list, by the descriptor they have.
Proper(ch, L, ev) ==
  /\ ch \in Seq(Changes)
  /\ \A i \in 1 .. Len(ch) : ch[i].sess \in L /\ ch[i].sess \notin ev /\ fd[ch[i].sess] = ch[i].fd

\* The kernel's queue is n, and the part of Told about it is true.
Known(n, ad, L, ev) ==
  /\ n \in [Fds -> Entries]
  /\ \A f \in Fds : n[f].sess # None => fd[n[f].sess] = f
  /\ \A f \in Fds : n[f].armed => n[f].sess \in L /\ n[f].sess \notin ev
  /\ \A x \in Chunks : fd[x] # None =>
       IF waiter = "epoll" THEN x \in ad <=> n[fd[x]].sess # None
       ELSE x \notin L \/ x \in ev => n[fd[x]].sess = None

\* The kernel is told of the changes ch.
LEMMA KnownApplied ==
  ASSUME NEW p, Owned(p), Told, NEW ch, NEW L \in SUBSET Chunks, NEW ev \in SUBSET (Chunks \cup {Pipe}),
         Proper(ch, L, ev), OnList \subseteq L, ev \ {Pipe} \subseteq events, NEW ad,
         IF waiter = "epoll" THEN ad = added \cup {ch[i].sess : i \in 1 .. Len(ch)} ELSE ad = added
  PROVE  Known(Applied(entry, ch), ad, L, ev)
<1>1. /\ fd \in [Chunks -> Fds \cup {None}] /\ entry \in [Fds -> Entries] /\ added \subseteq Chunks
      /\ \A s, t \in Chunks : s # t /\ fd[s] # None => fd[s] # fd[t]
      /\ ch \in Seq(Changes)
  BY DEF Owned, Told, Proper
<1>2. PICK e, n : e = entry /\ n = Applied(e, ch)
  OBVIOUS
<1>3. /\ n \in [Fds -> Entries]
      /\ \A f \in Fds : (\A i \in 1 .. Len(ch) : ch[i].fd # f) => n[f] = e[f]
      /\ \A f \in Fds : (\E i \in 1 .. Len(ch) : ch[i].fd = f) =>
           \E i \in 1 .. Len(ch) : ch[i].fd = f /\ n[f] = [sess |-> ch[i].sess, armed |-> TRUE]
  <2>1. e \in [Fds -> Entries] /\ ch \in Seq(Changes)
    BY <1>1, <1>2
  <2>2. /\ Applied(e, ch) \in [Fds -> Entries]
        /\ \A f \in Fds : (\A i \in 1 .. Len(ch) : ch[i].fd # f) => Applied(e, ch)[f] = e[f]
        /\ \A f \in Fds : (\E i \in 1 .. Len(ch) : ch[i].fd = f) =>
             \E i \in 1 .. Len(ch) :
               ch[i].fd = f /\ Applied(e, ch)[f] = [sess |-> ch[i].sess, armed |-> TRUE]
    BY <2>1, AppliedTo
  <2> QED  BY <1>2, <2>2, Zenon
<1>5. ASSUME NEW f \in Fds
      PROVE  \/ n[f] = e[f] /\ \A i \in 1 .. Len(ch) : ch[i].fd # f
             \/ /\ n[f].sess \in L /\ n[f].sess \notin ev /\ fd[n[f].sess] = f
                /\ \E i \in 1 .. Len(ch) : ch[i].sess = n[f].sess
  <2>1. CASE \E i \in 1 .. Len(ch) : ch[i].fd = f
    <3>1. PICK i \in 1 .. Len(ch) : ch[i].fd = f /\ n[f] = [sess |-> ch[i].sess, armed |-> TRUE]
      BY <1>3, <2>1
    <3>2. n[f].sess = ch[i].sess
      BY <3>1
    <3> QED  BY <3>1, <3>2 DEF Proper
  <2>2. CASE \A i \in 1 .. Len(ch) : ch[i].fd # f
    BY <1>3, <2>2
  <2> QED  BY <2>1, <2>2
<1>6. \A f \in Fds : n[f].sess # None => fd[n[f].sess] = f
  BY <1>2, <1>5 DEF Told
<1>7. \A f \in Fds : n[f].armed => n[f].sess \in L /\ n[f].sess \notin ev
  <2>1. \A f \in Fds : e[f].armed => e[f].sess \in L /\ e[f].sess \notin ev
    <3>1. \A f \in Fds : e[f].armed => e[f].sess \in OnList /\ e[f].sess \notin events
      BY <1>2 DEF Told
    <3>2. \A x \in OnList : x \in L /\ x # Pipe
      BY Constants
    <3> QED  BY <3>1, <3>2
  <2> QED  BY <1>5, <2>1
<1>8. ASSUME NEW x \in Chunks, fd[x] # None
      PROVE  IF waiter = "epoll" THEN x \in ad <=> n[fd[x]].sess # None
             ELSE x \notin L \/ x \in ev => n[fd[x]].sess = None
  <2>1. fd[x] \in Fds
    BY <1>1, <1>8
  <2>2. IF waiter = "epoll" THEN x \in added <=> e[fd[x]].sess # None
        ELSE x \notin OnList \/ x \in events => e[fd[x]].sess = None
    BY <1>2, <1>8 DEF Told
  <2>3. CASE n[fd[x]] = e[fd[x]] /\ \A i \in 1 .. Len(ch) : ch[i].fd # fd[x]
    <3>1. \A i \in 1 .. Len(ch) : ch[i].sess # x
      BY <2>3 DEF Proper
    <3>2. x # Pipe
      BY Constants
    <3>3. x \notin L \/ x \in ev => x \notin OnList \/ x \in events
      BY <3>2
    <3>4. waiter = "epoll" => (x \in ad <=> x \in added)
      BY <3>1
    <3> QED  BY <2>2, <2>3, <3>3, <3>4
  <2>4. CASE /\ n[fd[x]].sess \in L /\ n[fd[x]].sess \notin ev /\ fd[n[fd[x]].sess] = fd[x]
             /\ \E i \in 1 .. Len(ch) : ch[i].sess = n[fd[x]].sess
    <3>1. n[fd[x]].sess = x
      BY <1>1, <1>8, <2>4
    <3>2. x # None
      BY Constants
    <3> QED  BY <2>4, <3>1, <3>2
  <2> QED  BY <1>5, <2>1, <2>3, <2>4
<1>9. Applied(entry, ch) = n
  BY <1>2
<1>10. Known(n, ad, L, ev)
  BY <1>3, <1>6, <1>7, <1>8 DEF Known
<1> QED  BY <1>9, <1>10

\* Told after a list of changes has been applied to the kernel's entries.
LEMMA ToldApplied ==
  ASSUME NEW p, Owned(p), Told, NEW ch, NEW L \in SUBSET Chunks, NEW ev \in SUBSET (Chunks \cup {Pipe}),
         Proper(ch, L, ev), OnList \subseteq L, ev \ {Pipe} \subseteq events,
         entry' = Applied(entry, ch), OnList' = L, events' = ev,
         UNCHANGED <<waiter, fd, lost>>,
         added' \subseteq Chunks,
         IF waiter = "epoll" THEN added' = added \cup {ch[i].sess : i \in 1 .. Len(ch)} ELSE added' = added,
         NEW k, ki' = k, Proper(k, L, ev), waiter # "kqueue" \/ wpc' = "scan" => k = <<>>
  PROVE  Told'
<1>1. PICK n, ad : n = entry' /\ ad = added'
  OBVIOUS
<1>2. Known(n, ad, L, ev)
  <2>1. IF waiter = "epoll" THEN ad = added \cup {ch[i].sess : i \in 1 .. Len(ch)} ELSE ad = added
    BY <1>1
  <2>2. Known(Applied(entry, ch), ad, L, ev)
    BY <2>1, KnownApplied
  <2> QED  BY <1>1, <2>2
<1>9. \A x \in added' : fd[x] # None \/ x \in lost
  <2>1. \A i \in 1 .. Len(ch) : fd[ch[i].sess] # None
    <3>1. \A i \in 1 .. Len(ch) : ch[i].fd \in Fds
      <4>1. \A i \in 1 .. Len(ch) : ch[i] \in Changes
        BY DEF Proper
      <4> QED  BY <4>1 DEF Changes
    <3> QED  BY <3>1, Constants DEF Proper
  <2>2. \A x \in added : fd[x] # None \/ x \in lost
    BY DEF Told
  <2> QED  BY <2>1, <2>2
<1>10. /\ k \in Seq(Changes)
       /\ \A i \in 1 .. Len(k) : k[i].sess \in L /\ k[i].sess \notin ev /\ fd[k[i].sess] = k[i].fd
  BY DEF Proper
<1>11. waiter \in {"epoll", "kqueue", "ports", "poll"}
  BY DEF Told
<1> QED  BY <1>1, <1>2, <1>9, <1>10, <1>11 DEF Told, Known

\* One change, none, and one more.
LEMMA ProperChanges ==
  ASSUME NEW p, Owned(p), NEW L, NEW ev
  PROVE  /\ Proper(<<>>, L, ev) /\ \A x : x \notin {<<>>[i].sess : i \in 1 .. Len(<<>>)}
         /\ \A s \in Chunks : s \in L /\ s \notin ev /\ fd[s] # None =>
              /\ Proper(<<Change(s)>>, L, ev)
              /\ {<<Change(s)>>[i].sess : i \in 1 .. Len(<<Change(s)>>)} = {s}
              /\ \A q : Proper(q, L, ev) => Proper(Append(q, Change(s)), L, ev)
<1>1. Proper(<<>>, L, ev) /\ \A x : x \notin {<<>>[i].sess : i \in 1 .. Len(<<>>)}
  BY EmptySeq DEF Proper
<1>2. ASSUME NEW s \in Chunks, s \in L, s \notin ev, fd[s] # None
      PROVE  /\ Proper(<<Change(s)>>, L, ev)
             /\ {<<Change(s)>>[i].sess : i \in 1 .. Len(<<Change(s)>>)} = {s}
             /\ \A q : Proper(q, L, ev) => Proper(Append(q, Change(s)), L, ev)
  <2>1. PICK c : c = Change(s)
    OBVIOUS
  <2>2. c \in Changes /\ c.sess = s /\ c.fd = fd[s]
    BY <1>2, <2>1 DEF Change, Changes, Owned
  <2>3. <<c>> \in Seq(Changes) /\ Len(<<c>>) = 1 /\ <<c>>[1] = c
    BY <2>2
  <2>4. Proper(<<c>>, L, ev)
    BY <1>2, <2>2, <2>3 DEF Proper
  <2>5. {<<c>>[i].sess : i \in 1 .. Len(<<c>>)} = {s}
    BY <2>2, <2>3
  <2>6. ASSUME NEW q, Proper(q, L, ev) PROVE Proper(Append(q, c), L, ev)
    <3>1. q \in Seq(Changes)
      BY <2>6 DEF Proper
    <3>2. PICK r : r = Append(q, c)
      OBVIOUS
    <3>3. /\ r \in Seq(Changes) /\ Len(r) = Len(q) + 1 /\ r[Len(q) + 1] = c
          /\ \A i \in 1 .. Len(q) : r[i] = q[i]
      BY <2>2, <3>1, <3>2, AppendProperties
    <3>4. \A i \in 1 .. Len(r) : i \in 1 .. Len(q) \/ i = Len(q) + 1
      BY <3>1, <3>3, LenProperties
    <3>5. Proper(r, L, ev)
      BY <1>2, <2>2, <2>6, <3>3, <3>4 DEF Proper
    <3> QED  BY <3>2, <3>5
  <2> QED  BY <2>1, <2>4, <2>5, <2>6
<1> QED  BY <1>1, <1>2

\* No changes change nothing.
LEMMA NothingApplied ==
  ASSUME NEW e \in [Fds -> Entries]
  PROVE  Applied(e, <<>>) = e
<1>1. <<>> \in Seq(Changes) /\ Len(<<>>) = 0
  BY EmptySeq
<1>2. /\ Applied(e, <<>>) \in [Fds -> Entries]
      /\ \A f \in Fds : (\A i \in 1 .. Len(<<>>) : <<>>[i].fd # f) => Applied(e, <<>>)[f] = e[f]
  BY <1>1, AppliedTo
<1>3. \A f \in Fds : Applied(e, <<>>)[f] = e[f]
  BY <1>1, <1>2
<1> QED  BY <1>2, <1>3

\* What Watch tells the kernel, and what it keeps for later.
LEMMA Watches ==
  ASSUME NEW p, Inv(p), NEW s \in Chunks, fd[s] # None, Watch(s),
         NEW L \in SUBSET Chunks, L = OnList \cup {s},
         NEW ev \in SUBSET (Chunks \cup {Pipe}), ev \subseteq events, s \notin ev,
         OnList' = L, events' = ev, UNCHANGED <<waiter, fd, lost, wpc>>,
         wpc # "scan"
  PROVE  /\ Told'
         /\ waiter = "poll" => pollfd' = pollfd \cup {fd[s]} /\ entry' = entry
         /\ waiter # "poll" => pollfd' = pollfd
<1>1. /\ Owned(p) /\ Told /\ Loop /\ waiter \in {"epoll", "kqueue", "ports", "poll"}
      /\ entry \in [Fds -> Entries] /\ added \subseteq Chunks
      /\ fd \in [Chunks -> Fds \cup {None}]
  BY DEF Inv, Told, Owned
<1>2. /\ Proper(<<>>, L, ev) /\ \A x : x \notin {<<>>[i].sess : i \in 1 .. Len(<<>>)}
      /\ Proper(<<Change(s)>>, L, ev)
      /\ {<<Change(s)>>[i].sess : i \in 1 .. Len(<<Change(s)>>)} = {s}
      /\ \A q : Proper(q, L, ev) => Proper(Append(q, Change(s)), L, ev)
  BY <1>1, ProperChanges
<1>3. Proper(ki, L, ev)
  BY <1>1 DEF Proper, Told
<1>4. entry = Applied(entry, <<>>)
  BY <1>1, NothingApplied
<1>5. OnList \subseteq L /\ ev \ {Pipe} \subseteq events
  OBVIOUS
<1>6. waiter # "kqueue" => ki = <<>>
  BY <1>1 DEF Told
<1>7. UNCHANGED <<waiter, fd, lost>>
  OBVIOUS
<1>8. CASE waiter = "epoll"
  <2>1. entry' = Applied(entry, <<Change(s)>>) /\ added' = added \cup {s} /\ ki' = ki /\ pollfd' = pollfd
    BY <1>8 DEF Watch, vca_cond_modadd
  <2>2. PICK ch : ch = <<Change(s)>>
    OBVIOUS
  <2>3. Proper(ch, L, ev) /\ entry' = Applied(entry, ch) /\ ki' = <<>>
    BY <1>2, <1>6, <1>8, <2>1, <2>2
  <2>4. /\ added' \subseteq Chunks
        /\ IF waiter = "epoll" THEN added' = added \cup {ch[i].sess : i \in 1 .. Len(ch)} ELSE added' = added
    BY <1>1, <1>2, <1>8, <2>1, <2>2
  <2>5. Told'
    BY <1>1, <1>2, <1>5, <1>7, <2>3, <2>4, ToldApplied
  <2> QED  BY <1>8, <2>1, <2>5
<1>9. CASE waiter = "ports"
  <2>1. entry' = Applied(entry, <<Change(s)>>) /\ added' = added /\ ki' = ki /\ pollfd' = pollfd
    BY <1>9 DEF Watch, vca_add
  <2>2. PICK ch : ch = <<Change(s)>>
    OBVIOUS
  <2>3. Proper(ch, L, ev) /\ entry' = Applied(entry, ch) /\ ki' = <<>>
    BY <1>2, <1>6, <1>9, <2>1, <2>2
  <2>4. /\ added' \subseteq Chunks
        /\ IF waiter = "epoll" THEN added' = added \cup {ch[i].sess : i \in 1 .. Len(ch)} ELSE added' = added
    BY <1>1, <1>9, <2>1
  <2>5. Told'
    BY <1>1, <1>2, <1>5, <1>7, <2>3, <2>4, ToldApplied
  <2> QED  BY <1>9, <2>1, <2>5
<1>10. CASE waiter = "poll"
  <2>1. entry' = entry /\ added' = added /\ ki' = ki /\ pollfd' = pollfd \cup {fd[s]}
    BY <1>10 DEF Watch, vca_poll
  <2>2. PICK ch : ch = <<>>
    OBVIOUS
  <2>3. Proper(ch, L, ev) /\ entry' = Applied(entry, ch) /\ ki' = <<>>
    BY <1>2, <1>4, <1>6, <1>10, <2>1, <2>2
  <2>4. /\ added' \subseteq Chunks
        /\ IF waiter = "epoll" THEN added' = added \cup {ch[i].sess : i \in 1 .. Len(ch)} ELSE added' = added
    BY <1>1, <1>10, <2>1
  <2>5. Told'
    BY <1>1, <1>2, <1>5, <1>7, <2>3, <2>4, ToldApplied
  <2> QED  BY <1>10, <2>1, <2>5
<1>11. CASE waiter = "kqueue"
  <2>1. vca_kq_sess(s)
    BY <1>11 DEF Watch
  <2>2. added' = added /\ pollfd' = pollfd
    BY <2>1 DEF vca_kq_sess
  <2>3. PICK ch, k : /\ Proper(ch, L, ev) /\ entry' = Applied(entry, ch)
                     /\ Proper(k, L, ev) /\ ki' = k
    <3>1. CASE entry' = Applied(entry, Append(ki, Change(s))) /\ ki' = <<>>
      BY <1>2, <1>3, <3>1
    <3>2. CASE ki' = Append(ki, Change(s)) /\ UNCHANGED entry
      BY <1>2, <1>3, <1>4, <3>2
    <3> QED  BY <2>1, <3>1, <3>2 DEF vca_kq_sess
  <2>4. /\ added' \subseteq Chunks
        /\ IF waiter = "epoll" THEN added' = added \cup {ch[i].sess : i \in 1 .. Len(ch)} ELSE added' = added
    BY <1>1, <1>11, <2>2
  <2>5. waiter # "kqueue" \/ wpc' = "scan" => k = <<>>
    BY <1>11
  <2>6. Told'
    BY <1>1, <1>5, <1>7, <2>3, <2>4, <2>5, ToldApplied
  <2> QED  BY <1>11, <2>2, <2>6
<1> QED  BY <1>1, <1>8, <1>9, <1>10, <1>11

\* The waiter's read of a session from its pipe keeps the invariant.
LEMMA HandlePipeStep ==
  ASSUME NEW p, Inv(p), HandlePipe
  PROVE  IInv'
<1>1. /\ Where(p) /\ Kept /\ Owned(p) /\ Told /\ Loop /\ Bound /\ p \in [Chunks -> PlaceNames]
  BY DEF Inv, Where
<1>2. PICK s : s = Head(pipe)
  OBVIOUS
<1>3. /\ UNCHANGED <<waiter, acc, work, lost, mem, nsess, freeq, qp, del, fd, queue, wpc, walk, in>>
      /\ pipe # <<>> /\ Pipe \in events /\ wpc \in {"events", "eventsT", "pipe"}
      /\ sesshead' = Append(sesshead, s) /\ Watch(s) /\ pipe' = Tail(pipe)
      /\ events' = IF Len(pipe) = 1 THEN events \ {Pipe} ELSE events
  BY <1>2 DEF HandlePipe, Waits, Insert, memVars
<1>4. PICK q : q = pipe
  OBVIOUS
<1>5. /\ s \in Chunks /\ s \in ToSet(q) /\ Tail(q) \in Seq(Chunks) /\ Once(Tail(q))
      /\ ToSet(Tail(q)) = ToSet(q) \ {s}
  <2>1. q \in Seq(Chunks) /\ q # <<>> /\ Once(q) /\ s = Head(q)
    BY <1>1, <1>2, <1>3, <1>4 DEF Kept
  <2> QED  BY <2>1, Tailed
<1>6. /\ s \in InPipe /\ pipe' \in Seq(Chunks) /\ Once(pipe') /\ InPipe' = InPipe \ {s}
  BY <1>3, <1>4, <1>5 DEF InPipe
<1>7. s \in mem /\ p[s] = "pipe" /\ s \notin OnList /\ fd[s] # None
  BY <1>1, <1>5, <1>6 DEF Where, Owned, Open
<1>8. /\ sesshead' \in Seq(Chunks) /\ Once(sesshead') /\ OnList' = OnList \cup {s}
  <2>1. PICK l : l = sesshead
    OBVIOUS
  <2>2. l \in Seq(Chunks) /\ Once(l) /\ s \notin ToSet(l)
    BY <1>1, <1>7, <2>1 DEF Kept, OnList
  <2>3. Append(l, s) \in Seq(Chunks) /\ Once(Append(l, s)) /\ ToSet(Append(l, s)) = ToSet(l) \cup {s}
    BY <1>5, <2>2, Appended
  <2> QED  BY <1>3, <2>1, <2>3 DEF OnList
<1>9. PICK L, ev : L = OnList \cup {s} /\ ev = events'
  OBVIOUS
<1>10. /\ L \in SUBSET Chunks /\ ev \in SUBSET (Chunks \cup {Pipe}) /\ ev \subseteq events /\ s \notin ev
  <2>1. s \notin events
    BY <1>1, <1>5, <1>7, Constants DEF Loop
  <2>2. events \subseteq Chunks \cup {Pipe} /\ OnList \subseteq Chunks
    BY <1>1 DEF Told, Where
  <2>3. ev \subseteq events
    BY <1>3, <1>9
  <2> QED  BY <1>5, <1>9, <2>1, <2>2, <2>3
<1>11. /\ Told'
       /\ waiter = "poll" => pollfd' = pollfd \cup {fd[s]} /\ entry' = entry
       /\ waiter # "poll" => pollfd' = pollfd
  <2>1. UNCHANGED <<waiter, fd, lost, wpc>> /\ wpc # "scan" /\ OnList' = L /\ events' = ev
    BY <1>3, <1>8, <1>9
  <2> QED  BY <1>3, <1>5, <1>7, <1>9, <1>10, <2>1, Watches
<1>12. PICK r : r = [p EXCEPT ![s] = "list"]
  OBVIOUS
<1>13. Moves(s, p[s], "list")
  <2>1. InFree(0)' = InFree(0) /\ InFree(1)' = InFree(1) /\ InQueue' = InQueue /\ WithAcc' = WithAcc
        /\ AtWork' = AtWork /\ mem' = mem /\ lost' = lost
    BY <1>3 DEF InFree, InQueue, WithAcc, AtWork
  <2> QED  BY <1>6, <1>7, <1>8, <2>1 DEF Moves, Goes
<1>14. Where(r)' /\ r \in [Chunks -> PlaceNames]
  <2>1. "list" \in PlaceNames
    BY DEF PlaceNames
  <2> QED  BY <1>1, <1>5, <1>12, <1>13, <2>1, Moved
<1>15. Kept'
  BY <1>1, <1>3, <1>6, <1>8 DEF Kept, WorkOnce
<1>16. Owned(r)'
  <2>1. del \in DelStates /\ acc \in AccStates /\ in \in Inputs
        /\ (acc.pc # "poll" => del["acceptor"] = "idle")
    BY <1>1 DEF Owned
  <2>2. \A x \in Chunks : r[x] \in Open <=> p[x] \in Open
    BY <1>1, <1>7, <1>12 DEF Open
  <2> QED  BY <1>1, <1>3, <1>14, <2>1, <2>2, OwnedKept
<1>17. Loop'
  <2>1. fd[s] \in Fds /\ fd' = fd
    BY <1>1, <1>3, <1>5, <1>7 DEF Owned
  <2>2. waiter = "poll" => pollfd' = {fd[x] : x \in OnList \cup {s}}
    BY <1>1, <1>11 DEF Loop
  <2>3. pollfd' \subseteq Fds
    BY <1>1, <1>11, <2>1 DEF Loop
  <2>4. walk' = <<>> /\ walk = <<>> /\ ToSet(walk) = {} /\ walk \in Seq(Chunks) /\ Once(walk)
    BY <1>1, <1>3, NoneOnEmpty DEF Loop
  <2>5. events' \ {Pipe} \subseteq OnList' /\ events' \subseteq events
    BY <1>1, <1>3, <1>8 DEF Loop
  <2>6. wpc' = "pipe" => events' \subseteq {Pipe}
    BY <1>1, <1>3, <2>5 DEF Loop
  <2>7. waiter' = "poll" => /\ pollfd' = {fd'[x] : x \in OnList'} /\ wpc' \in {"wait", "walk", "pipe"}
                            /\ \A f \in Fds : entry'[f].sess = None
    BY <1>1, <1>3, <1>8, <1>11, <2>1, <2>2 DEF Loop
  <2>8. waiter' # "poll" => pollfd' = {} /\ wpc' \notin {"walk", "pipe"}
    BY <1>1, <1>3, <1>11 DEF Loop
  <2>9. walk' \in Seq(Chunks) /\ Once(walk') /\ ToSet(walk') \subseteq OnList'
    BY <1>3, <2>4
  <2> QED  BY <1>3, <2>3, <2>4, <2>5, <2>6, <2>7, <2>8, <2>9 DEF Loop
<1>18. Bound'
  BY <1>1, <1>3, AllocsKept, BoundKept
<1> QED  BY <1>11, <1>14, <1>15, <1>16, <1>17, <1>18 DEF IInv, Inv

\* The kernel's call of a waiter keeps the invariant.
LEMMA WaitStep ==
  ASSUME NEW p, Inv(p), Wait
  PROVE  IInv'
<1>1. /\ Where(p) /\ Kept /\ Owned(p) /\ Told /\ Loop /\ Bound /\ p \in [Chunks -> PlaceNames]
  BY DEF Inv, Where
<1>2. PICK e, got, n : /\ e = Applied(entry, ki) /\ n = Reported(e)
                       /\ got = {e[f].sess : f \in Ready(e)} \cup Polled \cup {q \in {Pipe} : pipe # <<>>}
  OBVIOUS
<1>3. /\ UNCHANGED <<waiter, acc, work, lost, mem, nsess, freeq, qp, del, fd, added, queue, pipe,
                     sesshead, pollfd, in>>
      /\ wpc = "wait" /\ ki' = <<>> /\ events' = got /\ entry' = n
      /\ wpc' = IF waiter = "poll" THEN "walk" ELSE IF dotimer THEN "eventsT" ELSE "events"
      /\ walk' = IF waiter = "poll" THEN sesshead ELSE <<>>
  BY <1>2 DEF Wait, Waits, memVars, sessVars
<1>4. events = {} /\ OnList \subseteq Chunks /\ waiter \in {"epoll", "kqueue", "ports", "poll"}
      /\ entry \in [Fds -> Entries]
  BY <1>1, <1>3 DEF Loop, Where, Told
<1>5. Known(e, added, OnList, {})
  <2>1. Proper(ki, OnList, {})
    BY <1>1, <1>4 DEF Told, Proper
  <2>2. IF waiter = "epoll" THEN added = added \cup {ki[i].sess : i \in 1 .. Len(ki)} ELSE added = added
    <3>1. CASE waiter = "epoll"
      <4>1. ki = <<>>
        BY <1>1, <3>1 DEF Told
      <4>2. Len(<<>>) = 0
        BY EmptySeq
      <4> QED  BY <3>1, <4>1, <4>2
    <3> QED  BY <3>1
  <2>3. Known(Applied(entry, ki), added, OnList, {})
    BY <1>1, <1>4, <2>1, <2>2, KnownApplied
  <2> QED  BY <1>2, <2>3
<1>6. waiter = "poll" => e = entry /\ \A f \in Fds : e[f].sess = None
  <2>1. waiter = "poll" => ki = <<>>
    BY <1>1 DEF Told
  <2>2. Applied(entry, <<>>) = entry
    BY <1>4, NothingApplied
  <2> QED  BY <1>1, <1>2, <2>1, <2>2 DEF Loop
<1>7. /\ Polled \subseteq OnList /\ (waiter # "poll" => Polled = {})
  <2>1. waiter # "poll" => pollfd = {}
    BY <1>1 DEF Loop
  <2> QED  BY <2>1 DEF Polled, OnList
<1>8. /\ e \in [Fds -> Entries]
      /\ \A f \in Fds : e[f].sess # None => fd[e[f].sess] = f
      /\ \A f \in Fds : e[f].armed => e[f].sess \in OnList /\ e[f].sess # None /\ e[f].sess \in Chunks
  BY <1>4, <1>5, Constants DEF Known
<1>9. Ready(e) \subseteq Fds /\ \A f \in Ready(e) : e[f].armed
  BY DEF Ready
<1>10. /\ n \in [Fds -> Entries]
       /\ \A f \in Fds : f \notin Ready(e) => n[f] = e[f]
       /\ \A f \in Ready(e) : /\ n[f].armed = FALSE /\ n[f].sess \in {e[f].sess, None}
                              /\ waiter = "epoll" => n[f].sess = e[f].sess
                              /\ waiter # "epoll" => n[f].sess = None
  <2>1. NoEntry \in Entries /\ NoEntry.sess = None /\ NoEntry.armed = FALSE
    BY DEF NoEntry, Entries
  <2>2. \A f \in Fds : n[f] = IF f \notin Ready(e) THEN e[f]
                              ELSE IF waiter = "epoll" THEN [e[f] EXCEPT !.armed = FALSE] ELSE NoEntry
    BY <1>2 DEF Reported
  <2>3. \A f \in Fds : /\ [e[f] EXCEPT !.armed = FALSE] \in Entries
                       /\ [e[f] EXCEPT !.armed = FALSE].armed = FALSE
                       /\ [e[f] EXCEPT !.armed = FALSE].sess = e[f].sess
    BY <1>8 DEF Entries
  <2>4. \A f \in Fds : n[f] \in Entries
    BY <1>8, <2>1, <2>2, <2>3
  <2>5. n \in [Fds -> Entries]
    <3>1. n = [f \in Fds |-> n[f]]
      BY <1>2 DEF Reported
    <3> QED  BY <2>4, <3>1
  <2> QED  BY <1>9, <2>1, <2>2, <2>3, <2>5
<1>11. \A x \in got : x = Pipe \/ x \in Polled \/ \E f \in Ready(e) : x = e[f].sess
  BY <1>2
<1>12. got \subseteq OnList \cup {Pipe}
  BY <1>7, <1>8, <1>9, <1>11
<1>13. \A f \in Ready(e) : e[f].sess \in got
  BY <1>2
<1>14. Told'
  <2>1. \A f \in Fds : n[f].sess # None => n[f].sess = e[f].sess /\ fd[n[f].sess] = f
    BY <1>8, <1>10
  <2>2. ASSUME NEW f \in Fds, n[f].armed PROVE n[f].sess \in OnList /\ n[f].sess \notin got
    <3>1. f \notin Ready(e) /\ n[f] = e[f]
      BY <1>10, <2>2
    <3>2. n[f].sess \in OnList /\ n[f].sess # None /\ n[f].sess \in Chunks /\ fd[n[f].sess] = f
      BY <1>8, <2>2, <3>1
    <3>3. n[f].sess # Pipe
      BY <3>2, Constants
    <3>4. n[f].sess \notin Polled
      BY <1>6, <1>7, <3>1, <3>2
    <3>5. ASSUME NEW g \in Ready(e), n[f].sess = e[g].sess PROVE FALSE
      <4>1. g \in Fds /\ e[g].sess # None
        BY <1>8, <1>9
      <4>2. g = f
        BY <1>8, <3>2, <3>5, <4>1
      <4> QED  BY <3>1, <4>2
    <3> QED  BY <1>11, <3>2, <3>3, <3>4, <3>5
  <2>3. ASSUME NEW x \in Chunks, fd[x] # None
        PROVE  IF waiter = "epoll" THEN x \in added <=> n[fd[x]].sess # None
               ELSE x \notin OnList \/ x \in got => n[fd[x]].sess = None
    <3>1. fd[x] \in Fds
      BY <1>1, <2>3 DEF Owned
    <3>2. IF waiter = "epoll" THEN x \in added <=> e[fd[x]].sess # None
          ELSE x \notin OnList => e[fd[x]].sess = None
      BY <1>5, <2>3 DEF Known
    <3>3. CASE waiter = "epoll"
      <4>1. n[fd[x]].sess = e[fd[x]].sess
        BY <1>9, <1>10, <3>1, <3>3
      <4> QED  BY <3>2, <3>3, <4>1
    <3>4. CASE waiter # "epoll"
      <4>1. e[fd[x]].sess = None => n[fd[x]].sess = None
        BY <1>10, <3>1
      <4>2. x \in got => n[fd[x]].sess = None
        <5>1. CASE waiter = "poll"
          BY <1>6, <3>1, <4>1, <5>1
        <5>2. ASSUME waiter # "poll", x \in got PROVE n[fd[x]].sess = None
          <6>1. x # Pipe /\ x \notin Polled
            BY <1>7, <5>2, Constants
          <6>2. PICK f \in Ready(e) : x = e[f].sess
            BY <1>11, <5>2, <6>1
          <6>3. fd[x] = f
            BY <1>8, <1>9, <6>2, Constants
          <6> QED  BY <1>10, <3>4, <6>3
        <5> QED  BY <5>1, <5>2
      <4> QED  BY <3>2, <3>4, <4>1, <4>2
    <3> QED  BY <3>3, <3>4
  <2>4. ki' \in Seq(Changes) /\ Len(ki') = 0 /\ ki' = <<>>
    BY <1>3, EmptySeq
  <2>5. OnList' = OnList /\ got \subseteq Chunks \cup {Pipe}
    BY <1>3, <1>4, <1>12 DEF OnList
  <2>6. added \subseteq Chunks /\ \A x \in added : fd[x] # None \/ x \in lost
    BY <1>1 DEF Told
  <2>7. UNCHANGED <<waiter, fd, added, lost>> /\ events' = got /\ entry' = n
    BY <1>3
  <2> QED  BY <1>4, <1>10, <2>1, <2>2, <2>3, <2>4, <2>5, <2>6, <2>7 DEF Told
<1>15. Loop'
  <2>1. OnList' = OnList
    BY <1>3 DEF OnList
  <2>2. /\ walk' \in Seq(Chunks) /\ Once(walk') /\ ToSet(walk') \subseteq OnList'
        /\ (waiter = "poll" => ToSet(walk') = OnList) /\ (waiter # "poll" => walk' = <<>>)
    <3>1. CASE waiter = "poll"
      BY <1>1, <1>3, <3>1 DEF Kept, OnList
    <3>2. CASE waiter # "poll"
      BY <1>3, <3>2, NoneOnEmpty
    <3> QED  BY <3>1, <3>2
  <2>3. wpc' \in {"events", "eventsT", "walk"} /\ (waiter = "poll" <=> wpc' = "walk")
    BY <1>3
  <2>4. events' \ {Pipe} \subseteq OnList' /\ (waiter = "poll" => events' \subseteq ToSet(walk') \cup {Pipe})
    BY <1>3, <1>12, <2>1, <2>2
  <2>5. waiter' = "poll" => pollfd' = {fd'[s] : s \in OnList'} /\ \A f \in Fds : entry'[f].sess = None
    BY <1>1, <1>3, <1>6, <1>10, <2>1 DEF Loop
  <2>6. waiter' = waiter /\ pollfd' \subseteq Fds /\ (waiter # "poll" => pollfd' = {})
    BY <1>1, <1>3 DEF Loop
  <2> QED  BY <2>2, <2>3, <2>4, <2>5, <2>6 DEF Loop
<1>16. Where(p)'
  <2>1. WithAcc' = WithAcc
    BY <1>3 DEF WithAcc
  <2> QED  BY <1>1, <1>3, <2>1, WhereKept
<1>17. Kept'
  BY <1>1, <1>3 DEF Kept, WorkOnce
<1>18. Owned(p)'
  BY <1>1, <1>3 DEF Owned
<1>19. Bound'
  BY <1>1, <1>3, AllocsKept, BoundKept
<1> QED  BY <1>1, <1>14, <1>15, <1>16, <1>17, <1>18, <1>19 DEF IInv, Inv

\* The end of a waiter's round of events keeps the invariant.
LEMMA EventsDoneStep ==
  ASSUME NEW p, Inv(p), EventsDone
  PROVE  IInv'
<1>1. /\ Where(p) /\ Kept /\ Owned(p) /\ Told /\ Loop /\ Bound /\ p \in [Chunks -> PlaceNames]
  BY DEF Inv, Where
<1>2. /\ UNCHANGED <<waiter, acc, work, lost, mem, nsess, freeq, qp, del, fd, added, queue, pipe,
                     sesshead, events, walk, pollfd, in>>
      /\ wpc \in {"events", "eventsT"} /\ events = {}
      /\ wpc' = IF wpc = "eventsT" THEN "scan" ELSE "wait"
      /\ IF wpc = "eventsT" /\ waiter = "kqueue" THEN vca_kq_flush ELSE UNCHANGED <<entry, ki>>
  BY DEF EventsDone, Waits, memVars, sessVars
<1>3. /\ OnList' = OnList /\ OnList \in SUBSET Chunks /\ entry \in [Fds -> Entries] /\ waiter # "poll"
      /\ added \subseteq Chunks
  BY <1>1, <1>2 DEF OnList, Where, Told, Loop
<1>4. Proper(<<>>, OnList, {}) /\ Proper(ki, OnList, {})
  BY <1>1, <1>2, ProperChanges DEF Proper, Told
<1>5. Told'
  <2>1. PICK ch, k : /\ Proper(ch, OnList, {}) /\ entry' = Applied(entry, ch) /\ ki' = k /\ Proper(k, OnList, {})
                     /\ (waiter # "kqueue" \/ wpc' = "scan" => k = <<>>)
                     /\ (waiter = "epoll" => ch = <<>>)
    <3>1. CASE wpc = "eventsT" /\ waiter = "kqueue"
      BY <1>2, <1>4, <3>1 DEF vca_kq_flush
    <3>2. CASE ~ (wpc = "eventsT" /\ waiter = "kqueue")
      <4>1. entry' = entry /\ ki' = ki /\ entry = Applied(entry, <<>>)
        BY <1>2, <1>3, <3>2, NothingApplied
      <4>2. waiter # "kqueue" => ki = <<>>
        BY <1>1 DEF Told
      <4>3. waiter # "kqueue" \/ wpc' = "scan" => ki = <<>>
        BY <1>2, <3>2, <4>2
      <4> QED  BY <1>4, <4>1, <4>3
    <3> QED  BY <3>1, <3>2
  <2>2. /\ added' \subseteq Chunks
        /\ IF waiter = "epoll" THEN added' = added \cup {ch[i].sess : i \in 1 .. Len(ch)} ELSE added' = added
    <3>1. waiter = "epoll" => {ch[i].sess : i \in 1 .. Len(ch)} = {}
      <4>1. Len(<<>>) = 0
        BY EmptySeq
      <4> QED  BY <2>1, <4>1
    <3> QED  BY <1>2, <1>3, <3>1
  <2>3. {} \in SUBSET (Chunks \cup {Pipe}) /\ {} \ {Pipe} \subseteq events /\ OnList \subseteq OnList
    OBVIOUS
  <2>4. events' = {} /\ UNCHANGED <<waiter, fd, lost>>
    BY <1>2
  <2> QED  BY <1>1, <1>3, <2>1, <2>2, <2>3, <2>4, ToldApplied
<1>6. Loop'
  BY <1>1, <1>2, <1>3 DEF Loop
<1>7. Where(p)'
  <2>1. WithAcc' = WithAcc
    BY <1>2 DEF WithAcc
  <2> QED  BY <1>1, <1>2, <2>1, WhereKept
<1>8. Kept'
  BY <1>1, <1>2 DEF Kept, WorkOnce
<1>9. Owned(p)'
  BY <1>1, <1>2 DEF Owned
<1>10. Bound'
  BY <1>1, <1>2, AllocsKept, BoundKept
<1> QED  BY <1>1, <1>5, <1>6, <1>7, <1>8, <1>9, <1>10 DEF IInv, Inv

\* What the waiter knows of a session of its list.
Listed(p, s) ==
  /\ s \in Chunks /\ p[s] = "list" /\ s \in OnList /\ s \in mem
  /\ fd[s] # None /\ fd[s] \in Fds /\ in[fd[s]] # Closed /\ \A x \in Chunks : x # s => fd[x] # fd[s]
  /\ acc.pc # "poll" => acc.fd # fd[s]

\* What is known of a session on the waiter's list.
LEMMA OfList ==
  ASSUME NEW p, Inv(p), NEW s \in OnList
  PROVE  Listed(p, s)
<1>1. /\ Where(p) /\ Owned(p)
  BY DEF Inv
<1>2. s \in Chunks /\ p[s] = "list" /\ s \in mem
  BY <1>1 DEF Where
<1>3. fd[s] # None /\ fd[s] \in Fds /\ in[fd[s]] # Closed /\ \A x \in Chunks : x # s => fd[x] # fd[s]
  BY <1>1, <1>2 DEF Owned, Open
<1>4. acc.pc # "poll" => acc.fd # fd[s]
  BY <1>1, <1>2 DEF Owned
<1> QED  BY <1>2, <1>3, <1>4 DEF Listed

\* The session is off the list.
OffList(s) ==
  /\ sesshead' \in Seq(Chunks) /\ Once(sesshead') /\ OnList' = OnList \ {s}
  /\ events' = events \ {s}
  /\ UNCHANGED <<waiter, acc, work, lost, pipe, wpc, ki>>

\* A session taken off the waiter's list.
LEMMA OffListRemoved ==
  ASSUME Kept, NEW s \in OnList, sesshead' = RemoveFirst(sesshead, s)
  PROVE  sesshead' \in Seq(Chunks) /\ Once(sesshead') /\ OnList' = OnList \ {s}
<1>1. PICK l : l = sesshead
  OBVIOUS
<1>2. l \in Seq(Chunks) /\ Once(l) /\ s \in ToSet(l)
  BY <1>1 DEF Kept, OnList
<1>3. /\ RemoveFirst(l, s) \in Seq(Chunks) /\ Once(RemoveFirst(l, s))
      /\ ToSet(RemoveFirst(l, s)) = ToSet(l) \ {s}
  BY <1>2, Removed
<1> QED  BY <1>1, <1>3 DEF OnList

\* It is closed and deleted.
LEMMA OffClosed ==
  ASSUME NEW p, Inv(p), NEW s \in OnList, Free("waiter"), OffList(s),
         CloseDelete("waiter", s, fd[s]),
         s \in events \/ ki = <<>>
  PROVE  /\ \E r \in [Chunks -> PlaceNames] : Most(r)'
         /\ fd' = [fd EXCEPT ![s] = None]
         /\ \A g \in Fds : entry[g].sess = None => entry'[g].sess = None
<1>1. /\ Where(p) /\ Kept /\ Owned(p) /\ Told /\ Loop /\ Bound /\ p \in [Chunks -> PlaceNames]
  BY DEF Inv, Where
<1>2. Listed(p, s)
  BY OfList
<1>3. PICK f : f = fd[s]
  OBVIOUS
<1>4. /\ s \in Chunks /\ p[s] \in {"acc", "work", "list"} /\ f \in Fds /\ fd[s] \in {f, None}
      /\ \A x \in Chunks : x # s => fd[x] # f
      /\ CloseDelete("waiter", s, f) /\ "waiter" \in Threads
  BY <1>2, <1>3, Constants DEF Listed
<1>5. acc' \in AccStates /\ (acc'.pc = "poll" \/ (acc' = acc /\ acc.fd # f /\ "waiter" # "acceptor"))
  BY <1>1, <1>2, <1>3 DEF Owned, OffList, Listed
<1>6. Goes(AtWork, AtWork', "work", s, p[s], "none") /\ Goes(WithAcc, WithAcc', "acc", s, p[s], "none")
  BY <1>2 DEF Goes, WithAcc, AtWork, OffList, Listed
<1>7. /\ work' \in [Workers -> Jobs \cup {Idle}] /\ WorkOnce'
      /\ sesshead' \in Seq(Chunks) /\ Once(sesshead')
  BY <1>1 DEF OffList, Kept, WorkOnce
<1>8. /\ OnList' = OnList \ {s} /\ events' = events \ {s} /\ UNCHANGED <<waiter, wpc, ki, lost, pipe>>
  BY DEF OffList
<1>9. \A i \in 1 .. Len(ki) : ki[i].sess # s
  <2>1. CASE s \in events
    BY <1>1, <2>1 DEF Told
  <2>2. CASE ki = <<>>
    <3>1. Len(<<>>) = 0
      BY EmptySeq
    <3> QED  BY <2>2, <3>1
  <2> QED  BY <2>1, <2>2
<1> QED  BY <1>4, <1>5, <1>6, <1>7, <1>8, <1>9, ClosedDeleted, Zenon

\* It goes to a worker with the request that was read for it.
LEMMA OffQueued ==
  ASSUME NEW p, Inv(p), NEW s \in OnList, s \in events, OffList(s),
         queue' = Append(queue, [sess |-> s, step |-> "start"]),
         fd' = [fd EXCEPT ![s] = fd[s]], in' = [in EXCEPT ![fd[s]] = "none"],
         UNCHANGED <<memVars, age, added, entry, del>>
  PROVE  (\E r \in [Chunks -> PlaceNames] : Most(r)') /\ fd' = fd
<1>1. /\ Where(p) /\ Kept /\ Owned(p) /\ Told /\ Loop /\ Bound /\ p \in [Chunks -> PlaceNames]
  BY DEF Inv, Where
<1>2. /\ s \in Chunks /\ p[s] = "list" /\ s \in mem /\ fd[s] \in Fds /\ in[fd[s]] # Closed
  BY OfList DEF Listed
<1>3. /\ UNCHANGED <<mem, nsess, freeq, qp, added, entry, del>>
      /\ UNCHANGED <<waiter, acc, work, lost, pipe, wpc, ki>>
      /\ sesshead' \in Seq(Chunks) /\ Once(sesshead') /\ OnList' = OnList \ {s}
      /\ events' = events \ {s}
  BY DEF OffList, memVars
<1>4. fd' = fd
  BY <1>1 DEF Owned
<1>5. in' \in Inputs /\ \A g \in Fds : in'[g] = Closed <=> in[g] = Closed
  BY <1>1, <1>2, ReadOpen
<1>6. PICK j, q : j = [sess |-> s, step |-> "start"] /\ q = queue
  OBVIOUS
<1>7. j \in Jobs /\ j.sess = s
  BY <1>2, <1>6 DEF Jobs
<1>8. q \in Seq(Jobs) /\ JobsOnce(q) /\ \A i \in 1 .. Len(q) : q[i].sess # j.sess
  <2>1. s \notin InQueue
    BY <1>1, <1>2 DEF Where
  <2> QED  BY <1>1, <1>6, <1>7, <2>1 DEF Kept, InQueue
<1>9. /\ Append(q, j) \in Seq(Jobs) /\ JobsOnce(Append(q, j))
      /\ {Append(q, j)[i].sess : i \in 1 .. Len(Append(q, j))} = {q[i].sess : i \in 1 .. Len(q)} \cup {j.sess}
  BY <1>7, <1>8, JobAppended
<1>10. queue' \in Seq(Jobs) /\ JobsOnce(queue') /\ InQueue' = InQueue \cup {s}
  BY <1>6, <1>7, <1>9 DEF InQueue
<1>11. PICK r : r = [p EXCEPT ![s] = "queue"]
  OBVIOUS
<1>12. Moves(s, p[s], "queue")
  <2>1. InFree(0)' = InFree(0) /\ InFree(1)' = InFree(1) /\ InPipe' = InPipe /\ WithAcc' = WithAcc
        /\ AtWork' = AtWork /\ mem' = mem /\ lost' = lost
    BY <1>3 DEF InFree, InPipe, WithAcc, AtWork
  <2> QED  BY <1>2, <1>3, <1>10, <2>1 DEF Moves, Goes
<1>13. Where(r)' /\ r \in [Chunks -> PlaceNames]
  <2>1. "queue" \in PlaceNames
    BY DEF PlaceNames
  <2> QED  BY <1>1, <1>2, <1>11, <1>12, <2>1, Moved
<1>14. Kept'
  BY <1>1, <1>3, <1>10 DEF Kept, WorkOnce
<1>15. Owned(r)'
  <2>1. del \in DelStates /\ acc \in AccStates /\ (acc.pc # "poll" => del["acceptor"] = "idle")
    BY <1>1 DEF Owned
  <2>2. \A x \in Chunks : r[x] \in Open <=> p[x] \in Open
    BY <1>1, <1>2, <1>11 DEF Open
  <2> QED  BY <1>1, <1>3, <1>4, <1>5, <1>13, <2>1, <2>2, OwnedKept
<1>16. Told'
  BY <1>1, <1>2, <1>3, <1>4, ToldTaken
<1>17. Bound'
  BY <1>1, <1>3, AllocsKept, BoundKept
<1> QED  BY <1>4, <1>13, <1>14, <1>15, <1>16, <1>17 DEF Most

\* Either way, in a waiter other than poll.
LEMMA OffLoop ==
  ASSUME NEW p, Inv(p), NEW s \in OnList, waiter # "poll", OffList(s), UNCHANGED <<pollfd, walk>>
  PROVE  Loop'
<1> QED  BY LoopTaken DEF Inv, OffList

\* vca_handover.
LEMMA HandedOver ==
  ASSUME NEW p, Inv(p), NEW s \in OnList, s \in events, Free("waiter"), OffList(s),
         NEW i \in HTC_Rx, vca_handover(s, i)
  PROVE  /\ \E r \in [Chunks -> PlaceNames] : Most(r)'
         /\ fd' = [fd EXCEPT ![s] = None] \/ fd' = fd
         /\ \A g \in Fds : entry[g].sess = None => entry'[g].sess = None
<1>1. CASE CloseDelete("waiter", s, fd[s])
  BY <1>1, OffClosed
<1>2. CASE /\ queue' = Append(queue, [sess |-> s, step |-> "start"])
           /\ fd' = [fd EXCEPT ![s] = fd[s]] /\ in' = [in EXCEPT ![fd[s]] = "none"]
           /\ UNCHANGED <<memVars, age, added, entry, del>>
  <2>1. (\E r \in [Chunks -> PlaceNames] : Most(r)') /\ fd' = fd
    BY <1>2, OffQueued
  <2> QED  BY <1>2, <2>1
<1> QED  BY <1>1, <1>2 DEF vca_handover, WRK_QueueSession

\* The session stays on the list; its descriptor may be watched again.
LEMMA StaysOn ==
  ASSUME NEW p, Inv(p), NEW s \in OnList, s \in events, Reads(s), Stays,
         UNCHANGED <<waiter, acc, work, lost, pipe, wpc, walk, pollfd>>,
         events' = events \ {s}, waiter # "poll", Told'
  PROVE  IInv'
<1>1. /\ Where(p) /\ Kept /\ Owned(p) /\ Loop /\ Bound /\ p \in [Chunks -> PlaceNames]
  BY DEF Inv, Where
<1>2. fd[s] \in Fds /\ in[fd[s]] # Closed
  BY OfList DEF Listed
<1>3. UNCHANGED <<mem, nsess, freeq, qp, fd, del, queue, sesshead>>
  BY DEF Stays, memVars
<1>4. in' \in Inputs /\ \A g \in Fds : in'[g] = Closed <=> in[g] = Closed
  BY <1>1, <1>2, ReadOpen DEF Reads
<1>5. Where(p)'
  <2>1. WithAcc' = WithAcc
    BY DEF WithAcc
  <2> QED  BY <1>1, <1>3, <2>1, WhereKept
<1>6. Kept'
  BY <1>1, <1>3 DEF Kept, WorkOnce
<1>7. Owned(p)'
  <2>1. del \in DelStates /\ acc \in AccStates /\ (acc.pc # "poll" => del["acceptor"] = "idle")
    BY <1>1 DEF Owned
  <2> QED  BY <1>1, <1>3, <1>4, <2>1, OwnedKept
<1>8. Loop'
  <2>1. OnList' = OnList /\ walk = <<>> /\ walk' = walk
    BY <1>1, <1>3 DEF OnList, Loop
  <2> QED  BY <1>1, <2>1 DEF Loop
<1>9. Bound'
  BY <1>1, <1>3, AllocsKept, BoundKept
<1> QED  BY <1>1, <1>5, <1>6, <1>7, <1>8, <1>9 DEF IInv, Inv

\* An event that was handled and whose descriptor is watched again, or is not.
LEMMA Rewatched ==
  ASSUME NEW p, Inv(p), NEW s \in OnList, s \in events, wpc # "scan",
         Watch(s) \/ (waiter = "ports" /\ UNCHANGED <<added, entry, ki, pollfd>>),
         UNCHANGED <<waiter, fd, lost, wpc, sesshead>>, events' = events \ {s}, waiter # "poll"
  PROVE  Told' /\ pollfd' = pollfd
<1>1. /\ Owned(p) /\ Told /\ OnList \subseteq Chunks /\ entry \in [Fds -> Entries]
  BY DEF Inv, Where, Told
<1>2. PICK L, ev : L = OnList /\ ev = events \ {s}
  OBVIOUS
<1>3. /\ s \in Chunks /\ fd[s] # None /\ L \in SUBSET Chunks /\ L = OnList \cup {s}
      /\ ev \in SUBSET (Chunks \cup {Pipe}) /\ ev \subseteq events /\ s \notin ev
      /\ OnList' = L /\ events' = ev /\ UNCHANGED <<waiter, fd, lost, wpc>>
  BY <1>1, <1>2, OfList DEF Told, Listed, OnList
<1>4. CASE Watch(s)
  <2>1. /\ Told'
        /\ waiter = "poll" => pollfd' = pollfd \cup {fd[s]} /\ entry' = entry
        /\ waiter # "poll" => pollfd' = pollfd
    BY <1>3, <1>4, Watches
  <2> QED  BY <2>1
<1>5. CASE waiter = "ports" /\ UNCHANGED <<added, entry, ki, pollfd>>
  <2>1. Proper(<<>>, L, ev) /\ entry' = Applied(entry, <<>>)
    BY <1>1, <1>5, ProperChanges, NothingApplied
  <2>2. ki' = <<>> /\ UNCHANGED <<waiter, fd, lost>>
    BY <1>1, <1>3, <1>5 DEF Told
  <2>3. PICK ch : ch = <<>>
    OBVIOUS
  <2>4. /\ added' \subseteq Chunks
        /\ IF waiter = "epoll" THEN added' = added \cup {ch[i].sess : i \in 1 .. Len(ch)} ELSE added' = added
    BY <1>1, <1>5 DEF Told
  <2>5. OnList \subseteq L /\ ev \ {Pipe} \subseteq events
    BY <1>2, <1>3
  <2>6. /\ Proper(ch, L, ev) /\ entry' = Applied(entry, ch) /\ ki' = ch
        /\ (waiter # "kqueue" \/ wpc' = "scan" => ch = <<>>)
    BY <2>1, <2>2, <2>3
  <2>7. L \in SUBSET Chunks /\ ev \in SUBSET (Chunks \cup {Pipe}) /\ OnList' = L /\ events' = ev
    BY <1>3
  <2>8. Told'
    BY <1>1, <2>2, <2>4, <2>5, <2>6, <2>7, ToldApplied
  <2> QED  BY <1>5, <2>8
<1> QED  BY <1>4, <1>5

\* What handling one event has in common.
LEMMA Handling ==
  ASSUME NEW p, Inv(p), NEW s \in Chunks, Handles(s)
  PROVE  /\ s \in OnList /\ s \in events /\ Free("waiter") /\ wpc # "scan" /\ waiter # "poll"
         /\ UNCHANGED <<waiter, acc, work, lost, pipe, wpc, walk>> /\ events' = events \ {s}
<1>1. Loop
  BY DEF Inv
<1>2. s # Pipe
  BY Constants
<1> QED  BY <1>1, <1>2 DEF Handles, Waits, Loop

\* The session leaves the list.
LEMMA LeavesList ==
  ASSUME NEW p, Inv(p), NEW s \in Chunks, Handles(s), TakenOff(s),
         CloseDelete("waiter", s, fd[s]) \/ \E i \in HTC_Rx : vca_handover(s, i)
  PROVE  IInv'
<1>1. /\ s \in OnList /\ s \in events /\ Free("waiter") /\ waiter # "poll"
      /\ UNCHANGED <<waiter, acc, work, lost, pipe, wpc, walk>> /\ events' = events \ {s}
  BY Handling
<1>2. sesshead' = RemoveFirst(sesshead, s) /\ ki' = ki /\ pollfd' = pollfd
  BY DEF TakenOff
<1>3. OffList(s)
  BY <1>1, <1>2, OffListRemoved DEF OffList, Inv
<1>4. Loop'
  BY <1>1, <1>2, <1>3, OffLoop
<1>5. \E r \in [Chunks -> PlaceNames] : Most(r)'
  <2>1. CASE CloseDelete("waiter", s, fd[s])
    BY <1>1, <1>3, <2>1, OffClosed
  <2>2. CASE \E i \in HTC_Rx : vca_handover(s, i)
    BY <1>1, <1>3, <2>2, HandedOver
  <2> QED  BY <2>1, <2>2
<1> QED  BY <1>4, <1>5 DEF IInv, Inv, Most

\* The session stays on it.
LEMMA StaysListed ==
  ASSUME NEW p, Inv(p), NEW s \in Chunks, Handles(s), Reads(s), Stays,
         Watch(s) \/ (waiter = "ports" /\ UNCHANGED <<added, entry, ki, pollfd>>)
  PROVE  IInv'
<1>1. /\ s \in OnList /\ s \in events /\ waiter # "poll" /\ wpc # "scan"
      /\ UNCHANGED <<waiter, acc, work, lost, pipe, wpc, walk>> /\ events' = events \ {s}
  BY Handling
<1>2. UNCHANGED <<waiter, fd, lost, wpc, sesshead>>
  BY <1>1 DEF Stays
<1>3. Told' /\ pollfd' = pollfd
  BY <1>1, <1>2, Rewatched
<1>4. UNCHANGED <<waiter, acc, work, lost, pipe, wpc, walk, pollfd>>
  BY <1>1, <1>3
<1> QED  BY <1>1, <1>3, <1>4, StaysOn

\* An event of epoll, kqueue or ports keeps the invariant.
LEMMA EventStep ==
  ASSUME NEW p, Inv(p), NEW s \in Chunks, vca_eev(s) \/ vca_kev(s) \/ vca_port_ev(s)
  PROVE  IInv'
<1>1. Handles(s)
  BY DEF vca_eev, vca_kev, vca_port_ev
<1>2. CASE Fails(s)
  BY <1>1, <1>2, LeavesList DEF Fails
<1>3. CASE TakenOff(s) /\ \E i \in HTC_Rx : vca_handover(s, i)
  BY <1>1, <1>3, LeavesList
<1>4. CASE vca_eev(s)
  <2>1. CASE waiter = "epoll" /\ Reads(s) /\ vca_cond_modadd(s) /\ Stays
    <3>1. Watch(s)
      BY <2>1 DEF Watch
    <3> QED  BY <1>1, <2>1, <3>1, StaysListed
  <2> QED  BY <1>2, <1>3, <1>4, <2>1 DEF vca_eev
<1>5. CASE vca_kev(s)
  <2>1. CASE waiter = "kqueue" /\ Reads(s) /\ vca_kq_sess(s) /\ Stays
    <3>1. Watch(s)
      BY <2>1 DEF Watch
    <3> QED  BY <1>1, <2>1, <3>1, StaysListed
  <2> QED  BY <1>2, <1>3, <1>5, <2>1 DEF vca_kev
<1>6. CASE vca_port_ev(s)
  <2>1. CASE waiter = "ports" /\ Reads(s) /\ Stays /\ UNCHANGED <<added, entry, ki, pollfd>>
    BY <1>1, <2>1, StaysListed
  <2> QED  BY <1>2, <1>3, <1>6, <2>1 DEF vca_port_ev
<1> QED  BY <1>4, <1>5, <1>6

\* Only variables change that the invariant does not speak of, or wpc.
LEMMA ScanTimeoutStep ==
  ASSUME NEW p, Inv(p), ScanTimeout
  PROVE  IInv'
<1>1. /\ Where(p) /\ Kept /\ Owned(p) /\ Told /\ Loop /\ Bound /\ p \in [Chunks -> PlaceNames]
  BY DEF Inv, Where
<1>2. /\ UNCHANGED <<waiter, acc, work, lost, pipe, ki, pollfd, events, walk>>
      /\ wpc = "scan" /\ Free("waiter")
  BY DEF ScanTimeout, Waits
<1>3. waiter # "poll" /\ events = {} /\ ki = <<>>
  BY <1>1, <1>2 DEF Loop, Told
<1>4. CASE sesshead # <<>> /\ Aged(Head(sesshead))
  <2>1. PICK s, l : s = Head(sesshead) /\ l = sesshead
    OBVIOUS
  <2>2. /\ sesshead' = Tail(sesshead) /\ CloseDelete("waiter", s, fd[s]) /\ wpc' = wpc
    BY <1>4, <2>1 DEF ScanTimeout
  <2>3. l \in Seq(Chunks) /\ l # <<>> /\ Once(l)
    BY <1>1, <1>4, <2>1 DEF Kept
  <2>4. /\ s \in ToSet(l) /\ Tail(l) \in Seq(Chunks) /\ Once(Tail(l)) /\ ToSet(Tail(l)) = ToSet(l) \ {s}
    BY <2>1, <2>3, Tailed
  <2>5. s \in OnList /\ OffList(s)
    BY <1>2, <1>3, <2>1, <2>2, <2>4 DEF OffList, OnList
  <2>6. \E r \in [Chunks -> PlaceNames] : Most(r)'
    BY <1>2, <1>3, <2>2, <2>5, OffClosed
  <2>7. Loop'
    BY <1>2, <1>3, <2>5, OffLoop
  <2> QED  BY <2>6, <2>7 DEF IInv, Inv, Most
<1>5. CASE ~ (sesshead # <<>> /\ Aged(Head(sesshead)))
  <2>1. wpc' = "wait" /\ UNCHANGED <<memVars, sessVars, sesshead, queue, in, entry, del>>
    BY <1>5 DEF ScanTimeout
  <2>2. UNCHANGED <<mem, nsess, freeq, qp, fd, added, sesshead, queue, in, entry, del>>
    BY <2>1 DEF memVars, sessVars
  <2>3. WithAcc' = WithAcc /\ OnList' = OnList
    BY <1>2, <2>2 DEF WithAcc, OnList
  <2>4. Where(p)'
    BY <1>1, <1>2, <2>2, <2>3, WhereKept
  <2>5. Kept' /\ Owned(p)'
    BY <1>1, <1>2, <2>2 DEF Kept, WorkOnce, Owned
  <2>6. Told'
    BY <1>1, <1>2, <1>3, <2>1, <2>2, <2>3 DEF Told
  <2>7. Loop'
    BY <1>1, <1>2, <1>3, <2>1, <2>2, <2>3 DEF Loop
  <2>8. Bound'
    BY <1>1, <1>2, <2>2, AllocsKept, BoundKept
  <2> QED  BY <1>1, <2>4, <2>5, <2>6, <2>7, <2>8 DEF IInv, Inv
<1> QED  BY <1>4, <1>5

\* The poll waiter goes on in its walk, past a session it has taken off its list.
LEMMA LoopWalked ==
  ASSUME NEW p, Inv(p), wpc = "walk", walk # <<>>, NEW s, s = Head(walk),
         OnList' = OnList \ {s}, pollfd' = pollfd \ {fd[s]},
         \A x \in OnList : x # s => fd'[x] = fd[x], events' = events \ {s}, walk' = Tail(walk),
         \A g \in Fds : entry[g].sess = None => entry'[g].sess = None, UNCHANGED <<waiter, wpc>>
  PROVE  Loop'
<1>1. Loop /\ Owned(p) /\ OnList \subseteq Chunks
  BY DEF Inv, Where
<1>2. waiter = "poll" /\ walk \in Seq(Chunks) /\ Once(walk)
  BY <1>1 DEF Loop
<1>3. PICK l : l = walk
  OBVIOUS
<1>4. /\ s \in ToSet(l) /\ Tail(l) \in Seq(Chunks) /\ Once(Tail(l)) /\ ToSet(Tail(l)) = ToSet(l) \ {s}
  BY <1>2, <1>3, Tailed
<1>5. /\ walk' \in Seq(Chunks) /\ Once(walk') /\ ToSet(walk') = ToSet(walk) \ {s} /\ s \in ToSet(walk)
  BY <1>3, <1>4
<1>6. s \in OnList
  BY <1>1, <1>5 DEF Loop
<1>7. \A x \in OnList : x # s => fd[x] # fd[s]
  <2>1. \A x, y \in Chunks : x # y /\ fd[x] # None => fd[x] # fd[y]
    BY <1>1 DEF Owned
  <2>2. s \in Chunks /\ fd[s] # None
    BY <1>6, OfList DEF Listed
  <2> QED  BY <1>1, <2>1, <2>2
<1>8. pollfd = {fd[x] : x \in OnList} /\ pollfd \subseteq Fds
  BY <1>1, <1>2 DEF Loop
<1>9. pollfd' = {fd'[x] : x \in OnList'}
  <2>1. ASSUME NEW f \in pollfd' PROVE f \in {fd'[x] : x \in OnList'}
    <3>1. PICK x \in OnList : f = fd[x]
      BY <1>8
    <3>2. x # s
      BY <3>1
    <3>3. fd'[x] = f /\ x \in OnList'
      BY <3>1, <3>2
    <3> QED  BY <3>3
  <2>2. ASSUME NEW f \in {fd'[x] : x \in OnList'} PROVE f \in pollfd'
    <3>1. PICK x \in OnList' : f = fd'[x]
      OBVIOUS
    <3>2. x \in OnList /\ x # s /\ f = fd[x]
      BY <3>1
    <3> QED  BY <1>7, <1>8, <3>2
  <2> QED  BY <2>1, <2>2
<1>10. \A g \in Fds : entry'[g].sess = None
  BY <1>1, <1>2 DEF Loop
<1>11. /\ events' \ {Pipe} \subseteq OnList' /\ events' \subseteq ToSet(walk') \cup {Pipe}
       /\ ToSet(walk') \subseteq OnList'
  BY <1>1, <1>5 DEF Loop
<1> QED  BY <1>2, <1>5, <1>8, <1>9, <1>10, <1>11 DEF Loop

\* One session of poll's walk keeps the invariant.
LEMMA PollSessionStep ==
  ASSUME NEW p, Inv(p), PollSession
  PROVE  IInv'
<1>1. /\ Where(p) /\ Kept /\ Owned(p) /\ Told /\ Loop /\ Bound /\ p \in [Chunks -> PlaceNames]
  BY DEF Inv, Where
<1>2. PICK s, l : s = Head(walk) /\ l = walk
  OBVIOUS
<1>3. /\ UNCHANGED <<waiter, acc, work, lost, pipe, ki, wpc>>
      /\ wpc = "walk" /\ walk # <<>> /\ Free("waiter") /\ walk' = Tail(walk)
  BY DEF PollSession, Waits
<1>4. waiter = "poll" /\ ki = <<>>
  BY <1>1, <1>3 DEF Loop, Told
<1>5. /\ l \in Seq(Chunks) /\ l # <<>> /\ Once(l)
  BY <1>1, <1>2, <1>3 DEF Loop
<1>6. /\ s \in ToSet(l) /\ Tail(l) \in Seq(Chunks) /\ Once(Tail(l)) /\ ToSet(Tail(l)) = ToSet(l) \ {s}
  BY <1>2, <1>5, Tailed
<1>7. s \in OnList
  BY <1>1, <1>2, <1>6 DEF Loop
<1>8. Listed(p, s)
  BY <1>7, OfList
\* the session has left the list and its descriptor the table
<1>9. ASSUME sesshead' = RemoveFirst(sesshead, s), vca_unpoll(s), events' = events \ {s},
             NEW i \in HTC_Rx, s \in events \/ i = -1, vca_handover(s, i)
      PROVE  IInv'
  <2>1. OffList(s)
    BY <1>1, <1>3, <1>7, <1>9, OffListRemoved DEF OffList
  <2>2. /\ \E r \in [Chunks -> PlaceNames] : Most(r)'
        /\ fd' = [fd EXCEPT ![s] = None] \/ fd' = fd
        /\ \A g \in Fds : entry[g].sess = None => entry'[g].sess = None
    <3>1. CASE s \in events
      BY <1>3, <1>7, <1>9, <2>1, <3>1, HandedOver
    <3>2. CASE i = -1
      <4>1. CloseDelete("waiter", s, fd[s])
        BY <1>9, <3>2 DEF vca_handover
      <4> QED  BY <1>3, <1>4, <1>7, <2>1, <4>1, OffClosed
    <3> QED  BY <1>9, <3>1, <3>2
  <2>3. OnList' = OnList \ {s} /\ pollfd' = pollfd \ {fd[s]}
    BY <1>9, <2>1 DEF OffList, vca_unpoll
  <2>4. \A x \in OnList : x # s => fd'[x] = fd[x]
    <3>1. OnList \subseteq Chunks /\ fd \in [Chunks -> Fds \cup {None}]
      BY <1>1 DEF Where, Owned
    <3> QED  BY <2>2, <3>1
  <2>5. UNCHANGED <<waiter, wpc>> /\ walk # <<>> /\ walk' = Tail(walk) /\ wpc = "walk"
    BY <1>3
  <2>6. Loop'
    BY <1>2, <1>9, <2>2, <2>3, <2>4, <2>5, LoopWalked
  <2> QED  BY <2>2, <2>6 DEF IInv, Inv, Most
\* it stays on the list
<1>10. ASSUME sesshead' \in Seq(Chunks), Once(sesshead'), OnList' = OnList, events' = events \ {s},
              UNCHANGED <<memVars, sessVars, del, queue, entry, pollfd>>,
              in' \in Inputs, \A g \in Fds : in'[g] = Closed <=> in[g] = Closed
       PROVE  IInv'
  <2>1. UNCHANGED <<mem, nsess, freeq, qp, fd, added, del, queue, entry, pollfd>>
    BY <1>10 DEF memVars, sessVars
  <2>2. Where(p)'
    <3>1. InFree(0)' = InFree(0) /\ InFree(1)' = InFree(1) /\ InQueue' = InQueue
          /\ AtWork' = AtWork /\ InPipe' = InPipe /\ WithAcc' = WithAcc /\ mem' = mem /\ lost' = lost
      BY <1>3, <2>1 DEF InFree, InQueue, AtWork, InPipe, WithAcc
    <3> QED  BY <1>1, <1>10, <3>1 DEF Where
  <2>3. Kept'
    BY <1>1, <1>3, <1>10, <2>1 DEF Kept, WorkOnce
  <2>4. Owned(p)'
    <3>1. del \in DelStates /\ acc \in AccStates /\ (acc.pc # "poll" => del["acceptor"] = "idle")
      BY <1>1 DEF Owned
    <3> QED  BY <1>1, <1>3, <1>10, <2>1, <3>1, OwnedKept
  <2>5. Told'
    <3>1. events' \subseteq events
      BY <1>10
    <3> QED  BY <1>1, <1>3, <1>10, <2>1, <3>1 DEF Told
  <2>6. Loop'
    <3>1. /\ walk' \in Seq(Chunks) /\ Once(walk') /\ ToSet(walk') = ToSet(walk) \ {s}
      BY <1>2, <1>3, <1>6
    <3>2. /\ events' \ {Pipe} \subseteq OnList' /\ events' \subseteq ToSet(walk') \cup {Pipe}
          /\ ToSet(walk') \subseteq OnList'
      BY <1>1, <1>3, <1>10, <3>1 DEF Loop
    <3> QED  BY <1>1, <1>3, <1>4, <1>10, <2>1, <3>1, <3>2 DEF Loop
  <2>7. Bound'
    BY <1>1, <1>3, <2>1, AllocsKept, BoundKept
  <2> QED  BY <1>1, <2>2, <2>3, <2>4, <2>5, <2>6, <2>7 DEF IInv, Inv
<1>11. CASE s \in events /\ events' = events \ {s}
            /\ in' = [in EXCEPT ![fd[s]] = "none"]
            /\ sesshead' = <<s>> \o RemoveFirst(sesshead, s)
            /\ UNCHANGED <<memVars, sessVars, del, queue, entry, pollfd>>
  <2>1. PICK h : h = sesshead
    OBVIOUS
  <2>2. h \in Seq(Chunks) /\ Once(h) /\ s \in ToSet(h) /\ s \in Chunks
    BY <1>1, <1>7, <1>8, <2>1 DEF Kept, OnList, Listed
  <2>3. PICK k : k = RemoveFirst(h, s)
    OBVIOUS
  <2>4. k \in Seq(Chunks) /\ Once(k) /\ ToSet(k) = ToSet(h) \ {s}
    BY <2>2, <2>3, Removed
  <2>5. <<s>> \o k \in Seq(Chunks) /\ Once(<<s>> \o k) /\ ToSet(<<s>> \o k) = ToSet(k) \cup {s}
    BY <2>2, <2>4, Pushed
  <2>6. sesshead' \in Seq(Chunks) /\ Once(sesshead') /\ OnList' = OnList
    BY <1>11, <2>1, <2>2, <2>3, <2>4, <2>5 DEF OnList
  <2>7. in' \in Inputs /\ \A g \in Fds : in'[g] = Closed <=> in[g] = Closed
    BY <1>1, <1>8, <1>11, ReadOpen DEF Listed
  <2> QED  BY <1>10, <1>11, <2>6, <2>7
<1>12. CASE s \in events /\ events' = events \ {s} /\ \E i \in HTC_Rx :
              sesshead' = RemoveFirst(sesshead, s) /\ vca_unpoll(s) /\ vca_handover(s, i)
  BY <1>9, <1>12
<1>13. CASE s \notin events /\ Aged(s) /\ sesshead' = RemoveFirst(sesshead, s)
            /\ vca_unpoll(s) /\ vca_handover(s, -1) /\ UNCHANGED events
  <2>1. events' = events \ {s} /\ -1 \in HTC_Rx
    BY <1>13 DEF HTC_Rx
  <2> QED  BY <1>9, <1>13, <2>1
<1>14. CASE s \notin events /\ UNCHANGED <<memVars, sessVars, del, queue, in, entry, pollfd, sesshead, events>>
  <2>1. events' = events \ {s} /\ UNCHANGED <<memVars, sessVars, del, queue, entry, pollfd>>
    BY <1>14
  <2>2. sesshead' \in Seq(Chunks) /\ Once(sesshead') /\ OnList' = OnList
    BY <1>1, <1>14 DEF Kept, OnList
  <2>3. in' \in Inputs /\ \A g \in Fds : in'[g] = Closed <=> in[g] = Closed
    BY <1>1, <1>14 DEF Owned
  <2> QED  BY <1>10, <2>1, <2>2, <2>3
<1>15. \/ s \in events /\ events' = events \ {s} /\ \E i \in HTC_Rx :
            IF i = 0
            THEN /\ in' = [in EXCEPT ![fd[s]] = "none"]
                 /\ sesshead' = <<s>> \o RemoveFirst(sesshead, s)
                 /\ UNCHANGED <<memVars, sessVars, del, queue, entry, pollfd>>
            ELSE /\ sesshead' = RemoveFirst(sesshead, s)
                 /\ vca_unpoll(s) /\ vca_handover(s, i)
       \/ s \notin events /\ Aged(s) /\ sesshead' = RemoveFirst(sesshead, s)
            /\ vca_unpoll(s) /\ vca_handover(s, -1) /\ UNCHANGED events
       \/ s \notin events /\ UNCHANGED <<memVars, sessVars, del, queue, in, entry, pollfd, sesshead, events>>
  BY <1>2 DEF PollSession
<1> QED  BY <1>11, <1>12, <1>13, <1>14, <1>15

\* The end of poll's walk keeps the invariant.
LEMMA PollWalkedStep ==
  ASSUME NEW p, Inv(p), PollWalked
  PROVE  IInv'
<1>1. /\ Where(p) /\ Kept /\ Owned(p) /\ Told /\ Loop /\ Bound /\ p \in [Chunks -> PlaceNames]
  BY DEF Inv, Where
<1>2. /\ UNCHANGED <<waiter, acc, work, lost, mem, nsess, freeq, qp, del, fd, added, queue, pipe,
                     sesshead, ki, pollfd, events, in, entry>>
      /\ walk' = <<>>
      /\ \/ wpc = "walk" /\ (walk = <<>> \/ events = {}) /\ wpc' = "pipe"
         \/ wpc = "pipe" /\ Pipe \notin events /\ wpc' = "wait"
  BY DEF PollWalked, Waits, memVars, sessVars
<1>3. WithAcc' = WithAcc /\ OnList' = OnList
  BY <1>2 DEF WithAcc, OnList
<1>4. Where(p)'
  BY <1>1, <1>2, <1>3, WhereKept
<1>5. Kept' /\ Owned(p)'
  BY <1>1, <1>2 DEF Kept, WorkOnce, Owned
<1>6. waiter = "poll"
  BY <1>1, <1>2 DEF Loop
<1>7. Told'
  BY <1>1, <1>2, <1>3, <1>6 DEF Told
<1>8. Loop'
  <2>1. wpc' = "pipe" => events \subseteq {Pipe}
    BY <1>1, <1>2, NoneOnEmpty DEF Loop
  <2>2. wpc' = "wait" => events = {}
    BY <1>1, <1>2 DEF Loop
  <2>3. walk' \in Seq(Chunks) /\ Once(walk') /\ ToSet(walk') \subseteq OnList'
    BY <1>2, NoneOnEmpty
  <2> QED  BY <1>1, <1>2, <1>3, <1>6, <2>1, <2>2, <2>3 DEF Loop
<1>9. Bound'
  BY <1>1, <1>2, AllocsKept, BoundKept
<1> QED  BY <1>1, <1>4, <1>5, <1>7, <1>8, <1>9 DEF IInv, Inv

\* A client sends or closes; time passes; nothing happens.
LEMMA OutsideStep ==
  ASSUME NEW p, Inv(p), (\E f \in Fds : Client(f)) \/ Tick \/ UNCHANGED vars
  PROVE  IInv'
<1>1. /\ Where(p) /\ Kept /\ Owned(p) /\ Told /\ Loop /\ Bound /\ p \in [Chunks -> PlaceNames]
  BY DEF Inv, Where
<1>2. UNCHANGED <<waiter, acc, work, lost, mem, nsess, freeq, qp, del, fd, added, queue, pipe,
                  sesshead, ki, pollfd, events, entry, walk, wpc>>
  BY DEF Client, Tick, vars, memVars, sessVars, waitVars
<1>3. in' \in Inputs /\ \A g \in Fds : in'[g] = Closed <=> in[g] = Closed
  <2>1. in \in Inputs
    BY <1>1 DEF Owned
  <2>2. ASSUME NEW f \in Fds, Client(f) PROVE in' \in Inputs /\ \A g \in Fds : in'[g] = Closed <=> in[g] = Closed
    <3>1. in[f] = "none" /\ in' = [in EXCEPT ![f] = "ready"]
      BY <2>2 DEF Client
    <3>2. \A g \in Fds : in'[g] = IF g = f THEN "ready" ELSE in[g]
      BY <2>1, <3>1 DEF Inputs
    <3> QED  BY <2>1, <3>1, <3>2 DEF Inputs, Closed
  <2>3. CASE in' = in
    BY <2>1, <2>3
  <2> QED  BY <2>2, <2>3 DEF Tick, vars
<1>4. WithAcc' = WithAcc
  BY <1>2 DEF WithAcc
<1>5. Where(p)'
  BY <1>1, <1>2, <1>4, WhereKept
<1>6. Kept'
  BY <1>1, <1>2 DEF Kept, WorkOnce
<1>7. Owned(p)'
  <2>1. del \in DelStates /\ acc \in AccStates /\ (acc.pc # "poll" => del["acceptor"] = "idle")
    BY <1>1 DEF Owned
  <2> QED  BY <1>1, <1>2, <1>3, <2>1, OwnedKept
<1>8. Told' /\ Loop'
  BY <1>1, <1>2, ToldKept, LoopSame
<1>9. Bound'
  BY <1>1, <1>2, AllocsKept, BoundKept
<1> QED  BY <1>1, <1>5, <1>6, <1>7, <1>8, <1>9 DEF IInv, Inv

-----------------------------------------------------------------------------
(* The theorem *)

\* The invariant holds at the start.
LEMMA InitIInv == Init => IInv
<1> SUFFICES ASSUME Init PROVE IInv
  OBVIOUS
<1>1. PICK p : p = [s \in Chunks |-> "none"]
  OBVIOUS
<1>2. p \in [Chunks -> PlaceNames] /\ \A s \in Chunks : p[s] = "none"
  BY <1>1 DEF PlaceNames
<1>3. /\ freeq[0] = <<>> /\ freeq[1] = <<>> /\ freeq \in [0 .. 1 -> {<<>>}] /\ Len(<<>>) = 0
      /\ queue = <<>> /\ pipe = <<>> /\ sesshead = <<>> /\ walk = <<>> /\ ki = <<>>
  BY EmptySeq DEF Init
<1>4. Where(p)
  <2>1. InFree(0) = {} /\ InFree(1) = {} /\ InPipe = {} /\ OnList = {}
    BY <1>3, NoneOnEmpty DEF InFree, InPipe, OnList
  <2>2. WithAcc = {}
    BY DEF Init, AtPoll, WithAcc
  <2>3. InQueue = {}
    BY <1>3 DEF InQueue
  <2>4. AtWork = {}
    BY DEF Init, AtWork, Idle
  <2>5. mem = {} /\ lost = {}
    BY DEF Init
  <2> QED  BY <1>2, <2>1, <2>2, <2>3, <2>4, <2>5 DEF Where
<1>5. Kept
  <2>1. freeq \in [0 .. 1 -> Seq(Chunks)] /\ queue \in Seq(Jobs) /\ pipe \in Seq(Chunks)
        /\ sesshead \in Seq(Chunks)
    BY <1>3, EmptySeq
  <2>2. Once(freeq[0]) /\ Once(freeq[1]) /\ Once(pipe) /\ Once(sesshead) /\ JobsOnce(queue)
    BY <1>3, NoneOnEmpty DEF JobsOnce
  <2>3. work \in [Workers -> Jobs \cup {Idle}] /\ WorkOnce
    BY DEF Init, WorkOnce, Idle
  <2>4. acc.pc = "poll" /\ qp \in 0 .. 1 /\ lost \subseteq Chunks
    BY DEF Init, AtPoll
  <2> QED  BY <2>1, <2>2, <2>3, <2>4 DEF Kept
<1>6. Owned(p)
  <2>1. fd \in [Chunks -> Fds \cup {None}] /\ \A s \in Chunks : fd[s] = None
    BY DEF Init
  <2>2. in \in Inputs /\ del \in DelStates
    BY DEF Init, Inputs, DelStates
  <2>3. acc \in AccStates /\ acc.pc = "poll"
    BY DEF Init, AccStates, AtPoll
  <2> QED  BY <1>2, <2>1, <2>2, <2>3 DEF Owned, Open
<1>7. entry \in [Fds -> Entries] /\ \A f \in Fds : entry[f].sess = None /\ entry[f].armed = FALSE
  BY DEF Init, Entries, NoEntry
<1>8. Told
  <2>1. ki \in Seq(Changes) /\ Len(ki) = 0
    BY <1>3, EmptySeq
  <2>2. \A s \in Chunks : fd[s] = None
    BY DEF Init
  <2>3. waiter \in {"epoll", "kqueue", "ports", "poll"} /\ added = {} /\ events = {}
    BY SessionAssumption DEF Init
  <2> QED  BY <1>3, <1>7, <2>1, <2>2, <2>3 DEF Told
<1>9. Loop
  <2>1. walk \in Seq(Chunks) /\ Once(walk) /\ ToSet(walk) = {} /\ OnList = {}
    BY <1>3, NoneOnEmpty DEF OnList
  <2>2. pollfd = {} /\ wpc = "wait" /\ events = {}
    BY DEF Init
  <2> QED  BY <1>3, <1>7, <2>1, <2>2 DEF Loop
<1>10. Bound
  <2>1. Allocs = {}
    BY DEF Init, Allocs, AtPoll
  <2>2. mem = {} /\ nsess = 0 /\ IsFiniteSet({}) /\ Cardinality({}) = 0
    BY FS_EmptySet DEF Init
  <2>3. MaxSess \in Nat \ {0} /\ Cardinality(Threads) \in Nat
    BY Constants, SessionAssumption
  <2> QED  BY <2>1, <2>2, <2>3 DEF Bound
<1> QED  BY <1>2, <1>4, <1>5, <1>6, <1>8, <1>9, <1>10 DEF IInv, Inv

\* The invariant is kept by every step.
LEMMA NextIInv == IInv /\ [Next]_vars => IInv'
<1> SUFFICES ASSUME IInv, [Next]_vars PROVE IInv'
  OBVIOUS
<1>1. PICK p : Inv(p)
  BY DEF IInv
<1>2. ASSUME NEW t \in Threads, Delete(t) PROVE IInv'
  BY <1>1, <1>2, DeleteCheckStep, DeletePrecreateStep DEF Delete
<1>3. CASE Accept \/ SesFlip \/ SesTake \/ SesCheck \/ SesAlloc \/ AcceptQueue
  BY <1>1, <1>3, AcceptStep, SesFlipStep, SesTakeStep, SesCheckStep, SesAllocStep, AcceptQueueStep
<1>4. CASE \E w \in Workers : WorkTake(w) \/ cnt_wait(w) \/ cnt_done(w)
  BY <1>1, <1>4, WorkTakeStep, CntWaitStep, CntDoneStep
<1>5. CASE WaiterStep
  <2>1. CASE \E s \in Chunks : vca_eev(s) \/ vca_kev(s) \/ vca_port_ev(s)
    BY <1>1, <2>1, EventStep
  <2>2. CASE Wait \/ HandlePipe \/ EventsDone \/ ScanTimeout
    BY <1>1, <2>2, WaitStep, HandlePipeStep, EventsDoneStep, ScanTimeoutStep
  <2>3. CASE PollSession \/ PollWalked
    BY <1>1, <2>3, PollSessionStep, PollWalkedStep
  <2>4. CASE Delete("waiter")
    BY <1>2, <2>4, Constants
  <2> QED  BY <1>5, <2>1, <2>2, <2>3, <2>4 DEF WaiterStep
<1>6. CASE (\E f \in Fds : Client(f)) \/ Tick \/ UNCHANGED vars
  BY <1>1, <1>6, OutsideStep
<1> QED  BY <1>2, <1>3, <1>4, <1>5, <1>6 DEF Next

\* The place p gives to what is in each of the six lists.
ListNames == <<"free0", "free1", "acc", "queue", "pipe", "list">>

\* Each list holds the sessions whose place it is, once.
LEMMA InOneList ==
  ASSUME NEW p, Inv(p), NEW n \in 1 .. 6
  PROVE  /\ \A i, j \in DOMAIN Lists[n] : Lists[n][i] = Lists[n][j] => i = j
         /\ ToSet(Lists[n]) = {s \in Chunks : p[s] = ListNames[n]}
<1>1. Where(p) /\ Kept
  BY DEF Inv
<1>2. ASSUME NEW q \in Seq(Chunks), Once(q) PROVE \A i, j \in DOMAIN q : q[i] = q[j] => i = j
  BY <1>2, LenProperties DEF Once
<1>3. CASE n = 1
  <2>1. Lists[n] = freeq[0] /\ ListNames[n] = "free0"
    BY <1>3 DEF Lists, ListNames
  <2>2. freeq[0] \in Seq(Chunks) /\ Once(freeq[0]) /\ ToSet(freeq[0]) = {s \in Chunks : p[s] = "free0"}
    BY <1>1 DEF Kept, Where, InFree
  <2> QED  BY <1>2, <2>1, <2>2
<1>4. CASE n = 2
  <2>1. Lists[n] = freeq[1] /\ ListNames[n] = "free1"
    BY <1>4 DEF Lists, ListNames
  <2>2. freeq[1] \in Seq(Chunks) /\ Once(freeq[1]) /\ ToSet(freeq[1]) = {s \in Chunks : p[s] = "free1"}
    BY <1>1 DEF Kept, Where, InFree
  <2> QED  BY <1>2, <2>1, <2>2
<1>5. CASE n = 3
  <2>1. Lists[n] = AccHas /\ ListNames[n] = "acc"
    BY <1>5 DEF Lists, ListNames
  <2>2. WithAcc = {s \in Chunks : p[s] = "acc"}
    BY <1>1 DEF Where
  <2>3. CASE acc.pc = "queue"
    <3>1. AccHas = <<acc.sm>> /\ DOMAIN <<acc.sm>> = {1} /\ <<acc.sm>>[1] = acc.sm
      BY <2>3 DEF AccHas
    <3>2. ToSet(AccHas) = {acc.sm}
      BY <3>1 DEF ToSet
    <3>3. WithAcc = {acc.sm}
      BY <2>3 DEF WithAcc
    <3> QED  BY <2>1, <2>2, <3>1, <3>2, <3>3
  <2>4. CASE acc.pc # "queue"
    <3>1. AccHas = <<>> /\ ToSet(<<>>) = {} /\ DOMAIN <<>> = {}
      BY <2>4, NoneOnEmpty, EmptySeq DEF AccHas
    <3>2. WithAcc = {}
      BY <2>4 DEF WithAcc
    <3> QED  BY <2>1, <2>2, <3>1, <3>2
  <2> QED  BY <2>3, <2>4
<1>6. CASE n = 4
  <2>1. Lists[n] = Queued /\ ListNames[n] = "queue"
    BY <1>6 DEF Lists, ListNames
  <2>2. DOMAIN Queued = 1 .. Len(queue) /\ \A i \in 1 .. Len(queue) : Queued[i] = queue[i].sess
    BY DEF Queued
  <2>3. JobsOnce(queue) /\ InQueue = {s \in Chunks : p[s] = "queue"}
    BY <1>1 DEF Kept, Where
  <2>4. ToSet(Queued) = InQueue
    BY <2>2 DEF ToSet, InQueue
  <2> QED  BY <2>1, <2>2, <2>3, <2>4 DEF JobsOnce
<1>7. CASE n = 5
  <2>1. Lists[n] = pipe /\ ListNames[n] = "pipe"
    BY <1>7 DEF Lists, ListNames
  <2>2. pipe \in Seq(Chunks) /\ Once(pipe) /\ ToSet(pipe) = {s \in Chunks : p[s] = "pipe"}
    BY <1>1 DEF Kept, Where, InPipe
  <2> QED  BY <1>2, <2>1, <2>2
<1>8. CASE n = 6
  <2>1. Lists[n] = sesshead /\ ListNames[n] = "list"
    BY <1>8 DEF Lists, ListNames
  <2>2. sesshead \in Seq(Chunks) /\ Once(sesshead) /\ ToSet(sesshead) = {s \in Chunks : p[s] = "list"}
    BY <1>1 DEF Kept, Where, OnList
  <2> QED  BY <1>2, <2>1, <2>2
<1> QED  BY <1>3, <1>4, <1>5, <1>6, <1>7, <1>8

\* A session is in the one spot that p says.
LEMMA SpotsOf ==
  ASSUME NEW p, Inv(p), NEW s \in Chunks
  PROVE  IF p[s] = "none" THEN Spots(s) = {} ELSE \E x : Spots(s) = {x}
<1>1. Where(p) /\ Kept /\ p \in [Chunks -> PlaceNames] /\ s # None
  BY Constants DEF Inv, Where
<1>2. DOMAIN Lists = 1 .. 6
  BY DEF Lists
<1>3. \A x : x \in Spots(s) <=>
        \/ \E n \in 1 .. 6 : \E i \in DOMAIN Lists[n] : Lists[n][i] = s /\ x = <<n, i>>
        \/ \E w \in Workers : work[w].sess = s /\ x = <<7, w>>
        \/ s \in lost /\ x = <<8, s>>
  <2> DEFINE A == UNION {{<<n, i>> : i \in {j \in DOMAIN Lists[n] : Lists[n][j] = s}} : n \in DOMAIN Lists}
             B == {<<7, w>> : w \in {x \in Workers : work[x].sess = s}}
             C == {<<8, x>> : x \in lost \cap {s}}
  <2>1. Spots(s) = A \cup B \cup C
    BY Zenon DEF Spots
  <2>2. ASSUME NEW x
        PROVE  x \in A <=> \E n \in 1 .. 6 : \E i \in DOMAIN Lists[n] : Lists[n][i] = s /\ x = <<n, i>>
    <3>1. ASSUME x \in A
          PROVE  \E n \in 1 .. 6 : \E i \in DOMAIN Lists[n] : Lists[n][i] = s /\ x = <<n, i>>
      <4>1. PICK n \in DOMAIN Lists : x \in {<<n, i>> : i \in {j \in DOMAIN Lists[n] : Lists[n][j] = s}}
        BY <3>1, Zenon
      <4>2. PICK i \in {j \in DOMAIN Lists[n] : Lists[n][j] = s} : x = <<n, i>>
        BY <4>1, Zenon
      <4>3. i \in DOMAIN Lists[n] /\ Lists[n][i] = s /\ x = <<n, i>>
        BY <4>2, Zenon
      <4>4. n \in 1 .. 6
        BY <1>2, <4>1, Zenon
      <4> QED  BY <4>3, <4>4, Zenon
    <3>2. ASSUME NEW n \in 1 .. 6, NEW i \in DOMAIN Lists[n], Lists[n][i] = s, x = <<n, i>>
          PROVE  x \in A
      <4>1. i \in {j \in DOMAIN Lists[n] : Lists[n][j] = s}
        BY <3>2, Zenon
      <4>2. x \in {<<n, k>> : k \in {j \in DOMAIN Lists[n] : Lists[n][j] = s}}
        BY <3>2, <4>1, Zenon
      <4>3. n \in DOMAIN Lists
        BY <1>2, <3>2, Zenon
      <4> QED  BY <4>2, <4>3, Zenon
    <3> QED  BY <3>1, <3>2, Zenon
  <2>3. \A x : x \in B <=> \E w \in Workers : work[w].sess = s /\ x = <<7, w>>
    BY Zenon
  <2>4. \A x : x \in C <=> s \in lost /\ x = <<8, s>>
    <3>1. \A y : y \in lost \cap {s} <=> s \in lost /\ y = s
      OBVIOUS
    <3>2. \A x : x \in C <=> \E y : y \in lost \cap {s} /\ x = <<8, y>>
      BY Zenon
    <3> QED  BY <3>1, <3>2, Zenon
  <2> HIDE DEF A, B, C
  <2> QED  BY <2>1, <2>2, <2>3, <2>4, Zenon
<1>4. \A n \in 1 .. 6 : (\E i \in DOMAIN Lists[n] : Lists[n][i] = s) <=> p[s] = ListNames[n]
  <2>1. ASSUME NEW n \in 1 .. 6
        PROVE  (\E i \in DOMAIN Lists[n] : Lists[n][i] = s) <=> p[s] = ListNames[n]
    <3>1. ToSet(Lists[n]) = {x \in Chunks : p[x] = ListNames[n]}
      BY InOneList
    <3>2. s \in ToSet(Lists[n]) <=> \E i \in DOMAIN Lists[n] : Lists[n][i] = s
      BY DEF ToSet
    <3> QED  BY <3>1, <3>2
  <2> QED  BY <2>1
<1>5. (\E w \in Workers : work[w].sess = s) <=> p[s] = "work"
  <2>1. s \in AtWork <=> p[s] = "work"
    BY <1>1 DEF Where
  <2> QED  BY <1>1, <2>1 DEF AtWork
<1>6. s \in lost <=> p[s] = "lost"
  BY <1>1 DEF Where
<1>7. /\ \A n \in 1 .. 6 : ListNames[n] \notin {"none", "work", "lost"}
      /\ \A n, k \in 1 .. 6 : ListNames[n] = ListNames[k] => n = k
  BY DEF ListNames
<1>8. CASE p[s] = "none"
  <2>1. \A x : x \notin Spots(s)
    BY <1>3, <1>4, <1>5, <1>6, <1>7, <1>8
  <2> QED  BY <1>8, <2>1
<1>9. CASE p[s] = "work"
  <2>1. PICK w \in Workers : work[w].sess = s
    BY <1>5, <1>9
  <2>2. \A v \in Workers : work[v].sess = s => v = w
    BY <1>1, <2>1 DEF Kept, WorkOnce
  <2>3. \A x : x \in Spots(s) <=> x = <<7, w>>
    BY <1>3, <1>4, <1>6, <1>7, <1>9, <2>1, <2>2
  <2>4. Spots(s) = {<<7, w>>}
    BY <2>3
  <2> QED  BY <1>9, <2>4
<1>10. CASE p[s] = "lost"
  <2>1. \A x : x \in Spots(s) <=> x = <<8, s>>
    BY <1>3, <1>4, <1>5, <1>6, <1>7, <1>10
  <2>2. Spots(s) = {<<8, s>>}
    BY <2>1
  <2> QED  BY <1>10, <2>2
<1>11. CASE \E n \in 1 .. 6 : p[s] = ListNames[n]
  <2>1. PICK n \in 1 .. 6 : p[s] = ListNames[n]
    BY <1>11
  <2>2. PICK i \in DOMAIN Lists[n] : Lists[n][i] = s
    BY <1>4, <2>1
  <2>3. \A j \in DOMAIN Lists[n] : Lists[n][j] = s => j = i
    BY <2>2, InOneList
  <2>4. \A k \in 1 .. 6 : k # n => \A j \in DOMAIN Lists[k] : Lists[k][j] # s
    BY <1>4, <1>7, <2>1
  <2>5. p[s] \notin {"none", "work", "lost"}
    BY <1>7, <2>1
  <2>6. \A x : x \in Spots(s) <=> x = <<n, i>>
    BY <1>3, <1>5, <1>6, <2>2, <2>3, <2>4, <2>5
  <2>7. Spots(s) = {<<n, i>>}
    BY <2>6
  <2> QED  BY <2>5, <2>7
<1>12. p[s] \in {"none", "work", "lost"} \/ \E n \in 1 .. 6 : p[s] = ListNames[n]
  <2>1. /\ ListNames[1] = "free0" /\ ListNames[2] = "free1" /\ ListNames[3] = "acc"
        /\ ListNames[4] = "queue" /\ ListNames[5] = "pipe" /\ ListNames[6] = "list"
    BY DEF ListNames
  <2>2. p[s] \in PlaceNames
    BY <1>1
  <2> QED  BY <2>1, <2>2 DEF PlaceNames
<1> QED  BY <1>8, <1>9, <1>10, <1>11, <1>12

\* The invariant gives the property.
LEMMA IInvSessionInv == IInv => SessionInv
<1> SUFFICES ASSUME IInv PROVE SessionInv
  OBVIOUS
<1>1. PICK p : Inv(p)
  BY DEF IInv
<1>2. /\ Where(p) /\ Kept /\ Owned(p) /\ Told /\ Loop /\ Bound
  BY <1>1 DEF Inv
<1>3. OnePlace
  <2>1. \A s \in mem : \E x \in Spots(s) : Spots(s) = {x}
    <3>1. ASSUME NEW s \in mem PROVE \E x \in Spots(s) : Spots(s) = {x}
      <4>1. s \in Chunks /\ p[s] # "none"
        BY <1>2 DEF Where
      <4>2. PICK x : Spots(s) = {x}
        BY <1>1, <4>1, SpotsOf
      <4> QED  BY <4>2
    <3> QED  BY <3>1
  <2>2. \A s \in Chunks \ mem : Spots(s) = {}
    BY <1>1, <1>2, SpotsOf DEF Where
  <2>3. mem \subseteq Chunks
    BY <1>2 DEF Where
  <2>4. \A n \in DOMAIN Lists : ToSet(Lists[n]) \subseteq mem
    <3>1. ASSUME NEW n \in 1 .. 6 PROVE ToSet(Lists[n]) \subseteq mem
      <4>1. ToSet(Lists[n]) = {s \in Chunks : p[s] = ListNames[n]}
        BY <1>1, InOneList
      <4>2. ListNames[n] # "none"
        BY DEF ListNames
      <4> QED  BY <1>2, <4>1, <4>2 DEF Where
    <3>2. DOMAIN Lists = 1 .. 6
      BY DEF Lists
    <3> QED  BY <3>1, <3>2
  <2>5. acc.pc = "take" => First(freeq[qp]) = acc.sm
    BY <1>2, HeadTailProperties DEF Kept, First
  <2> QED  BY <2>1, <2>2, <2>3, <2>4, <2>5 DEF OnePlace
<1>4. SessMemBounded
  <2>1. PICK A : A = Allocs
    OBVIOUS
  <2>2. Cardinality(A) \in Nat /\ nsess \in Nat /\ MaxSess \in Nat /\ Cardinality(Threads) \in Nat
    <3>1. IsFiniteSet(A)
      BY <2>1, Constants, FS_Subset DEF Allocs
    <3> QED  BY <1>2, <3>1, Constants, FS_CardinalityType DEF Bound
  <2>3. nsess + Cardinality(A) < MaxSess + Cardinality(Threads)
    BY <1>2, <2>1 DEF Bound
  <2>4. nsess < MaxSess + Cardinality(Threads)
    BY <2>2, <2>3
  <2> QED  BY <1>2, <2>4 DEF SessMemBounded, Bound
<1>5. EventsForOwners
  <2>1. /\ \A s, t \in Chunks : s # t /\ fd[s] # None => fd[s] # fd[t]
        /\ \A s \in Chunks : fd[s] # None => in[fd[s]] # Closed
    BY <1>2 DEF Owned
  <2>2. /\ \A f \in Fds : entry[f].sess # None => fd[entry[f].sess] = f
        /\ \A f \in Fds : entry[f].armed => entry[f].sess \in ToSet(sesshead)
        /\ \A i \in 1 .. Len(ki) : ki[i].sess \in ToSet(sesshead) /\ fd[ki[i].sess] = ki[i].fd
    BY <1>2 DEF Told, OnList
  <2>3. \A s \in events \ {Pipe} : s \in ToSet(sesshead) /\ fd[s] # None
    <3>1. ASSUME NEW s \in events, s # Pipe PROVE s \in ToSet(sesshead) /\ fd[s] # None
      <4>1. s \in OnList
        BY <1>2, <3>1 DEF Loop
      <4> QED  BY <1>1, <4>1, OfList DEF Listed, OnList
    <3> QED  BY <3>1
  <2>4. ASSUME NEW s \in ToSet(pipe)
        PROVE  LET e == entry[fd[s]].sess IN
               IF waiter = "epoll" THEN (s \in added) <=> (e # None) ELSE e = None
    <3>1. s \in Chunks /\ p[s] = "pipe" /\ s \notin OnList
      BY <1>2 DEF Where, InPipe
    <3>2. fd[s] # None
      BY <1>2, <3>1 DEF Owned, Open
    <3> QED  BY <1>2, <3>1, <3>2 DEF Told
  <2>5. waiter = "poll" => pollfd = {fd[s] : s \in ToSet(sesshead)}
    BY <1>2 DEF Loop, OnList
  <2>6. wpc = "walk" /\ walk = <<>> => events \subseteq {Pipe}
    BY <1>2, NoneOnEmpty DEF Loop
  <2> QED  BY <2>1, <2>2, <2>3, <2>4, <2>5, <2>6 DEF EventsForOwners
<1> QED  BY <1>3, <1>4, <1>5 DEF SessionInv

\* Session memory is in one place, there is never more of it than the limit and
\* the number of threads allow, and whatever the waiter or the kernel has for a
\* descriptor is for the session that owns it (SES_New, SES_Delete, vca_main).
THEOREM SessionsSafe == Spec => []SessionInv
<1>1. Init => IInv
  BY InitIInv
<1>2. IInv /\ [Next]_vars => IInv'
  BY NextIInv
<1>3. IInv => SessionInv
  BY IInvSessionInv
<1> QED  BY <1>1, <1>2, <1>3, PTL DEF Spec

=============================================================================
