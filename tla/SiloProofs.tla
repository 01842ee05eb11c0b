----------------------------- MODULE SiloProofs -----------------------------
(***************************************************************************)
(* Proofs about Silo (storage_persistent.c), for a silo of any size and    *)
(* any number of segments, objects, bans, deaths and restarts.             *)
(*                                                                         *)
(* Shape: what the tables, the list of segments and the child's pointers   *)
(* look like in every phase of the child.  Ringed: lists of segments go    *)
(* around the silo once.  Objects: descriptors, the hash and the counters  *)
(* nobj agree.  Written: whose the units of the open segment are.  Tables: *)
(* what the next start finds, at every step of smp_save_segs.  Banned: the *)
(* ban tables at every step of SMP_NewBan.                                 *)
(***************************************************************************)
EXTENDS Silo, SequenceTheorems, FiniteSetTheorems, WellFoundedInduction, TLAPS

Ptr == [gen : 1 .. MaxGen, offset : Nat, length : Nat, nalloc : Nat]
SegRec == [gen : 1 .. MaxGen, offset : Nat, length : Nat, nalloc : Nat,
           n : Nat, n1 : Nat, n2 : Nat, nobj : Int, load : BOOLEAN]
Desc == [live : BOOLEAN, ban : 0 .. MaxTime]
Want == [size : Nat, obj : BOOLEAN, tries : Nat]

SiloTypes ==
  /\ tab \in [1 .. 2 -> [ok : BOOLEAN, list : Seq(Ptr)]]
  /\ ban \in [1 .. 2 -> [ok : BOOLEAN, bans : SUBSET (1 .. MaxTime)]]
  /\ unit \in [SPC .. MediaSize - 1 -> 0 .. MaxGen]
  /\ place \in Seq(Nat) /\ index \in Seq(Seq(Desc))
  /\ Len(index) = Len(place) /\ Len(place) <= MaxGen

ChildTypes ==
  /\ child \in {"down", "start", "up", "panic", "lost"}
  /\ segs \in Seq(SegRec) /\ cur \in 0 .. MaxGen /\ freeOff \in Nat /\ nextAddr \in Nat
  /\ buf \in Seq(Desc) /\ want \in Want /\ saving \in 0 .. 9
  /\ loader \in [gen : 0 .. MaxGen, i : Nat]
  /\ cached \subseteq (1 .. MaxGen) \X (Nat \ {0}) /\ IsFiniteSet(cached)

BanTypes ==
  /\ time \in 0 .. MaxTime /\ bans \subseteq 1 .. time /\ banStep \in 0 .. 6
  /\ made \subseteq 1 .. time /\ torn \in BOOLEAN /\ met \in BOOLEAN
  /\ \A i \in 1 .. 2 : ban[i].bans \subseteq 1 .. time

\* A segment where a list says it is: made there, inside the silo, in the order
\* in which they were made.
Listed(p) ==
  /\ p.gen \in 1 .. Len(place) /\ place[p.gen] = p.offset
  /\ SPC <= p.offset /\ p.offset + AimSegl <= MediaSize
  /\ 3 <= p.length /\ p.length <= AimSegl
Ordered(list) ==
  /\ \A i \in DOMAIN list : Listed(list[i])
  /\ \A i, k \in DOMAIN list : i < k => list[i].gen < list[k].gen

\* The index of a closed segment has nalloc descriptors; the open one has none.
Closed(p) == p.gen # cur /\ Len(index[p.gen]) = p.nalloc

\* No child: nothing is in memory.
Gone ==
  /\ segs = <<>> /\ cur = 0 /\ buf = <<>> /\ want = NoWant /\ saving = 0
  /\ loader = NoLoad /\ cached = {} /\ bans = {} /\ banStep = 0

\* The open segment is the last of the list and has room to be closed.
Open ==
  LET sg == segs[Len(segs)] IN
  /\ sg.gen = cur
  /\ sg.length = AimSegl /\ sg.nalloc = 0 /\ ~ sg.load
  /\ sg.n1 <= sg.n /\ sg.n2 <= sg.n1 /\ Len(buf) = sg.n2
  /\ freeOff = smp_segend(sg)
  /\ sg.offset < nextAddr /\ nextAddr + 2 + sg.n1 <= smp_segend(sg)
  /\ index[cur] = <<>>

\* The other ones are closed, were loaded or are still to be loaded.
Settled(sg) ==
  /\ Closed(sg) /\ sg.n2 <= sg.n1
  /\ sg.n1 > 0 => sg.n1 = sg.nalloc /\ ~ sg.load

\* Where smp_thread is: never at a segment that this child made.
Loads ==
  loader.gen # 0 => \E i \in DOMAIN segs :
    /\ segs[i].gen = loader.gen /\ loader.gen # cur /\ segs[i].n1 = 0
    /\ loader.i > 0 => ~ segs[i].load

Running ==
  /\ Ordered(segs) /\ Len(segs) > 0
  /\ \A i \in DOMAIN segs : segs[i].gen # cur => Settled(segs[i])
  /\ saving = 0 => Open
  /\ saving # 0 => cur = 0 /\ buf = <<>>
  /\ child = "start" => banStep # 0 /\ want = NoWant /\ saving = 0
  /\ Loads /\ time \in bans

TabShape ==
  \A t \in 1 .. 2 :
    Ordered(tab[t].list) /\ \A i \in DOMAIN tab[t].list : Closed(tab[t].list[i])

Shape ==
  /\ SiloTypes /\ ChildTypes /\ BanTypes /\ (child # "lost" => TabShape)
  /\ child \in {"down", "panic"} => Gone
  /\ Alive => Running

-----------------------------------------------------------------------------
\* The space of a list of segments: disjoint, and wrapped around at most once.
Before(p, q) == smp_segend(p) <= q.offset
Ring(list) ==
  /\ \A i, k \in DOMAIN list : i < k => Before(list[i], list[k]) \/ Before(list[k], list[i])
  /\ \A i, k, m \in DOMAIN list : i < k /\ k < m =>
       /\ Before(list[k], list[i]) => Before(list[m], list[i]) /\ Before(list[k], list[m])
       /\ Before(list[m], list[k]) => Before(list[m], list[i])

Ringed == ~ met => Ring(tab[1].list) /\ Ring(tab[2].list) /\ (Alive => Ring(segs))

\* A segment may be put at free and the list goes on around the silo.
Room(list, free) ==
  /\ \A i \in DOMAIN list : smp_segend(list[i]) <= free \/ free <= list[i].offset
  /\ \A i, k \in DOMAIN list : i < k =>
       /\ Before(list[k], list[i]) => free <= list[i].offset /\ smp_segend(list[k]) <= free
       /\ free <= list[k].offset => free <= list[i].offset
-----------------------------------------------------------------------------
Mine(g) == {o \in cached : o[1] = g}

\* Nobody loads or adds objects: the hold is never given up.
Held(sg) ==
  /\ Mine(sg.gen) = {} /\ sg.nobj = 1 /\ sg.n1 = 0 /\ sg.gen # cur
  /\ loader.gen = sg.gen => loader.i \notin 1 .. sg.nalloc

\* What is alive in the silo is in the hash, up to where the loader is.
InHash(sg) ==
  LET upto == IF sg.load THEN 0
              ELSE IF loader.gen = sg.gen THEN loader.i - 1 ELSE Len(index[sg.gen])
  IN  \A i \in DOMAIN index[sg.gen] : i <= upto /\ index[sg.gen][i].live => <<sg.gen, i>> \in cached

\* The objects of a segment have descriptors, behind which the next ones go.
Bounded(sg) ==
  \A o \in Mine(sg.gen) :
    /\ o[2] <= IF sg.gen = cur THEN sg.n2 ELSE sg.nalloc
    /\ sg.n1 > 0 => o[2] <= sg.n2
    /\ loader.gen = sg.gen => o[2] < loader.i

Counted(sg) ==
  /\ sg.load => Held(sg) /\ (loader.gen = sg.gen => loader.i = 0)
  /\ sg.nobj = Cardinality(Mine(sg.gen)) \/ Held(sg)
  /\ Bounded(sg)

Objects ==
  Alive =>
    /\ \A i \in DOMAIN segs : Counted(segs[i])
    /\ \A i \in DOMAIN segs : segs[i].gen # cur /\ Intact(segs[i]) => InHash(segs[i])
    /\ \A o \in cached : o[1] \in Gens(segs)
    /\ \A i \in DOMAIN buf : buf[i].live => <<cur, i>> \in cached
-----------------------------------------------------------------------------
\* Up to next_addr the open segment is its own.
Written ==
  Alive /\ cur # 0 => \A a \in segs[Len(segs)].offset .. nextAddr - 1 : unit[a] = cur

Kept1(t) == smp_open_segs(t.list).keep
Safe(t) == \A i \in DOMAIN Kept1(t) : Intact(Kept1(t)[i])

\* What the next start keeps is on the list of segments.
Linked(t) ==
  \A i \in DOMAIN Kept1(t) : \E k \in DOMAIN segs : segs[k].gen # cur /\ Segptr(segs[k]) = Kept1(t)[i]

New == [ok |-> TRUE, list |-> Segptrs]

Tables ==
  /\ ~ torn /\ ~ met => tab[1].ok \/ tab[2].ok
  /\ ~ torn /\ ~ met => Safe(Chosen(tab))
  /\ ~ torn /\ ~ met /\ Alive => \A i \in DOMAIN segs : segs[i].gen # cur => Intact(segs[i])
  /\ ~ torn /\ Alive =>
       /\ saving \in {0, 1} => tab[1] = tab[2] /\ tab[1].ok
       /\ saving = 0 => Linked(tab[1])
       /\ saving \in {2, 3, 4} => tab[2].ok /\ (~ met => Safe(tab[2]))
       /\ saving \in 5 .. 9 => tab[1] = New
       /\ saving = 9 => tab[2] = New
-----------------------------------------------------------------------------
Both == ban[1].bans \cap ban[2].bans

\* The bans of what a child could load.
Named ==
  /\ \A g \in DOMAIN index : \A i \in DOMAIN index[g] : index[g][i].live => index[g][i].ban \in Both
  /\ \A i \in DOMAIN buf : buf[i].live => buf[i].ban \in Both

Banned ==
  /\ made \subseteq Both
  /\ banStep >= 3 => time \in ban[1].bans
  /\ banStep >= 6 => time \in ban[2].bans
  /\ ~ torn =>
       /\ ban[1].ok \/ ban[2].ok
       /\ Named
       /\ Alive /\ banStep = 0 => bans \subseteq Both /\ ban[1].ok /\ ban[2].ok
       /\ banStep \in {1, 4, 5, 6} => ban[1].ok
       /\ banStep \in 1 .. 4 => ban[2].ok
       /\ banStep # 0 => bans \ {time} \subseteq Both

IInv == Shape /\ Ringed /\ Objects /\ Tables /\ Written /\ Banned

(***************************************************************************)
(* Numbers and lists                                                       *)
(***************************************************************************)
LEMMA Sizes ==
  /\ MediaSize \in Nat /\ AimNobj \in Nat /\ MinTrim \in Nat /\ MaxGen \in Nat /\ MaxTime \in Nat
  /\ AimSegl \in Nat /\ AimSegl >= 3 /\ SPC + AimSegl <= MediaSize /\ SPC = 1
  /\ FreeReserve \in Int
<1>1. /\ MediaSize \in Nat /\ AimNseg \in Nat /\ AimNobj \in Nat /\ ReserveSegs \in Nat
      /\ MinTrim \in Nat /\ MaxGen \in Nat /\ MaxTime \in Nat /\ AimNseg > 0
      /\ AimSegl >= 3 /\ SPC + AimSegl <= MediaSize
  BY SizeAssumption
<1>2. AimSegl \in Int
  BY <1>1 DEF AimSegl, SPC
<1>3. FreeReserve \in Int
  <2> DEFINE x == AimSegl
  <2>1. x \in Int
    BY <1>2
  <2> HIDE DEF x
  <2>2. x * ReserveSegs \in Int
    BY <1>1, <2>1
  <2> QED  BY <2>2 DEF x, FreeReserve
<1> QED  BY <1>1, <1>2, <1>3 DEF SPC

\* A set of naturals that is not empty has a least element.
LEMMA MinOf ==
  ASSUME NEW S \in SUBSET Nat, S # {}
  PROVE  Min(S) \in S /\ \A y \in S : Min(S) <= y
<1>1. PICK x \in S : \A y \in S : ~ (<<y, x>> \in OpToRel(<, Nat))
  BY NatLessThanWellFounded, WFMin
<1>2. ASSUME NEW y \in S PROVE x <= y
  <2>1. ~ (y < x)
    BY <1>1 DEF OpToRel
  <2> QED  BY <2>1
<1>3. \E z \in S : \A y \in S : z =< y
  BY <1>2
<1> QED  BY <1>3 DEF Min

\* The records of a list of segments, whatever else they hold.
Parts(list) ==
  /\ Len(list) \in Nat /\ DOMAIN list = 1 .. Len(list)
  /\ \A i \in DOMAIN list : list[i].offset \in Nat /\ list[i].length \in Nat /\ list[i].gen \in Nat

\* Offsets and lengths of what is on a list are numbers.
LEMMA PtrParts ==
  /\ \A list \in Seq(Ptr) : Parts(list)
  /\ \A list \in Seq(SegRec) : Parts(list)
<1>1. ASSUME NEW list \in Seq(Ptr) PROVE Parts(list)
  <2>1. Len(list) \in Nat /\ DOMAIN list = 1 .. Len(list) /\ \A i \in DOMAIN list : list[i] \in Ptr
    BY LenProperties, ElementOfSeq
  <2> QED  BY <2>1, Sizes DEF Parts, Ptr
<1>2. ASSUME NEW list \in Seq(SegRec) PROVE Parts(list)
  <2>1. Len(list) \in Nat /\ DOMAIN list = 1 .. Len(list) /\ \A i \in DOMAIN list : list[i] \in SegRec
    BY LenProperties, ElementOfSeq
  <2>2. \A r \in SegRec : r.offset \in Nat /\ r.length \in Nat /\ r.gen \in 1 .. MaxGen
    BY DEF SegRec
  <2>3. \A g \in 1 .. MaxGen : g \in Nat
    BY Sizes
  <2> QED  BY <2>1, <2>2, <2>3 DEF Parts
<1> QED  BY <1>1, <1>2

\* A generation is on a list once.
LEMMA AtIs ==
  ASSUME NEW list, Parts(list), \A i, k \in DOMAIN list : i < k => list[i].gen < list[k].gen,
         NEW i \in DOMAIN list
  PROVE  At(list, list[i].gen) = i
<1>1. ASSUME NEW k \in DOMAIN list, list[k].gen = list[i].gen PROVE k = i
  <2>1. i \in Nat /\ k \in Nat
    BY DEF Parts
  <2>2. ~ (i < k) /\ ~ (k < i)
    BY <1>1 DEF Parts
  <2> QED  BY <2>1, <2>2
<1> QED  BY <1>1 DEF At

\* A part of a list, up to what Ring does not look at.
LEMMA RingPart ==
  ASSUME NEW list, NEW part, Parts(list), Ring(list),
         NEW d \in Nat, Len(part) \in Nat, DOMAIN part = 1 .. Len(part), Len(part) + d <= Len(list),
         \A i \in DOMAIN part : part[i].offset = list[i + d].offset /\ part[i].length = list[i + d].length
  PROVE  Ring(part)
<1>1. \A i \in DOMAIN part : i + d \in DOMAIN list /\ i \in Nat
  BY DEF Parts
<1>2. \A i, k \in DOMAIN part : Before(part[i], part[k]) <=> Before(list[i + d], list[k + d])
  BY DEF Before, smp_segend
<1>3. \A i, k \in DOMAIN part : i < k => i + d < k + d
  BY <1>1
<1>4. ASSUME NEW i \in DOMAIN part, NEW k \in DOMAIN part, i < k
      PROVE  Before(part[i], part[k]) \/ Before(part[k], part[i])
  BY <1>1, <1>2, <1>3, <1>4 DEF Ring
<1>5. ASSUME NEW i \in DOMAIN part, NEW k \in DOMAIN part, NEW m \in DOMAIN part, i < k, k < m
      PROVE  /\ Before(part[k], part[i]) => Before(part[m], part[i]) /\ Before(part[k], part[m])
             /\ Before(part[m], part[k]) => Before(part[m], part[i])
  BY <1>1, <1>2, <1>3, <1>5 DEF Ring
<1> QED  BY <1>4, <1>5 DEF Ring

\* The last segment of a ring has been cut.
LEMMA RingCut ==
  ASSUME NEW list, NEW cut, Parts(list), Parts(cut), Ring(list), Len(cut) = Len(list),
         \A i \in DOMAIN list : list[i].length > 0 /\ cut[i].offset = list[i].offset,
         \A i \in DOMAIN list : i # Len(list) => cut[i].length = list[i].length,
         \A i \in DOMAIN list : 0 < cut[i].length /\ cut[i].length <= list[i].length
  PROVE  Ring(cut)
<1>0. DOMAIN cut = DOMAIN list
  BY DEF Parts
<1>1. \A i, k \in DOMAIN list : Before(list[i], list[k]) => Before(cut[i], cut[k])
  BY <1>0 DEF Before, smp_segend, Parts
<1>2. \A i, k \in DOMAIN list : i < k => (Before(cut[i], cut[k]) <=> Before(list[i], list[k]))
  <2> SUFFICES ASSUME NEW i \in DOMAIN list, NEW k \in DOMAIN list, i < k
               PROVE  Before(cut[i], cut[k]) <=> Before(list[i], list[k])
    OBVIOUS
  <2>1. i # Len(list)
    BY DEF Parts
  <2> QED  BY <2>1, <1>0 DEF Before, smp_segend, Parts
<1>3. \A i, k \in DOMAIN list : i < k /\ Before(cut[k], cut[i]) => Before(list[k], list[i])
  <2> SUFFICES ASSUME NEW i \in DOMAIN list, NEW k \in DOMAIN list, i < k, Before(cut[k], cut[i])
               PROVE  Before(list[k], list[i])
    OBVIOUS
  <2>1. ~ Before(list[i], list[k])
    BY <1>0 DEF Before, smp_segend, Parts
  <2> QED  BY <2>1 DEF Ring
<1>4. ASSUME NEW i \in DOMAIN list, NEW k \in DOMAIN list, i < k
      PROVE  Before(cut[i], cut[k]) \/ Before(cut[k], cut[i])
  BY <1>1, <1>4 DEF Ring
<1>5. ASSUME NEW i \in DOMAIN list, NEW k \in DOMAIN list, NEW m \in DOMAIN list, i < k, k < m
      PROVE  /\ Before(cut[k], cut[i]) => Before(cut[m], cut[i]) /\ Before(cut[k], cut[m])
             /\ Before(cut[m], cut[k]) => Before(cut[m], cut[i])
  <2>1. i < m
    BY <1>5 DEF Parts
  <2> QED  BY <1>1, <1>3, <1>5, <2>1 DEF Ring
<1> QED  BY <1>0, <1>4, <1>5 DEF Ring

\* After the last segment there is room, also when that one is taken away.
LEMMA RoomAtEnd ==
  ASSUME NEW list, Parts(list), Ring(list), Len(list) > 0, \A i \in DOMAIN list : list[i].length > 0,
         NEW part, NEW n \in {Len(list), Len(list) - 1}, DOMAIN part = 1 .. n,
         \A i \in DOMAIN part : part[i].offset = list[i].offset /\ part[i].length = list[i].length
  PROVE  Room(part, smp_segend(list[Len(list)]))
<1> DEFINE z == Len(list)
           free == smp_segend(list[z])
<1>1. z \in DOMAIN list /\ z \in Nat /\ \A i \in DOMAIN part : i \in DOMAIN list /\ i <= z
  BY DEF Parts
<1>2. /\ free \in Nat /\ list[z].offset < free
      /\ \A i \in DOMAIN list : Before(list[z], list[i]) <=> free <= list[i].offset
      /\ \A i \in DOMAIN list : Before(list[i], list[z]) => smp_segend(list[i]) <= free
  BY <1>1 DEF Before, smp_segend, Parts
<1>3. \A i, k \in DOMAIN part : Before(part[i], part[k]) <=> Before(list[i], list[k])
  BY DEF Before, smp_segend
<1>4. ASSUME NEW i \in DOMAIN part
      PROVE  smp_segend(part[i]) <= free \/ free <= part[i].offset
  <2>1. CASE i = z
    BY <1>1, <1>2, <2>1 DEF smp_segend
  <2>2. CASE i # z
    <3>1. i < z
      BY <1>1, <2>2 DEF Parts
    <3> QED  BY <3>1, <1>1, <1>2 DEF Ring, smp_segend
  <2> QED  BY <2>1, <2>2
<1>5. ASSUME NEW i \in DOMAIN part, NEW k \in DOMAIN part, i < k
      PROVE  /\ Before(part[k], part[i]) => free <= part[i].offset /\ smp_segend(part[k]) <= free
             /\ free <= part[k].offset => free <= part[i].offset
  <2>0. i \in DOMAIN list /\ k \in DOMAIN list
    BY <1>1
  <2>1. CASE k = z
    <3>1. ~ (free <= list[z].offset)
      BY <1>1, <1>2 DEF Parts
    <3>2. part[k].offset = list[z].offset /\ smp_segend(part[k]) = free
      BY <2>1 DEF smp_segend
    <3>3. part[i].offset = list[i].offset
      OBVIOUS
    <3> QED  BY <3>1, <3>2, <3>3, <1>2, <1>3, <2>0, <2>1
  <2>2. CASE k # z
    <3>1. k < z
      BY <1>1, <2>2 DEF Parts
    <3>2. /\ Before(list[k], list[i]) => Before(list[z], list[i]) /\ Before(list[k], list[z])
          /\ Before(list[z], list[k]) => Before(list[z], list[i])
      BY <3>1, <1>1, <1>5, <2>0 DEF Ring
    <3> QED  BY <3>2, <1>2, <1>3, <2>0 DEF smp_segend
  <2> QED  BY <2>1, <2>2
<1> QED  BY <1>4, <1>5 DEF Room

\* smp_new_seg goes on around the silo, unless the new segment meets the first.
LEMMA RingNew ==
  ASSUME NEW list, Parts(list), Ring(list), NEW free \in Nat, Room(list, free),
         ~ OutOfSpace(list, free), First(list) # Offset(free), list = <<>> \/ Len(list) > 0,
         \A i \in DOMAIN list :
           /\ SPC <= list[i].offset /\ list[i].offset + AimSegl <= MediaSize
           /\ 0 < list[i].length /\ list[i].length <= AimSegl,
         NEW new, Parts(new), Len(new) = Len(list) + 1,
         \A i \in DOMAIN list : new[i].offset = list[i].offset /\ new[i].length = list[i].length,
         new[Len(new)].offset = Offset(free), new[Len(new)].length = AimSegl
  PROVE  Ring(new)
<1> DEFINE z == Len(new)
           off == Offset(free)
<1>1. /\ z \in DOMAIN new /\ z \in Nat /\ DOMAIN list = 1 .. z - 1 /\ DOMAIN new = 1 .. z
      /\ \A i \in DOMAIN list : i \in DOMAIN new /\ i < z
  BY DEF Parts
<1>2. \A i, k \in DOMAIN list : Before(new[i], new[k]) <=> Before(list[i], list[k])
  BY DEF Before, smp_segend
<1>3. /\ \A i \in DOMAIN list : Before(new[i], new[z]) <=> smp_segend(list[i]) <= off
      /\ \A i \in DOMAIN list : Before(new[z], new[i]) <=> off + AimSegl <= list[i].offset
  BY DEF Before, smp_segend
<1>4. ASSUME NEW i \in DOMAIN list
      PROVE  smp_segend(list[i]) <= off \/ off + AimSegl <= list[i].offset
  PROOF
  <2>0. 1 \in DOMAIN list /\ list # <<>> /\ First(list) = list[1].offset
    BY <1>1 DEF First, Parts
  <2>1. CASE Wraps(free)
    <3>1. off = SPC /\ SPC + AimSegl <= list[1].offset
      <4>1. ~ (Offset(free) + AimSegl > First(list)) /\ Offset(free) = SPC
        BY <2>1 DEF OutOfSpace, Offset
      <4>2. list[1].offset \in Nat
        BY <2>0 DEF Parts
      <4> QED  BY <4>1, <4>2, <2>0, Sizes
    <3>2. \A k \in DOMAIN list : list[k].offset < free
      BY <2>1, Sizes DEF Wraps, Parts
    <3>3. \A k \in DOMAIN list : smp_segend(list[k]) <= free
      BY <3>2 DEF Room, Parts
    <3>4. ~ Before(list[i], list[1])
      BY <3>3, <3>2, <2>0 DEF Room, Before, smp_segend, Parts
    <3>5. i = 1 \/ Before(list[1], list[i])
      BY <3>4, <2>0, <1>1 DEF Ring, Parts
    <3> QED  BY <3>1, <3>5, <2>0, Sizes DEF Before, smp_segend, Parts
  <2>2. CASE ~ Wraps(free)
    <3>1. off = free /\ (list[1].offset < free \/ free + AimSegl <= list[1].offset)
      <4>1. Offset(free) = free /\ ~ (First(list) > free /\ free + AimSegl > First(list))
        BY <2>2 DEF OutOfSpace, Offset
      <4>2. list[1].offset # free
        BY <4>1, <2>0
      <4> QED  BY <4>1, <4>2, <2>0, Sizes, SMTT(30) DEF Parts
    <3>2. CASE list[1].offset < free
      <4>1. ~ (free <= list[1].offset)
        BY <3>2, <2>0 DEF Parts
      <4>2. ~ (free <= list[i].offset)
        BY <4>1, <2>0, <1>1 DEF Room, Parts
      <4> QED  BY <4>2, <3>1 DEF Room
    <3>3. CASE free + AimSegl <= list[1].offset
      <4>1. i = 1 \/ Before(list[1], list[i]) \/ Before(list[i], list[1])
        BY <2>0, <1>1 DEF Ring, Parts
      <4>2. Before(list[i], list[1]) /\ i # 1 => smp_segend(list[i]) <= free
        BY <2>0, <1>1 DEF Room, Parts
      <4>3. Before(list[1], list[i]) => free + AimSegl <= list[i].offset
        BY <3>3, <2>0, Sizes DEF Before, smp_segend, Parts
      <4> QED  BY <4>1, <4>2, <4>3, <3>1, <3>3
    <3> QED  BY <3>1, <3>2, <3>3
  <2> QED  BY <2>1, <2>2
<1>5. ASSUME NEW i \in DOMAIN list, NEW k \in DOMAIN list, i < k
      PROVE  /\ Before(list[k], list[i]) => off + AimSegl <= list[i].offset /\ smp_segend(list[k]) <= off
             /\ off + AimSegl <= list[k].offset => off + AimSegl <= list[i].offset
  <2>0. 1 \in DOMAIN list /\ list # <<>> /\ First(list) = list[1].offset
    BY <1>1 DEF First, Parts
  <2>3. /\ Before(list[k], list[i]) => free <= list[i].offset /\ smp_segend(list[k]) <= free
        /\ free <= list[k].offset => free <= list[i].offset
    BY <1>5 DEF Room
  <2>4. /\ smp_segend(list[i]) <= off \/ off + AimSegl <= list[i].offset
        /\ smp_segend(list[k]) <= off \/ off + AimSegl <= list[k].offset
    BY <1>4
  <2>5. /\ smp_segend(list[i]) = list[i].offset + list[i].length
        /\ smp_segend(list[k]) = list[k].offset + list[k].length
        /\ list[i].offset \in Nat /\ list[i].length \in Nat /\ list[k].offset \in Nat
        /\ list[k].length \in Nat /\ list[i].length > 0 /\ list[k].length > 0
    BY DEF smp_segend, Parts
  <2>1. CASE Wraps(free)
    <3>1. off = SPC /\ list[i].offset < free /\ list[k].offset < free
      BY <2>1, Sizes DEF Wraps, Offset, Parts
    <3>2. ~ Before(list[k], list[i])
      BY <3>1, <2>3, <2>5
    <3>3. SPC <= list[i].offset
      OBVIOUS
    <3> QED  BY <3>1, <3>2, <3>3, <2>4, <2>5, Sizes
  <2>2. CASE ~ Wraps(free)
    <3>1. off = free
      BY <2>2 DEF Offset
    <3> QED  BY <3>1, <2>3, <2>4, <2>5, Sizes, SMTT(30)
  <2> QED  BY <2>1, <2>2
<1>6. ASSUME NEW i \in DOMAIN new, NEW k \in DOMAIN new, i < k
      PROVE  Before(new[i], new[k]) \/ Before(new[k], new[i])
  <2>1. i \in DOMAIN list
    BY <1>1, <1>6
  <2>2. CASE k = z
    BY <2>1, <2>2, <1>3, <1>4
  <2>3. CASE k # z
    <3>1. k \in DOMAIN list
      BY <2>3, <1>1
    <3> QED  BY <3>1, <2>1, <1>2, <1>6 DEF Ring
  <2> QED  BY <2>2, <2>3
<1>7. ASSUME NEW i \in DOMAIN new, NEW k \in DOMAIN new, NEW m \in DOMAIN new, i < k, k < m
      PROVE  /\ Before(new[k], new[i]) => Before(new[m], new[i]) /\ Before(new[k], new[m])
             /\ Before(new[m], new[k]) => Before(new[m], new[i])
  <2>1. i \in DOMAIN list /\ k \in DOMAIN list
    BY <1>1, <1>7
  <2>2. CASE m = z
    BY <2>1, <2>2, <1>2, <1>3, <1>5, <1>7
  <2>3. CASE m # z
    <3>1. m \in DOMAIN list
      BY <2>3, <1>1
    <3> QED  BY <3>1, <2>1, <1>2, <1>7 DEF Ring
  <2> QED  BY <2>2, <2>3
<1> QED  BY <1>6, <1>7 DEF Ring

\* What smp_open_segs gives: the last segments of the list, and a place to write.
LEMMA OpenSegs ==
  ASSUME NEW list \in Seq(Ptr), NEW found, found = smp_open_segs(list),
         \A i \in DOMAIN list : SPC <= list[i].offset /\ 0 < list[i].length
  PROVE  /\ list = <<>> => found.keep = <<>> /\ found.free = SPC
         /\ list # <<>> => \E j \in 1 .. Len(list) : found.keep = SubSeq(list, j, Len(list))
         /\ found.free \in Nat /\ SPC <= found.free
         /\ Ring(list) => Ring(found.keep) /\ Room(found.keep, found.free)
<1>0. Parts(list) /\ SPC = 1
  BY PtrParts DEF SPC
<1>1. CASE list = <<>>
  <2>1. found.keep = <<>> /\ found.free = SPC
    BY <1>1 DEF smp_open_segs
  <2>2. Ring(<<>>) /\ Room(<<>>, SPC)
    BY DEF Ring, Room
  <2> QED  BY <2>1, <2>2, <1>1, <1>0
<1>2. CASE list # <<>>
  <2> DEFINE n == Len(list)
             end == smp_segend(list[n])
             tail == MediaSize - end
             Behind(x) == list[x].offset > list[n].offset
             Gap(x) == list[x].offset - end
             Ahead(x) == list[x].offset - SPC
             I == {x \in 1 .. n : x = n \/ ~ Behind(x) \/ Gap(x) > FreeReserve}
             i == IF Behind(1) THEN Min(I) ELSE 1
             l == IF ~ Behind(1) THEN tail ELSE IF Behind(i) THEN Gap(i) ELSE Gap(i - 1)
             short == l < FreeReserve
             J == {x \in i .. n : x = n \/ Ahead(x) > FreeReserve}
             j == IF short THEN Min(J) ELSE i
  <2>1. found.free = (IF short THEN SPC ELSE end) /\ found.keep = SubSeq(list, j, n)
    BY <1>2 DEF smp_open_segs
  <2>2. n \in Nat /\ n > 0 /\ n \in DOMAIN list /\ DOMAIN list = 1 .. n
    BY <1>0, <1>2, EmptySeq DEF Parts
  <2>a. end \in Nat /\ SPC <= end
    BY <2>2, <1>0 DEF Parts, smp_segend
  <2> HIDE DEF n, end, tail
  <2>3. i \in 1 .. n /\ (Behind(1) => i \in I)
    <3> HIDE DEF Behind, Gap
    <3>1. n \in I /\ I \in SUBSET Nat /\ I \subseteq 1 .. n
      BY <2>2
    <3> HIDE DEF I
    <3>2. Min(I) \in I
      BY <3>1, MinOf
    <3>3. CASE Behind(1)
      BY <3>1, <3>2, <3>3
    <3>4. CASE ~ Behind(1)
      BY <3>4, <2>2
    <3> QED  BY <3>3, <3>4
  <2>4. j \in i .. n
    <3> HIDE DEF i, l, Ahead
    <3>1. n \in J /\ J \in SUBSET Nat /\ J \subseteq i .. n
      BY <2>2, <2>3
    <3> HIDE DEF J
    <3>2. Min(J) \in J
      BY <3>1, MinOf
    <3>3. CASE short
      BY <3>1, <3>2, <3>3
    <3>4. CASE ~ short
      BY <3>4, <2>2, <2>3
    <3> QED  BY <3>3, <3>4
  <2> HIDE DEF j
  <2>5. found.free \in Nat /\ SPC <= found.free
    <3> HIDE DEF short
    <3> QED  BY <2>1, <2>a, <1>0
  <2>6. j \in 1 .. n /\ j \in Nat /\ i \in Nat /\ i <= j
    <3> HIDE DEF i
    <3> QED  BY <2>3, <2>4, <2>2
  <2>7. ASSUME Ring(list) PROVE Ring(found.keep) /\ Room(found.keep, found.free)
    <3> DEFINE keep == SubSeq(list, j, n)
    <3>1. /\ Len(keep) = n - j + 1 /\ DOMAIN keep = 1 .. n - j + 1 /\ keep \in Seq(Ptr)
          /\ \A x \in DOMAIN keep : keep[x] = list[x + (j - 1)] /\ x + (j - 1) \in DOMAIN list
      <4>1. \A x \in j .. n : list[x] \in Ptr
        BY <2>2, <2>6, ElementOfSeq
      <4>2. j \in Int /\ n \in Int /\ j <= n
        BY <2>2, <2>6
      <4>3. keep \in Seq(Ptr) /\ Len(keep) = n - j + 1 /\ \A x \in 1 .. n - j + 1 : keep[x] = list[j + x - 1]
        BY <4>1, <4>2, SubSeqProperties
      <4> HIDE DEF keep
      <4>4. DOMAIN keep = 1 .. n - j + 1
        BY <4>3, LenProperties
      <4>5. ASSUME NEW x \in DOMAIN keep PROVE keep[x] = list[x + (j - 1)] /\ x + (j - 1) \in DOMAIN list
        <5>1. x \in 1 .. n - j + 1 /\ x \in Int /\ j + x - 1 = x + (j - 1)
          BY <4>2, <4>4, <4>5
        <5>2. x + (j - 1) \in 1 .. n
          BY <5>1, <4>2, <2>2, <2>6
        <5> QED  BY <5>1, <5>2, <4>3, <2>2
      <4> QED  BY <4>3, <4>4, <4>5
    <3> HIDE DEF keep
    <3>2. Ring(keep) /\ Parts(keep)
      <4>1. j - 1 \in Nat /\ Len(keep) \in Nat /\ Len(keep) + (j - 1) <= Len(list)
        <5>1. j - 1 \in Nat /\ n - j + 1 \in Nat /\ (n - j + 1) + (j - 1) <= n
          BY <2>2, <2>6
        <5> QED  BY <5>1, <3>1 DEF n
      <4> QED  BY <3>1, <4>1, <2>7, <1>0, RingPart, PtrParts DEF n
    <3>3. CASE ~ short
      <4>1. found.free = smp_segend(keep[Len(keep)]) /\ Len(keep) \in DOMAIN keep /\ Len(keep) > 0
        <5> HIDE DEF short
        <5>1. found.free = end
          BY <3>3, <2>1
        <5>2. Len(keep) \in DOMAIN keep /\ Len(keep) > 0 /\ Len(keep) + (j - 1) = n
          BY <3>1, <2>2, <2>6
        <5> QED  BY <5>1, <5>2, <3>1 DEF end
      <4>2. \A x \in DOMAIN keep : keep[x].length > 0
        BY <3>1
      <4>3. DOMAIN keep = 1 .. Len(keep)
        BY <3>1
      <4> HIDE DEF short
      <4> QED  BY <4>1, <4>2, <4>3, <3>2, <2>1, RoomAtEnd DEF keep, n
    <3>4. CASE short
      <4>1. ASSUME NEW x \in j .. n, NEW y \in j .. n, x < y, Before(list[y], list[x]) PROVE FALSE
        <5>0. /\ x \in DOMAIN list /\ y \in DOMAIN list /\ x < n /\ x \in Nat /\ y \in Nat /\ i <= x
              /\ i \in DOMAIN list /\ i \in Nat /\ 1 \in DOMAIN list
          <6> HIDE DEF i
          <6> QED  BY <4>1, <2>2, <2>6, <2>4, <2>3
        <5>1. Before(list[n], list[x])
          <6>1. CASE y = n
            BY <6>1, <4>1
          <6>2. CASE y # n
            <7>1. y < n
              BY <6>2, <4>1, <2>2, <2>6
            <7> QED  BY <7>1, <5>0, <4>1, <2>2, <2>7 DEF Ring
          <6> QED  BY <6>1, <6>2
        <5>2. ASSUME NEW w \in DOMAIN list, w <= x PROVE Before(list[n], list[w]) /\ Behind(w)
          <6>1. Before(list[n], list[w])
            <7>1. CASE w = x
              BY <7>1, <5>1
            <7>2. CASE w # x
              <8>1. w < x
                BY <7>2, <5>2, <5>0, <2>2
              <8> QED  BY <8>1, <5>0, <5>1, <2>2, <2>7 DEF Ring
            <7> QED  BY <7>1, <7>2
          <6> QED  BY <6>1, <2>2, <1>0 DEF Before, smp_segend, Parts
        <5>3. Behind(1) /\ Behind(i)
          <6> HIDE DEF i
          <6>1. 1 <= x
            BY <5>0, <2>2
          <6> QED  BY <6>1, <5>0, <5>2
        <5>4. i # n
          <6> HIDE DEF i
          <6> QED  BY <5>0, <2>2
        <5>5. i \in I
          BY <5>3, <2>3
        <5>6. Gap(i) > FreeReserve
          <6> HIDE DEF i
          <6> QED  BY <5>3, <5>4, <5>5
        <5>7. l = Gap(i)
          <6> HIDE DEF i
          <6> QED  BY <5>3
        <5>8. Gap(i) \in Int
          <6> HIDE DEF i
          <6> QED  BY <5>0, <2>a, <1>0 DEF Parts
        <5> HIDE DEF Gap, i, l
        <5> QED  BY <3>4, <5>6, <5>7, <5>8, Sizes
      <4>2. \A x \in DOMAIN keep : x + (j - 1) \in j .. n /\ x \in Nat
        BY <3>1, <2>6, <2>2
      <4>3. ASSUME NEW x \in DOMAIN keep, NEW y \in DOMAIN keep, x < y, Before(keep[y], keep[x]) PROVE FALSE
        <5>1. x + (j - 1) < y + (j - 1)
          BY <4>2, <4>3, <2>6, <2>2
        <5> QED  BY <5>1, <4>1, <4>2, <4>3, <3>1
      <4>4. \A x \in DOMAIN keep : SPC <= keep[x].offset
        BY <3>1
      <4>5. Room(keep, SPC)
        BY <4>3, <4>4 DEF Room
      <4> HIDE DEF short
      <4> QED  BY <4>5, <3>2, <3>4, <2>1 DEF keep
    <3> QED  BY <3>3, <3>4
  <2> QED  BY <1>2, <2>1, <2>5, <2>6, <2>7 DEF n
<1> QED  BY <1>1, <1>2

(***************************************************************************)
(* What the steps do                                                       *)
(***************************************************************************)
\* A record of the list of segments is replaced.
SegStep(k, r) ==
  /\ segs' \in Seq(SegRec) /\ Len(segs') = Len(segs) /\ DOMAIN segs' = DOMAIN segs
  /\ k \in DOMAIN segs /\ segs'[k] = r
  /\ \A i \in DOMAIN segs : i # k => segs'[i] = segs[i]

\* Replacing one record of the list.
LEMMA SegPut ==
  ASSUME segs \in Seq(SegRec), NEW k \in DOMAIN segs, NEW r \in SegRec, segs' = [segs EXCEPT ![k] = r]
  PROVE  SegStep(k, r)
<1>1. DOMAIN segs = 1 .. Len(segs)
  BY LenProperties
<1>2. /\ [segs EXCEPT ![k] = r] \in Seq(SegRec)
      /\ Len([segs EXCEPT ![k] = r]) = Len(segs)
      /\ \A j \in 1 .. Len(segs) : [segs EXCEPT ![k] = r][j] = IF j = k THEN r ELSE segs[j]
  BY <1>1, ExceptSeq
<1>3. DOMAIN segs' = 1 .. Len(segs)
  BY <1>2, LenProperties
<1> QED  BY <1>1, <1>2, <1>3 DEF SegStep

\* The fields of a segment.
LEMMA SegFields ==
  ASSUME NEW r \in SegRec
  PROVE  /\ r.gen \in 1 .. MaxGen /\ r.gen \in Nat /\ r.gen # 0
         /\ r.offset \in Nat /\ r.length \in Nat /\ r.nalloc \in Nat
         /\ r.n \in Nat /\ r.n1 \in Nat /\ r.n2 \in Nat /\ r.nobj \in Int /\ r.load \in BOOLEAN
<1>1. /\ r.gen \in 1 .. MaxGen /\ r.offset \in Nat /\ r.length \in Nat /\ r.nalloc \in Nat
      /\ r.n \in Nat /\ r.n1 \in Nat /\ r.n2 \in Nat /\ r.nobj \in Int /\ r.load \in BOOLEAN
  BY DEF SegRec
<1>2. \A g \in 1 .. MaxGen : g \in Nat /\ g # 0
  BY Sizes
<1> QED  BY <1>1, <1>2

\* The list of segments of a child that runs.
LEMMA SegsAre ==
  ASSUME Shape, Alive
  PROVE  /\ Running /\ segs \in Seq(SegRec) /\ Parts(segs)
         /\ DOMAIN segs = 1 .. Len(segs) /\ Len(segs) \in Nat /\ Len(segs) \in DOMAIN segs
         /\ \A i \in DOMAIN segs : segs[i] \in SegRec /\ Listed(segs[i])
         /\ \A i \in DOMAIN segs : At(segs, segs[i].gen) = i /\ Seg(segs[i].gen) = segs[i]
         /\ \A i, k \in DOMAIN segs : segs[i].gen = segs[k].gen => i = k
<1>1. Running /\ segs \in Seq(SegRec) /\ Parts(segs)
  BY PtrParts DEF Shape, ChildTypes
<1>2. DOMAIN segs = 1 .. Len(segs) /\ Len(segs) \in Nat /\ Len(segs) \in DOMAIN segs
  BY <1>1 DEF Parts, Running
<1>3. \A i \in DOMAIN segs : segs[i] \in SegRec /\ Listed(segs[i])
  BY <1>1, <1>2, ElementOfSeq DEF Running, Ordered
<1>4. \A i, k \in DOMAIN segs : i < k => segs[i].gen < segs[k].gen
  BY <1>1 DEF Running, Ordered
<1>5. \A i \in DOMAIN segs : At(segs, segs[i].gen) = i
  BY <1>1, <1>4, AtIs
<1>6. \A i, k \in DOMAIN segs : segs[i].gen = segs[k].gen => i = k
  BY <1>5
<1> QED  BY <1>1, <1>2, <1>3, <1>5, <1>6 DEF Seg

\* The open segment.
LEMMA CurIs ==
  ASSUME Shape, Alive, saving = 0
  PROVE  /\ Open /\ At(segs, cur) = Len(segs) /\ Seg(cur) = segs[Len(segs)] /\ cur # 0
         /\ cur \in 1 .. Len(place) /\ cur \in 1 .. MaxGen /\ segs[Len(segs)].gen = cur
         /\ \A i \in DOMAIN segs : i # Len(segs) => segs[i].gen # cur
         /\ \A i \in DOMAIN segs : segs[i].gen # cur => i # Len(segs)
<1>1. Open /\ segs[Len(segs)].gen = cur
  BY SegsAre DEF Running, Open
<1>2. Len(segs) \in DOMAIN segs /\ segs[Len(segs)] \in SegRec /\ Listed(segs[Len(segs)])
  BY SegsAre
<1> QED  BY <1>1, <1>2, SegsAre, SegFields DEF Listed

-----------------------------------------------------------------------------
(***************************************************************************)
(* Shape                                                                   *)
(***************************************************************************)
Same(p, q) ==
  p.gen = q.gen /\ p.offset = q.offset /\ p.length = q.length /\ p.nalloc = q.nalloc

\* The child ends: nothing in the silo changes.
LEMMA ShapeDie ==
  ASSUME Shape, Alive, Die, UNCHANGED <<siloVars, ban, time, made, hist>>
  PROVE  Shape'
<1>1. Gone' /\ child' = "down"
  BY DEF Die, Gone, NoWant, NoLoad
<1>2. SiloTypes'
  BY DEF Shape, SiloTypes, siloVars
<1>3. ChildTypes' /\ BanTypes'
  <2>1. NoWant \in Want /\ NoLoad \in [gen : 0 .. MaxGen, i : Nat]
    BY Sizes DEF NoWant, Want, NoLoad
  <2>2. <<>> \in Seq(SegRec) /\ <<>> \in Seq(Desc) /\ SPC \in Nat /\ IsFiniteSet({})
    BY EmptySeq, FS_EmptySet DEF SPC
  <2>3. 0 \in 0 .. MaxGen /\ 0 \in 0 .. 9 /\ 0 \in 0 .. 6
    BY Sizes
  <2> QED  BY <2>1, <2>2, <2>3 DEF Die, ChildTypes, BanTypes, Shape, hist
<1>4. TabShape'
  <2> SUFFICES ASSUME NEW t \in 1 .. 2
               PROVE  Ordered(tab[t].list)' /\ \A i \in DOMAIN tab'[t].list : Closed(tab[t].list[i])'
    BY DEF TabShape
  <2>1. Ordered(tab[t].list) /\ \A i \in DOMAIN tab[t].list : Closed(tab[t].list[i])
    BY DEF Shape, TabShape, Alive
  <2>2. tab' = tab /\ place' = place /\ index' = index /\ cur' = 0
    BY DEF siloVars, Die
  <2>3. \A i \in DOMAIN tab[t].list : tab[t].list[i].gen # 0
    BY <2>1, Sizes DEF Ordered, Listed, Shape, SiloTypes
  <2> QED  BY <2>1, <2>2, <2>3 DEF Ordered, Listed, Closed
<1> QED  BY <1>1, <1>2, <1>3, <1>4 DEF Shape, Alive

Types == SiloTypes /\ ChildTypes /\ BanTypes

\* The list of segments keeps its segments, and the silo its tables.
SameSegs ==
  /\ segs' \in Seq(SegRec) /\ Len(segs') = Len(segs)
  /\ \A i \in DOMAIN segs : Same(segs'[i], segs[i])
  /\ UNCHANGED <<cur, place, tab, saving>>
  /\ \A g \in DOMAIN index : g # cur => Len(index'[g]) = Len(index[g])

\* What this child made stays so, what is loaded stays loaded.
Steady ==
  \A i \in DOMAIN segs : segs[i].gen # cur =>
    /\ segs'[i].n1 = segs[i].n1 /\ segs'[i].n2 <= segs'[i].n1
    /\ segs'[i].load => segs[i].load

\* Generations are numbers of segments that were made.
LEMMA GensListed ==
  ASSUME Shape
  PROVE  /\ Len(index) = Len(place) /\ DOMAIN index = 1 .. Len(index) /\ Len(index) \in Nat
         /\ DOMAIN place = 1 .. Len(place) /\ Len(place) \in Nat
         /\ child # "lost" => \A t \in 1 .. 2 : \A i \in DOMAIN tab[t].list :
              tab[t].list[i].gen \in DOMAIN index /\ tab[t].list[i].gen # 0
         /\ Alive => \A i \in DOMAIN segs : segs[i].gen \in DOMAIN index /\ segs[i].gen # 0
<1>1. Len(index) = Len(place) /\ DOMAIN index = 1 .. Len(index) /\ Len(index) \in Nat
      /\ DOMAIN place = 1 .. Len(place) /\ Len(place) \in Nat
  BY LenProperties DEF Shape, SiloTypes
<1>2. \A g \in DOMAIN index : g # 0
  BY <1>1
<1>3. ASSUME child # "lost", NEW t \in 1 .. 2, NEW i \in DOMAIN tab[t].list
      PROVE  tab[t].list[i].gen \in DOMAIN index
  BY <1>1, <1>3 DEF Shape, TabShape, Ordered, Listed
<1>4. ASSUME Alive, NEW i \in DOMAIN segs PROVE segs[i].gen \in DOMAIN index
  BY <1>1, <1>4 DEF Shape, Running, Ordered, Listed
<1> QED  BY <1>1, <1>2, <1>3, <1>4

\* The tables and the lengths of the indexes stay.
LEMMA TabStand ==
  ASSUME Shape, child # "lost", UNCHANGED <<tab, place>>, cur' \in {0, cur},
         \A g \in DOMAIN index : g # cur => Len(index'[g]) = Len(index[g])
  PROVE  TabShape'
<1> SUFFICES ASSUME NEW t \in 1 .. 2
             PROVE  Ordered(tab[t].list)' /\ \A i \in DOMAIN tab'[t].list : Closed(tab[t].list[i])'
  BY DEF TabShape
<1>1. Ordered(tab[t].list) /\ \A i \in DOMAIN tab[t].list : Closed(tab[t].list[i])
  BY DEF Shape, TabShape
<1>2. \A i \in DOMAIN tab[t].list : tab[t].list[i].gen \in DOMAIN index /\ tab[t].list[i].gen # 0
  BY GensListed
<1>3. Ordered(tab[t].list)'
  BY <1>1 DEF Ordered, Listed
<1>4. \A i \in DOMAIN tab'[t].list : Closed(tab[t].list[i])'
  BY <1>1, <1>2 DEF Closed
<1> QED  BY <1>3, <1>4

\* Most steps: enough that the open segment and the loader are well.
LEMMA RunningStep ==
  ASSUME Shape, Alive, Alive', SameSegs, Steady, Types',
         saving = 0 => Open', saving # 0 => buf' = buf,
         child' = "start" => banStep' # 0 /\ want' = NoWant /\ saving = 0,
         Loads', time' \in bans'
  PROVE  Shape'
<1>1. DOMAIN segs' = DOMAIN segs /\ Running /\ Len(segs) \in DOMAIN segs
  <2>1. DOMAIN segs' = 1 .. Len(segs')
    BY LenProperties DEF SameSegs
  <2> QED  BY <2>1, SegsAre DEF SameSegs
<1>2. Ordered(segs)' /\ Len(segs') > 0
  BY <1>1 DEF Running, Ordered, Listed, SameSegs, Same
<1>3. ASSUME NEW i \in DOMAIN segs', segs'[i].gen # cur' PROVE Settled(segs[i])'
  <2>1. Settled(segs[i]) /\ segs[i].gen # cur /\ Same(segs'[i], segs[i]) /\ segs[i].gen \in DOMAIN index
    BY <1>1, <1>3, GensListed DEF Running, SameSegs, Same
  <2>2. Closed(segs[i])'
    BY <2>1 DEF Settled, Closed, SameSegs, Same
  <2>3. segs'[i].n1 = segs[i].n1 /\ segs'[i].n2 <= segs'[i].n1 /\ (segs'[i].load => segs[i].load)
    BY <2>1, <1>1 DEF Steady
  <2> QED  BY <2>1, <2>2, <2>3 DEF Settled, Same
<1>4. TabShape'
  BY TabStand DEF SameSegs, Alive
<1>5. /\ saving' = 0 => Open'
      /\ saving' # 0 => cur' = 0 /\ buf' = <<>>
      /\ child' = "start" => banStep' # 0 /\ want' = NoWant /\ saving' = 0
  BY <1>1 DEF Running, SameSegs
<1>6. Running'
  BY <1>2, <1>3, <1>5 DEF Running
<1>7. child' \notin {"down", "panic"}
  BY DEF Alive
<1> QED  BY <1>4, <1>6, <1>7 DEF Shape, Types

\* Nothing happens to the segments.
LEMMA RunningStands ==
  ASSUME Shape, Alive, Alive', UNCHANGED <<siloVars, segVars, saving>>, Types',
         child' = "start" => banStep' # 0 /\ want' = NoWant /\ saving = 0,
         Loads', time' \in bans'
  PROVE  Shape'
<1>1. SameSegs /\ Steady
  <2>1. \A i \in DOMAIN segs : segs[i].n2 <= segs[i].n1 \/ segs[i].gen = cur
    BY SegsAre DEF Running, Settled
  <2> QED  BY <2>1, SegsAre DEF SameSegs, Steady, Same, siloVars, segVars
<1>2. saving = 0 => Open'
  BY SegsAre DEF Running, Open, siloVars, segVars, smp_segend
<1>3. buf' = buf
  BY DEF segVars
<1> QED  BY <1>1, <1>2, <1>3, RunningStep

\* The loader stays where it is, and so does its segment.
LEMMA LoadsStand ==
  ASSUME Shape, Alive, UNCHANGED <<cur, loader>>, DOMAIN segs' = DOMAIN segs,
         \A i \in DOMAIN segs : segs[i].gen # cur /\ segs[i].n1 = 0 =>
           segs'[i].gen = segs[i].gen /\ segs'[i].n1 = 0 /\ (segs'[i].load => segs[i].load)
  PROVE  Loads'
<1>1. Loads
  BY SegsAre DEF Running
<1> SUFFICES ASSUME loader.gen # 0
             PROVE  \E i \in DOMAIN segs' :
                      /\ segs'[i].gen = loader.gen /\ loader.gen # cur /\ segs'[i].n1 = 0
                      /\ loader.i > 0 => ~ segs'[i].load
  BY DEF Loads
<1>2. PICK i \in DOMAIN segs :
        /\ segs[i].gen = loader.gen /\ loader.gen # cur /\ segs[i].n1 = 0
        /\ loader.i > 0 => ~ segs[i].load
  BY <1>1 DEF Loads
<1> QED  BY <1>2

\* BAN_Insert.
LEMMA ShapeBanInsert ==
  ASSUME Shape, BAN_Insert
  PROVE  Shape'
<1>1. Alive /\ Alive' /\ child' = "up"
  BY DEF BAN_Insert, Alive
<1>2. UNCHANGED <<siloVars, segVars, saving, want, loader, cached, child>>
  BY DEF BAN_Insert, allocVars
<1>3. SiloTypes' /\ ChildTypes'
  BY <1>2 DEF BAN_Insert, Shape, SiloTypes, ChildTypes, siloVars, segVars
<1>4. BanTypes' /\ time' \in bans'
  <2>1. time \in Nat /\ time < MaxTime /\ bans \subseteq 1 .. time /\ made \subseteq 1 .. time
    BY Sizes DEF BAN_Insert, Shape, BanTypes
  <2>2. time' = time + 1 /\ bans' = bans \cup {time + 1} /\ banStep' = 1 /\ UNCHANGED <<made, torn, met>>
    BY DEF BAN_Insert, hist
  <2>3. time' \in 0 .. MaxTime /\ 1 .. time \subseteq 1 .. time' /\ time + 1 \in 1 .. time' /\ 1 \in 0 .. 6
    BY <2>1, <2>2, Sizes
  <2>4. \A i \in 1 .. 2 : ban'[i].bans \subseteq 1 .. time'
    BY <2>3 DEF BAN_Insert, Shape, BanTypes
  <2> QED  BY <2>1, <2>2, <2>3, <2>4 DEF Shape, BanTypes
<1>5. Loads'
  BY <1>1, <1>2, LoadsStand DEF segVars
<1> QED  BY <1>1, <1>2, <1>3, <1>4, <1>5, RunningStands DEF Types

\* What a step of SMP_NewBan does to the tables.
LEMMA NewBanIs ==
  ASSUME Shape, child # "lost", SMP_NewBan
  PROVE  \E i \in 1 .. 2 :
           /\ banStep \in {1, 2, 3} => i = 1
           /\ banStep \in {4, 5, 6} => i = 2
           /\ ban' \in [1 .. 2 -> [ok : BOOLEAN, bans : SUBSET (1 .. MaxTime)]]
           /\ \A k \in 1 .. 2 : k # i => ban'[k] = ban[k]
           /\ banStep \in {1, 4} => ~ ban'[i].ok /\ ban'[i].bans = ban[i].bans
           /\ banStep \in {2, 5} => ban'[i].ok = ban[i].ok /\ ban'[i].bans = ban[i].bans \cup {time}
           /\ banStep \in {3, 6} => ban'[i].ok /\ ban'[i].bans = ban[i].bans
<1>1. PICK i : i = IF banStep <= 3 THEN 1 ELSE 2
  OBVIOUS
<1>2. banStep \in 1 .. 6 /\ i \in 1 .. 2
  BY <1>1 DEF Shape, BanTypes, SMP_NewBan
<1>3. ban \in [1 .. 2 -> [ok : BOOLEAN, bans : SUBSET (1 .. MaxTime)]]
      /\ ban[i] \in [ok : BOOLEAN, bans : SUBSET (1 .. MaxTime)]
  BY <1>2 DEF Shape, SiloTypes
<1>4. (banStep \in {1, 2, 3} => i = 1) /\ (banStep \in {4, 5, 6} => i = 2)
  BY <1>1
<1>5. PICK t : t = CASE banStep \in {1, 4} -> [ban[i] EXCEPT !.ok = FALSE]
             [] banStep \in {2, 5} -> [ban[i] EXCEPT !.bans = @ \cup {time}]
             [] banStep \in {3, 6} -> [ban[i] EXCEPT !.ok = TRUE]
  OBVIOUS
<1>6. ban' = [ban EXCEPT ![i] = t]
  BY <1>1, <1>5 DEF SMP_NewBan
<1>7. time \in 1 .. MaxTime
  <2>1. time \in bans \/ banStep = 0
    <3>1. Alive \/ banStep = 0
      BY DEF Shape, ChildTypes, Alive, Gone
    <3> QED  BY <3>1 DEF Shape, Running, SMP_NewBan
  <2> QED  BY <2>1, <1>2, Sizes DEF Shape, BanTypes
<1>8. CASE banStep \in {1, 4}
  <2>1. t = [ban[i] EXCEPT !.ok = FALSE]
    BY <1>5, <1>8
  <2>2. t \in [ok : BOOLEAN, bans : SUBSET (1 .. MaxTime)] /\ ~ t.ok /\ t.bans = ban[i].bans
    BY <2>1, <1>3
  <2> QED  BY <2>2, <1>8, <1>2, <1>3, <1>4, <1>6
<1>9. CASE banStep \in {2, 5}
  <2>1. t = [ban[i] EXCEPT !.bans = @ \cup {time}]
    BY <1>5, <1>9
  <2>2. /\ t \in [ok : BOOLEAN, bans : SUBSET (1 .. MaxTime)] /\ t.ok = ban[i].ok
        /\ t.bans = ban[i].bans \cup {time}
    BY <2>1, <1>3, <1>7
  <2> QED  BY <2>2, <1>9, <1>2, <1>3, <1>4, <1>6
<1>10. CASE banStep \in {3, 6}
  <2>1. t = [ban[i] EXCEPT !.ok = TRUE]
    BY <1>5, <1>10
  <2>2. t \in [ok : BOOLEAN, bans : SUBSET (1 .. MaxTime)] /\ t.ok /\ t.bans = ban[i].bans
    BY <2>1, <1>3
  <2> QED  BY <2>2, <1>10, <1>2, <1>3, <1>4, <1>6
<1> QED  BY <1>2, <1>8, <1>9, <1>10

\* SMP_NewBan: the first ban of a start ends the start.
LEMMA ShapeNewBan ==
  ASSUME Shape, child # "lost", SMP_NewBan
  PROVE  Shape' /\ Alive /\ Alive'
<1>1. banStep # 0 /\ banStep \in 1 .. 6 /\ banStep' = (banStep + 1) % 7
      /\ child' = (IF banStep = 6 THEN "up" ELSE child)
  BY DEF SMP_NewBan, Shape, BanTypes
<1>2. Alive /\ Alive'
  BY <1>1 DEF Shape, ChildTypes, Gone, Alive
<1>3. UNCHANGED <<siloVars, segVars, saving, want, loader, cached, bans, time, torn, met>>
  BY DEF SMP_NewBan, allocVars, hist
<1>4. SiloTypes' /\ ChildTypes'
  <2>1. ban' \in [1 .. 2 -> [ok : BOOLEAN, bans : SUBSET (1 .. MaxTime)]]
    BY NewBanIs
  <2>2. child' \in {"down", "start", "up", "panic", "lost"}
    BY <1>2 DEF Alive
  <2> QED  BY <1>3, <2>1, <2>2 DEF Shape, SiloTypes, ChildTypes, siloVars, segVars
<1>5. BanTypes' /\ time' \in bans'
  <2>1. time \in bans /\ bans \subseteq 1 .. time
    BY <1>2 DEF Shape, Running, BanTypes
  <2>2. made' \subseteq 1 .. time
    BY <2>1 DEF SMP_NewBan, Shape, BanTypes
  <2>3. banStep' \in 0 .. 6
    BY <1>1
  <2>4. \A i \in 1 .. 2 : ban'[i].bans \subseteq 1 .. time
    <3>1. PICK i \in 1 .. 2 :
           /\ \A k \in 1 .. 2 : k # i => ban'[k] = ban[k]
           /\ banStep \in {1, 4} => ban'[i].bans = ban[i].bans
           /\ banStep \in {2, 5} => ban'[i].bans = ban[i].bans \cup {time}
           /\ banStep \in {3, 6} => ban'[i].bans = ban[i].bans
      BY NewBanIs
    <3>2. ban'[i].bans \subseteq 1 .. time
      BY <3>1, <2>1, <1>1 DEF Shape, BanTypes
    <3> QED  BY <3>1, <3>2 DEF Shape, BanTypes
  <2> QED  BY <1>3, <2>1, <2>2, <2>3, <2>4 DEF Shape, BanTypes
<1>6. child' = "start" => banStep' # 0 /\ want' = NoWant /\ saving = 0
  <2>1. child' = "start" => child = "start" /\ banStep # 6
    BY <1>1
  <2>2. banStep # 6 => banStep' # 0
    BY <1>1
  <2> QED  BY <2>1, <2>2, <1>2, <1>3 DEF Shape, Running
<1>7. Loads'
  BY <1>2, <1>3, LoadsStand DEF segVars
<1> QED  BY <1>2, <1>3, <1>4, <1>5, <1>6, <1>7, RunningStands DEF Types

\* smp_alloc takes the mutex.
LEMMA ShapeAlloc ==
  ASSUME Shape, NEW a \in Asked, smp_alloc(a)
  PROVE  Shape'
<1>1. Alive /\ Alive' /\ child' = "up"
  BY DEF smp_alloc, Alive
<1>2. UNCHANGED <<siloVars, segVars, saving, loader, cached, child, banVars, hist>>
  BY DEF smp_alloc
<1>3. want' \in Want
  <2>1. a.size \in Nat /\ a.obj \in BOOLEAN
    BY SizeAssumption
  <2> QED  BY <2>1 DEF smp_alloc, Want
<1>4. Types' /\ time' \in bans'
  BY <1>1, <1>2, <1>3 DEF Shape, Running, Types, SiloTypes, ChildTypes, BanTypes, siloVars, segVars, banVars, hist
<1>5. Loads'
  BY <1>1, <1>2, LoadsStand DEF segVars
<1> QED  BY <1>1, <1>2, <1>4, <1>5, RunningStands

\* The loader goes on to another segment of the list.
LEMMA ShapeLoadNext ==
  ASSUME Shape, LoadNext
  PROVE  Shape'
<1>1. Alive /\ UNCHANGED <<siloVars, child, segVars, saving, want, cached, banVars, hist>> /\ Alive'
  BY DEF LoadNext, Loading, Alive, allocVars
<1>2. PICK at : at = At(segs, loader.gen)
  OBVIOUS
<1>3. PICK more : more = {k \in at + 1 .. Len(segs) : segs[k].load}
  OBVIOUS
<1>4. loader' = IF more = {} THEN NoLoad ELSE [gen |-> segs[Min(more)].gen, i |-> 0]
  BY <1>2, <1>3 DEF LoadNext
<1>5. at \in DOMAIN segs
  <2>1. \E i \in DOMAIN segs : segs[i].gen = loader.gen
    BY <1>1 DEF LoadNext, Loading, Shape, Running, Loads
  <2> QED  BY <2>1, <1>2, <1>1, SegsAre
<1>6. CASE more = {}
  <2>1. loader' = NoLoad /\ loader'.gen = 0 /\ loader' \in [gen : 0 .. MaxGen, i : Nat]
    BY <1>4, <1>6, Sizes DEF NoLoad
  <2>2. Types' /\ time' \in bans'
    BY <1>1, <2>1 DEF Shape, Running, Types, SiloTypes, ChildTypes, BanTypes, siloVars, segVars, banVars, hist
  <2>3. Loads'
    BY <2>1 DEF Loads
  <2>4. child' = "start" => banStep' # 0 /\ want' = NoWant /\ saving = 0
    BY <1>1 DEF Shape, Running, banVars
  <2> QED  BY <1>1, <2>2, <2>3, <2>4, RunningStands
<1>7. CASE more # {}
  <2>1. PICK m : m = Min(more)
    OBVIOUS
  <2>2. m \in DOMAIN segs /\ segs[m].load /\ segs[m] \in SegRec
    <3>1. more \in SUBSET Nat /\ more \subseteq DOMAIN segs
      BY <1>1, <1>3, <1>5, SegsAre
    <3>2. m \in more
      BY <2>1, <1>7, <3>1, MinOf
    <3> QED  BY <3>1, <3>2, <1>1, <1>3, SegsAre
  <2>3. loader' = [gen |-> segs[m].gen, i |-> 0]
    BY <1>4, <1>7, <2>1
  <2>4. loader'.gen = segs[m].gen /\ loader'.i = 0 /\ loader' \in [gen : 0 .. MaxGen, i : Nat]
    <3>1. segs[m].gen \in 0 .. MaxGen
      BY <2>2, SegFields, Sizes
    <3> QED  BY <2>3, <3>1
  <2>5. segs[m].gen # cur /\ segs[m].n1 = 0
    <3>1. segs[m].gen # cur
      <4>1. CASE saving = 0
        BY <4>1, <1>1, <2>2, CurIs DEF Open
      <4>2. CASE saving # 0
        BY <4>2, <1>1, <2>2, SegFields DEF Shape, Running
      <4> QED  BY <4>1, <4>2
    <3> QED  BY <3>1, <2>2, <1>1, SegFields DEF Shape, Running, Settled
  <2>6. Loads'
    BY <1>1, <2>2, <2>4, <2>5 DEF Loads, segVars
  <2>7. Types' /\ time' \in bans'
    BY <1>1, <2>4 DEF Shape, Running, Types, SiloTypes, ChildTypes, BanTypes, siloVars, segVars, banVars, hist
  <2>8. child' = "start" => banStep' # 0 /\ want' = NoWant /\ saving = 0
    BY <1>1 DEF Shape, Running, banVars
  <2> QED  BY <1>1, <2>6, <2>7, <2>8, RunningStands
<1> QED  BY <1>6, <1>7

\* Fields of a segment are set.
LEMMA SegWith ==
  ASSUME NEW sg \in SegRec
  PROVE  /\ \A a, b \in Nat : [sg EXCEPT !.n = a, !.n1 = b] \in SegRec
         /\ \A x \in Int : \A l \in BOOLEAN : [sg EXCEPT !.load = l, !.nobj = x] \in SegRec
         /\ \A x \in Int : \A a \in Nat : [sg EXCEPT !.n2 = a, !.nobj = x] \in SegRec
         /\ \A x \in Int : [sg EXCEPT !.nobj = x] \in SegRec
         /\ \A a, b \in Nat : [sg EXCEPT !.nalloc = a, !.length = b] \in SegRec
<1>1. ASSUME NEW a \in Nat, NEW b \in Nat PROVE [sg EXCEPT !.n = a, !.n1 = b] \in SegRec
  BY DEF SegRec
<1>2. ASSUME NEW x \in Int, NEW l \in BOOLEAN PROVE [sg EXCEPT !.load = l, !.nobj = x] \in SegRec
  BY DEF SegRec
<1>3. ASSUME NEW x \in Int, NEW a \in Nat PROVE [sg EXCEPT !.n2 = a, !.nobj = x] \in SegRec
  BY DEF SegRec
<1>4. ASSUME NEW x \in Int PROVE [sg EXCEPT !.nobj = x] \in SegRec
  BY DEF SegRec
<1>5. ASSUME NEW a \in Nat, NEW b \in Nat PROVE [sg EXCEPT !.nalloc = a, !.length = b] \in SegRec
  BY DEF SegRec
<1> QED  BY <1>1, <1>2, <1>3, <1>4, <1>5

\* smp_alloc takes space behind next_addr, and leaves enough to close the segment.
LEMMA TakesIs ==
  ASSUME Shape, Alive, AllocTakes
  PROVE  \E got \in Nat, r \in SegRec :
           /\ SegStep(Len(segs), r) /\ Same(r, segs[Len(segs)])
           /\ r.n = segs[Len(segs)].n + 1
           /\ r.n1 = (IF want.obj THEN segs[Len(segs)].n1 + 1 ELSE segs[Len(segs)].n1)
           /\ r.n2 = segs[Len(segs)].n2 /\ r.nobj = segs[Len(segs)].nobj /\ r.load = segs[Len(segs)].load
           /\ nextAddr' = nextAddr + got
           /\ nextAddr + got + 2 + r.n1 <= smp_segend(segs[Len(segs)])
           /\ unit' = [a \in DOMAIN unit |-> IF a \in nextAddr .. nextAddr + got - 1 THEN cur ELSE unit[a]]
<1> DEFINE z == Len(segs)
           sg == segs[z]
<1>1. want # NoWant /\ saving = 0 /\ At(segs, cur) = z /\ Seg(cur) = sg /\ z \in DOMAIN segs /\ sg \in SegRec
  BY CurIs, SegsAre DEF AllocTakes
<1>2. /\ sg.n \in Nat /\ sg.n1 \in Nat /\ sg.offset \in Nat /\ sg.length \in Nat
      /\ want.size \in Nat /\ want.obj \in BOOLEAN /\ nextAddr \in Nat /\ smp_segend(sg) \in Nat
  BY <1>1, SegFields DEF Shape, ChildTypes, Want, smp_segend
<1>3. PICK got : got = Size(sg)
  OBVIOUS
<1>4. /\ Overhead(sg) \in Nat /\ Overhead(sg) = 2 + (IF want.obj THEN sg.n1 + 1 ELSE sg.n1)
      /\ smp_spaceleft(sg) = smp_segend(sg) - nextAddr
  BY <1>2 DEF Overhead, smp_spaceleft
<1>5. got \in Nat
  BY <1>2, <1>3, <1>4, Sizes DEF Size
<1>6. Overhead(sg) + got <= smp_spaceleft(sg)
  BY <1>1, <1>3 DEF AllocTakes, Fits
<1>7. PICK r : r = [sg EXCEPT !.n = @ + 1, !.n1 = IF want.obj THEN @ + 1 ELSE @]
  OBVIOUS
<1>8. /\ r \in SegRec /\ Same(r, sg) /\ r.n = sg.n + 1 /\ r.n1 = (IF want.obj THEN sg.n1 + 1 ELSE sg.n1)
      /\ r.n2 = sg.n2 /\ r.nobj = sg.nobj /\ r.load = sg.load
  <2> HIDE DEF sg
  <2>1. /\ Same(r, sg) /\ r.n = sg.n + 1 /\ r.n1 = (IF want.obj THEN sg.n1 + 1 ELSE sg.n1)
        /\ r.n2 = sg.n2 /\ r.nobj = sg.nobj /\ r.load = sg.load
    BY <1>1, <1>7 DEF SegRec, Same
  <2>2. r \in SegRec
    <3>1. PICK a \in Nat : a = sg.n + 1
      BY <1>2
    <3>2. PICK b \in Nat : b = IF want.obj THEN sg.n1 + 1 ELSE sg.n1
      BY <1>2
    <3>3. r = [sg EXCEPT !.n = a, !.n1 = b]
      BY <3>1, <3>2, <1>7
    <3> QED  BY <1>1, <3>3, SegWith
  <2> QED  BY <2>1, <2>2
<1>9. segs' = [segs EXCEPT ![z] = r]
  BY <1>1, <1>7 DEF AllocTakes
<1>10. SegStep(z, r)
  BY <1>1, <1>8, <1>9, SegPut DEF Shape, ChildTypes
<1>11. nextAddr + got + 2 + r.n1 <= smp_segend(sg)
  <2> HIDE DEF sg
  <2>1. r.n1 \in Nat /\ Overhead(sg) = 2 + r.n1
    BY <1>2, <1>4, <1>8
  <2> QED  BY <2>1, <1>2, <1>4, <1>5, <1>6
<1>12. /\ nextAddr' = nextAddr + got
       /\ unit' = [a \in DOMAIN unit |-> IF a \in nextAddr .. nextAddr + got - 1 THEN cur ELSE unit[a]]
  BY <1>1, <1>3 DEF AllocTakes
<1> QED  BY <1>5, <1>8, <1>10, <1>11, <1>12

\* The open segment still has room to be closed.
LEMMA ShapeTakes ==
  ASSUME Shape, Alive, AllocTakes
  PROVE  Shape'
<1>1. PICK got \in Nat, r \in SegRec :
           /\ SegStep(Len(segs), r) /\ Same(r, segs[Len(segs)])
           /\ r.n = segs[Len(segs)].n + 1
           /\ r.n1 = (IF want.obj THEN segs[Len(segs)].n1 + 1 ELSE segs[Len(segs)].n1)
           /\ r.n2 = segs[Len(segs)].n2 /\ r.nobj = segs[Len(segs)].nobj /\ r.load = segs[Len(segs)].load
           /\ nextAddr' = nextAddr + got
           /\ nextAddr + got + 2 + r.n1 <= smp_segend(segs[Len(segs)])
           /\ unit' = [a \in DOMAIN unit |-> IF a \in nextAddr .. nextAddr + got - 1 THEN cur ELSE unit[a]]
  BY TakesIs
<1>2. /\ saving = 0 /\ want # NoWant /\ want' = NoWant
      /\ UNCHANGED <<tab, place, index, child, cur, freeOff, buf, saving, loader, cached, banVars, hist>>
  BY DEF AllocTakes
<1>3. Alive'
  BY <1>2 DEF Alive
<1>4. /\ Open /\ Len(segs) \in DOMAIN segs /\ segs[Len(segs)] \in SegRec
      /\ \A i \in DOMAIN segs : segs[i].gen # cur => i # Len(segs)
  BY <1>2, CurIs, SegsAre
<1>5. SameSegs /\ Steady
  <2>1. \A i \in DOMAIN segs : segs[i].n2 <= segs[i].n1 \/ segs[i].gen = cur
    BY SegsAre DEF Running, Settled
  <2> QED  BY <1>1, <1>2, <1>4, <2>1 DEF SameSegs, Steady, SegStep, Same
<1>6. Types'
  <2>1. unit' \in [SPC .. MediaSize - 1 -> 0 .. MaxGen]
    BY <1>1 DEF Shape, SiloTypes, ChildTypes
  <2>2. NoWant \in Want
    BY DEF NoWant, Want
  <2>3. nextAddr' \in Nat
    BY <1>1 DEF Shape, ChildTypes
  <2> QED  BY <2>1, <2>2, <2>3, <1>1, <1>2
           DEF Shape, Types, SiloTypes, ChildTypes, BanTypes, banVars, hist, SegStep
<1>7. Open'
  <2> DEFINE sg == segs[Len(segs)]
  <2>1. segs'[Len(segs')] = r /\ index'[cur'] = <<>> /\ Len(buf') = r.n2
    BY <1>1, <1>2, <1>4 DEF SegStep, Open
  <2>2. /\ sg.n \in Nat /\ sg.n1 \in Nat /\ sg.n2 \in Nat /\ sg.offset \in Nat /\ nextAddr \in Nat
        /\ r.n \in Nat /\ r.n1 \in Nat
    BY <1>4, SegFields DEF Shape, ChildTypes
  <2>3. smp_segend(r) = smp_segend(sg) /\ r.gen = cur /\ r.length = AimSegl /\ r.nalloc = 0 /\ ~ r.load
        /\ freeOff' = smp_segend(r) /\ r.offset = sg.offset
    BY <1>1, <1>2, <1>4 DEF Open, Same, smp_segend
  <2>4. r.n1 <= r.n /\ r.n2 <= r.n1
    BY <1>1, <1>4, <2>2 DEF Open
  <2>5. r.offset < nextAddr' /\ nextAddr' + 2 + r.n1 <= smp_segend(r)
    BY <1>1, <1>4, <2>2, <2>3 DEF Open
  <2> QED  BY <2>1, <2>3, <2>4, <2>5, <1>2 DEF Open, smp_segend
<1>8. Loads'
  BY <1>1, <1>2, <1>4, LoadsStand DEF SegStep
<1>9. child' = "start" => banStep' # 0 /\ want' = NoWant /\ saving = 0
  BY <1>2 DEF Shape, Running, banVars
<1>10. time' \in bans'
  BY <1>2, SegsAre DEF Running, banVars
<1> QED  BY <1>2, <1>3, <1>5, <1>6, <1>7, <1>8, <1>9, <1>10, RunningStep

-----------------------------------------------------------------------------
\* Where the loader is.
LEMMA LoaderAt ==
  ASSUME Shape, Alive, loader.gen # 0
  PROVE  \E k \in DOMAIN segs :
           /\ segs[k].gen = loader.gen /\ loader.gen # cur /\ segs[k].n1 = 0 /\ segs[k] \in SegRec
           /\ loader.i > 0 => ~ segs[k].load
           /\ At(segs, loader.gen) = k /\ Seg(loader.gen) = segs[k]
           /\ loader.gen \in DOMAIN index /\ Len(index[loader.gen]) = segs[k].nalloc
           /\ Settled(segs[k]) /\ loader.i \in Nat
<1>1. PICK k \in DOMAIN segs :
        /\ segs[k].gen = loader.gen /\ loader.gen # cur /\ segs[k].n1 = 0
        /\ loader.i > 0 => ~ segs[k].load
  BY SegsAre DEF Running, Loads
<1>2. segs[k] \in SegRec /\ At(segs, loader.gen) = k /\ Seg(loader.gen) = segs[k]
  BY <1>1, SegsAre
<1>3. Settled(segs[k]) /\ loader.gen \in DOMAIN index /\ loader.i \in Nat
  BY <1>1, SegsAre, GensListed DEF Running, Shape, ChildTypes
<1> QED  BY <1>1, <1>2, <1>3 DEF Settled, Closed

\* smp_load_seg begins with a segment.
LEMMA BeginsIs ==
  ASSUME Shape, LoadBegins
  PROVE  \E k \in DOMAIN segs, r \in SegRec :
           /\ segs[k].gen = loader.gen /\ SegStep(k, r) /\ Same(r, segs[k])
           /\ r.n = segs[k].n /\ r.n1 = segs[k].n1 /\ r.n2 = segs[k].n2 /\ ~ r.load
           /\ r.nobj = (IF HeadOK(segs[k]) THEN 0 ELSE segs[k].nobj)
           /\ loader'.gen = loader.gen /\ loader'.i = (IF HeadOK(segs[k]) THEN 1 ELSE segs[k].nalloc + 1)
           /\ loader' \in [gen : 0 .. MaxGen, i : Nat]
<1>1. Alive /\ loader.gen # 0 /\ loader.i = 0
  BY DEF LoadBegins, Loading, Alive
<1>2. PICK k \in DOMAIN segs :
           /\ segs[k].gen = loader.gen /\ segs[k] \in SegRec
           /\ At(segs, loader.gen) = k /\ Seg(loader.gen) = segs[k]
  BY <1>1, LoaderAt
<1>3. PICK sg \in SegRec : sg = segs[k]
  BY <1>2
<1>4. PICK h \in BOOLEAN : h = HeadOK(sg)
  BY DEF HeadOK
<1>5. PICK r : r = [sg EXCEPT !.load = FALSE, !.nobj = IF h THEN 0 ELSE @]
  OBVIOUS
<1>6. /\ Same(r, sg) /\ r.n = sg.n /\ r.n1 = sg.n1 /\ r.n2 = sg.n2 /\ ~ r.load
      /\ r.nobj = (IF h THEN 0 ELSE sg.nobj)
  BY <1>5 DEF Same, SegRec
<1>7. r \in SegRec
  <2>1. PICK x \in Int : x = IF h THEN 0 ELSE sg.nobj
    BY SegFields
  <2>2. r = [sg EXCEPT !.load = FALSE, !.nobj = x]
    BY <1>5, <2>1
  <2> QED  BY <2>2, SegWith
<1>8. segs' = [segs EXCEPT ![k] = r]
  BY <1>2, <1>3, <1>4, <1>5 DEF LoadBegins
<1>9. SegStep(k, r)
  BY <1>7, <1>8, SegPut DEF Shape, ChildTypes
<1>10. loader' = [loader EXCEPT !.i = IF h THEN 1 ELSE sg.nalloc + 1]
  BY <1>2, <1>3, <1>4 DEF LoadBegins
<1>11. /\ loader'.gen = loader.gen /\ loader'.i = (IF h THEN 1 ELSE sg.nalloc + 1)
       /\ loader' \in [gen : 0 .. MaxGen, i : Nat]
  <2>1. sg.nalloc \in Nat /\ loader \in [gen : 0 .. MaxGen, i : Nat]
    BY SegFields DEF Shape, ChildTypes
  <2> QED  BY <1>10, <2>1
<1> QED  BY <1>2, <1>3, <1>4, <1>6, <1>7, <1>9, <1>11

\* The loader's segment has been replaced, and smp_thread is in it.
LEMMA ShapeLoads ==
  ASSUME Shape, Alive, Alive', loader.gen # 0,
         NEW k \in DOMAIN segs, NEW r \in SegRec, segs[k].gen = loader.gen, SegStep(k, r), Same(r, segs[k]),
         r.n1 = segs[k].n1, r.n2 = segs[k].n2, ~ r.load,
         loader'.gen = loader.gen, loader' \in [gen : 0 .. MaxGen, i : Nat],
         cached' \subseteq (1 .. MaxGen) \X (Nat \ {0}), IsFiniteSet(cached'),
         UNCHANGED <<siloVars, child, cur, freeOff, nextAddr, buf, allocVars, banVars, hist>>
  PROVE  Shape'
<1>1. segs[k].gen # cur /\ segs[k].n1 = 0
  BY LoaderAt, SegsAre
<1>2. SameSegs /\ Steady
  <2>1. \A i \in DOMAIN segs : segs[i].n2 <= segs[i].n1 \/ segs[i].gen = cur
    BY SegsAre DEF Running, Settled
  <2> QED  BY <2>1, SegsAre DEF SameSegs, Steady, SegStep, Same, siloVars, allocVars
<1>3. Types'
  BY DEF Shape, Types, SiloTypes, ChildTypes, BanTypes, SegStep, siloVars, allocVars, banVars, hist
<1>4. saving = 0 => Open'
  <2> HAVE saving = 0
  <2>1. Open /\ k # Len(segs) /\ Len(segs) \in DOMAIN segs
    BY <1>1, CurIs, SegsAre
  <2>2. segs'[Len(segs')] = segs[Len(segs)]
    BY <2>1 DEF SegStep
  <2> QED  BY <2>1, <2>2 DEF Open, siloVars, smp_segend
<1>5. Loads'
  BY <1>1 DEF Loads, SegStep, Same
<1>6. /\ child' = "start" => banStep' # 0 /\ want' = NoWant /\ saving = 0
      /\ time' \in bans'
  BY SegsAre DEF Running, banVars, allocVars
<1> QED  BY <1>2, <1>3, <1>4, <1>5, <1>6, RunningStep

\* smp_load_seg begins.
LEMMA ShapeLoadBegins ==
  ASSUME Shape, LoadBegins
  PROVE  Shape'
<1>1. /\ Alive /\ loader.gen # 0
      /\ UNCHANGED <<siloVars, child, cur, freeOff, nextAddr, buf, allocVars, cached, banVars, hist>>
  BY DEF LoadBegins, Loading, Alive
<1>2. Alive' /\ cached' \subseteq (1 .. MaxGen) \X (Nat \ {0}) /\ IsFiniteSet(cached')
  BY <1>1 DEF Alive, Shape, ChildTypes
<1> QED  BY <1>1, <1>2, BeginsIs, ShapeLoads

\* An object goes into the hash, or is left out.
LEMMA ObjectIs ==
  ASSUME Shape, LoadObject, Alive'
  PROVE  \E k \in DOMAIN segs, r \in SegRec, d \in Desc :
           /\ segs[k].gen = loader.gen /\ SegStep(k, r) /\ Same(r, segs[k])
           /\ r.n = segs[k].n /\ r.n1 = segs[k].n1 /\ r.n2 = segs[k].n2 /\ r.load = segs[k].load
           /\ r.nobj = (IF d.live THEN segs[k].nobj + 1 ELSE segs[k].nobj)
           /\ loader'.gen = loader.gen /\ loader'.i = loader.i + 1
           /\ loader' \in [gen : 0 .. MaxGen, i : Nat]
           /\ loader.i \in 1 .. segs[k].nalloc /\ ~ r.load
           /\ loader.i \in DOMAIN index[loader.gen] /\ d = index[loader.gen][loader.i]
           /\ Intact(segs[k]) /\ (d.live => d.ban \in bans)
           /\ cached' = (IF d.live THEN cached \cup {<<loader.gen, loader.i>>} ELSE cached)
           /\ UNCHANGED <<siloVars, child, cur, freeOff, nextAddr, buf, allocVars, banVars, hist>>
<1>1. Alive /\ loader.gen # 0 /\ loader.i \in 1 .. Seg(loader.gen).nalloc
  BY DEF LoadObject, Loading, Alive
<1>2. PICK k \in DOMAIN segs :
           /\ segs[k].gen = loader.gen /\ segs[k] \in SegRec
           /\ At(segs, loader.gen) = k /\ Seg(loader.gen) = segs[k] /\ (loader.i > 0 => ~ segs[k].load)
           /\ loader.gen \in DOMAIN index /\ Len(index[loader.gen]) = segs[k].nalloc
  BY <1>1, LoaderAt
<1>3. PICK sg \in SegRec : sg = segs[k]
  BY <1>2
<1>4. index[loader.gen] \in Seq(Desc) /\ loader.i \in DOMAIN index[loader.gen]
  <2>1. index[loader.gen] \in Seq(Desc)
    BY <1>2, GensListed, ElementOfSeq DEF Shape, SiloTypes
  <2> QED  BY <2>1, <1>1, <1>2, LenProperties
<1>5. PICK d \in Desc : d = index[loader.gen][loader.i]
  BY <1>4, ElementOfSeq, LenProperties
<1>6. child' \notin {"down", "lost"}
  BY DEF Alive
<1>7. /\ Intact(sg) /\ ~ (d.live /\ d.ban \notin bans)
      /\ loader' = [loader EXCEPT !.i = @ + 1]
      /\ cached' = (IF d.live THEN cached \cup {<<loader.gen, loader.i>>} ELSE cached)
      /\ segs' = [segs EXCEPT ![k].nobj = IF d.live THEN @ + 1 ELSE @]
      /\ UNCHANGED <<child, cur, freeOff, nextAddr, buf, allocVars, bans, banStep>>
      /\ UNCHANGED <<siloVars, ban, time, made, hist>>
  BY <1>2, <1>3, <1>5, <1>6 DEF LoadObject, Die, Lost
<1>8. PICK x \in Int : x = IF d.live THEN sg.nobj + 1 ELSE sg.nobj
  BY SegFields
<1>9. PICK r \in SegRec : r = [sg EXCEPT !.nobj = x]
  BY SegWith
<1>10. /\ Same(r, sg) /\ r.n = sg.n /\ r.n1 = sg.n1 /\ r.n2 = sg.n2 /\ r.load = sg.load
       /\ r.nobj = x
  BY <1>9 DEF Same, SegRec
<1>11. segs' = [segs EXCEPT ![k] = r]
  BY <1>3, <1>7, <1>8, <1>9
<1>12. SegStep(k, r)
  BY <1>11, SegPut DEF Shape, ChildTypes
<1>13. /\ loader'.gen = loader.gen /\ loader'.i = loader.i + 1 /\ loader.i > 0
       /\ loader' \in [gen : 0 .. MaxGen, i : Nat]
  <2>1. loader \in [gen : 0 .. MaxGen, i : Nat]
    BY DEF Shape, ChildTypes
  <2>2. loader.i > 0
    BY <1>1, <1>2, SegFields
  <2> QED  BY <2>1, <2>2, <1>7
<1>14. UNCHANGED <<siloVars, child, cur, freeOff, nextAddr, buf, allocVars, banVars, hist>>
  BY <1>7 DEF banVars
<1> QED  BY <1>1, <1>2, <1>3, <1>4, <1>5, <1>7, <1>8, <1>10, <1>12, <1>13, <1>14

\* A child that used freed memory: only the types are kept.
LEMMA ShapeLost ==
  ASSUME Shape, Lost, SiloTypes', UNCHANGED <<ban, time, made, hist>>
  PROVE  Shape' /\ ~ Alive'
<1>1. ChildTypes' /\ BanTypes' /\ child' = "lost"
  BY DEF Shape, ChildTypes, BanTypes, Lost, segVars, allocVars, hist
<1> QED  BY <1>1 DEF Shape, Alive

\* One object is loaded, or the child ends.
LEMMA ShapeLoadObject ==
  ASSUME Shape, LoadObject
  PROVE  Shape'
<1>0. Alive /\ loader.gen # 0
  BY DEF LoadObject, Loading, Alive
<1>1. CASE Alive'
  <2>1. PICK k \in DOMAIN segs, r \in SegRec, d \in Desc :
           /\ segs[k].gen = loader.gen /\ SegStep(k, r) /\ Same(r, segs[k])
           /\ r.n1 = segs[k].n1 /\ r.n2 = segs[k].n2
           /\ loader'.gen = loader.gen
           /\ loader' \in [gen : 0 .. MaxGen, i : Nat]
           /\ ~ r.load /\ loader.i \in DOMAIN index[loader.gen]
           /\ cached' = (IF d.live THEN cached \cup {<<loader.gen, loader.i>>} ELSE cached)
           /\ UNCHANGED <<siloVars, child, cur, freeOff, nextAddr, buf, allocVars, banVars, hist>>
    BY <1>1, ObjectIs
  <2>2. cached' \subseteq (1 .. MaxGen) \X (Nat \ {0}) /\ IsFiniteSet(cached')
    <3>1. <<loader.gen, loader.i>> \in (1 .. MaxGen) \X (Nat \ {0})
      <4>1. index[loader.gen] \in Seq(Desc)
        BY <1>0, LoaderAt, GensListed, ElementOfSeq DEF Shape, SiloTypes
      <4>2. loader.i \in Nat \ {0}
        BY <2>1, <4>1, LenProperties
      <4> QED  BY <1>0, <4>2, Sizes DEF Shape, ChildTypes
    <3>2. IsFiniteSet(cached \cup {<<loader.gen, loader.i>>})
      BY FS_AddElement DEF Shape, ChildTypes
    <3> QED  BY <2>1, <3>1, <3>2 DEF Shape, ChildTypes
  <2> QED  BY <1>0, <1>1, <2>1, <2>2, ShapeLoads
<1>2. CASE ~ Alive'
  <2>1. child' \in {"down", "lost"}
    BY <1>0, <1>2 DEF LoadObject, Die, Lost, Alive
  <2>2. CASE child' = "lost"
    <3>1. Lost /\ UNCHANGED <<siloVars, ban, time, made, hist>>
      BY <2>2, <1>0 DEF LoadObject, Die, Alive
    <3>2. SiloTypes'
      BY <3>1 DEF Shape, SiloTypes, siloVars
    <3> QED  BY <3>1, <3>2, ShapeLost
  <2>3. CASE child' = "down"
    <3>1. Die /\ UNCHANGED <<siloVars, ban, time, made, hist>>
      BY <2>3, <1>0 DEF LoadObject, Lost, Alive
    <3> QED  BY <3>1, <1>0, ShapeDie
  <2> QED  BY <2>1, <2>2, <2>3
<1> QED  BY <1>1, <1>2

-----------------------------------------------------------------------------
\* The segments as a table has them.
LEMMA SegptrsAre ==
  ASSUME Shape, Alive
  PROVE  /\ Segptrs \in Seq(Ptr) /\ Len(Segptrs) = Len(segs) /\ DOMAIN Segptrs = DOMAIN segs
         /\ \A i \in DOMAIN segs : Segptrs[i] = Segptr(segs[i]) /\ Segptrs[i] \in Ptr /\ Same(Segptrs[i], segs[i])
<1>1. DOMAIN segs = 1 .. Len(segs) /\ Len(segs) \in Nat /\ \A i \in DOMAIN segs : segs[i] \in SegRec
  BY SegsAre
<1>2. \A i \in DOMAIN segs : Segptr(segs[i]) \in Ptr /\ Same(Segptr(segs[i]), segs[i])
  BY <1>1, SegFields DEF Segptr, Ptr, Same
<1>3. DOMAIN Segptrs = DOMAIN segs /\ \A i \in DOMAIN segs : Segptrs[i] = Segptr(segs[i])
  BY DEF Segptrs
<1>4. Segptrs \in Seq(Ptr)
  BY <1>1, <1>2, IsASeq DEF Segptrs
<1>5. Len(Segptrs) = Len(segs)
  BY <1>1, <1>3, <1>4, LenProperties
<1> QED  BY <1>2, <1>3, <1>4, <1>5

\* What a step of smp_save_segs writes.
LEMMA SaveIs ==
  ASSUME Shape, Alive, smp_save_seg
  PROVE  \E i \in 1 .. 2 :
           /\ saving \in 1 .. 4 => i = 1
           /\ saving \in 5 .. 8 => i = 2
           /\ tab' \in [1 .. 2 -> [ok : BOOLEAN, list : Seq(Ptr)]]
           /\ \A k \in 1 .. 2 : k # i => tab'[k] = tab[k]
           /\ saving \in {1, 3, 5, 7} => tab'[i] = [ok |-> FALSE, list |-> <<>>]
           /\ saving \in {2, 6} => tab'[i] = [ok |-> TRUE, list |-> <<>>]
           /\ saving \in {4, 8} => tab'[i] = [ok |-> TRUE, list |-> Segptrs]
           /\ tab'[i].list \in {<<>>, Segptrs}
<1>1. PICK i : i = IF saving <= 4 THEN 1 ELSE 2
  OBVIOUS
<1>2. saving \in 1 .. 8 /\ i \in 1 .. 2
  BY <1>1 DEF smp_save_seg
<1>3. tab \in [1 .. 2 -> [ok : BOOLEAN, list : Seq(Ptr)]]
  BY DEF Shape, SiloTypes
<1>4. (saving \in 1 .. 4 => i = 1) /\ (saving \in 5 .. 8 => i = 2)
  BY <1>1, <1>2
<1>5. PICK t : t = CASE saving \in {1, 3, 5, 7} -> [ok |-> FALSE, list |-> <<>>]
             [] saving \in {2, 6} -> [ok |-> TRUE, list |-> <<>>]
             [] saving \in {4, 8} -> [ok |-> TRUE, list |-> Segptrs]
  OBVIOUS
<1>6. tab' = [tab EXCEPT ![i] = t]
  BY <1>1, <1>5 DEF smp_save_seg
<1>7. <<>> \in Seq(Ptr) /\ Segptrs \in Seq(Ptr)
  BY SegptrsAre, EmptySeq
<1>8. CASE saving \in {1, 3, 5, 7}
  <2>1. t = [ok |-> FALSE, list |-> <<>>]
    BY <1>5, <1>8
  <2>2. t \in [ok : BOOLEAN, list : Seq(Ptr)] /\ t.list = <<>>
    BY <2>1, <1>7
  <2>3. tab' \in [1 .. 2 -> [ok : BOOLEAN, list : Seq(Ptr)]] /\ tab'[i] = t /\ \A k \in 1 .. 2 : k # i => tab'[k] = tab[k]
    BY <2>2, <1>2, <1>3, <1>6
  <2> QED  BY <2>1, <2>2, <2>3, <1>8, <1>2, <1>4
<1>9. CASE saving \in {2, 6}
  <2>1. t = [ok |-> TRUE, list |-> <<>>]
    BY <1>5, <1>9
  <2>2. t \in [ok : BOOLEAN, list : Seq(Ptr)] /\ t.list = <<>>
    BY <2>1, <1>7
  <2>3. tab' \in [1 .. 2 -> [ok : BOOLEAN, list : Seq(Ptr)]] /\ tab'[i] = t /\ \A k \in 1 .. 2 : k # i => tab'[k] = tab[k]
    BY <2>2, <1>2, <1>3, <1>6
  <2> QED  BY <2>1, <2>2, <2>3, <1>9, <1>2, <1>4
<1>10. CASE saving \in {4, 8}
  <2>1. t = [ok |-> TRUE, list |-> Segptrs]
    BY <1>5, <1>10
  <2>2. t \in [ok : BOOLEAN, list : Seq(Ptr)] /\ t.list = Segptrs
    BY <2>1, <1>7
  <2>3. tab' \in [1 .. 2 -> [ok : BOOLEAN, list : Seq(Ptr)]] /\ tab'[i] = t /\ \A k \in 1 .. 2 : k # i => tab'[k] = tab[k]
    BY <2>2, <1>2, <1>3, <1>6
  <2> QED  BY <2>1, <2>2, <2>3, <1>10, <1>2, <1>4
<1> QED  BY <1>2, <1>8, <1>9, <1>10

\* A table is cleared, or has the list of segments.
LEMMA ShapeSave ==
  ASSUME Shape, child # "lost", smp_save_seg
  PROVE  Shape' /\ Alive /\ Alive'
<1>1. /\ saving \in 1 .. 8 /\ saving' = saving + 1
      /\ UNCHANGED <<unit, place, index, child, segVars, want, loader, cached, banVars, hist>>
  BY DEF smp_save_seg
<1>2. Alive /\ Alive'
  BY <1>1 DEF Shape, ChildTypes, Gone, Alive
<1>3. PICK i \in 1 .. 2 :
        /\ tab' \in [1 .. 2 -> [ok : BOOLEAN, list : Seq(Ptr)]]
        /\ \A k \in 1 .. 2 : k # i => tab'[k] = tab[k]
        /\ tab'[i].list \in {<<>>, Segptrs}
  BY <1>2, SaveIs
<1>4. Types'
  <2>1. saving' \in 0 .. 9
    BY <1>1
  <2> QED  BY <1>1, <1>3, <2>1 DEF Shape, Types, SiloTypes, ChildTypes, BanTypes, segVars, banVars, hist
<1>5. Running /\ cur = 0 /\ UNCHANGED <<segs, cur, buf>>
  BY <1>1, <1>2, SegsAre DEF Running, segVars
<1>6. Running'
  <2>1. Ordered(segs)' /\ \A k \in DOMAIN segs' : segs'[k].gen # cur' => Settled(segs[k])'
    BY <1>1, <1>5 DEF Running, Ordered, Listed, Settled, Closed
  <2>2. Loads'
    BY <1>1, <1>2, <1>5, LoadsStand
  <2>3. saving' # 0 /\ child # "start" /\ child' = child
    BY <1>1, <1>5 DEF Running
  <2>4. time' \in bans'
    BY <1>1, <1>5 DEF Running, banVars
  <2>5. cur' = 0 /\ buf' = <<>> /\ Len(segs') > 0 /\ child' # "start"
    BY <1>1, <1>5, <2>3 DEF Running
  <2> QED  BY <2>1, <2>2, <2>3, <2>4, <2>5 DEF Running
<1>7. TabShape'
  <2> SUFFICES ASSUME NEW t \in 1 .. 2
               PROVE  Ordered(tab[t].list)' /\ \A k \in DOMAIN tab'[t].list : Closed(tab[t].list[k])'
    BY DEF TabShape
  <2>1. TabShape
    BY <1>2 DEF Shape, Alive
  <2>2. CASE t # i
    BY <2>1, <2>2, <1>1, <1>3, <1>5, SMTT(30) DEF TabShape, Ordered, Listed, Closed
  <2>3. CASE t = i /\ tab'[i].list = <<>>
    BY <2>3 DEF Ordered
  <2>4. CASE t = i /\ tab'[i].list = Segptrs
    <3>1. \A k \in DOMAIN segs : Closed(segs[k])
      BY <1>2, <1>5, GensListed DEF Running, Settled
    <3>2. \A k \in DOMAIN segs : Same(Segptrs[k], segs[k]) /\ DOMAIN Segptrs = DOMAIN segs
      BY <1>2, SegptrsAre
    <3>3. Ordered(tab[t].list)'
      <4>1. Ordered(segs) /\ DOMAIN Segptrs = DOMAIN segs
        BY <1>2, <1>5, SegptrsAre DEF Running
      <4>2. \A k \in DOMAIN segs : Listed(Segptrs[k])'
        BY <4>1, <3>2, <1>1, <1>5 DEF Ordered, Listed, Same, Segptrs, Segptr
      <4>3. \A k, l \in DOMAIN segs : k < l => Segptrs[k].gen < Segptrs[l].gen
        BY <4>1, <3>2 DEF Ordered, Same
      <4>4. Segptrs' = Segptrs
        BY <1>5 DEF Segptrs
      <4> QED  BY <4>1, <4>2, <4>3, <4>4, <2>4 DEF Ordered
    <3>4. \A k \in DOMAIN tab'[t].list : Closed(tab[t].list[k])'
      BY <2>4, <3>1, <3>2, <1>1, <1>5, SegptrsAre, <1>2 DEF Closed, Same
    <3> QED  BY <3>3, <3>4
  <2> QED  BY <2>2, <2>3, <2>4, <1>3
<1> QED  BY <1>2, <1>4, <1>6, <1>7 DEF Shape, Types, Alive

-----------------------------------------------------------------------------
\* An object of the hash has a descriptor.
LEMMA ObjAt ==
  ASSUME Shape, Alive, Objects, NEW o \in cached
  PROVE  \E k \in DOMAIN segs :
           /\ segs[k].gen = o[1] /\ At(segs, o[1]) = k /\ segs[k] \in SegRec
           /\ o = <<o[1], o[2]>> /\ o[1] \in 1 .. MaxGen /\ o[2] \in Nat \ {0}
           /\ o[1] \in DOMAIN index /\ Objs(o[1]) \in Seq(Desc) /\ o[2] \in DOMAIN Objs(o[1])
           /\ Objs(o[1])[o[2]] \in Desc
<1>1. PICK k \in DOMAIN segs : segs[k].gen = o[1]
  BY DEF Objects, Gens
<1>2. At(segs, o[1]) = k /\ segs[k] \in SegRec /\ o[1] \in DOMAIN index
  BY <1>1, SegsAre, GensListed
<1>3. o = <<o[1], o[2]>> /\ o[1] \in 1 .. MaxGen /\ o[2] \in Nat \ {0}
  BY DEF Shape, ChildTypes
<1>4. index[o[1]] \in Seq(Desc) /\ Objs(o[1]) \in Seq(Desc)
  BY <1>2, GensListed, ElementOfSeq DEF Shape, SiloTypes, ChildTypes, Objs
<1>5. o[2] <= Len(Objs(o[1]))
  <2>1. o \in Mine(segs[k].gen) /\ Counted(segs[k])
    BY <1>1 DEF Objects, Mine
  <2>2. CASE o[1] = cur
    <3>1. saving = 0
      BY <1>2, <2>2, GensListed, SegsAre DEF Running
    <3>2. k = Len(segs) /\ Len(buf) = segs[k].n2
      BY <1>1, <2>2, <3>1, CurIs, SegsAre DEF Open
    <3> QED  BY <2>1, <2>2, <3>2, <1>1 DEF Counted, Bounded, Objs
  <2>3. CASE o[1] # cur
    <3>1. Len(index[o[1]]) = segs[k].nalloc
      BY <1>1, <2>3, SegsAre DEF Running, Settled, Closed
    <3> QED  BY <2>1, <2>3, <3>1, <1>1 DEF Counted, Bounded, Objs
  <2> QED  BY <2>2, <2>3
<1>6. o[2] \in DOMAIN Objs(o[1])
  BY <1>3, <1>4, <1>5, LenProperties
<1> QED  BY <1>1, <1>2, <1>3, <1>4, <1>6, ElementOfSeq, LenProperties

\* One descriptor is written, in the buffer or in the silo.
Patched(g, i, d) ==
  /\ index' \in Seq(Seq(Desc)) /\ Len(index') = Len(index) /\ DOMAIN index' = DOMAIN index
  /\ buf' \in Seq(Desc) /\ Len(buf') = Len(buf) /\ DOMAIN buf' = DOMAIN buf
  /\ \A h \in DOMAIN index : Len(index'[h]) = Len(index[h]) /\ DOMAIN index'[h] = DOMAIN index[h]
  /\ \A h \in DOMAIN index : h # g \/ g = cur => index'[h] = index[h]
  /\ g # cur => \A j \in DOMAIN index[g] : index'[g][j] = IF j = i THEN d ELSE index[g][j]
  /\ g # cur => buf' = buf
  /\ g = cur => \A j \in DOMAIN buf : buf'[j] = IF j = i THEN d ELSE buf[j]

\* A descriptor in the silo is replaced.
LEMMA IndexPut ==
  ASSUME Shape, NEW g \in DOMAIN index, g # cur, NEW d \in Desc, NEW i \in DOMAIN index[g],
         index' = [index EXCEPT ![g][i] = d], buf' = buf
  PROVE  Patched(g, i, d)
<1>1. DOMAIN index = 1 .. Len(index) /\ index \in Seq(Seq(Desc)) /\ index[g] \in Seq(Desc) /\ buf \in Seq(Desc)
  BY GensListed, ElementOfSeq DEF Shape, SiloTypes, ChildTypes
<1>2. PICK e : e = [index[g] EXCEPT ![i] = d]
  OBVIOUS
<1>3. /\ e \in Seq(Desc) /\ Len(e) = Len(index[g])
      /\ \A j \in 1 .. Len(index[g]) : e[j] = IF j = i THEN d ELSE index[g][j]
      /\ DOMAIN index[g] = 1 .. Len(index[g])
  BY <1>1, <1>2, ExceptSeq, LenProperties
<1>4. DOMAIN e = DOMAIN index[g]
  BY <1>3, LenProperties
<1>5. index' = [index EXCEPT ![g] = e]
  BY <1>2
<1>6. /\ [index EXCEPT ![g] = e] \in Seq(Seq(Desc)) /\ Len([index EXCEPT ![g] = e]) = Len(index)
      /\ \A j \in 1 .. Len(index) : [index EXCEPT ![g] = e][j] = IF j = g THEN e ELSE index[j]
  BY <1>1, <1>3, ExceptSeq
<1>7. /\ index' \in Seq(Seq(Desc)) /\ Len(index') = Len(index)
      /\ \A j \in DOMAIN index : index'[j] = IF j = g THEN e ELSE index[j]
  BY <1>1, <1>5, <1>6
<1>8. DOMAIN index' = DOMAIN index
  BY <1>1, <1>7, LenProperties
<1> QED  BY <1>1, <1>3, <1>4, <1>7, <1>8 DEF Patched

\* A descriptor is replaced, in memory or in the silo.
LEMMA PutIs ==
  ASSUME Shape, NEW g \in DOMAIN index, NEW d \in Desc, NEW i \in DOMAIN Objs(g), Put(g, i, d)
  PROVE  Patched(g, i, d)
<1>1. CASE g = cur
  <2>1. buf \in Seq(Desc) /\ i \in 1 .. Len(buf) /\ DOMAIN buf = 1 .. Len(buf)
    BY <1>1, LenProperties DEF Shape, ChildTypes, Objs
  <2>2. buf' = [buf EXCEPT ![i] = d] /\ index' = index
    BY <1>1 DEF Put
  <2>3. /\ buf' \in Seq(Desc) /\ Len(buf') = Len(buf)
        /\ \A j \in 1 .. Len(buf) : buf'[j] = IF j = i THEN d ELSE buf[j]
    BY <2>1, <2>2, ExceptSeq
  <2>4. DOMAIN buf' = DOMAIN buf
    BY <2>1, <2>3, LenProperties
  <2> QED  BY <1>1, <2>1, <2>2, <2>3, <2>4 DEF Patched, Shape, SiloTypes
<1>2. CASE g # cur
  <2>1. index' = [index EXCEPT ![g][i] = d] /\ buf' = buf /\ i \in DOMAIN index[g]
    BY <1>2 DEF Put, Objs
  <2> QED  BY <1>2, <2>1, IndexPut
<1> QED  BY <1>1, <1>2

\* A descriptor is written and perhaps the counter of its segment.
LEMMA ShapePatch ==
  ASSUME Shape, Alive, NEW g \in DOMAIN index, NEW i, NEW d \in Desc, Patched(g, i, d),
         segs' \in Seq(SegRec), Len(segs') = Len(segs),
         \A k \in DOMAIN segs :
           /\ Same(segs'[k], segs[k]) /\ segs'[k].n = segs[k].n /\ segs'[k].n1 = segs[k].n1
           /\ segs'[k].n2 = segs[k].n2 /\ segs'[k].load = segs[k].load,
         cached' \subseteq (1 .. MaxGen) \X (Nat \ {0}), IsFiniteSet(cached'),
         UNCHANGED <<tab, unit, place, child, cur, freeOff, nextAddr, allocVars, loader, banVars, hist>>,
         saving # 0 => g # cur
  PROVE  Shape'
<1>0. Alive' /\ Len(segs) \in DOMAIN segs
  BY SegsAre DEF Alive
<1>1. SameSegs /\ Steady
  <2>1. \A k \in DOMAIN segs : segs[k].n2 <= segs[k].n1 \/ segs[k].gen = cur
    BY SegsAre DEF Running, Settled
  <2> QED  BY <2>1 DEF SameSegs, Steady, Patched, allocVars
<1>2. Types'
  BY DEF Shape, Types, SiloTypes, ChildTypes, BanTypes, Patched, allocVars, banVars, hist
<1>3. saving = 0 => Open'
  <2> HAVE saving = 0
  <2>1. Open /\ cur \in DOMAIN index
    BY CurIs, GensListed
  <2>2. index'[cur] = index[cur] /\ Len(buf') = Len(buf)
    BY <2>1 DEF Patched
  <2>3. /\ Same(segs'[Len(segs)], segs[Len(segs)]) /\ segs'[Len(segs)].n = segs[Len(segs)].n
        /\ segs'[Len(segs)].n1 = segs[Len(segs)].n1
        /\ segs'[Len(segs)].n2 = segs[Len(segs)].n2 /\ segs'[Len(segs)].load = segs[Len(segs)].load
    BY <1>0
  <2>4. smp_segend(segs'[Len(segs)]) = smp_segend(segs[Len(segs)])
    BY <2>3 DEF smp_segend, Same
  <2> QED  BY <2>1, <2>2, <2>3, <2>4 DEF Open, Same
<1>4. saving # 0 => buf' = buf
  BY DEF Patched
<1>5. Loads'
  <2>1. DOMAIN segs' = DOMAIN segs
    BY SegsAre, LenProperties
  <2> QED  BY <2>1, LoadsStand DEF Same
<1>6. /\ child' = "start" => banStep' # 0 /\ want' = NoWant /\ saving = 0
      /\ time' \in bans'
  BY SegsAre DEF Running, banVars, allocVars
<1> QED  BY <1>0, <1>1, <1>2, <1>3, <1>4, <1>5, <1>6, RunningStep

\* Descriptors with a field replaced.
LEMMA DescWith ==
  ASSUME NEW d \in Desc
  PROVE  /\ [d EXCEPT !.live = FALSE] \in Desc /\ [d EXCEPT !.live = FALSE].live = FALSE
         /\ [d EXCEPT !.live = FALSE].ban = d.ban
         /\ \A b \in 0 .. MaxTime : /\ [d EXCEPT !.ban = b] \in Desc /\ [d EXCEPT !.ban = b].ban = b
                                    /\ [d EXCEPT !.ban = b].live = d.live
BY DEF Desc

\* SMP_TTLchanged, SMP_BANchanged: a descriptor and nothing else.
LEMMA ChangedIs ==
  ASSUME Shape, Alive, Objects, NEW o \in cached, SMP_TTLchanged(o) \/ SMP_BANchanged(o)
  PROVE  \E d \in Desc :
           /\ Patched(o[1], o[2], d) /\ (d.live => Objs(o[1])[o[2]].live)
           /\ d.live => banStep = 0 /\ d.ban \in bans
           /\ UNCHANGED <<tab, unit, place, child, segs, cur, freeOff, nextAddr, allocVars, loader,
                          cached, banVars, hist>>
<1>1. /\ o[1] \in DOMAIN index /\ o[2] \in DOMAIN Objs(o[1]) /\ Objs(o[1])[o[2]] \in Desc
  BY ObjAt
<1>2. CASE SMP_TTLchanged(o)
  <2>1. PICK d \in Desc : d = [Objs(o[1])[o[2]] EXCEPT !.live = FALSE] /\ ~ d.live
    BY <1>1, DescWith
  <2>2. Patched(o[1], o[2], d)
    BY <2>1, <1>1, <1>2, PutIs DEF SMP_TTLchanged
  <2> QED  BY <2>1, <2>2, <1>2 DEF SMP_TTLchanged
<1>3. CASE SMP_BANchanged(o)
  <2>1. PICK b \in bans : Put(o[1], o[2], [Objs(o[1])[o[2]] EXCEPT !.ban = b])
    BY <1>3 DEF SMP_BANchanged
  <2>2. b \in 0 .. MaxTime
    BY Sizes DEF Shape, BanTypes
  <2>3. PICK d \in Desc : d = [Objs(o[1])[o[2]] EXCEPT !.ban = b] /\ d.ban = b /\ d.live = Objs(o[1])[o[2]].live
    <3>1. PICK e \in Desc : e = Objs(o[1])[o[2]]
      BY <1>1
    <3>2. [e EXCEPT !.ban = b] \in Desc /\ [e EXCEPT !.ban = b].ban = b /\ [e EXCEPT !.ban = b].live = e.live
      BY <2>2, DescWith
    <3> QED  BY <3>1, <3>2
  <2>4. Patched(o[1], o[2], d)
    BY <2>1, <2>3, <1>1, PutIs
  <2> QED  BY <2>3, <2>4, <1>3 DEF SMP_BANchanged
<1> QED  BY <1>2, <1>3

\* SMP_TTLchanged and SMP_BANchanged.
LEMMA ShapeChanged ==
  ASSUME Shape, Objects, NEW o \in cached, SMP_TTLchanged(o) \/ SMP_BANchanged(o)
  PROVE  Shape'
<1>1. Alive
  BY DEF SMP_TTLchanged, SMP_BANchanged, Alive
<1>2. PICK d \in Desc :
           /\ Patched(o[1], o[2], d)
           /\ UNCHANGED <<tab, unit, place, child, segs, cur, freeOff, nextAddr, allocVars, loader,
                          cached, banVars, hist>>
  BY <1>1, ChangedIs
<1>3. o[1] \in DOMAIN index
  BY <1>1, ObjAt
<1>4. \A k \in DOMAIN segs : Same(segs[k], segs[k])
  BY DEF Same
<1>5. saving # 0 => o[1] # cur
  BY <1>1, <1>3, GensListed, SegsAre DEF Running
<1> QED  BY <1>1, <1>2, <1>3, <1>4, <1>5, ShapePatch DEF Shape, ChildTypes

\* SMP_FreeObj: the descriptor, the counter and the hash.
LEMMA FreeIs ==
  ASSUME Shape, Alive, Objects, NEW o \in cached, SMP_FreeObj(o)
  PROVE  \E k \in DOMAIN segs, r \in SegRec, d \in Desc :
           /\ segs[k].gen = o[1] /\ SegStep(k, r) /\ Same(r, segs[k])
           /\ r.n = segs[k].n /\ r.n1 = segs[k].n1 /\ r.n2 = segs[k].n2 /\ r.load = segs[k].load
           /\ r.nobj = segs[k].nobj - 1
           /\ Patched(o[1], o[2], d) /\ ~ d.live
<1>1. PICK k \in DOMAIN segs :
           /\ segs[k].gen = o[1] /\ At(segs, o[1]) = k /\ segs[k] \in SegRec
           /\ o[1] \in DOMAIN index /\ o[2] \in DOMAIN Objs(o[1]) /\ Objs(o[1])[o[2]] \in Desc
  BY ObjAt
<1>2. PICK d \in Desc : d = [Objs(o[1])[o[2]] EXCEPT !.live = FALSE] /\ ~ d.live
  BY <1>1, DescWith
<1>3. Patched(o[1], o[2], d)
  BY <1>1, <1>2, PutIs DEF SMP_FreeObj
<1>4. PICK sg \in SegRec : sg = segs[k]
  BY <1>1
<1>5. PICK x \in Int : x = sg.nobj - 1
  BY SegFields
<1>6. PICK r \in SegRec : r = [sg EXCEPT !.nobj = x]
  BY SegWith
<1>7. /\ Same(r, sg) /\ r.n = sg.n /\ r.n1 = sg.n1 /\ r.n2 = sg.n2 /\ r.load = sg.load
      /\ r.nobj = x
  BY <1>6 DEF Same, SegRec
<1>8. segs' = [segs EXCEPT ![k] = r]
  BY <1>1, <1>4, <1>5, <1>6 DEF SMP_FreeObj
<1>9. SegStep(k, r)
  BY <1>8, SegPut DEF Shape, ChildTypes
<1> QED  BY <1>1, <1>2, <1>3, <1>4, <1>5, <1>7, <1>9

\* SMP_FreeObj.
LEMMA ShapeFree ==
  ASSUME Shape, Objects, NEW o \in cached, SMP_FreeObj(o)
  PROVE  Shape'
<1>1. /\ Alive /\ saving = 0 /\ cached' = cached \ {o}
      /\ UNCHANGED <<tab, unit, place, child, cur, freeOff, nextAddr, allocVars, loader, banVars, hist>>
  BY DEF SMP_FreeObj, Alive, Locked
<1>2. PICK k \in DOMAIN segs, r \in SegRec, d \in Desc :
           /\ SegStep(k, r) /\ Same(r, segs[k])
           /\ r.n = segs[k].n /\ r.n1 = segs[k].n1 /\ r.n2 = segs[k].n2 /\ r.load = segs[k].load
           /\ Patched(o[1], o[2], d)
  BY <1>1, FreeIs
<1>3. o[1] \in DOMAIN index
  BY <1>1, ObjAt
<1>4. \A j \in DOMAIN segs :
           /\ Same(segs'[j], segs[j]) /\ segs'[j].n = segs[j].n /\ segs'[j].n1 = segs[j].n1
           /\ segs'[j].n2 = segs[j].n2 /\ segs'[j].load = segs[j].load
  BY <1>2 DEF SegStep, Same
<1>5. cached' \subseteq (1 .. MaxGen) \X (Nat \ {0}) /\ IsFiniteSet(cached')
  BY <1>1, FS_RemoveElement DEF Shape, ChildTypes
<1> QED  BY <1>1, <1>2, <1>3, <1>4, <1>5, ShapePatch DEF SegStep

-----------------------------------------------------------------------------
\* The newest ban is the one of now.
LEMMA NewestBan ==
  ASSUME Shape, Alive
  PROVE  Max(bans) = time /\ time \in bans /\ time \in 1 .. MaxTime
<1>1. time \in bans /\ bans \subseteq 1 .. time /\ time \in 0 .. MaxTime
  BY SegsAre DEF Running, Shape, BanTypes
<1>2. \A b \in bans : b \in Int /\ b <= time
  BY <1>1, Sizes
<1>3. Max(bans) \in bans /\ \A y \in bans : Max(bans) >= y
  BY <1>1, <1>2 DEF Max
<1>4. Max(bans) = time
  <2>1. Max(bans) \in Int /\ Max(bans) <= time /\ Max(bans) >= time /\ time \in Int
    BY <1>1, <1>2, <1>3
  <2> QED  BY <2>1
<1>5. time \in 1 .. MaxTime
  BY <1>1, Sizes
<1> QED  BY <1>1, <1>4, <1>5

\* smp_object: the next descriptor of a segment.
LEMMA NewObjectIs ==
  ASSUME Shape, NEW g \in Gens(segs), smp_object(g)
  PROVE  \E k \in DOMAIN segs, r \in SegRec, d \in Desc :
           /\ segs[k].gen = g /\ SegStep(k, r) /\ Same(r, segs[k])
           /\ r.n = segs[k].n /\ r.n1 = segs[k].n1 /\ r.load = segs[k].load
           /\ r.nobj = segs[k].nobj + 1 /\ r.n2 = segs[k].n2 + 1 /\ r.n2 <= r.n1
           /\ segs[k].n2 \in Nat /\ d.live /\ d.ban = time /\ time \in bans
           /\ cached' = cached \cup {<<g, r.n2>>} /\ g \in DOMAIN index
           /\ g = cur => buf' = Append(buf, d) /\ index' = index
           /\ g # cur => Patched(g, r.n2, d) /\ r.n2 \in DOMAIN index[g]
<1>1. Alive /\ saving = 0 /\ banStep = 0 /\ Seg(g).n2 < Seg(g).n1
  BY DEF smp_object, Alive, Locked
<1>2. PICK k \in DOMAIN segs : segs[k].gen = g /\ At(segs, g) = k /\ Seg(g) = segs[k] /\ segs[k] \in SegRec
  BY <1>1, SegsAre DEF Gens
<1>3. PICK sg \in SegRec : sg = segs[k]
  BY <1>2
<1>4. PICK i \in Nat : i = sg.n2 + 1
  BY SegFields
<1>5. /\ sg.n2 \in Nat /\ sg.n1 \in Nat /\ sg.nobj \in Int /\ i <= sg.n1 /\ g \in DOMAIN index
      /\ sg.nalloc \in Nat /\ sg.n1 > 0 /\ i > 0
  BY <1>1, <1>2, <1>3, <1>4, SegFields, GensListed
<1>6. PICK d \in Desc : d = [live |-> TRUE, ban |-> Max(bans)] /\ d.live /\ d.ban = time /\ time \in bans
  <2>1. Max(bans) \in 0 .. MaxTime
    BY <1>1, NewestBan, Sizes
  <2>2. [live |-> TRUE, ban |-> Max(bans)] \in Desc
    BY <2>1 DEF Desc
  <2> QED  BY <2>2, <1>1, NewestBan
<1>7. PICK x \in Int : x = sg.nobj + 1
  BY <1>5
<1>8. PICK r \in SegRec : r = [sg EXCEPT !.n2 = i, !.nobj = x]
  BY SegWith
<1>9. /\ Same(r, sg) /\ r.n = sg.n /\ r.n1 = sg.n1 /\ r.n2 = i /\ r.load = sg.load
      /\ r.nobj = x
  BY <1>8 DEF Same, SegRec
<1>10. segs' = [segs EXCEPT ![k] = r]
  BY <1>2, <1>3, <1>4, <1>7, <1>8 DEF smp_object
<1>11. SegStep(k, r)
  BY <1>10, SegPut DEF Shape, ChildTypes
<1>12. cached' = cached \cup {<<g, i>>}
  BY <1>2, <1>3, <1>4 DEF smp_object
<1>13. g = cur => buf' = Append(buf, d) /\ index' = index
  BY <1>6 DEF smp_object
<1>14. g # cur => Patched(g, i, d) /\ i \in DOMAIN index[g]
  <2> HAVE g # cur
  <2>1. index' = [index EXCEPT ![g][i] = d] /\ buf' = buf
    BY <1>2, <1>3, <1>4, <1>6 DEF smp_object
  <2>2. Len(index[g]) = sg.nalloc /\ sg.n1 = sg.nalloc
    BY <1>1, <1>2, <1>3, <1>5, SegsAre DEF Running, Settled, Closed
  <2>3. index[g] \in Seq(Desc)
    BY <1>5, GensListed, ElementOfSeq DEF Shape, SiloTypes
  <2>4. i \in DOMAIN index[g]
    BY <1>5, <2>2, <2>3, LenProperties
  <2> QED  BY <1>5, <2>1, <2>4, IndexPut
<1> QED  BY <1>2, <1>3, <1>4, <1>5, <1>6, <1>7, <1>9, <1>11, <1>12, <1>13, <1>14

\* smp_object.
LEMMA ShapeNewObject ==
  ASSUME Shape, NEW g \in Gens(segs), smp_object(g)
  PROVE  Shape'
<1>1. /\ Alive /\ child = "up" /\ saving = 0
      /\ UNCHANGED <<tab, unit, place, child, cur, freeOff, nextAddr, allocVars, loader, banVars, hist>>
  BY DEF smp_object, Alive, Locked
<1>2. PICK k \in DOMAIN segs, r \in SegRec, d \in Desc :
           /\ segs[k].gen = g /\ SegStep(k, r) /\ Same(r, segs[k])
           /\ r.n = segs[k].n /\ r.n1 = segs[k].n1 /\ r.load = segs[k].load
           /\ r.n2 = segs[k].n2 + 1 /\ r.n2 <= r.n1 /\ segs[k].n2 \in Nat
           /\ cached' = cached \cup {<<g, r.n2>>} /\ g \in DOMAIN index
           /\ g = cur => buf' = Append(buf, d) /\ index' = index
           /\ g # cur => Patched(g, r.n2, d)
  BY NewObjectIs
<1>3. Alive' /\ Len(segs) \in DOMAIN segs
  BY <1>1, SegsAre DEF Alive
<1>4. SameSegs /\ Steady
  <2>1. \A j \in DOMAIN segs : segs[j].n2 <= segs[j].n1 \/ segs[j].gen = cur
    BY <1>1, SegsAre DEF Running, Settled
  <2>2. \A h \in DOMAIN index : h # cur => Len(index'[h]) = Len(index[h])
    BY <1>2 DEF Patched
  <2>3. \A j \in DOMAIN segs : Same(segs'[j], segs[j])
    BY <1>2 DEF SegStep, Same
  <2> QED  BY <1>1, <1>2, <2>1, <2>2, <2>3 DEF SameSegs, Steady, SegStep, allocVars
<1>5. buf \in Seq(Desc) /\ index \in Seq(Seq(Desc)) /\ cur \in 0 .. MaxGen
  BY DEF Shape, SiloTypes, ChildTypes
<1>6. Types'
  <2>1. buf' \in Seq(Desc) /\ index' \in Seq(Seq(Desc)) /\ Len(index') = Len(index)
    <3>1. CASE g = cur
      <4>1. Append(buf, d) \in Seq(Desc)
        BY <1>5, AppendProperties
      <4>2. buf' = Append(buf, d) /\ index' = index
        BY <3>1, <1>2
      <4> QED  BY <4>1, <4>2, <1>5
    <3>2. CASE g # cur
      BY <3>2, <1>2 DEF Patched
    <3> QED  BY <3>1, <3>2
  <2>2. cached' \subseteq (1 .. MaxGen) \X (Nat \ {0}) /\ IsFiniteSet(cached')
    <3>1. g \in 1 .. MaxGen /\ r.n2 \in Nat \ {0}
      BY <1>1, <1>2, SegsAre, SegFields
    <3>2. IsFiniteSet(cached \cup {<<g, r.n2>>})
      BY FS_AddElement DEF Shape, ChildTypes
    <3> QED  BY <1>2, <3>1, <3>2 DEF Shape, ChildTypes
  <2> QED  BY <1>1, <1>2, <2>1, <2>2 DEF Shape, Types, SiloTypes, ChildTypes, BanTypes, SegStep, allocVars, banVars, hist
<1>7. Open'
  <2>1. Open /\ cur \in DOMAIN index /\ segs[Len(segs)].gen = cur /\ segs[Len(segs)] \in SegRec
    BY <1>1, CurIs, GensListed, SegsAre
  <2>2. index'[cur] = <<>>
    BY <1>2, <2>1 DEF Patched, Open
  <2>3. CASE g = cur
    <3>1. k = Len(segs) /\ segs'[Len(segs')] = r
      BY <1>1, <1>2, <2>1, <2>3, SegsAre DEF SegStep
    <3>2. Len(buf') = r.n2
      <4>1. buf' = Append(buf, d) /\ r.n2 = segs[k].n2 + 1
        BY <1>2, <2>3
      <4>2. Len(Append(buf, d)) = Len(buf) + 1
        BY <1>5, AppendProperties
      <4>3. Len(buf) = segs[Len(segs)].n2
        BY <2>1 DEF Open
      <4> QED  BY <3>1, <4>1, <4>2, <4>3
    <3>3. smp_segend(r) = smp_segend(segs[Len(segs)])
      BY <1>2, <3>1 DEF Same, smp_segend
    <3> QED  BY <1>1, <1>2, <2>1, <2>2, <3>1, <3>2, <3>3 DEF Open, Same
  <2>4. CASE g # cur
    <3>1. segs'[Len(segs')] = segs[Len(segs)] /\ buf' = buf
      BY <1>2, <1>3, <2>1, <2>4 DEF SegStep, Patched
    <3> QED  BY <1>1, <2>1, <2>2, <3>1 DEF Open, smp_segend
  <2> QED  BY <2>3, <2>4
<1>8. Loads'
  <2>1. segs[k].n1 > 0
    BY <1>1, <1>2, SegsAre, SegFields
  <2> QED  BY <1>1, <1>2, <2>1, LoadsStand DEF SegStep
<1>9. child' # "start" /\ time' \in bans' /\ saving = 0
  BY <1>1, SegsAre DEF Running, banVars
<1> QED  BY <1>1, <1>3, <1>4, <1>6, <1>7, <1>8, <1>9, RunningStep

-----------------------------------------------------------------------------
\* A list to which smp_new_seg appends: closed segments only.
Fine(list) ==
  /\ list \in Seq(SegRec) /\ Ordered(list)
  /\ \A i \in DOMAIN list :
       /\ Len(index[list[i].gen]) = list[i].nalloc /\ list[i].n2 <= list[i].n1
       /\ list[i].n1 > 0 => list[i].n1 = list[i].nalloc /\ ~ list[i].load

\* What smp_new_seg makes.
Made(list, free, g, off, new) ==
  /\ g = Len(place) + 1 /\ off = Offset(free) /\ off \in Nat /\ SPC <= off /\ off + AimSegl <= MediaSize
  /\ g \in 1 .. MaxGen
  /\ new \in SegRec /\ new.gen = g /\ new.offset = off /\ new.length = AimSegl /\ new.nalloc = 0
  /\ new.n = 0 /\ new.n1 = 0 /\ new.n2 = 0 /\ new.nobj = 0 /\ ~ new.load
  /\ segs' \in Seq(SegRec) /\ Len(segs') = Len(list) + 1 /\ Len(list) \in Nat
  /\ DOMAIN segs' = 1 .. Len(list) + 1 /\ DOMAIN list = 1 .. Len(list)
  /\ segs'[Len(list) + 1] = new /\ \A i \in DOMAIN list : segs'[i] = list[i]
  /\ cur' = g /\ freeOff' = off + AimSegl /\ nextAddr' = off + 1 /\ buf' = <<>>
  /\ off \in DOMAIN unit /\ unit' = [unit EXCEPT ![off] = g]
  /\ unit' \in [SPC .. MediaSize - 1 -> 0 .. MaxGen]
  /\ place' \in Seq(Nat) /\ index' \in Seq(Seq(Desc))
  /\ Len(place') = g /\ Len(index') = g /\ place'[g] = off /\ index'[g] = <<>>
  /\ DOMAIN index = 1 .. Len(place)
  /\ \A h \in DOMAIN index : place'[h] = place[h] /\ index'[h] = index[h] /\ h # g /\ h < g
  /\ met' = (met \/ First(list) = off)

\* smp_new_seg with a list of closed segments.
LEMMA NewSegIs ==
  ASSUME Shape, NEW list, list \in Seq(SegRec), NEW free \in Nat, SPC <= free, MoreSegs,
         smp_new_seg(list, free)
  PROVE  \E g, off, new : Made(list, free, g, off, new)
<1>1. PICK g : g = Len(place) + 1
  OBVIOUS
<1>2. PICK off : off = Offset(free)
  OBVIOUS
<1>3. PICK new : new = [gen |-> g, offset |-> off, length |-> AimSegl, nalloc |-> 0,
                        n |-> 0, n1 |-> 0, n2 |-> 0, nobj |-> 0, load |-> FALSE]
  OBVIOUS
<1>4. /\ Len(place) \in Nat /\ DOMAIN index = 1 .. Len(place) /\ Len(index) = Len(place)
      /\ DOMAIN place = 1 .. Len(place)
  BY GensListed
<1>5. g \in 1 .. MaxGen /\ \A h \in DOMAIN index : h # g /\ h < g
  BY <1>1, <1>4, Sizes DEF MoreSegs
<1>6. off \in Nat /\ SPC <= off /\ off + AimSegl <= MediaSize
  BY <1>2, Sizes DEF Offset, Wraps
<1>7. new \in SegRec /\ new.gen = g /\ new.offset = off /\ new.length = AimSegl /\ new.nalloc = 0
      /\ new.n = 0 /\ new.n1 = 0 /\ new.n2 = 0 /\ new.nobj = 0 /\ ~ new.load
  BY <1>3, <1>5, <1>6, Sizes DEF SegRec
<1>8. segs' = Append(list, new) /\ cur' = g /\ freeOff' = off + AimSegl /\ nextAddr' = off + 1 /\ buf' = <<>>
  BY <1>1, <1>2, <1>3 DEF smp_new_seg
<1>9. unit' = [unit EXCEPT ![off] = g] /\ place' = Append(place, off) /\ index' = Append(index, <<>>)
      /\ met' = (met \/ First(list) = off)
  BY <1>1, <1>2 DEF smp_new_seg
<1>10. /\ segs' \in Seq(SegRec) /\ Len(segs') = Len(list) + 1 /\ Len(list) \in Nat
       /\ segs'[Len(list) + 1] = new /\ \A i \in 1 .. Len(list) : segs'[i] = list[i]
       /\ DOMAIN list = 1 .. Len(list)
  BY <1>7, <1>8, AppendProperties, LenProperties
<1>11. DOMAIN segs' = 1 .. Len(list) + 1
  BY <1>10, LenProperties
<1>12. /\ off \in DOMAIN unit /\ unit' \in [SPC .. MediaSize - 1 -> 0 .. MaxGen]
  <2>1. off \in SPC .. MediaSize - 1 /\ g \in 0 .. MaxGen
    BY <1>5, <1>6, Sizes
  <2> QED  BY <2>1, <1>9 DEF Shape, SiloTypes
<1>13. /\ place' \in Seq(Nat) /\ Len(place') = g /\ place'[g] = off
       /\ \A h \in 1 .. Len(place) : place'[h] = place[h]
  <2>1. place \in Seq(Nat)
    BY DEF Shape, SiloTypes
  <2> QED  BY <2>1, <1>1, <1>6, <1>9, AppendProperties
<1>14. /\ index' \in Seq(Seq(Desc)) /\ Len(index') = g /\ index'[g] = <<>>
       /\ \A h \in 1 .. Len(index) : index'[h] = index[h]
  <2>1. index \in Seq(Seq(Desc)) /\ <<>> \in Seq(Desc)
    BY EmptySeq DEF Shape, SiloTypes
  <2> QED  BY <2>1, <1>1, <1>4, <1>9, AppendProperties
<1> QED  BY <1>1, <1>2, <1>4, <1>5, <1>6, <1>7, <1>8, <1>9, <1>10, <1>11, <1>12, <1>13, <1>14 DEF Made

\* The new segment is the last of the list, and open.
LEMMA ShapeNewSeg ==
  ASSUME Shape, child # "lost", NEW list, Fine(list), NEW free \in Nat, SPC <= free, MoreSegs,
         smp_new_seg(list, free), tab' = tab, saving' = 0, want' \in Want, Alive',
         child' = "start" => banStep' # 0 /\ want' = NoWant,
         loader' \in [gen : 0 .. MaxGen, i : Nat],
         loader'.gen # 0 => \E i \in DOMAIN list :
           list[i].gen = loader'.gen /\ list[i].n1 = 0 /\ (loader'.i > 0 => ~ list[i].load),
         UNCHANGED <<ban, cached>>, BanTypes', time' \in bans'
  PROVE  Shape'
<1>1. PICK g, off, new : Made(list, free, g, off, new)
  BY NewSegIs DEF Fine
<1>a. /\ Len(place) \in Nat /\ g = Len(place) + 1 /\ DOMAIN index = 1 .. Len(place) /\ g <= MaxGen
      /\ Len(place') = g /\ Len(index') = g /\ \A h \in DOMAIN index : place'[h] = place[h] /\ h # g /\ h < g
  BY <1>1, GensListed, Sizes DEF Made
<1>b. off \in Nat /\ nextAddr' = off + 1 /\ freeOff' = off + AimSegl /\ cur' = g /\ g \in 1 .. MaxGen
  BY <1>1 DEF Made
<1>2. Types'
  <2>1. SiloTypes'
    BY <1>1, <1>a DEF Shape, SiloTypes, Made
  <2>2. <<>> \in Seq(Desc) /\ freeOff' \in Nat /\ nextAddr' \in Nat /\ cur' \in 0 .. MaxGen /\ 0 \in 0 .. 9
    BY <1>b, Sizes, EmptySeq
  <2>3. ChildTypes'
    BY <1>1, <2>2 DEF Shape, ChildTypes, Alive, Made
  <2> QED  BY <2>1, <2>3 DEF Types
<1>3. /\ segs'[Len(list) + 1] = new /\ \A i \in DOMAIN list : segs'[i] = list[i]
      /\ DOMAIN segs' = 1 .. Len(list) + 1 /\ DOMAIN list = 1 .. Len(list) /\ Len(list) \in Nat
      /\ cur' = g /\ new.gen = g /\ Len(segs') = Len(list) + 1
  BY <1>1 DEF Made
<1>4. \A i \in DOMAIN list :
        /\ list[i].gen \in DOMAIN index /\ place'[list[i].gen] = list[i].offset
        /\ SPC <= list[i].offset /\ list[i].offset + AimSegl <= MediaSize
        /\ 3 <= list[i].length /\ list[i].length <= AimSegl /\ list[i].gen < g /\ list[i].gen # g
        /\ list[i].gen \in 1 .. Len(place')
  <2>1. \A h \in DOMAIN index : h \in 1 .. Len(place')
    BY <1>a
  <2> QED  BY <1>a, <2>1 DEF Fine, Ordered, Listed
<1>5. Ordered(segs)'
  <2>2. /\ g \in 1 .. Len(place') /\ place'[g] = new.offset /\ SPC <= new.offset
        /\ new.offset + AimSegl <= MediaSize /\ 3 <= new.length /\ new.length <= AimSegl
    BY <1>1, <1>a, Sizes DEF Made
  <2>3. ASSUME NEW i \in DOMAIN segs' PROVE Listed(segs[i])'
    <3>1. CASE i \in DOMAIN list
      BY <3>1, <1>3, <1>4 DEF Listed
    <3>2. CASE i = Len(list) + 1
      BY <3>2, <1>3, <2>2 DEF Listed
    <3> QED  BY <3>1, <3>2, <1>3
  <2>4. ASSUME NEW i \in DOMAIN segs', NEW k \in DOMAIN segs', i < k PROVE segs'[i].gen < segs'[k].gen
    <3>1. i \in DOMAIN list
      BY <1>3, <2>4
    <3>2. CASE k \in DOMAIN list
      BY <3>1, <3>2, <1>3, <2>4 DEF Fine, Ordered
    <3>3. CASE k = Len(list) + 1
      BY <3>1, <3>3, <1>3, <1>4
    <3> QED  BY <3>2, <3>3, <1>3
  <2> QED  BY <2>3, <2>4 DEF Ordered
<1>6. ASSUME NEW i \in DOMAIN segs', segs'[i].gen # cur' PROVE Settled(segs[i])'
  <2>1. i \in DOMAIN list /\ segs'[i] = list[i]
    BY <1>3, <1>6
  <2>2. list[i].gen \in DOMAIN index /\ index'[list[i].gen] = index[list[i].gen]
    BY <2>1, <1>1, <1>4 DEF Made
  <2> QED  BY <2>1, <2>2, <1>6 DEF Settled, Closed, Fine
<1>7. Open'
  <2>1. segs'[Len(segs')] = new /\ smp_segend(new) = off + AimSegl /\ Len(<<>>) = 0
    BY <1>1, <1>3 DEF smp_segend, Made
  <2>2. off < nextAddr' /\ nextAddr' + 2 + 0 <= off + AimSegl
    BY <1>b, Sizes
  <2>3. /\ new.gen = cur' /\ new.length = AimSegl /\ new.nalloc = 0 /\ ~ new.load /\ new.n1 = 0 /\ new.n2 = 0
        /\ new.n = 0 /\ new.offset = off /\ freeOff' = off + AimSegl /\ buf' = <<>> /\ index'[cur'] = <<>>
    BY <1>1 DEF Made
  <2>4. new.n1 <= new.n /\ new.n2 <= new.n1 /\ Len(buf') = new.n2
    BY <2>1, <2>3
  <2> QED  BY <2>1, <2>2, <2>3, <2>4 DEF Open
<1>8. Loads'
  <2> SUFFICES ASSUME loader'.gen # 0
               PROVE  \E i \in DOMAIN segs' :
                        /\ segs'[i].gen = loader'.gen /\ loader'.gen # cur' /\ segs'[i].n1 = 0
                        /\ loader'.i > 0 => ~ segs'[i].load
    BY DEF Loads
  <2>1. PICK i \in DOMAIN list :
          list[i].gen = loader'.gen /\ list[i].n1 = 0 /\ (loader'.i > 0 => ~ list[i].load)
    OBVIOUS
  <2>2. list[i].gen \in DOMAIN index
    BY <1>4
  <2>3. i \in DOMAIN segs' /\ segs'[i] = list[i] /\ list[i].gen # g
    BY <1>3, <1>4
  <2> QED  BY <2>1, <2>3, <1>3
<1>9. Running'
  <2>1. Len(segs') > 0
    BY <1>3
  <2>2. saving' = 0 /\ (child' = "start" => banStep' # 0 /\ want' = NoWant)
    OBVIOUS
  <2> QED  BY <2>1, <2>2, <1>5, <1>6, <1>7, <1>8 DEF Running
<1>10. TabShape'
  <2> SUFFICES ASSUME NEW t \in 1 .. 2
               PROVE  Ordered(tab[t].list)' /\ \A i \in DOMAIN tab[t].list : Closed(tab[t].list[i])'
    BY DEF TabShape
  <2>1. Ordered(tab[t].list) /\ \A i \in DOMAIN tab[t].list : Closed(tab[t].list[i])
    BY DEF Shape, TabShape
  <2>2. \A i \in DOMAIN tab[t].list : Listed(tab[t].list[i])' /\ tab[t].list[i].gen \in DOMAIN index
    <3>1. \A h \in DOMAIN index : h \in 1 .. Len(place')
      BY <1>a
    <3> QED  BY <2>1, <1>a, <3>1 DEF Ordered, Listed
  <2>3. Ordered(tab[t].list)'
    BY <2>1, <2>2 DEF Ordered
  <2>4. \A i \in DOMAIN tab[t].list : Closed(tab[t].list[i])'
    BY <2>1, <2>2, <1>1, <1>3 DEF Closed, Made
  <2> QED  BY <2>3, <2>4
<1> QED  BY <1>2, <1>9, <1>10 DEF Shape, Types, Alive

-----------------------------------------------------------------------------
\* Closed segments of the list, or the list without the open one.
LEMMA FineParts ==
  ASSUME Shape, Alive
  PROVE  /\ saving # 0 => Fine(segs)
         /\ saving = 0 => Fine(Front(segs)) /\ Len(Front(segs)) = Len(segs) - 1
         /\ saving = 0 => \A i \in DOMAIN Front(segs) : i \in DOMAIN segs /\ Front(segs)[i] = segs[i] /\ segs[i].gen # cur
         /\ saving = 0 => \A i \in DOMAIN segs : segs[i].gen # cur => i \in DOMAIN Front(segs)
<1>1. /\ Running /\ segs \in Seq(SegRec) /\ DOMAIN segs = 1 .. Len(segs) /\ Len(segs) \in Nat /\ Len(segs) > 0
      /\ \A i \in DOMAIN segs : segs[i] \in SegRec
  BY SegsAre DEF Running
<1>2. ASSUME saving # 0 PROVE Fine(segs)
  <2>1. \A i \in DOMAIN segs : segs[i].gen # cur
    BY <1>1, <1>2, GensListed DEF Running
  <2> QED  BY <2>1, <1>1 DEF Running, Settled, Closed, Fine
<1>3. ASSUME saving = 0
      PROVE  /\ Fine(Front(segs)) /\ Len(Front(segs)) = Len(segs) - 1
             /\ \A i \in DOMAIN Front(segs) : i \in DOMAIN segs /\ Front(segs)[i] = segs[i] /\ segs[i].gen # cur
             /\ \A i \in DOMAIN segs : segs[i].gen # cur => i \in DOMAIN Front(segs)
  <2>1. PICK f : f = Front(segs)
    OBVIOUS
  <2>2. /\ f \in Seq(SegRec) /\ Len(f) = Len(segs) - 1
        /\ \A i \in 1 .. Len(segs) - 1 : f[i] = segs[i]
    <3>a. Len(segs) - 1 \in Nat
      BY <1>1
    <3>0. PICK n \in Nat : n = Len(segs) - 1
      BY <3>a
    <3>1. \A i \in 1 .. n : segs[i] \in SegRec
      BY <3>0, <1>1
    <3>2. /\ f \in Seq(SegRec)
          /\ Len(f) = IF 1 <= n THEN n - 1 + 1 ELSE 0
          /\ \A i \in 1 .. n - 1 + 1 : f[i] = segs[1 + i - 1]
      BY <2>1, <3>0, <3>1, SubSeqProperties DEF Front
    <3>3. n - 1 + 1 = n /\ \A i \in 1 .. n : 1 + i - 1 = i
      OBVIOUS
    <3>4. Len(f) = n /\ \A i \in 1 .. n : f[i] = segs[i]
      BY <3>2, <3>3
    <3> QED  BY <3>0, <3>2, <3>4
  <2>3. DOMAIN f = 1 .. Len(segs) - 1
    BY <2>2, LenProperties
  <2>4. \A i \in DOMAIN f : i \in DOMAIN segs /\ f[i] = segs[i] /\ i # Len(segs) /\ i < Len(segs)
    BY <2>2, <2>3, <1>1
  <2>5. \A i \in DOMAIN f : segs[i].gen # cur
    BY <2>4, <1>3, CurIs
  <2>6. Ordered(f)
    BY <2>4, <1>1 DEF Running, Ordered
  <2>7. Fine(f)
    BY <2>2, <2>4, <2>5, <2>6, <1>1 DEF Fine, Running, Settled, Closed
  <2>8. \A i \in DOMAIN segs : segs[i].gen # cur => i \in DOMAIN f
    BY <1>1, <1>3, <2>3, CurIs
  <2> QED  BY <2>1, <2>2, <2>4, <2>5, <2>7, <2>8
<1> QED  BY <1>2, <1>3

\* smp_new_seg from smp_alloc: the child goes on, or ends.
LEMMA ShapeNewSegAndTry ==
  ASSUME Shape, Alive, want # NoWant, NEW list, Fine(list), NEW free \in Nat, SPC <= free,
         \A i \in DOMAIN segs : segs[i].gen # cur =>
           \E k \in DOMAIN list : list[k].gen = segs[i].gen /\ list[k].n1 = segs[i].n1 /\ list[k].load = segs[i].load,
         NewSegAndTry(list, free), UNCHANGED <<tab, ban, time, made, torn>>
  PROVE  Shape'
<1>1. CASE Die /\ UNCHANGED <<unit, place, index, met>>
  BY <1>1, ShapeDie DEF siloVars, hist
<1>2. CASE /\ MoreSegs /\ smp_new_seg(list, free) /\ NextTry /\ saving' = 0
           /\ UNCHANGED <<child, loader, cached, bans, banStep>>
  <2>1. want' \in Want
    <3>1. want \in Want /\ NoWant \in Want
      BY DEF Shape, ChildTypes, NoWant, Want
    <3>2. [want EXCEPT !.tries = @ + 1] \in Want
      BY <3>1 DEF Want
    <3> QED  BY <3>1, <3>2, <1>2 DEF NextTry
  <2>2. Alive' /\ child' # "start"
    BY <1>2, SegsAre DEF Alive, Running
  <2>3. loader'.gen # 0 => \E i \in DOMAIN list :
           list[i].gen = loader'.gen /\ list[i].n1 = 0 /\ (loader'.i > 0 => ~ list[i].load)
    <3> SUFFICES ASSUME loader.gen # 0
                 PROVE  \E i \in DOMAIN list :
                          list[i].gen = loader.gen /\ list[i].n1 = 0 /\ (loader.i > 0 => ~ list[i].load)
      BY <1>2
    <3>1. PICK i \in DOMAIN segs : segs[i].gen = loader.gen /\ loader.gen # cur /\ segs[i].n1 = 0
                                   /\ (loader.i > 0 => ~ segs[i].load)
      BY SegsAre DEF Running, Loads
    <3>2. PICK k \in DOMAIN list : list[k].gen = segs[i].gen /\ list[k].n1 = segs[i].n1 /\ list[k].load = segs[i].load
      BY <3>1
    <3> QED  BY <3>1, <3>2
  <2>4. loader' \in [gen : 0 .. MaxGen, i : Nat] /\ time' \in bans'
    BY <1>2, SegsAre DEF Shape, ChildTypes, Running
  <2>5. BanTypes'
    <3>1. met' \in BOOLEAN
      BY <1>2 DEF smp_new_seg
    <3> QED  BY <1>2, <3>1 DEF Shape, BanTypes
  <2>6. child # "lost"
    BY DEF Alive
  <2> QED  BY <1>2, <2>1, <2>2, <2>3, <2>4, <2>5, <2>6, ShapeNewSeg
<1> QED  BY <1>1, <1>2 DEF NewSegAndTry

\* An empty open segment is replaced by another one.
LEMMA ShapeSkips ==
  ASSUME Shape, Alive, AllocSkips
  PROVE  Shape'
<1>1. want # NoWant /\ saving = 0 /\ NewSegAndTry(Front(segs), freeOff) /\ UNCHANGED <<tab, ban, time, made, torn>>
  BY DEF AllocSkips
<1>2. Fine(Front(segs))
  BY <1>1, FineParts
<1>3. freeOff \in Nat /\ SPC <= freeOff
  <2>1. Open /\ Listed(segs[Len(segs)]) /\ segs[Len(segs)] \in SegRec
    BY <1>1, CurIs, SegsAre
  <2> QED  BY <2>1, SegFields, Sizes, SMTT(30) DEF Open, Listed, smp_segend, Shape, ChildTypes
<1>4. \A i \in DOMAIN segs : segs[i].gen # cur =>
        \E k \in DOMAIN Front(segs) :
          /\ Front(segs)[k].gen = segs[i].gen /\ Front(segs)[k].n1 = segs[i].n1
          /\ Front(segs)[k].load = segs[i].load
  BY <1>1, FineParts
<1> QED  BY <1>1, <1>2, <1>3, <1>4, ShapeNewSegAndTry

\* After the tables have been written.
LEMMA ShapeSaved ==
  ASSUME Shape, child # "lost", Saved
  PROVE  Shape' /\ Alive
<1>1. saving = 9 /\ UNCHANGED <<tab, ban, time, made, torn>>
  BY DEF Saved
<1>2. Alive
  BY <1>1 DEF Shape, ChildTypes, Gone, Alive
<1>3. CASE want = NoWant /\ Die /\ UNCHANGED <<unit, place, index, met>>
  BY <1>1, <1>2, <1>3, ShapeDie DEF siloVars, hist
<1>4. CASE want # NoWant /\ NewSegAndTry(segs, smp_segend(Last(segs)))
  <2>1. Fine(segs) /\ Listed(segs[Len(segs)]) /\ segs[Len(segs)] \in SegRec
    BY <1>1, <1>2, FineParts, SegsAre
  <2>2. smp_segend(Last(segs)) \in Nat /\ SPC <= smp_segend(Last(segs))
    BY <2>1, SegFields, Sizes DEF Last, Listed, smp_segend
  <2> QED  BY <1>1, <1>2, <1>4, <2>1, <2>2, ShapeNewSegAndTry
<1> QED  BY <1>2, <1>3, <1>4 DEF Saved

-----------------------------------------------------------------------------
\* The segments without objects at the front are counted by Empty.
LEMMA EmptyIs ==
  ASSUME NEW list \in Seq(SegRec)
  PROVE  \E m \in 0 .. Len(list) : Empty(list) = 1 .. m /\ Cardinality(Empty(list)) = m
<1>1. Len(list) \in Nat /\ DOMAIN list = 1 .. Len(list)
  BY LenProperties
<1>2. \E m \in 0 .. Len(list) : Empty(list) = 1 .. m
  <2>1. PICK B : B = {i \in DOMAIN list : list[i].nobj # 0}
    OBVIOUS
  <2>2. CASE B = {}
    <3>1. Empty(list) = 1 .. Len(list)
      BY <1>1, <2>1, <2>2 DEF Empty
    <3>2. Len(list) \in 0 .. Len(list)
      BY <1>1
    <3> QED  BY <3>1, <3>2
  <2>3. CASE B # {}
    <3>1. B \in SUBSET Nat
      BY <1>1, <2>1
    <3>2. Min(B) \in B /\ \A y \in B : Min(B) <= y
      BY <2>3, <3>1, MinOf
    <3>3. PICK b : b = Min(B)
      OBVIOUS
    <3>4. b \in DOMAIN list /\ list[b].nobj # 0 /\ b \in Nat /\ \A i \in DOMAIN list : i < b => list[i].nobj = 0
      <4>1. b \in B /\ \A y \in B : b <= y
        BY <3>2, <3>3
      <4>2. b \in DOMAIN list /\ list[b].nobj # 0 /\ b \in Nat
        BY <4>1, <3>1, <2>1
      <4>3. ASSUME NEW i \in DOMAIN list, i < b PROVE list[i].nobj = 0
        <5>1. i \in Nat /\ ~ (b <= i)
          BY <1>1, <4>2, <4>3
        <5> QED  BY <5>1, <4>1, <2>1
      <4> QED  BY <4>2, <4>3
    <3>5. Empty(list) = 1 .. b - 1
      <4>1. ASSUME NEW i \in Empty(list) PROVE i \in 1 .. b - 1
        <5>1. i \in DOMAIN list /\ ~ (b \in 1 .. i)
          BY <3>4 DEF Empty
        <5> QED  BY <5>1, <3>4, <1>1
      <4>2. ASSUME NEW i \in 1 .. b - 1 PROVE i \in Empty(list)
        <5>1. i \in DOMAIN list /\ \A k \in 1 .. i : k \in DOMAIN list /\ k < b
          BY <1>1, <3>4
        <5> QED  BY <5>1, <3>4 DEF Empty
      <4> QED  BY <4>1, <4>2
    <3>6. b - 1 \in 0 .. Len(list)
      BY <1>1, <3>4
    <3> QED  BY <3>5, <3>6
  <2> QED  BY <2>2, <2>3
<1>3. PICK m \in 0 .. Len(list) : Empty(list) = 1 .. m
  BY <1>2
<1>4. m \in Nat
  BY <1>1
<1>5. Cardinality(1 .. m) = m
  BY <1>4, FS_Interval
<1> QED  BY <1>3, <1>5

\* What smp_close_seg does when nobody uses what it frees.
Shut(r, m) ==
  /\ r \in SegRec /\ m \in Nat /\ m < Len(segs)
  /\ LET sg == segs[Len(segs)]
         end == nextAddr + 2 + sg.n1
     IN  /\ r.gen = cur /\ r.offset = sg.offset /\ r.nalloc = sg.n1 /\ r.length = end - sg.offset
         /\ r.n = sg.n /\ r.n1 = sg.n1 /\ r.n2 = sg.n2 /\ r.nobj = sg.nobj /\ r.load = sg.load
         /\ 3 <= r.length /\ r.length <= AimSegl
         /\ unit' = [a \in DOMAIN unit |-> IF a \in nextAddr .. end - 1 THEN cur ELSE unit[a]]
         /\ Len(index'[cur]) = sg.n1 /\ index'[cur] \in Seq(Desc)
         /\ \A i \in 1 .. sg.n1 : index'[cur][i] = IF i <= sg.n2 THEN buf[i] ELSE Dead
  /\ segs' \in Seq(SegRec) /\ Len(segs') = Len(segs) - m /\ DOMAIN segs' = 1 .. Len(segs) - m
  /\ \A i \in DOMAIN segs' : /\ i + m \in DOMAIN segs
                             /\ segs'[i] = IF i + m = Len(segs) THEN r ELSE segs[i + m]
  /\ \A i \in 1 .. m : segs[i].nobj = 0 /\ segs[i].n1 <= segs[i].n2 /\ segs[i].gen # loader.gen
  /\ cur' = 0 /\ buf' = <<>> /\ nextAddr' = SPC /\ saving' = 1
  /\ UNCHANGED <<child, freeOff, want, loader, cached, bans, banStep>>

\* What it does to the silo in any case.
LEMMA CloseSilo ==
  ASSUME Shape, Alive, saving = 0, smp_close_seg
  PROVE  /\ UNCHANGED <<tab, place, ban, time, made, hist>>
         /\ unit' \in [SPC .. MediaSize - 1 -> 0 .. MaxGen]
         /\ index' \in Seq(Seq(Desc)) /\ Len(index') = Len(index) /\ DOMAIN index' = DOMAIN index
         /\ \A g \in DOMAIN index : g # cur => index'[g] = index[g]
         /\ Len(index'[cur]) = segs[Len(segs)].n1 /\ index'[cur] \in Seq(Desc)
         /\ \A i \in 1 .. segs[Len(segs)].n1 :
              index'[cur][i] = IF i <= segs[Len(segs)].n2 THEN buf[i] ELSE Dead
         /\ unit' = [a \in DOMAIN unit |->
              IF a \in nextAddr .. (nextAddr + 2 + segs[Len(segs)].n1) - 1 THEN cur ELSE unit[a]]
<1>1. Seg(cur) = segs[Len(segs)] /\ segs[Len(segs)] \in SegRec /\ cur \in DOMAIN index /\ Open
  BY CurIs, SegsAre, GensListed
<1>2. PICK sg \in SegRec : sg = segs[Len(segs)]
  BY <1>1
<1>3. /\ unit' = [a \in DOMAIN unit |-> IF a \in nextAddr .. (nextAddr + 2 + sg.n1) - 1 THEN cur ELSE unit[a]]
      /\ index' = [index EXCEPT ![cur] = [i \in 1 .. sg.n1 |-> IF i <= sg.n2 THEN buf[i] ELSE Dead]]
      /\ UNCHANGED <<tab, place, ban, time, made, hist>>
  <2>1. Seg(cur) = sg
    BY <1>1, <1>2
  <2>2. unit' = [a \in DOMAIN unit |-> IF a \in nextAddr .. (nextAddr + 2 + Seg(cur).n1) - 1 THEN cur ELSE unit[a]]
    BY DEF smp_close_seg
  <2>3. index' = [index EXCEPT ![cur] = [i \in 1 .. Seg(cur).n1 |-> IF i <= Seg(cur).n2 THEN buf[i] ELSE Dead]]
    BY DEF smp_close_seg
  <2>4. UNCHANGED <<tab, place, ban, time, made, hist>>
    BY DEF smp_close_seg
  <2> QED  BY <2>1, <2>2, <2>3, <2>4
<1>4. PICK e : e = [i \in 1 .. sg.n1 |-> IF i <= sg.n2 THEN buf[i] ELSE Dead]
  OBVIOUS
<1>5. sg.n1 \in Nat /\ sg.n2 \in Nat /\ buf \in Seq(Desc) /\ Len(buf) = sg.n2
  BY <1>1, <1>2, SegFields DEF Shape, ChildTypes, Open
<1>6. \A i \in 1 .. sg.n1 : (IF i <= sg.n2 THEN buf[i] ELSE Dead) \in Desc
  <2>1. Dead \in Desc
    BY Sizes DEF Dead, Desc
  <2>2. \A i \in 1 .. sg.n1 : i <= sg.n2 => buf[i] \in Desc
    BY <1>5, ElementOfSeq
  <2> QED  BY <2>1, <2>2
<1>7. e \in Seq(Desc) /\ DOMAIN e = 1 .. sg.n1
  BY <1>4, <1>5, <1>6, IsASeq
<1>8. Len(e) = sg.n1
  BY <1>5, <1>7, LenProperties
<1>9. index \in Seq(Seq(Desc)) /\ DOMAIN index = 1 .. Len(index)
  BY GensListed DEF Shape, SiloTypes
<1>10. /\ index' \in Seq(Seq(Desc)) /\ Len(index') = Len(index)
       /\ \A j \in 1 .. Len(index) : index'[j] = IF j = cur THEN e ELSE index[j]
  BY <1>1, <1>3, <1>4, <1>7, <1>9, ExceptSeq
<1>11. DOMAIN index' = DOMAIN index
  BY <1>9, <1>10, LenProperties
<1>12. unit' \in [SPC .. MediaSize - 1 -> 0 .. MaxGen]
  BY <1>3 DEF Shape, SiloTypes, ChildTypes
<1>13. index'[cur] = e /\ \A g \in DOMAIN index : g # cur => index'[g] = index[g]
  BY <1>1, <1>9, <1>10
<1>14. unit' = [a \in DOMAIN unit |->
         IF a \in nextAddr .. (nextAddr + 2 + segs[Len(segs)].n1) - 1 THEN cur ELSE unit[a]]
  BY <1>2, <1>3, Zenon
<1>15. \A i \in 1 .. sg.n1 : e[i] = IF i <= sg.n2 THEN buf[i] ELSE Dead
  BY <1>4
<1>16. \A i \in 1 .. segs[Len(segs)].n1 :
         index'[cur][i] = IF i <= segs[Len(segs)].n2 THEN buf[i] ELSE Dead
  BY <1>2, <1>13, <1>15, Zenon
<1>17. Len(index'[cur]) = segs[Len(segs)].n1 /\ index'[cur] \in Seq(Desc)
  BY <1>2, <1>7, <1>8, <1>13, Zenon
<1> QED  BY <1>3, <1>10, <1>11, <1>12, <1>13, <1>14, <1>16, <1>17, Zenon

\* smp_close_seg with a child that goes on.
LEMMA CloseIs ==
  ASSUME Shape, Alive, saving = 0, smp_close_seg, Alive'
  PROVE  \E r, m : Shut(r, m)
<1> DEFINE z == Len(segs)
<1>1. /\ Seg(cur) = segs[z] /\ segs[z] \in SegRec /\ cur \in DOMAIN index /\ Open /\ z \in DOMAIN segs
      /\ z \in Nat /\ segs \in Seq(SegRec) /\ DOMAIN segs = 1 .. z
  BY CurIs, SegsAre, GensListed
<1>2. PICK sg \in SegRec : sg = segs[z]
  BY <1>1
<1>3. PICK end : end = nextAddr + 2 + sg.n1
  OBVIOUS
<1>4. /\ sg.n1 \in Nat /\ sg.n2 \in Nat /\ sg.offset \in Nat /\ nextAddr \in Nat /\ end \in Nat
      /\ end <= sg.offset + AimSegl /\ sg.offset < nextAddr /\ sg.gen = cur
  <2>1. sg.n1 \in Nat /\ sg.n2 \in Nat /\ sg.offset \in Nat /\ nextAddr \in Nat
    BY SegFields DEF Shape, ChildTypes
  <2>2. end \in Nat
    BY <1>3, <2>1
  <2>3. sg.length = AimSegl /\ nextAddr + 2 + sg.n1 <= sg.offset + sg.length /\ sg.offset < nextAddr /\ sg.gen = cur
    BY <1>1, <1>2 DEF Open, smp_segend
  <2> QED  BY <1>3, <2>1, <2>2, <2>3
<1>5. PICK len \in Nat : len = end - sg.offset /\ 3 <= len /\ len <= AimSegl
  <2>1. end - sg.offset \in Nat /\ 3 <= end - sg.offset /\ end - sg.offset <= AimSegl
    BY <1>3, <1>4, Sizes
  <2> QED  BY <2>1
<1>6. PICK r \in SegRec : r = [sg EXCEPT !.nalloc = sg.n1, !.length = len]
  BY <1>4, SegWith
<1>7. /\ r.gen = cur /\ r.offset = sg.offset /\ r.nalloc = sg.n1 /\ r.length = len
      /\ r.n = sg.n /\ r.n1 = sg.n1 /\ r.n2 = sg.n2 /\ r.nobj = sg.nobj /\ r.load = sg.load
  BY <1>4, <1>6 DEF SegRec
<1>8. PICK list : list = [segs EXCEPT ![z].nalloc = sg.n1, ![z].length = end - sg.offset]
  OBVIOUS
<1>9. list = [segs EXCEPT ![z] = r]
  BY <1>2, <1>5, <1>6, <1>8
<1>10. /\ list \in Seq(SegRec) /\ Len(list) = z
       /\ \A i \in 1 .. z : list[i] = IF i = z THEN r ELSE segs[i]
  BY <1>1, <1>9, ExceptSeq
<1>11. /\ ~ \E i \in Empty(list) : InUse(list, i)
       /\ segs' = Kept(list) /\ cur' = 0 /\ buf' = <<>> /\ nextAddr' = SPC /\ saving' = 1
       /\ UNCHANGED <<child, freeOff, want, loader, cached, bans, banStep>>
  <2>1. child' # "lost"
    BY DEF Alive
  <2> QED  BY <2>1, <1>1, <1>2, <1>3, <1>8 DEF smp_close_seg, Lost
<1>12. PICK m \in 0 .. z : Empty(list) = 1 .. m /\ Cardinality(Empty(list)) = m
  BY <1>10, EmptyIs
<1>13. m \in Nat /\ m < z
  <2>1. z \notin Empty(list)
    BY <1>10, <1>11 DEF InUse
  <2>2. z \in Nat /\ z > 0
    BY <1>1
  <2>3. m # z
    BY <1>12, <2>1, <2>2
  <2> QED  BY <1>12, <2>2, <2>3
<1>14. /\ segs' \in Seq(SegRec) /\ Len(segs') = z - m
       /\ \A i \in 1 .. z - m : segs'[i] = list[i + m]
  <2>1. segs' = SubSeq(list, m + 1, z)
    BY <1>10, <1>11, <1>12 DEF Kept
  <2>2. \A i \in m + 1 .. z : list[i] \in SegRec
    BY <1>10, <1>13, <1>1, ElementOfSeq
  <2>3. m + 1 \in Int /\ z \in Int /\ m + 1 <= z
    BY <1>1, <1>13
  <2>4. PICK q \in Int : q = m + 1
    BY <2>3
  <2>5. /\ SubSeq(list, q, z) \in Seq(SegRec)
        /\ Len(SubSeq(list, q, z)) = (IF q <= z THEN z - q + 1 ELSE 0)
        /\ \A i \in 1 .. z - q + 1 : SubSeq(list, q, z)[i] = list[q + i - 1]
    BY <2>2, <2>3, <2>4, SubSeqProperties
  <2>6. z - q + 1 = z - m /\ q <= z /\ \A i \in 1 .. z - m : q + i - 1 = i + m
    BY <2>3, <2>4, <1>1, <1>13
  <2> QED  BY <2>1, <2>4, <2>5, <2>6
<1>15. DOMAIN segs' = 1 .. z - m
  BY <1>14, LenProperties
<1>16. \A i \in DOMAIN segs' : i + m \in DOMAIN segs /\ segs'[i] = IF i + m = z THEN r ELSE segs[i + m]
  <2>1. \A i \in 1 .. z - m : i + m \in 1 .. z
    BY <1>1, <1>13
  <2> QED  BY <2>1, <1>1, <1>10, <1>14, <1>15
<1>17. \A i \in 1 .. m : segs[i].nobj = 0 /\ segs[i].n1 <= segs[i].n2 /\ segs[i].gen # loader.gen
  <2> SUFFICES ASSUME NEW i \in 1 .. m
               PROVE  segs[i].nobj = 0 /\ segs[i].n1 <= segs[i].n2 /\ segs[i].gen # loader.gen
    OBVIOUS
  <2>0. z \in Nat
    BY <1>1
  <2> HIDE DEF z
  <2>1. i \in 1 .. z /\ i # z /\ i \in 1 .. i
    BY <2>0, <1>13
  <2> USE DEF z
  <2>2. list[i] = segs[i]
    BY <2>1, <1>10
  <2>3. i \in Empty(list) /\ ~ InUse(list, i)
    BY <1>11, <1>12
  <2>4. segs[i].nobj = 0
    BY <2>1, <2>2, <2>3 DEF Empty
  <2>5. segs[i].n1 \in Nat /\ segs[i].n2 \in Nat
    BY <2>1, <1>1, SegsAre, SegFields
  <2> QED  BY <2>2, <2>3, <2>4, <2>5 DEF InUse
<1>18. /\ r.gen = cur /\ r.offset = segs[z].offset /\ r.nalloc = segs[z].n1
       /\ r.length = (nextAddr + 2 + segs[z].n1) - segs[z].offset
       /\ r.n = segs[z].n /\ r.n1 = segs[z].n1 /\ r.n2 = segs[z].n2 /\ r.nobj = segs[z].nobj /\ r.load = segs[z].load
       /\ 3 <= r.length /\ r.length <= AimSegl
  BY <1>2, <1>3, <1>5, <1>7
<1>19. /\ unit' = [a \in DOMAIN unit |-> IF a \in nextAddr .. (nextAddr + 2 + segs[z].n1) - 1 THEN cur ELSE unit[a]]
       /\ Len(index'[cur]) = segs[z].n1 /\ index'[cur] \in Seq(Desc)
       /\ \A i \in 1 .. segs[z].n1 : index'[cur][i] = IF i <= segs[z].n2 THEN buf[i] ELSE Dead
  BY CloseSilo
<1>20. Shut(r, m)
  BY <1>6, <1>11, <1>13, <1>14, <1>15, <1>16, <1>17, <1>18, <1>19 DEF Shut
<1> QED  BY <1>20

\* The open segment becomes a closed one.
LEMMA ShapeCloseSeg ==
  ASSUME Shape, Alive, saving = 0, child = "up", smp_close_seg
  PROVE  Shape'
<1>1. /\ UNCHANGED <<tab, place, ban, time, made, hist>>
      /\ unit' \in [SPC .. MediaSize - 1 -> 0 .. MaxGen]
      /\ index' \in Seq(Seq(Desc)) /\ Len(index') = Len(index) /\ DOMAIN index' = DOMAIN index
      /\ \A g \in DOMAIN index : g # cur => index'[g] = index[g]
  BY CloseSilo
<1>2. SiloTypes'
  BY <1>1 DEF Shape, SiloTypes
<1>3. CASE ~ Alive'
  <2>1. Lost
    BY <1>3 DEF smp_close_seg, Alive
  <2> QED  BY <2>1, <1>1, <1>2, ShapeLost
<1>4. CASE Alive'
  <2>1. PICK r, m : Shut(r, m)
    BY <1>4, CloseIs
  <2>2. Types'
    <3>1. <<>> \in Seq(Desc) /\ SPC \in Nat /\ 0 \in 0 .. MaxGen /\ 1 \in 0 .. 9
      BY EmptySeq, Sizes
    <3> QED  BY <1>1, <1>2, <2>1, <3>1 DEF Shape, Types, ChildTypes, BanTypes, Shut, hist
  <2>3. TabShape'
    <3>1. cur' = 0 /\ child # "lost"
      BY <2>1 DEF Shut
    <3> QED  BY <1>1, <3>1, TabStand
  <2>4. \A i \in DOMAIN segs' : /\ i + m \in DOMAIN segs
                                /\ segs'[i] = (IF i + m = Len(segs) THEN r ELSE segs[i + m])
    BY <2>1 DEF Shut
  <2>5. /\ r \in SegRec /\ r.gen = cur /\ r.offset = segs[Len(segs)].offset /\ r.nalloc = segs[Len(segs)].n1
        /\ r.n1 = segs[Len(segs)].n1 /\ r.n2 = segs[Len(segs)].n2 /\ r.load = segs[Len(segs)].load
        /\ 3 <= r.length /\ r.length <= AimSegl /\ Len(index'[cur]) = r.n1
    BY <2>1 DEF Shut
  <2>6. /\ Running /\ Open /\ Len(segs) \in DOMAIN segs /\ segs[Len(segs)].gen = cur /\ Ordered(segs)
        /\ segs[Len(segs)] \in SegRec
        /\ \A i \in DOMAIN segs : i # Len(segs) => segs[i].gen # cur
    BY CurIs, SegsAre DEF Running
  <2>7. ASSUME NEW i \in DOMAIN segs' PROVE Listed(segs[i])' /\ segs'[i].gen = segs[i + m].gen
    <3>1. Listed(segs[i + m]) /\ Listed(segs[Len(segs)])
      BY <2>4, <2>6 DEF Ordered
    <3> QED  BY <1>1, <2>4, <2>5, <2>6, <3>1 DEF Listed
  <2>8. Ordered(segs)'
    <3>1. ASSUME NEW i \in DOMAIN segs', NEW k \in DOMAIN segs', i < k PROVE segs'[i].gen < segs'[k].gen
      <4>1. i \in Int /\ k \in Int /\ m \in Int
        BY <2>1, LenProperties DEF Shut
      <4>2. i + m < k + m
        BY <3>1, <4>1
      <4> QED  BY <4>2, <2>4, <2>6, <2>7 DEF Ordered
    <3> QED  BY <2>7, <3>1 DEF Ordered
  <2>9. ASSUME NEW i \in DOMAIN segs' PROVE Settled(segs[i])'
    <3>1. CASE i + m = Len(segs)
      <4>1. segs'[i] = r /\ cur' = 0 /\ r.gen # 0
        BY <2>1, <2>4, <2>5, <3>1, SegFields DEF Shut
      <4>2. r.n2 <= r.n1 /\ ~ r.load
        BY <2>5, <2>6 DEF Open
      <4> QED  BY <4>1, <4>2, <2>5 DEF Settled, Closed
    <3>2. CASE i + m # Len(segs)
      <4>1. segs'[i] = segs[i + m] /\ segs[i + m].gen # cur /\ i + m \in DOMAIN segs
        BY <2>4, <2>6, <3>2
      <4>2. Settled(segs[i + m]) /\ segs[i + m].gen \in DOMAIN index /\ segs[i + m].gen # 0 /\ cur' = 0
        BY <2>1, <2>6, <4>1, GensListed DEF Running, Shut
      <4> QED  BY <4>1, <4>2, <1>1 DEF Settled, Closed
    <3> QED  BY <3>1, <3>2
  <2>10. Loads'
    <3> SUFFICES ASSUME loader.gen # 0
                 PROVE  \E i \in DOMAIN segs' :
                          /\ segs'[i].gen = loader.gen /\ loader.gen # 0 /\ segs'[i].n1 = 0
                          /\ loader.i > 0 => ~ segs'[i].load
      BY <2>1 DEF Loads, Shut
    <3>1. PICK k \in DOMAIN segs : segs[k].gen = loader.gen /\ loader.gen # cur /\ segs[k].n1 = 0
                                   /\ (loader.i > 0 => ~ segs[k].load)
      BY <2>6 DEF Running, Loads
    <3>2. k \notin 1 .. m /\ m \in Nat /\ DOMAIN segs' = 1 .. Len(segs) - m
      BY <2>1, <3>1 DEF Shut
    <3>3. k - m \in DOMAIN segs' /\ (k - m) + m = k /\ k # Len(segs)
      BY <3>1, <3>2, <2>6, SegsAre
    <3>4. segs'[k - m] = segs[k]
      BY <3>3, <2>4
    <3> QED  BY <3>1, <3>3, <3>4
  <2>11. Running'
    <3>1. Len(segs') > 0 /\ saving' = 1 /\ cur' = 0 /\ buf' = <<>> /\ child' = "up" /\ time' \in bans'
      <4>1. m \in Nat /\ m < Len(segs) /\ Len(segs') = Len(segs) - m /\ Len(segs) \in Nat
        BY <2>1, SegsAre DEF Shut
      <4> QED  BY <4>1, <1>1, <2>1, <2>6 DEF Running, Shut
    <3> QED  BY <3>1, <2>8, <2>9, <2>10 DEF Running
  <2> QED  BY <1>4, <2>2, <2>3, <2>11 DEF Shape, Types, Alive
<1> QED  BY <1>3, <1>4

-----------------------------------------------------------------------------
\* What is kept of a table is its end.
LEMMA KeepIs ==
  ASSUME NEW l \in Seq(Ptr), \A i \in DOMAIN l : SPC <= l[i].offset /\ 0 < l[i].length,
         NEW keep, keep = smp_open_segs(l).keep
  PROVE  \E j \in Nat :
           /\ keep \in Seq(Ptr) /\ Len(keep) + j = Len(l) /\ DOMAIN keep = 1 .. Len(keep) /\ Len(keep) \in Nat
           /\ \A i \in DOMAIN keep : i + j \in DOMAIN l /\ keep[i] = l[i + j] /\ i \in Nat
<1>1. Len(l) \in Nat /\ DOMAIN l = 1 .. Len(l)
  BY LenProperties
<1>2. /\ l = <<>> => keep = <<>>
      /\ l # <<>> => \E j \in 1 .. Len(l) : keep = SubSeq(l, j, Len(l))
  BY OpenSegs
<1>3. CASE l = <<>>
  <2>1. keep \in Seq(Ptr) /\ Len(keep) = 0 /\ Len(l) = 0
    BY <1>2, <1>3, EmptySeq
  <2>a. 1 .. 0 = {}
    OBVIOUS
  <2>2. DOMAIN keep = 1 .. 0
    BY <2>1, LenProperties
  <2>3. Len(keep) + 0 = Len(l) /\ DOMAIN keep = {}
    BY <2>1, <2>2, <2>a
  <2> QED  BY <2>1, <2>2, <2>3
<1>4. CASE l # <<>>
  <2>1. PICK q \in 1 .. Len(l) : keep = SubSeq(l, q, Len(l))
    BY <1>2, <1>4
  <2>2. PICK n \in Nat : n = Len(l)
    BY <1>1
  <2>3. q \in Int /\ 1 <= q /\ q <= n
    BY <2>1, <2>2
  <2>4. \A i \in q .. n : l[i] \in Ptr
    BY <1>1, <2>2, <2>3, ElementOfSeq
  <2>5. /\ SubSeq(l, q, n) \in Seq(Ptr)
        /\ Len(SubSeq(l, q, n)) = (IF q <= n THEN n - q + 1 ELSE 0)
        /\ \A i \in 1 .. n - q + 1 : SubSeq(l, q, n)[i] = l[q + i - 1]
    BY <2>3, <2>4, SubSeqProperties
  <2>6. PICK j \in Nat : j = q - 1
    <3>1. q - 1 \in Nat
      BY <2>3
    <3> QED  BY <3>1
  <2>7. /\ n - q + 1 = n - j /\ n - j \in Nat /\ (n - j) + j = n
        /\ \A i \in 1 .. n - j : q + i - 1 = i + j /\ i + j \in 1 .. n /\ i \in Nat
    BY <2>3, <2>6
  <2>8. keep \in Seq(Ptr) /\ Len(keep) = n - j /\ \A i \in 1 .. n - j : keep[i] = l[i + j]
    BY <2>1, <2>2, <2>3, <2>5, <2>7
  <2>9. DOMAIN keep = 1 .. n - j
    BY <2>8, LenProperties
  <2> QED  BY <1>1, <2>2, <2>7, <2>8, <2>9
<1> QED  BY <1>3, <1>4

\* The table that a start takes.
LEMMA ChosenIs ==
  ASSUME Shape, child # "lost"
  PROVE  /\ Chosen(tab) \in {tab[1], tab[2]}
         /\ \A t \in {tab[1], tab[2]} :
              /\ t.list \in Seq(Ptr) /\ Ordered(t.list) /\ \A i \in DOMAIN t.list : Closed(t.list[i])
              /\ \A i \in DOMAIN t.list : SPC <= t.list[i].offset /\ 0 < t.list[i].length
<1>1. \A t \in 1 .. 2 : tab[t].list \in Seq(Ptr) /\ Ordered(tab[t].list) /\ \A i \in DOMAIN tab[t].list : Closed(tab[t].list[i])
  BY DEF Shape, SiloTypes, TabShape
<1>2. \A t \in 1 .. 2 : \A i \in DOMAIN tab[t].list : SPC <= tab[t].list[i].offset /\ 0 < tab[t].list[i].length
  <2> SUFFICES ASSUME NEW t \in 1 .. 2, NEW i \in DOMAIN tab[t].list
               PROVE  SPC <= tab[t].list[i].offset /\ 0 < tab[t].list[i].length
    OBVIOUS
  <2>1. Listed(tab[t].list[i]) /\ Parts(tab[t].list)
    BY <1>1, PtrParts DEF Ordered
  <2> QED  BY <2>1 DEF Listed, Parts
<1>3. 1 \in 1 .. 2 /\ 2 \in 1 .. 2
  OBVIOUS
<1> QED  BY <1>1, <1>2, <1>3 DEF Chosen

\* The list that smp_open begins with: as kept, held and to be loaded.
Opened(list, keep, free) ==
  /\ keep = smp_open_segs(Chosen(tab).list).keep /\ free = smp_open_segs(Chosen(tab).list).free
  /\ list \in Seq(SegRec) /\ DOMAIN list = DOMAIN keep /\ Len(list) = Len(keep)
  /\ \A i \in DOMAIN list :
       /\ Same(list[i], keep[i]) /\ list[i].n = 0 /\ list[i].n1 = 0 /\ list[i].n2 = 0
       /\ list[i].nobj = 1 /\ list[i].load
  /\ smp_new_seg(list, free) /\ ~ OutOfSpace(list, free)
  /\ loader' = IF list = <<>> THEN NoLoad ELSE [gen |-> list[1].gen, i |-> 0]

\* smp_open begins with what smp_open_segs keeps.
LEMMA OpenIs ==
  ASSUME Shape, smp_open
  PROVE  \E list, keep, free : Opened(list, keep, free) /\ Fine(list) /\ free \in Nat /\ SPC <= free
<1>1. child = "down" /\ CanStart
  BY DEF smp_open
<1>2. PICK found : found = smp_open_segs(Chosen(tab).list)
  OBVIOUS
<1>3. PICK keep : keep = found.keep
  OBVIOUS
<1>4. PICK list : list = [i \in DOMAIN keep |->
                 [gen |-> keep[i].gen, offset |-> keep[i].offset,
                  length |-> keep[i].length, nalloc |-> keep[i].nalloc,
                  n |-> 0, n1 |-> 0, n2 |-> 0, nobj |-> 1, load |-> TRUE]]
  OBVIOUS
<1>5. PICK l \in Seq(Ptr) : /\ l = Chosen(tab).list /\ Ordered(l) /\ \A i \in DOMAIN l : Closed(l[i])
                            /\ \A i \in DOMAIN l : SPC <= l[i].offset /\ 0 < l[i].length
  BY <1>1, ChosenIs
<1>6. PICK j \in Nat :
           /\ keep \in Seq(Ptr) /\ Len(keep) + j = Len(l) /\ DOMAIN keep = 1 .. Len(keep) /\ Len(keep) \in Nat
           /\ \A i \in DOMAIN keep : i + j \in DOMAIN l /\ keep[i] = l[i + j] /\ i \in Nat
  BY <1>2, <1>3, <1>5, KeepIs
<1>7. ASSUME NEW i \in DOMAIN keep
      PROVE  /\ list[i] \in SegRec /\ Same(list[i], keep[i]) /\ list[i].n = 0 /\ list[i].n1 = 0 /\ list[i].n2 = 0
             /\ list[i].nobj = 1 /\ list[i].load
  <2>1. list[i] = [gen |-> keep[i].gen, offset |-> keep[i].offset,
                  length |-> keep[i].length, nalloc |-> keep[i].nalloc,
                  n |-> 0, n1 |-> 0, n2 |-> 0, nobj |-> 1, load |-> TRUE]
    BY <1>4
  <2>2. keep[i] \in Ptr
    BY <1>6, ElementOfSeq
  <2>3. keep[i].gen \in 1 .. MaxGen /\ keep[i].offset \in Nat /\ keep[i].length \in Nat /\ keep[i].nalloc \in Nat
    BY <2>2 DEF Ptr
  <2> QED  BY <2>1, <2>3 DEF SegRec, Same
<1>8. list \in Seq(SegRec) /\ DOMAIN list = DOMAIN keep
  <2>1. DOMAIN list = 1 .. Len(keep) /\ \A i \in 1 .. Len(keep) : list[i] \in SegRec
    BY <1>4, <1>6, <1>7
  <2>2. list \in [1 .. Len(keep) -> SegRec]
    BY <1>4, <2>1
  <2> QED  BY <1>6, <2>1, <2>2, SeqDef
<1>9. Len(list) = Len(keep)
  BY <1>6, <1>8, LenProperties
<1>10. smp_new_seg(list, found.free) /\ loader' = IF list = <<>> THEN NoLoad ELSE [gen |-> list[1].gen, i |-> 0]
  BY <1>2, <1>3, <1>4 DEF smp_open
<1>11. ~ OutOfSpace(list, found.free)
  <2>1. ~ OutOfSpace(keep, found.free)
    BY <1>1, <1>2, <1>3 DEF CanStart
  <2>2. First(list) = First(keep)
    <3>1. CASE keep = <<>>
      <4>1. list = <<>>
        BY <3>1, <1>8, <1>9, EmptySeq
      <4> QED  BY <3>1, <4>1
    <3>2. CASE keep # <<>>
      <4>1. Len(keep) \in Nat \ {0}
        BY <3>2, <1>6, EmptySeq
      <4>2. 1 \in DOMAIN keep /\ list # <<>>
        BY <4>1, <1>6, <1>9, EmptySeq
      <4> QED  BY <3>2, <4>2, <1>7 DEF First, Same
    <3> QED  BY <3>1, <3>2
  <2> QED  BY <2>1, <2>2 DEF OutOfSpace
<1>12. Fine(list)
  <2>1. \A i \in DOMAIN list : /\ list[i].gen = l[i + j].gen /\ list[i].offset = l[i + j].offset
                               /\ list[i].length = l[i + j].length /\ list[i].nalloc = l[i + j].nalloc
                               /\ i + j \in DOMAIN l /\ i \in Nat
    BY <1>6, <1>7, <1>8 DEF Same
  <2>2. \A i, k \in DOMAIN list : i < k => i + j < k + j
    BY <2>1
  <2>3. Ordered(list)
    BY <2>1, <2>2, <1>5 DEF Ordered, Listed
  <2>4. \A i \in DOMAIN list : Len(index[list[i].gen]) = list[i].nalloc
    BY <2>1, <1>5 DEF Closed
  <2> QED  BY <2>3, <2>4, <1>7, <1>8 DEF Fine
<1>13. found.free \in Nat /\ SPC <= found.free
  BY <1>2, <1>5, OpenSegs
<1>14. Opened(list, keep, found.free)
  BY <1>2, <1>3, <1>7, <1>8, <1>9, <1>10, <1>11 DEF Opened
<1> QED  BY <1>12, <1>13, <1>14

\* The child starts.
LEMMA ShapeOpen ==
  ASSUME Shape, smp_open
  PROVE  Shape' /\ Alive'
<1>1. /\ child = "down" /\ time < MaxTime /\ MoreSegs /\ child' = "start" /\ time' = time + 1
      /\ bans' = Chosen(ban).bans \cup {time + 1} /\ banStep' = 1
      /\ torn' = (torn \/ tab[1] # tab[2] \/ ban[1] # ban[2])
      /\ UNCHANGED <<tab, ban, want, saving, cached, made>>
  BY DEF smp_open, allocVars
<1>2. PICK list, keep, free : Opened(list, keep, free) /\ Fine(list) /\ free \in Nat /\ SPC <= free
  BY OpenIs
<1>3. Gone /\ want' = NoWant /\ saving' = 0
  BY <1>1 DEF Shape, Gone
<1>4. want' \in Want /\ Alive'
  BY <1>1, <1>3 DEF Want, NoWant, Alive
<1>5. /\ loader' \in [gen : 0 .. MaxGen, i : Nat]
      /\ loader'.gen # 0 => \E i \in DOMAIN list :
           list[i].gen = loader'.gen /\ list[i].n1 = 0 /\ (loader'.i > 0 => ~ list[i].load)
  <2>1. CASE list = <<>>
    <3>1. loader' = NoLoad
      BY <1>2, <2>1 DEF Opened
    <3> QED  BY <3>1, Sizes DEF NoLoad
  <2>2. CASE list # <<>>
    <3>1. list \in Seq(SegRec) /\ Len(list) \in Nat \ {0}
      BY <1>2, <2>2, EmptySeq DEF Opened
    <3>2. 1 \in DOMAIN list /\ list[1] \in SegRec
      BY <3>1, LenProperties, ElementOfSeq
    <3>3. list[1].gen \in 0 .. MaxGen
      BY <3>2, SegFields, Sizes
    <3>4. loader' = [gen |-> list[1].gen, i |-> 0]
      BY <1>2, <2>2 DEF Opened
    <3>5. loader'.gen = list[1].gen /\ loader'.i = 0 /\ list[1].n1 = 0
      BY <3>2, <3>4, <1>2 DEF Opened
    <3>6. loader' \in [gen : 0 .. MaxGen, i : Nat]
      BY <3>3, <3>4
    <3> QED  BY <3>2, <3>5, <3>6
  <2> QED  BY <2>1, <2>2
<1>6. BanTypes' /\ time' \in bans'
  <2>1. time \in Nat /\ made \subseteq 1 .. time /\ torn \in BOOLEAN
    BY DEF Shape, BanTypes
  <2>2. Chosen(ban).bans \subseteq 1 .. time
    BY DEF Shape, BanTypes, Chosen
  <2>3. time' \in 0 .. MaxTime /\ 1 .. time \subseteq 1 .. time' /\ time + 1 \in 1 .. time' /\ 1 \in 0 .. 6
    BY <2>1, <1>1, Sizes
  <2>4. met' \in BOOLEAN /\ torn' \in BOOLEAN
    BY <1>1, <1>2 DEF Opened, smp_new_seg
  <2>5. \A i \in 1 .. 2 : ban'[i].bans \subseteq 1 .. time'
    BY <2>3, <1>1 DEF Shape, BanTypes
  <2> QED  BY <2>1, <2>2, <2>3, <2>4, <2>5, <1>1 DEF BanTypes
<1>7. child # "lost" /\ (child' = "start" => banStep' # 0 /\ want' = NoWant)
  BY <1>1, <1>3
<1>8. smp_new_seg(list, free)
  BY <1>2 DEF Opened
<1> QED  BY <1>1, <1>2, <1>3, <1>4, <1>5, <1>6, <1>7, <1>8, ShapeNewSeg

\* No child can start.
LEMMA ShapeFails ==
  ASSUME Shape, StartFails
  PROVE  Shape' /\ ~ Alive'
<1>1. child = "down" /\ child' = "panic" /\ Gone
      /\ UNCHANGED <<siloVars, segVars, allocVars, loader, cached, banVars, hist>>
  BY DEF StartFails, Shape
<1>2. SiloTypes' /\ ChildTypes' /\ BanTypes'
  BY <1>1 DEF Shape, SiloTypes, ChildTypes, BanTypes, siloVars, segVars, allocVars, banVars, hist
<1>3. TabShape'
  BY <1>1, TabStand DEF siloVars, segVars
<1>4. Gone'
  BY <1>1 DEF Gone, segVars, allocVars, banVars, NoWant, NoLoad
<1> QED  BY <1>1, <1>2, <1>3, <1>4 DEF Shape, Alive

\* The new silo.
LEMMA ShapeInit ==
  ASSUME Init
  PROVE  Shape
<1>1. SiloTypes
  <2>1. <<>> \in Seq(Ptr) /\ <<>> \in Seq(Nat) /\ <<>> \in Seq(Seq(Desc)) /\ Len(<<>>) = 0
    BY EmptySeq
  <2>2. tab \in [1 .. 2 -> [ok : BOOLEAN, list : Seq(Ptr)]]
    BY <2>1 DEF Init
  <2>3. ban \in [1 .. 2 -> [ok : BOOLEAN, bans : SUBSET (1 .. MaxTime)]]
    BY DEF Init
  <2>4. unit \in [SPC .. MediaSize - 1 -> 0 .. MaxGen]
    BY Sizes DEF Init
  <2> QED  BY <2>1, <2>2, <2>3, <2>4, Sizes DEF SiloTypes, Init
<1>2. Gone /\ child = "down"
  BY DEF Init, Gone
<1>3. ChildTypes /\ BanTypes
  <2>1. NoWant \in Want /\ NoLoad \in [gen : 0 .. MaxGen, i : Nat]
    BY Sizes DEF NoWant, Want, NoLoad
  <2>2. <<>> \in Seq(SegRec) /\ <<>> \in Seq(Desc) /\ SPC \in Nat /\ IsFiniteSet({})
    BY EmptySeq, FS_EmptySet DEF SPC
  <2>3. 0 \in 0 .. MaxGen /\ 0 \in 0 .. 9 /\ 0 \in 0 .. 6 /\ 0 \in 0 .. MaxTime
    BY Sizes
  <2>4. \A i \in 1 .. 2 : ban[i].bans = {}
    BY DEF Init
  <2> QED  BY <2>1, <2>2, <2>3, <2>4 DEF Init, ChildTypes, BanTypes
<1>4. TabShape
  <2>1. \A t \in 1 .. 2 : tab[t].list = <<>>
    BY DEF Init
  <2> QED  BY <2>1 DEF TabShape, Ordered
<1> QED  BY <1>1, <1>2, <1>3, <1>4 DEF Shape, Alive

\* A running child does what a lost one cannot.
LEMMA WhoActs ==
  ASSUME Shape, child # "lost"
  PROVE  /\ want # NoWant \/ saving # 0 \/ banStep # 0 => Alive
         /\ cached # {} => Alive
BY DEF Shape, ChildTypes, Gone, Alive

\* Every step keeps Shape.
LEMMA ShapeNext ==
  ASSUME Shape, Objects, [Next]_vars
  PROVE  Shape'
<1>1. CASE UNCHANGED vars
  BY <1>1, SMTT(30) DEF vars, siloVars, segVars, allocVars, banVars, hist, Shape, SiloTypes, ChildTypes, BanTypes, TabShape,
       Gone, Alive, Running, Ordered, Listed, Closed, Settled, Loads, Open, smp_segend, NoWant, NoLoad
<1> SUFFICES ASSUME Next PROVE Shape'
  BY <1>1
<1>0. child # "lost"
  BY DEF Next
<1>2. CASE StartFails \/ smp_open
  BY <1>2, ShapeFails, ShapeOpen
<1>3. CASE BAN_Insert \/ SMP_NewBan
  BY <1>0, <1>3, ShapeBanInsert, ShapeNewBan
<1>4. CASE \E a \in Asked : smp_alloc(a)
  BY <1>4, ShapeAlloc
<1>5. CASE AllocTakes \/ AllocSkips
  <2>1. Alive
    BY <1>0, <1>5, WhoActs DEF AllocTakes, AllocSkips
  <2> QED  BY <2>1, <1>5, ShapeTakes, ShapeSkips
<1>6. CASE AllocCloses
  <2>1. Alive /\ saving = 0 /\ want # NoWant /\ smp_close_seg
    BY <1>0, <1>6, WhoActs DEF AllocCloses
  <2>2. child = "up"
    BY <2>1, SegsAre DEF Running, Alive
  <2> QED  BY <2>1, <2>2, ShapeCloseSeg
<1>7. CASE smp_save_seg \/ Saved
  BY <1>0, <1>7, ShapeSave, ShapeSaved
<1>8. CASE smp_close
  <2>1. Alive /\ saving = 0 /\ child = "up"
    BY <1>8 DEF smp_close, Locked, Alive
  <2>2. CASE Die /\ UNCHANGED <<siloVars, ban, time, made, hist>>
    BY <2>1, <2>2, ShapeDie
  <2>3. CASE smp_close_seg
    BY <2>1, <2>3, ShapeCloseSeg
  <2> QED  BY <2>2, <2>3, <1>8 DEF smp_close
<1>9. CASE \E g \in Gens(segs) : smp_object(g)
  BY <1>9, ShapeNewObject
<1>10. CASE \E o \in cached : SMP_FreeObj(o) \/ SMP_BANchanged(o) \/ SMP_TTLchanged(o)
  BY <1>10, ShapeFree, ShapeChanged
<1>11. CASE LoadBegins \/ LoadObject \/ LoadNext
  BY <1>11, ShapeLoadBegins, ShapeLoadObject, ShapeLoadNext
<1>12. CASE Crash
  BY <1>12, ShapeDie DEF Crash, Alive
<1> QED  BY <1>2, <1>3, <1>4, <1>5, <1>6, <1>7, <1>8, <1>9, <1>10, <1>11, <1>12 DEF Next

-----------------------------------------------------------------------------
(***************************************************************************)
(* Around the silo                                                         *)
(***************************************************************************)
LEMMA RingedEnds ==
  ASSUME Ringed, tab' = tab, met' = met, ~ Alive'
  PROVE  Ringed'
BY DEF Ringed, Ring, Before, smp_segend

\* Neither the tables nor the places of the segments change.
LEMMA RingedStands ==
  ASSUME Shape, Alive, Ringed, tab' = tab, met' = met, segs' \in Seq(SegRec), Len(segs') = Len(segs),
         \A i \in DOMAIN segs : Same(segs'[i], segs[i])
  PROVE  Ringed'
<1> SUFFICES ASSUME ~ met PROVE Ring(tab[1].list)' /\ Ring(tab[2].list)' /\ Ring(segs)'
  BY DEF Ringed
<1>1. Ring(tab[1].list) /\ Ring(tab[2].list) /\ Ring(segs)
  BY DEF Ringed
<1>2. Ring(tab[1].list)' /\ Ring(tab[2].list)'
  BY <1>1, SMTT(30) DEF Ring, Before, smp_segend
<1>3. PICK part : part = segs'
  OBVIOUS
<1>4. /\ DOMAIN part = 1 .. Len(part) /\ Len(part) \in Nat /\ DOMAIN segs = 1 .. Len(segs) /\ Parts(segs)
  BY <1>3, SegsAre, LenProperties
<1>5. \A i \in DOMAIN part : i + 0 = i /\ part[i].offset = segs[i].offset /\ part[i].length = segs[i].length
  BY <1>3, <1>4 DEF Same
<1>6. 0 \in Nat /\ Len(part) + 0 <= Len(segs)
  BY <1>3, <1>4
<1>7. Ring(part)
  BY <1>1, <1>4, <1>5, <1>6, RingPart
<1>8. Ring(segs)'
  BY <1>3, <1>7 DEF Ring, Before, smp_segend
<1> QED  BY <1>2, <1>8

\* The sizes of what is listed.
LEMMA ListedParts ==
  ASSUME NEW list, Parts(list), Ordered(list)
  PROVE  \A i \in DOMAIN list :
           /\ SPC <= list[i].offset /\ list[i].offset + AimSegl <= MediaSize
           /\ 0 < list[i].length /\ list[i].length <= AimSegl
BY DEF Ordered, Listed, Parts

\* A new segment where there is room goes on around the silo.
LEMMA RingedNew ==
  ASSUME Shape, Ringed, tab' = tab, NEW list, Fine(list), NEW free \in Nat, SPC <= free, MoreSegs,
         smp_new_seg(list, free), ~ OutOfSpace(list, free),
         ~ met => Ring(list) /\ Room(list, free)
  PROVE  Ringed'
<1>1. PICK g, off, new : Made(list, free, g, off, new)
  BY NewSegIs DEF Fine
<1> SUFFICES ASSUME ~ met' PROVE Ring(tab[1].list)' /\ Ring(tab[2].list)' /\ Ring(segs)'
  BY DEF Ringed
<1>2. ~ met /\ First(list) # Offset(free)
  BY <1>1 DEF Made
<1>3. Ring(tab[1].list)' /\ Ring(tab[2].list)'
  BY <1>2 DEF Ringed, Ring, Before, smp_segend
<1>4. PICK s : s = segs'
  OBVIOUS
<1>5. Parts(list) /\ Parts(s)
  BY <1>1, <1>4, PtrParts DEF Fine, Made
<1>6. list = <<>> \/ Len(list) > 0
  BY EmptySeq DEF Fine
<1>7. /\ Len(s) = Len(list) + 1 /\ \A i \in DOMAIN list : s[i] = list[i]
      /\ s[Len(s)].offset = Offset(free) /\ s[Len(s)].length = AimSegl
  BY <1>1, <1>4 DEF Made
<1>8. Ring(s)
  BY <1>2, <1>5, <1>6, <1>7, ListedParts, RingNew DEF Fine
<1>9. Ring(segs)'
  BY <1>4, <1>8 DEF Ring, Before, smp_segend
<1> QED  BY <1>3, <1>9

\* Behind a segment that was removed.
LEMMA RingedSkips ==
  ASSUME Shape, Alive, Ringed, AllocSkips
  PROVE  Ringed'
<1>1. /\ saving = 0 /\ NewSegAndTry(Front(segs), freeOff) /\ tab' = tab
  BY DEF AllocSkips
<1>2. CASE Die /\ met' = met
  BY <1>1, <1>2, RingedEnds DEF Die, Alive
<1>3. CASE MoreSegs /\ ~ OutOfSpace(Front(segs), freeOff) /\ smp_new_seg(Front(segs), freeOff)
  <2>1. PICK f : f = Front(segs)
    OBVIOUS
  <2>2. /\ Fine(f) /\ Len(f) = Len(segs) - 1 /\ \A i \in DOMAIN f : f[i] = segs[i]
    BY <1>1, <2>1, FineParts
  <2>3. Parts(segs) /\ Parts(f) /\ Ordered(segs) /\ Len(segs) > 0 /\ Len(segs) \in Nat
    BY <2>2, SegsAre, PtrParts DEF Fine, Running
  <2>4. /\ freeOff \in Nat /\ SPC <= freeOff /\ freeOff = smp_segend(segs[Len(segs)])
    <3>1. Open /\ Listed(segs[Len(segs)]) /\ segs[Len(segs)] \in SegRec
      BY <1>1, CurIs, SegsAre
    <3> QED  BY <3>1, SegFields, Sizes, SMTT(30) DEF Open, Listed, smp_segend, Shape, ChildTypes
  <2>5. ASSUME ~ met PROVE Ring(f) /\ Room(f, freeOff)
    <3>1. Ring(segs)
      BY <2>5 DEF Ringed
    <3>2. \A i \in DOMAIN f : f[i].offset = segs[i + 0].offset /\ f[i].length = segs[i + 0].length
      <4>1. \A i \in DOMAIN f : i + 0 = i
        BY <2>3 DEF Parts
      <4> QED  BY <4>1, <2>2
    <3>3. 0 \in Nat /\ Len(f) \in Nat /\ DOMAIN f = 1 .. Len(f) /\ Len(f) + 0 <= Len(segs)
      BY <2>2, <2>3 DEF Parts
    <3>4. Ring(f)
      BY <3>1, <3>2, <3>3, <2>3, RingPart
    <3>5. \A i \in DOMAIN segs : segs[i].length > 0
      BY <2>3, ListedParts DEF Parts
    <3>6. DOMAIN f = 1 .. Len(segs) - 1
      BY <2>2, <3>3
    <3>7. Room(f, freeOff)
      BY <3>1, <3>5, <3>6, <2>2, <2>3, <2>4, RoomAtEnd
    <3> QED  BY <3>4, <3>7
  <2> QED  BY <1>1, <1>3, <2>1, <2>2, <2>4, <2>5, RingedNew
<1> QED  BY <1>1, <1>2, <1>3 DEF NewSegAndTry

\* Behind the segment that was closed.
LEMMA RingedSaved ==
  ASSUME Shape, Alive, Ringed, Saved
  PROVE  Ringed'
<1>1. saving = 9 /\ tab' = tab
  BY DEF Saved
<1>2. CASE Die /\ met' = met
  BY <1>1, <1>2, RingedEnds DEF Die, Alive
<1>3. CASE /\ MoreSegs /\ ~ OutOfSpace(segs, smp_segend(Last(segs)))
           /\ smp_new_seg(segs, smp_segend(Last(segs)))
  <2>1. PICK free : free = smp_segend(segs[Len(segs)])
    OBVIOUS
  <2>2. Fine(segs)
    BY <1>1, FineParts
  <2>3. Parts(segs) /\ Ordered(segs) /\ Len(segs) > 0 /\ Len(segs) \in Nat /\ DOMAIN segs = 1 .. Len(segs)
    BY SegsAre DEF Running
  <2>4. free \in Nat /\ SPC <= free /\ free = smp_segend(Last(segs))
    <3>1. Listed(segs[Len(segs)]) /\ segs[Len(segs)] \in SegRec
      BY SegsAre
    <3> QED  BY <2>1, <3>1, SegFields, Sizes DEF Last, Listed, smp_segend
  <2>5. ASSUME ~ met PROVE Ring(segs) /\ Room(segs, free)
    <3>1. Ring(segs)
      BY <2>5 DEF Ringed
    <3>2. \A i \in DOMAIN segs : segs[i].length > 0
      BY <2>3, ListedParts DEF Parts
    <3>3. Room(segs, free)
      BY <3>1, <3>2, <2>1, <2>3, RoomAtEnd
    <3> QED  BY <3>1, <3>3
  <2> QED  BY <1>1, <1>3, <2>2, <2>4, <2>5, RingedNew
<1> QED  BY <1>2, <1>3 DEF Saved, NewSegAndTry

\* Where smp_open_segs says that writing starts.
LEMMA RingedOpen ==
  ASSUME Shape, Ringed, smp_open
  PROVE  Ringed'
<1>1. PICK list, keep, free : Opened(list, keep, free) /\ Fine(list) /\ free \in Nat /\ SPC <= free
  BY OpenIs
<1>2. MoreSegs /\ tab' = tab /\ child # "lost"
  BY DEF smp_open
<1>3. ASSUME ~ met PROVE Ring(list) /\ Room(list, free)
  <2>1. PICK t \in {tab[1], tab[2]} : t = Chosen(tab)
    BY DEF Chosen
  <2>2. Ring(t.list)
    BY <2>1, <1>3 DEF Ringed
  <2>3. t.list \in Seq(Ptr) /\ \A i \in DOMAIN t.list : SPC <= t.list[i].offset /\ 0 < t.list[i].length
    BY <1>2, <2>1, ChosenIs
  <2>4. Ring(keep) /\ Room(keep, free)
    BY <2>1, <2>2, <2>3, <1>1, OpenSegs DEF Opened
  <2>5. DOMAIN list = DOMAIN keep /\ \A i \in DOMAIN list : list[i].offset = keep[i].offset /\ list[i].length = keep[i].length
    BY <1>1 DEF Opened, Same
  <2> QED  BY <2>4, <2>5 DEF Ring, Room, Before, smp_segend
<1> QED  BY <1>1, <1>2, <1>3, RingedNew DEF Opened

\* Segments leave the list at the front; the last one gets shorter.
LEMMA RingedClose ==
  ASSUME Shape, Alive, saving = 0, Ringed, smp_close_seg
  PROVE  Ringed'
<1>0. tab' = tab /\ met' = met
  BY DEF smp_close_seg, hist
<1>1. CASE ~ Alive'
  BY <1>0, <1>1, RingedEnds
<1>2. CASE Alive'
  <2>1. PICK r, m : Shut(r, m)
    BY <1>2, CloseIs
  <2> SUFFICES ASSUME ~ met PROVE Ring(tab[1].list)' /\ Ring(tab[2].list)' /\ Ring(segs)'
    BY <1>0 DEF Ringed
  <2>2. Ring(tab[1].list)' /\ Ring(tab[2].list)'
    BY <1>0 DEF Ringed, Ring, Before, smp_segend
  <2>3. /\ Ring(segs) /\ Parts(segs) /\ Ordered(segs) /\ Len(segs) \in DOMAIN segs /\ segs \in Seq(SegRec)
        /\ DOMAIN segs = 1 .. Len(segs) /\ Len(segs) \in Nat
    BY SegsAre DEF Ringed, Running
  <2>4. PICK cut : cut = [segs EXCEPT ![Len(segs)] = r]
    OBVIOUS
  <2>5. /\ r \in SegRec /\ m \in Nat /\ m < Len(segs) /\ r.offset = segs[Len(segs)].offset
        /\ 3 <= r.length /\ r.length <= AimSegl
        /\ segs' \in Seq(SegRec) /\ Len(segs') = Len(segs) - m /\ DOMAIN segs' = 1 .. Len(segs) - m
        /\ \A i \in DOMAIN segs' : /\ i + m \in DOMAIN segs
                                   /\ segs'[i] = (IF i + m = Len(segs) THEN r ELSE segs[i + m])
    BY <2>1 DEF Shut
  <2>6. cut \in Seq(SegRec) /\ Len(cut) = Len(segs) /\ \A i \in DOMAIN segs : cut[i] = IF i = Len(segs) THEN r ELSE segs[i]
    BY <2>3, <2>4, <2>5, ExceptSeq
  <2>7. Parts(cut) /\ Open /\ r.length \in Nat
    BY <2>5, <2>6, PtrParts, CurIs, SegFields
  <2>8. \A i \in DOMAIN segs : 0 < segs[i].length /\ segs[i].length \in Nat
    BY <2>3, ListedParts DEF Parts
  <2>9. \A i \in DOMAIN segs : 0 < cut[i].length /\ cut[i].length <= segs[i].length /\ cut[i].offset = segs[i].offset
    <3> TAKE i \in DOMAIN segs
    <3>1. CASE i = Len(segs)
      BY <3>1, <2>5, <2>6, <2>7, Sizes DEF Open
    <3>2. CASE i # Len(segs)
      BY <3>2, <2>6, <2>8
    <3> QED  BY <3>1, <3>2
  <2>10. Ring(cut)
    BY <2>3, <2>6, <2>7, <2>8, <2>9, RingCut
  <2>11. PICK part : part = segs'
    OBVIOUS
  <2>12. Len(part) \in Nat /\ DOMAIN part = 1 .. Len(part) /\ Len(part) + m <= Len(cut)
    BY <2>3, <2>5, <2>6, <2>11
  <2>13. \A i \in DOMAIN part : part[i] = cut[i + m]
    BY <2>5, <2>6, <2>11
  <2>14. Ring(part)
    BY <2>5, <2>7, <2>10, <2>12, <2>13, RingPart
  <2>15. Ring(segs)'
    BY <2>11, <2>14 DEF Ring, Before, smp_segend
  <2> QED  BY <2>2, <2>15
<1> QED  BY <1>1, <1>2

\* smp_save_segs writes the list as it is, or an empty one.
LEMMA RingedSave ==
  ASSUME Shape, Alive, Ringed, smp_save_seg
  PROVE  Ringed'
<1>1. met' = met /\ segs' = segs /\ child' = child
  BY DEF smp_save_seg, hist, segVars
<1> SUFFICES ASSUME ~ met PROVE \A t \in 1 .. 2 : Ring(tab'[t].list) /\ Ring(segs)
  BY <1>1, SMTT(30) DEF Ringed, Ring, Before, smp_segend
<1>2. Ring(tab[1].list) /\ Ring(tab[2].list) /\ Ring(segs)
  BY DEF Ringed
<1>3. PICK i \in 1 .. 2 : (\A k \in 1 .. 2 : k # i => tab'[k] = tab[k]) /\ tab'[i].list \in {<<>>, Segptrs}
  BY SaveIs
<1>4. Ring(<<>>)
  BY DEF Ring
<1>5. Ring(Segptrs)
  <2>1. DOMAIN Segptrs = DOMAIN segs /\ \A k \in DOMAIN segs : Same(Segptrs[k], segs[k])
    BY SegptrsAre
  <2> QED  BY <1>2, <2>1 DEF Ring, Before, smp_segend, Same
<1>6. \A t \in 1 .. 2 : t = 1 \/ t = 2
  OBVIOUS
<1> QED  BY <1>2, <1>3, <1>4, <1>5, <1>6

\* The new silo.
LEMMA RingedInit ==
  ASSUME Init
  PROVE  Ringed
<1>1. tab[1].list = <<>> /\ tab[2].list = <<>> /\ ~ Alive
  BY DEF Init, Alive
<1> QED  BY <1>1 DEF Ringed, Ring

\* Every step keeps Ringed.
LEMMA RingedNext ==
  ASSUME Shape, Objects, Ringed, [Next]_vars
  PROVE  Ringed'
<1>1. CASE UNCHANGED vars
  BY <1>1 DEF vars, siloVars, segVars, hist, Ringed, Ring, Before, smp_segend, Alive
<1> SUFFICES ASSUME Next PROVE Ringed'
  BY <1>1
<1>0. child # "lost"
  BY DEF Next
<1>2. CASE StartFails \/ smp_open
  <2>1. StartFails => tab' = tab /\ met' = met /\ ~ Alive'
    BY DEF StartFails, siloVars, hist, Alive
  <2> QED  BY <1>2, <2>1, RingedEnds, RingedOpen
<1>3. ASSUME Alive, segs' = segs, tab' = tab, met' = met PROVE Ringed'
  <2>1. segs \in Seq(SegRec) /\ \A i \in DOMAIN segs : Same(segs[i], segs[i])
    BY <1>3, SegsAre DEF Same
  <2> QED  BY <1>3, <2>1, RingedStands
<1>4. CASE BAN_Insert \/ SMP_NewBan \/ \E a \in Asked : smp_alloc(a)
  <2>1. segs' = segs /\ tab' = tab /\ met' = met
    BY <1>4 DEF BAN_Insert, SMP_NewBan, smp_alloc, siloVars, segVars, hist
  <2>2. Alive
    BY <1>0, <1>4, WhoActs DEF BAN_Insert, SMP_NewBan, smp_alloc, Alive
  <2> QED  BY <1>3, <2>1, <2>2
<1>5. CASE AllocTakes \/ AllocSkips
  <2>1. Alive
    BY <1>0, <1>5, WhoActs DEF AllocTakes, AllocSkips
  <2>2. CASE AllocTakes
    <3>1. PICK r \in SegRec : SegStep(Len(segs), r) /\ Same(r, segs[Len(segs)])
      BY <2>1, <2>2, TakesIs
    <3>2. \A i \in DOMAIN segs : Same(segs'[i], segs[i])
      BY <3>1 DEF SegStep, Same
    <3> QED  BY <2>1, <2>2, <3>1, <3>2, RingedStands DEF AllocTakes, SegStep, hist
  <2> QED  BY <2>1, <2>2, <1>5, RingedSkips
<1>6. CASE AllocCloses
  <2>1. Alive /\ saving = 0 /\ smp_close_seg
    BY <1>0, <1>6, WhoActs DEF AllocCloses
  <2> QED  BY <2>1, RingedClose
<1>7. CASE smp_save_seg \/ Saved
  <2>1. Alive
    BY <1>0, <1>7, WhoActs DEF smp_save_seg, Saved
  <2> QED  BY <2>1, <1>7, RingedSave, RingedSaved
<1>8. CASE smp_close
  <2>1. Alive /\ saving = 0
    BY <1>8 DEF smp_close, Locked, Alive
  <2>2. CASE Die /\ UNCHANGED <<siloVars, hist>>
    BY <2>2, RingedEnds DEF Die, Alive, siloVars, hist
  <2>3. CASE smp_close_seg
    BY <2>1, <2>3, RingedClose
  <2> QED  BY <2>2, <2>3, <1>8 DEF smp_close
<1>9. CASE \E g \in Gens(segs) : smp_object(g)
  <2>1. PICK g \in Gens(segs) : smp_object(g)
    BY <1>9
  <2>2. Alive /\ tab' = tab /\ met' = met
    BY <2>1 DEF smp_object, Alive, hist
  <2>3. PICK k \in DOMAIN segs, r \in SegRec : SegStep(k, r) /\ Same(r, segs[k])
    BY <2>1, NewObjectIs
  <2>4. \A i \in DOMAIN segs : Same(segs'[i], segs[i])
    BY <2>3 DEF SegStep, Same
  <2> QED  BY <2>2, <2>3, <2>4, RingedStands DEF SegStep
<1>10. CASE \E o \in cached : SMP_FreeObj(o) \/ SMP_BANchanged(o) \/ SMP_TTLchanged(o)
  <2>1. PICK o \in cached : SMP_FreeObj(o) \/ SMP_BANchanged(o) \/ SMP_TTLchanged(o)
    BY <1>10
  <2>2. Alive /\ tab' = tab /\ met' = met
    BY <2>1 DEF SMP_FreeObj, SMP_BANchanged, SMP_TTLchanged, Alive, hist
  <2>3. CASE SMP_FreeObj(o)
    <3>1. PICK k \in DOMAIN segs, r \in SegRec : SegStep(k, r) /\ Same(r, segs[k])
      BY <2>2, <2>3, FreeIs
    <3>2. \A i \in DOMAIN segs : Same(segs'[i], segs[i])
      BY <3>1 DEF SegStep, Same
    <3> QED  BY <2>2, <3>1, <3>2, RingedStands DEF SegStep
  <2>4. CASE SMP_BANchanged(o) \/ SMP_TTLchanged(o)
    <3>1. segs' = segs
      BY <2>4 DEF SMP_BANchanged, SMP_TTLchanged
    <3> QED  BY <2>2, <3>1, <1>3
  <2> QED  BY <2>1, <2>3, <2>4
<1>11. CASE LoadBegins
  <2>1. Alive /\ tab' = tab /\ met' = met
    BY <1>11 DEF LoadBegins, Loading, Alive, siloVars, hist
  <2>2. PICK k \in DOMAIN segs, r \in SegRec : SegStep(k, r) /\ Same(r, segs[k])
    BY <1>11, BeginsIs
  <2>3. \A i \in DOMAIN segs : Same(segs'[i], segs[i])
    BY <2>2 DEF SegStep, Same
  <2> QED  BY <2>1, <2>2, <2>3, RingedStands DEF SegStep
<1>12. CASE LoadObject
  <2>1. Alive /\ tab' = tab /\ met' = met
    BY <1>12 DEF LoadObject, Loading, Alive, siloVars, hist
  <2>2. CASE ~ Alive'
    BY <2>1, <2>2, RingedEnds
  <2>3. CASE Alive'
    <3>2. PICK k \in DOMAIN segs, r \in SegRec : SegStep(k, r) /\ Same(r, segs[k])
      BY <1>12, <2>3, ObjectIs
    <3>3. \A i \in DOMAIN segs : Same(segs'[i], segs[i])
      BY <3>2 DEF SegStep, Same
    <3> QED  BY <2>1, <3>2, <3>3, RingedStands DEF SegStep
  <2> QED  BY <2>2, <2>3
<1>13. CASE LoadNext
  BY <1>3, <1>13 DEF LoadNext, Loading, Alive, siloVars, segVars, hist
<1>14. CASE Crash
  BY <1>14, RingedEnds DEF Crash, Die, Alive, siloVars, hist
<1> QED  BY <1>2, <1>4, <1>5, <1>6, <1>7, <1>8, <1>9, <1>10, <1>11, <1>12, <1>13, <1>14 DEF Next

-----------------------------------------------------------------------------
(***************************************************************************)
(* Bans                                                                    *)
(***************************************************************************)
\* The ban tables are not touched.
LEMMA BannedStands ==
  ASSUME Banned, UNCHANGED <<ban, bans, banStep, time, made, torn>>, Alive' => Alive,
         ~ torn => Named'
  PROVE  Banned'
<1>1. Both' = Both
  BY DEF Both
<1> QED  BY <1>1 DEF Banned

\* The child ends at any point of SMP_NewBan.
LEMMA BannedEnds ==
  ASSUME Banned, Die, UNCHANGED <<ban, index, time, made, torn>>
  PROVE  Banned'
<1>1. Both' = Both
  BY DEF Both
<1>2. banStep' = 0 /\ bans' = {} /\ ~ Alive' /\ buf' = <<>>
  BY DEF Die, Alive
<1>3. ~ torn => Named'
  BY <1>1, <1>2 DEF Banned, Named
<1> QED  BY <1>1, <1>2, <1>3 DEF Banned

\* No descriptor changes.
LEMMA NamedSame ==
  ASSUME Named, UNCHANGED <<ban, index, buf>>
  PROVE  Named'
BY DEF Named, Both

\* One descriptor changes, to a ban that both tables have.
LEMMA NamedPatch ==
  ASSUME Named, NEW g \in DOMAIN index, NEW i, NEW d, Patched(g, i, d), d.live => d.ban \in Both, ban' = ban
  PROVE  Named'
<1>1. Both' = Both
  BY DEF Both
<1>2. ASSUME NEW h \in DOMAIN index', NEW j \in DOMAIN index'[h], index'[h][j].live
      PROVE  index'[h][j].ban \in Both
  <2>1. h \in DOMAIN index /\ j \in DOMAIN index[h]
    BY <1>2 DEF Patched
  <2>2. CASE h # g \/ g = cur
    BY <2>1, <2>2, <1>2 DEF Patched, Named
  <2>3. CASE h = g /\ g # cur
    BY <2>1, <2>3, <1>2 DEF Patched, Named
  <2> QED  BY <2>2, <2>3
<1>3. ASSUME NEW j \in DOMAIN buf', buf'[j].live
      PROVE  buf'[j].ban \in Both
  <2>1. j \in DOMAIN buf
    BY <1>3 DEF Patched
  <2> QED  BY <2>1, <1>3 DEF Patched, Named
<1> QED  BY <1>1, <1>2, <1>3 DEF Named

\* A new segment has no descriptors.
LEMMA NamedNew ==
  ASSUME Shape, Named, NEW list, NEW free, NEW g, NEW off, NEW new, Made(list, free, g, off, new), ban' = ban
  PROVE  Named'
<1>1. Both' = Both /\ buf' = <<>>
  BY DEF Both, Made
<1>2. ASSUME NEW h \in DOMAIN index', NEW j \in DOMAIN index'[h], index'[h][j].live
      PROVE  index'[h][j].ban \in Both
  <2>1. DOMAIN index' = 1 .. g /\ g \in Nat /\ DOMAIN index = 1 .. g - 1
    <3>1. index' \in Seq(Seq(Desc)) /\ Len(index') = g /\ g = Len(place) + 1 /\ DOMAIN index = 1 .. Len(place)
          /\ g \in 1 .. MaxGen
      BY DEF Made
    <3>2. DOMAIN index' = 1 .. g /\ g \in Nat
      BY <3>1, LenProperties, Sizes
    <3>3. DOMAIN index = 1 .. g - 1
      BY <3>1, <3>2, GensListed
    <3> QED  BY <3>2, <3>3
  <2>2. CASE h = g
    BY <2>2, <1>2 DEF Made
  <2>3. CASE h # g
    <3>1. h \in DOMAIN index
      BY <2>1, <2>3
    <3>2. index'[h] = index[h]
      BY <3>1 DEF Made
    <3> QED  BY <3>1, <3>2, <1>2 DEF Named
  <2> QED  BY <2>2, <2>3
<1> QED  BY <1>1, <1>2 DEF Named

\* The six steps of SMP_NewBan.
LEMMA BannedNewBan ==
  ASSUME Shape, child # "lost", Banned, SMP_NewBan
  PROVE  Banned'
<1>1. /\ banStep \in 1 .. 6 /\ banStep' = (banStep + 1) % 7 /\ Alive
      /\ made' = (IF banStep = 6 THEN made \cup {time} ELSE made)
      /\ UNCHANGED <<index, buf, bans, time, torn>>
  BY ShapeNewBan DEF SMP_NewBan, siloVars, segVars, hist, Shape, BanTypes
<1>2. PICK i \in 1 .. 2 :
           /\ banStep \in {1, 2, 3} => i = 1
           /\ banStep \in {4, 5, 6} => i = 2
           /\ \A k \in 1 .. 2 : k # i => ban'[k] = ban[k]
           /\ banStep \in {1, 4} => ~ ban'[i].ok /\ ban'[i].bans = ban[i].bans
           /\ banStep \in {2, 5} => ban'[i].ok = ban[i].ok /\ ban'[i].bans = ban[i].bans \cup {time}
           /\ banStep \in {3, 6} => ban'[i].ok /\ ban'[i].bans = ban[i].bans
  BY NewBanIs
<1>3. 1 \in 1 .. 2 /\ 2 \in 1 .. 2
  OBVIOUS
<1>4. Both \subseteq Both'
  <2>1. \A k \in 1 .. 2 : ban[k].bans \subseteq ban'[k].bans
    BY <1>1, <1>2
  <2> QED  BY <2>1 DEF Both
<1>5. ~ torn => Named'
  BY <1>1, <1>4 DEF Banned, Named
<1>6. CASE banStep \in {1, 2, 3}
  <2>1. /\ i = 1 /\ ban'[2] = ban[2] /\ banStep' = banStep + 1 /\ made' = made /\ banStep' \in 2 .. 4
    BY <1>1, <1>2, <1>6
  <2>2. ~ torn => ban[2].ok
    BY <1>6 DEF Banned
  <2>3. banStep' >= 3 => time \in ban'[1].bans
    BY <2>1, <1>2, <1>6 DEF Banned
  <2>4. banStep' = 4 => ban'[1].ok
    BY <2>1, <1>2, <1>6
  <2>5. ~ torn => bans \ {time} \subseteq Both'
    BY <1>1, <1>4 DEF Banned
  <2>6. made' \subseteq Both'
    BY <2>1, <1>4 DEF Banned
  <2>7. ~ (banStep' >= 6) /\ banStep' # 0 /\ banStep' \notin {1, 5, 6}
    BY <2>1
  <2> QED  BY <1>1, <1>5, <2>1, <2>2, <2>3, <2>4, <2>5, <2>6, <2>7 DEF Banned
<1>7. CASE banStep \in {4, 5}
  <2>1. i = 2 /\ ban'[1] = ban[1] /\ banStep' = banStep + 1 /\ made' = made /\ banStep' \in {5, 6}
    BY <1>1, <1>2, <1>7
  <2>2. ~ torn => ban'[1].ok
    BY <2>1, <1>7 DEF Banned
  <2>3. time \in ban'[1].bans
    BY <2>1, <1>7 DEF Banned
  <2>4. banStep' >= 6 => time \in ban'[2].bans
    BY <2>1, <1>2, <1>7
  <2>5. ~ torn => bans \ {time} \subseteq Both'
    BY <1>1, <1>4 DEF Banned
  <2>6. made' \subseteq Both'
    BY <2>1, <1>4 DEF Banned
  <2>7. banStep' # 0 /\ banStep' \notin 1 .. 4
    BY <2>1
  <2> QED  BY <1>1, <1>5, <2>1, <2>2, <2>3, <2>4, <2>5, <2>6, <2>7 DEF Banned
<1>8. CASE banStep = 6
  <2>1. i = 2 /\ ban'[1] = ban[1] /\ banStep' = 0 /\ made' = made \cup {time} /\ ban'[2].ok
        /\ ban'[2].bans = ban[2].bans
    BY <1>1, <1>2, <1>8
  <2>2. ~ torn => ban'[1].ok
    BY <2>1, <1>8 DEF Banned
  <2>3. time \in Both'
    BY <2>1, <1>8 DEF Banned, Both
  <2>4. ~ torn => bans \subseteq Both'
    BY <1>1, <1>4, <2>3 DEF Banned
  <2>5. made' \subseteq Both'
    BY <2>1, <2>3, <1>4 DEF Banned
  <2> QED  BY <1>1, <1>5, <2>1, <2>2, <2>4, <2>5 DEF Banned
<1> QED  BY <1>1, <1>6, <1>7, <1>8

\* The bans are reloaded, and one more is made.
LEMMA BannedOpen ==
  ASSUME Shape, Banned, smp_open
  PROVE  Banned'
<1>1. /\ child = "down" /\ child' = "start" /\ time' = time + 1 /\ MoreSegs
      /\ bans' = Chosen(ban).bans \cup {time + 1} /\ banStep' = 1
      /\ torn' = (torn \/ tab[1] # tab[2] \/ ban[1] # ban[2])
      /\ UNCHANGED <<ban, made>>
  BY DEF smp_open
<1>2. PICK list, keep, free : Opened(list, keep, free) /\ Fine(list) /\ free \in Nat /\ SPC <= free
  BY OpenIs
<1>3. PICK g, off, new : Made(list, free, g, off, new)
  BY <1>1, <1>2, NewSegIs DEF Opened, Fine
<1>4. Both' = Both
  BY <1>1 DEF Both
<1>5. ASSUME ~ torn' PROVE ~ torn /\ ban[1] = ban[2]
  BY <1>1, <1>5 DEF Shape, BanTypes
<1>6. ASSUME ~ torn' PROVE ban[1].ok /\ ban[2].ok /\ Chosen(ban).bans = Both /\ Named'
  BY <1>1, <1>3, <1>5, <1>6, NamedNew DEF Banned, Chosen, Both
<1> QED  BY <1>1, <1>4, <1>6 DEF Banned

\* A new ban, before the silo has it.
LEMMA BannedInsert ==
  ASSUME Shape, Banned, BAN_Insert
  PROVE  Banned'
<1>1. /\ Alive /\ banStep = 0 /\ time' = time + 1 /\ bans' = bans \cup {time + 1} /\ banStep' = 1
      /\ UNCHANGED <<ban, made, torn, index, buf>>
  BY DEF BAN_Insert, Alive, siloVars, segVars, hist
<1>2. Both' = Both
  BY <1>1 DEF Both
<1>3. ~ torn => Named'
  BY <1>1, NamedSame DEF Banned
<1> QED  BY <1>1, <1>2, <1>3 DEF Banned

\* A new segment, or the end.
LEMMA BannedNewSeg ==
  ASSUME Shape, Alive, Banned, NEW list, Fine(list), NEW free \in Nat, SPC <= free,
         NewSegAndTry(list, free), UNCHANGED <<ban, time, made, torn>>
  PROVE  Banned'
<1>1. CASE Die /\ UNCHANGED index
  BY <1>1, BannedEnds
<1>2. CASE MoreSegs /\ smp_new_seg(list, free) /\ UNCHANGED <<child, bans, banStep>>
  <2>1. PICK g, off, new : Made(list, free, g, off, new)
    BY <1>2, NewSegIs DEF Fine
  <2>2. ~ torn => Named'
    BY <2>1, NamedNew DEF Banned
  <2> QED  BY <1>2, <2>2, BannedStands DEF Alive
<1> QED  BY <1>1, <1>2 DEF NewSegAndTry

\* The descriptors in memory are written to the silo.
LEMMA BannedClose ==
  ASSUME Shape, Alive, saving = 0, Banned, smp_close_seg
  PROVE  Banned'
<1>1. /\ UNCHANGED <<ban, time, made, torn>> /\ DOMAIN index' = DOMAIN index
      /\ \A g \in DOMAIN index : g # cur => index'[g] = index[g]
      /\ Len(index'[cur]) = segs[Len(segs)].n1 /\ index'[cur] \in Seq(Desc)
      /\ \A i \in 1 .. segs[Len(segs)].n1 :
              index'[cur][i] = IF i <= segs[Len(segs)].n2 THEN buf[i] ELSE Dead
  BY CloseSilo DEF hist
<1>2. UNCHANGED <<bans, banStep>> /\ buf' \in {<<>>, buf}
  BY DEF smp_close_seg, Lost, segVars
<1>3. ASSUME Named PROVE Named'
  <2>1. Both' = Both
    BY <1>1 DEF Both
  <2>2. ASSUME NEW i \in DOMAIN buf', buf'[i].live PROVE buf'[i].ban \in Both
    BY <1>2, <1>3, <2>2 DEF Named
  <2>3. ASSUME NEW h \in DOMAIN index', NEW i \in DOMAIN index'[h], index'[h][i].live
        PROVE  index'[h][i].ban \in Both
    <3>1. CASE h # cur
      BY <3>1, <1>1, <1>3, <2>3 DEF Named
    <3>2. CASE h = cur
      <4>1. DOMAIN index'[cur] = 1 .. segs[Len(segs)].n1
        BY <1>1, LenProperties
      <4>2. i <= segs[Len(segs)].n2 /\ index'[h][i] = buf[i] /\ i \in 1 .. segs[Len(segs)].n1
        BY <4>1, <3>2, <2>3, <1>1 DEF Dead
      <4>3. Len(buf) = segs[Len(segs)].n2 /\ segs[Len(segs)] \in SegRec
        BY CurIs, SegsAre DEF Open
      <4>4. i \in DOMAIN buf
        <5>1. DOMAIN buf = 1 .. Len(buf)
          BY LenProperties DEF Shape, ChildTypes
        <5> QED  BY <5>1, <4>2, <4>3, SegFields
      <4> QED  BY <4>2, <4>4, <1>3, <2>3 DEF Named
    <3> QED  BY <3>1, <3>2
  <2> QED  BY <2>1, <2>2, <2>3 DEF Named
<1>4. ~ torn => Named'
  BY <1>3 DEF Banned
<1> QED  BY <1>1, <1>2, <1>4, BannedStands

\* A new object is on the newest ban.
LEMMA BannedObject ==
  ASSUME Shape, Banned, NEW g \in Gens(segs), smp_object(g)
  PROVE  Banned'
<1>1. Alive /\ banStep = 0 /\ UNCHANGED <<child, ban, bans, banStep, time, made, torn>>
  BY DEF smp_object, Alive, banVars, hist
<1>2. PICK r \in SegRec, d \in Desc :
           /\ d.live /\ d.ban = time /\ time \in bans /\ g \in DOMAIN index
           /\ g = cur => buf' = Append(buf, d) /\ index' = index
           /\ g # cur => Patched(g, r.n2, d)
  BY NewObjectIs
<1>3. ASSUME ~ torn PROVE Named'
  <2>1. Named /\ d.ban \in Both
    BY <1>1, <1>2, <1>3 DEF Banned
  <2>2. CASE g # cur
    BY <1>1, <1>2, <2>1, <2>2, NamedPatch
  <2>3. CASE g = cur
    <3>1. Both' = Both /\ index' = index
      BY <1>1, <1>2, <2>3 DEF Both
    <3>2. /\ buf \in Seq(Desc) /\ Len(buf) \in Nat /\ DOMAIN buf = 1 .. Len(buf)
          /\ buf' \in Seq(Desc) /\ Len(buf') = Len(buf) + 1 /\ buf'[Len(buf) + 1] = d
          /\ \A i \in 1 .. Len(buf) : buf'[i] = buf[i]
      <4>1. buf \in Seq(Desc) /\ buf' = Append(buf, d)
        BY <1>2, <2>3 DEF Shape, ChildTypes
      <4>2. Len(buf) \in Nat /\ DOMAIN buf = 1 .. Len(buf)
        BY <4>1, LenProperties
      <4> QED  BY <4>1, <4>2, AppendProperties
    <3>3. DOMAIN buf' = 1 .. Len(buf) + 1
      BY <3>2, LenProperties
    <3>4. ASSUME NEW i \in DOMAIN buf', buf'[i].live PROVE buf'[i].ban \in Both
      <4>1. CASE i = Len(buf) + 1
        BY <4>1, <3>2, <2>1
      <4>2. CASE i # Len(buf) + 1
        <5>1. i \in DOMAIN buf
          BY <4>2, <3>2, <3>3
        <5> QED  BY <5>1, <3>2, <3>4, <2>1 DEF Named
      <4> QED  BY <4>1, <4>2
    <3> QED  BY <3>1, <3>4, <2>1 DEF Named
  <2> QED  BY <2>2, <2>3
<1> QED  BY <1>1, <1>3, BannedStands DEF Alive

\* An object changes its ban, or dies.
LEMMA BannedChanged ==
  ASSUME Shape, Objects, Banned, NEW o \in cached,
         SMP_FreeObj(o) \/ SMP_BANchanged(o) \/ SMP_TTLchanged(o)
  PROVE  Banned'
<1>1. Alive /\ UNCHANGED <<child, ban, bans, banStep, time, made, torn>>
  BY DEF SMP_FreeObj, SMP_BANchanged, SMP_TTLchanged, Alive, banVars, hist
<1>2. PICK d \in Desc : Patched(o[1], o[2], d) /\ (d.live => banStep = 0 /\ d.ban \in bans)
  BY <1>1, FreeIs, ChangedIs
<1>3. o[1] \in DOMAIN index
  BY <1>1, ObjAt
<1>4. ASSUME ~ torn PROVE Named'
  <2>1. Named /\ (d.live => d.ban \in Both)
    BY <1>1, <1>2, <1>4 DEF Banned
  <2> QED  BY <1>1, <1>2, <1>3, <2>1, NamedPatch
<1> QED  BY <1>1, <1>4, BannedStands DEF Alive

\* The new silo.
LEMMA BannedInit ==
  ASSUME Init
  PROVE  Banned
<1>1. made = {} /\ banStep = 0 /\ ban[1].ok /\ index = <<>> /\ buf = <<>> /\ ~ Alive /\ bans = {}
  BY DEF Init, Alive
<1>2. Named
  BY <1>1 DEF Named
<1> QED  BY <1>1, <1>2 DEF Banned

\* Every step keeps Banned.
LEMMA BannedNext ==
  ASSUME Shape, Objects, Banned, [Next]_vars
  PROVE  Banned'
<1>3. ASSUME UNCHANGED <<index, buf, ban, bans, banStep, time, made, torn>>, Alive' => Alive PROVE Banned'
  <2>1. ~ torn => Named'
    BY <1>3, NamedSame DEF Banned
  <2> QED  BY <1>3, <2>1, BannedStands
<1>1. CASE UNCHANGED vars
  BY <1>1, <1>3 DEF vars, siloVars, segVars, banVars, hist, Alive
<1> SUFFICES ASSUME Next PROVE Banned'
  BY <1>1
<1>0. child # "lost"
  BY DEF Next
<1>2. CASE StartFails \/ smp_open
  <2>1. CASE StartFails
    BY <2>1, <1>3 DEF StartFails, siloVars, segVars, banVars, hist, Alive
  <2> QED  BY <1>2, <2>1, BannedOpen
<1>4. CASE BAN_Insert \/ SMP_NewBan
  BY <1>0, <1>4, BannedInsert, BannedNewBan
<1>5. CASE \/ \E a \in Asked : smp_alloc(a)
           \/ AllocTakes \/ smp_save_seg \/ LoadBegins \/ LoadNext
  <2>1. UNCHANGED <<child, index, buf, ban, bans, banStep, time, made, torn>>
    BY <1>5 DEF smp_alloc, AllocTakes, smp_save_seg, LoadBegins, LoadNext, siloVars, segVars, banVars, hist
  <2> QED  BY <2>1, <1>3 DEF Alive
<1>6. CASE AllocSkips
  <2>1. Alive /\ saving = 0 /\ NewSegAndTry(Front(segs), freeOff) /\ UNCHANGED <<ban, time, made, torn>>
    BY <1>0, <1>6, WhoActs DEF AllocSkips
  <2>2. Fine(Front(segs))
    BY <2>1, FineParts
  <2>3. freeOff \in Nat /\ SPC <= freeOff
    <3>1. Open /\ Listed(segs[Len(segs)]) /\ segs[Len(segs)] \in SegRec
      BY <2>1, CurIs, SegsAre
    <3> QED  BY <3>1, SegFields, Sizes DEF Open, Listed, smp_segend, Shape, ChildTypes
  <2> QED  BY <2>1, <2>2, <2>3, BannedNewSeg
<1>7. CASE Saved
  <2>1. Alive /\ saving = 9 /\ UNCHANGED <<ban, time, made, torn>>
    BY <1>0, <1>7, WhoActs DEF Saved
  <2>2. CASE Die /\ UNCHANGED index
    BY <2>1, <2>2, BannedEnds
  <2>3. CASE NewSegAndTry(segs, smp_segend(Last(segs)))
    <3>1. Fine(segs) /\ Listed(segs[Len(segs)]) /\ segs[Len(segs)] \in SegRec
      BY <2>1, FineParts, SegsAre
    <3>2. smp_segend(Last(segs)) \in Nat /\ SPC <= smp_segend(Last(segs))
      BY <3>1, SegFields, Sizes DEF Last, Listed, smp_segend
    <3> QED  BY <2>1, <2>3, <3>1, <3>2, BannedNewSeg
  <2> QED  BY <2>2, <2>3, <1>7 DEF Saved
<1>8. CASE AllocCloses \/ smp_close
  <2>1. Alive /\ saving = 0
    BY <1>0, <1>8, WhoActs DEF AllocCloses, smp_close, Locked, Alive
  <2>2. CASE Die /\ UNCHANGED <<siloVars, ban, time, made, hist>>
    BY <2>2, BannedEnds DEF siloVars, hist
  <2>3. CASE smp_close_seg
    BY <2>1, <2>3, BannedClose
  <2> QED  BY <2>2, <2>3, <1>8 DEF AllocCloses, smp_close
<1>9. CASE \E g \in Gens(segs) : smp_object(g)
  BY <1>9, BannedObject
<1>10. CASE \E o \in cached : SMP_FreeObj(o) \/ SMP_BANchanged(o) \/ SMP_TTLchanged(o)
  BY <1>10, BannedChanged
<1>11. CASE LoadObject
  <2>1. UNCHANGED <<index, ban, time, made, torn>> /\ Alive
    BY <1>11 DEF LoadObject, Loading, Alive, siloVars, hist
  <2>2. CASE Die
    BY <2>1, <2>2, BannedEnds
  <2>3. CASE ~ Die
    <3>1. UNCHANGED <<buf, bans, banStep>>
      BY <2>3, <1>11 DEF LoadObject, Lost, segVars
    <3> QED  BY <2>1, <3>1, <1>3
  <2> QED  BY <2>2, <2>3
<1>12. CASE Crash
  BY <1>12, BannedEnds DEF Crash, siloVars, hist
<1> QED  BY <1>2, <1>4, <1>5, <1>6, <1>7, <1>8, <1>9, <1>10, <1>11, <1>12 DEF Next

-----------------------------------------------------------------------------
(***************************************************************************)
(* Objects                                                                 *)
(***************************************************************************)
\* What is to be shown of a list of segments after a step.
LEMMA ObjectsAfter ==
  ASSUME \A i \in DOMAIN segs' : \A r : r = segs'[i] => Counted(r)',
         \A i \in DOMAIN segs' : \A r : r = segs'[i] /\ r.gen # cur' /\ Intact(r)' => InHash(r)',
         \A o \in cached' : \E i \in DOMAIN segs' : segs'[i].gen = o[1],
         \A i \in DOMAIN buf' : buf'[i].live => <<cur', i>> \in cached'
  PROVE  Objects'
<1>1. ASSUME NEW i \in DOMAIN segs' PROVE Counted(segs[i])'
  <2>1. PICK r : r = segs'[i]
    OBVIOUS
  <2>2. Counted(r)'
    BY <2>1
  <2> QED  BY <2>1, <2>2 DEF Counted, Held, Bounded, Mine
<1>2. ASSUME NEW i \in DOMAIN segs', segs'[i].gen # cur', Intact(segs[i])' PROVE InHash(segs[i])'
  <2>1. PICK r : r = segs'[i]
    OBVIOUS
  <2>2. Intact(r)'
    BY <2>1, <1>2 DEF Intact, Span, smp_segend
  <2>3. InHash(r)'
    BY <2>1, <2>2, <1>2
  <2> QED  BY <2>1, <2>3 DEF InHash
<1>3. \A o \in cached' : o[1] \in Gens(segs)'
  BY DEF Gens
<1> QED  BY <1>1, <1>2, <1>3 DEF Objects

\* Nothing changes for the objects of a segment.
LEMMA CountedStands ==
  ASSUME NEW s, NEW r, Counted(s), r.gen = s.gen, r.nalloc = s.nalloc, r.nobj = s.nobj, r.load = s.load,
         r.n2 = s.n2, r.n1 = s.n1 \/ s.gen = cur, Mine(s.gen)' = Mine(s.gen), s.gen = cur <=> s.gen = cur',
         loader' = loader \/ (loader.gen # s.gen /\ loader'.gen # s.gen)
  PROVE  Counted(r)'
<1>1. Mine(r.gen)' = Mine(s.gen)
  OBVIOUS
<1>2. Held(s) => Held(r)'
  BY <1>1 DEF Held
<1>3. Bounded(r)'
  BY <1>1 DEF Bounded, Counted
<1>4. r.load => Held(r)' /\ (loader'.gen = r.gen => loader'.i = 0)
  BY <1>2 DEF Counted
<1>5. r.nobj = Cardinality(Mine(r.gen)') \/ Held(r)'
  BY <1>1, <1>2 DEF Counted
<1> QED  BY <1>1, <1>3, <1>4, <1>5 DEF Counted

\* What is alive of a segment stays in the hash.
LEMMA InHashStands ==
  ASSUME NEW s, NEW r, InHash(s), r.gen = s.gen, r.load = s.load,
         loader' = loader \/ (loader.gen # s.gen /\ loader'.gen # s.gen),
         DOMAIN index'[s.gen] = DOMAIN index[s.gen], Len(index'[s.gen]) = Len(index[s.gen]),
         \A i \in DOMAIN index[s.gen] : index'[s.gen][i].live => index[s.gen][i].live,
         \A i \in DOMAIN index[s.gen] : index'[s.gen][i].live /\ <<s.gen, i>> \in cached => <<s.gen, i>> \in cached'
  PROVE  InHash(r)'
BY DEF InHash

\* What a step writes is not of a segment that is intact after it.
Wrote(w) == DOMAIN unit' = DOMAIN unit /\ \A a \in DOMAIN unit : unit'[a] \in {unit[a], w}

\* A listed segment is inside the silo.
LEMMA SpanIn ==
  ASSUME Shape, NEW p, Listed(p), p.offset \in Nat, p.length \in Nat
  PROVE  Span(p) \subseteq DOMAIN unit /\ p.offset \in Span(p)
<1>1. DOMAIN unit = SPC .. MediaSize - 1
  BY DEF Shape, SiloTypes
<1> QED  BY <1>1, Sizes DEF Listed, Span, smp_segend

\* A segment that is intact was so before.
LEMMA IntactBack ==
  ASSUME Shape, NEW p, Listed(p), p.offset \in Nat, p.length \in Nat, NEW w, Wrote(w), w # p.gen, Intact(p)'
  PROVE  Intact(p)
<1>1. \A a \in Span(p) : a \in DOMAIN unit /\ unit'[a] = p.gen
  BY SpanIn DEF Intact
<1>2. \A a \in Span(p) : unit[a] = p.gen
  BY <1>1 DEF Wrote
<1> QED  BY <1>2 DEF Intact

\* The objects of a segment in the hash.
LEMMA MineIs ==
  ASSUME Shape, NEW g
  PROVE  /\ IsFiniteSet(Mine(g)) /\ Cardinality(Mine(g)) \in Nat
         /\ Cardinality(Mine(g)) = 0 <=> Mine(g) = {}
<1>1. IsFiniteSet(cached) /\ Mine(g) \subseteq cached
  BY DEF Shape, ChildTypes, Mine
<1>2. IsFiniteSet(Mine(g))
  BY <1>1, FS_Subset
<1> QED  BY <1>2, FS_CardinalityType, FS_EmptySet

\* One object more in the hash.
LEMMA MineAdd ==
  ASSUME Shape, NEW g, NEW i, <<g, i>> \notin cached, cached' = cached \cup {<<g, i>>}
  PROVE  /\ Mine(g)' = Mine(g) \cup {<<g, i>>} /\ Cardinality(Mine(g)') = Cardinality(Mine(g)) + 1
         /\ \A h : h # g => Mine(h)' = Mine(h)
<1>1. Mine(g)' = Mine(g) \cup {<<g, i>>} /\ <<g, i>> \notin Mine(g)
  BY DEF Mine
<1>2. Cardinality(Mine(g) \cup {<<g, i>>}) = Cardinality(Mine(g)) + 1
  BY <1>1, MineIs, FS_AddElement
<1>3. \A h : h # g => Mine(h)' = Mine(h)
  BY DEF Mine
<1> QED  BY <1>1, <1>2, <1>3

\* One object less in the hash.
LEMMA MineDrop ==
  ASSUME Shape, NEW o \in cached, cached' = cached \ {o}
  PROVE  /\ Mine(o[1])' = Mine(o[1]) \ {o} /\ Cardinality(Mine(o[1])') = Cardinality(Mine(o[1])) - 1
         /\ \A h : h # o[1] => Mine(h)' = Mine(h)
<1>1. Mine(o[1])' = Mine(o[1]) \ {o} /\ o \in Mine(o[1])
  BY DEF Mine
<1>2. Cardinality(Mine(o[1]) \ {o}) = Cardinality(Mine(o[1])) - 1
  BY <1>1, MineIs, FS_RemoveElement
<1>3. \A h : h # o[1] => Mine(h)' = Mine(h)
  BY DEF Mine
<1> QED  BY <1>1, <1>2, <1>3

\* No object comes or goes, and no segment.
LEMMA ObjectsStand ==
  ASSUME Shape, Alive, Objects, UNCHANGED <<cur, loader, cached>>, segs' \in Seq(SegRec), Len(segs') = Len(segs),
         \A i \in DOMAIN segs :
           /\ Same(segs'[i], segs[i]) /\ segs'[i].nobj = segs[i].nobj /\ segs'[i].load = segs[i].load
           /\ segs'[i].n2 = segs[i].n2 /\ (segs'[i].n1 = segs[i].n1 \/ segs[i].gen = cur),
         Wrote(cur),
         \A g \in DOMAIN index :
           /\ DOMAIN index'[g] = DOMAIN index[g] /\ Len(index'[g]) = Len(index[g])
           /\ \A i \in DOMAIN index[g] : index'[g][i].live => index[g][i].live,
         DOMAIN buf' = DOMAIN buf, \A i \in DOMAIN buf : buf'[i].live => buf[i].live
  PROVE  Objects'
<1>1. DOMAIN segs' = DOMAIN segs
  BY SegsAre, LenProperties
<1>2. \A h : Mine(h)' = Mine(h)
  BY DEF Mine
<1>3. ASSUME NEW i \in DOMAIN segs', NEW r, r = segs'[i] PROVE Counted(r)'
  <2>1. PICK s : s = segs[i]
    OBVIOUS
  <2>2. Counted(s) /\ Same(r, s) /\ r.nobj = s.nobj /\ r.load = s.load /\ r.n2 = s.n2 /\ (r.n1 = s.n1 \/ s.gen = cur)
    BY <1>1, <1>3, <2>1 DEF Objects
  <2> QED  BY <2>2, <1>2, CountedStands DEF Same
<1>4. ASSUME NEW i \in DOMAIN segs', NEW r, r = segs'[i], r.gen # cur', Intact(r)' PROVE InHash(r)'
  <2>1. PICK s : s = segs[i]
    OBVIOUS
  <2>2. Same(r, s) /\ r.load = s.load /\ s.gen # cur /\ Listed(s) /\ s \in SegRec /\ s.gen \in DOMAIN index
    BY <1>1, <1>4, <2>1, SegsAre, GensListed DEF Same
  <2>3. Intact(s)'
    BY <1>4, <2>2 DEF Intact, Span, smp_segend, Same
  <2>4. Intact(s)
    BY <2>2, <2>3, IntactBack, SegFields
  <2>5. InHash(s)
    BY <2>1, <2>2, <2>4, <1>1, <1>4 DEF Objects
  <2> QED  BY <2>2, <2>5, InHashStands DEF Same
<1>5. \A o \in cached' : \E i \in DOMAIN segs' : segs'[i].gen = o[1]
  BY <1>1 DEF Objects, Gens, Same
<1>6. \A i \in DOMAIN buf' : buf'[i].live => <<cur', i>> \in cached'
  BY DEF Objects
<1> QED  BY <1>3, <1>4, <1>5, <1>6, ObjectsAfter

\* Nothing happens to objects.
LEMMA ObjectsSame ==
  ASSUME Shape, Alive, Objects, UNCHANGED <<unit, index, segs, cur, loader, cached, buf>>
  PROVE  Objects'
<1>1. Wrote(cur)
  BY DEF Wrote
<1>2. segs \in Seq(SegRec) /\ \A i \in DOMAIN segs : Same(segs[i], segs[i])
  BY SegsAre DEF Same
<1> QED  BY <1>1, <1>2, ObjectsStand

\* Space is taken, objects stay.
LEMMA ObjectsTakes ==
  ASSUME Shape, Alive, Objects, AllocTakes
  PROVE  Objects'
<1>1. PICK got \in Nat, r \in SegRec :
           /\ SegStep(Len(segs), r) /\ Same(r, segs[Len(segs)])
           /\ r.n2 = segs[Len(segs)].n2 /\ r.nobj = segs[Len(segs)].nobj /\ r.load = segs[Len(segs)].load
           /\ unit' = [a \in DOMAIN unit |-> IF a \in nextAddr .. nextAddr + got - 1 THEN cur ELSE unit[a]]
  BY TakesIs
<1>2. saving = 0 /\ UNCHANGED <<index, cur, buf, loader, cached>>
  BY DEF AllocTakes
<1>3. segs[Len(segs)].gen = cur
  BY <1>2, CurIs
<1>4. Wrote(cur)
  BY <1>1 DEF Wrote
<1>5. \A i \in DOMAIN segs :
           /\ Same(segs'[i], segs[i]) /\ segs'[i].nobj = segs[i].nobj /\ segs'[i].load = segs[i].load
           /\ segs'[i].n2 = segs[i].n2 /\ (segs'[i].n1 = segs[i].n1 \/ segs[i].gen = cur)
  BY <1>1, <1>3 DEF SegStep, Same
<1> QED  BY <1>1, <1>2, <1>4, <1>5, ObjectsStand DEF SegStep

\* A descriptor changes, the hash does not.
LEMMA ObjectsChanged ==
  ASSUME Shape, Objects, NEW o \in cached, SMP_TTLchanged(o) \/ SMP_BANchanged(o)
  PROVE  Objects'
<1>1. Alive
  BY DEF SMP_TTLchanged, SMP_BANchanged, Alive
<1>2. PICK d \in Desc :
           /\ Patched(o[1], o[2], d) /\ (d.live => Objs(o[1])[o[2]].live)
           /\ UNCHANGED <<tab, unit, place, child, segs, cur, freeOff, nextAddr, allocVars, loader,
                          cached, banVars, hist>>
  BY <1>1, ChangedIs
<1>3. o[1] \in DOMAIN index
  BY <1>1, ObjAt
<1>4. ASSUME NEW g \in DOMAIN index
      PROVE  /\ DOMAIN index'[g] = DOMAIN index[g] /\ Len(index'[g]) = Len(index[g])
             /\ \A i \in DOMAIN index[g] : index'[g][i].live => index[g][i].live
  <2>1. CASE g = o[1] /\ g # cur
    BY <2>1, <1>2, <1>3 DEF Patched, Objs
  <2>2. CASE g # o[1] \/ o[1] = cur
    BY <2>2, <1>2, <1>3 DEF Patched
  <2> QED  BY <2>1, <2>2
<1>5. DOMAIN buf' = DOMAIN buf /\ \A i \in DOMAIN buf : buf'[i].live => buf[i].live
  BY <1>2 DEF Patched, Objs
<1>6. Wrote(cur) /\ segs \in Seq(SegRec) /\ \A i \in DOMAIN segs : Same(segs[i], segs[i])
  BY <1>1, <1>2, SegsAre DEF Wrote, Same
<1> QED  BY <1>1, <1>2, <1>4, <1>5, <1>6, ObjectsStand

\* SMP_FreeObj: one object less, in the hash, the silo and the counter.
LEMMA ObjectsFree ==
  ASSUME Shape, Objects, NEW o \in cached, SMP_FreeObj(o)
  PROVE  Objects'
<1>1. Alive /\ saving = 0 /\ cached' = cached \ {o} /\ UNCHANGED <<unit, cur, loader>>
  BY DEF SMP_FreeObj, Alive, Locked
<1>2. PICK k \in DOMAIN segs, r \in SegRec, d \in Desc :
           /\ segs[k].gen = o[1] /\ SegStep(k, r) /\ Same(r, segs[k])
           /\ r.n = segs[k].n /\ r.n1 = segs[k].n1 /\ r.n2 = segs[k].n2 /\ r.load = segs[k].load
           /\ r.nobj = segs[k].nobj - 1
           /\ Patched(o[1], o[2], d) /\ ~ d.live
  BY <1>1, FreeIs
<1>3. /\ Mine(o[1])' = Mine(o[1]) \ {o} /\ Cardinality(Mine(o[1])') = Cardinality(Mine(o[1])) - 1
      /\ \A h : h # o[1] => Mine(h)' = Mine(h)
  BY <1>1, MineDrop
<1>4. /\ DOMAIN segs' = DOMAIN segs /\ o = <<o[1], o[2]>> /\ o[1] \in DOMAIN index
      /\ \A i, j \in DOMAIN segs : segs[i].gen = segs[j].gen => i = j
  BY <1>1, <1>2, ObjAt, SegsAre DEF SegStep
<1>5. ASSUME NEW i \in DOMAIN segs', NEW q, q = segs'[i] PROVE Counted(q)'
  <2>1. PICK s : s = segs[i] /\ Counted(s)
    BY <1>1, <1>4 DEF Objects
  <2>2. CASE i = k
    <3>1. q = r /\ s.gen = o[1] /\ Same(r, s) /\ r.n1 = s.n1 /\ r.n2 = s.n2 /\ r.load = s.load /\ r.nobj = s.nobj - 1
      BY <1>2, <1>5, <2>1, <2>2 DEF SegStep
    <3>2. o \in Mine(s.gen)
      BY <3>1 DEF Mine
    <3>3. ~ Held(s) /\ ~ s.load
      BY <3>2, <2>1 DEF Held, Counted
    <3>4. s.nobj = Cardinality(Mine(s.gen)) /\ Bounded(s)
      BY <3>3, <2>1 DEF Counted
    <3>5. r.nobj = Cardinality(Mine(r.gen)') /\ Mine(r.gen)' \subseteq Mine(s.gen)
      BY <3>1, <3>4, <1>3 DEF Same
    <3>6. Bounded(r)'
      BY <3>1, <3>4, <3>5, <1>1 DEF Bounded, Same
    <3> QED  BY <3>1, <3>3, <3>5, <3>6 DEF Counted
  <2>3. CASE i # k
    <3>1. q = s /\ s.gen # o[1]
      BY <1>2, <1>4, <1>5, <2>1, <2>3 DEF SegStep
    <3> QED  BY <3>1, <2>1, <1>1, <1>3, CountedStands
  <2> QED  BY <2>2, <2>3
<1>6. ASSUME NEW i \in DOMAIN segs', NEW q, q = segs'[i], q.gen # cur', Intact(q)' PROVE InHash(q)'
  <2>1. PICK s : s = segs[i]
    OBVIOUS
  <2>2. Same(q, s) /\ q.load = s.load /\ s.gen # cur /\ s.gen \in DOMAIN index
    BY <1>1, <1>2, <1>4, <1>6, <2>1, GensListed DEF Same, SegStep
  <2>3. Intact(s)
    BY <1>1, <1>6, <2>2 DEF Intact, Span, smp_segend, Same
  <2>4. InHash(s)
    BY <1>1, <1>4, <2>1, <2>2, <2>3 DEF Objects
  <2>5. /\ DOMAIN index'[s.gen] = DOMAIN index[s.gen] /\ Len(index'[s.gen]) = Len(index[s.gen])
    BY <1>2, <2>2 DEF Patched
  <2>6. ASSUME NEW j \in DOMAIN index[s.gen], index'[s.gen][j].live
        PROVE  index[s.gen][j].live /\ <<s.gen, j>> # o
    <3>1. CASE s.gen = o[1]
      BY <3>1, <2>2, <2>6, <1>2, <1>4 DEF Patched
    <3>2. CASE s.gen # o[1]
      BY <3>2, <2>2, <2>6, <1>2, <1>4 DEF Patched
    <3> QED  BY <3>1, <3>2
  <2> QED  BY <1>1, <2>2, <2>4, <2>5, <2>6, InHashStands DEF Same
<1>7. \A x \in cached' : \E i \in DOMAIN segs' : segs'[i].gen = x[1]
  <2>1. \A i \in DOMAIN segs : segs'[i].gen = segs[i].gen
    BY <1>2 DEF Same, SegStep
  <2>2. \A x \in cached : \E i \in DOMAIN segs : segs[i].gen = x[1]
    BY <1>1 DEF Objects, Gens
  <2> QED  BY <2>1, <2>2, <1>1, <1>4
<1>8. ASSUME NEW i \in DOMAIN buf', buf'[i].live PROVE <<cur', i>> \in cached'
  <2>1. i \in DOMAIN buf /\ buf[i].live /\ <<cur, i>> # o
    <3>1. CASE o[1] = cur
      BY <3>1, <1>2, <1>4, <1>8 DEF Patched
    <3>2. CASE o[1] # cur
      BY <3>2, <1>2, <1>4, <1>8 DEF Patched
    <3> QED  BY <3>1, <3>2
  <2> QED  BY <2>1, <1>1 DEF Objects
<1> QED  BY <1>5, <1>6, <1>7, <1>8, ObjectsAfter

\* smp_object: one object more.
LEMMA ObjectsAdd ==
  ASSUME Shape, Objects, NEW g \in Gens(segs), smp_object(g)
  PROVE  Objects'
<1>1. Alive /\ saving = 0 /\ UNCHANGED <<unit, cur, loader>>
  BY DEF smp_object, Alive, Locked
<1>2. PICK k \in DOMAIN segs, r \in SegRec, d \in Desc :
           /\ segs[k].gen = g /\ SegStep(k, r) /\ Same(r, segs[k])
           /\ r.n = segs[k].n /\ r.n1 = segs[k].n1 /\ r.load = segs[k].load
           /\ r.nobj = segs[k].nobj + 1 /\ r.n2 = segs[k].n2 + 1 /\ r.n2 <= r.n1
           /\ segs[k].n2 \in Nat /\ d.live
           /\ cached' = cached \cup {<<g, r.n2>>} /\ g \in DOMAIN index
           /\ g = cur => buf' = Append(buf, d) /\ index' = index
           /\ g # cur => Patched(g, r.n2, d) /\ r.n2 \in DOMAIN index[g]
  BY NewObjectIs
<1>3. PICK s : s = segs[k]
  OBVIOUS
<1>4. /\ s \in SegRec /\ Counted(s) /\ s.gen = g /\ s.n1 \in Nat /\ s.n2 \in Nat /\ s.n1 > 0 /\ r.n1 \in Nat
      /\ s.nalloc \in Nat /\ r.n2 \in Nat /\ s.n2 < r.n2
  BY <1>1, <1>2, <1>3, SegsAre, SegFields DEF Objects
<1>5. \A o \in Mine(g) : o[2] <= s.n2 /\ o[2] \in Nat
  <2>1. \A o \in Mine(g) : o[2] <= s.n2
    BY <1>4 DEF Counted, Bounded
  <2>2. \A o \in Mine(g) : o[2] \in Nat
    BY DEF Mine, Shape, ChildTypes
  <2> QED  BY <2>1, <2>2
<1>6. <<g, r.n2>> \notin cached
  <2>1. \A o \in Mine(g) : o[2] # r.n2
    BY <1>4, <1>5
  <2>2. <<g, r.n2>>[1] = g /\ <<g, r.n2>>[2] = r.n2
    OBVIOUS
  <2> QED  BY <2>1, <2>2 DEF Mine
<1>7. /\ Mine(g)' = Mine(g) \cup {<<g, r.n2>>} /\ Cardinality(Mine(g)') = Cardinality(Mine(g)) + 1
      /\ \A h : h # g => Mine(h)' = Mine(h)
  BY <1>2, <1>6, MineAdd
<1>8. /\ DOMAIN segs' = DOMAIN segs /\ \A i, j \in DOMAIN segs : segs[i].gen = segs[j].gen => i = j
  BY <1>1, <1>2, SegsAre DEF SegStep
<1>9. loader.gen # g
  <2>1. loader.gen # 0 => \E i \in DOMAIN segs : segs[i].gen = loader.gen /\ segs[i].n1 = 0
    BY <1>1, SegsAre DEF Running, Loads
  <2>2. g # 0
    BY <1>4, SegFields
  <2> QED  BY <2>1, <2>2, <1>2, <1>3, <1>4, <1>8
<1>10. ASSUME NEW i \in DOMAIN segs', NEW q, q = segs'[i] PROVE Counted(q)'
  <2>1. CASE i = k
    <3>1. q = r /\ r.gen = g
      BY <1>2, <1>10, <2>1 DEF SegStep, Same
    <3>2. ~ Held(s)
      BY <1>4 DEF Held
    <3>3. ~ s.load /\ s.nobj = Cardinality(Mine(g))
      BY <3>2, <1>4 DEF Counted
    <3>4. r.nobj = Cardinality(Mine(g)') /\ ~ r.load
      BY <3>3, <1>2, <1>3, <1>7
    <3>5. r.n2 <= IF g = cur THEN r.n2 ELSE r.nalloc
      <4>1. g # cur => r.nalloc = r.n1
        BY <1>1, <1>2, <1>3, <1>4, SegsAre DEF Running, Settled, Same
      <4> QED  BY <4>1, <1>2, <1>4
    <3>6. \A o \in Mine(g) : o[2] <= r.n2 /\ o[2] <= IF g = cur THEN r.n2 ELSE r.nalloc
      <4>1. \A o \in Mine(g) : o[2] <= r.n2
        BY <1>4, <1>5
      <4>2. \A o \in Mine(g) : g # cur => o[2] <= s.nalloc
        BY <1>4 DEF Counted, Bounded
      <4>3. r.nalloc = s.nalloc
        BY <1>2, <1>3 DEF Same
      <4> QED  BY <4>1, <4>2, <4>3
    <3>7. Bounded(r)'
      <4> SUFFICES ASSUME NEW o \in Mine(g)'
                   PROVE  o[2] <= (IF g = cur THEN r.n2 ELSE r.nalloc) /\ o[2] <= r.n2
        BY <3>1, <1>1, <1>9 DEF Bounded
      <4>1. CASE o \in Mine(g)
        BY <4>1, <3>6
      <4>2. CASE o = <<g, r.n2>>
        BY <4>2, <3>5, <1>4
      <4> QED  BY <4>1, <4>2, <1>7
    <3> QED  BY <3>1, <3>4, <3>7 DEF Counted
  <2>2. CASE i # k
    <3>1. PICK t : t = segs[i] /\ Counted(t)
      BY <1>1, <1>8, <1>10 DEF Objects
    <3>2. q = t /\ t.gen # g
      BY <1>2, <1>8, <1>10, <2>2, <3>1 DEF SegStep
    <3> QED  BY <3>1, <3>2, <1>1, <1>7, CountedStands
  <2> QED  BY <2>1, <2>2
<1>11. ASSUME NEW i \in DOMAIN segs', NEW q, q = segs'[i], q.gen # cur', Intact(q)' PROVE InHash(q)'
  <2>1. PICK t : t = segs[i]
    OBVIOUS
  <2>2. Same(q, t) /\ q.load = t.load /\ t.gen # cur /\ t.gen \in DOMAIN index
    BY <1>1, <1>2, <1>8, <1>11, <2>1, GensListed DEF Same, SegStep
  <2>3. Intact(t)
    BY <1>1, <1>11, <2>2 DEF Intact, Span, smp_segend, Same
  <2>4. InHash(t)
    BY <1>1, <1>8, <2>1, <2>2, <2>3 DEF Objects
  <2>5. CASE t.gen # g
    <3>1. index'[t.gen] = index[t.gen]
      BY <1>2, <2>2, <2>5 DEF Patched
    <3> QED  BY <3>1, <1>1, <1>2, <2>2, <2>4, InHashStands DEF Same
  <2>6. CASE t.gen = g
    <3>1. /\ DOMAIN index'[g] = DOMAIN index[g] /\ Len(index'[g]) = Len(index[g])
          /\ \A j \in DOMAIN index[g] : index'[g][j] = IF j = r.n2 THEN d ELSE index[g][j]
      BY <1>2, <2>2, <2>6 DEF Patched
    <3>2. q.gen = g /\ q.load = t.load
      BY <2>2, <2>6 DEF Same
    <3>3. ASSUME NEW j \in DOMAIN index'[g], index'[g][j].live,
                 j <= IF q.load THEN 0 ELSE IF loader'.gen = g THEN loader'.i - 1 ELSE Len(index'[g])
          PROVE  <<g, j>> \in cached'
      <4>1. CASE j = r.n2
        BY <4>1, <1>2
      <4>2. CASE j # r.n2
        <5>1. j \in DOMAIN index[g] /\ index[g][j].live
          BY <4>2, <3>1, <3>3
        <5>2. j <= IF t.load THEN 0 ELSE IF loader.gen = g THEN loader.i - 1 ELSE Len(index[g])
          BY <3>1, <3>2, <3>3, <1>1
        <5> QED  BY <5>1, <5>2, <2>4, <2>6, <1>2 DEF InHash
      <4> QED  BY <4>1, <4>2
    <3> QED  BY <3>2, <3>3 DEF InHash
  <2> QED  BY <2>5, <2>6
<1>12. \A x \in cached' : \E i \in DOMAIN segs' : segs'[i].gen = x[1]
  <2>1. \A i \in DOMAIN segs : segs'[i].gen = segs[i].gen
    BY <1>2 DEF Same, SegStep
  <2>2. \A x \in cached : \E i \in DOMAIN segs : segs[i].gen = x[1]
    BY <1>1 DEF Objects, Gens
  <2> QED  BY <2>1, <2>2, <1>2, <1>8
<1>13. ASSUME NEW i \in DOMAIN buf', buf'[i].live PROVE <<cur', i>> \in cached'
  <2>1. CASE g # cur
    BY <2>1, <1>1, <1>2, <1>13 DEF Patched, Objects
  <2>2. CASE g = cur
    <3>1. Len(buf) = s.n2 /\ buf \in Seq(Desc)
      <4>1. k = Len(segs) /\ Open
        BY <2>2, <1>1, <1>2, <1>8, CurIs, SegsAre
      <4> QED  BY <4>1, <1>3 DEF Open, Shape, ChildTypes
    <3>2. /\ buf' \in Seq(Desc) /\ Len(buf') = Len(buf) + 1 /\ Len(buf) \in Nat /\ DOMAIN buf = 1 .. Len(buf)
          /\ \A j \in 1 .. Len(buf) : buf'[j] = buf[j]
      <4>1. Len(buf) \in Nat /\ DOMAIN buf = 1 .. Len(buf)
        BY <3>1, LenProperties
      <4>2. buf' = Append(buf, d)
        BY <2>2, <1>2
      <4> QED  BY <3>1, <4>1, <4>2, AppendProperties
    <3>3. DOMAIN buf' = 1 .. Len(buf) + 1
      BY <3>2, LenProperties
    <3>4. CASE i = r.n2
      BY <3>4, <2>2, <1>1, <1>2
    <3>5. CASE i # r.n2
      <4>1. i \in DOMAIN buf /\ buf[i].live
        BY <3>1, <3>2, <3>3, <3>5, <1>2, <1>3, <1>13
      <4> QED  BY <4>1, <1>1, <1>2 DEF Objects
    <3> QED  BY <3>4, <3>5
  <2> QED  BY <2>1, <2>2
<1> QED  BY <1>10, <1>11, <1>12, <1>13, ObjectsAfter

\* smp_load_seg begins: the hold is given up, or the segment is never loaded.
LEMMA ObjectsLoadBegins ==
  ASSUME Shape, Objects, LoadBegins
  PROVE  Objects'
<1>1. Alive /\ loader.gen # 0 /\ loader.i = 0 /\ UNCHANGED <<unit, index, cur, buf, cached>>
  BY DEF LoadBegins, Loading, Alive, siloVars
<1>2. PICK k \in DOMAIN segs, r \in SegRec :
           /\ segs[k].gen = loader.gen /\ SegStep(k, r) /\ Same(r, segs[k])
           /\ r.n = segs[k].n /\ r.n1 = segs[k].n1 /\ r.n2 = segs[k].n2 /\ ~ r.load
           /\ r.nobj = (IF HeadOK(segs[k]) THEN 0 ELSE segs[k].nobj)
           /\ loader'.gen = loader.gen /\ loader'.i = (IF HeadOK(segs[k]) THEN 1 ELSE segs[k].nalloc + 1)
  BY BeginsIs
<1>3. PICK s : s = segs[k]
  OBVIOUS
<1>4. /\ s \in SegRec /\ Counted(s) /\ s.gen = loader.gen /\ s.nalloc \in Nat /\ s.n1 \in Nat /\ s.gen # cur
      /\ Listed(s) /\ s.offset \in Nat /\ s.length \in Nat /\ s.gen # 0 /\ s.n1 = 0
  BY <1>1, <1>2, <1>3, SegsAre, SegFields, LoaderAt DEF Objects
<1>5. \A h : Mine(h)' = Mine(h)
  BY <1>1 DEF Mine
<1>6. /\ DOMAIN segs' = DOMAIN segs /\ \A i, j \in DOMAIN segs : segs[i].gen = segs[j].gen => i = j
  BY <1>1, <1>2, SegsAre DEF SegStep
<1>7. Mine(s.gen) = {}
  <2>1. Mine(s.gen) \subseteq cached /\ Bounded(s)
    BY <1>4 DEF Counted, Mine
  <2>2. \A o \in Mine(s.gen) : o[2] < 0 /\ o[2] \in Nat
    BY <2>1, <1>1, <1>4 DEF Bounded, Shape, ChildTypes
  <2> QED  BY <2>2
<1>8. ASSUME NEW i \in DOMAIN segs', NEW q, q = segs'[i] PROVE Counted(q)'
  <2>1. CASE i = k
    <3>1. q = r /\ r.gen = s.gen /\ r.nalloc = s.nalloc /\ ~ r.load /\ r.n1 = 0
      BY <1>2, <1>3, <1>4, <1>8, <2>1 DEF SegStep, Same
    <3>2. Mine(r.gen)' = {}
      BY <3>1, <1>5, <1>7
    <3>3. r.nobj = Cardinality(Mine(r.gen)') \/ Held(r)'
      <4>1. CASE HeadOK(s)
        <5>1. r.nobj = 0
          BY <4>1, <1>2, <1>3
        <5>2. Cardinality({}) = 0
          BY FS_EmptySet
        <5> QED  BY <5>1, <5>2, <3>2
      <4>2. CASE ~ HeadOK(s)
        <5>1. r.nobj = s.nobj /\ loader'.i = s.nalloc + 1
          BY <4>2, <1>2, <1>3
        <5>2. loader'.i \notin 1 .. r.nalloc
          BY <5>1, <3>1, <1>4
        <5>3. s.nobj = 0 \/ s.nobj = 1
          <6>1. Cardinality({}) = 0
            BY FS_EmptySet
          <6> QED  BY <6>1, <1>4, <1>7 DEF Counted, Held
        <5>4. CASE s.nobj = 0
          BY <5>1, <5>4, <3>2, FS_EmptySet
        <5>5. CASE s.nobj = 1
          BY <5>1, <5>2, <5>5, <3>1, <3>2, <1>1, <1>4 DEF Held
        <5> QED  BY <5>3, <5>4, <5>5
      <4> QED  BY <4>1, <4>2
    <3>4. Bounded(r)'
      BY <3>2 DEF Bounded
    <3> QED  BY <3>1, <3>3, <3>4 DEF Counted
  <2>2. CASE i # k
    <3>1. PICK t : t = segs[i] /\ Counted(t)
      BY <1>1, <1>6, <1>8 DEF Objects
    <3>2. q = t /\ t.gen # loader.gen
      BY <1>2, <1>6, <1>8, <2>2, <3>1 DEF SegStep
    <3> QED  BY <3>1, <3>2, <1>1, <1>2, <1>5, CountedStands
  <2> QED  BY <2>1, <2>2
<1>9. ASSUME NEW i \in DOMAIN segs', NEW q, q = segs'[i], q.gen # cur', Intact(q)' PROVE InHash(q)'
  <2>1. PICK t : t = segs[i]
    OBVIOUS
  <2>2. Same(q, t) /\ t.gen # cur
    BY <1>1, <1>2, <1>6, <1>9, <2>1 DEF Same, SegStep
  <2>3. Intact(t)
    BY <1>1, <1>9, <2>2 DEF Intact, Span, smp_segend, Same
  <2>4. CASE i = k
    <3>1. t = s /\ q = r /\ q.gen = loader.gen
      BY <2>1, <2>4, <1>2, <1>3, <1>9 DEF SegStep, Same
    <3>2. HeadOK(s)
      <4>1. s.offset \in Span(s)
        BY <1>4, SpanIn
      <4>2. unit[s.offset] = s.gen
        BY <4>1, <2>3, <3>1 DEF Intact
      <4> QED  BY <4>2, <1>4 DEF HeadOK, Listed
    <3>3. loader'.i = 1 /\ loader'.gen = q.gen /\ ~ q.load
      BY <3>1, <3>2, <1>2, <1>3
    <3>4. ASSUME NEW j \in DOMAIN index[q.gen], j <= 0 PROVE FALSE
      <4>1. q.gen \in DOMAIN index
        BY <3>1, <1>1, <1>2, GensListed
      <4>2. index[q.gen] \in Seq(Desc)
        BY <4>1, GensListed, ElementOfSeq DEF Shape, SiloTypes
      <4>3. DOMAIN index[q.gen] = 1 .. Len(index[q.gen])
        BY <4>2, LenProperties
      <4> QED  BY <4>3, <3>4
    <3> QED  BY <3>3, <3>4, <1>1 DEF InHash
  <2>5. CASE i # k
    <3>1. q = t /\ t.gen # loader.gen
      BY <1>2, <1>6, <1>9, <2>1, <2>5 DEF SegStep
    <3>2. InHash(t)
      BY <1>1, <1>6, <1>9, <2>1, <2>2, <2>3 DEF Objects
    <3> QED  BY <3>1, <3>2, <1>1, <1>2, InHashStands
  <2> QED  BY <2>4, <2>5
<1>10. \A x \in cached' : \E i \in DOMAIN segs' : segs'[i].gen = x[1]
  <2>1. \A i \in DOMAIN segs : segs'[i].gen = segs[i].gen
    BY <1>2 DEF Same, SegStep
  <2>2. \A x \in cached : \E i \in DOMAIN segs : segs[i].gen = x[1]
    BY <1>1 DEF Objects, Gens
  <2> QED  BY <2>1, <2>2, <1>1, <1>6
<1>11. \A i \in DOMAIN buf' : buf'[i].live => <<cur', i>> \in cached'
  BY <1>1 DEF Objects
<1> QED  BY <1>8, <1>9, <1>10, <1>11, ObjectsAfter

\* An object is loaded.
LEMMA ObjectsLoadObject ==
  ASSUME Shape, Objects, LoadObject, Alive'
  PROVE  Objects'
<1>1. Alive /\ loader.gen # 0
  BY DEF LoadObject, Loading, Alive
<1>2. PICK k \in DOMAIN segs, r \in SegRec, d \in Desc :
           /\ segs[k].gen = loader.gen /\ SegStep(k, r) /\ Same(r, segs[k])
           /\ r.n1 = segs[k].n1 /\ r.n2 = segs[k].n2 /\ r.load = segs[k].load
           /\ r.nobj = (IF d.live THEN segs[k].nobj + 1 ELSE segs[k].nobj)
           /\ loader'.gen = loader.gen /\ loader'.i = loader.i + 1
           /\ loader.i \in 1 .. segs[k].nalloc /\ ~ r.load
           /\ loader.i \in DOMAIN index[loader.gen] /\ d = index[loader.gen][loader.i]
           /\ cached' = (IF d.live THEN cached \cup {<<loader.gen, loader.i>>} ELSE cached)
           /\ UNCHANGED <<unit, index, cur, buf>>
  BY ObjectIs DEF siloVars
<1>3. PICK s : s = segs[k]
  OBVIOUS
<1>4. PICK g : g = loader.gen
  OBVIOUS
<1>5. /\ s \in SegRec /\ Counted(s) /\ s.gen = g /\ s.nalloc \in Nat /\ s.gen # cur /\ s.n1 = 0 /\ loader.i \in Nat
  BY <1>1, <1>2, <1>3, <1>4, SegsAre, SegFields, LoaderAt DEF Objects
<1>6. ~ Held(s) /\ s.nobj = Cardinality(Mine(g)) /\ \A o \in Mine(g) : o[2] < loader.i /\ o[2] \in Nat
  <2>1. ~ Held(s)
    BY <1>2, <1>3, <1>4, <1>5 DEF Held
  <2>2. \A o \in Mine(g) : o[2] < loader.i
    BY <1>4, <1>5 DEF Counted, Bounded
  <2>3. \A o \in Mine(g) : o[2] \in Nat
    BY DEF Mine, Shape, ChildTypes
  <2> QED  BY <2>1, <2>2, <2>3, <1>5 DEF Counted
<1>7. <<g, loader.i>> \notin cached
  <2>1. \A o \in Mine(g) : o[2] # loader.i
    BY <1>5, <1>6
  <2>2. <<g, loader.i>>[1] = g /\ <<g, loader.i>>[2] = loader.i
    OBVIOUS
  <2> QED  BY <2>1, <2>2 DEF Mine
<1>8. /\ Mine(g)' = (IF d.live THEN Mine(g) \cup {<<g, loader.i>>} ELSE Mine(g)) /\ r.nobj = Cardinality(Mine(g)')
      /\ \A h : h # g => Mine(h)' = Mine(h)
  <2>1. CASE d.live
    <3>1. cached' = cached \cup {<<g, loader.i>>} /\ r.nobj = s.nobj + 1
      BY <2>1, <1>2, <1>3, <1>4
    <3>2. PICK n : n = loader.i
      OBVIOUS
    <3>3. /\ Mine(g)' = Mine(g) \cup {<<g, n>>} /\ Cardinality(Mine(g)') = Cardinality(Mine(g)) + 1
          /\ \A h : h # g => Mine(h)' = Mine(h)
      BY <3>1, <3>2, <1>7, MineAdd
    <3> QED  BY <2>1, <3>1, <3>2, <3>3, <1>6
  <2>2. CASE ~ d.live
    <3>1. cached' = cached /\ r.nobj = s.nobj
      BY <2>2, <1>2, <1>3
    <3> QED  BY <2>2, <3>1, <1>6 DEF Mine
  <2> QED  BY <2>1, <2>2
<1>9. /\ DOMAIN segs' = DOMAIN segs /\ \A i, j \in DOMAIN segs : segs[i].gen = segs[j].gen => i = j
  BY <1>1, <1>2, SegsAre DEF SegStep
<1>10. ASSUME NEW i \in DOMAIN segs', NEW q, q = segs'[i] PROVE Counted(q)'
  <2>1. CASE i = k
    <3>1. q = r /\ r.gen = g /\ r.nalloc = s.nalloc /\ ~ r.load /\ r.n1 = 0
      BY <1>2, <1>3, <1>4, <1>5, <1>10, <2>1 DEF SegStep, Same
    <3>2. Bounded(r)'
      <4> SUFFICES ASSUME NEW o \in Mine(g)'
                   PROVE  o[2] <= r.nalloc /\ o[2] < loader'.i
        BY <3>1, <1>2, <1>5 DEF Bounded
      <4>1. CASE o \in Mine(g)
        <5>1. o[2] <= s.nalloc
          BY <4>1, <1>5 DEF Counted, Bounded
        <5> QED  BY <5>1, <4>1, <3>1, <1>2, <1>5, <1>6
      <4>2. CASE o = <<g, loader.i>>
        BY <4>2, <3>1, <1>2, <1>3, <1>5
      <4> QED  BY <4>1, <4>2, <1>8
    <3> QED  BY <3>1, <3>2, <1>8 DEF Counted
  <2>2. CASE i # k
    <3>1. PICK t : t = segs[i] /\ Counted(t)
      BY <1>1, <1>9, <1>10 DEF Objects
    <3>2. q = t /\ t.gen # g
      BY <1>2, <1>4, <1>9, <1>10, <2>2, <3>1 DEF SegStep
    <3> QED  BY <3>1, <3>2, <1>2, <1>4, <1>8, CountedStands
  <2> QED  BY <2>1, <2>2
<1>11. ASSUME NEW i \in DOMAIN segs', NEW q, q = segs'[i], q.gen # cur', Intact(q)' PROVE InHash(q)'
  <2>1. PICK t : t = segs[i]
    OBVIOUS
  <2>2. Same(q, t) /\ t.gen # cur /\ q.load = t.load
    BY <1>1, <1>2, <1>9, <1>11, <2>1 DEF Same, SegStep
  <2>3. Intact(t)
    BY <1>2, <1>11, <2>2 DEF Intact, Span, smp_segend, Same
  <2>4. InHash(t)
    BY <1>1, <1>9, <1>11, <2>1, <2>2, <2>3 DEF Objects
  <2>5. CASE i = k
    <3>1. t = s /\ q = r /\ q.gen = g /\ ~ q.load /\ ~ t.load /\ t.gen = g
      BY <2>1, <2>2, <2>5, <1>2, <1>3, <1>4, <1>5, <1>11 DEF SegStep, Same
    <3>2. ASSUME NEW j \in DOMAIN index[g], j <= loader.i, index[g][j].live PROVE <<g, j>> \in cached'
      <4>1. CASE j = loader.i
        BY <4>1, <3>2, <1>2, <1>4
      <4>2. CASE j # loader.i
        <5>1. j \in Nat
          <6>1. index[g] \in Seq(Desc)
            BY <1>1, <1>4, LoaderAt, GensListed, ElementOfSeq DEF Shape, SiloTypes
          <6>2. DOMAIN index[g] = 1 .. Len(index[g])
            BY <6>1, LenProperties
          <6> QED  BY <6>2
        <5>2. j <= loader.i - 1
          BY <5>1, <4>2, <3>2, <1>5
        <5>3. <<g, j>> \in cached
          BY <5>2, <3>1, <3>2, <2>4, <1>4 DEF InHash
        <5> QED  BY <5>3, <1>2
      <4> QED  BY <4>1, <4>2
    <3>3. loader'.gen = q.gen /\ loader'.i - 1 = loader.i
      BY <3>1, <1>2, <1>4, <1>5
    <3> QED  BY <3>1, <3>2, <3>3, <1>2 DEF InHash
  <2>6. CASE i # k
    <3>1. q = t /\ t.gen # loader.gen
      BY <1>2, <1>9, <1>11, <2>1, <2>6 DEF SegStep
    <3>2. \A j : <<t.gen, j>> \in cached => <<t.gen, j>> \in cached'
      BY <1>2
    <3> QED  BY <3>1, <3>2, <1>2, <2>4, InHashStands
  <2> QED  BY <2>5, <2>6
<1>12. \A x \in cached' : \E i \in DOMAIN segs' : segs'[i].gen = x[1]
  <2>1. \A i \in DOMAIN segs : segs'[i].gen = segs[i].gen
    BY <1>2 DEF Same, SegStep
  <2>2. \A x \in cached : \E i \in DOMAIN segs : segs[i].gen = x[1]
    BY <1>1 DEF Objects, Gens
  <2> QED  BY <2>1, <2>2, <1>2, <1>9
<1>13. \A i \in DOMAIN buf' : buf'[i].live => <<cur', i>> \in cached'
  BY <1>1, <1>2 DEF Objects
<1> QED  BY <1>10, <1>11, <1>12, <1>13, ObjectsAfter

\* The loader goes on to a segment that is still held, or stops.
LEMMA NextLoadIs ==
  ASSUME Shape, LoadNext
  PROVE  /\ Alive /\ loader.gen # 0 /\ loader.i > Seg(loader.gen).nalloc
         /\ \/ loader'.gen = 0
            \/ \E m \in DOMAIN segs : segs[m].load /\ loader'.gen = segs[m].gen /\ loader'.i = 0
<1>1. Alive /\ loader.gen # 0 /\ loader.i > Seg(loader.gen).nalloc
  BY DEF LoadNext, Loading, Alive
<1>2. PICK at : at = At(segs, loader.gen)
  OBVIOUS
<1>3. PICK more : more = {k \in at + 1 .. Len(segs) : segs[k].load}
  OBVIOUS
<1>4. loader' = IF more = {} THEN NoLoad ELSE [gen |-> segs[Min(more)].gen, i |-> 0]
  BY <1>2, <1>3 DEF LoadNext
<1>5. at \in DOMAIN segs
  BY <1>1, <1>2, LoaderAt
<1>6. CASE more = {}
  BY <1>1, <1>4, <1>6 DEF NoLoad
<1>7. CASE more # {}
  <2>1. PICK m : m = Min(more)
    OBVIOUS
  <2>2. m \in DOMAIN segs /\ segs[m].load
    <3>1. more \in SUBSET Nat /\ more \subseteq DOMAIN segs
      BY <1>1, <1>3, <1>5, SegsAre
    <3>2. m \in more
      BY <2>1, <1>7, <3>1, MinOf
    <3> QED  BY <3>1, <3>2, <1>3
  <2>3. loader'.gen = segs[m].gen /\ loader'.i = 0
    BY <1>4, <1>7, <2>1
  <2> QED  BY <1>1, <2>2, <2>3
<1> QED  BY <1>6, <1>7

\* A segment has been loaded to its end.
LEMMA ObjectsLoadNext ==
  ASSUME Shape, Objects, LoadNext
  PROVE  Objects'
<1>1. UNCHANGED <<unit, index, segs, cur, buf, cached>>
  BY DEF LoadNext, siloVars, segVars
<1>2. /\ Alive /\ loader.gen # 0 /\ loader.i > Seg(loader.gen).nalloc
      /\ \/ loader'.gen = 0
         \/ \E m \in DOMAIN segs : segs[m].load /\ loader'.gen = segs[m].gen /\ loader'.i = 0
  BY NextLoadIs
<1>3. \A h : Mine(h)' = Mine(h)
  BY <1>1 DEF Mine
<1>4. ASSUME NEW i \in DOMAIN segs, segs[i].gen = loader'.gen PROVE segs[i].load /\ loader'.i = 0
  BY <1>2, <1>4, GensListed, SegsAre
<1>5. ASSUME NEW i \in DOMAIN segs', NEW s, s = segs'[i] PROVE Counted(s)'
  <2>1. s = segs[i] /\ Counted(s) /\ s \in SegRec /\ s.nalloc \in Nat
    BY <1>1, <1>2, <1>5, SegsAre, SegFields DEF Objects
  <2>2. loader'.gen = s.gen => s.load /\ loader'.i = 0
    BY <1>1, <1>4, <2>1
  <2>3. Held(s) => Held(s)'
    BY <1>1, <1>3, <2>1, <2>2 DEF Held
  <2>4. Bounded(s)'
    <3>1. s.load => Mine(s.gen)' = {}
      BY <2>1, <1>3 DEF Counted, Held
    <3>2. CASE s.load
      BY <3>1, <3>2 DEF Bounded
    <3>3. CASE ~ s.load
      BY <3>3, <2>1, <2>2, <1>1, <1>3 DEF Counted, Bounded
    <3> QED  BY <3>2, <3>3
  <2>5. s.load => Held(s)' /\ (loader'.gen = s.gen => loader'.i = 0)
    BY <2>1, <2>2, <2>3 DEF Counted
  <2>6. s.nobj = Cardinality(Mine(s.gen)') \/ Held(s)'
    BY <2>1, <2>3, <1>3 DEF Counted
  <2> QED  BY <2>4, <2>5, <2>6 DEF Counted
<1>6. ASSUME NEW i \in DOMAIN segs', NEW s, s = segs'[i], s.gen # cur', Intact(s)' PROVE InHash(s)'
  <2>1. s = segs[i] /\ s.gen # cur /\ Intact(s)
    BY <1>1, <1>6 DEF Intact
  <2>2. InHash(s)
    BY <1>1, <1>2, <1>6, <2>1 DEF Objects
  <2>3. loader'.gen = s.gen => s.load
    BY <1>1, <1>4, <2>1
  <2>4. CASE s.gen # loader.gen \/ s.load
    BY <2>2, <2>3, <2>4, <1>1 DEF InHash
  <2>5. CASE s.gen = loader.gen /\ ~ s.load
    <3>1. Seg(loader.gen) = s /\ Len(index[s.gen]) = s.nalloc /\ loader.i \in Nat
      BY <2>1, <2>5, <1>1, <1>2, SegsAre, LoaderAt
    <3>2. index[s.gen] \in Seq(Desc)
      BY <1>2, <2>5, LoaderAt, GensListed, ElementOfSeq DEF Shape, SiloTypes
    <3>3. DOMAIN index[s.gen] = 1 .. Len(index[s.gen]) /\ Len(index[s.gen]) \in Nat
      BY <3>2, LenProperties
    <3>4. \A j \in DOMAIN index[s.gen] : j <= loader.i - 1
      BY <3>1, <3>3, <1>2
    <3>5. \A j \in DOMAIN index[s.gen] : index[s.gen][j].live => <<s.gen, j>> \in cached
      BY <3>4, <2>2, <2>5 DEF InHash
    <3> QED  BY <3>5, <1>1 DEF InHash
  <2> QED  BY <2>4, <2>5
<1>7. \A x \in cached' : \E i \in DOMAIN segs' : segs'[i].gen = x[1]
  BY <1>1, <1>2 DEF Objects, Gens
<1>8. \A i \in DOMAIN buf' : buf'[i].live => <<cur', i>> \in cached'
  BY <1>1, <1>2 DEF Objects
<1> QED  BY <1>5, <1>6, <1>7, <1>8, ObjectsAfter

\* smp_close_seg: the buffer becomes the index, empty segments leave the list.
LEMMA ObjectsClose ==
  ASSUME Shape, Alive, saving = 0, Objects, smp_close_seg, Alive'
  PROVE  Objects'
<1>1. PICK r, m : Shut(r, m)
  BY CloseIs
<1>2. PICK z : z = segs[Len(segs)]
  OBVIOUS
<1>3. /\ r \in SegRec /\ m \in Nat /\ r.gen = cur /\ r.nalloc = z.n1 /\ r.n1 = z.n1 /\ r.n2 = z.n2
      /\ r.nobj = z.nobj /\ r.load = z.load /\ cur' = 0 /\ buf' = <<>> /\ UNCHANGED <<loader, cached>>
      /\ DOMAIN segs' = 1 .. Len(segs) - m
  BY <1>1, <1>2 DEF Shut
<1>4. /\ \A i \in DOMAIN segs' : i + m \in DOMAIN segs /\ segs'[i] = IF i + m = Len(segs) THEN r ELSE segs[i + m]
      /\ \A i \in 1 .. m : segs[i].nobj = 0
  BY <1>1 DEF Shut
<1>5. /\ z \in SegRec /\ z.gen = cur /\ Counted(z) /\ Open /\ cur # 0 /\ z.n1 \in Nat /\ z.n2 \in Nat
      /\ z.n2 <= z.n1 /\ Len(buf) = z.n2 /\ DOMAIN segs = 1 .. Len(segs) /\ Len(segs) \in Nat
      /\ \A i \in DOMAIN segs : i # Len(segs) => segs[i].gen # cur
  <2>1. z \in SegRec /\ z.gen = cur /\ Counted(z) /\ Open /\ cur # 0 /\ DOMAIN segs = 1 .. Len(segs) /\ Len(segs) \in Nat
    BY <1>2, CurIs, SegsAre DEF Objects
  <2>2. z.n2 <= z.n1 /\ Len(buf) = z.n2
    BY <1>2, <2>1 DEF Open
  <2> QED  BY <2>1, <2>2, CurIs, SegFields
<1>6. \A h : Mine(h)' = Mine(h)
  BY <1>3 DEF Mine
<1>7. ASSUME NEW i \in DOMAIN segs', NEW q, q = segs'[i] PROVE Counted(q)'
  <2>1. CASE i + m = Len(segs)
    <3>1. q = r
      BY <2>1, <1>4, <1>7
    <3>2. ~ Held(z) /\ ~ z.load /\ z.nobj = Cardinality(Mine(cur)) /\ Bounded(z)
      BY <1>5 DEF Held, Counted
    <3>3. \A o \in Mine(cur) : o[2] <= z.n2 /\ o[2] \in Nat /\ (loader.gen = cur => o[2] < loader.i)
      <4>1. \A o \in Mine(cur) : o[2] \in Nat
        BY DEF Mine, Shape, ChildTypes
      <4> QED  BY <4>1, <3>2, <1>5 DEF Bounded
    <3>4. Bounded(r)'
      <4> SUFFICES ASSUME NEW o \in Mine(cur)
                   PROVE  o[2] <= r.nalloc /\ o[2] <= r.n2 /\ (loader.gen = cur => o[2] < loader.i)
        BY <1>3, <1>5, <1>6 DEF Bounded
      <4> QED  BY <3>3, <1>3, <1>5
    <3> QED  BY <3>1, <3>2, <3>4, <1>3, <1>6 DEF Counted
  <2>2. CASE i + m # Len(segs)
    <3>1. PICK s : s = segs[i + m] /\ Counted(s)
      BY <1>4, <1>7 DEF Objects
    <3>2. q = s /\ s.gen # cur /\ s.gen # 0
      BY <2>2, <3>1, <1>4, <1>5, <1>7, GensListed
    <3> QED  BY <3>1, <3>2, <1>3, <1>6, CountedStands
  <2> QED  BY <2>1, <2>2
<1>8. /\ \A g \in DOMAIN index : g # cur => index'[g] = index[g]
      /\ Len(index'[cur]) = z.n1 /\ index'[cur] \in Seq(Desc)
      /\ \A i \in 1 .. z.n1 : index'[cur][i] = IF i <= z.n2 THEN buf[i] ELSE Dead
      /\ Wrote(cur)
  BY <1>2, CloseSilo DEF Wrote
<1>9. ASSUME NEW i \in DOMAIN segs', NEW q, q = segs'[i], q.gen # cur', Intact(q)' PROVE InHash(q)'
  <2>1. CASE i + m = Len(segs)
    <3>1. q = r
      BY <2>1, <1>4, <1>9
    <3>2. ASSUME NEW j \in DOMAIN index'[cur], index'[cur][j].live PROVE <<cur, j>> \in cached
      <4>1. j \in 1 .. z.n1 /\ j <= z.n2
        BY <3>2, <1>8, LenProperties DEF Dead
      <4>2. index'[cur][j] = buf[j]
        BY <4>1, <1>8
      <4>3. j \in DOMAIN buf
        <5>1. DOMAIN buf = 1 .. Len(buf)
          BY LenProperties DEF Shape, ChildTypes
        <5> QED  BY <5>1, <4>1, <1>5
      <4> QED  BY <4>2, <4>3, <3>2 DEF Objects
    <3> QED  BY <3>1, <3>2, <1>3 DEF InHash
  <2>2. CASE i + m # Len(segs)
    <3>1. PICK s : s = segs[i + m]
      OBVIOUS
    <3>2. q = s /\ s.gen # cur /\ s.gen \in DOMAIN index /\ Listed(s) /\ s \in SegRec
      BY <2>2, <3>1, <1>4, <1>5, <1>9, GensListed, SegsAre
    <3>3. Intact(s)
      BY <3>2, <1>8, <1>9, IntactBack, SegFields
    <3>4. InHash(s)
      BY <3>1, <3>2, <3>3, <1>4, <1>9 DEF Objects
    <3> QED  BY <3>2, <3>4, <1>3, <1>8, InHashStands
  <2> QED  BY <2>1, <2>2
<1>10. ASSUME NEW o \in cached' PROVE \E i \in DOMAIN segs' : segs'[i].gen = o[1]
  <2>1. PICK i \in DOMAIN segs : segs[i].gen = o[1]
    BY <1>3, <1>10 DEF Objects, Gens
  <2>2. PICK s : s = segs[i]
    OBVIOUS
  <2>3. i \notin 1 .. m
    <3> SUFFICES ASSUME i \in 1 .. m PROVE FALSE
      OBVIOUS
    <3>1. Counted(s) /\ s.nobj = 0
      BY <2>2, <1>4 DEF Objects
    <3>2. Cardinality(Mine(s.gen)) = 0
      BY <3>1 DEF Counted, Held
    <3>3. Mine(s.gen) = {}
      BY <3>2, MineIs
    <3> QED  BY <3>3, <2>1, <2>2, <1>3, <1>10 DEF Mine
  <2>4. i - m \in DOMAIN segs' /\ (i - m) + m = i
    BY <2>3, <1>3, <1>5
  <2>5. segs'[i - m].gen = o[1]
    <3>1. CASE i = Len(segs)
      BY <3>1, <2>1, <2>4, <1>2, <1>3, <1>4, <1>5
    <3>2. CASE i # Len(segs)
      BY <3>2, <2>1, <2>4, <1>4
    <3> QED  BY <3>1, <3>2
  <2> QED  BY <2>4, <2>5
<1>11. \A i \in DOMAIN buf' : buf'[i].live => <<cur', i>> \in cached'
  BY <1>3
<1> QED  BY <1>7, <1>9, <1>10, <1>11, ObjectsAfter

\* smp_new_seg: the new segment has no objects.
LEMMA ObjectsNew ==
  ASSUME Shape, NEW list, Fine(list), NEW free, NEW g, NEW off, NEW new, Made(list, free, g, off, new),
         \A i \in DOMAIN list : Counted(list[i])',
         \A i \in DOMAIN list : Intact(list[i])' => InHash(list[i])',
         \A o \in cached' : \E i \in DOMAIN list : list[i].gen = o[1]
  PROVE  Objects'
<1>1. /\ DOMAIN segs' = 1 .. Len(list) + 1 /\ DOMAIN list = 1 .. Len(list) /\ Len(list) \in Nat
      /\ segs'[Len(list) + 1] = new /\ \A i \in DOMAIN list : segs'[i] = list[i]
      /\ cur' = g /\ buf' = <<>> /\ new.gen = g /\ new.nobj = 0 /\ ~ new.load
      /\ \A h \in DOMAIN index : h # g
  BY DEF Made
<1>2. \A i \in DOMAIN segs' : i \in DOMAIN list \/ i = Len(list) + 1
  BY <1>1
<1>3. \A i \in DOMAIN list : i \in DOMAIN segs' /\ list[i].gen # g
  BY <1>1, GensListed DEF Fine, Ordered, Listed
<1>4. Mine(g)' = {}
  BY <1>3 DEF Mine
<1>5. Counted(new)'
  <2>1. new.nobj = Cardinality(Mine(new.gen)')
    BY <1>1, <1>4, FS_EmptySet
  <2>2. Bounded(new)'
    BY <1>1, <1>4 DEF Bounded
  <2> QED  BY <2>1, <2>2, <1>1 DEF Counted
<1>6. ASSUME NEW i \in DOMAIN segs', NEW r, r = segs'[i] PROVE Counted(r)'
  <2>1. CASE i \in DOMAIN list
    <3>1. r = list[i] /\ Counted(list[i])'
      BY <2>1, <1>1, <1>6
    <3> QED  BY <3>1 DEF Counted, Held, Bounded, Mine
  <2>2. CASE i = Len(list) + 1
    <3>1. r = new
      BY <2>2, <1>1, <1>6
    <3> QED  BY <3>1, <1>5 DEF Counted, Held, Bounded, Mine
  <2> QED  BY <2>1, <2>2, <1>2
<1>7. ASSUME NEW i \in DOMAIN segs', NEW r, r = segs'[i], r.gen # cur', Intact(r)' PROVE InHash(r)'
  <2>1. i \in DOMAIN list /\ r = list[i]
    BY <1>1, <1>2, <1>7
  <2> QED  BY <2>1, <1>7
<1>8. \A o \in cached' : \E i \in DOMAIN segs' : segs'[i].gen = o[1]
  BY <1>1, <1>3
<1>9. \A i \in DOMAIN buf' : buf'[i].live => <<cur', i>> \in cached'
  BY <1>1
<1> QED  BY <1>6, <1>7, <1>8, <1>9, ObjectsAfter

\* From smp_alloc: the other segments stay as they are.
LEMMA ObjectsNewSeg ==
  ASSUME Shape, Alive, Objects, NEW list, Fine(list), NEW free \in Nat, SPC <= free, MoreSegs,
         smp_new_seg(list, free), UNCHANGED <<loader, cached>>,
         \A i \in DOMAIN list : \E k \in DOMAIN segs : list[i] = segs[k] /\ segs[k].gen # cur,
         \A o \in cached : \E i \in DOMAIN list : list[i].gen = o[1]
  PROVE  Objects'
<1>1. PICK g, off, new : Made(list, free, g, off, new)
  BY NewSegIs DEF Fine
<1>2. \A h : Mine(h)' = Mine(h)
  BY DEF Mine
<1>3. Wrote(g) /\ cur' = g
  BY <1>1 DEF Made, Wrote
<1>4. ASSUME NEW i \in DOMAIN list PROVE Counted(list[i])' /\ (Intact(list[i])' => InHash(list[i])')
  <2>1. PICK k \in DOMAIN segs : list[i] = segs[k] /\ segs[k].gen # cur
    OBVIOUS
  <2>2. PICK s : s = list[i]
    OBVIOUS
  <2>3. /\ s \in SegRec /\ Listed(s) /\ Counted(s) /\ s.gen \in DOMAIN index /\ s.gen # cur /\ s = segs[k]
    BY <2>1, <2>2, SegsAre, GensListed DEF Objects
  <2>4. s.gen # g /\ index'[s.gen] = index[s.gen]
    BY <2>3, <1>1 DEF Made
  <2>5. Counted(s)'
    BY <2>3, <2>4, <1>2, <1>3, CountedStands
  <2>6. ASSUME Intact(s)' PROVE InHash(s)'
    <3>1. Intact(s)
      BY <2>3, <2>4, <2>6, <1>3, IntactBack, SegFields
    <3>2. InHash(s)
      BY <3>1, <2>3 DEF Objects
    <3> QED  BY <3>2, <2>4, InHashStands
  <2> QED  BY <2>2, <2>5, <2>6
<1> QED  BY <1>1, <1>4, ObjectsNew

\* The segment that is removed has no objects.
LEMMA ObjectsSkips ==
  ASSUME Shape, Alive, Objects, AllocSkips
  PROVE  Alive' => Objects'
<1>1. saving = 0 /\ Seg(cur).n = 0 /\ NewSegAndTry(Front(segs), freeOff)
  BY DEF AllocSkips
<1>2. CASE Die
  BY <1>2 DEF Die, Alive
<1>3. CASE MoreSegs /\ smp_new_seg(Front(segs), freeOff) /\ UNCHANGED <<loader, cached>>
  <2>1. PICK f : f = Front(segs)
    OBVIOUS
  <2>2. /\ Fine(f) /\ \A i \in DOMAIN f : i \in DOMAIN segs /\ f[i] = segs[i] /\ segs[i].gen # cur
        /\ \A i \in DOMAIN segs : segs[i].gen # cur => i \in DOMAIN f
    BY <1>1, <2>1, FineParts
  <2>3. PICK z : z = segs[Len(segs)]
    OBVIOUS
  <2>4. z \in SegRec /\ z.gen = cur /\ Counted(z) /\ Open /\ Seg(cur) = z
    BY <1>1, <2>3, CurIs, SegsAre DEF Objects
  <2>5. z.n2 = 0
    BY <1>1, <2>3, <2>4, SegFields DEF Open
  <2>6. Mine(cur) = {}
    <3>1. Bounded(z)
      BY <2>4 DEF Counted
    <3>2. \A o \in Mine(cur) : o[2] <= 0 /\ o[2] \in Nat \ {0}
      BY <3>1, <2>4, <2>5 DEF Bounded, Mine, Shape, ChildTypes
    <3> QED  BY <3>2
  <2>7. ASSUME NEW o \in cached PROVE \E i \in DOMAIN f : f[i].gen = o[1]
    <3>1. o[1] # cur
      BY <2>6 DEF Mine
    <3>2. PICK i \in DOMAIN segs : segs[i].gen = o[1]
      BY DEF Objects, Gens
    <3> QED  BY <3>1, <3>2, <2>2
  <2>8. freeOff \in Nat /\ SPC <= freeOff
    <3>1. Listed(segs[Len(segs)])
      BY SegsAre
    <3> QED  BY <3>1, <2>3, <2>4, SegFields, Sizes DEF Open, Listed, smp_segend, Shape, ChildTypes
  <2> QED  BY <1>3, <2>1, <2>2, <2>7, <2>8, ObjectsNewSeg
<1> QED  BY <1>1, <1>2, <1>3 DEF NewSegAndTry

\* The next segment, after one was closed.
LEMMA ObjectsSaved ==
  ASSUME Shape, Alive, Objects, Saved
  PROVE  Alive' => Objects'
<1>1. saving = 9
  BY DEF Saved
<1>2. CASE Die
  BY <1>2 DEF Die, Alive
<1>3. CASE MoreSegs /\ smp_new_seg(segs, smp_segend(Last(segs))) /\ UNCHANGED <<loader, cached>>
  <2>1. PICK f : f = segs
    OBVIOUS
  <2>2. Fine(f) /\ Listed(segs[Len(segs)]) /\ segs[Len(segs)] \in SegRec
    BY <1>1, <2>1, FineParts, SegsAre
  <2>3. smp_segend(Last(segs)) \in Nat /\ SPC <= smp_segend(Last(segs))
    BY <2>2, SegFields, Sizes DEF Last, Listed, smp_segend
  <2>4. \A i \in DOMAIN f : f[i] = segs[i] /\ segs[i].gen # cur
    BY <1>1, <2>1, SegsAre, GensListed DEF Running
  <2>5. \A o \in cached : \E i \in DOMAIN f : f[i].gen = o[1]
    BY <2>1 DEF Objects, Gens
  <2> QED  BY <1>3, <2>1, <2>2, <2>3, <2>4, <2>5, ObjectsNewSeg
<1> QED  BY <1>2, <1>3 DEF Saved, NewSegAndTry

\* smp_open: every segment is held, the first is the loader's.
LEMMA ObjectsOpen ==
  ASSUME Shape, smp_open
  PROVE  Objects'
<1>1. MoreSegs /\ child = "down" /\ cached' = cached
  BY DEF smp_open
<1>2. cached' = {}
  BY <1>1 DEF Shape, Gone
<1>3. PICK list, keep, free : Opened(list, keep, free) /\ Fine(list) /\ free \in Nat /\ SPC <= free
  BY OpenIs
<1>4. PICK g, off, new : Made(list, free, g, off, new)
  BY <1>1, <1>3, NewSegIs DEF Opened, Fine
<1>5. \A h : Mine(h)' = {}
  BY <1>2 DEF Mine
<1>6. loader'.i = 0
  <2>1. loader' = IF list = <<>> THEN NoLoad ELSE [gen |-> list[1].gen, i |-> 0]
    BY <1>3 DEF Opened
  <2> QED  BY <2>1 DEF NoLoad
<1>7. ASSUME NEW i \in DOMAIN list PROVE Counted(list[i])' /\ InHash(list[i])'
  <2>1. list[i].n1 = 0 /\ list[i].nobj = 1 /\ list[i].load
    BY <1>3, <1>7 DEF Opened
  <2>2. list[i].gen # cur'
    BY <1>3, <1>4, <1>7, GensListed DEF Fine, Ordered, Listed, Made
  <2>3. Held(list[i])'
    BY <2>1, <2>2, <1>5, <1>6 DEF Held
  <2>4. Bounded(list[i])'
    BY <1>5 DEF Bounded
  <2>5. Counted(list[i])'
    BY <2>1, <2>3, <2>4, <1>6 DEF Counted
  <2>6. InHash(list[i])'
    <3>1. index'[list[i].gen] \in Seq(Desc)
      <4>1. list[i].gen \in DOMAIN index
        BY <1>3, <1>7, GensListed DEF Fine, Ordered, Listed
      <4>2. index'[list[i].gen] = index[list[i].gen]
        BY <4>1, <1>4 DEF Made
      <4> QED  BY <4>1, <4>2, GensListed, ElementOfSeq DEF Shape, SiloTypes
    <3>2. \A j \in DOMAIN index'[list[i].gen] : ~ (j <= 0)
      BY <3>1, LenProperties
    <3> QED  BY <3>2, <2>1 DEF InHash
  <2> QED  BY <2>5, <2>6
<1> QED  BY <1>2, <1>3, <1>4, <1>7, ObjectsNew

-----------------------------------------------------------------------------
\* The new silo.
LEMMA ObjectsInit ==
  ASSUME Init
  PROVE  Objects
BY DEF Init, Objects, Alive

\* Every step keeps Objects.
LEMMA ObjectsNext ==
  ASSUME Shape, Objects, [Next]_vars
  PROVE  Objects'
<1>1. CASE ~ Alive'
  BY <1>1 DEF Objects
<1> SUFFICES ASSUME Alive' PROVE Objects'
  BY <1>1
<1>2. CASE UNCHANGED vars
  <2>1. Alive /\ UNCHANGED <<unit, index, segs, cur, loader, cached, buf>>
    BY <1>2 DEF vars, siloVars, segVars, Alive
  <2> QED  BY <2>1, ObjectsSame
<1> SUFFICES ASSUME Next PROVE Objects'
  BY <1>2
<1>0. child # "lost"
  BY DEF Next
<1>3. CASE StartFails \/ smp_open
  <2>1. ~ StartFails
    BY DEF StartFails, Alive
  <2> QED  BY <1>3, <2>1, ObjectsOpen
<1>4. CASE BAN_Insert \/ SMP_NewBan \/ smp_save_seg \/ \E a \in Asked : smp_alloc(a)
  <2>1. Alive
    BY <1>0, <1>4, WhoActs DEF BAN_Insert, SMP_NewBan, smp_save_seg, smp_alloc, Alive
  <2>2. UNCHANGED <<unit, index, segs, cur, loader, cached, buf>>
    BY <1>4 DEF BAN_Insert, SMP_NewBan, smp_save_seg, smp_alloc, siloVars, segVars
  <2> QED  BY <2>1, <2>2, ObjectsSame
<1>5. CASE AllocTakes \/ AllocSkips \/ Saved
  <2>1. Alive
    BY <1>0, <1>5, WhoActs DEF AllocTakes, AllocSkips, Saved
  <2> QED  BY <2>1, <1>5, ObjectsTakes, ObjectsSkips, ObjectsSaved
<1>6. CASE AllocCloses \/ smp_close
  <2>1. Alive /\ saving = 0
    BY <1>0, <1>6, WhoActs DEF AllocCloses, smp_close, Locked, Alive
  <2>2. smp_close_seg
    BY <1>6 DEF AllocCloses, smp_close, Die, Alive
  <2> QED  BY <2>1, <2>2, ObjectsClose
<1>7. CASE \E g \in Gens(segs) : smp_object(g)
  BY <1>7, ObjectsAdd
<1>8. CASE \E o \in cached : SMP_FreeObj(o) \/ SMP_BANchanged(o) \/ SMP_TTLchanged(o)
  BY <1>8, ObjectsFree, ObjectsChanged
<1>9. CASE LoadBegins \/ LoadObject \/ LoadNext
  BY <1>9, ObjectsLoadBegins, ObjectsLoadObject, ObjectsLoadNext
<1>10. CASE Crash
  BY <1>10 DEF Crash, Die, Alive
<1> QED  BY <1>3, <1>4, <1>5, <1>6, <1>7, <1>8, <1>9, <1>10 DEF Next

-----------------------------------------------------------------------------
(***************************************************************************)
(* What is written                                                         *)
(***************************************************************************)
\* Most steps write neither into a segment nor a table, and keep the list.
Quiet ==
  /\ UNCHANGED <<tab, unit, torn, met>>
  /\ Alive' =>
       /\ Alive /\ UNCHANGED <<cur, nextAddr, saving>>
       /\ segs' \in Seq(SegRec) /\ Len(segs') = Len(segs) /\ DOMAIN segs' = DOMAIN segs
       /\ \A i \in DOMAIN segs : Same(segs'[i], segs[i])

\* A new segment behind those that are closed.
Grows(list, free) ==
  /\ Alive /\ Alive' /\ saving \in {0, 9} /\ saving' = 0 /\ UNCHANGED <<tab, torn>>
  /\ Fine(list) /\ free \in Nat /\ SPC <= free /\ MoreSegs /\ smp_new_seg(list, free)
  /\ \A i \in DOMAIN list : \E k \in DOMAIN segs : list[i] = segs[k] /\ segs[k].gen # cur
  /\ \A k \in DOMAIN segs : segs[k].gen # cur => \E i \in DOMAIN list : list[i] = segs[k]

\* The child ends.
LEMMA QuietEnd ==
  ASSUME UNCHANGED <<tab, unit, torn, met>>, ~ Alive'
  PROVE  Quiet
BY DEF Quiet

\* The list is not touched.
LEMMA QuietSame ==
  ASSUME Shape, Alive, UNCHANGED <<tab, unit, torn, met, cur, nextAddr, saving, segs>>
  PROVE  Quiet
<1>1. segs \in Seq(SegRec) /\ \A i \in DOMAIN segs : Same(segs[i], segs[i])
  BY SegsAre DEF Same
<1> QED  BY <1>1 DEF Quiet

\* One record changes, but not where its segment is.
LEMMA QuietStep ==
  ASSUME Shape, Alive, UNCHANGED <<tab, unit, torn, met, cur, nextAddr, saving>>,
         NEW k \in DOMAIN segs, NEW r \in SegRec, SegStep(k, r), Same(r, segs[k])
  PROVE  Quiet
<1>1. \A i \in DOMAIN segs : Same(segs'[i], segs[i])
  BY DEF SegStep, Same
<1> QED  BY <1>1 DEF Quiet, SegStep

\* The list without the open segment.
LEMMA GrowsSkips ==
  ASSUME Shape, Alive, AllocSkips, Alive'
  PROVE  \E list, free : Grows(list, free)
<1>1. saving = 0 /\ NewSegAndTry(Front(segs), freeOff) /\ UNCHANGED <<tab, torn>>
  BY DEF AllocSkips
<1>2. MoreSegs /\ smp_new_seg(Front(segs), freeOff) /\ saving' = 0
  BY <1>1 DEF NewSegAndTry, Die, Alive
<1>3. PICK f : f = Front(segs)
  OBVIOUS
<1>4. PICK free : free = freeOff
  OBVIOUS
<1>5. /\ Fine(f) /\ \A i \in DOMAIN f : i \in DOMAIN segs /\ f[i] = segs[i] /\ segs[i].gen # cur
      /\ \A i \in DOMAIN segs : segs[i].gen # cur => i \in DOMAIN f
  BY <1>1, <1>3, FineParts
<1>6. free \in Nat /\ SPC <= free
  <2>1. Open /\ Listed(segs[Len(segs)]) /\ segs[Len(segs)] \in SegRec
    BY <1>1, CurIs, SegsAre
  <2> QED  BY <1>4, <2>1, SegFields, Sizes DEF Open, Listed, smp_segend, Shape, ChildTypes
<1>7. Grows(f, free)
  BY <1>1, <1>2, <1>3, <1>4, <1>5, <1>6 DEF Grows
<1> QED  BY <1>7

\* The list as it was saved.
LEMMA GrowsSaved ==
  ASSUME Shape, Alive, Saved, Alive'
  PROVE  \E list, free : Grows(list, free)
<1>1. saving = 9 /\ UNCHANGED <<tab, torn>>
  BY DEF Saved
<1>2. MoreSegs /\ smp_new_seg(segs, smp_segend(Last(segs))) /\ saving' = 0
  BY DEF Saved, NewSegAndTry, Die, Alive
<1>3. PICK f : f = segs
  OBVIOUS
<1>4. PICK free : free = smp_segend(Last(segs))
  OBVIOUS
<1>5. Fine(f) /\ Listed(segs[Len(segs)]) /\ segs[Len(segs)] \in SegRec
  BY <1>1, <1>3, FineParts, SegsAre
<1>6. free \in Nat /\ SPC <= free
  <2>1. smp_segend(Last(segs)) \in Nat /\ SPC <= smp_segend(Last(segs))
    BY <1>5, SegFields, Sizes DEF Last, Listed, smp_segend
  <2> QED  BY <1>4, <2>1
<1>7. \A i \in DOMAIN f : f[i] = segs[i] /\ segs[i].gen # cur
  BY <1>1, <1>3, SegsAre, GensListed DEF Running
<1>8. Grows(f, free)
  BY <1>1, <1>2, <1>3, <1>4, <1>5, <1>6, <1>7 DEF Grows
<1> QED  BY <1>8

\* The steps that write a table or into a segment, and the others.
LEMMA WhatIsWritten ==
  ASSUME Shape, Objects, [Next]_vars
  PROVE  \/ Quiet \/ smp_open
         \/ Alive /\ (AllocTakes \/ smp_save_seg)
         \/ Alive /\ saving = 0 /\ smp_close_seg
         \/ \E list, free : Grows(list, free)
<1>1. CASE UNCHANGED vars
  <2>1. /\ UNCHANGED <<tab, unit, torn, met, cur, nextAddr, saving, segs>>
        /\ Alive' => Alive
    BY <1>1 DEF vars, siloVars, segVars, allocVars, hist, Alive
  <2> QED  BY <2>1, QuietSame, QuietEnd
<1> SUFFICES ASSUME Next
             PROVE  \/ Quiet \/ smp_open
                    \/ Alive /\ (AllocTakes \/ smp_save_seg)
                    \/ Alive /\ saving = 0 /\ smp_close_seg
                    \/ \E list, free : Grows(list, free)
  BY <1>1
<1>0. child # "lost"
  BY DEF Next
<1>2. CASE StartFails
  BY <1>2, QuietEnd DEF StartFails, siloVars, hist, Alive
<1>3. CASE BAN_Insert \/ SMP_NewBan \/ LoadNext \/ \E a \in Asked : smp_alloc(a)
  <2>1. Alive
    BY <1>0, <1>3, WhoActs DEF BAN_Insert, SMP_NewBan, LoadNext, Loading, smp_alloc, Alive
  <2>2. UNCHANGED <<tab, unit, torn, met, cur, nextAddr, saving, segs>>
    BY <1>3 DEF BAN_Insert, SMP_NewBan, LoadNext, smp_alloc, siloVars, segVars, allocVars, hist
  <2> QED  BY <2>1, <2>2, QuietSame
<1>4. CASE AllocTakes \/ AllocSkips \/ smp_save_seg \/ Saved
  <2>1. Alive
    BY <1>0, <1>4, WhoActs DEF AllocTakes, AllocSkips, smp_save_seg, Saved
  <2>2. CASE AllocSkips
    <3>1. CASE Alive'
      BY <3>1, <2>1, <2>2, GrowsSkips
    <3>2. CASE ~ Alive'
      <4>1. UNCHANGED <<unit, met, tab, torn>>
        BY <3>2, <2>1, <2>2 DEF AllocSkips, NewSegAndTry, Alive
      <4> QED  BY <4>1, <3>2, QuietEnd
    <3> QED  BY <3>1, <3>2
  <2>3. CASE Saved
    <3>1. CASE Alive'
      BY <3>1, <2>1, <2>3, GrowsSaved
    <3>2. CASE ~ Alive'
      <4>1. UNCHANGED <<unit, met, tab, torn>>
        BY <3>2, <2>1, <2>3 DEF Saved, NewSegAndTry, Alive
      <4> QED  BY <4>1, <3>2, QuietEnd
    <3> QED  BY <3>1, <3>2
  <2> QED  BY <1>4, <2>1, <2>2, <2>3
<1>5. CASE AllocCloses \/ smp_close
  <2>1. Alive /\ saving = 0
    BY <1>0, <1>5, WhoActs DEF AllocCloses, smp_close, Locked, Alive
  <2>2. CASE Die /\ UNCHANGED <<siloVars, hist>>
    BY <2>2, QuietEnd DEF Die, Alive, siloVars, hist
  <2> QED  BY <2>1, <2>2, <1>5 DEF AllocCloses, smp_close
<1>6. CASE \E g \in Gens(segs) : smp_object(g)
  <2>1. PICK g \in Gens(segs) : smp_object(g)
    BY <1>6
  <2>2. Alive /\ UNCHANGED <<tab, unit, torn, met, cur, nextAddr, saving>>
    BY <2>1 DEF smp_object, Alive, hist, allocVars
  <2>3. PICK k \in DOMAIN segs, r \in SegRec : SegStep(k, r) /\ Same(r, segs[k])
    BY <2>1, NewObjectIs
  <2> QED  BY <2>2, <2>3, QuietStep
<1>7. CASE \E o \in cached : SMP_FreeObj(o) \/ SMP_BANchanged(o) \/ SMP_TTLchanged(o)
  <2>1. PICK o \in cached : SMP_FreeObj(o) \/ SMP_BANchanged(o) \/ SMP_TTLchanged(o)
    BY <1>7
  <2>2. Alive /\ UNCHANGED <<tab, unit, torn, met, cur, nextAddr, saving>>
    BY <2>1 DEF SMP_FreeObj, SMP_BANchanged, SMP_TTLchanged, Alive, hist, allocVars
  <2>3. CASE SMP_FreeObj(o)
    <3>1. PICK k \in DOMAIN segs, r \in SegRec : SegStep(k, r) /\ Same(r, segs[k])
      BY <2>2, <2>3, FreeIs
    <3> QED  BY <2>2, <3>1, QuietStep
  <2>4. CASE SMP_BANchanged(o) \/ SMP_TTLchanged(o)
    <3>1. segs' = segs
      BY <2>4 DEF SMP_BANchanged, SMP_TTLchanged
    <3> QED  BY <2>2, <3>1, QuietSame
  <2> QED  BY <2>1, <2>3, <2>4
<1>8. CASE LoadBegins
  <2>1. Alive /\ UNCHANGED <<tab, unit, torn, met, cur, nextAddr, saving>>
    BY <1>8 DEF LoadBegins, Loading, Alive, siloVars, hist, allocVars
  <2>2. PICK k \in DOMAIN segs, r \in SegRec : SegStep(k, r) /\ Same(r, segs[k])
    BY <1>8, BeginsIs
  <2> QED  BY <2>1, <2>2, QuietStep
<1>9. CASE LoadObject
  <2>1. Alive /\ UNCHANGED <<tab, unit, torn, met>>
    BY <1>9 DEF LoadObject, Loading, Alive, siloVars, hist
  <2>2. CASE ~ Alive'
    BY <2>1, <2>2, QuietEnd
  <2>3. CASE Alive'
    <3>1. UNCHANGED <<cur, nextAddr, saving>>
      BY <1>9, <2>3 DEF LoadObject, Lost, Die, Alive, allocVars
    <3>2. PICK k \in DOMAIN segs, r \in SegRec : SegStep(k, r) /\ Same(r, segs[k])
      BY <1>9, <2>3, ObjectIs
    <3> QED  BY <2>1, <3>1, <3>2, QuietStep
  <2> QED  BY <2>2, <2>3
<1>10. CASE Crash
  BY <1>10, QuietEnd DEF Crash, Die, Alive, siloVars, hist
<1> QED  BY <1>2, <1>3, <1>4, <1>5, <1>6, <1>7, <1>8, <1>9, <1>10 DEF Next

-----------------------------------------------------------------------------
\* The head is all that a new segment has.
LEMMA WrittenNew ==
  ASSUME NEW list, NEW free, NEW g, NEW off, NEW new, Made(list, free, g, off, new)
  PROVE  Written'
<1>1. /\ segs'[Len(segs')] = new /\ new.offset = off /\ nextAddr' = off + 1 /\ cur' = g /\ off \in Nat
      /\ off \in DOMAIN unit /\ unit' = [unit EXCEPT ![off] = g]
  BY DEF Made
<1>2. \A a \in off .. (off + 1) - 1 : a = off
  BY <1>1
<1>3. unit'[off] = g
  BY <1>1
<1> QED  BY <1>1, <1>2, <1>3 DEF Written

\* Every step keeps Written.
LEMMA WrittenNext ==
  ASSUME Shape, Objects, Written, [Next]_vars
  PROVE  Written'
<1> SUFFICES ASSUME Alive', cur' # 0 PROVE Written'
  BY DEF Written
<1>1. CASE Quiet
  <2>1. Alive /\ UNCHANGED <<cur, nextAddr, unit>> /\ Len(segs') = Len(segs) /\ Same(segs'[Len(segs)], segs[Len(segs)])
    BY <1>1, SegsAre DEF Quiet
  <2> QED  BY <2>1 DEF Written, Same
<1>2. CASE smp_open
  <2>1. PICK list, keep, free : Opened(list, keep, free) /\ Fine(list) /\ free \in Nat /\ SPC <= free
    BY <1>2, OpenIs
  <2>2. PICK g, off, new : Made(list, free, g, off, new)
    BY <1>2, <2>1, NewSegIs DEF Opened, Fine, smp_open
  <2> QED  BY <2>2, WrittenNew
<1>3. CASE Alive /\ AllocTakes
  <2>1. PICK got \in Nat, r \in SegRec :
           /\ SegStep(Len(segs), r) /\ Same(r, segs[Len(segs)]) /\ nextAddr' = nextAddr + got
           /\ nextAddr + got + 2 + r.n1 <= smp_segend(segs[Len(segs)])
           /\ unit' = [a \in DOMAIN unit |-> IF a \in nextAddr .. nextAddr + got - 1 THEN cur ELSE unit[a]]
    BY <1>3, TakesIs
  <2>2. PICK z \in SegRec : z = segs[Len(segs)] /\ Listed(z)
    BY <1>3, SegsAre
  <2>3. /\ saving = 0 /\ cur' = cur /\ z.offset \in Nat /\ z.length \in Nat /\ nextAddr \in Nat /\ z.offset < nextAddr
        /\ cur # 0 /\ r.n1 \in Nat /\ DOMAIN unit = SPC .. MediaSize - 1
    BY <1>3, <2>2, CurIs, SegFields DEF AllocTakes, Open, Shape, ChildTypes, SiloTypes
  <2>4. Len(segs') = Len(segs) /\ segs'[Len(segs')].offset = z.offset
    BY <2>1, <2>2 DEF SegStep, Same
  <2>5. nextAddr + got <= MediaSize
    BY <2>1, <2>2, <2>3, Sizes, SMTT(30) DEF Listed, smp_segend
  <2>6. ASSUME NEW a \in z.offset .. (nextAddr + got) - 1 PROVE unit'[a] = cur
    <3>1. a \in DOMAIN unit
      BY <2>2, <2>3, <2>5, Sizes DEF Listed
    <3>2. CASE a < nextAddr
      <4>1. unit[a] = cur
        BY <1>3, <2>2, <2>3, <3>2 DEF Written
      <4> QED  BY <4>1, <3>1, <2>1
    <3>3. CASE a >= nextAddr
      <4>1. a \in nextAddr .. nextAddr + got - 1
        BY <3>3, <2>3
      <4> QED  BY <4>1, <3>1, <2>1
    <3> QED  BY <3>2, <3>3, <2>3
  <2> QED  BY <2>1, <2>3, <2>4, <2>6 DEF Written
<1>4. CASE Alive /\ smp_save_seg
  <2>1. saving # 0 /\ cur' = cur
    BY <1>4 DEF smp_save_seg, segVars
  <2> QED  BY <1>4, <2>1, SegsAre DEF Running
<1>5. CASE Alive /\ saving = 0 /\ smp_close_seg
  <2>1. PICK r, m : Shut(r, m)
    BY <1>5, CloseIs
  <2> QED  BY <2>1 DEF Shut
<1>6. CASE \E list, free : Grows(list, free)
  <2>1. PICK list, free : Grows(list, free)
    BY <1>6
  <2>2. PICK g, off, new : Made(list, free, g, off, new)
    BY <2>1, NewSegIs DEF Grows, Fine
  <2> QED  BY <2>2, WrittenNew
<1> QED  BY <1>1, <1>2, <1>3, <1>4, <1>5, <1>6, WhatIsWritten

-----------------------------------------------------------------------------
(***************************************************************************)
(* What the next start finds                                               *)
(***************************************************************************)
LEMMA TablesAfter ==
  ASSUME NEW t1, NEW t2, tab'[1] = t1, tab'[2] = t2,
         ~ torn' /\ ~ met' => t1.ok \/ t2.ok,
         ~ torn' /\ ~ met' => Safe(IF t1.ok THEN t1 ELSE t2)',
         ~ torn' /\ ~ met' /\ Alive' => \A i \in DOMAIN segs' : \A r : r = segs'[i] /\ r.gen # cur' => Intact(r)',
         ~ torn' /\ Alive' /\ saving' \in {0, 1} => t1 = t2 /\ t1.ok,
         ~ torn' /\ Alive' /\ saving' = 0 => Linked(t1)',
         ~ torn' /\ Alive' /\ saving' \in {2, 3, 4} => t2.ok /\ (~ met' => Safe(t2)'),
         ~ torn' /\ Alive' /\ saving' \in 5 .. 9 => t1 = New',
         ~ torn' /\ Alive' /\ saving' = 9 => t2 = New'
  PROVE  Tables'
<1>1. ~ torn' /\ ~ met' => Safe(Chosen(tab))'
  BY DEF Safe, Chosen, Kept1, Intact, Span, smp_segend
<1>2. ~ torn' /\ ~ met' /\ Alive' => \A i \in DOMAIN segs' : segs'[i].gen # cur' => Intact(segs[i])'
  BY DEF Intact, Span, smp_segend
<1>3. ~ torn' /\ Alive' /\ saving' = 0 => Linked(tab[1])'
  BY DEF Linked, Kept1
<1>4. ~ torn' /\ Alive' /\ saving' \in {2, 3, 4} => (tab'[2].ok /\ (~ met' => Safe(tab[2])'))
  BY DEF Safe, Kept1, Intact, Span, smp_segend
<1> QED  BY <1>1, <1>2, <1>3, <1>4 DEF Tables

\* Nothing is kept that the table does not have.
LEMMA KeptIn ==
  ASSUME NEW t, t.list \in Seq(Ptr), \A i \in DOMAIN t.list : SPC <= t.list[i].offset /\ 0 < t.list[i].length,
         NEW i \in DOMAIN Kept1(t)
  PROVE  \E k \in DOMAIN t.list : Kept1(t)[i] = t.list[k]
<1>1. PICK l \in Seq(Ptr) : l = t.list
  OBVIOUS
<1>2. PICK keep : keep = smp_open_segs(l).keep
  OBVIOUS
<1>3. \A x \in DOMAIN l : SPC <= l[x].offset /\ 0 < l[x].length
  BY <1>1
<1>4. PICK j \in Nat :
           /\ keep \in Seq(Ptr) /\ Len(keep) + j = Len(l) /\ DOMAIN keep = 1 .. Len(keep) /\ Len(keep) \in Nat
           /\ \A x \in DOMAIN keep : x + j \in DOMAIN l /\ keep[x] = l[x + j] /\ x \in Nat
  BY <1>2, <1>3, KeepIs
<1> QED  BY <1>1, <1>2, <1>4 DEF Kept1

\* An empty table is no harm.
LEMMA SafeEmpty ==
  ASSUME NEW t, t.list = <<>>
  PROVE  Safe(t)'
<1>1. Kept1(t) = <<>>
  BY DEF Kept1, smp_open_segs
<1> QED  BY <1>1 DEF Safe

\* Nothing is written.
LEMMA SafeStands ==
  ASSUME NEW t, Safe(t), unit' = unit
  PROVE  Safe(t)'
BY DEF Safe, Intact

\* The segments of the list stay as they are written.
Spared == \A k \in DOMAIN segs : segs[k].gen # cur => \A a \in Span(segs[k]) : unit'[a] = segs[k].gen

\* What is kept of a table is on the list, and the list is spared.
LEMMA SafeLinked ==
  ASSUME NEW t, Linked(t), Spared
  PROVE  Safe(t)'
<1> SUFFICES ASSUME NEW i \in DOMAIN Kept1(t) PROVE Intact(Kept1(t)[i])'
  BY DEF Safe
<1>1. PICK p : p = Kept1(t)[i]
  OBVIOUS
<1>2. PICK k \in DOMAIN segs : segs[k].gen # cur /\ Segptr(segs[k]) = p
  BY <1>1 DEF Linked
<1>3. p.gen = segs[k].gen /\ p.offset = segs[k].offset /\ p.length = segs[k].length
  BY <1>2 DEF Segptr
<1>4. \A a \in Span(p) : unit'[a] = p.gen
  BY <1>2, <1>3 DEF Spared, Span, smp_segend
<1> QED  BY <1>1, <1>4 DEF Intact

\* Segments of the list do not overlap.
LEMMA Apart ==
  ASSUME Shape, Alive, Ringed, ~ met, NEW i \in DOMAIN segs, NEW k \in DOMAIN segs, i # k
  PROVE  Span(segs[i]) \cap Span(segs[k]) = {}
<1>1. Ring(segs) /\ DOMAIN segs = 1 .. Len(segs) /\ Parts(segs)
  BY SegsAre DEF Ringed
<1>2. i < k \/ k < i
  BY <1>1 DEF Parts
<1>3. Before(segs[i], segs[k]) \/ Before(segs[k], segs[i])
  BY <1>1, <1>2 DEF Ring
<1>4. PICK p : p = segs[i]
  OBVIOUS
<1>5. PICK q : q = segs[k]
  OBVIOUS
<1>6. p.offset \in Nat /\ p.length \in Nat /\ q.offset \in Nat /\ q.length \in Nat
  BY <1>1, <1>4, <1>5 DEF Parts
<1>7. p.offset + p.length <= q.offset \/ q.offset + q.length <= p.offset
  BY <1>3, <1>4, <1>5 DEF Before, smp_segend
<1>8. ASSUME NEW a \in Span(p), a \in Span(q) PROVE FALSE
  BY <1>6, <1>7, <1>8 DEF Span, smp_segend
<1> QED  BY <1>4, <1>5, <1>8

\* What is written is inside the open segment.
LEMMA SparedOpen ==
  ASSUME Shape, Alive, saving = 0, Ringed, ~ met, Tables, ~ torn, NEW end \in Nat,
         end <= smp_segend(segs[Len(segs)]),
         unit' = [a \in DOMAIN unit |-> IF a \in nextAddr .. end - 1 THEN cur ELSE unit[a]]
  PROVE  Spared
<1> SUFFICES ASSUME NEW k \in DOMAIN segs, segs[k].gen # cur, NEW a \in Span(segs[k]) PROVE unit'[a] = segs[k].gen
  BY DEF Spared
<1>1. /\ Len(segs) \in DOMAIN segs /\ k # Len(segs) /\ Open /\ segs[Len(segs)] \in SegRec
  BY CurIs, SegsAre
<1>2. a \notin Span(segs[Len(segs)])
  BY <1>1, Apart
<1>3. unit[a] = segs[k].gen
  BY DEF Tables, Intact
<1>4. a \in DOMAIN unit /\ a \in Int
  <2>1. segs[k] \in SegRec /\ Listed(segs[k])
    BY SegsAre
  <2>2. Span(segs[k]) \subseteq DOMAIN unit
    BY <2>1, SpanIn, SegFields
  <2>3. DOMAIN unit \subseteq Int
    BY Sizes DEF Shape, SiloTypes
  <2> QED  BY <2>2, <2>3
<1>5. PICK z \in SegRec : z = segs[Len(segs)]
  BY <1>1
<1>6. z.offset < nextAddr /\ nextAddr \in Nat /\ z.offset \in Nat /\ z.length \in Nat /\ end <= z.offset + z.length
  BY <1>1, <1>5, SegFields DEF Open, Shape, ChildTypes, smp_segend
<1>7. a \notin nextAddr .. end - 1
  <2> SUFFICES ASSUME a \in nextAddr .. end - 1 PROVE FALSE
    OBVIOUS
  <2>1. a \in z.offset .. (z.offset + z.length) - 1
    BY <1>4, <1>6
  <2> QED  BY <2>1, <1>2, <1>5 DEF Span, smp_segend
<1> QED  BY <1>3, <1>4, <1>7

\* No table and no segment is written.
LEMMA TablesQuiet ==
  ASSUME Shape, Tables, Quiet
  PROVE  Tables'
<1>1. PICK t1 : t1 = tab[1]
  OBVIOUS
<1>2. PICK t2 : t2 = tab[2]
  OBVIOUS
<1>3. UNCHANGED <<tab, unit, torn, met>> /\ tab'[1] = t1 /\ tab'[2] = t2
  BY <1>1, <1>2 DEF Quiet
<1>4. Chosen(tab) = IF t1.ok THEN t1 ELSE t2
  BY <1>1, <1>2 DEF Chosen
<1>5. ~ torn' /\ ~ met' => (t1.ok \/ t2.ok) /\ Safe(IF t1.ok THEN t1 ELSE t2)'
  <2> SUFFICES ASSUME ~ torn, ~ met PROVE (t1.ok \/ t2.ok) /\ Safe(IF t1.ok THEN t1 ELSE t2)'
    BY <1>3
  <2>1. PICK t : t = IF t1.ok THEN t1 ELSE t2
    OBVIOUS
  <2>2. Safe(t)
    BY <1>4, <2>1 DEF Tables
  <2> QED  BY <2>1, <2>2, <1>1, <1>2, <1>3, SafeStands DEF Tables
<1>6. CASE ~ Alive'
  BY <1>3, <1>5, <1>6, TablesAfter
<1>7. CASE Alive'
  <2>1. /\ Alive /\ UNCHANGED <<cur, saving>> /\ DOMAIN segs' = DOMAIN segs
        /\ \A i \in DOMAIN segs : Same(segs'[i], segs[i])
    BY <1>7 DEF Quiet
  <2>2. \A i \in DOMAIN segs : Segptr(segs'[i]) = Segptr(segs[i])
    BY <2>1 DEF Segptr, Same
  <2>3. Segptrs' = Segptrs /\ New' = New
    BY <2>1, <2>2 DEF Segptrs, New, Segptr
  <2>4. ASSUME ~ torn, ~ met, NEW i \in DOMAIN segs', NEW r, r = segs'[i], r.gen # cur' PROVE Intact(r)'
    <3>1. Intact(segs[i]) /\ Same(r, segs[i])
      BY <2>1, <2>4 DEF Tables, Same
    <3> QED  BY <3>1, <1>3 DEF Intact, Span, smp_segend, Same
  <2>5. Linked(t1) => Linked(t1)'
    <3> SUFFICES ASSUME Linked(t1), NEW i \in DOMAIN Kept1(t1)
                 PROVE  \E k \in DOMAIN segs' : segs'[k].gen # cur' /\ Segptr(segs'[k]) = Kept1(t1)[i]
      BY DEF Linked, Segptr
    <3>1. PICK k \in DOMAIN segs : segs[k].gen # cur /\ Segptr(segs[k]) = Kept1(t1)[i]
      BY DEF Linked
    <3> QED  BY <3>1, <2>1, <2>2 DEF Same
  <2>6. Safe(t2) => Safe(t2)'
    BY <1>3, SafeStands
  <2>7. ASSUME ~ torn
        PROVE  /\ saving \in {0, 1} => t1 = t2 /\ t1.ok
               /\ saving = 0 => Linked(t1)
               /\ saving \in {2, 3, 4} => t2.ok /\ (~ met => Safe(t2))
               /\ saving \in 5 .. 9 => t1 = New
               /\ saving = 9 => t2 = New
    BY <2>1, <2>7, <1>1, <1>2 DEF Tables
  <2> QED  BY <1>3, <1>5, <2>1, <2>3, <2>4, <2>5, <2>6, <2>7, TablesAfter
<1> QED  BY <1>6, <1>7

\* While the list is not being saved, both tables have the same of it.
LEMMA TableIs ==
  ASSUME Tables, Alive, saving \in {0, 1}, ~ torn
  PROVE  \E t : /\ tab[1] = t /\ tab[2] = t /\ t.ok /\ Chosen(tab) = t
                /\ saving = 0 => Linked(t)
                /\ ~ met => Safe(t)
<1>1. PICK t : t = tab[1]
  OBVIOUS
<1>2. tab[2] = t /\ t.ok /\ (saving = 0 => Linked(t))
  BY <1>1 DEF Tables
<1>3. Chosen(tab) = t
  BY <1>1, <1>2 DEF Chosen
<1>4. ~ met => Safe(t)
  BY <1>3 DEF Tables
<1> QED  BY <1>1, <1>2, <1>3, <1>4

\* smp_alloc writes into the open segment, which no table has.
LEMMA TablesTakes ==
  ASSUME Shape, Alive, Ringed, Tables, AllocTakes
  PROVE  Tables'
<1>1. PICK got \in Nat, r \in SegRec :
           /\ SegStep(Len(segs), r) /\ Same(r, segs[Len(segs)]) /\ nextAddr' = nextAddr + got
           /\ nextAddr + got + 2 + r.n1 <= smp_segend(segs[Len(segs)])
           /\ unit' = [a \in DOMAIN unit |-> IF a \in nextAddr .. nextAddr + got - 1 THEN cur ELSE unit[a]]
  BY TakesIs
<1>2. saving = 0 /\ UNCHANGED <<tab, child, cur, saving, torn, met>>
  BY DEF AllocTakes, hist
<1>3. /\ DOMAIN segs' = DOMAIN segs /\ \A i \in DOMAIN segs : Same(segs'[i], segs[i])
  BY <1>1 DEF SegStep, Same
<1>4. CASE torn
  BY <1>2, <1>4 DEF Tables
<1>5. CASE ~ torn
  <2>1. PICK t : tab[1] = t /\ tab[2] = t /\ t.ok /\ Linked(t)
    BY <1>2, <1>5, TableIs
  <2>2. Linked(t)'
    <3> SUFFICES ASSUME NEW i \in DOMAIN Kept1(t)
                 PROVE  \E k \in DOMAIN segs' : segs'[k].gen # cur' /\ Segptr(segs'[k]) = Kept1(t)[i]
      BY DEF Linked, Segptr
    <3>1. PICK k \in DOMAIN segs : segs[k].gen # cur /\ Segptr(segs[k]) = Kept1(t)[i]
      BY <2>1 DEF Linked
    <3> QED  BY <3>1, <1>2, <1>3 DEF Same, Segptr
  <2>3. ASSUME ~ met PROVE Spared
    <3>1. PICK end : end = nextAddr + got
      OBVIOUS
    <3>2. segs[Len(segs)] \in SegRec /\ nextAddr \in Nat /\ r.n1 \in Nat
      BY SegsAre, SegFields DEF Shape, ChildTypes
    <3>3. end \in Nat /\ end <= smp_segend(segs[Len(segs)])
      BY <3>1, <3>2, <1>1, SegFields DEF smp_segend
    <3>4. \A a : a \in nextAddr .. nextAddr + got - 1 <=> a \in nextAddr .. end - 1
      BY <3>1, <3>2
    <3>5. unit' = [a \in DOMAIN unit |-> IF a \in nextAddr .. end - 1 THEN cur ELSE unit[a]]
      BY <3>4, <1>1
    <3> QED  BY <3>3, <3>5, <1>2, <1>5, <2>3, SparedOpen
  <2>4. ~ met => Safe(t)'
    BY <2>1, <2>3, SafeLinked
  <2>5. ASSUME ~ met, NEW i \in DOMAIN segs', NEW q, q = segs'[i], q.gen # cur' PROVE Intact(q)'
    <3>1. i \in DOMAIN segs /\ Same(q, segs[i]) /\ segs[i].gen # cur
      BY <2>5, <1>2, <1>3 DEF Same
    <3>2. \A a \in Span(segs[i]) : unit'[a] = segs[i].gen
      BY <3>1, <2>3, <2>5 DEF Spared
    <3> QED  BY <3>1, <3>2 DEF Intact, Span, smp_segend, Same
  <2> QED  BY <2>1, <2>2, <2>4, <2>5, <1>2, TablesAfter
<1> QED  BY <1>4, <1>5

\* smp_close_seg: what was the open segment has now been written to its end.
LEMMA TablesClose ==
  ASSUME Shape, Alive, Ringed, Tables, Written, saving = 0, smp_close_seg
  PROVE  Tables'
<1>1. /\ UNCHANGED <<tab, torn, met>>
      /\ unit' = [a \in DOMAIN unit |->
              IF a \in nextAddr .. (nextAddr + 2 + segs[Len(segs)].n1) - 1 THEN cur ELSE unit[a]]
  BY CloseSilo DEF hist
<1>2. CASE torn
  BY <1>1, <1>2 DEF Tables
<1>3. CASE ~ torn
  <2>1. PICK t : tab[1] = t /\ tab[2] = t /\ t.ok /\ Linked(t)
    BY <1>3, TableIs
  <2>2. PICK z \in SegRec : z = segs[Len(segs)] /\ Listed(z)
    BY SegsAre
  <2>3. PICK end : end = nextAddr + 2 + z.n1
    OBVIOUS
  <2>4. /\ z.offset \in Nat /\ z.length \in Nat /\ z.n1 \in Nat /\ nextAddr \in Nat /\ end \in Nat
        /\ z.offset < nextAddr /\ end <= z.offset + z.length /\ z.gen = cur /\ cur # 0
        /\ DOMAIN unit = SPC .. MediaSize - 1
    <3>1. z.offset \in Nat /\ z.length \in Nat /\ z.n1 \in Nat /\ nextAddr \in Nat /\ DOMAIN unit = SPC .. MediaSize - 1
      BY <2>2, SegFields DEF Shape, ChildTypes, SiloTypes
    <3>2. Open /\ z.gen = cur /\ cur # 0
      BY <2>2, CurIs
    <3>3. z.offset < nextAddr /\ end <= z.offset + z.length
      BY <2>2, <2>3, <3>2 DEF Open, smp_segend
    <3>4. end \in Nat
      BY <2>3, <3>1
    <3> QED  BY <3>1, <3>2, <3>3, <3>4
  <2>5. unit' = [a \in DOMAIN unit |-> IF a \in nextAddr .. end - 1 THEN cur ELSE unit[a]]
    BY <1>1, <2>2, <2>3
  <2>6. ~ met => Spared
    BY <1>3, <2>2, <2>4, <2>5, SparedOpen DEF smp_segend
  <2>7. ~ met => Safe(t)'
    BY <2>1, <2>6, SafeLinked
  <2>8. CASE ~ Alive'
    BY <1>1, <2>1, <2>7, <2>8, TablesAfter
  <2>9. CASE Alive'
    <3>1. PICK r, m : Shut(r, m)
      BY <2>9, CloseIs
    <3>2. saving' = 1 /\ cur' = 0 /\ r.gen = cur /\ r.offset = z.offset /\ r.length = end - z.offset
          /\ \A i \in DOMAIN segs' : i + m \in DOMAIN segs /\ segs'[i] = IF i + m = Len(segs) THEN r ELSE segs[i + m]
      BY <3>1, <2>2, <2>3 DEF Shut
    <3>3. Intact(r)'
      <4> SUFFICES ASSUME NEW a \in z.offset .. end - 1 PROVE unit'[a] = cur
        <5>1. r.offset + r.length = end
          BY <3>2, <2>4
        <5> QED  BY <5>1, <3>2 DEF Intact, Span, smp_segend
      <4>1. a \in DOMAIN unit
        BY <2>2, <2>4, Sizes, SMTT(30) DEF Listed
      <4>2. CASE a < nextAddr
        <5>1. unit[a] = cur
          BY <4>2, <2>2, <2>4 DEF Written
        <5> QED  BY <5>1, <4>1, <2>5
      <4>3. CASE a >= nextAddr
        <5>1. a \in nextAddr .. end - 1
          BY <4>3, <2>4
        <5> QED  BY <5>1, <4>1, <2>5
      <4> QED  BY <4>2, <4>3, <2>4
    <3>4. ASSUME ~ met, NEW i \in DOMAIN segs', NEW q, q = segs'[i] PROVE Intact(q)'
      <4>1. CASE i + m = Len(segs)
        <5>1. q = r
          BY <4>1, <3>2, <3>4
        <5> QED  BY <5>1, <3>3
      <4>2. CASE i + m # Len(segs)
        <5>1. q = segs[i + m] /\ i + m \in DOMAIN segs /\ q.gen # cur
          BY <4>2, <3>2, <3>4, CurIs
        <5>2. \A a \in Span(q) : unit'[a] = q.gen
          BY <5>1, <2>6, <3>4 DEF Spared
        <5> QED  BY <5>2 DEF Intact
      <4> QED  BY <4>1, <4>2
    <3> QED  BY <1>1, <2>1, <2>7, <3>2, <3>4, TablesAfter
  <2> QED  BY <2>8, <2>9
<1> QED  BY <1>2, <1>3

\* A table of all the segments.
LEMMA NewIs ==
  ASSUME Shape, Alive, cur = 0, NEW t, t = New
  PROVE  /\ t.ok /\ Linked(t)
         /\ \A i \in DOMAIN Kept1(t) : \E k \in DOMAIN segs : Segptr(segs[k]) = Kept1(t)[i]
<1>1. t.ok /\ t.list = Segptrs
  BY DEF New
<1>2. /\ Segptrs \in Seq(Ptr) /\ DOMAIN Segptrs = DOMAIN segs
      /\ \A k \in DOMAIN segs : Segptrs[k] = Segptr(segs[k]) /\ Same(Segptrs[k], segs[k])
  BY SegptrsAre
<1>3. \A k \in DOMAIN segs : Listed(segs[k]) /\ segs[k].offset \in Nat /\ segs[k].length \in Nat /\ segs[k].gen # 0
  BY SegsAre, SegFields
<1>4. \A k \in DOMAIN segs : SPC <= Segptrs[k].offset /\ 0 < Segptrs[k].length
  BY <1>2, <1>3 DEF Same, Listed
<1>5. \A i \in DOMAIN Kept1(t) : \E k \in DOMAIN t.list : Kept1(t)[i] = t.list[k]
  BY <1>1, <1>2, <1>4, KeptIn
<1>6. \A i \in DOMAIN Kept1(t) : \E k \in DOMAIN segs : Segptr(segs[k]) = Kept1(t)[i]
  BY <1>1, <1>2, <1>5
<1> QED  BY <1>1, <1>3, <1>6 DEF Linked

\* One of the tables is good at every step of smp_save_segs.
LEMMA TablesSave ==
  ASSUME Shape, Alive, Tables, smp_save_seg
  PROVE  Tables'
<1>1. saving \in 1 .. 8 /\ saving' = saving + 1 /\ UNCHANGED <<unit, child, segs, cur, torn, met>>
  BY DEF smp_save_seg, segVars, hist
<1>2. cur = 0 /\ Alive'
  BY <1>1, SegsAre DEF Running, Alive
<1>3. CASE torn
  BY <1>1, <1>3 DEF Tables
<1>4. CASE ~ torn
  <2>1. PICK i \in 1 .. 2 :
           /\ saving \in 1 .. 4 => i = 1
           /\ saving \in 5 .. 8 => i = 2
           /\ \A k \in 1 .. 2 : k # i => tab'[k] = tab[k]
           /\ saving \in {1, 3, 5, 7} => tab'[i] = [ok |-> FALSE, list |-> <<>>]
           /\ saving \in {2, 6} => tab'[i] = [ok |-> TRUE, list |-> <<>>]
           /\ saving \in {4, 8} => tab'[i] = [ok |-> TRUE, list |-> Segptrs]
    BY SaveIs
  <2>2. PICK t1 : t1 = tab'[1]
    OBVIOUS
  <2>3. PICK t2 : t2 = tab'[2]
    OBVIOUS
  <2>4. PICK n : n = New
    OBVIOUS
  <2>5. New' = n /\ n.ok /\ Linked(n)
    BY <1>1, <1>2, <2>4, NewIs DEF New, Segptrs
  <2>6. \A k \in DOMAIN segs : segs[k].gen # cur
    BY <1>2, GensListed
  <2>7. ASSUME ~ met, NEW k \in DOMAIN segs', NEW r, r = segs'[k], r.gen # cur' PROVE Intact(r)'
    BY <1>1, <1>4, <2>6, <2>7 DEF Tables, Intact, Span, smp_segend
  <2>8. ~ met => Safe(n)'
    <3>1. ~ met => Spared
      BY <1>1, <1>4 DEF Tables, Spared, Intact
    <3> QED  BY <3>1, <2>5, SafeLinked
  <2>9. 1 \in 1 .. 2 /\ 2 \in 1 .. 2
    OBVIOUS
  <2>10. CASE saving \in 1 .. 3
    <3>1. i = 1 /\ t2 = tab[2]
      BY <2>1, <2>3, <2>9, <2>10
    <3>2. t2.ok /\ (~ met => Safe(t2))
      <4>1. CASE saving = 1
        BY <4>1, <3>1, <1>4, TableIs
      <4>2. CASE saving \in {2, 3}
        BY <4>2, <3>1, <1>4 DEF Tables
      <4> QED  BY <4>1, <4>2, <2>10
    <3>3. ~ met => Safe(t2)'
      BY <3>2, <1>1, SafeStands
    <3>4. t1.list = <<>>
      BY <3>1, <2>1, <2>2, <2>10
    <3>5. Safe(t1)'
      BY <3>4, SafeEmpty
    <3>6. saving' \in {2, 3, 4}
      BY <1>1, <2>10
    <3> QED  BY <3>2, <3>3, <3>5, <3>6, <2>2, <2>3, <2>7, <1>1, TablesAfter
  <2>11. CASE saving = 4
    <3>1. i = 1 /\ t1 = n /\ saving' = 5
      BY <2>1, <2>2, <2>4, <2>11, <1>1 DEF New
    <3>2. saving' \notin {0, 1} /\ saving' \notin {2, 3, 4} /\ saving' # 9
      BY <3>1
    <3>3. t1.ok /\ t1 = New' /\ (~ met => Safe(t1)')
      BY <3>1, <2>5, <2>8
    <3> QED  BY <3>2, <3>3, <2>2, <2>3, <2>7, <1>1, TablesAfter
  <2>12. CASE saving \in 5 .. 8
    <3>1. i = 2 /\ t1 = tab[1]
      BY <2>1, <2>2, <2>9, <2>12
    <3>2. t1 = n
      BY <3>1, <2>4, <2>12, <1>4 DEF Tables
    <3>3. saving' \in 6 .. 9 /\ (saving' = 9 => t2 = n)
      BY <3>1, <2>1, <2>3, <2>4, <2>12, <1>1 DEF New
    <3>4. saving' \notin {0, 1} /\ saving' \notin {2, 3, 4}
      BY <3>3
    <3> QED  BY <3>2, <3>3, <3>4, <2>2, <2>3, <2>5, <2>7, <2>8, <1>1, TablesAfter
  <2> QED  BY <2>10, <2>11, <2>12, <1>1
<1> QED  BY <1>3, <1>4

\* The head of a new segment is written where no segment of the list is.
LEMMA HeadApart ==
  ASSUME Shape', Alive', Ringed', ~ met', Shape,
         NEW list, Fine(list), NEW free, NEW g, NEW off, NEW new, Made(list, free, g, off, new),
         NEW i \in DOMAIN list, Intact(list[i])
  PROVE  Intact(list[i])'
<1>1. PICK s : s = segs'
  OBVIOUS
<1>2. /\ Len(list) \in Nat /\ DOMAIN list = 1 .. Len(list) /\ DOMAIN s = 1 .. Len(list) + 1
      /\ s[Len(list) + 1] = new /\ s[i] = list[i] /\ s \in Seq(SegRec)
      /\ new.offset = off /\ new.length = AimSegl /\ off \in Nat
      /\ unit' = [unit EXCEPT ![off] = g]
  BY <1>1 DEF Made
<1>3. Ring(s)
  <2>1. Ring(segs)'
    BY DEF Ringed
  <2> QED  BY <1>1, <2>1 DEF Ring, Before, smp_segend
<1>4. PICK k : k = Len(list) + 1
  OBVIOUS
<1>5. i < k /\ i \in DOMAIN s /\ k \in DOMAIN s
  BY <1>2, <1>4
<1>6. Before(s[i], s[k]) \/ Before(s[k], s[i])
  BY <1>3, <1>5 DEF Ring
<1>7. PICK p : p = list[i]
  OBVIOUS
<1>8. p.offset \in Nat /\ p.length \in Nat /\ Listed(p)
  BY <1>7, PtrParts DEF Fine, Parts, Ordered
<1>9. p.offset + p.length <= off \/ off + AimSegl <= p.offset
  BY <1>2, <1>4, <1>6, <1>7 DEF Before, smp_segend
<1>10. off \notin Span(p)
  BY <1>2, <1>8, <1>9, Sizes DEF Span, smp_segend
<1>11. Span(p) \subseteq DOMAIN unit
  BY <1>8, SpanIn
<1>12. \A a \in Span(p) : unit'[a] = p.gen
  BY <1>2, <1>7, <1>10, <1>11 DEF Intact
<1> QED  BY <1>7, <1>12 DEF Intact

\* A new segment, and a table of what was on the list.
LEMMA TablesNew ==
  ASSUME Shape, Shape', Alive', Ringed', saving' = 0, UNCHANGED tab,
         NEW list, Fine(list), NEW free, NEW g, NEW off, NEW new, Made(list, free, g, off, new),
         ~ torn' /\ ~ met' => \A i \in DOMAIN list : Intact(list[i]),
         NEW t,
         ~ torn' => /\ tab[1] = t /\ tab[2] = t /\ t.ok
                    /\ \A i \in DOMAIN Kept1(t) : \E k \in DOMAIN list : Segptr(list[k]) = Kept1(t)[i]
  PROVE  Tables'
<1>1. CASE torn'
  BY <1>1 DEF Tables
<1>2. CASE ~ torn'
  <2>1. /\ Len(list) \in Nat /\ DOMAIN list = 1 .. Len(list) /\ DOMAIN segs' = 1 .. Len(list) + 1
        /\ segs'[Len(list) + 1] = new /\ new.gen = g /\ cur' = g
        /\ \A i \in DOMAIN list : segs'[i] = list[i]
        /\ \A h \in DOMAIN index : h # g
    BY DEF Made
  <2>2. \A i \in DOMAIN list : i \in DOMAIN segs' /\ list[i].gen # g
    BY <2>1, GensListed DEF Fine, Ordered, Listed
  <2>3. ASSUME ~ met', NEW i \in DOMAIN list PROVE Intact(list[i])'
    BY <1>2, <2>3, HeadApart
  <2>4. ASSUME ~ met', NEW i \in DOMAIN segs', NEW r, r = segs'[i], r.gen # cur' PROVE Intact(r)'
    <3>1. i \in DOMAIN list /\ r = list[i]
      BY <2>1, <2>4
    <3> QED  BY <3>1, <2>3, <2>4
  <2>5. Linked(t)'
    <3> SUFFICES ASSUME NEW i \in DOMAIN Kept1(t)
                 PROVE  \E k \in DOMAIN segs' : segs'[k].gen # cur' /\ Segptr(segs'[k]) = Kept1(t)[i]
      BY DEF Linked, Segptr
    <3>1. PICK k \in DOMAIN list : Segptr(list[k]) = Kept1(t)[i]
      BY <1>2
    <3> QED  BY <3>1, <2>1, <2>2
  <2>6. ASSUME ~ met' PROVE Safe(t)'
    <3> SUFFICES ASSUME NEW i \in DOMAIN Kept1(t) PROVE Intact(Kept1(t)[i])'
      BY DEF Safe
    <3>1. PICK p : p = Kept1(t)[i]
      OBVIOUS
    <3>2. PICK k \in DOMAIN list : Segptr(list[k]) = p
      BY <1>2, <3>1
    <3>3. Intact(list[k])' /\ p.gen = list[k].gen /\ p.offset = list[k].offset /\ p.length = list[k].length
      BY <2>3, <2>6, <3>2 DEF Segptr
    <3> QED  BY <3>1, <3>3 DEF Intact, Span, smp_segend
  <2>7. tab'[1] = t /\ tab'[2] = t /\ t.ok
    BY <1>2
  <2> QED  BY <1>2, <2>4, <2>5, <2>6, <2>7, TablesAfter
<1> QED  BY <1>1, <1>2

\* A new segment while both tables have the list.
LEMMA TablesGrows ==
  ASSUME Shape, Tables, NEW list, NEW free, Grows(list, free), Shape', Alive', Ringed'
  PROVE  Tables'
<1>1. /\ Alive /\ saving \in {0, 9} /\ saving' = 0 /\ UNCHANGED <<tab, torn>>
      /\ Fine(list) /\ free \in Nat /\ SPC <= free /\ MoreSegs /\ smp_new_seg(list, free)
      /\ \A i \in DOMAIN list : \E k \in DOMAIN segs : list[i] = segs[k] /\ segs[k].gen # cur
      /\ \A k \in DOMAIN segs : segs[k].gen # cur => \E i \in DOMAIN list : list[i] = segs[k]
  BY DEF Grows
<1>2. PICK g, off, new : Made(list, free, g, off, new)
  BY <1>1, NewSegIs DEF Fine
<1>3. ~ met' => ~ met
  BY <1>2 DEF Made
<1>4. ASSUME ~ torn', ~ met', NEW i \in DOMAIN list PROVE Intact(list[i])
  <2>1. PICK k \in DOMAIN segs : list[i] = segs[k] /\ segs[k].gen # cur
    BY <1>1
  <2>2. Intact(segs[k])
    BY <1>1, <1>3, <1>4, <2>1 DEF Tables
  <2> QED  BY <2>1, <2>2
<1>5. PICK t : t = tab[1]
  OBVIOUS
<1>6. ASSUME ~ torn'
      PROVE  /\ tab[1] = t /\ tab[2] = t /\ t.ok
             /\ \A i \in DOMAIN Kept1(t) : \E k \in DOMAIN list : Segptr(list[k]) = Kept1(t)[i]
  <2>1. tab[2] = t /\ t.ok /\ Linked(t)
    <3>1. CASE saving = 0
      BY <3>1, <1>1, <1>5, <1>6, TableIs
    <3>2. CASE saving = 9
      <4>1. t = New /\ tab[2] = New
        BY <3>2, <1>1, <1>5, <1>6 DEF Tables
      <4>2. cur = 0
        BY <3>2, <1>1, SegsAre DEF Running
      <4> QED  BY <4>1, <4>2, <1>1, NewIs
    <3> QED  BY <3>1, <3>2, <1>1
  <2>2. ASSUME NEW i \in DOMAIN Kept1(t) PROVE \E k \in DOMAIN list : Segptr(list[k]) = Kept1(t)[i]
    <3>1. PICK k \in DOMAIN segs : segs[k].gen # cur /\ Segptr(segs[k]) = Kept1(t)[i]
      BY <2>1, <2>2 DEF Linked
    <3>2. PICK x \in DOMAIN list : list[x] = segs[k]
      BY <3>1, <1>1
    <3> QED  BY <3>1, <3>2
  <2> QED  BY <1>5, <2>1, <2>2
<1> QED  BY <1>1, <1>2, <1>4, <1>6, TablesNew

\* smp_open: the list is what was kept of the table.
LEMMA TablesOpen ==
  ASSUME Shape, Tables, smp_open, Shape', Ringed'
  PROVE  Tables'
<1>1. /\ MoreSegs /\ child = "down" /\ UNCHANGED <<tab, saving>> /\ Alive' /\ CanStart
      /\ torn' = (torn \/ tab[1] # tab[2] \/ ban[1] # ban[2])
  BY DEF smp_open, Alive, allocVars
<1>2. saving' = 0 /\ (~ torn' => ~ torn /\ tab[1] = tab[2])
  <2>1. torn \in BOOLEAN
    BY DEF Shape, BanTypes
  <2> QED  BY <1>1, <2>1 DEF Shape, Gone
<1>3. PICK list, keep, free : Opened(list, keep, free) /\ Fine(list) /\ free \in Nat /\ SPC <= free
  BY OpenIs
<1>4. PICK g, off, new : Made(list, free, g, off, new)
  BY <1>1, <1>3, NewSegIs DEF Opened, Fine
<1>5. ~ met' => ~ met
  BY <1>4 DEF Made
<1>6. PICK t : t = Chosen(tab)
  OBVIOUS
<1>7. /\ keep = Kept1(t) /\ DOMAIN list = DOMAIN keep /\ \A i \in DOMAIN list : Same(list[i], keep[i])
  BY <1>3, <1>6 DEF Opened, Kept1
<1>8. ASSUME ~ torn', ~ met', NEW i \in DOMAIN list PROVE Intact(list[i])
  <2>1. Safe(t)
    BY <1>2, <1>5, <1>6, <1>8 DEF Tables
  <2>2. Intact(keep[i]) /\ Same(list[i], keep[i])
    BY <2>1, <1>7, <1>8 DEF Safe
  <2> QED  BY <2>2 DEF Intact, Span, smp_segend, Same
<1>9. ASSUME ~ torn'
      PROVE  /\ tab[1] = t /\ tab[2] = t /\ t.ok
             /\ \A i \in DOMAIN Kept1(t) : \E k \in DOMAIN list : Segptr(list[k]) = Kept1(t)[i]
  <2>1. tab[1] = t /\ tab[2] = t /\ t.ok
    BY <1>1, <1>2, <1>6, <1>9 DEF Chosen, CanStart
  <2>2. ASSUME NEW i \in DOMAIN Kept1(t) PROVE Segptr(list[i]) = Kept1(t)[i]
    <3>1. keep[i] \in Ptr
      <4>1. PICK l \in Seq(Ptr) : /\ l = t.list
                                  /\ \A x \in DOMAIN l : SPC <= l[x].offset /\ 0 < l[x].length
        BY <1>1, <1>6, ChosenIs
      <4>2. PICK k \in DOMAIN l : Kept1(t)[i] = l[k]
        BY <4>1, <2>2, KeptIn
      <4>3. l[k] \in Ptr
        BY <4>2, ElementOfSeq, LenProperties
      <4> QED  BY <4>2, <4>3, <1>7
    <3>2. Same(list[i], keep[i])
      BY <1>7, <2>2
    <3>3. \A p \in Ptr : p = [gen |-> p.gen, offset |-> p.offset, length |-> p.length, nalloc |-> p.nalloc]
      BY DEF Ptr
    <3> QED  BY <3>1, <3>2, <3>3, <1>7 DEF Segptr, Same
  <2> QED  BY <2>1, <2>2, <1>7
<1> QED  BY <1>1, <1>2, <1>3, <1>4, <1>8, <1>9, TablesNew

\* The new silo.
LEMMA TablesInit ==
  ASSUME Init
  PROVE  Tables
<1>1. /\ ~ torn /\ ~ met /\ ~ Alive /\ tab[1].ok /\ tab[1].list = <<>>
  BY DEF Init, Alive
<1>2. Chosen(tab).list = <<>>
  BY <1>1 DEF Chosen
<1>3. Kept1(Chosen(tab)) = <<>>
  BY <1>2 DEF Kept1, smp_open_segs
<1>4. Safe(Chosen(tab))
  BY <1>3 DEF Safe
<1> QED  BY <1>1, <1>4 DEF Tables

\* Every step keeps Tables.
LEMMA TablesNext ==
  ASSUME Shape, Objects, Ringed, Written, Tables, [Next]_vars
  PROVE  Tables'
<1>1. Shape' /\ Ringed'
  BY ShapeNext, RingedNext
<1>2. CASE \E list, free : Grows(list, free)
  <2>1. PICK list, free : Grows(list, free)
    BY <1>2
  <2>2. Alive'
    BY <2>1 DEF Grows
  <2> QED  BY <1>1, <2>1, <2>2, TablesGrows
<1> QED  BY <1>1, <1>2, WhatIsWritten, TablesQuiet, TablesOpen, TablesTakes, TablesSave, TablesClose

-----------------------------------------------------------------------------
(***************************************************************************)
(* The theorems                                                            *)
(***************************************************************************)
\* The inductive invariant: no step of the child, and no death between two
\* steps, leaves it.
THEOREM Invariance == Spec => []IInv
<1>1. Init => IInv
  <2> SUFFICES ASSUME Init PROVE IInv
    OBVIOUS
  <2>1. Written
    BY DEF Init, Written, Alive
  <2> QED  BY <2>1, ShapeInit, RingedInit, ObjectsInit, TablesInit, BannedInit DEF IInv
<1>2. IInv /\ [Next]_vars => IInv'
  <2> SUFFICES ASSUME IInv, [Next]_vars PROVE IInv'
    OBVIOUS
  <2>1. Shape /\ Ringed /\ Objects /\ Tables /\ Written /\ Banned
    BY DEF IInv
  <2> QED  BY <2>1, ShapeNext, RingedNext, ObjectsNext, TablesNext, WrittenNext, BannedNext DEF IInv
<1> QED  BY <1>1, <1>2, PTL DEF Spec

\* For a silo of any size, with any number of segments, objects, bans, deaths and
\* starts: segments do not overlap unless smp_new_seg meets the first exactly, they
\* stay inside the silo, the open one can always be closed, and nobj counts the
\* objects in the hash (storage_persistent.c).
THEOREM SiloTheorem == Spec => []SiloInv
<1>1. IInv => SiloInv
  <2> SUFFICES ASSUME IInv PROVE SiloInv
    OBVIOUS
  <2>1. Shape /\ Ringed /\ Objects
    BY DEF IInv
  <2>2. TypeOK
    BY <2>1 DEF TypeOK, Shape, SiloTypes, ChildTypes, BanTypes, Ptr
  <2>3. ASSUME Alive, ~ met PROVE SegmentsDisjoint
    BY <2>1, <2>3, Apart DEF SegmentsDisjoint
  <2>4. ASSUME Alive, NEW i \in DOMAIN segs PROVE segs[i].offset >= SPC /\ smp_segend(segs[i]) <= MediaSize
    <3>1. Listed(segs[i]) /\ segs[i] \in SegRec
      BY <2>1, <2>4, SegsAre
    <3> QED  BY <3>1, SegFields, Sizes DEF Listed, smp_segend
  <2>5. ASSUME Alive, cur # 0 PROVE Last(segs).gen = cur /\ 2 + Seg(cur).n1 <= smp_spaceleft(Seg(cur))
    <3>1. saving = 0
      BY <2>1, <2>5, SegsAre DEF Running
    <3>2. PICK z \in SegRec : z = segs[Len(segs)] /\ Seg(cur) = z /\ z.gen = cur /\ Open
      BY <2>1, <2>5, <3>1, CurIs, SegsAre
    <3>3. nextAddr + 2 + z.n1 <= z.offset + z.length /\ nextAddr \in Nat
      BY <2>1, <3>2 DEF Open, smp_segend, Shape, ChildTypes
    <3>4. 2 + z.n1 <= smp_spaceleft(z)
      BY <3>2, <3>3, SegFields, SMTT(30) DEF smp_spaceleft, smp_segend
    <3> QED  BY <3>2, <3>4 DEF Last
  <2>6. ASSUME Alive, NEW i \in DOMAIN segs
        PROVE  LET mine == {o \in cached : o[1] = segs[i].gen}
               IN  segs[i].nobj = Cardinality(mine) \/ (mine = {} /\ segs[i].nobj = 1)
    BY <2>1, <2>6 DEF Objects, Counted, Held, Mine
  <2>7. Alive => \A o \in cached : o[1] \in Gens(segs)
    BY <2>1 DEF Objects
  <2> QED  BY <2>2, <2>3, <2>4, <2>5, <2>6, <2>7 DEF SiloInv
<1> QED  BY <1>1, Invariance, PTL

\* Whenever the child dies, and in the middle of smp_save_segs too, one of the two
\* segment tables is good, and no segment that the next child keeps of it has been
\* written over (storage_persistent.c, smp_save_segs and smp_open_segs).
THEOREM RecoverableIntactTheorem == Spec => []RecoverableIntact
<1>1. IInv => RecoverableIntact
  BY DEF IInv, Tables, Safe, Kept1, RecoverableIntact
<1> QED  BY <1>1, Invariance, PTL

\* A ban that BAN_Insert has returned for is in the table that the next child
\* takes, whenever it dies, and so is the ban of every object it could load
\* (storage_persistent.c, SMP_NewBan; cache_ban.c, BAN_RefBan).
THEOREM BansSurviveTheorem == Spec => []BansSurvive
<1>1. IInv => BansSurvive
  <2> SUFFICES ASSUME Banned PROVE BansSurvive
    BY DEF IInv
  <2>1. Both \subseteq Chosen(ban).bans
    BY DEF Both, Chosen
  <2> QED  BY <2>1 DEF Banned, Named, BansSurvive
<1> QED  BY <1>1, Invariance, PTL

\* An object that the silo has as alive, in a segment that has been loaded and not
\* written over, is in the hash: one that was freed does not come back at the next
\* start (storage_persistent.c, SMP_FreeObj and smp_load_seg).
THEOREM FreedStaysFreedTheorem == Spec => []FreedStaysFreed
<1>1. IInv => FreedStaysFreed
  <2> SUFFICES ASSUME Shape, Objects, Alive, NEW k \in DOMAIN segs, segs[k].nalloc > 0, ~ segs[k].load,
                      segs[k].gen # loader.gen, Intact(segs[k]),
                      NEW i \in DOMAIN index[segs[k].gen], index[segs[k].gen][i].live
               PROVE  <<segs[k].gen, i>> \in cached
    BY DEF IInv, FreedStaysFreed
  <2>1. segs[k].gen # cur
    <3> SUFFICES ASSUME segs[k].gen = cur PROVE FALSE
      OBVIOUS
    <3>1. saving = 0
      BY SegsAre, GensListed DEF Running
    <3>2. k = Len(segs) /\ Open
      BY <3>1, CurIs
    <3> QED  BY <3>2 DEF Open
  <2>2. InHash(segs[k])
    BY <2>1 DEF Objects
  <2>3. i <= Len(index[segs[k].gen])
    <3>1. index[segs[k].gen] \in Seq(Desc)
      BY GensListed, ElementOfSeq DEF Shape, SiloTypes
    <3> QED  BY <3>1, LenProperties
  <2> QED  BY <2>2, <2>3 DEF InHash
<1> QED  BY <1>1, Invariance, PTL

=============================================================================
