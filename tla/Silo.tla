-------------------------------- MODULE Silo --------------------------------
(***************************************************************************)
(* The persistent silo (storage_persistent.c), its bans (cache_ban.c) and  *)
(* the deaths and restarts of the child process that maps it.              *)
(*                                                                         *)
(* The silo is memory that the manager maps and every child inherits: what *)
(* a child wrote is there for the next one, also when it dies between any  *)
(* two writes.  Two ban tables and two segment tables are written one      *)
(* after the other, each over its own old contents.  The child keeps the   *)
(* list of segments, appends to the last of them, and closes it when an    *)
(* allocation does not fit; the first segments of the list are given up    *)
(* when their objects are gone.  A thread loads the objects of the         *)
(* segments found at start-up, without the mutex.                          *)
(*                                                                         *)
(* Space is counted in units: a signature, an object descriptor and the    *)
(* smallest allocation take one each.  A segment is known by a number,     *)
(* its generation, that the code does not have.                            *)
(***************************************************************************)
EXTENDS Integers, SequencesExt, FiniteSetsExt

CONSTANTS
  MediaSize,   \* the silo is 0 .. MediaSize - 1
  AimNseg,     \* sc->aim_nseg: segments in the silo, about
  AimNobj,     \* sc->aim_nobj: objects of a segment, at most
  ReserveSegs, \* segments in the free reserve (10)
  Asked,       \* what smp_alloc is asked for: a size, and whether it is an object
  MinTrim,     \* an allocation is not cut down below this (4096)
  MaxGen,      \* bound: segments ever made
  MaxTime      \* bound: bans ever made, with the one of each start

SPC == 1    \* ident->stuff[SMP_SPC_STUFF], where the segments begin

\* smp_metrics: the length of a new segment, and the space that a start leaves.
AimSegl == (MediaSize - SPC) \div AimNseg
FreeReserve == AimSegl * ReserveSegs

ASSUME SizeAssumption ==
  /\ {MediaSize, AimNseg, AimNobj, ReserveSegs, MinTrim, MaxGen, MaxTime} \subseteq Nat
  /\ AimNseg > 0 /\ AimSegl >= 3 /\ SPC + AimSegl <= MediaSize
  /\ Asked \subseteq [size : Nat \ {0}, obj : BOOLEAN]

VARIABLES
  (* The silo. *)
  tab,      \* the segment tables seg1 and seg2: is the signature good, the segments
  ban,      \* the ban tables ban1 and ban2: is the signature good, the bans
  unit,     \* the segment that wrote each unit last, 0: none
  place,    \* where the SEGHEAD of each generation was written
  index,    \* the objlist of each closed segment
  (* The child. *)
  child,    \* "down", "start", "up"; "panic": no child can start any more;
            \* "lost": the child used a struct smp_seg after free()
  segs,     \* sc->segments
  cur,      \* sc->cur_seg, 0: NULL
  freeOff,  \* sc->free_offset
  nextAddr, \* next_addr of the open segment
  buf,      \* sc->objbuf: the descriptors of the open segment
  want,     \* what smp_alloc is asked for, while it has the mutex
  saving,   \* how far smp_save_segs is, 0: it does not run
  loader,   \* the segment and the object smp_thread is at
  cached,   \* the objects in the hash
  bans,     \* the bans on ban_head
  banStep,  \* how far SMP_NewBan is, 0: ban_mtx is free
  (* History. *)
  time,     \* the last ban's t0
  made,     \* the bans that BAN_Insert has returned for
  torn,     \* has a child started from two copies that differ?
  met       \* has a segment been opened where the first one begins?

siloVars == <<tab, unit, place, index>>
segVars == <<segs, cur, freeOff, nextAddr, buf>>
allocVars == <<want, saving>>
banVars == <<ban, bans, banStep, time, made>>
hist == <<torn, met>>
vars == <<siloVars, child, segVars, allocVars, loader, cached, banVars, hist>>

Dead == [live |-> FALSE, ban |-> 0]
NoWant == [size |-> 0, obj |-> FALSE, tries |-> 0]
NoLoad == [gen |-> 0, i |-> 0]

Init ==
  \* smp_newsilo
  /\ tab = [i \in 1 .. 2 |-> [ok |-> TRUE, list |-> <<>>]]
  /\ ban = [i \in 1 .. 2 |-> [ok |-> TRUE, bans |-> {}]]
  /\ unit = [a \in SPC .. MediaSize - 1 |-> 0]
  /\ place = <<>> /\ index = <<>>
  /\ child = "down"
  /\ segs = <<>> /\ cur = 0 /\ freeOff = SPC /\ nextAddr = SPC /\ buf = <<>>
  /\ want = NoWant /\ saving = 0
  /\ loader = NoLoad /\ cached = {} /\ bans = {} /\ banStep = 0
  /\ time = 0 /\ made = {} /\ torn = FALSE /\ met = FALSE

\* sc->mtx is held from one step to the next only by these two.
Locked == want # NoWant \/ saving # 0

\* exit(), abort() or a signal: what was in memory is gone.
Die ==
  /\ child' = "down"
  /\ segs' = <<>> /\ cur' = 0 /\ freeOff' = SPC /\ nextAddr' = SPC /\ buf' = <<>>
  /\ want' = NoWant /\ saving' = 0
  /\ loader' = NoLoad /\ cached' = {} /\ bans' = {} /\ banStep' = 0

Lost == child' = "lost" /\ UNCHANGED <<segVars, allocVars, loader, cached, bans, banStep>>

-----------------------------------------------------------------------------
(* Segments. *)

smp_segend(p) == p.offset + p.length
Span(p) == p.offset .. smp_segend(p) - 1
smp_spaceleft(p) == smp_segend(p) - nextAddr

At(list, g) == CHOOSE i \in DOMAIN list : list[i].gen = g
Seg(g) == segs[At(segs, g)]
Gens(list) == {list[i].gen : i \in DOMAIN list}
Objs(g) == IF g = cur THEN buf ELSE index[g]

\* What a segment table says of a segment: struct smp_segptr.
Segptr(sg) == [gen |-> sg.gen, offset |-> sg.offset, length |-> sg.length, nalloc |-> sg.nalloc]

\* The SHA256 of the SEGHEAD is good: some segment began here, perhaps another.
HeadOK(p) == unit[p.offset] # 0 /\ place[unit[p.offset]] = p.offset

\* Nothing else was written over the segment.
Intact(p) == \A a \in Span(p) : unit[a] = p.gen

\* smp_open_segs: the segments that are kept and where writing starts, after the
\* first ones have been dropped to make the free reserve.
smp_open_segs(list) ==
  IF list = <<>> THEN [free |-> SPC, keep |-> <<>>, ok |-> TRUE] ELSE
  LET n    == Len(list)
      end  == smp_segend(list[n])
      tail == MediaSize - end
      Behind(i) == list[i].offset > list[n].offset
      Gap(i)   == list[i].offset - end
      Ahead(i) == list[i].offset - SPC
      \* [zzzz____xxxxyyyy_]: drop x, y, ...; l is what the last test computed
      i == IF Behind(1)
           THEN Min({k \in 1 .. n : k = n \/ ~ Behind(k) \/ Gap(k) > FreeReserve})
           ELSE 1
      l == IF ~ Behind(1) THEN tail ELSE IF Behind(i) THEN Gap(i) ELSE Gap(i - 1)
      \* [__xxxxyyyyzzzz___]: drop x, y, ... to make space at the front
      short == l < FreeReserve
      j == IF short
           THEN Min({k \in i .. n : k = n \/ Ahead(k) > FreeReserve}) ELSE i
      r == IF ~ short \/ (i = j /\ j = n) THEN l
           ELSE IF j < n THEN Ahead(j) ELSE Ahead(j - 1)
  IN  [free |-> IF short THEN SPC ELSE end,
       keep |-> SubSeq(list, j, n),
       ok   |-> r >= FreeReserve]

\* smp_chk_sign of the two copies, the first one that is good.
Chosen(t) == IF t[1].ok THEN t[1] ELSE t[2]

Wraps(free) == free + AimSegl > MediaSize
Offset(free) == IF Wraps(free) THEN SPC ELSE free
First(list) == IF list = <<>> THEN 0 ELSE list[1].offset

\* smp_new_seg with list on sc->segments finds no space.  "Committing suicide":
\* exit(0); or an assertion; or, with an empty list, a NULL pointer.
OutOfSpace(list, free) ==
  LET end == Offset(free) + AimSegl
  IN  \/ free >= MediaSize
      \/ Wraps(free) /\ end > First(list)
      \/ First(list) > Offset(free) /\ end > First(list)

\* smp_new_seg: the segment is appended to list, and its SEGHEAD is written over
\* what was there.
smp_new_seg(list, free) ==
  LET g == Len(place) + 1
      off == Offset(free)
  IN  /\ segs' = Append(list, [gen |-> g, offset |-> off, length |-> AimSegl, nalloc |-> 0,
                               n |-> 0, n1 |-> 0, n2 |-> 0, nobj |-> 0, load |-> FALSE])
      /\ cur' = g
      /\ freeOff' = off + AimSegl
      /\ unit' = [unit EXCEPT ![off] = g]
      /\ place' = Append(place, off)
      /\ index' = Append(index, <<>>)
      /\ nextAddr' = off + 1
      /\ buf' = <<>>
      /\ met' = (met \/ First(list) = off)

\* The bound on segments.
MoreSegs == Len(place) < MaxGen

-----------------------------------------------------------------------------
(* The child starts: child_main, STV_open, smp_open. *)

\* smp_valid_silo and smp_open_segs succeed, and there is space for a segment.
CanStart ==
  LET found == smp_open_segs(Chosen(tab).list)
  IN  /\ ban[1].ok \/ ban[2].ok
      /\ tab[1].ok \/ tab[2].ok
      /\ found.ok /\ ~ OutOfSpace(found.keep, found.free)

\* The manager starts child after child in vain.
StartFails ==
  /\ child = "down" /\ ~ CanStart
  /\ child' = "panic"
  /\ UNCHANGED <<siloVars, segVars, allocVars, loader, cached, banVars, hist>>

\* The bans are reloaded and BAN_Init's own is made; the segments are held by a
\* bogus nobj of one until they are loaded.  BAN_Compile then writes the new ban.
smp_open ==
  LET found == smp_open_segs(Chosen(tab).list)
      list == [i \in DOMAIN found.keep |->
                 [gen |-> found.keep[i].gen, offset |-> found.keep[i].offset,
                  length |-> found.keep[i].length, nalloc |-> found.keep[i].nalloc,
                  n |-> 0, n1 |-> 0, n2 |-> 0, nobj |-> 1, load |-> TRUE]]
  IN  /\ child = "down" /\ time < MaxTime /\ MoreSegs
      /\ CanStart
      /\ smp_new_seg(list, found.free)
      /\ child' = "start"
      /\ time' = time + 1
      /\ bans' = Chosen(ban).bans \cup {time + 1}
      /\ banStep' = 1
      /\ loader' = IF list = <<>> THEN NoLoad ELSE [gen |-> list[1].gen, i |-> 0]
      /\ torn' = (torn \/ tab[1] # tab[2] \/ ban[1] # ban[2])
      /\ UNCHANGED <<tab, ban, allocVars, cached, made>>

-----------------------------------------------------------------------------
(* Bans. *)

\* BAN_Insert, with ban_mtx: everybody sees the ban before the silo has it.
BAN_Insert ==
  /\ child = "up" /\ banStep = 0 /\ time < MaxTime
  /\ time' = time + 1
  /\ bans' = bans \cup {time + 1}
  /\ banStep' = 1
  /\ UNCHANGED <<siloVars, child, segVars, allocVars, loader, cached, ban, made, hist>>

\* Mutated form: both tables are opened for writing at once.
SMP_NewBan_both ==
  /\ banStep # 0
  /\ ban' = [i \in 1 .. 2 |->
       CASE banStep \in {1, 4} -> [ban[i] EXCEPT !.ok = FALSE]
         [] banStep \in {2, 5} -> [ban[i] EXCEPT !.bans = @ \cup {time}]
         [] banStep \in {3, 6} -> [ban[i] EXCEPT !.ok = TRUE]]
  /\ banStep' = (banStep + 1) % 7
  /\ made' = IF banStep = 6 THEN made \cup {time} ELSE made
  /\ child' = IF banStep = 6 THEN "up" ELSE child
  /\ UNCHANGED <<siloVars, segVars, allocVars, loader, cached, bans, time, hist>>

\* SMP_NewBan: smp_appendban on ban1, then on ban2.  The text of the ban goes over
\* the signature, the length is raised, the new signature is written.
SMP_NewBan ==
  LET i == IF banStep <= 3 THEN 1 ELSE 2
      t == CASE banStep \in {1, 4} -> [ban[i] EXCEPT !.ok = FALSE]
             [] banStep \in {2, 5} -> [ban[i] EXCEPT !.bans = @ \cup {time}]
             [] banStep \in {3, 6} -> [ban[i] EXCEPT !.ok = TRUE]
  IN  /\ banStep # 0
      /\ ban' = [ban EXCEPT ![i] = t]
      /\ banStep' = (banStep + 1) % 7
      /\ made' = IF banStep = 6 THEN made \cup {time} ELSE made
      /\ child' = IF banStep = 6 THEN "up" ELSE child
      /\ UNCHANGED <<siloVars, segVars, allocVars, loader, cached, bans, time, hist>>

-----------------------------------------------------------------------------
(* Allocation. *)

\* smp_alloc takes the mutex.
smp_alloc(a) ==
  /\ child = "up" /\ ~ Locked
  /\ want' = [size |-> a.size, obj |-> a.obj, tries |-> 0]
  /\ UNCHANGED <<siloVars, child, segVars, saving, loader, cached, banVars, hist>>

\* Mutated form: the descriptors reserved before are forgotten.
Overhead_short(sg) == 2 + (IF want.obj THEN 1 ELSE 0)

\* The room that closing the segment needs: OBJIDX, SEGTAIL and the descriptors.
Overhead(sg) == 2 + sg.n1 + (IF want.obj THEN 1 ELSE 0)

\* What is not an object is cut down to the space that is left.
Size(sg) ==
  LET left == smp_spaceleft(sg) - Overhead(sg)
  IN  IF ~ want.obj /\ want.size > left /\ left > MinTrim THEN left ELSE want.size

Fits(sg) ==
  /\ Overhead(sg) + Size(sg) <= smp_spaceleft(sg)
  /\ want.obj => sg.n1 < AimNobj

\* There is space; an object reserves a descriptor.
AllocTakes ==
  LET sg == Seg(cur)
      got == Size(sg)
  IN  /\ want # NoWant /\ saving = 0
      /\ Fits(sg)
      /\ unit' = [a \in DOMAIN unit |-> IF a \in nextAddr .. nextAddr + got - 1
                                        THEN cur ELSE unit[a]]
      /\ nextAddr' = nextAddr + got
      /\ segs' = [segs EXCEPT ![At(segs, cur)].n = @ + 1,
                              ![At(segs, cur)].n1 = IF want.obj THEN @ + 1 ELSE @]
      /\ want' = NoWant
      /\ UNCHANGED <<tab, place, index, child, cur, freeOff, buf, saving, loader,
                     cached, banVars, hist>>

\* The next round of the loop, or NULL after the third.
NextTry ==
  want' = IF want.tries = 2 THEN NoWant ELSE [want EXCEPT !.tries = @ + 1]

\* A new segment, and another try.
NewSegAndTry(list, free) ==
  /\ MoreSegs
  /\ \/ OutOfSpace(list, free) /\ Die /\ UNCHANGED <<unit, place, index, met>>
     \/ /\ ~ OutOfSpace(list, free)
        /\ smp_new_seg(list, free) /\ NextTry
        /\ saving' = 0
        /\ UNCHANGED <<child, loader, cached, bans, banStep>>

\* The open segment is empty: smp_close_seg only removes it.  The space after
\* free_offset is not given back.
AllocSkips ==
  /\ want # NoWant /\ saving = 0
  /\ ~ Fits(Seg(cur)) /\ Seg(cur).n = 0
  /\ NewSegAndTry(Front(segs), freeOff)
  /\ UNCHANGED <<tab, ban, time, made, torn>>

\* smp_save_segs first frees the segments at the front that have no objects.
Empty(list) == {i \in DOMAIN list : \A k \in 1 .. i : list[k].nobj = 0}
Kept(list) == SubSeq(list, Cardinality(Empty(list)) + 1, Len(list))

\* Does somebody still use the struct smp_seg of list[i]: a fetch whose object is
\* not registered yet, the loader, or smp_close_seg itself?
InUse(list, i) ==
  \/ list[i].n2 < list[i].n1
  \/ list[i].gen = loader.gen
  \/ i = Len(list)

\* smp_close_seg writes the descriptors, those of unregistered objects too.
smp_close_seg ==
  LET sg   == Seg(cur)
      end  == nextAddr + 2 + sg.n1
      list == [segs EXCEPT ![Len(segs)].nalloc = sg.n1,
                           ![Len(segs)].length = end - sg.offset]
  IN  /\ unit' = [a \in DOMAIN unit |-> IF a \in nextAddr .. end - 1 THEN cur ELSE unit[a]]
      /\ index' = [index EXCEPT ![cur] = [i \in 1 .. sg.n1 |-> IF i <= sg.n2 THEN buf[i] ELSE Dead]]
      /\ IF \E i \in Empty(list) : InUse(list, i)
         THEN Lost
         ELSE /\ segs' = Kept(list)
              /\ cur' = 0 /\ buf' = <<>> /\ nextAddr' = SPC
              /\ saving' = 1
              /\ UNCHANGED <<child, freeOff, want, loader, cached, bans, banStep>>
      /\ UNCHANGED <<tab, place, ban, time, made, hist>>

AllocCloses ==
  /\ want # NoWant /\ saving = 0
  /\ ~ Fits(Seg(cur)) /\ Seg(cur).n > 0
  /\ smp_close_seg

\* smp_close, from STV_close: the child ends because it was told to.
smp_close ==
  /\ child = "up" /\ ~ Locked
  /\ \/ Seg(cur).n = 0 /\ Die /\ UNCHANGED <<siloVars, ban, time, made, hist>>
     \/ Seg(cur).n > 0 /\ smp_close_seg

Segptrs == [i \in DOMAIN segs |-> Segptr(segs[i])]

\* Mutated form: the copies are written side by side.
smp_save_seg_both ==
  LET t == CASE saving \in {1, 3, 5, 7} -> [ok |-> FALSE, list |-> <<>>]
             [] saving \in {2, 6} -> [ok |-> TRUE, list |-> <<>>]
             [] saving \in {4, 8} -> [ok |-> TRUE, list |-> Segptrs]
  IN  /\ saving \in 1 .. 8
      /\ tab' = <<t, t>>
      /\ saving' = saving + 1
      /\ UNCHANGED <<unit, place, index, child, segVars, want, loader, cached, banVars, hist>>

\* smp_save_seg on seg1, then on seg2.  smp_reset_sign clears the header and signs
\* a table without segments; then the segments and the new signature are written.
smp_save_seg ==
  LET i == IF saving <= 4 THEN 1 ELSE 2
      t == CASE saving \in {1, 3, 5, 7} -> [ok |-> FALSE, list |-> <<>>]
             [] saving \in {2, 6} -> [ok |-> TRUE, list |-> <<>>]
             [] saving \in {4, 8} -> [ok |-> TRUE, list |-> Segptrs]
  IN  /\ saving \in 1 .. 8
      /\ tab' = [tab EXCEPT ![i] = t]
      /\ saving' = saving + 1
      /\ UNCHANGED <<unit, place, index, child, segVars, want, loader, cached,
                     banVars, hist>>

\* The end of smp_close_seg, and what its caller does next.
Saved ==
  /\ saving = 9
  /\ \/ want = NoWant /\ Die /\ UNCHANGED <<unit, place, index, met>>
     \/ want # NoWant /\ NewSegAndTry(segs, smp_segend(Last(segs)))
  /\ UNCHANGED <<tab, ban, time, made, torn>>

-----------------------------------------------------------------------------
(* Objects. *)

Put(g, i, d) ==
  IF g = cur THEN buf' = [buf EXCEPT ![i] = d] /\ UNCHANGED index
  ELSE index' = [index EXCEPT ![g][i] = d] /\ UNCHANGED buf

\* smp_object: an object whose body has been fetched gets the next descriptor of
\* its segment, open or closed by now.
smp_object(g) ==
  LET i == Seg(g).n2 + 1
      d == [live |-> TRUE, ban |-> Max(bans)]
  IN  /\ child = "up" /\ ~ Locked /\ banStep = 0
      /\ Seg(g).n2 < Seg(g).n1
      /\ IF g = cur THEN buf' = Append(buf, d) /\ UNCHANGED index
         ELSE index' = [index EXCEPT ![g][i] = d] /\ UNCHANGED buf
      /\ segs' = [segs EXCEPT ![At(segs, g)].n2 = @ + 1, ![At(segs, g)].nobj = @ + 1]
      /\ cached' = cached \cup {<<g, i>>}
      /\ UNCHANGED <<tab, unit, place, child, cur, freeOff, nextAddr, allocVars, loader,
                     banVars, hist>>

\* Mutated form: the descriptor in the silo keeps its ttl.
SMP_FreeObj_memory(o) ==
  /\ child = "up" /\ ~ Locked
  /\ segs' = [segs EXCEPT ![At(segs, o[1])].nobj = @ - 1]
  /\ cached' = cached \ {o}
  /\ UNCHANGED <<siloVars, child, cur, freeOff, nextAddr, buf, allocVars, loader,
                 banVars, hist>>

\* SMP_FreeObj, when the last reference to the object is gone.
SMP_FreeObj(o) ==
  /\ child = "up" /\ ~ Locked
  /\ Put(o[1], o[2], [Objs(o[1])[o[2]] EXCEPT !.live = FALSE])
  /\ segs' = [segs EXCEPT ![At(segs, o[1])].nobj = @ - 1]
  /\ cached' = cached \ {o}
  /\ UNCHANGED <<tab, unit, place, child, cur, freeOff, nextAddr, allocVars, loader,
                 banVars, hist>>

\* SMP_BANchanged: the object has been tested against the bans up to b, which were
\* read without ban_mtx; the mutex has been taken since.
SMP_BANchanged(o) ==
  /\ child = "up" /\ (o[1] = cur => ~ Locked)
  /\ banStep = 0
  /\ \E b \in bans :
       /\ b > Objs(o[1])[o[2]].ban
       /\ Put(o[1], o[2], [Objs(o[1])[o[2]] EXCEPT !.ban = b])
  /\ UNCHANGED <<tab, unit, place, child, segs, cur, freeOff, nextAddr, allocVars, loader, cached,
                 banVars, hist>>

\* SMP_TTLchanged, to a time in the past.
SMP_TTLchanged(o) ==
  /\ child = "up" /\ (o[1] = cur => ~ Locked)
  /\ Objs(o[1])[o[2]].live
  /\ Put(o[1], o[2], [Objs(o[1])[o[2]] EXCEPT !.live = FALSE])
  /\ UNCHANGED <<tab, unit, place, child, segs, cur, freeOff, nextAddr, allocVars, loader, cached,
                 banVars, hist>>

-----------------------------------------------------------------------------
(* smp_thread *)

Loading == child \in {"start", "up"} /\ loader.gen # 0

\* smp_load_seg gives up the bogus hold before it looks at the objects.
LoadBegins ==
  LET sg == Seg(loader.gen)
  IN  /\ Loading /\ loader.i = 0
      /\ loader' = [loader EXCEPT !.i = IF HeadOK(sg) THEN 1 ELSE sg.nalloc + 1]
      /\ segs' = [segs EXCEPT ![At(segs, loader.gen)].load = FALSE,
                              ![At(segs, loader.gen)].nobj = IF HeadOK(sg) THEN 0 ELSE @]
      /\ UNCHANGED <<siloVars, child, cur, freeOff, nextAddr, buf, allocVars, cached, banVars, hist>>

\* One object: dead ones are left out, the others go into the hash with their ban.
\* BAN_RefBan asserts that the ban is on the list.
LoadObject ==
  LET g == loader.gen
      d == index[g][loader.i]
  IN  /\ Loading /\ loader.i \in 1 .. Seg(g).nalloc
      /\ IF ~ Intact(Seg(g)) THEN Lost
         ELSE IF d.live /\ d.ban \notin bans THEN Die
         ELSE /\ loader' = [loader EXCEPT !.i = @ + 1]
              /\ cached' = IF d.live THEN cached \cup {<<g, loader.i>>} ELSE cached
              /\ segs' = [segs EXCEPT ![At(segs, g)].nobj = IF d.live THEN @ + 1 ELSE @]
              /\ UNCHANGED <<child, cur, freeOff, nextAddr, buf, allocVars, bans, banStep>>
      /\ UNCHANGED <<siloVars, ban, time, made, hist>>

\* The next segment on the list that must be loaded, or "Silo completely loaded".
LoadNext ==
  LET at == At(segs, loader.gen)
      more == {k \in at + 1 .. Len(segs) : segs[k].load}
  IN  /\ Loading /\ loader.i > Seg(loader.gen).nalloc
      /\ loader' = IF more = {} THEN NoLoad ELSE [gen |-> segs[Min(more)].gen, i |-> 0]
      /\ UNCHANGED <<siloVars, child, segVars, allocVars, cached, banVars, hist>>

-----------------------------------------------------------------------------
\* The child can die at any time.
Crash ==
  /\ child \in {"start", "up"}
  /\ Die
  /\ UNCHANGED <<siloVars, ban, time, made, hist>>

\* Nothing is said of a child that is lost.
Next ==
  /\ child # "lost"
  /\ \/ StartFails \/ smp_open
     \/ BAN_Insert \/ SMP_NewBan
     \/ \E a \in Asked : smp_alloc(a)
     \/ AllocTakes \/ AllocSkips \/ AllocCloses \/ smp_save_seg \/ Saved \/ smp_close
     \/ \E g \in Gens(segs) : smp_object(g)
     \/ \E o \in cached : SMP_FreeObj(o) \/ SMP_BANchanged(o) \/ SMP_TTLchanged(o)
     \/ LoadBegins \/ LoadObject \/ LoadNext
     \/ Crash

Spec == Init /\ [][Next]_vars
-----------------------------------------------------------------------------
(* Properties. *)

Alive == child \in {"start", "up"}

TypeOK ==
  /\ tab \in [1 .. 2 -> [ok : BOOLEAN, list : Seq([gen : 1 .. MaxGen, offset : Nat, length : Nat, nalloc : Nat])]]
  /\ ban \in [1 .. 2 -> [ok : BOOLEAN, bans : SUBSET (1 .. MaxTime)]]
  /\ unit \in [SPC .. MediaSize - 1 -> 0 .. MaxGen]
  /\ Len(place) = Len(index) /\ Len(place) <= MaxGen
  /\ child \in {"down", "start", "up", "panic", "lost"}
  /\ cur \in 0 .. MaxGen /\ saving \in 0 .. 9 /\ banStep \in 0 .. 6
  /\ bans \subseteq 1 .. time /\ made \subseteq 1 .. time

SegmentsDisjoint ==
  Alive => \A i, k \in DOMAIN segs : i # k => Span(segs[i]) \cap Span(segs[k]) = {}

\* Segments never overlap, except when smp_new_seg puts one on the first because
\* the last one ends exactly where that one begins; they stay inside the silo, the
\* open one has room for what smp_close_seg writes, and the counter by which
\* smp_save_segs gives a segment up says how many of its objects are in the hash.
SiloInv ==
  /\ TypeOK
  /\ Alive =>
       /\ met \/ SegmentsDisjoint
       /\ \A i \in DOMAIN segs : segs[i].offset >= SPC /\ smp_segend(segs[i]) <= MediaSize
       /\ cur # 0 => Last(segs).gen = cur /\ 2 + Seg(cur).n1 <= smp_spaceleft(Seg(cur))
       /\ \A i \in DOMAIN segs :
            LET mine == {o \in cached : o[1] = segs[i].gen}
            IN  segs[i].nobj = Cardinality(mine) \/ (mine = {} /\ segs[i].nobj = 1)
       /\ \A o \in cached : o[1] \in Gens(segs)

\* "we will always have at least one valid copy": whenever the child dies, the
\* next one finds a good segment table, and no segment that it keeps has been
\* written over.  Not so once a child has started from two copies of which one
\* was cut short: it does not repair that one before it writes the other.
RecoverableIntact ==
  ~ torn /\ ~ met =>
    /\ tab[1].ok \/ tab[2].ok
    /\ \A i \in DOMAIN smp_open_segs(Chosen(tab).list).keep :
         Intact(smp_open_segs(Chosen(tab).list).keep[i])

\* Every ban that was accepted is reloaded after a death at any point of
\* SMP_NewBan, and no descriptor a child could load names a ban that is not:
\* BAN_RefBan asserts that.
BansSurvive ==
  ~ torn =>
    /\ ban[1].ok \/ ban[2].ok
    /\ made \subseteq Chosen(ban).bans
    /\ \A g \in DOMAIN index : \A i \in DOMAIN index[g] :
         index[g][i].live => index[g][i].ban \in Chosen(ban).bans

\* An object that was freed does not come back: what the silo has as alive, in a
\* segment that is loaded and not written over, is in the hash.  A segment of a
\* stale table may have been written over: smp_load_seg skips it.
FreedStaysFreed ==
  Alive => \A k \in DOMAIN segs :
    LET g == segs[k].gen
    IN  segs[k].nalloc > 0 /\ ~ segs[k].load /\ g # loader.gen /\ Intact(segs[k]) =>
          \A i \in DOMAIN index[g] : index[g][i].live => <<g, i>> \in cached
=============================================================================
