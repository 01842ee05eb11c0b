------------------------------ MODULE Stevedore ------------------------------
(***************************************************************************)
(* Where objects and their bodies are stored: the choice of a stevedore    *)
(* and the nuking of objects when it is full (stevedore.c), the allocator  *)
(* over a mapped file (storage_file.c), malloc with a limit                *)
(* (storage_malloc.c; storage_umem.c is the same with another allocator),  *)
(* synthetic bodies (storage_synth.c), and the sessions that fetch.  The   *)
(* persistent stevedore has a module of its own.                           *)
(*                                                                         *)
(* Sizes are in pages.  A range of the file is known by its address.       *)
(***************************************************************************)
EXTENDS Integers, SequencesExt, FiniteSetsExt

CONSTANTS
  Stevedores,   \* the -s arguments: a sequence of "file" and "malloc"
  Sessions,     \* sessions that fetch
  Objects,      \* struct object, as many as there can be
  FilePages,    \* sc->filesize
  InitialFail,  \* pieces of this size are not mapped in one go (1 << 30)
  MINPAGES,     \* smaller pieces are given up
  NBUCKET,      \* free lists
  MallocMax,    \* sma_max
  MaxFail,      \* failed attempts before another stevedore is tried (50)
  Sizes,        \* sizes that are asked for
  MaxStores,    \* bound: body storages of an object
  MaxLeak       \* bound: malloc pages lost when calloc() fails

None == "none"
StevedoreAssumption ==
  /\ Range(Stevedores) \subseteq {"file", "malloc"} /\ Stevedores # <<>>
  /\ Sizes \subseteq Nat \ {0} /\ NBUCKET > 1 /\ FilePages > 0
  /\ None \notin Sessions \cup Objects

VARIABLES
  todo,    \* calls of smf_open_chunk that are still to come
  fail,    \* *fail of smf_open_chunk
  order,   \* sc->order: the ranges of the file, by address
  free,    \* sc->free: addresses of ranges that are free
  stats,   \* the counters of VSL_stats
  leaked,  \* history: malloc pages counted that nobody has
  next,    \* stv_next
  lru,     \* the objects on each stevedore's LRU list
  obj,     \* the objects
  held,    \* objects that are being delivered
  req      \* what each session's STV_alloc is doing

fileVars == <<todo, fail, order, free>>
vars == <<fileVars, stats, leaked, next, lru, obj, held, req>>

Stvs == DOMAIN Stevedores
NoObj == [state |-> None, first |-> 0, head |-> <<>>, store |-> <<>>]
Idle == [obj |-> None, body |-> FALSE, size |-> 0, stv |-> 0, fail |-> 0, nuked |-> None]
NoStats == [n_smf |-> 0, frag |-> 0, large |-> 0, balloc |-> 0, bfree |-> 0,
            sma_nbytes |-> 0, sma_nobj |-> 0, sms_nobj |-> 0]

Init ==
  /\ todo = <<[sz |-> FilePages, off |-> 0]>> /\ fail = InitialFail
  /\ order = <<>> /\ free = [b \in 0 .. NBUCKET - 1 |-> <<>>]
  /\ stats = NoStats /\ leaked = 0
  /\ next = 1 /\ lru = [v \in Stvs |-> <<>>]
  /\ obj = [o \in Objects |-> NoObj] /\ held = {}
  /\ req = [s \in Sessions |-> Idle]

\* An assertion fails: the manager starts a new child, VSL_Init clears the counters.
Restart ==
  /\ todo' = <<[sz |-> FilePages, off |-> 0]>> /\ fail' = InitialFail
  /\ order' = <<>> /\ free' = [b \in 0 .. NBUCKET - 1 |-> <<>>]
  /\ stats' = NoStats /\ leaked' = 0
  /\ next' = 1 /\ lru' = [v \in Stvs |-> <<>>]
  /\ obj' = [o \in Objects |-> NoObj] /\ held' = {}
  /\ req' = [s \in Sessions |-> Idle]

-----------------------------------------------------------------------------
(* storage_file.c.  f is the state [order, free, stats] that a call is made   *)
(* in, and what it returns.                                                   *)

File == [order |-> order, free |-> free, stats |-> stats]

At(f, p) == CHOOSE i \in DOMAIN f.order : f.order[i].ptr = p
Bucket(r) == IF r.size >= NBUCKET THEN NBUCKET - 1 ELSE r.size
IsLarge(r) == r.size >= NBUCKET

\* Sorted by offset.
insfree(f, r) ==
  LET b == Bucket(r)
      before == SelectSeq(f.free[b], LAMBDA p : f.order[At(f, p)].off < r.off)
      after == SubSeq(f.free[b], Len(before) + 1, Len(f.free[b]))
  IN  [f EXCEPT !.free[b] = Append(before, r.ptr) \o after,
                !.stats.large = IF IsLarge(r) THEN @ + 1 ELSE @,
                !.stats.frag = IF IsLarge(r) THEN @ ELSE @ + 1]

remfree(f, r) ==
  [f EXCEPT !.free[Bucket(r)] = SelectSeq(@, LAMBDA p : p # r.ptr),
            !.stats.large = IF IsLarge(r) THEN @ - 1 ELSE @,
            !.stats.frag = IF IsLarge(r) THEN @ ELSE @ - 1]

\* The range that alloc_smf takes, 0: none.  The lists of one size are tried from
\* the right one upwards, then the first large range that is large enough.
Found(f, n) ==
  LET lists == {b \in n .. NBUCKET - 2 : f.free[b] # <<>>}
      large == SelectSeq(f.free[NBUCKET - 1], LAMBDA p : f.order[At(f, p)].size >= n)
  IN  IF lists # {} THEN Head(f.free[Min(lists)])
      ELSE IF large # <<>> THEN Head(large) ELSE 0

\* alloc_smf: the front of the range is split off.
alloc_smf(f, n) ==
  LET i == At(f, Found(f, n))
      r == f.order[i]
      rest == [r EXCEPT !.ptr = @ + n, !.off = @ + n, !.size = @ - n]
      g == remfree(f, r)
      taken == [g EXCEPT !.order[i].size = n, !.order[i].alloc = TRUE]
  IN  IF r.size = n THEN taken
      ELSE insfree([taken EXCEPT !.order = InsertAt(@, i + 1, rest), !.stats.n_smf = @ + 1], rest)

\* Mutated form: only the addresses are compared.
Adjacent_ptr(r, q) == q.ptr = r.ptr + r.size

\* Two neighbours in memory and in the file.
Adjacent(r, q) == q.ptr = r.ptr + r.size /\ q.off = r.off + r.size

\* free_smf: merge with the next range, then with the one before.
free_smf(f, p) ==
  LET i == At(f, p)
      g1 == [f EXCEPT !.order[i].alloc = FALSE]
      fwd == i < Len(f.order) /\ ~ f.order[i + 1].alloc /\ Adjacent(f.order[i], f.order[i + 1])
      g2 == IF fwd
            THEN [remfree(g1, f.order[i + 1]) EXCEPT
                    !.order = RemoveAt([@ EXCEPT ![i].size = @ + f.order[i + 1].size], i + 1),
                    !.stats.n_smf = @ - 1]
            ELSE g1
      back == i > 1 /\ ~ g2.order[i - 1].alloc /\ Adjacent(g2.order[i - 1], g2.order[i])
      g3 == IF back
            THEN [remfree(g2, g2.order[i - 1]) EXCEPT
                    !.order = RemoveAt([@ EXCEPT ![i - 1].size = @ + g2.order[i].size], i),
                    !.stats.n_smf = @ - 1]
            ELSE g2
  IN  insfree(g3, g3.order[IF back THEN i - 1 ELSE i])

\* trim_smf: the tail becomes a range of its own and is freed.
trim_smf(f, p, n) ==
  LET i == At(f, p)
      r == f.order[i]
      tail == [r EXCEPT !.ptr = @ + n, !.off = @ + n, !.size = @ - n]
  IN  free_smf([f EXCEPT !.order = InsertAt([@ EXCEPT ![i].size = n], i + 1, tail),
                         !.stats.n_smf = @ + 1], tail.ptr)

\* new_smf: a range that has just been mapped is inserted as busy and freed.
new_smf(f, p, off, n) ==
  LET k == Cardinality({i \in DOMAIN f.order : f.order[i].ptr <= p})
      r == [ptr |-> p, off |-> off, size |-> n, alloc |-> TRUE]
  IN  free_smf([f EXCEPT !.order = InsertAt(@, k + 1, r), !.stats.n_smf = @ + 1], p)

SetFile(f) == order' = f.order /\ free' = f.free /\ stats' = f.stats

\* Where the kernel maps the next piece: after what is there, with a gap, or
\* before it.
Addresses(n) ==
  IF order = <<>> THEN {100}
  ELSE {Last(order).ptr + Last(order).size, Last(order).ptr + Last(order).size + 1,
        Head(order).ptr - n}

\* smf_open_chunk: maps a piece of the file, or calls itself for its two halves.
smf_open_chunk ==
  LET c == Head(todo)
      half == c.sz \div 2
      halves == <<[sz |-> half, off |-> c.off], [sz |-> c.sz - half, off |-> c.off + half]>>
  IN  /\ todo # <<>>
      /\ \/ /\ fail < MINPAGES
            /\ todo' = Tail(todo)
            /\ UNCHANGED <<fail, order, free, stats>>
         \/ /\ fail >= MINPAGES /\ c.sz < fail
            /\ \E p \in Addresses(c.sz) : SetFile(new_smf(File, p, c.off, c.sz))
            /\ todo' = Tail(todo)
            /\ UNCHANGED fail
         \/ /\ fail >= MINPAGES                   \* too large, or mmap fails
            /\ fail' = IF c.sz < fail THEN c.sz ELSE fail
            /\ todo' = halves \o Tail(todo)
            /\ UNCHANGED <<order, free, stats>>
      /\ UNCHANGED <<leaked, next, lru, obj, held, req>>

Mapped == FoldSeq(LAMBDA r, sum : r.size + sum, 0, order)

\* The end of smf_open: too little was mapped, or the whole file counts as free.
smf_open ==
  /\ todo = <<>> /\ stats.bfree + stats.balloc = 0
  /\ \/ Mapped < MINPAGES /\ Restart
     \/ /\ Mapped >= MINPAGES
        /\ stats' = [stats EXCEPT !.bfree = @ + FilePages]
        /\ UNCHANGED <<fileVars, leaked, next, lru, obj, held, req>>

Up == todo = <<>> /\ stats.bfree + stats.balloc > 0

-----------------------------------------------------------------------------
(* STV_alloc *)

\* STV_NewObject.  What cannot be cached is malloc'ed and has no stevedore.
STV_NewObject(s, o, cacheable, n) ==
  /\ Up /\ req[s] = Idle /\ obj[o].state = None
  /\ obj' = [obj EXCEPT ![o] = [NoObj EXCEPT !.state = IF cacheable THEN "new" ELSE "pass"]]
  /\ req' = [req EXCEPT ![s] = [Idle EXCEPT !.obj = o, !.size = IF cacheable THEN n ELSE 0]]
  /\ UNCHANGED <<fileVars, stats, leaked, next, lru, held>>

\* The session fetches into req[s].obj and is not inside STV_alloc.
Fetching(s) == req[s].obj # None /\ req[s].size = 0
Mine(s) == obj[req[s].obj]

\* FetchBody wants storage: the stevedore of the object is tried first.
BodyAlloc(s, n) ==
  /\ Fetching(s) /\ Len(Mine(s).store) < MaxStores
  /\ \A i \in DOMAIN Mine(s).store : Mine(s).store[i].stv # "synth"
  /\ req' = [req EXCEPT ![s].size = n, ![s].body = TRUE, ![s].stv = Mine(s).first, ![s].fail = 0]
  /\ UNCHANGED <<fileVars, stats, leaked, next, lru, obj, held>>

\* stv_pick_stevedore, "trust pointer writes to be atomic".
stv_pick_stevedore(s) ==
  /\ req[s].size # 0 /\ req[s].stv = 0
  /\ next' = (next % Len(Stevedores)) + 1
  /\ req' = [req EXCEPT ![s].stv = next', ![s].fail = 0]
  /\ UNCHANGED <<fileVars, stats, leaked, lru, obj, held>>

\* STV_alloc returns st to its caller.
Gets(s, st) ==
  LET o == req[s].obj
  IN  /\ obj' = [obj EXCEPT ![o] = IF req[s].body THEN [@ EXCEPT !.store = Append(@, st)]
                                   ELSE [@ EXCEPT !.first = req[s].stv, !.head = <<st>>]]
      /\ req' = [req EXCEPT ![s] = [Idle EXCEPT !.obj = o]]

Trying(s, kind) ==
  /\ req[s].size # 0 /\ req[s].stv # 0 /\ req[s].nuked = None
  /\ Stevedores[req[s].stv] = kind

smf_alloc(s) ==
  LET n == req[s].size
      f == alloc_smf(File, n)
  IN  /\ Trying(s, "file") /\ Found(File, n) # 0
      /\ SetFile([f EXCEPT !.stats.balloc = @ + n, !.stats.bfree = @ - n])
      /\ Gets(s, [stv |-> "file", ptr |-> Found(File, n), space |-> n])
      /\ UNCHANGED <<todo, fail, leaked, next, lru, held>>

SmaFull(n) == stats.sma_nbytes + n > MallocMax

sma_alloc(s) ==
  LET n == req[s].size
  IN  /\ Trying(s, "malloc") /\ ~ SmaFull(n)
      /\ stats' = [stats EXCEPT !.sma_nbytes = @ + n, !.sma_nobj = @ + 1]
      /\ Gets(s, [stv |-> "malloc", ptr |-> 0, space |-> n])
      /\ UNCHANGED <<fileVars, leaked, next, lru, held>>

\* The object that EXP_NukeOne takes from the LRU list of v: the first one that
\* nobody uses.
Nukable(v) == SelectSeq(lru[v], LAMBDA o : o \notin held)

\* EXP_NukeOne: the last reference goes, see FreeStorage.  When there is nothing
\* to nuke STV_alloc has nothing to return, which it asserts it has.
Nuke(s) ==
  LET v == req[s].stv
      o == Head(Nukable(v))
      more == req[s].fail + 1
  IN  \/ Nukable(v) = <<>> /\ Restart
      \/ /\ Nukable(v) # <<>>
         /\ lru' = [lru EXCEPT ![v] = SelectSeq(@, LAMBDA x : x # o)]
         /\ obj' = [obj EXCEPT ![o].state = "dying"]
         /\ req' = [req EXCEPT ![s].nuked = o, ![s].fail = more,
                               ![s].stv = IF more = MaxFail THEN 0 ELSE v]
         /\ UNCHANGED <<fileVars, stats, leaked, next, held>>

\* There is no range that is large enough.
FileRefuses(s) == Trying(s, "file") /\ Found(File, req[s].size) = 0 /\ Nuke(s)

MallocRefuses(s) == Trying(s, "malloc") /\ SmaFull(req[s].size) /\ Nuke(s)

\* calloc() fails after the pages have been counted.
CallocFails(s) ==
  /\ Trying(s, "malloc") /\ ~ SmaFull(req[s].size) /\ leaked + req[s].size <= MaxLeak
  /\ Nukable(req[s].stv) # <<>>
  /\ LET v == req[s].stv
         o == Head(Nukable(v))
     IN  /\ lru' = [lru EXCEPT ![v] = SelectSeq(@, LAMBDA x : x # o)]
         /\ obj' = [obj EXCEPT ![o].state = "dying"]
         /\ req' = [req EXCEPT ![s].nuked = o, ![s].fail = @ + 1,
                               ![s].stv = IF req[s].fail + 1 = MaxFail THEN 0 ELSE v]
  /\ stats' = [stats EXCEPT !.sma_nbytes = @ + req[s].size, !.sma_nobj = @ + 1]
  /\ leaked' = leaked + req[s].size
  /\ UNCHANGED <<fileVars, next, held>>

-----------------------------------------------------------------------------
(* The end of a storage *)

FreedFile(st) ==
  LET f == free_smf(File, st.ptr)
  IN  [f EXCEPT !.stats.balloc = @ - st.space, !.stats.bfree = @ + st.space]

MallocFreed(st) == [stats EXCEPT !.sma_nbytes = @ - st.space, !.sma_nobj = @ - 1]
MallocTrimmed(st, n) == [stats EXCEPT !.sma_nbytes = @ - (st.space - n)]
SynthFreed == [stats EXCEPT !.sms_nobj = @ - 1]

\* STV_free: smf_free, sma_free or sms_free.
STV_free(st) ==
  \/ st.stv = "file" /\ SetFile(FreedFile(st))
  \/ st.stv = "malloc" /\ stats' = MallocFreed(st) /\ UNCHANGED <<order, free>>
  \/ st.stv = "synth" /\ stats' = SynthFreed /\ UNCHANGED <<order, free>>

\* HSH_Freestore, storage by storage, and then the object's own storage.
FreeStorage(o) ==
  LET all == obj[o].store \o obj[o].head
  IN  /\ obj[o].state = "dying"
      /\ \/ /\ all # <<>>
            /\ STV_free(Head(all))
            /\ obj' = [obj EXCEPT ![o] = IF @.store # <<>> THEN [@ EXCEPT !.store = Tail(@)]
                                         ELSE [@ EXCEPT !.head = <<>>]]
            /\ UNCHANGED req
         \/ /\ all = <<>>
            /\ obj' = [obj EXCEPT ![o] = NoObj]
            /\ req' = [s \in Sessions |-> IF req[s].nuked = o THEN [req[s] EXCEPT !.nuked = None]
                                          ELSE req[s]]
            /\ UNCHANGED <<order, free, stats>>
      /\ UNCHANGED <<todo, fail, leaked, next, lru, held>>

\* FetchBody is done: the last storage is cut down to what was used, or freed.
STV_trim(s, n) ==
  LET o == req[s].obj
      st == Last(obj[o].store)
      k == Len(obj[o].store)
      f == trim_smf(File, st.ptr, n)
  IN  /\ Fetching(s) /\ Mine(s).store # <<>> /\ st.stv # "synth" /\ n < st.space
      /\ \/ /\ n = 0
            /\ STV_free(st)
            /\ obj' = [obj EXCEPT ![o].store = Front(@)]
         \/ /\ n > 0 /\ st.stv = "file"
            /\ SetFile([f EXCEPT !.stats.balloc = @ - (st.space - n), !.stats.bfree = @ + (st.space - n)])
            /\ obj' = [obj EXCEPT ![o].store[k].space = n]
         \/ /\ n > 0 /\ st.stv = "malloc"
            /\ stats' = MallocTrimmed(st, n)
            /\ obj' = [obj EXCEPT ![o].store[k].space = n]
            /\ UNCHANGED <<order, free>>
      /\ UNCHANGED <<todo, fail, leaked, next, lru, held, req>>

\* SMS_Makesynth and SMS_Finish: the error page of an object that is not cached.
SMS_Makesynth(s) ==
  /\ Fetching(s) /\ Mine(s).state = "pass" /\ Mine(s).store = <<>>
  /\ obj' = [obj EXCEPT ![req[s].obj].store = <<[stv |-> "synth", ptr |-> 0, space |-> 0]>>]
  /\ stats' = [stats EXCEPT !.sms_nobj = @ + 1]
  /\ UNCHANGED <<fileVars, leaked, next, lru, held, req>>

\* EXP_Insert, or the delivery of what is not cached.
FetchDone(s) ==
  LET o == req[s].obj
      cached == Mine(s).state = "new"
  IN  /\ Fetching(s)
      /\ obj' = [obj EXCEPT ![o].state = IF cached THEN "cached" ELSE "dying"]
      /\ lru' = IF cached THEN [lru EXCEPT ![obj[o].first] = Append(@, o)] ELSE lru
      /\ req' = [req EXCEPT ![s] = Idle]
      /\ UNCHANGED <<fileVars, stats, leaked, next, held>>

\* A hit takes a reference; EXP_Touch moves the object to the tail of its LRU list
\* if nobody else is busy with the lists.
Hit(o) ==
  LET v == obj[o].first
  IN  /\ obj[o].state = "cached" /\ o \notin held
      /\ held' = held \cup {o}
      /\ \/ UNCHANGED lru
         \/ lru' = [lru EXCEPT ![v] = Append(SelectSeq(@, LAMBDA x : x # o), o)]
      /\ UNCHANGED <<fileVars, stats, leaked, next, obj, req>>

\* The end of its delivery.
Delivered(o) ==
  /\ o \in held
  /\ held' = held \ {o}
  /\ UNCHANGED <<fileVars, stats, leaked, next, lru, obj, req>>

\* exp_timer
Expire(o) ==
  /\ obj[o].state = "cached" /\ o \notin held
  /\ obj' = [obj EXCEPT ![o].state = "dying"]
  /\ lru' = [lru EXCEPT ![obj[o].first] = SelectSeq(@, LAMBDA x : x # o)]
  /\ UNCHANGED <<fileVars, stats, leaked, next, held, req>>

Next ==
  \/ smf_open_chunk \/ smf_open
  \/ \E s \in Sessions, o \in Objects, n \in Sizes, c \in BOOLEAN : STV_NewObject(s, o, c, n)
  \/ \E s \in Sessions, n \in Sizes : BodyAlloc(s, n)
  \/ \E s \in Sessions :
       stv_pick_stevedore(s) \/ smf_alloc(s) \/ sma_alloc(s) \/ FileRefuses(s) \/ MallocRefuses(s)
         \/ CallocFails(s) \/ SMS_Makesynth(s) \/ FetchDone(s)
  \/ \E s \in Sessions, n \in 0 .. Max(Sizes) - 1 : STV_trim(s, n)
  \/ \E o \in Objects : FreeStorage(o) \/ Hit(o) \/ Delivered(o) \/ Expire(o)

Spec == Init /\ [][Next]_vars
-----------------------------------------------------------------------------
(* Properties. *)

Pages(r) == r.ptr .. r.ptr + r.size - 1
FileStores == {<<o, st>> \in Objects \X UNION {Range(obj[o].store \o obj[o].head) : o \in Objects} :
                 st \in Range(obj[o].store \o obj[o].head) /\ st.stv = "file"}

TypeOK ==
  /\ order \in Seq([ptr : Int, off : 0 .. FilePages, size : 1 .. FilePages, alloc : BOOLEAN])
  /\ \A b \in DOMAIN free : IsInjective(free[b])
  /\ held \subseteq Objects /\ next \in Stvs
  /\ \A k \in DOMAIN stats : stats[k] \in Nat

\* Every page of the file that is mapped is in one range, at one address; what
\* the ranges say is allocated is what objects have, each page once; and the
\* counters the code keeps beside the lists agree with them.
FileExact ==
  /\ TypeOK
  /\ \A i, k \in DOMAIN order : i < k =>
       /\ order[i].ptr + order[i].size <= order[k].ptr
       /\ order[i].off .. order[i].off + order[i].size - 1
            \cap order[k].off .. order[k].off + order[k].size - 1 = {}
  /\ {<<order[i].ptr, order[i].size>> : i \in {k \in DOMAIN order : order[k].alloc}}
       = {<<x[2].ptr, x[2].space>> : x \in FileStores}
  /\ \A x, y \in FileStores : x[2].ptr = y[2].ptr => x = y
  /\ stats.n_smf = Len(order)
  /\ stats.large = Cardinality({i \in DOMAIN order : ~ order[i].alloc /\ IsLarge(order[i])})
  /\ stats.large + stats.frag = FoldSet(LAMBDA b, n : Len(free[b]) + n, 0, DOMAIN free)

\* A request is refused only when no free range is large enough, however the
\* file was cut up before: every free range is on the list for its size, by
\* offset, and has been merged with its free neighbours.
NoSpaceWasted ==
  /\ \A i \in DOMAIN order : ~ order[i].alloc => order[i].ptr \in Range(free[Bucket(order[i])])
  /\ \A b \in DOMAIN free : \A i \in DOMAIN free[b] :
       /\ Bucket(order[At(File, free[b][i])]) = b /\ ~ order[At(File, free[b][i])].alloc
       /\ i > 1 => order[At(File, free[b][i - 1])].off < order[At(File, free[b][i])].off
  /\ \A i \in 2 .. Len(order) :
       ~ (~ order[i - 1].alloc /\ ~ order[i].alloc /\ Adjacent(order[i - 1], order[i]))
  /\ \A n \in Sizes : Found(File, n) = 0 =>
       \A i \in DOMAIN order : ~ order[i].alloc => order[i].size < n

\* malloc's limit holds, and what is counted against it is what objects have,
\* after any order of allocations, trims, frees and failures.
MallocExact ==
  LET held_by(o) == FoldSeq(LAMBDA st, n : n + (IF st.stv = "malloc" THEN st.space ELSE 0), 0,
                            obj[o].store \o obj[o].head)
  IN  /\ stats.sma_nbytes <= MallocMax
      /\ stats.sma_nbytes = leaked + FoldSet(LAMBDA o, n : n + held_by(o), 0, Objects)
      /\ stats.balloc = FoldSet(LAMBDA i, n : n + (IF order[i].alloc THEN order[i].size ELSE 0), 0,
                                DOMAIN order)
      /\ stats.balloc + stats.bfree \in {0, FilePages}

\* No page of the file and no byte of malloc has two owners or none, and what
\* is counted is what objects have (storage_file.c, storage_malloc.c).
StorageExact == FileExact /\ MallocExact
=============================================================================
