--------------------------- MODULE BanListProofs ---------------------------
(***************************************************************************)
(* Proofs about BanList (cache_ban.c), for any threads, objects, texts and *)
(* number of bans.                                                         *)
(*                                                                         *)
(* The first half holds whatever races with what: no ban is forgotten and  *)
(* duplicates are eliminated.  It needs to know of a walk that what it has *)
(* skipped as GONE has a duplicate that the next walk will meet (Walkers). *)
(* The second half, references and the ends of walks, holds until a lookup *)
(* meets the lurker on an object: it needs one tester per object, and      *)
(* where an object is counted in the middle of a move (Counted).           *)
(***************************************************************************)
EXTENDS BanList, FiniteSetTheorems, TLAPS

-----------------------------------------------------------------------------
(* Reference counters: how Count moves when one holder changes what it holds *)

\* The number of holders is a natural number (each counter has finitely many
\* possible holders).
LEMMA CountType ==
  ASSUME NEW f, NEW v, IsFiniteSet(DOMAIN f)
  PROVE  IsFiniteSet(Holders(f, v)) /\ Count(f, v) \in Nat
  <1>1. Holders(f, v) \subseteq DOMAIN f
    BY DEF Holders
  <1>2. IsFiniteSet(Holders(f, v))
    BY <1>1, FS_Subset
  <1> QED
    BY <1>2, FS_CardinalityType DEF Count

\* No holder, count zero; and the other way round.
LEMMA CountZero ==
  ASSUME NEW f, NEW v, IsFiniteSet(DOMAIN f)
  PROVE  Count(f, v) = 0 <=> \A x \in DOMAIN f : f[x] # v
  <1>1. Count(f, v) = 0 <=> Holders(f, v) = {}
    BY CountType, FS_EmptySet DEF Count
  <1> QED
    BY <1>1 DEF Holders

\* One holder x moves: the count of v grows by one if x now holds v and drops
\* by one if x held v before.
LEMMA CountMove ==
  ASSUME NEW f, NEW g, NEW x \in DOMAIN f, NEW v,
         IsFiniteSet(DOMAIN f), DOMAIN g = DOMAIN f,
         \A y \in DOMAIN f \ {x} : g[y] = f[y]
  PROVE  Count(g, v) = Count(f, v) + (IF g[x] = v THEN 1 ELSE 0)
                                   - (IF f[x] = v THEN 1 ELSE 0)
  <1>0. Count(f, v) \in Nat /\ IsFiniteSet(Holders(f, v))
    BY CountType
  <1>1. CASE f[x] # v /\ g[x] = v
    <2>1. Holders(g, v) = Holders(f, v) \cup {x} /\ x \notin Holders(f, v)
      BY <1>1 DEF Holders
    <2>2. Count(g, v) = Count(f, v) + 1
      BY <1>0, <2>1, FS_AddElement DEF Count
    <2> QED
      BY <1>0, <1>1, <2>2
  <1>2. CASE f[x] = v /\ g[x] # v
    <2>1. Holders(g, v) = Holders(f, v) \ {x} /\ x \in Holders(f, v)
      BY <1>2 DEF Holders
    <2>2. Count(g, v) = Count(f, v) - 1
      BY <1>0, <2>1, FS_RemoveElement DEF Count
    <2> QED
      BY <1>0, <1>2, <2>2
  <1>3. CASE f[x] = v <=> g[x] = v
    <2>1. Holders(g, v) = Holders(f, v)
      BY <1>3 DEF Holders
    <2>2. Count(g, v) = Count(f, v)
      BY <2>1 DEF Count
    <2> QED
      BY <1>0, <1>3, <2>2
  <1> QED
    BY <1>1, <1>2, <1>3

Pcs == {"idle", "hunt", "list", "fetch", "find"} \cup InTest

Types ==
  /\ TypeOK
  /\ pc \in [Procs -> Pcs] /\ raced \in BOOLEAN
  /\ owed \in [Objects -> SUBSET Tests]
  /\ \A o \in Objects : \A t \in owed[o] : o \in Match[t]
  /\ \A o \in Objects : st[o] = "absent" => owed[o] = {}

\* Whoever tests, fetches or pokes an object has one.
HasObject ==
  /\ \A p \in Testers : pc[p] \in InTest => obj[p] \in Objects
  /\ \A c \in Clients : pc[c] = "fetch" => obj[c] \in Objects
  /\ pc[Lurker] = "find" => obj[Lurker] \in Objects

\* There is a ban with text t that is newer than x.
Later(t, x) == \E y \in x + 1 .. first : test[y] = t

Known == \A x \in 1 .. first : test[x] \in Tests

\* A duplicate is GONE only when a newer ban is not.
Gone ==
  \A x \in gone :
    /\ x <= first
    /\ test[x] # Magic => \E y \in x + 1 .. first : test[y] = test[x] /\ y \notin gone

Hunters ==
  \A i \in Purgers :
    /\ pc[i] \in {"hunt", "list"} => be[i] \in 0 .. first
    /\ pc[i] \notin {"hunt", "list"} => be[i] = NoBan
    /\ pc[i] = "hunt" => b0[i] \in 1 .. first /\ be[i] <= b[i] /\ b[i] <= b0[i]

\* Of two bans with one text, the newer one's hunt has still to meet the older.
Pairs ==
  PurgeDups =>
    \A x, y \in (last .. first) \ gone :
      x < y /\ test[x] = test[y] =>
        \E i \in Purgers : pc[i] = "hunt" /\ b0[i] = y /\ be[i] <= x /\ x < b[i]

Walking == {"walk", "update", "write"}

\* What applies and was passed by has a newer duplicate, not yet in sight.
Walkers ==
  \A p \in Testers : pc[p] \in Walking =>
    /\ b0[p] \in 0 .. first /\ b[p] <= b0[p]
    /\ pc[p] # "walk" => b[p] # NoBan
    /\ b[p] # NoBan =>
         \A x \in b[p] + 1 .. b0[p] : Applies(x, obj[p]) => Later(test[x], b0[p])

\* What an object is owed lies ahead of it.
Ahead ==
  \A o \in Objects : oban[o] # NoBan =>
    /\ oban[o] <= first
    /\ \A t \in owed[o] : Later(t, oban[o])

Lists == Known /\ Gone /\ Hunters /\ Pairs
Races == Types /\ HasObject /\ Lists /\ Walkers /\ Ahead

\* One tester per object, one fetch per object, on an object that is there.
OneTester ==
  \A p, q \in Testers : pc[p] \in InTest /\ pc[q] \in InTest /\ obj[p] = obj[q] => p = q

Alive ==
  /\ \A p \in Testers : pc[p] \in InTest => st[obj[p]] \notin {"absent", "dying"}
  /\ \A c \in Clients : pc[c] = "fetch" => st[obj[c]] = "fetch"
  /\ \A c, d \in Clients : pc[c] = "fetch" /\ pc[d] = "fetch" /\ obj[c] = obj[d] => c = d

\* The ban an object is counted on: o->ban, except between Move and SetBan.
Counted ==
  /\ \A o \in Objects : on[o] # NoBan => on[o] \in last .. first
  /\ \A o \in Objects : (\A p \in Testers : ~(pc[p] = "write" /\ obj[p] = o)) => on[o] = oban[o]
  /\ \A p \in Testers : pc[p] = "write" =>
       on[obj[p]] = IF b[p] = oban[obj[p]] THEN b0[p] ELSE NoBan
  /\ \A o \in Objects : (st[o] = "absent" => oban[o] = NoBan) /\ (st[o] = "live" => oban[o] # NoBan)
  /\ pc[Lurker] = "find" => on[obj[Lurker]] = last

Testing ==
  \A p \in Testers :
    /\ pc[p] \in {"check", "walk", "update"} => oban[obj[p]] # NoBan
    /\ pc[p] \in {"walk", "update"} => oban[obj[p]] <= b[p]

\* A purger pins the ban be.
Refs ==
  /\ \A x \in last .. first : refcount[x] = Count(on, x) + Count(be, x)
  /\ \A x \in Bans : x > first => refcount[x] = 0
  /\ \A i \in Purgers : be[i] # NoBan => last <= be[i]

Quiet == OneTester /\ Alive /\ Counted /\ Testing /\ Refs
IInv == Races /\ (~raced => Quiet)

(***************************************************************************)
(* Whatever races with what                                                *)
(***************************************************************************)
\* Threads have one role, and there is a lurker.
LEMMA Roles ==
  /\ Lurker \in Testers /\ Clients \subseteq Testers /\ Testers \subseteq Procs
  /\ Purgers \subseteq Procs /\ Testers \cap Purgers = {}
BY ClientsAssumption DEF Testers, Procs

\* Bans are numbers, and the list is the interval from last to first.
LEMMA Numbers ==
  ASSUME Types
  PROVE  /\ first \in Int /\ last \in Int /\ 0 <= last /\ last <= first /\ first <= MaxPurges
         /\ \A x : x \in Bans <=> x \in Int /\ 0 <= x /\ x <= MaxPurges
         /\ MaxPurges \in Nat /\ \A x \in last .. first : x \in Bans
BY BanBounds DEF Types, TypeOK, Bans

\* A step that touches neither texts nor hunters; the oldest ban may go.
LEMMA ListsStand ==
  ASSUME Types, Lists, UNCHANGED <<first, gone, test>>, last' \in Int, last <= last',
         \A i \in Purgers : pc'[i] = pc[i] /\ b0'[i] = b0[i] /\ b'[i] = b[i] /\ be'[i] = be[i]
  PROVE  Lists'
<1>1. Known' /\ Gone'
  BY DEF Lists, Known, Gone
<1>2. Hunters'
  BY DEF Lists, Hunters
<1>3. Pairs'
  <2> SUFFICES ASSUME PurgeDups, NEW x \in (last' .. first) \ gone, NEW y \in (last' .. first) \ gone,
                      x < y, test[x] = test[y]
               PROVE  \E i \in Purgers : pc[i] = "hunt" /\ b0[i] = y /\ be[i] <= x /\ x < b[i]
    BY DEF Pairs
  <2>1. x \in (last .. first) \ gone /\ y \in (last .. first) \ gone
    BY Numbers
  <2> QED  BY <2>1 DEF Lists, Pairs
<1> QED  BY <1>1, <1>2, <1>3 DEF Lists

\* A step that leaves walking testers where they are; bans may be added.
LEMMA WalkersStand ==
  ASSUME Types, Walkers, first' \in Int, first <= first',
         \A x \in 0 .. first : test'[x] = test[x],
         \A p \in Testers : pc'[p] \in Walking =>
           /\ pc[p] \in Walking /\ b0'[p] = b0[p] /\ b'[p] = b[p] /\ obj'[p] = obj[p]
           /\ pc'[p] # "walk" => b[p] # NoBan
  PROVE  Walkers'
<1> SUFFICES ASSUME NEW p \in Testers, pc'[p] \in Walking
             PROVE  /\ b0'[p] \in 0 .. first' /\ b'[p] <= b0'[p]
                    /\ pc'[p] # "walk" => b'[p] # NoBan
                    /\ b'[p] # NoBan =>
                         \A x \in b'[p] + 1 .. b0'[p] :
                           Applies(x, obj[p])' => Later(test[x], b0[p])'
  BY DEF Walkers
<1>0. pc[p] \in Walking /\ b0'[p] = b0[p] /\ b'[p] = b[p] /\ obj'[p] = obj[p]
  OBVIOUS
<1>1. /\ b0[p] \in 0 .. first /\ b[p] <= b0[p] /\ b[p] \in Int /\ -1 <= b[p]
      /\ b[p] # NoBan => \A x \in b[p] + 1 .. b0[p] : Applies(x, obj[p]) => Later(test[x], b0[p])
  <2>1. b[p] \in Bans \cup {NoBan}
    BY Roles DEF Types, TypeOK
  <2> QED  BY <1>0, <2>1, Numbers DEF Walkers, NoBan
<1>2. ASSUME b[p] # NoBan, NEW x \in b[p] + 1 .. b0[p], Applies(x, obj[p])'
      PROVE  Later(test[x], b0[p])'
  <2>1. x \in 0 .. first /\ test'[x] = test[x]
    BY <1>1, Numbers
  <2>2. Applies(x, obj[p])
    BY <1>0, <1>2, <2>1 DEF Applies
  <2>3. PICK y \in b0[p] + 1 .. first : test[y] = test[x]
    BY <1>1, <1>2, <2>2 DEF Later
  <2>4. y \in 0 .. first /\ y \in b0'[p] + 1 .. first'
    BY <1>0, <1>1, <2>3, Numbers
  <2>5. test'[y] = test'[x]
    BY <2>1, <2>3, <2>4
  <2> QED  BY <2>4, <2>5 DEF Later
<1>3. b0[p] \in 0 .. first'
  BY <1>1, Numbers
<1> QED  BY <1>0, <1>1, <1>2, <1>3

\* A step that leaves the texts alone, and o->ban or what is owed.
LEMMA AheadStands ==
  ASSUME Ahead, UNCHANGED <<first, test>>,
         \A o \in Objects : oban'[o] # NoBan => oban'[o] = oban[o] /\ owed'[o] \subseteq owed[o]
  PROVE  Ahead'
BY DEF Ahead, Later

-----------------------------------------------------------------------------
(* Whatever races with what: purgers *)

\* BAN_Insert keeps Races.
LEMMA InsertRaces ==
  ASSUME Races, NEW i \in Purgers, NEW t \in Tests, BAN_Insert(i, t)
  PROVE  Races'
<1>0. /\ first' = first + 1 /\ first' \in Bans /\ first \in Int /\ 0 <= first
      /\ last \in Int /\ 0 <= last /\ last <= first /\ last' = last /\ gone' = gone
      /\ test' = [test EXCEPT ![first'] = t] /\ t # Magic
      /\ test'[first'] = t /\ \A x \in 0 .. first : test'[x] = test[x]
  BY Numbers, TestsAssumption DEF Races, Types, TypeOK, BAN_Insert, Bans
<1>1. /\ pc[i] = "idle" /\ i \notin Testers /\ i \in Procs
      /\ PurgeDups => /\ be' = [be EXCEPT ![i] = last] /\ b0' = [b0 EXCEPT ![i] = first']
                      /\ b' = [b EXCEPT ![i] = first'] /\ pc' = [pc EXCEPT ![i] = "hunt"]
      /\ ~PurgeDups => UNCHANGED <<be, b0, b, pc>>
  BY Roles DEF BAN_Insert, Goto
<1>2. \A p \in Testers : pc'[p] = pc[p] /\ b0'[p] = b0[p] /\ b'[p] = b[p] /\ obj'[p] = obj[p]
  BY <1>1, Roles DEF Races, Types, TypeOK, BAN_Insert
<1>3. owed' = Owe(owed, t)
  BY DEF BAN_Insert
<1>4. Types'
  <2>1. TypeOK'
    <3>1. first' \in Bans /\ last' \in 0 .. first'
      BY <1>0
    <3>2. refcount' \in [Bans -> Int]
      BY <1>0, Numbers DEF Races, Types, TypeOK, BAN_Insert
    <3>3. test' \in [Bans -> Tests \cup {Magic}]
      BY <1>0 DEF Races, Types, TypeOK
    <3>4. /\ b0' \in [Procs -> Bans \cup {NoBan}] /\ b' \in [Procs -> Bans \cup {NoBan}]
          /\ be' \in [Purgers -> Bans \cup {NoBan}]
      BY <1>0, <1>1, Numbers DEF Races, Types, TypeOK
    <3> QED  BY <3>1, <3>2, <3>3, <3>4 DEF Races, Types, TypeOK, BAN_Insert, objVars
  <2>2. pc' \in [Procs -> Pcs] /\ raced' \in BOOLEAN
    BY <1>1 DEF Races, Types, BAN_Insert, Pcs
  <2>3. /\ owed' \in [Objects -> SUBSET Tests]
        /\ \A o \in Objects : \A u \in owed'[o] : o \in Match[u]
        /\ \A o \in Objects : st'[o] = "absent" => owed'[o] = {}
    BY <1>3 DEF Races, Types, TypeOK, BAN_Insert, Owe, objVars
  <2> QED  BY <2>1, <2>2, <2>3 DEF Types
<1>5. HasObject'
  BY <1>2, Roles DEF Races, HasObject
<1>6. Walkers'
  BY <1>0, <1>2, WalkersStand DEF Races, Walkers
<1>7. Known'
  BY <1>0 DEF Races, Lists, Known
<1>8. Gone'
  <2> SUFFICES ASSUME NEW x \in gone
               PROVE  /\ x <= first'
                      /\ test'[x] # Magic =>
                           \E y \in x + 1 .. first' : test'[y] = test'[x] /\ y \notin gone
    BY <1>0 DEF Gone
  <2>1. x \in Int /\ 0 <= x /\ x <= first /\ test'[x] = test[x]
    BY <1>0, Numbers DEF Races, Types, TypeOK, Lists, Gone
  <2>2. ASSUME test[x] # Magic
        PROVE  \E y \in x + 1 .. first' : test'[y] = test'[x] /\ y \notin gone
    <3>1. PICK y \in x + 1 .. first : test[y] = test[x] /\ y \notin gone
      BY <2>2 DEF Races, Lists, Gone
    <3>2. y \in 0 .. first /\ y \in x + 1 .. first'
      BY <1>0, <2>1
    <3> QED  BY <1>0, <2>1, <3>1, <3>2
  <2> QED  BY <1>0, <2>1, <2>2
<1>9. Hunters'
  <2> SUFFICES ASSUME NEW j \in Purgers
               PROVE  /\ pc'[j] \in {"hunt", "list"} => be'[j] \in 0 .. first'
                      /\ pc'[j] \notin {"hunt", "list"} => be'[j] = NoBan
                      /\ pc'[j] = "hunt" =>
                           b0'[j] \in 1 .. first' /\ be'[j] <= b'[j] /\ b'[j] <= b0'[j]
    BY DEF Hunters
  <2>1. CASE j = i /\ PurgeDups
    BY <1>0, <1>1, <2>1, Roles DEF Races, Types, TypeOK
  <2>2. CASE j # i \/ ~PurgeDups
    <3>1. pc'[j] = pc[j] /\ be'[j] = be[j] /\ b'[j] = b[j] /\ b0'[j] = b0[j]
      BY <1>1, <2>2, Roles DEF Races, Types, TypeOK
    <3> QED  BY <1>0, <3>1 DEF Races, Lists, Hunters
  <2> QED  BY <2>1, <2>2
<1>10. Pairs'
  <2> SUFFICES ASSUME PurgeDups, NEW x \in (last .. first') \ gone, NEW y \in (last .. first') \ gone,
                      x < y, test'[x] = test'[y]
               PROVE  \E j \in Purgers : pc'[j] = "hunt" /\ b0'[j] = y /\ be'[j] <= x /\ x < b'[j]
    BY <1>0 DEF Pairs
  <2>1. CASE y = first'
    BY <1>0, <1>1, <2>1, Roles DEF Races, Types, TypeOK
  <2>2. CASE y # first'
    <3>1. x \in (last .. first) \ gone /\ y \in (last .. first) \ gone /\ test[x] = test[y]
      BY <1>0, <2>2
    <3>2. PICK j \in Purgers : pc[j] = "hunt" /\ b0[j] = y /\ be[j] <= x /\ x < b[j]
      BY <3>1 DEF Races, Lists, Pairs
    <3>3. j # i /\ j \in Procs
      BY <1>1, <3>2, Roles
    <3> QED  BY <1>1, <3>2, <3>3, Roles DEF Races, Types, TypeOK
  <2> QED  BY <2>1, <2>2
<1>11. Ahead'
  <2> SUFFICES ASSUME NEW o \in Objects, oban[o] # NoBan
               PROVE  /\ oban[o] <= first'
                      /\ \A u \in owed'[o] : Later(u, oban[o])'
    BY DEF Ahead, BAN_Insert, objVars
  <2>1. oban[o] \in Int /\ 0 <= oban[o] /\ oban[o] <= first /\ oban'[o] = oban[o]
    BY Numbers DEF Races, Types, TypeOK, Ahead, BAN_Insert, objVars
  <2>2. ASSUME NEW u \in owed'[o] PROVE Later(u, oban[o])'
    <3>1. CASE u = t
      <4>1. first' \in oban'[o] + 1 .. first'
        BY <1>0, <2>1
      <4> QED  BY <1>0, <3>1, <4>1 DEF Later
    <3>2. CASE u \in owed[o]
      <4>1. PICK y \in oban[o] + 1 .. first : test[y] = u
        BY <3>2 DEF Races, Ahead, Later
      <4>2. y \in 0 .. first /\ y \in oban'[o] + 1 .. first'
        BY <1>0, <2>1
      <4> QED  BY <1>0, <4>1, <4>2 DEF Later
    <3>3. owed'[o] \subseteq owed[o] \cup {t}
      BY <1>3 DEF Owe
    <3> QED  BY <2>2, <3>1, <3>2, <3>3
  <2> QED  BY <1>0, <2>1, <2>2
<1> QED  BY <1>4, <1>5, <1>6, <1>7, <1>8, <1>9, <1>10, <1>11 DEF Races, Lists

\* A round of the hunt: what it marks has the hunter's own ban, or a newer one.
LEMMA HuntRaces ==
  ASSUME Races, NEW i \in Purgers, HuntDuplicates(i)
  PROVE  Races'
<1> DEFINE z == b[i] - 1
<1>0. /\ pc[i] = "hunt" /\ b' = [b EXCEPT ![i] = z]
      /\ gone' = gone \cup {x \in {z} : test[x] = test[b0[i]]}
      /\ UNCHANGED <<first, last, refcount, test, on, oban, st, pc, obj, b0, be, lurks, owed, raced>>
  BY DEF HuntDuplicates, objVars, history
<1>1. /\ first \in Int /\ 0 <= first /\ last \in Int /\ i \in Procs /\ i \notin Testers
      /\ b[i] \in Int /\ be[i] \in Int /\ b0[i] \in Int
      /\ 0 <= be[i] /\ be[i] <= z /\ z < b0[i] /\ 1 <= b0[i] /\ b0[i] <= first
      /\ z \in Bans /\ test[b0[i]] \in Tests
  <2>1. b[i] \in Int /\ be[i] \in 0 .. first /\ b0[i] \in 1 .. first /\ be[i] <= b[i] /\ b[i] <= b0[i]
        /\ b[i] # be[i] /\ i \in Procs /\ i \notin Testers
    BY <1>0, Roles, Numbers DEF Races, Types, TypeOK, Lists, Hunters, HuntDuplicates, NoBan
  <2> QED  BY <2>1, Numbers DEF Races, Lists, Known
<1>2. b' \in [Procs -> Bans \cup {NoBan}]
  BY <1>0, <1>1 DEF Races, Types, TypeOK
<1>3. Types'
  BY <1>0, <1>1, <1>2 DEF Races, Types, TypeOK
<1>4. HasObject' /\ Ahead'
  BY <1>0 DEF Races, HasObject, Ahead, Later
<1>5. \A p \in Testers : pc'[p] = pc[p] /\ b0'[p] = b0[p] /\ b'[p] = b[p] /\ obj'[p] = obj[p]
  BY <1>0, <1>1, Roles DEF Races, Types, TypeOK
<1>6. Walkers'
  BY <1>0, <1>1, <1>5, WalkersStand DEF Races, Walkers
<1>7. Known'
  BY <1>0 DEF Races, Lists, Known
<1>8. test[z] = test[b0[i]] => \E y \in z + 1 .. first : test[y] = test[z] /\ y \notin gone'
  <2> SUFFICES ASSUME test[z] = test[b0[i]]
               PROVE  \E y \in z + 1 .. first : test[y] = test[z] /\ y \notin gone'
    OBVIOUS
  <2>1. CASE b0[i] \notin gone
    <3>1. b0[i] \notin gone' /\ b0[i] \in z + 1 .. first
      BY <1>0, <1>1, <2>1
    <3> QED  BY <3>1
  <2>2. CASE b0[i] \in gone
    <3>1. test[b0[i]] # Magic
      BY <1>1, TestsAssumption
    <3>2. PICK y \in b0[i] + 1 .. first : test[y] = test[b0[i]] /\ y \notin gone
      BY <2>2, <3>1 DEF Races, Lists, Gone
    <3>3. y \in z + 1 .. first /\ y # z
      BY <1>1
    <3>4. y \notin gone'
      BY <1>0, <3>2, <3>3
    <3> QED  BY <3>2, <3>3, <3>4
  <2> QED  BY <2>1, <2>2
<1>9. Gone'
  <2> SUFFICES ASSUME NEW x \in gone'
               PROVE  /\ x <= first
                      /\ test[x] # Magic =>
                           \E y \in x + 1 .. first : test[y] = test[x] /\ y \notin gone'
    BY <1>0 DEF Gone
  <2>1. CASE x \in gone
    <3>1. x \in Int /\ x <= first
      BY <2>1, Numbers DEF Races, Types, TypeOK, Lists, Gone
    <3>2. ASSUME test[x] # Magic
          PROVE  \E y \in x + 1 .. first : test[y] = test[x] /\ y \notin gone'
      <4>1. PICK y \in x + 1 .. first : test[y] = test[x] /\ y \notin gone
        BY <2>1, <3>2 DEF Races, Lists, Gone
      <4>2. CASE y \notin gone'
        BY <4>1, <4>2
      <4>3. CASE y \in gone'
        <5>1. y = z /\ test[z] = test[b0[i]]
          BY <1>0, <4>1, <4>3
        <5>2. PICK v \in z + 1 .. first : test[v] = test[z] /\ v \notin gone'
          BY <1>8, <5>1
        <5>3. v \in x + 1 .. first
          BY <1>1, <3>1, <4>1, <5>1
        <5> QED  BY <4>1, <5>1, <5>2, <5>3
      <4> QED  BY <4>2, <4>3
    <3> QED  BY <3>1, <3>2
  <2>2. CASE x \notin gone
    <3>1. x = z /\ test[z] = test[b0[i]]
      BY <1>0, <2>2
    <3> QED  BY <1>1, <1>8, <3>1
  <2> QED  BY <2>1, <2>2
<1>10. Hunters'
  <2> SUFFICES ASSUME NEW j \in Purgers
               PROVE  /\ pc[j] \in {"hunt", "list"} => be[j] \in 0 .. first
                      /\ pc[j] \notin {"hunt", "list"} => be[j] = NoBan
                      /\ pc[j] = "hunt" =>
                           b0[j] \in 1 .. first /\ be[j] <= b'[j] /\ b'[j] <= b0[j]
    BY <1>0 DEF Hunters
  <2>1. CASE j = i
    BY <1>0, <1>1, <2>1 DEF Races, Types, TypeOK
  <2>2. CASE j # i
    <3>1. b'[j] = b[j]
      BY <1>0, <2>2, Roles DEF Races, Types, TypeOK
    <3> QED  BY <3>1 DEF Races, Lists, Hunters
  <2> QED  BY <2>1, <2>2
<1>11. Pairs'
  <2> SUFFICES ASSUME PurgeDups, NEW x \in (last .. first) \ gone', NEW y \in (last .. first) \ gone',
                      x < y, test[x] = test[y]
               PROVE  \E j \in Purgers : pc[j] = "hunt" /\ b0[j] = y /\ be[j] <= x /\ x < b'[j]
    BY <1>0 DEF Pairs
  <2>1. x \in (last .. first) \ gone /\ y \in (last .. first) \ gone
    BY <1>0
  <2>2. PICK j \in Purgers : pc[j] = "hunt" /\ b0[j] = y /\ be[j] <= x /\ x < b[j]
    BY <2>1 DEF Races, Lists, Pairs
  <2>3. CASE j = i
    <3>1. x # z
      BY <1>0, <2>2, <2>3
    <3>2. x < z
      BY <1>1, <2>2, <2>3, <3>1
    <3>3. b'[i] = z
      BY <1>0, <1>1 DEF Races, Types, TypeOK
    <3> HIDE DEF z
    <3> QED  BY <2>2, <2>3, <3>2, <3>3
  <2>4. CASE j # i
    <3>1. b'[j] = b[j]
      BY <1>0, <2>4, Roles DEF Races, Types, TypeOK
    <3> QED  BY <2>2, <3>1
  <2> QED  BY <2>3, <2>4
<1> QED  BY <1>3, <1>4, <1>6, <1>7, <1>9, <1>10, <1>11 DEF Races, Lists

\* A purger drops its ban, or pins one to list them.
LEMMA PinRaces ==
  ASSUME Races, NEW i \in Purgers, HuntEnd(i) \/ ListBegin(i) \/ ListEnd(i)
  PROVE  Races'
<1>0. /\ UNCHANGED <<first, last, gone, test, on, oban, st, obj, lurks, owed, raced>>
      /\ i \in Procs /\ i \notin Testers
  BY Roles DEF HuntEnd, ListBegin, ListEnd, objVars, history
<1>1. /\ refcount' \in [Bans -> Int]
      /\ pc' \in [Procs -> Pcs] /\ (pc'[i] = "list" \/ pc'[i] = "idle")
      /\ \A p \in Procs : p # i => pc'[p] = pc[p] /\ b0'[p] = b0[p] /\ b'[p] = b[p]
      /\ b0' \in [Procs -> Bans \cup {NoBan}] /\ b' \in [Procs -> Bans \cup {NoBan}]
      /\ be' \in [Purgers -> Bans \cup {NoBan}]
      /\ \A j \in Purgers : j # i => be'[j] = be[j]
      /\ pc'[i] = "idle" => be'[i] = NoBan
      /\ pc'[i] = "list" => be'[i] = last
      /\ pc[i] = "hunt" => b[i] = be[i]
  <2>0. /\ NoBan \notin Bans /\ last \in Bans
        /\ pc[i] \in {"hunt", "list"} => be[i] \in Bans
        /\ refcount \in [Bans -> Int]
    BY Numbers DEF Races, Types, TypeOK, Lists, Hunters, NoBan
  <2>1. CASE HuntEnd(i)
    <3>1. refcount' \in [Bans -> Int]
      BY <2>0, <2>1 DEF HuntEnd
    <3>2. /\ pc' \in [Procs -> Pcs] /\ be' \in [Purgers -> Bans \cup {NoBan}]
          /\ b0' \in [Procs -> Bans \cup {NoBan}] /\ b' \in [Procs -> Bans \cup {NoBan}]
      BY <1>0, <2>0, <2>1 DEF Races, Types, TypeOK, HuntEnd, Goto, Pcs
    <3> QED  BY <1>0, <2>0, <2>1, <3>1, <3>2 DEF Races, Types, TypeOK, HuntEnd, Goto
  <2>2. CASE ListBegin(i)
    <3>1. refcount' \in [Bans -> Int]
      BY <2>0, <2>2 DEF ListBegin
    <3>2. /\ pc' \in [Procs -> Pcs] /\ be' \in [Purgers -> Bans \cup {NoBan}]
          /\ b0' \in [Procs -> Bans \cup {NoBan}] /\ b' \in [Procs -> Bans \cup {NoBan}]
      BY <1>0, <2>0, <2>2 DEF Races, Types, TypeOK, ListBegin, Goto, Pcs
    <3> QED  BY <1>0, <2>0, <2>2, <3>1, <3>2 DEF Races, Types, TypeOK, ListBegin, Goto
  <2>3. CASE ListEnd(i)
    <3>1. refcount' \in [Bans -> Int]
      BY <2>0, <2>3 DEF ListEnd
    <3>2. /\ pc' \in [Procs -> Pcs] /\ be' \in [Purgers -> Bans \cup {NoBan}]
          /\ b0' \in [Procs -> Bans \cup {NoBan}] /\ b' \in [Procs -> Bans \cup {NoBan}]
      BY <1>0, <2>0, <2>3 DEF Races, Types, TypeOK, ListEnd, Goto, Pcs
    <3> QED  BY <1>0, <2>0, <2>3, <3>1, <3>2 DEF Races, Types, TypeOK, ListEnd, Goto
  <2> QED  BY <2>1, <2>2, <2>3
<1>2. Types'
  BY <1>0, <1>1 DEF Races, Types, TypeOK
<1>3. \A p \in Testers : pc'[p] = pc[p] /\ b0'[p] = b0[p] /\ b'[p] = b[p] /\ obj'[p] = obj[p]
  BY <1>0, <1>1, Roles
<1>4. HasObject' /\ Ahead'
  BY <1>0, <1>3, Roles DEF Races, HasObject, Ahead, Later
<1>5. Walkers'
  BY <1>0, <1>3, WalkersStand, Numbers DEF Races, Walkers
<1>6. Known' /\ Gone'
  BY <1>0 DEF Races, Lists, Known, Gone
<1>7. Hunters'
  <2> SUFFICES ASSUME NEW j \in Purgers
               PROVE  /\ pc'[j] \in {"hunt", "list"} => be'[j] \in 0 .. first
                      /\ pc'[j] \notin {"hunt", "list"} => be'[j] = NoBan
                      /\ pc'[j] = "hunt" =>
                           b0'[j] \in 1 .. first /\ be'[j] <= b'[j] /\ b'[j] <= b0'[j]
    BY <1>0 DEF Hunters
  <2>1. CASE j = i
    BY <1>1, <2>1, Numbers DEF Races
  <2>2. CASE j # i
    BY <1>1, <2>2, Roles DEF Races, Lists, Hunters
  <2> QED  BY <2>1, <2>2
<1>8. Pairs'
  <2> SUFFICES ASSUME PurgeDups, NEW x \in (last .. first) \ gone, NEW y \in (last .. first) \ gone,
                      x < y, test[x] = test[y]
               PROVE  \E j \in Purgers : pc'[j] = "hunt" /\ b0'[j] = y /\ be'[j] <= x /\ x < b'[j]
    BY <1>0 DEF Pairs
  <2>1. PICK j \in Purgers : pc[j] = "hunt" /\ b0[j] = y /\ be[j] <= x /\ x < b[j]
    BY DEF Races, Lists, Pairs
  <2>2. j # i
    <3>1. be[j] \in Int /\ x \in Int
      BY <2>1, Numbers DEF Races, Lists, Hunters
    <3> QED  BY <1>1, <2>1, <3>1
  <2> QED  BY <1>1, <2>1, <2>2, Roles
<1> QED  BY <1>2, <1>4, <1>5, <1>6, <1>7, <1>8 DEF Races, Lists

-----------------------------------------------------------------------------
(* Whatever races with what: objects and their testers *)

\* A step of a tester, or of nobody in particular, that goes on no walk.
LEMMA RacesStand ==
  ASSUME Races, UNCHANGED <<first, gone, test, be>>, last' \in Int, last <= last',
         Types', HasObject',
         \A i \in Purgers : pc'[i] = pc[i] /\ b0'[i] = b0[i] /\ b'[i] = b[i],
         \A p \in Testers : pc'[p] \in Walking =>
           /\ pc[p] \in Walking /\ b0'[p] = b0[p] /\ b'[p] = b[p] /\ obj'[p] = obj[p]
           /\ pc'[p] # "walk" => b[p] # NoBan,
         \A o \in Objects : oban'[o] # NoBan => oban'[o] = oban[o] /\ owed'[o] \subseteq owed[o]
  PROVE  Races'
<1>1. Lists'
  BY ListsStand DEF Races
<1>2. Walkers'
  BY WalkersStand, Numbers DEF Races
<1>3. Ahead'
  BY AheadStands DEF Races
<1> QED  BY <1>1, <1>2, <1>3 DEF Races

\* What the steps of a tester p leave alone.
LEMMA OneMoves ==
  ASSUME Types, NEW p \in Testers, NEW where \in Pcs, Goto(p, where)
  PROVE  /\ pc' \in [Procs -> Pcs] /\ pc'[p] = where /\ p \in Procs
         /\ \A q \in Procs : q # p => pc'[q] = pc[q]
         /\ \A i \in Purgers : i # p /\ pc'[i] = pc[i]
BY Roles DEF Types, Goto

\* Retiring the last ban keeps Races.
LEMMA RetireRaces ==
  ASSUME Races, LurkerRetire \/ \E i \in Purgers : ListRetire(i)
  PROVE  Races'
<1>1. /\ last' = last + 1 /\ last # first
      /\ UNCHANGED <<first, refcount, gone, test, on, oban, st, pc, obj, b0, b, be, lurks, owed, raced>>
  BY DEF LurkerRetire, ListRetire, Retirable, objVars, procVars, history
<1>2. Types'
  BY <1>1, Numbers DEF Races, Types, TypeOK
<1>3. HasObject'
  BY <1>1 DEF Races, HasObject
<1>4. last' \in Int /\ last <= last'
  BY <1>1, Numbers DEF Races
<1>5. \A p \in Testers : pc[p] \in Walking /\ pc[p] # "walk" => b[p] # NoBan
  BY DEF Races, Walkers
<1> QED  BY <1>1, <1>2, <1>3, <1>4, <1>5, RacesStand

\* BAN_NewObj keeps Races.
LEMMA NewObjRaces ==
  ASSUME Races, NEW c \in Clients, NEW o \in Objects, BAN_NewObj(c, o)
  PROVE  Races'
<1>1. /\ Goto(c, "fetch") /\ c \in Testers /\ pc[c] = "idle" /\ st[o] = "absent"
      /\ st' = [st EXCEPT ![o] = "fetch"] /\ oban' = [oban EXCEPT ![o] = first]
      /\ on' = [on EXCEPT ![o] = first] /\ refcount' = [refcount EXCEPT ![first] = @ + 1]
      /\ obj' = [obj EXCEPT ![c] = o]
      /\ UNCHANGED <<first, last, gone, test, b0, b, be, lurks, owed, raced>>
  BY Roles DEF BAN_NewObj, history
<1>2. /\ pc' \in [Procs -> Pcs] /\ pc'[c] = "fetch"
      /\ \A q \in Procs : q # c => pc'[q] = pc[q]
      /\ \A i \in Purgers : pc'[i] = pc[i]
  BY <1>1, OneMoves DEF Races, Pcs
<1>3. Types'
  <2>1. refcount' \in [Bans -> Int] /\ on' \in [Objects -> Bans \cup {NoBan}]
        /\ oban' \in [Objects -> Bans \cup {NoBan}] /\ st' \in [Objects -> Status]
        /\ obj' \in [Testers -> Objects \cup {None}]
    BY <1>1 DEF Races, Types, TypeOK, Status
  <2>2. owed' = owed /\ \A x \in Objects : st'[x] = "absent" => st[x] = "absent"
    BY <1>1 DEF Races, Types, TypeOK
  <2> QED  BY <1>1, <1>2, <2>1, <2>2 DEF Races, Types, TypeOK
<1>4. \A p \in Testers : p # c => pc'[p] = pc[p] /\ obj'[p] = obj[p]
  BY <1>1, <1>2, Roles DEF Races, Types, TypeOK
<1>5. HasObject'
  <2>1. obj'[c] = o /\ c # Lurker
    BY <1>1, ClientsAssumption DEF Races, Types, TypeOK
  <2> QED  BY <1>2, <1>4, <2>1, Roles DEF Races, HasObject, InTest
<1>6. Lists'
  BY <1>1, <1>2, ListsStand, Numbers DEF Races
<1>7. Walkers'
  <2>1. \A p \in Testers : pc'[p] \in Walking => p # c
    BY <1>2 DEF Walking
  <2>2. \A p \in Testers : pc[p] \in Walking /\ pc[p] # "walk" => b[p] # NoBan
    BY DEF Races, Walkers
  <2> QED  BY <1>1, <1>4, <2>1, <2>2, WalkersStand, Numbers DEF Races
<1>8. Ahead'
  <2>1. ASSUME NEW x \in Objects, oban'[x] # NoBan
        PROVE  oban'[x] <= first /\ \A t \in owed[x] : Later(t, oban'[x])
    <3>1. CASE x = o
      <4>1. oban'[x] = first /\ owed[x] = {}
        BY <1>1, <3>1 DEF Races, Types, TypeOK
      <4> QED  BY <4>1, Numbers DEF Races
    <3>2. CASE x # o
      <4>1. oban'[x] = oban[x]
        BY <1>1, <3>2 DEF Races, Types, TypeOK
      <4> QED  BY <2>1, <4>1 DEF Races, Ahead
    <3> QED  BY <3>1, <3>2
  <2> QED  BY <1>1, <2>1 DEF Ahead, Later
<1> QED  BY <1>3, <1>5, <1>6, <1>7, <1>8 DEF Races

\* A tester that is not walking yet or any more: nothing it passed matters.
LEMMA IdleRaces ==
  ASSUME Races, NEW p \in Testers, NEW where \in Pcs \ Walking, Goto(p, where),
         UNCHANGED <<first, last, refcount, gone, test, on, be, owed>>,
         raced' \in BOOLEAN, lurks' \in 0 .. MaxLurks,
         oban' \in [Objects -> Bans \cup {NoBan}], st' \in [Objects -> Status],
         \A o \in Objects : oban'[o] # NoBan => oban'[o] = oban[o],
         \A o \in Objects : st'[o] = "absent" => st[o] = "absent",
         obj' \in [Testers -> Objects \cup {None}],
         where \in InTest \cup {"fetch", "find"} => obj'[p] \in Objects,
         b0' \in [Procs -> Bans \cup {NoBan}], b' \in [Procs -> Bans \cup {NoBan}],
         \A q \in Procs : q # p => b0'[q] = b0[q] /\ b'[q] = b[q],
         \A q \in Testers : q # p => obj'[q] = obj[q]
  PROVE  Races'
<1>1. /\ pc' \in [Procs -> Pcs] /\ pc'[p] = where /\ p \in Procs
      /\ \A q \in Procs : q # p => pc'[q] = pc[q]
      /\ \A i \in Purgers : i # p /\ pc'[i] = pc[i]
  BY OneMoves DEF Races
<1>2. Types'
  BY <1>1 DEF Races, Types, TypeOK
<1>3. HasObject'
  BY <1>1, Roles DEF Races, HasObject
<1>4. \A q \in Testers : pc'[q] \in Walking =>
        /\ pc[q] \in Walking /\ b0'[q] = b0[q] /\ b'[q] = b[q] /\ obj'[q] = obj[q]
        /\ pc'[q] # "walk" => b[q] # NoBan
  BY <1>1, Roles DEF Races, Walkers
<1>5. \A i \in Purgers : pc'[i] = pc[i] /\ b0'[i] = b0[i] /\ b'[i] = b[i]
  BY <1>1, Roles
<1>6. last' \in Int /\ last <= last'
  BY Numbers DEF Races
<1> QED  BY <1>2, <1>3, <1>4, <1>5, <1>6, RacesStand

\* A client that unbusies its object or finds one keeps Races.
LEMMA ClientRaces ==
  ASSUME Races, NEW c \in Clients, Unbusy(c) \/ \E o \in Objects : LookupObject(c, o)
  PROVE  Races'
<1>0. c \in Testers
  BY Roles
<1>1. CASE Unbusy(c)
  <2>1. /\ "idle" \in Pcs \ Walking /\ "idle" \notin InTest \cup {"fetch", "find"}
        /\ obj[c] \in Objects
    BY <1>1 DEF Pcs, Walking, InTest, Races, HasObject, Unbusy
  <2>2. /\ Goto(c, "idle") /\ st' = [st EXCEPT ![obj[c]] = "live"] /\ obj' = [obj EXCEPT ![c] = None]
        /\ UNCHANGED <<first, last, refcount, gone, test, on, oban, b0, b, be, lurks, owed, raced>>
    BY <1>1 DEF Unbusy, listVars, history
  <2>3. /\ st' \in [Objects -> Status] /\ \A o \in Objects : st'[o] = "absent" => st[o] = "absent"
        /\ obj' \in [Testers -> Objects \cup {None}] /\ \A q \in Testers : q # c => obj'[q] = obj[q]
    BY <2>1, <2>2 DEF Races, Types, TypeOK, Status
  <2> QED  BY <1>0, <2>1, <2>2, <2>3, IdleRaces DEF Races, Types, TypeOK
<1>2. ASSUME NEW o \in Objects, LookupObject(c, o) PROVE Races'
  <2>1. "check" \in Pcs \ Walking
    BY DEF Pcs, Walking, InTest
  <2>2. /\ Goto(c, "check") /\ obj' = [obj EXCEPT ![c] = o]
        /\ UNCHANGED <<first, last, refcount, gone, test, on, oban, st, b0, b, be, lurks, owed>>
        /\ raced' \in BOOLEAN
    BY <1>2 DEF LookupObject, listVars, objVars
  <2>3. /\ obj' \in [Testers -> Objects \cup {None}] /\ obj'[c] \in Objects
        /\ \A q \in Testers : q # c => obj'[q] = obj[q]
    BY <1>0, <2>2 DEF Races, Types, TypeOK
  <2> QED  BY <1>0, <2>1, <2>2, <2>3, IdleRaces DEF Races, Types, TypeOK
<1> QED  BY <1>1, <1>2

\* The end of an object, by expiry or BAN_DestroyObj, keeps Races.
LEMMA EndRaces ==
  ASSUME Races, NEW o \in Objects, Expire(o) \/ BAN_DestroyObj(o)
  PROVE  Races'
<1>1. UNCHANGED <<first, gone, test, pc, obj, b0, b, be, lurks, raced>>
  BY DEF Expire, BAN_DestroyObj, listVars, procVars, history
<1>2. /\ st' \in [Objects -> Status] /\ oban' \in [Objects -> Bans \cup {NoBan}]
      /\ on' \in [Objects -> Bans \cup {NoBan}] /\ refcount' \in [Bans -> Int]
      /\ \A x \in Objects : owed'[x] = owed[x] \/ owed'[x] = {}
      /\ owed' \in [Objects -> SUBSET Tests]
      /\ \A x \in Objects : st'[x] = "absent" => owed'[x] = {}
      /\ \A x \in Objects : oban'[x] # NoBan => oban'[x] = oban[x]
      /\ last' \in last .. first
  <2>1. CASE Expire(o)
    BY <2>1, Numbers DEF Expire, listVars, history, Races, Types, TypeOK, Status
  <2>2. CASE BAN_DestroyObj(o)
    <3>1. st' = [st EXCEPT ![o] = "absent"] /\ owed' = [owed EXCEPT ![o] = {}]
      BY <2>2 DEF BAN_DestroyObj
    <3>2. /\ st' \in [Objects -> Status] /\ owed' \in [Objects -> SUBSET Tests]
          /\ \A x \in Objects : owed'[x] = owed[x] \/ owed'[x] = {}
          /\ \A x \in Objects : st'[x] = "absent" => owed'[x] = {}
      BY <3>1 DEF Races, Types, TypeOK, Status
    <3>3. CASE oban[o] = NoBan
      BY <2>2, <3>2, <3>3, Numbers DEF BAN_DestroyObj, Races, Types, TypeOK
    <3>4. CASE oban[o] # NoBan
      <4>1. /\ refcount' = [refcount EXCEPT ![oban[o]] = @ - 1]
            /\ on' = [on EXCEPT ![o] = NoBan] /\ oban' = [oban EXCEPT ![o] = NoBan]
            /\ last' = IF Retirable(refcount') THEN last + 1 ELSE last
        BY <2>2, <3>4 DEF BAN_DestroyObj
      <4>2. last' \in last .. first
        BY <4>1, Numbers DEF Races, Retirable
      <4>3. oban[o] \in Bans
        BY <3>4 DEF Races, Types, TypeOK
      <4> QED  BY <3>2, <4>1, <4>2, <4>3 DEF Races, Types, TypeOK
    <3> QED  BY <3>3, <3>4
  <2> QED  BY <2>1, <2>2
<1>3. last' \in Int /\ last <= last' /\ last' \in 0 .. first
  BY <1>2, Numbers DEF Races
<1>4. Types'
  BY <1>1, <1>2, <1>3 DEF Races, Types, TypeOK
<1>5. HasObject'
  BY <1>1 DEF Races, HasObject
<1>6. \A p \in Testers : pc[p] \in Walking /\ pc[p] # "walk" => b[p] # NoBan
  BY DEF Races, Walkers
<1>7. \A x \in Objects : oban'[x] # NoBan => oban'[x] = oban[x] /\ owed'[x] \subseteq owed[x]
  BY <1>2
<1> QED  BY <1>1, <1>3, <1>4, <1>5, <1>6, <1>7, RacesStand

\* HSH_FindBan and the lurker's choice of an object keep Races.
LEMMA PokeRaces ==
  ASSUME Races, HSH_FindBan \/ \E o \in Objects : LurkerPoke(o)
  PROVE  Races'
<1>0. Lurker \in Testers /\ {"find", "idle", "check"} \subseteq Pcs \ Walking
      /\ "idle" \notin InTest \cup {"fetch", "find"}
  BY Roles DEF Pcs, Walking, InTest
<1>1. CASE HSH_FindBan
  <2>1. UNCHANGED <<first, last, refcount, gone, test, on, oban, st, b0, b, be, lurks, owed, raced>>
    BY <1>1 DEF HSH_FindBan, listVars, objVars, history
  <2>2. PICK where \in {"idle", "check"} :
          /\ Goto(Lurker, where) /\ obj' \in [Testers -> Objects \cup {None}]
          /\ \A q \in Testers : q # Lurker => obj'[q] = obj[q]
          /\ where = "check" => obj'[Lurker] \in Objects
    BY <1>0, <1>1 DEF HSH_FindBan, Races, Types, TypeOK, HasObject
  <2>3. where \in InTest \cup {"fetch", "find"} => obj'[Lurker] \in Objects
    BY <1>0, <2>2
  <2> QED  BY <1>0, <2>1, <2>2, <2>3, IdleRaces DEF Races, Types, TypeOK
<1>2. ASSUME NEW o \in Objects, LurkerPoke(o) PROVE Races'
  <2>1. /\ UNCHANGED <<first, last, refcount, gone, test, on, oban, st, b0, b, be, owed, raced>>
        /\ Goto(Lurker, "find") /\ obj' = [obj EXCEPT ![Lurker] = o]
        /\ lurks > 0 /\ lurks' = lurks - 1
    BY <1>2 DEF LurkerPoke, listVars, objVars, history
  <2>2. lurks' \in 0 .. MaxLurks
    BY <2>1, BanBounds DEF Races, Types, TypeOK
  <2>3. /\ obj' \in [Testers -> Objects \cup {None}] /\ obj'[Lurker] \in Objects
        /\ \A q \in Testers : q # Lurker => obj'[q] = obj[q]
    BY <1>0, <2>1 DEF Races, Types, TypeOK
  <2> QED  BY <1>0, <2>1, <2>2, <2>3, IdleRaces DEF Races, Types, TypeOK
<1> QED  BY <1>1, <1>2

\* Move and Return leave the walk where it was, or end it.
LEMMA MoveRaces ==
  ASSUME Races, Intact, NEW p \in Testers, Move(p) \/ Return(p)
  PROVE  Races'
<1>1. CASE Return(p)
  <2>1. /\ "idle" \in Pcs \ Walking /\ "idle" \notin InTest \cup {"fetch", "find"} /\ p \in Procs
    BY Roles DEF Pcs, Walking, InTest
  <2>2. /\ Goto(p, "idle") /\ obj' = [obj EXCEPT ![p] = None]
        /\ b0' = [b0 EXCEPT ![p] = NoBan] /\ b' = [b EXCEPT ![p] = NoBan]
        /\ UNCHANGED <<first, last, refcount, gone, test, on, oban, st, be, lurks, owed, raced>>
    BY <1>1 DEF Return, listVars, objVars
  <2>3. /\ obj' \in [Testers -> Objects \cup {None}]
        /\ \A q \in Testers : q # p => obj'[q] = obj[q]
        /\ b0' \in [Procs -> Bans \cup {NoBan}] /\ b' \in [Procs -> Bans \cup {NoBan}]
        /\ \A q \in Procs : q # p => b0'[q] = b0[q] /\ b'[q] = b[q]
    BY <2>1, <2>2 DEF Races, Types, TypeOK
  <2> QED  BY <2>1, <2>2, <2>3, IdleRaces DEF Races, Types, TypeOK
<1>2. CASE Move(p)
  <2>1. /\ Goto(p, "write") /\ pc[p] = "update" /\ "write" \in Pcs
        /\ UNCHANGED <<first, last, gone, test, oban, st, obj, b0, b, be, lurks, owed, raced>>
    BY <1>2 DEF Move, history, Pcs, InTest
  <2>2. /\ pc' \in [Procs -> Pcs] /\ pc'[p] = "write" /\ p \in Procs
        /\ \A q \in Procs : q # p => pc'[q] = pc[q]
        /\ \A i \in Purgers : i # p /\ pc'[i] = pc[i]
    BY <2>1, OneMoves DEF Races
  <2>3. obj[p] \in Objects /\ b0[p] \in Bans /\ oban[obj[p]] \in Bans
    BY <2>1, Numbers DEF Races, HasObject, InTest, Walkers, Walking, Intact, Types, TypeOK
  <2>4. on' \in [Objects -> Bans \cup {NoBan}]
    BY <1>2, <2>3 DEF Move, Races, Types, TypeOK
  <2>5. refcount' \in [Bans -> Int]
    <3>1. PICK old : old = [refcount EXCEPT ![oban[obj[p]]] = @ - 1]
      OBVIOUS
    <3>2. old \in [Bans -> Int]
      BY <3>1, <2>3 DEF Races, Types, TypeOK
    <3>3. refcount' = [old EXCEPT ![b0[p]] = @ + 1] \/ refcount' = old
      BY <1>2, <3>1 DEF Move
    <3> QED  BY <2>3, <3>2, <3>3
  <2>6. Types'
    BY <2>1, <2>2, <2>4, <2>5 DEF Races, Types, TypeOK
  <2>7. HasObject'
    BY <2>1, <2>2, Roles DEF Races, HasObject, InTest
  <2>8. \A q \in Testers : pc'[q] \in Walking =>
          /\ pc[q] \in Walking /\ b0'[q] = b0[q] /\ b'[q] = b[q] /\ obj'[q] = obj[q]
          /\ pc'[q] # "walk" => b[q] # NoBan
    BY <2>1, <2>2, Roles DEF Races, Walkers, Walking
  <2>9. last' \in Int /\ last <= last'
    BY <2>1, Numbers DEF Races
  <2> QED  BY <2>1, <2>2, <2>6, <2>7, <2>8, <2>9, RacesStand
<1> QED  BY <1>1, <1>2

\* The start of ban_check_object keeps Races.
LEMMA StartRaces ==
  ASSUME Races, NEW p \in Testers, CheckStart(p)
  PROVE  Races'
<1>1. /\ p \in Procs /\ pc[p] = "check"
      /\ b0' = [b0 EXCEPT ![p] = first] /\ b' = [b EXCEPT ![p] = first]
      /\ UNCHANGED <<first, last, refcount, gone, test, on, oban, st, obj, be, lurks, owed, raced>>
  BY Roles DEF CheckStart, listVars, objVars, history
<1>2. PICK where \in {"passed", "walk"} : Goto(p, where)
  BY DEF CheckStart
<1>3. /\ b0' \in [Procs -> Bans \cup {NoBan}] /\ b' \in [Procs -> Bans \cup {NoBan}]
      /\ \A q \in Procs : q # p => b0'[q] = b0[q] /\ b'[q] = b[q]
      /\ b0'[p] = first /\ b'[p] = first
  BY <1>1 DEF Races, Types, TypeOK
<1>4. obj[p] \in Objects
  BY <1>1 DEF Races, HasObject, InTest
<1>5. where \in Pcs
  BY DEF Pcs, InTest
<1>6. /\ pc' \in [Procs -> Pcs] /\ pc'[p] = where
      /\ \A q \in Procs : q # p => pc'[q] = pc[q]
      /\ \A i \in Purgers : i # p /\ pc'[i] = pc[i]
  BY <1>2, <1>5, OneMoves DEF Races
<1>7. Types'
  BY <1>1, <1>3, <1>6 DEF Races, Types, TypeOK
<1>8. HasObject'
  BY <1>1, <1>4, <1>6, Roles DEF Races, HasObject
<1>9. Lists'
  BY <1>1, <1>3, <1>6, Roles, ListsStand, Numbers DEF Races
<1>10. Ahead'
  BY <1>1, AheadStands DEF Races
<1>11. Walkers'
  <2> SUFFICES ASSUME NEW q \in Testers, pc'[q] \in Walking
               PROVE  /\ b0'[q] \in 0 .. first /\ b'[q] <= b0'[q]
                      /\ pc'[q] # "walk" => b'[q] # NoBan
                      /\ b'[q] # NoBan =>
                           \A x \in b'[q] + 1 .. b0'[q] :
                             Applies(x, obj[q]) => Later(test[x], b0'[q])
    BY <1>1 DEF Walkers, Applies, Later
  <2>1. CASE q = p
    <3>1. first \in 0 .. first /\ first # NoBan /\ first + 1 .. first = {}
      BY Numbers DEF Races, NoBan
    <3> QED  BY <1>3, <2>1, <3>1
  <2>2. CASE q # p
    BY <1>3, <1>6, <2>2, Roles DEF Races, Walkers
  <2> QED  BY <2>1, <2>2
<1> QED  BY <1>7, <1>8, <1>9, <1>10, <1>11 DEF Races

\* The walk passes by a ban that applies only when the ban is GONE: the newer
\* duplicate is either beyond b0, or was passed before and has one that is.
LEMMA WalkRaces ==
  ASSUME Races, Intact, NEW p \in Testers, Walk(p)
  PROVE  Races'
<1>1. /\ p \in Procs /\ pc[p] = "walk" /\ b[p] \in last .. first /\ b[p] # NoBan
      /\ UNCHANGED <<first, last, refcount, gone, test, on, oban, st, obj, b0, be, lurks, owed, raced>>
      /\ obj[p] \in Objects
  <2>1. pc[p] = "walk"
        /\ UNCHANGED <<first, last, refcount, gone, test, on, oban, st, obj, b0, be, lurks, owed, raced>>
    BY DEF Walk, listVars, objVars, history
  <2> QED  BY <2>1, Roles, Numbers DEF Intact, NoBan, Races, HasObject, InTest
<1>2. CASE pc' = pc
  <2>1. /\ b[p] \in gone \/ (~CantTest(p, b[p]) /\ ~Applies(b[p], obj[p]))
        /\ b' = [b EXCEPT ![p] = NextBan(b[p])]
    <3>1. ~Goto(p, "update") /\ ~Goto(p, "passed")
      BY <1>1, <1>2 DEF Races, Types, Goto
    <3> QED  BY <3>1 DEF Walk
  <2>2. /\ NextBan(b[p]) \in Bans \cup {NoBan}
        /\ NextBan(b[p]) = NoBan \/ NextBan(b[p]) = b[p] - 1
    BY <1>1, Numbers DEF NextBan, Races, Bans
  <2>3. /\ b' \in [Procs -> Bans \cup {NoBan}] /\ b'[p] = NextBan(b[p])
        /\ \A q \in Procs : q # p => b'[q] = b[q]
    BY <1>1, <2>1, <2>2 DEF Races, Types, TypeOK
  <2>4. Types'
    BY <1>1, <1>2, <2>3 DEF Races, Types, TypeOK
  <2>5. HasObject'
    BY <1>1, <1>2 DEF Races, HasObject
  <2>6. \A i \in Purgers : b'[i] = b[i]
    BY <2>3, Roles
  <2>7. Lists'
    BY <1>1, <1>2, <2>6, ListsStand, Numbers DEF Races
  <2>8. Ahead'
    BY <1>1, AheadStands DEF Races
  <2>9. Walkers'
    <3> SUFFICES ASSUME NEW q \in Testers, pc[q] \in Walking
                 PROVE  /\ b0[q] \in 0 .. first /\ b'[q] <= b0[q]
                        /\ pc[q] # "walk" => b'[q] # NoBan
                        /\ b'[q] # NoBan =>
                             \A x \in b'[q] + 1 .. b0[q] :
                               Applies(x, obj[q]) => Later(test[x], b0[q])
      BY <1>1, <1>2 DEF Walkers, Applies, Later
    <3>1. CASE q # p
      BY <2>3, <3>1, Roles DEF Races, Walkers
    <3>2. CASE q = p
      <4>1. /\ b0[p] \in 0 .. first /\ b[p] <= b0[p]
            /\ \A x \in b[p] + 1 .. b0[p] : Applies(x, obj[p]) => Later(test[x], b0[p])
        BY <1>1, <3>2 DEF Races, Walkers
      <4>2. b[p] \in Int /\ 0 <= b[p] /\ b0[p] \in Int /\ first \in Int
        BY <1>1, <4>1, Numbers DEF Races
      <4>3. b'[p] <= b0[p]
        BY <2>2, <2>3, <4>1, <4>2 DEF NoBan
      <4>4. ASSUME b'[p] # NoBan, NEW x \in b'[p] + 1 .. b0[p], Applies(x, obj[p])
            PROVE  Later(test[x], b0[p])
        <5>1. x = b[p] \/ x \in b[p] + 1 .. b0[p]
          BY <2>2, <2>3, <4>2, <4>4
        <5>2. CASE x \in b[p] + 1 .. b0[p]
          BY <4>1, <4>4, <5>2
        <5>3. CASE x = b[p]
          <6>1. x \in gone /\ test[x] # Magic
            BY <2>1, <4>4, <5>3 DEF Applies
          <6>2. PICK y \in x + 1 .. first : test[y] = test[x]
            BY <6>1 DEF Races, Lists, Gone
          <6>3. y \in b[p] + 1 .. b0[p] \/ y \in b0[p] + 1 .. first
            BY <4>2, <5>3
          <6>4. Applies(y, obj[p])
            BY <4>4, <6>2 DEF Applies
          <6>5. CASE y \in b[p] + 1 .. b0[p]
            <7>1. Later(test[y], b0[p])
              BY <4>1, <6>4, <6>5
            <7> QED  BY <6>2, <7>1
          <6>6. CASE y \in b0[p] + 1 .. first
            BY <6>2, <6>6 DEF Later
          <6> QED  BY <6>3, <6>5, <6>6
        <5> QED  BY <5>1, <5>2, <5>3
      <4> QED  BY <1>1, <3>2, <4>1, <4>3, <4>4
    <3> QED  BY <3>1, <3>2
  <2> QED  BY <2>4, <2>5, <2>7, <2>8, <2>9 DEF Races
<1>3. CASE pc' # pc
  <2>1. PICK where \in {"update", "passed"} : Goto(p, where)
    BY <1>3 DEF Walk
  <2>2. where \in Pcs /\ b' = b
    BY <1>3 DEF Pcs, InTest, Walk
  <2>3. /\ pc' \in [Procs -> Pcs] /\ pc'[p] = where
        /\ \A q \in Procs : q # p => pc'[q] = pc[q]
        /\ \A i \in Purgers : i # p /\ pc'[i] = pc[i]
    BY <2>1, <2>2, OneMoves DEF Races
  <2>4. Types'
    BY <1>1, <2>2, <2>3 DEF Races, Types, TypeOK
  <2>5. HasObject'
    BY <1>1, <2>3, Roles DEF Races, HasObject
  <2>6. \A q \in Testers : pc'[q] \in Walking =>
          /\ pc[q] \in Walking /\ b0'[q] = b0[q] /\ b'[q] = b[q] /\ obj'[q] = obj[q]
          /\ pc'[q] # "walk" => b[q] # NoBan
    BY <1>1, <2>2, <2>3, Roles DEF Races, Walkers, Walking
  <2>7. last' \in Int /\ last <= last'
    BY <1>1, Numbers DEF Races
  <2> QED  BY <1>1, <2>2, <2>3, <2>4, <2>5, <2>6, <2>7, RacesStand
<1> QED  BY <1>2, <1>3

\* o->ban jumps to b0: what is owed lies beyond b0, or has a duplicate there.
LEMMA SetBanRaces ==
  ASSUME Races, NEW p \in Testers, SetBan(p)
  PROVE  Races'
<1> DEFINE o == obj[p]
<1>1. /\ p \in Procs /\ pc[p] = "write" /\ o \in Objects
      /\ UNCHANGED <<first, last, refcount, gone, test, on, obj, b0, b, be, lurks, owed, raced>>
  <2>1. pc[p] = "write"
        /\ UNCHANGED <<first, last, refcount, gone, test, on, obj, b0, b, be, lurks, owed, raced>>
    BY DEF SetBan, listVars, history
  <2> QED  BY <2>1, Roles DEF Races, HasObject, InTest
<1>2. CASE b[p] # oban[o]
  <2>1. "banned" \in Pcs \ Walking
    BY DEF Pcs, InTest, Walking
  <2>2. /\ oban' = [oban EXCEPT ![o] = NoBan] /\ Goto(p, "banned")
        /\ st' = [st EXCEPT ![o] = IF @ = "fetch" THEN @ ELSE "dead"]
    BY <1>2 DEF SetBan
  <2>3. /\ oban' \in [Objects -> Bans \cup {NoBan}]
        /\ \A x \in Objects : oban'[x] # NoBan => oban'[x] = oban[x]
    BY <1>1, <2>2 DEF Races, Types, TypeOK
  <2>4. st' \in [Objects -> Status] /\ \A x \in Objects : st'[x] = "absent" => st[x] = "absent"
    BY <1>1, <2>2 DEF Races, Types, TypeOK, Status
  <2> QED  BY <1>1, <2>1, <2>2, <2>3, <2>4, IdleRaces DEF Races, Types, TypeOK
<1>3. CASE b[p] = oban[o]
  <2>1. Goto(p, "passed") /\ oban' = [oban EXCEPT ![o] = b0[p]] /\ st' = st
    BY <1>3 DEF SetBan
  <2>2. /\ b0[p] \in 0 .. first /\ b[p] <= b0[p] /\ b[p] # NoBan
        /\ \A x \in b[p] + 1 .. b0[p] : Applies(x, o) => Later(test[x], b0[p])
    BY <1>1 DEF Races, Walkers, Walking
  <2>3. /\ oban' \in [Objects -> Bans \cup {NoBan}] /\ oban'[o] = b0[p]
        /\ \A x \in Objects : x # o => oban'[x] = oban[x]
    BY <1>1, <2>1 DEF Races, Types, TypeOK
  <2>4. /\ pc' \in [Procs -> Pcs] /\ pc'[p] = "passed"
        /\ \A q \in Procs : q # p => pc'[q] = pc[q]
        /\ \A i \in Purgers : i # p /\ pc'[i] = pc[i]
    BY <2>1, OneMoves DEF Races, Pcs, InTest
  <2>5. Types'
    BY <1>1, <2>1, <2>3, <2>4 DEF Races, Types, TypeOK
  <2>6. HasObject'
    BY <1>1, <2>4, Roles DEF Races, HasObject
  <2>7. Lists'
    BY <1>1, <2>4, ListsStand, Numbers DEF Races
  <2>8. Walkers'
    <3>1. \A q \in Testers : pc'[q] \in Walking =>
            /\ pc[q] \in Walking /\ b0'[q] = b0[q] /\ b'[q] = b[q] /\ obj'[q] = obj[q]
            /\ pc'[q] # "walk" => b[q] # NoBan
      BY <1>1, <2>4, Roles DEF Races, Walkers, Walking
    <3> QED  BY <1>1, <3>1, WalkersStand, Numbers DEF Races
  <2>9. Ahead'
    <3>1. ASSUME NEW x \in Objects, oban'[x] # NoBan
          PROVE  oban'[x] <= first /\ \A t \in owed[x] : Later(t, oban'[x])
      <4>1. CASE x # o
        BY <2>3, <3>1, <4>1 DEF Races, Ahead
      <4>2. CASE x = o
        <5>1. ASSUME NEW t \in owed[o] PROVE Later(t, b0[p])
          <6>1. t \in Tests /\ t # Magic /\ o \in Match[t]
            BY <1>1, TestsAssumption DEF Races, Types
          <6>2. PICK y \in b[p] + 1 .. first : test[y] = t
            BY <1>1, <1>3, <2>2 DEF Races, Ahead, Later
          <6>3. b[p] \in Int /\ b0[p] \in Int /\ first \in Int
            BY <1>1, <2>2, Numbers DEF Races, Types, TypeOK
          <6>4. y \in b[p] + 1 .. b0[p] \/ y \in b0[p] + 1 .. first
            BY <6>3
          <6>5. Applies(y, o)
            BY <6>1, <6>2 DEF Applies
          <6>6. CASE y \in b[p] + 1 .. b0[p]
            BY <2>2, <6>2, <6>5, <6>6
          <6>7. CASE y \in b0[p] + 1 .. first
            BY <6>2, <6>7 DEF Later
          <6> QED  BY <6>4, <6>6, <6>7
        <5>2. b0[p] <= first
          BY <2>2, Numbers DEF Races
        <5> QED  BY <2>3, <4>2, <5>1, <5>2
      <4> QED  BY <4>1, <4>2
    <3> QED  BY <1>1, <3>1 DEF Ahead, Later
  <2> QED  BY <2>5, <2>6, <2>7, <2>8, <2>9 DEF Races
<1> QED  BY <1>2, <1>3

(***************************************************************************)
(* Until a lookup meets the lurker: purgers                                *)
(***************************************************************************)
LEMMA Finite ==
  ASSUME Types
  PROVE  /\ DOMAIN on = Objects /\ IsFiniteSet(DOMAIN on)
         /\ DOMAIN be = Purgers /\ IsFiniteSet(DOMAIN be)
         /\ \A x : Count(on, x) \in Nat /\ Count(be, x) \in Nat
<1>1. DOMAIN on = Objects /\ DOMAIN be = Purgers
  BY DEF Types, TypeOK
<1>2. IsFiniteSet(DOMAIN on) /\ IsFiniteSet(DOMAIN be)
  BY <1>1, ObjectsAssumption, ClientsAssumption
<1> QED  BY <1>1, <1>2, CountType

\* A step of a purger: no object and no tester is touched.
LEMMA TestersStand ==
  ASSUME Races, Quiet, UNCHANGED <<last, on, oban, st, obj>>, first' \in Int, first <= first',
         \A p \in Testers : pc'[p] = pc[p] /\ b0'[p] = b0[p] /\ b'[p] = b[p]
  PROVE  OneTester' /\ Alive' /\ Counted' /\ Testing'
<1>1. OneTester' /\ Alive' /\ Testing'
  BY Roles DEF Quiet, OneTester, Alive, Testing
<1>2. Counted'
  <2>1. \A o \in Objects : on[o] # NoBan => on[o] \in last .. first'
    BY Numbers DEF Races, Quiet, Counted
  <2>2. \A o \in Objects :
          (\A p \in Testers : ~(pc'[p] = "write" /\ obj'[p] = o)) => on'[o] = oban'[o]
    BY DEF Quiet, Counted
  <2>3. \A p \in Testers : pc'[p] = "write" =>
          on'[obj'[p]] = IF b'[p] = oban'[obj'[p]] THEN b0'[p] ELSE NoBan
    BY DEF Quiet, Counted
  <2>4. \A o \in Objects :
          (st'[o] = "absent" => oban'[o] = NoBan) /\ (st'[o] = "live" => oban'[o] # NoBan)
    BY DEF Quiet, Counted
  <2>5. pc'[Lurker] = "find" => on'[obj'[Lurker]] = last'
    BY Roles DEF Quiet, Counted
  <2> QED  BY <2>1, <2>2, <2>3, <2>4, <2>5 DEF Counted
<1> QED  BY <1>1, <1>2

\* BAN_Insert keeps Quiet.
LEMMA InsertQuiet ==
  ASSUME Races, Quiet, NEW i \in Purgers, NEW t \in Tests, BAN_Insert(i, t)
  PROVE  Quiet'
<1>0. /\ first' = first + 1 /\ first' \in Bans /\ first \in Int /\ 0 <= first
      /\ last \in Int /\ 0 <= last /\ last <= first /\ last \in Bans
      /\ UNCHANGED <<last, on, oban, st, obj>>
  BY Numbers DEF Races, Types, TypeOK, BAN_Insert, Bans, objVars
<1>1. /\ pc[i] = "idle" /\ i \notin Testers /\ i \in Procs /\ be[i] = NoBan
      /\ PurgeDups => /\ be' = [be EXCEPT ![i] = last] /\ b0' = [b0 EXCEPT ![i] = first']
                      /\ b' = [b EXCEPT ![i] = first'] /\ pc' = [pc EXCEPT ![i] = "hunt"]
                      /\ refcount' = [refcount EXCEPT ![last] = @ + 1]
      /\ ~PurgeDups => UNCHANGED <<be, b0, b, pc, refcount>>
  BY Roles DEF BAN_Insert, Goto, Races, Lists, Hunters
<1>2. \A p \in Testers : pc'[p] = pc[p] /\ b0'[p] = b0[p] /\ b'[p] = b[p]
  BY <1>1, Roles DEF Races, Types, TypeOK
<1>3. OneTester' /\ Alive' /\ Counted' /\ Testing'
  BY <1>0, <1>2, TestersStand
<1>4. Count(on, first') = 0 /\ Count(be, first') = 0
  <2>1. \A o \in Objects : on[o] # first'
    BY <1>0 DEF Quiet, Counted, NoBan
  <2>2. \A j \in Purgers : be[j] # first'
    BY <1>0 DEF Races, Lists, Hunters, NoBan
  <2> QED  BY <2>1, <2>2, CountZero, Finite DEF Races
<1>5. refcount[first'] = 0 /\ \A x \in last .. first : refcount[x] = Count(on, x) + Count(be, x)
  BY <1>0 DEF Quiet, Refs
<1>6. \A x \in Bans : x > first' => refcount'[x] = 0
  <2> SUFFICES ASSUME NEW x \in Bans, x > first' PROVE refcount'[x] = 0
    OBVIOUS
  <2>1. x \in Int /\ x > first /\ x # last
    BY <1>0, Numbers DEF Races
  <2>2. refcount[x] = 0
    BY <2>1 DEF Quiet, Refs
  <2>3. refcount'[x] = refcount[x]
    BY <1>1, <2>1 DEF Races, Types, TypeOK
  <2> QED  BY <2>2, <2>3
<1>7. \A x \in last .. first' : refcount'[x] = Count(on, x) + Count(be', x)
  <2>1. CASE ~PurgeDups
    BY <1>0, <1>1, <1>4, <1>5, <2>1
  <2>2. CASE PurgeDups
    <3> SUFFICES ASSUME NEW x \in last .. first'
                 PROVE  refcount'[x] = Count(on, x) + Count(be', x)
      OBVIOUS
    <3>1. /\ be'[i] = last /\ be[i] # x /\ DOMAIN be' = DOMAIN be
          /\ \A j \in DOMAIN be \ {i} : be'[j] = be[j]
      BY <1>0, <1>1, <2>2, Finite DEF Races, NoBan
    <3>2. Count(be', x) = Count(be, x) + (IF last = x THEN 1 ELSE 0)
      <4>1. Count(be', x) = Count(be, x) + (IF be'[i] = x THEN 1 ELSE 0)
                                         - (IF be[i] = x THEN 1 ELSE 0)
        BY <3>1, CountMove, Finite DEF Races
      <4> QED  BY <3>1, <4>1, Finite DEF Races
    <3>3. refcount'[x] = refcount[x] + (IF last = x THEN 1 ELSE 0)
      BY <1>0, <1>1, <2>2, Numbers DEF Races, Types, TypeOK, Bans
    <3>4. refcount[x] = Count(on, x) + Count(be, x)
      BY <1>0, <1>4, <1>5
    <3> QED  BY <3>2, <3>3, <3>4, Finite DEF Races
  <2> QED  BY <2>1, <2>2
<1>8. \A j \in Purgers : be'[j] # NoBan => last <= be'[j]
  BY <1>0, <1>1 DEF Quiet, Refs, Races, Types, TypeOK
<1> QED  BY <1>0, <1>3, <1>6, <1>7, <1>8 DEF Quiet, Refs

\* One purger's pin moves, and the counters with it.
LEMMA PinQuiet ==
  ASSUME Races, Quiet, NEW i \in Purgers,
         HuntDuplicates(i) \/ HuntEnd(i) \/ ListBegin(i) \/ ListEnd(i)
  PROVE  Quiet'
<1>0. /\ UNCHANGED <<first, last, on, oban, st, obj>>
      /\ i \in Procs /\ i \notin Testers /\ first \in Int /\ last \in Bans
  BY Roles, Numbers DEF Races, HuntDuplicates, HuntEnd, ListBegin, ListEnd, objVars
<1>1. \A p \in Testers : pc'[p] = pc[p] /\ b0'[p] = b0[p] /\ b'[p] = b[p]
  <2>1. \A p \in Testers : p # i /\ p \in Procs
    BY <1>0, Roles
  <2> QED  BY <2>1 DEF Races, Types, TypeOK, HuntDuplicates, HuntEnd, ListBegin, ListEnd, Goto
<1>2. OneTester' /\ Alive' /\ Counted' /\ Testing'
  BY <1>0, <1>1, TestersStand
<1>3. CASE HuntDuplicates(i)
  BY <1>0, <1>2, <1>3 DEF HuntDuplicates, Quiet, Refs
<1>4. CASE HuntEnd(i) \/ ListEnd(i)
  <2>1. be' = [be EXCEPT ![i] = NoBan] /\ refcount' = [refcount EXCEPT ![be[i]] = @ - 1]
        /\ be[i] \in last .. first /\ be[i] \in Bans
    <3>1. pc[i] \in {"hunt", "list"}
      BY <1>4 DEF HuntEnd, ListEnd
    <3> QED  BY <1>4, <3>1, Numbers DEF HuntEnd, ListEnd, Races, Lists, Hunters, Quiet, Refs, NoBan
  <2>2. ASSUME NEW x \in last .. first PROVE refcount'[x] = Count(on, x) + Count(be', x)
    <3>1. /\ be'[i] = NoBan /\ NoBan # x /\ DOMAIN be' = DOMAIN be
          /\ \A j \in DOMAIN be \ {i} : be'[j] = be[j]
      BY <2>1, Finite, Numbers DEF Races, NoBan
    <3>2. Count(be', x) = Count(be, x) - (IF be[i] = x THEN 1 ELSE 0)
      <4>1. Count(be', x) = Count(be, x) + (IF be'[i] = x THEN 1 ELSE 0)
                                         - (IF be[i] = x THEN 1 ELSE 0)
        BY <3>1, CountMove, Finite DEF Races
      <4> QED  BY <3>1, <4>1, Finite DEF Races
    <3>3. refcount'[x] = refcount[x] - (IF be[i] = x THEN 1 ELSE 0)
      BY <2>1, Numbers DEF Races, Types, TypeOK
    <3>4. refcount[x] = Count(on, x) + Count(be, x)
      BY DEF Quiet, Refs
    <3> QED  BY <3>2, <3>3, <3>4, Finite DEF Races
  <2>3. \A x \in Bans : x > first => refcount'[x] = 0
    BY <1>0, <2>1 DEF Quiet, Refs, Races, Types, TypeOK
  <2>4. \A j \in Purgers : be'[j] # NoBan => last <= be'[j]
    BY <2>1 DEF Quiet, Refs, Races, Types, TypeOK
  <2> QED  BY <1>0, <1>2, <2>2, <2>3, <2>4 DEF Quiet, Refs
<1>5. CASE ListBegin(i)
  <2>1. be' = [be EXCEPT ![i] = last] /\ refcount' = [refcount EXCEPT ![last] = @ + 1]
        /\ be[i] = NoBan
    BY <1>5 DEF ListBegin, Races, Lists, Hunters
  <2>2. ASSUME NEW x \in last .. first PROVE refcount'[x] = Count(on, x) + Count(be', x)
    <3>1. /\ be'[i] = last /\ be[i] # x /\ DOMAIN be' = DOMAIN be
          /\ \A j \in DOMAIN be \ {i} : be'[j] = be[j]
      BY <2>1, Finite, Numbers DEF Races, NoBan
    <3>2. Count(be', x) = Count(be, x) + (IF last = x THEN 1 ELSE 0)
      <4>1. Count(be', x) = Count(be, x) + (IF be'[i] = x THEN 1 ELSE 0)
                                         - (IF be[i] = x THEN 1 ELSE 0)
        BY <3>1, CountMove, Finite DEF Races
      <4> QED  BY <3>1, <4>1, Finite DEF Races
    <3>3. refcount'[x] = refcount[x] + (IF last = x THEN 1 ELSE 0)
      BY <1>0, <2>1, Numbers DEF Races, Types, TypeOK
    <3>4. refcount[x] = Count(on, x) + Count(be, x)
      BY DEF Quiet, Refs
    <3> QED  BY <3>2, <3>3, <3>4, Finite DEF Races
  <2>3. \A x \in Bans : x > first => refcount'[x] = 0
    BY <1>0, <2>1, Numbers DEF Quiet, Refs, Races, Types, TypeOK
  <2>4. \A j \in Purgers : be'[j] # NoBan => last <= be'[j]
    BY <2>1, Numbers DEF Quiet, Refs, Races, Types, TypeOK
  <2> QED  BY <1>0, <1>2, <2>2, <2>3, <2>4 DEF Quiet, Refs
<1> QED  BY <1>3, <1>4, <1>5

\* The oldest ban goes: nobody counts on it.
LEMMA Retiring ==
  ASSUME Races, Quiet, refcount[last] = 0
  PROVE  (\A o \in Objects : on[o] # last) /\ (\A i \in Purgers : be[i] # last)
<1>1. last \in last .. first
  BY Numbers DEF Races
<1>2. Count(on, last) = 0 /\ Count(be, last) = 0
  <2>1. Count(on, last) + Count(be, last) = 0
    BY <1>1 DEF Quiet, Refs
  <2> QED  BY <2>1, Finite DEF Races
<1> QED  BY <1>2, CountZero, Finite DEF Races

\* Retiring the last ban keeps Quiet.
LEMMA RetireQuiet ==
  ASSUME Races, Quiet, LurkerRetire \/ \E i \in Purgers : ListRetire(i)
  PROVE  Quiet'
<1>1. /\ last' = last + 1 /\ last # first /\ refcount[last] = 0 /\ pc[Lurker] # "find"
      /\ UNCHANGED <<first, refcount, gone, test, on, oban, st, pc, obj, b0, b, be>>
  BY DEF LurkerRetire, ListRetire, Retirable, BanHeld, objVars, procVars
<1>2. (\A o \in Objects : on[o] # last) /\ (\A i \in Purgers : be[i] # last)
  BY <1>1, Retiring
<1>3. OneTester' /\ Alive' /\ Testing'
  BY <1>1 DEF Quiet, OneTester, Alive, Testing
<1>4. Counted'
  <2>1. \A o \in Objects : on[o] # NoBan => on[o] \in last' .. first
    BY <1>1, <1>2, Numbers DEF Races, Quiet, Counted
  <2> QED  BY <1>1, <2>1 DEF Quiet, Counted
<1>5. Refs'
  <2>1. \A x \in last' .. first : refcount[x] = Count(on, x) + Count(be, x)
    BY <1>1, Numbers DEF Races, Quiet, Refs
  <2>2. \A j \in Purgers : be[j] # NoBan => last' <= be[j]
    <3>1. \A j \in Purgers : be[j] # NoBan => be[j] \in Int /\ last <= be[j]
      BY Numbers DEF Races, Quiet, Refs, Types, TypeOK
    <3> QED  BY <1>1, <1>2, <3>1, Numbers DEF Races
  <2> QED  BY <1>1, <2>1, <2>2 DEF Quiet, Refs
<1> QED  BY <1>3, <1>4, <1>5 DEF Quiet

(***************************************************************************)
(* Until a lookup meets the lurker: objects and their testers              *)
(***************************************************************************)
\* Between Move and SetBan the tester answers for the object's place.
LEMMA Place ==
  ASSUME Races, Quiet, NEW o \in Objects,
         \A p \in Testers : pc[p] = "write" => obj[p] # o
  PROVE  on[o] = oban[o] /\ (oban[o] # NoBan => oban[o] \in last .. first)
BY DEF Quiet, Counted

\* BAN_NewObj keeps Quiet.
LEMMA NewObjQuiet ==
  ASSUME Races, Quiet, NEW c \in Clients, NEW o \in Objects, BAN_NewObj(c, o)
  PROVE  Quiet'
<1>1. /\ Goto(c, "fetch") /\ c \in Testers /\ pc[c] = "idle" /\ st[o] = "absent"
      /\ pc[Lurker] # "find"
      /\ st' = [st EXCEPT ![o] = "fetch"] /\ oban' = [oban EXCEPT ![o] = first]
      /\ on' = [on EXCEPT ![o] = first] /\ refcount' = [refcount EXCEPT ![first] = @ + 1]
      /\ obj' = [obj EXCEPT ![c] = o]
      /\ UNCHANGED <<first, last, b0, b, be>>
  BY Roles DEF BAN_NewObj, BanHeld
<1>2. /\ pc' \in [Procs -> Pcs] /\ pc'[c] = "fetch" /\ c # Lurker
      /\ \A q \in Procs : q # c => pc'[q] = pc[q]
      /\ obj'[c] = o /\ \A q \in Testers : q # c => obj'[q] = obj[q]
  BY <1>1, OneMoves, ClientsAssumption DEF Races, Types, TypeOK, Pcs
<1>3. \A p \in Testers : pc'[p] \in InTest =>
        p # c /\ pc[p] \in InTest /\ pc'[p] = pc[p] /\ obj'[p] = obj[p] /\ obj[p] # o
        /\ obj[p] \in Objects
  BY <1>1, <1>2, Roles DEF Quiet, Alive, InTest, Races, HasObject
<1>4. /\ \A x \in Objects : x # o => st'[x] = st[x] /\ oban'[x] = oban[x] /\ on'[x] = on[x]
      /\ st'[o] = "fetch" /\ oban'[o] = first /\ on'[o] = first
  BY <1>1 DEF Races, Types, TypeOK
<1>5. OneTester'
  BY <1>3 DEF Quiet, OneTester
<1>6. Alive'
  <2>1. \A p \in Testers : pc'[p] \in InTest => st'[obj'[p]] \notin {"absent", "dying"}
    BY <1>3, <1>4 DEF Quiet, Alive
  <2>2. \A d \in Clients : pc'[d] = "fetch" /\ d # c =>
          pc[d] = "fetch" /\ obj'[d] = obj[d] /\ obj[d] # o /\ obj[d] \in Objects
    BY <1>1, <1>2, Roles DEF Quiet, Alive, Races, HasObject
  <2>3. \A d \in Clients : pc'[d] = "fetch" => st'[obj'[d]] = "fetch"
    BY <1>2, <1>4, <2>2 DEF Quiet, Alive
  <2>4. \A d, e \in Clients :
          pc'[d] = "fetch" /\ pc'[e] = "fetch" /\ obj'[d] = obj'[e] => d = e
    BY <1>2, <2>2 DEF Quiet, Alive
  <2> QED  BY <2>1, <2>3, <2>4 DEF Alive
<1>7. on[o] = NoBan /\ first \in last .. first /\ first # NoBan /\ first \in Bans
  <2>1. \A p \in Testers : pc[p] = "write" => obj[p] # o
    BY <1>1 DEF Quiet, Alive, InTest
  <2>2. on[o] = oban[o] /\ oban[o] = NoBan
    BY <1>1, <2>1, Place DEF Quiet, Counted
  <2> QED  BY <2>2, Numbers DEF Races, NoBan
<1>8. Counted'
  <2>1. \A x \in Objects : on'[x] # NoBan => on'[x] \in last .. first
    BY <1>4, <1>7 DEF Quiet, Counted
  <2>2. ASSUME NEW x \in Objects, \A p \in Testers : ~(pc'[p] = "write" /\ obj'[p] = x)
        PROVE  on'[x] = oban'[x]
    <3>1. CASE x = o
      BY <1>4, <3>1
    <3>2. CASE x # o
      <4>1. \A p \in Testers : pc[p] = "write" => obj[p] # x
        BY <1>1, <1>2, <2>2, Roles
      <4> QED  BY <1>4, <3>2, <4>1, Place
    <3> QED  BY <3>1, <3>2
  <2>3. \A p \in Testers : pc'[p] = "write" =>
          on'[obj'[p]] = IF b[p] = oban'[obj'[p]] THEN b0[p] ELSE NoBan
    BY <1>3, <1>4 DEF Quiet, Counted, InTest
  <2>4. \A x \in Objects :
          (st'[x] = "absent" => oban'[x] = NoBan) /\ (st'[x] = "live" => oban'[x] # NoBan)
    BY <1>4, <1>7 DEF Quiet, Counted
  <2>5. pc'[Lurker] # "find"
    BY <1>1, <1>2, Roles
  <2> QED  BY <1>1, <2>1, <2>2, <2>3, <2>4, <2>5 DEF Counted
<1>9. Testing'
  BY <1>1, <1>3, <1>4 DEF Quiet, Testing, InTest
<1>10. Refs'
  <2>1. ASSUME NEW x \in last .. first PROVE refcount'[x] = Count(on', x) + Count(be, x)
    <3>1. /\ on[o] # x /\ DOMAIN on' = DOMAIN on /\ o \in DOMAIN on
          /\ \A y \in DOMAIN on \ {o} : on'[y] = on[y]
      BY <1>1, <1>4, <1>7, Finite, Numbers DEF Races, NoBan
    <3>2. Count(on', x) = Count(on, x) + (IF first = x THEN 1 ELSE 0)
      <4>1. Count(on', x) = Count(on, x) + (IF on'[o] = x THEN 1 ELSE 0)
                                         - (IF on[o] = x THEN 1 ELSE 0)
        BY <3>1, CountMove, Finite DEF Races
      <4> QED  BY <1>4, <3>1, <4>1, Finite DEF Races
    <3>3. refcount'[x] = refcount[x] + (IF first = x THEN 1 ELSE 0)
      BY <1>1, <1>7, Numbers DEF Races, Types, TypeOK
    <3>4. refcount[x] = Count(on, x) + Count(be, x)
      BY DEF Quiet, Refs
    <3> QED  BY <3>2, <3>3, <3>4, Finite DEF Races
  <2>2. \A x \in Bans : x > first => refcount'[x] = 0
    BY <1>1, <1>7, Numbers DEF Quiet, Refs, Races, Types, TypeOK
  <2> QED  BY <1>1, <2>1, <2>2 DEF Quiet, Refs
<1> QED  BY <1>5, <1>6, <1>8, <1>9, <1>10 DEF Quiet

\* Unbusy finds AN(o->ban), or the process is lost.
LEMMA UnbusyQuiet ==
  ASSUME Races, Intact, Quiet, NEW c \in Clients, Unbusy(c)
  PROVE  Quiet'
<1> DEFINE o == obj[c]
<1>1. /\ Goto(c, "idle") /\ c \in Testers /\ pc[c] = "fetch" /\ o \in Objects
      /\ st[o] = "fetch" /\ oban[o] # NoBan
      /\ st' = [st EXCEPT ![o] = "live"] /\ obj' = [obj EXCEPT ![c] = None]
      /\ UNCHANGED <<first, last, refcount, on, oban, b0, b, be>>
  BY Roles DEF Unbusy, listVars, Races, HasObject, Intact, Quiet, Alive
<1>2. /\ pc'[c] = "idle" /\ c # Lurker /\ \A q \in Procs : q # c => pc'[q] = pc[q]
      /\ \A q \in Testers : q # c => obj'[q] = obj[q]
  BY <1>1, OneMoves, ClientsAssumption DEF Races, Types, TypeOK, Pcs
<1>3. \A x \in Objects : st'[x] = IF x = o THEN "live" ELSE st[x]
  BY <1>1 DEF Races, Types, TypeOK
<1>4. \A p \in Testers : pc'[p] # "idle" => p # c /\ pc[p] = pc'[p] /\ obj'[p] = obj[p]
  BY <1>2, Roles
<1>5. \A p \in Testers : pc[p] \in Walking \cup {"check"} => p # c /\ pc'[p] = pc[p] /\ obj'[p] = obj[p]
  BY <1>1, <1>2, Roles DEF Walking
<1>6. OneTester' /\ Testing'
  BY <1>1, <1>4 DEF Quiet, OneTester, Testing, InTest
<1>7. Alive'
  <2>1. \A p \in Testers : pc'[p] \in InTest => st'[obj'[p]] \notin {"absent", "dying"}
    BY <1>3, <1>4 DEF Quiet, Alive, Races, HasObject, InTest
  <2>2. \A d \in Clients : pc'[d] = "fetch" =>
          d # c /\ pc[d] = "fetch" /\ obj'[d] = obj[d] /\ obj[d] # o /\ obj[d] \in Objects
    BY <1>1, <1>4, Roles DEF Quiet, Alive, Races, HasObject
  <2> QED  BY <1>3, <2>1, <2>2 DEF Quiet, Alive
<1>8. Counted'
  <2>1. \A x \in Objects :
          (\A p \in Testers : ~(pc'[p] = "write" /\ obj'[p] = x)) => on[x] = oban[x]
    BY <1>5 DEF Quiet, Counted, Walking
  <2>2. \A p \in Testers : pc'[p] = "write" =>
          on[obj'[p]] = IF b[p] = oban[obj'[p]] THEN b0[p] ELSE NoBan
    BY <1>4 DEF Quiet, Counted
  <2>3. \A x \in Objects :
          (st'[x] = "absent" => oban[x] = NoBan) /\ (st'[x] = "live" => oban[x] # NoBan)
    BY <1>1, <1>3 DEF Quiet, Counted
  <2>4. pc'[Lurker] = "find" => on[obj'[Lurker]] = last
    BY <1>4, Roles DEF Quiet, Counted
  <2> QED  BY <1>1, <2>1, <2>2, <2>3, <2>4 DEF Quiet, Counted
<1>9. Refs'
  BY <1>1 DEF Quiet, Refs
<1> QED  BY <1>6, <1>7, <1>8, <1>9 DEF Quiet

\* A step of a tester before or after its Move and SetBan.
LEMMA StepQuiet ==
  ASSUME Races, Quiet, NEW p \in Testers, NEW where \in Pcs, where \notin {"write", "fetch"},
         pc[p] # "write", Goto(p, where),
         UNCHANGED <<first, last, refcount, on, oban, st, be>>,
         \A q \in Testers : q # p => obj'[q] = obj[q] /\ b0'[q] = b0[q] /\ b'[q] = b[q],
         where \in InTest =>
           /\ st[obj'[p]] \notin {"absent", "dying"}
           /\ \A q \in Testers : q # p /\ pc[q] \in InTest => obj[q] # obj'[p],
         where = "find" => on[obj'[p]] = last,
         where \in {"check", "walk", "update"} => oban[obj'[p]] # NoBan,
         where \in {"walk", "update"} => oban[obj'[p]] <= b'[p]
  PROVE  Quiet'
<1>1. /\ pc'[p] = where /\ p \in Procs /\ \A q \in Procs : q # p => pc'[q] = pc[q]
      /\ \A q \in Testers : q # p => pc'[q] = pc[q]
  BY OneMoves, Roles DEF Races
<1>2. OneTester'
  <2> SUFFICES ASSUME NEW q \in Testers, NEW r \in Testers, pc'[q] \in InTest, pc'[r] \in InTest,
                      obj'[q] = obj'[r]
               PROVE  q = r
    BY DEF OneTester
  <2>1. CASE q = p \/ r = p
    BY <1>1, <2>1
  <2>2. CASE q # p /\ r # p
    BY <1>1, <2>2 DEF Quiet, OneTester
  <2> QED  BY <2>1, <2>2
<1>3. Alive'
  <2>1. \A c \in Clients : pc'[c] = "fetch" => c # p /\ pc[c] = "fetch" /\ obj'[c] = obj[c]
    BY <1>1, Roles
  <2>2. \A q \in Testers : pc'[q] \in InTest => st[obj'[q]] \notin {"absent", "dying"}
    BY <1>1 DEF Quiet, Alive
  <2> QED  BY <2>1, <2>2 DEF Quiet, Alive
<1>4. Testing'
  BY <1>1 DEF Quiet, Testing
<1>5. Counted'
  <2>1. \A q \in Testers : (pc[q] = "write" <=> pc'[q] = "write")
                           /\ (pc[q] = "write" => q # p)
    BY <1>1
  <2>2. \A x \in Objects :
          (\A q \in Testers : ~(pc'[q] = "write" /\ obj'[q] = x)) => on[x] = oban[x]
    BY <2>1 DEF Quiet, Counted
  <2>3. \A q \in Testers : pc'[q] = "write" =>
          on[obj'[q]] = IF b'[q] = oban[obj'[q]] THEN b0'[q] ELSE NoBan
    BY <2>1 DEF Quiet, Counted
  <2>4. pc'[Lurker] = "find" => on[obj'[Lurker]] = last
    BY <1>1, Roles DEF Quiet, Counted
  <2> QED  BY <2>2, <2>3, <2>4 DEF Quiet, Counted
<1>6. Refs'
  BY DEF Quiet, Refs
<1> QED  BY <1>2, <1>3, <1>4, <1>5, <1>6 DEF Quiet

\* The lookup that would meet the lurker sets raced.
LEMMA LookupQuiet ==
  ASSUME Races, Quiet, NEW c \in Clients, NEW o \in Objects, LookupObject(c, o), ~raced'
  PROVE  Quiet'
<1>1. /\ c \in Testers /\ pc[c] = "idle" /\ st[o] = "live" /\ ~OhHeld(o) /\ ~LurkerHas(o)
      /\ obj' = [obj EXCEPT ![c] = o] /\ Goto(c, "check") /\ "check" \in Pcs
      /\ UNCHANGED <<first, last, refcount, on, oban, st, b0, b, be>>
  BY Roles DEF LookupObject, listVars, objVars, Pcs, InTest
<1>2. obj'[c] = o /\ \A q \in Testers : q # c => obj'[q] = obj[q]
  BY <1>1 DEF Races, Types, TypeOK
<1>3. \A q \in Testers : pc[q] \in InTest => obj[q] # o
  BY <1>1 DEF OhHeld, LurkerHas, Testers
<1>4. oban[o] # NoBan
  BY <1>1 DEF Quiet, Counted
<1> QED  BY <1>1, <1>2, <1>3, <1>4, StepQuiet

\* HSH_FindBan and the lurker's choice keep Quiet.
LEMMA PokeQuiet ==
  ASSUME Races, Quiet, HSH_FindBan \/ \E o \in Objects : LurkerPoke(o)
  PROVE  Quiet'
<1>0. Lurker \in Testers /\ {"find", "idle", "check"} \subseteq Pcs
      /\ "idle" \notin InTest /\ "find" \notin InTest
  BY Roles DEF Pcs, InTest
<1>1. CASE HSH_FindBan
  <2> DEFINE o == obj[Lurker]
  <2>1. /\ UNCHANGED <<first, last, refcount, on, oban, st, b0, b, be>>
        /\ pc[Lurker] = "find" /\ ~OhHeld(o) /\ o \in Objects /\ on[o] = last
    BY <1>1 DEF HSH_FindBan, listVars, objVars, Races, HasObject, Quiet, Counted
  <2>2. CASE st[o] = "dying"
    <3>1. Goto(Lurker, "idle") /\ obj' = [obj EXCEPT ![Lurker] = None]
      BY <1>1, <2>2 DEF HSH_FindBan
    <3>2. \A q \in Testers : q # Lurker => obj'[q] = obj[q]
      BY <3>1 DEF Races, Types, TypeOK
    <3> QED  BY <1>0, <2>1, <3>1, <3>2, StepQuiet
  <2>3. CASE st[o] # "dying"
    <3>1. Goto(Lurker, "check") /\ UNCHANGED obj
      BY <1>1, <2>3 DEF HSH_FindBan
    <3>2. \A q \in Testers : q # Lurker /\ pc[q] \in InTest => obj[q] # o
      BY <2>1 DEF OhHeld, Testers
    <3>3. oban[o] # NoBan
      <4>1. on[o] = oban[o]
        BY <2>1, <3>2, Place DEF InTest
      <4>2. last # NoBan
        BY Numbers DEF Races, NoBan
      <4> QED  BY <2>1, <4>1, <4>2
    <3>4. st[o] # "absent"
      BY <2>1, <3>3 DEF Quiet, Counted
    <3> QED  BY <1>0, <2>1, <2>3, <3>1, <3>2, <3>3, <3>4, StepQuiet
  <2> QED  BY <2>2, <2>3
<1>2. ASSUME NEW o \in Objects, LurkerPoke(o) PROVE Quiet'
  <2>1. /\ UNCHANGED <<first, last, refcount, on, oban, st, b0, b, be>>
        /\ Goto(Lurker, "find") /\ obj' = [obj EXCEPT ![Lurker] = o]
        /\ pc[Lurker] = "idle" /\ on[o] = last
    BY <1>2 DEF LurkerPoke, listVars, objVars
  <2>2. obj'[Lurker] = o /\ \A q \in Testers : q # Lurker => obj'[q] = obj[q]
    BY <1>0, <2>1 DEF Races, Types, TypeOK
  <2> QED  BY <1>0, <2>1, <2>2, StepQuiet
<1> QED  BY <1>1, <1>2

\* Where a walk is, with nobody else on its object.
LEMMA InPlace ==
  ASSUME Races, Quiet, NEW p \in Testers, pc[p] \in InTest
  PROVE  /\ obj[p] \in Objects /\ st[obj[p]] \notin {"absent", "dying"}
         /\ \A q \in Testers : q # p /\ pc[q] \in InTest => obj[q] # obj[p]
         /\ pc[p] # "write" => on[obj[p]] = oban[obj[p]]
         /\ pc[p] \in {"check", "walk", "update"} => oban[obj[p]] \in last .. first
<1>1. /\ obj[p] \in Objects /\ st[obj[p]] \notin {"absent", "dying"}
      /\ \A q \in Testers : q # p /\ pc[q] \in InTest => obj[q] # obj[p]
  BY DEF Races, HasObject, Quiet, Alive, OneTester
<1>2. ASSUME pc[p] # "write"
      PROVE  /\ on[obj[p]] = oban[obj[p]]
             /\ oban[obj[p]] # NoBan => oban[obj[p]] \in last .. first
  <2>1. \A q \in Testers : pc[q] = "write" => obj[q] # obj[p]
    BY <1>1, <1>2 DEF InTest
  <2> QED  BY <1>1, <2>1, Place
<1> QED  BY <1>1, <1>2 DEF Quiet, Testing

\* The start, a step and the end of the walk in ban_check_object keep Quiet.
LEMMA WalkQuiet ==
  ASSUME Races, Quiet, NEW p \in Testers, CheckStart(p) \/ Walk(p) \/ Return(p)
  PROVE  Quiet'
<1>1. /\ pc[p] \in InTest \ {"write"} /\ p \in Procs
      /\ UNCHANGED <<first, last, refcount, on, oban, st, be>>
      /\ "passed" \in InTest /\ "idle" \notin InTest /\ InTest \cup {"idle"} \subseteq Pcs
  BY Roles DEF CheckStart, Walk, Return, listVars, objVars, InTest, Pcs
<1>2. /\ obj[p] \in Objects /\ st[obj[p]] \notin {"absent", "dying"}
      /\ \A q \in Testers : q # p /\ pc[q] \in InTest => obj[q] # obj[p]
      /\ on[obj[p]] = oban[obj[p]]
      /\ pc[p] \in {"check", "walk", "update"} => oban[obj[p]] \in last .. first
  BY <1>1, InPlace
<1>3. NoBan \notin last .. first /\ first \in Int /\ last \in Int
  BY Numbers DEF Races, NoBan
<1>4. CASE Return(p)
  <2>1. Goto(p, "idle") /\ obj' = [obj EXCEPT ![p] = None]
        /\ b0' = [b0 EXCEPT ![p] = NoBan] /\ b' = [b EXCEPT ![p] = NoBan]
    BY <1>4 DEF Return
  <2>2. \A q \in Testers : q # p => obj'[q] = obj[q] /\ b0'[q] = b0[q] /\ b'[q] = b[q]
    BY <2>1, Roles DEF Races, Types, TypeOK
  <2> QED  BY <1>1, <2>1, <2>2, StepQuiet
<1>5. CASE CheckStart(p)
  <2>1. /\ pc[p] = "check" /\ obj' = obj
        /\ b0' = [b0 EXCEPT ![p] = first] /\ b' = [b EXCEPT ![p] = first]
    BY <1>5 DEF CheckStart
  <2>2. PICK where \in {"passed", "walk"} : Goto(p, where)
    BY <1>5 DEF CheckStart
  <2>3. /\ \A q \in Testers : q # p => obj'[q] = obj[q] /\ b0'[q] = b0[q] /\ b'[q] = b[q]
        /\ b'[p] = first
    BY <1>1, <2>1, Roles DEF Races, Types, TypeOK
  <2>4. oban[obj[p]] # NoBan /\ oban[obj[p]] <= b'[p]
    BY <1>2, <1>3, <2>1, <2>3
  <2>5. where \in Pcs /\ where \notin {"write", "fetch"}
    BY DEF Pcs, InTest
  <2> QED  BY <1>1, <1>2, <2>1, <2>2, <2>3, <2>4, <2>5, StepQuiet
<1>6. CASE Walk(p)
  <2>1. /\ pc[p] = "walk" /\ obj' = obj /\ b0' = b0
        /\ oban[obj[p]] <= b[p] /\ oban[obj[p]] \in last .. first /\ b[p] \in Int
    BY <1>1, <1>2, <1>6, Numbers, Roles
       DEF Walk, Quiet, Testing, Races, Types, TypeOK, NoBan
  <2>2. PICK where \in {"walk", "update", "passed"} :
          /\ Goto(p, where)
          /\ IF where = "walk" THEN b[p] # oban[obj[p]] /\ b' = [b EXCEPT ![p] = NextBan(b[p])]
                               ELSE b' = b
    <3>1. CASE UNCHANGED pc
      <4>1. pc' = [pc EXCEPT ![p] = "walk"]
        BY <1>1, <2>1, <3>1 DEF Races, Types
      <4>2. pc'[p] # "update" /\ pc'[p] # "passed"
        BY <2>1, <3>1
      <4>3. ~Goto(p, "update") /\ ~Goto(p, "passed")
        BY <1>1, <4>2 DEF Goto, Races, Types
      <4>4. b[p] # oban[obj[p]] /\ b' = [b EXCEPT ![p] = NextBan(b[p])]
        BY <1>6, <4>3 DEF Walk
      <4> QED  BY <4>1, <4>4 DEF Goto
    <3>2. CASE ~UNCHANGED pc
      BY <1>6, <3>2 DEF Walk
    <3> QED  BY <3>1, <3>2
  <2>3. where \in Pcs /\ where \notin {"write", "fetch"} /\ oban[obj[p]] # NoBan
    BY <1>3, <2>1 DEF Pcs, InTest
  <2>4. CASE where = "walk"
    <3>1. NextBan(b[p]) = b[p] - 1 /\ oban[obj[p]] <= NextBan(b[p])
      BY <1>3, <2>1, <2>2, <2>4 DEF NextBan
    <3>2. b'[p] = NextBan(b[p]) /\ \A q \in Testers : q # p => b'[q] = b[q]
      BY <1>1, <2>2, <2>4, Roles DEF Races, Types, TypeOK
    <3> QED  BY <1>1, <1>2, <2>1, <2>2, <2>3, <3>1, <3>2, StepQuiet
  <2>5. CASE where # "walk"
    <3>1. b' = b
      BY <2>2, <2>5
    <3> QED  BY <1>1, <1>2, <2>1, <2>2, <2>3, <3>1, StepQuiet
  <2> QED  BY <2>4, <2>5
<1> QED  BY <1>4, <1>5, <1>6

\* The expiry of an object keeps Quiet.
LEMMA ExpireQuiet ==
  ASSUME Races, Quiet, NEW o \in Objects, Expire(o)
  PROVE  Quiet'
<1>1. /\ st[o] \in {"live", "dead"} /\ ~OhHeld(o) /\ ~LurkerHas(o) /\ st' = [st EXCEPT ![o] = "dying"]
      /\ UNCHANGED <<first, last, refcount, on, oban, pc, obj, b0, b, be>>
  BY DEF Expire, listVars, procVars
<1>2. \A x \in Objects : st'[x] = IF x = o THEN "dying" ELSE st[x]
  BY <1>1 DEF Races, Types, TypeOK
<1>3. /\ \A p \in Testers : pc[p] \in InTest => obj[p] # o /\ obj[p] \in Objects
      /\ \A c \in Clients : pc[c] = "fetch" => obj[c] # o /\ obj[c] \in Objects
  BY <1>1 DEF OhHeld, LurkerHas, Testers, Quiet, Alive, Races, HasObject
<1>4. Alive'
  BY <1>1, <1>2, <1>3 DEF Quiet, Alive
<1>5. Counted'
  <2>1. \A x \in Objects : (st'[x] = "absent" => oban[x] = NoBan) /\ (st'[x] = "live" => oban[x] # NoBan)
    BY <1>2 DEF Quiet, Counted
  <2> QED  BY <1>1, <2>1 DEF Quiet, Counted
<1>6. OneTester' /\ Testing' /\ Refs'
  BY <1>1 DEF Quiet, OneTester, Testing, Refs
<1> QED  BY <1>4, <1>5, <1>6 DEF Quiet

\* The object leaves its ban, and the oldest ban may go with it.
LEMMA DestroyQuiet ==
  ASSUME Races, Quiet, NEW o \in Objects, BAN_DestroyObj(o)
  PROVE  Quiet'
<1>1. /\ st[o] = "dying" /\ st' = [st EXCEPT ![o] = "absent"]
      /\ UNCHANGED <<first, pc, obj, b0, b, be>>
  BY DEF BAN_DestroyObj, procVars
<1>2. \A x \in Objects : st'[x] = IF x = o THEN "absent" ELSE st[x]
  BY <1>1 DEF Races, Types, TypeOK
<1>3. /\ \A p \in Testers : pc[p] \in InTest => obj[p] # o /\ obj[p] \in Objects
      /\ \A c \in Clients : pc[c] = "fetch" => obj[c] # o /\ obj[c] \in Objects
  BY <1>1 DEF Quiet, Alive, Races, HasObject
<1>4. Alive' /\ OneTester'
  BY <1>1, <1>2, <1>3 DEF Quiet, Alive, OneTester
<1>5. on[o] = oban[o] /\ (oban[o] # NoBan => oban[o] \in last .. first)
  BY <1>3, Place DEF InTest
<1>6. CASE oban[o] = NoBan
  <2>1. UNCHANGED <<refcount, on, oban, last>>
    BY <1>6 DEF BAN_DestroyObj
  <2>2. \A x \in Objects : (st'[x] = "absent" => oban[x] = NoBan) /\ (st'[x] = "live" => oban[x] # NoBan)
    BY <1>2, <1>6 DEF Quiet, Counted
  <2>3. Counted'
    BY <1>1, <2>1, <2>2 DEF Quiet, Counted
  <2>4. Testing' /\ Refs'
    BY <1>1, <2>1 DEF Quiet, Testing, Refs
  <2> QED  BY <1>4, <2>3, <2>4 DEF Quiet
<1>7. CASE oban[o] # NoBan
  <2>1. /\ pc[Lurker] # "find" /\ refcount' = [refcount EXCEPT ![oban[o]] = @ - 1]
        /\ on' = [on EXCEPT ![o] = NoBan] /\ oban' = [oban EXCEPT ![o] = NoBan]
        /\ last' = IF Retirable(refcount') THEN last + 1 ELSE last
    BY <1>7 DEF BAN_DestroyObj, BanHeld
  <2>2. /\ \A x \in Objects : x # o => on'[x] = on[x] /\ oban'[x] = oban[x]
        /\ on'[o] = NoBan /\ oban'[o] = NoBan
    BY <2>1 DEF Races, Types, TypeOK
  <2>3. oban[o] \in Bans /\ first \in Int /\ last \in Int /\ 0 <= last /\ last <= first
    BY <1>5, <1>7, Numbers DEF Races
  <2>4. ASSUME NEW x \in last .. first PROVE refcount'[x] = Count(on', x) + Count(be, x)
    <3>1. /\ NoBan # x /\ DOMAIN on' = DOMAIN on /\ o \in DOMAIN on
          /\ \A y \in DOMAIN on \ {o} : on'[y] = on[y]
      BY <2>1, <2>2, <2>3, Finite DEF Races, NoBan
    <3>2. Count(on', x) = Count(on, x) - (IF oban[o] = x THEN 1 ELSE 0)
      <4>1. Count(on', x) = Count(on, x) + (IF on'[o] = x THEN 1 ELSE 0)
                                         - (IF on[o] = x THEN 1 ELSE 0)
        BY <3>1, CountMove, Finite DEF Races
      <4> QED  BY <1>5, <2>2, <3>1, <4>1, Finite DEF Races
    <3>3. refcount'[x] = refcount[x] - (IF oban[o] = x THEN 1 ELSE 0)
      BY <2>1, <2>3, Numbers DEF Races, Types, TypeOK
    <3>4. refcount[x] = Count(on, x) + Count(be, x)
      BY DEF Quiet, Refs
    <3> QED  BY <3>2, <3>3, <3>4, Finite DEF Races
  <2>5. \A x \in Bans : x > first => refcount'[x] = 0
    BY <1>5, <1>7, <2>1, <2>3 DEF Quiet, Refs, Races, Types, TypeOK
  <2>6. last' # last => \A x \in Objects : on'[x] # last
    <3> SUFFICES ASSUME last' # last PROVE \A x \in Objects : on'[x] # last
      OBVIOUS
    <3>1. refcount'[last] = 0
      BY <2>1 DEF Retirable
    <3>2. Count(on', last) + Count(be, last) = 0
      BY <2>3, <2>4, <3>1
    <3>3. DOMAIN on' = Objects /\ IsFiniteSet(DOMAIN on')
      BY <2>1, Finite, ObjectsAssumption DEF Races
    <3>4. Count(on', last) \in Nat
      BY <3>3, CountType
    <3>5. Count(on', last) = 0
      BY <3>2, <3>4, Finite DEF Races
    <3> QED  BY <3>3, <3>5, CountZero
  <2>7. last' # last => \A i \in Purgers : be[i] # last
    <3> SUFFICES ASSUME last' # last PROVE \A i \in Purgers : be[i] # last
      OBVIOUS
    <3>1. refcount'[last] = 0
      BY <2>1 DEF Retirable
    <3>2. Count(on', last) + Count(be, last) = 0
      BY <2>3, <2>4, <3>1
    <3>3. DOMAIN on' = Objects /\ IsFiniteSet(DOMAIN on')
      BY <2>1, Finite, ObjectsAssumption DEF Races
    <3>4. Count(on', last) \in Nat
      BY <3>3, CountType
    <3>5. Count(be, last) = 0
      BY <3>2, <3>4, Finite DEF Races
    <3> QED  BY <3>5, CountZero, Finite DEF Races
  <2>8. last' \in Int /\ last <= last' /\ last' <= last + 1 /\ last' <= first
    BY <2>1, <2>3 DEF Retirable
  <2>9. Counted'
    <3>1. \A x \in Objects : on'[x] # NoBan => on'[x] \in last' .. first
      <4> SUFFICES ASSUME NEW x \in Objects, on'[x] # NoBan PROVE on'[x] \in last' .. first
        OBVIOUS
      <4>1. on'[x] \in last .. first
        BY <2>2 DEF Quiet, Counted
      <4> QED  BY <2>3, <2>6, <2>8, <4>1
    <3>2. \A x \in Objects :
            (\A p \in Testers : ~(pc[p] = "write" /\ obj[p] = x)) => on'[x] = oban'[x]
      BY <2>2 DEF Quiet, Counted
    <3>3. \A p \in Testers : pc[p] = "write" =>
            on'[obj[p]] = IF b[p] = oban'[obj[p]] THEN b0[p] ELSE NoBan
      BY <1>3, <2>2 DEF Quiet, Counted, InTest
    <3>4. \A x \in Objects :
            (st'[x] = "absent" => oban'[x] = NoBan) /\ (st'[x] = "live" => oban'[x] # NoBan)
      BY <1>2, <2>2 DEF Quiet, Counted
    <3>5. pc'[Lurker] # "find" /\ pc' = pc /\ obj' = obj /\ b' = b /\ b0' = b0 /\ first' = first
      BY <1>1, <2>1
    <3> QED  BY <3>1, <3>2, <3>3, <3>4, <3>5 DEF Counted
  <2>10. Testing'
    BY <1>1, <1>3, <2>2 DEF Quiet, Testing, InTest
  <2>11. Refs'
    <3>1. \A x \in last' .. first : refcount'[x] = Count(on', x) + Count(be, x)
      BY <2>3, <2>4, <2>8
    <3>2. \A i \in Purgers : be[i] # NoBan => last' <= be[i]
      <4>1. \A i \in Purgers : be[i] # NoBan => be[i] \in Int /\ last <= be[i]
        BY Numbers DEF Races, Quiet, Refs, Types, TypeOK
      <4> QED  BY <2>3, <2>7, <2>8, <4>1
    <3> QED  BY <1>1, <2>5, <3>1, <3>2 DEF Refs
  <2> QED  BY <1>4, <2>9, <2>10, <2>11 DEF Quiet
<1> QED  BY <1>6, <1>7

\* Moving the object to b0's list keeps Quiet.
LEMMA MoveQuiet ==
  ASSUME Races, Quiet, NEW p \in Testers, Move(p)
  PROVE  Quiet'
<1> DEFINE o == obj[p]
<1>1. /\ pc[p] = "update" /\ pc[Lurker] # "find" /\ Goto(p, "write") /\ "write" \in Pcs
      /\ pc[p] \in InTest /\ UNCHANGED <<first, last, oban, st, obj, b0, b, be>>
  BY DEF Move, BanHeld, Pcs, InTest
<1>2. /\ pc'[p] = "write" /\ p \in Procs /\ \A q \in Testers : q # p => pc'[q] = pc[q]
  BY <1>1, OneMoves, Roles DEF Races
<1>3. /\ o \in Objects /\ st[o] \notin {"absent", "dying"}
      /\ \A q \in Testers : q # p /\ pc[q] \in InTest => obj[q] # o
      /\ on[o] = oban[o] /\ oban[o] \in last .. first
  BY <1>1, InPlace
<1>4. b0[p] \in last .. first /\ first \in Int /\ last \in Int /\ 0 <= last /\ oban[o] \in Int
      /\ b0[p] \in Bans /\ oban[o] \in Bans
  <2>1. /\ b0[p] \in 0 .. first /\ b[p] <= b0[p] /\ b[p] \in Int /\ oban[o] <= b[p]
    <3>1. b[p] \in Bans \cup {NoBan}
      BY <1>2 DEF Races, Types, TypeOK
    <3> QED  BY <1>1, <3>1, Numbers DEF Races, Walkers, Walking, Quiet, Testing, NoBan
  <2> QED  BY <1>3, <2>1, Numbers DEF Races
<1>5. PICK w \in {b0[p], NoBan} :
        /\ w = (IF b[p] = oban[o] THEN b0[p] ELSE NoBan) /\ on' = [on EXCEPT ![o] = w]
  BY DEF Move
<1>6. \A x \in Bans : refcount'[x] = refcount[x] + (IF w = x THEN 1 ELSE 0)
                                                 - (IF oban[o] = x THEN 1 ELSE 0)
  <2>0. PICK old : old = [refcount EXCEPT ![oban[o]] = @ - 1]
    OBVIOUS
  <2>1. /\ old \in [Bans -> Int]
        /\ \A x \in Bans : old[x] = refcount[x] - (IF oban[o] = x THEN 1 ELSE 0)
        /\ refcount \in [Bans -> Int]
    BY <1>4, <2>0 DEF Races, Types, TypeOK
  <2>2. CASE b[p] = oban[o]
    <3>1. refcount' = [old EXCEPT ![b0[p]] = @ + 1] /\ w = b0[p]
      BY <1>5, <2>0, <2>2 DEF Move
    <3> QED  BY <1>4, <2>1, <3>1
  <2>3. CASE b[p] # oban[o]
    <3>1. refcount' = old /\ w = NoBan /\ NoBan \notin Bans
      BY <1>5, <2>0, <2>3, Numbers DEF Move, Races, NoBan
    <3> QED  BY <2>1, <3>1
  <2> QED  BY <2>2, <2>3
<1>7. on'[o] = w /\ \A x \in Objects : x # o => on'[x] = on[x]
  BY <1>3, <1>5 DEF Races, Types, TypeOK
<1>8. \A q \in Testers : pc'[q] \in InTest <=> pc[q] \in InTest
  BY <1>1, <1>2 DEF InTest
<1>9. OneTester' /\ Alive' /\ Testing'
  <2>1. OneTester'
    BY <1>1, <1>8 DEF Quiet, OneTester
  <2>2. \A c \in Clients : pc'[c] = "fetch" => pc[c] = "fetch"
    BY <1>2, Roles
  <2>3. Alive'
    BY <1>1, <1>8, <2>2 DEF Quiet, Alive
  <2>4. \A q \in Testers : pc'[q] \in {"check", "walk", "update"} => pc'[q] = pc[q]
    BY <1>2
  <2>5. Testing'
    BY <1>1, <2>4 DEF Quiet, Testing
  <2> QED  BY <2>1, <2>3, <2>5
<1>10. Counted'
  <2>1. \A x \in Objects : on'[x] # NoBan => on'[x] \in last .. first
    BY <1>4, <1>5, <1>7 DEF Quiet, Counted
  <2>2. ASSUME NEW x \in Objects, \A q \in Testers : ~(pc'[q] = "write" /\ obj[q] = x)
        PROVE  on'[x] = oban[x]
    <3>1. x # o /\ \A q \in Testers : pc[q] = "write" => obj[q] # x
      BY <1>1, <1>2, <2>2
    <3> QED  BY <1>7, <3>1, Place
  <2>3. ASSUME NEW q \in Testers, pc'[q] = "write"
        PROVE  on'[obj[q]] = IF b[q] = oban[obj[q]] THEN b0[q] ELSE NoBan
    <3>1. CASE q = p
      BY <1>5, <1>7, <3>1
    <3>2. CASE q # p
      <4>1. pc[q] = "write" /\ obj[q] # o /\ obj[q] \in Objects
        BY <1>2, <1>3, <2>3, <3>2 DEF InTest, Races, HasObject
      <4> QED  BY <1>7, <4>1 DEF Quiet, Counted
    <3> QED  BY <3>1, <3>2
  <2>4. \A x \in Objects :
          (st[x] = "absent" => oban[x] = NoBan) /\ (st[x] = "live" => oban[x] # NoBan)
    BY DEF Quiet, Counted
  <2>5. pc'[Lurker] # "find"
    BY <1>1, <1>2, Roles
  <2> QED  BY <1>1, <2>1, <2>2, <2>3, <2>4, <2>5 DEF Counted
<1>11. Refs'
  <2> HIDE DEF o
  <2>1. ASSUME NEW x \in last .. first PROVE refcount'[x] = Count(on', x) + Count(be, x)
    <3>1. /\ DOMAIN on' = DOMAIN on /\ o \in DOMAIN on
          /\ \A y \in DOMAIN on \ {o} : on'[y] = on[y]
      BY <1>3, <1>5, <1>7, Finite DEF Races
    <3>2. Count(on', x) = Count(on, x) + (IF w = x THEN 1 ELSE 0)
                                       - (IF oban[o] = x THEN 1 ELSE 0)
      <4>1. Count(on', x) = Count(on, x) + (IF on'[o] = x THEN 1 ELSE 0)
                                         - (IF on[o] = x THEN 1 ELSE 0)
        BY <3>1, CountMove, Finite DEF Races
      <4> QED  BY <1>3, <1>7, <4>1
    <3>3. x \in Bans /\ refcount[x] = Count(on, x) + Count(be, x)
      BY Numbers DEF Quiet, Refs, Races
    <3>4. refcount'[x] = refcount[x] + (IF w = x THEN 1 ELSE 0)
                                     - (IF oban[o] = x THEN 1 ELSE 0)
      BY <1>6, <3>3
    <3> QED  BY <3>2, <3>3, <3>4, Finite DEF Races
  <2>2. ASSUME NEW x \in Bans, x > first PROVE refcount'[x] = 0
    <3>1. x # w /\ x # oban[o] /\ x \in Int
      BY <1>3, <1>4, <1>5, <2>2, Numbers DEF Races, NoBan
    <3>2. refcount[x] = 0
      BY <2>2 DEF Quiet, Refs
    <3> QED  BY <1>6, <3>1, <3>2
  <2> QED  BY <1>1, <2>1, <2>2 DEF Quiet, Refs
<1> QED  BY <1>9, <1>10, <1>11 DEF Quiet

\* The late store to o->ban keeps Quiet.
LEMMA SetBanQuiet ==
  ASSUME Races, Quiet, NEW p \in Testers, SetBan(p)
  PROVE  Quiet'
<1> DEFINE o == obj[p]
<1>1. /\ pc[p] = "write" /\ pc[p] \in InTest
      /\ UNCHANGED <<first, last, refcount, on, obj, b0, b, be>>
  BY DEF SetBan, listVars, InTest
<1>2. PICK where \in {"passed", "banned"} : Goto(p, where)
  BY DEF SetBan
<1>3. /\ pc'[p] = where /\ p \in Procs /\ \A q \in Testers : q # p => pc'[q] = pc[q]
  BY <1>2, OneMoves, Roles DEF Races, Pcs, InTest
<1>4. /\ o \in Objects /\ st[o] \notin {"absent", "dying"}
      /\ \A q \in Testers : q # p /\ pc[q] \in InTest => obj[q] # o
  BY <1>1, InPlace
<1>5. on[o] = IF b[p] = oban[o] THEN b0[p] ELSE NoBan
  BY <1>1 DEF Quiet, Counted
<1>6. /\ oban' = [oban EXCEPT ![o] = on[o]]
      /\ \A x \in Objects : x # o => st'[x] = st[x]
      /\ st'[o] \in {st[o], "dead"} /\ (st[o] = "fetch" => st'[o] = "fetch")
      /\ st'[o] = "live" => on[o] = b0[p]
  <2>1. CASE b[p] = oban[o]
    BY <1>5, <2>1 DEF SetBan
  <2>2. CASE b[p] # oban[o]
    <3>1. oban' = [oban EXCEPT ![o] = NoBan]
          /\ st' = [st EXCEPT ![o] = IF @ = "fetch" THEN @ ELSE "dead"]
      BY <2>2 DEF SetBan
    <3> QED  BY <1>4, <1>5, <2>2, <3>1 DEF Races, Types, TypeOK
  <2> QED  BY <2>1, <2>2
<1>7. oban'[o] = on[o] /\ \A x \in Objects : x # o => oban'[x] = oban[x]
  BY <1>4, <1>6 DEF Races, Types, TypeOK
<1>8. \A q \in Testers : pc'[q] \in InTest <=> pc[q] \in InTest
  BY <1>1, <1>3 DEF InTest
<1>9. OneTester'
  BY <1>1, <1>8 DEF Quiet, OneTester
<1>10. Alive'
  <2>1. \A c \in Clients : pc'[c] = "fetch" => pc[c] = "fetch" /\ obj[c] \in Objects
    BY <1>3, Roles DEF Races, HasObject
  <2>2. \A c \in Clients : pc'[c] = "fetch" => st'[obj[c]] = "fetch"
    BY <1>6, <2>1 DEF Quiet, Alive
  <2>3. \A q \in Testers : pc'[q] \in InTest => st'[obj[q]] \notin {"absent", "dying"}
    BY <1>4, <1>6, <1>8 DEF Quiet, Alive, Races, HasObject
  <2> QED  BY <1>1, <2>1, <2>2, <2>3 DEF Quiet, Alive
<1>11. \A q \in Testers : pc'[q] \in Walking \cup {"check"} =>
         q # p /\ pc[q] = pc'[q] /\ obj[q] # o /\ obj[q] \in Objects
  BY <1>3, <1>4 DEF Walking, InTest, Races, HasObject
<1>12. Testing'
  <2>1. \A q \in Testers : pc'[q] \in {"check", "walk", "update"} =>
          pc[q] = pc'[q] /\ oban'[obj[q]] = oban[obj[q]]
    BY <1>7, <1>11 DEF Walking
  <2> QED  BY <1>1, <2>1 DEF Quiet, Testing
<1>13. Counted'
  <2>1. ASSUME NEW x \in Objects, \A q \in Testers : ~(pc'[q] = "write" /\ obj[q] = x)
        PROVE  on[x] = oban'[x]
    <3>1. CASE x = o
      BY <1>7, <3>1
    <3>2. CASE x # o
      <4>1. \A q \in Testers : pc[q] = "write" => obj[q] # x
        BY <1>3, <2>1, <3>2
      <4> QED  BY <1>7, <3>2, <4>1, Place
    <3> QED  BY <3>1, <3>2
  <2>2. \A q \in Testers : pc'[q] = "write" =>
          on[obj[q]] = IF b[q] = oban'[obj[q]] THEN b0[q] ELSE NoBan
    BY <1>7, <1>11 DEF Quiet, Counted, Walking
  <2>3. ASSUME NEW x \in Objects
        PROVE  (st'[x] = "absent" => oban'[x] = NoBan) /\ (st'[x] = "live" => oban'[x] # NoBan)
    <3>1. CASE x = o
      <4>1. b0[p] # NoBan
        BY <1>1, Numbers DEF Races, Walkers, Walking, NoBan
      <4> QED  BY <1>4, <1>6, <1>7, <3>1, <4>1
    <3>2. CASE x # o
      BY <1>6, <1>7, <3>2 DEF Quiet, Counted
    <3> QED  BY <3>1, <3>2
  <2>4. pc'[Lurker] = "find" => on[obj[Lurker]] = last
    BY <1>3, Roles DEF Quiet, Counted
  <2> QED  BY <1>1, <2>1, <2>2, <2>3, <2>4 DEF Quiet, Counted
<1>14. Refs'
  BY <1>1 DEF Quiet, Refs
<1> QED  BY <1>9, <1>10, <1>12, <1>13, <1>14 DEF Quiet

(***************************************************************************)
(* The invariant and the theorems                                          *)
(***************************************************************************)
LEMMA BanInit == Init => IInv
<1> SUFFICES ASSUME Init PROVE IInv
  OBVIOUS
<1> USE DEF Init
<1>0. 0 \in Bans /\ NoBan = -1 /\ 0 .. 0 = {0} /\ 1 .. 0 = {}
  BY BanBounds DEF Bans, NoBan
<1>1. Types
  <2>1. TypeOK
    BY <1>0, BanBounds DEF TypeOK, Status
  <2> QED  BY <2>1 DEF Types, Pcs
<1>2. \A p \in Procs : pc[p] = "idle"
  OBVIOUS
<1>3. HasObject /\ Walkers
  BY <1>2, Roles DEF HasObject, Walkers, Walking, InTest
<1>4. Known /\ Gone /\ Hunters /\ Pairs /\ Ahead
  BY <1>0, <1>2, Roles DEF Known, Gone, Hunters, Pairs, Ahead
<1>5. OneTester /\ Alive /\ Testing
  BY <1>2, Roles DEF OneTester, Alive, Testing, InTest
<1>6. Counted
  BY <1>0, <1>2, Roles DEF Counted
<1>7. Refs
  <2>1. Count(on, 0) = 0 /\ Count(be, 0) = 0
    <3>1. (\A o \in Objects : on[o] # 0) /\ (\A i \in Purgers : be[i] # 0)
      BY <1>0
    <3> QED  BY <1>1, <3>1, Finite, CountZero
  <2> QED  BY <1>0, <2>1 DEF Refs
<1> QED  BY <1>1, <1>3, <1>4, <1>5, <1>6, <1>7 DEF IInv, Races, Lists, Quiet

\* Races is inductive.
LEMMA RacesNext == Races /\ [Next]_vars => Races'
<1> SUFFICES ASSUME Races, [Next]_vars PROVE Races'
  OBVIOUS
<1>1. CASE UNCHANGED vars
  BY <1>1 DEF vars, listVars, objVars, procVars, history, Races, Types, TypeOK, HasObject,
     Lists, Known, Gone, Hunters, Pairs, Walkers, Ahead, Later, Applies
<1>2. CASE Next
  <2>0. Intact
    BY <1>2 DEF Next
  <2>1. ASSUME NEW i \in Purgers,
               \/ \E t \in Tests : BAN_Insert(i, t)
               \/ HuntDuplicates(i) \/ HuntEnd(i)
               \/ ListRetire(i) \/ ListBegin(i) \/ ListEnd(i)
        PROVE  Races'
    BY <2>1, InsertRaces, HuntRaces, PinRaces, RetireRaces
  <2>2. ASSUME NEW c \in Clients,
               \/ \E o \in Objects : BAN_NewObj(c, o) \/ LookupObject(c, o)
               \/ Unbusy(c)
        PROVE  Races'
    BY <2>2, NewObjRaces, ClientRaces
  <2>3. ASSUME NEW o \in Objects, Expire(o) \/ BAN_DestroyObj(o) PROVE Races'
    BY <2>3, EndRaces
  <2>4. ASSUME NEW p \in Testers, TestStep(p) PROVE Races'
    BY <2>0, <2>4, StartRaces, WalkRaces, MoveRaces, SetBanRaces DEF TestStep
  <2>5. CASE LurkerStep
    BY <2>5, RetireRaces, PokeRaces DEF LurkerStep
  <2> QED  BY <1>2, <2>1, <2>2, <2>3, <2>4, <2>5 DEF Next
<1> QED  BY <1>1, <1>2

\* raced, once set, stays.
LEMMA RacedStays == Types /\ [Next]_vars /\ raced => raced'
BY DEF Next, vars, listVars, objVars, procVars, history, TestStep, LurkerStep,
   BAN_Insert, HuntDuplicates, HuntEnd, ListRetire, ListBegin, ListEnd, BAN_NewObj,
   LookupObject, Unbusy, Expire, BAN_DestroyObj, CheckStart, Walk, Move, SetBan, Return,
   LurkerRetire, LurkerPoke, HSH_FindBan

\* Quiet is kept by every step that races with nobody.
LEMMA QuietNext == Races /\ Quiet /\ [Next]_vars /\ ~raced' => Quiet'
<1> SUFFICES ASSUME Races, Quiet, [Next]_vars, ~raced' PROVE Quiet'
  OBVIOUS
<1>1. CASE UNCHANGED vars
  BY <1>1 DEF vars, listVars, objVars, procVars, Quiet, OneTester, Alive, Counted, Testing, Refs
<1>2. CASE Next
  <2>0. Intact
    BY <1>2 DEF Next
  <2>1. ASSUME NEW i \in Purgers,
               \/ \E t \in Tests : BAN_Insert(i, t)
               \/ HuntDuplicates(i) \/ HuntEnd(i)
               \/ ListRetire(i) \/ ListBegin(i) \/ ListEnd(i)
        PROVE  Quiet'
    BY <2>1, InsertQuiet, PinQuiet, RetireQuiet
  <2>2. ASSUME NEW c \in Clients,
               \/ \E o \in Objects : BAN_NewObj(c, o) \/ LookupObject(c, o)
               \/ Unbusy(c)
        PROVE  Quiet'
    BY <2>0, <2>2, NewObjQuiet, LookupQuiet, UnbusyQuiet
  <2>3. ASSUME NEW o \in Objects, Expire(o) \/ BAN_DestroyObj(o) PROVE Quiet'
    BY <2>3, ExpireQuiet, DestroyQuiet
  <2>4. ASSUME NEW p \in Testers, TestStep(p) PROVE Quiet'
    BY <2>4, WalkQuiet, MoveQuiet, SetBanQuiet DEF TestStep
  <2>5. CASE LurkerStep
    BY <2>5, RetireQuiet, PokeQuiet DEF LurkerStep
  <2> QED  BY <1>2, <2>1, <2>2, <2>3, <2>4, <2>5 DEF Next
<1> QED  BY <1>1, <1>2

\* The inductive invariant: what holds under every race, and what holds until
\* a lookup and the lurker test one object at the same time.
THEOREM Invariance == Spec => []IInv
<1>1. Init => IInv
  BY BanInit
<1>2. IInv /\ [Next]_vars => IInv'
  <2> SUFFICES ASSUME IInv, [Next]_vars PROVE IInv'
    OBVIOUS
  <2>1. Races'
    BY RacesNext DEF IInv
  <2>2. ASSUME ~raced' PROVE Quiet'
    <3>1. ~raced
      BY <2>2, RacedStays DEF IInv, Races
    <3> QED  BY <2>2, <3>1, QuietNext DEF IInv
  <2> QED  BY <2>1, <2>2 DEF IInv
<1> QED  BY <1>1, <1>2, PTL DEF Spec

\* The two halves give the property.
LEMMA BanInvHolds == IInv => BanInv
<1> SUFFICES ASSUME IInv PROVE BanInv
  OBVIOUS
<1>1. Races
  BY DEF IInv
<1>2. BanRefExact
  <2> SUFFICES ASSUME ~raced, NEW x \in last .. first
               PROVE  refcount[x] = Count(on, x)
                        + Cardinality({i \in Purgers : pc[i] \in {"hunt", "list"} /\ be[i] = x})
    BY DEF BanRefExact
  <2>1. refcount[x] = Count(on, x) + Count(be, x)
    BY DEF IInv, Quiet, Refs
  <2>2. x # NoBan
    BY <1>1, Numbers DEF Races, NoBan
  <2>3. Holders(be, x) = {i \in Purgers : pc[i] \in {"hunt", "list"} /\ be[i] = x}
    BY <1>1, <2>2, Finite DEF Holders, Races, Lists, Hunters
  <2> QED  BY <2>1, <2>3 DEF Count
<1>3. WalksStayInside
  <2> SUFFICES ASSUME ~raced
               PROVE  /\ WalkStaysInside
                      /\ \A i \in Purgers : pc[i] = "hunt" => last <= be[i] /\ be[i] <= b[i]
    BY DEF WalksStayInside
  <2>0. Quiet
    BY DEF IInv
  <2>1. ASSUME NEW p \in Testers, pc[p] \in {"walk", "update"}
        PROVE  /\ oban[obj[p]] <= b[p] /\ b[p] <= b0[p]
               /\ last <= oban[obj[p]] /\ b0[p] <= first
    <3>1. oban[obj[p]] \in last .. first
      BY <1>1, <2>0, <2>1, InPlace DEF InTest
    <3> QED  BY <1>1, <2>0, <2>1, <3>1, Numbers DEF Quiet, Testing, Races, Walkers, Walking
  <2>2. ASSUME NEW i \in Purgers, pc[i] = "hunt" PROVE last <= be[i] /\ be[i] <= b[i]
    <3>1. be[i] # NoBan /\ be[i] <= b[i]
      BY <1>1, <2>2, Numbers DEF Races, Lists, Hunters, NoBan
    <3> QED  BY <2>0, <3>1 DEF Quiet, Refs
  <2> QED  BY <2>1, <2>2 DEF WalkStaysInside
<1>4. DuplicatesEliminated
  <2> SUFFICES ASSUME PurgeDups, \A i \in Purgers : pc[i] # "hunt",
                      NEW x \in (last .. first) \ gone, NEW y \in (last .. first) \ gone,
                      test[x] = test[y]
               PROVE  x = y
    BY DEF DuplicatesEliminated
  <2>1. ~(x < y) /\ ~(y < x)
    BY <1>1 DEF Races, Lists, Pairs
  <2>2. x \in Int /\ y \in Int
    BY <1>1, Numbers DEF Races
  <2> QED  BY <2>1, <2>2
<1> QED  BY <1>1, <1>2, <1>3, <1>4 DEF BanInv, Races, Types

\* For any number of clients, purgers, objects and bans: a ban's refcount is the
\* objects on it and the purgers that pin it, walks stay inside the list, and
\* duplicates are eliminated (cache_ban.c).
THEOREM BanTheorem == Spec => []BanInv
BY Invariance, BanInvHolds, PTL

\* For any number of clients, purgers, objects and bans: whatever is retired,
\* eliminated or skipped, and also when a lookup meets the lurker, a ban that
\* matches an object stays ahead of it (cache_ban.c, ban_check_object).
THEOREM BansNotForgottenTheorem == Spec => []BansNotForgotten
<1>1. IInv => BansNotForgotten
  <2> SUFFICES ASSUME IInv, NEW o \in Objects, oban[o] # NoBan, NEW t \in owed[o]
               PROVE  \E x \in oban[o] + 1 .. first : test[x] = t /\ x \notin gone
    BY DEF BansNotForgotten
  <2>1. Races
    BY DEF IInv
  <2>2. PICK y \in oban[o] + 1 .. first : test[y] = t
    BY <2>1 DEF Races, Ahead, Later
  <2>3. CASE y \notin gone
    BY <2>2, <2>3
  <2>4. CASE y \in gone
    <3>1. test[y] # Magic
      BY <2>1, <2>2, TestsAssumption DEF Races, Types
    <3>2. PICK x \in y + 1 .. first : test[x] = test[y] /\ x \notin gone
      BY <2>1, <2>4, <3>1 DEF Races, Lists, Gone
    <3>3. x \in oban[o] + 1 .. first
      BY <2>1, <2>2, <3>2, Numbers DEF Races, Types, TypeOK
    <3> QED  BY <2>2, <3>2, <3>3
  <2> QED  BY <2>3, <2>4
<1> QED  BY <1>1, Invariance, PTL

=============================================================================
