------------------------------ MODULE BanList ------------------------------
(***************************************************************************)
(* cache_ban.c: the list of bans ("purges"), newest first, and the ban up  *)
(* to which each object has been tested, o->ban.                           *)
(*                                                                         *)
(* A lookup tests the object against every newer ban without ban_mtx,      *)
(* walking from ban_start to o->ban; it holds the objhead's mutex all the  *)
(* while.  The ban lurker runs the same test with only a reference on the  *)
(* object.  Whoever adds a ban marks its older duplicates GONE, again      *)
(* without the lock.                                                       *)
(*                                                                         *)
(* Bans are numbered in the order they are added and only the oldest one   *)
(* is ever removed, so that the list is the interval last .. first.  An    *)
(* objhead has one object here; the only mutexes that somebody can be seen *)
(* holding are OhHeld and BanHeld, all else is one critical section.  The  *)
(* loop of ban_check_object reads o->ban anew for every ban, as the calls  *)
(* of bt->func in it require.                                              *)
(***************************************************************************)
EXTENDS RefCount, Integers

CONSTANTS
  Clients,     \* worker threads that look objects up and fetch them
  Purgers,     \* threads that add or list bans: the CLI, or VCL's purge()
  Objects,     \* struct object memory
  Tests,       \* the texts of bans
  ReqTests,    \* those with BAN_F_REQ: they need a request
  Match,       \* Match[t]: the objects all conditions of t are true for
  PurgeDups,   \* params->purge_dups
  MaxPurges,   \* bound: bans added
  MaxLurks     \* bound: objects the lurker tests; 0: ban_lurker_sleep = 0

Lurker == "ban_lurker"
Testers == Clients \cup {Lurker}
Procs == Testers \cup Purgers
Bans == 0 .. MaxPurges
NoBan == -1
Magic == "magic"     \* b->test of ban_magic, equal to no other

ASSUME ClientsAssumption ==
  /\ Lurker \notin Clients \cup Purgers /\ Clients \cap Purgers = {}
  /\ IsFiniteSet(Clients) /\ IsFiniteSet(Purgers)
ASSUME ObjectsAssumption == IsFiniteSet(Objects) /\ None \notin Objects
ASSUME TestsAssumption ==
  Magic \notin Tests /\ ReqTests \subseteq Tests /\ Match \in [Tests -> SUBSET Objects]
ASSUME BanBounds ==
  MaxPurges \in Nat /\ MaxLurks \in Nat /\ PurgeDups \in BOOLEAN

VARIABLES
  first,     \* ban_start, the head of ban_head
  last,      \* its tail
  refcount,  \* b->refcount
  gone,      \* the bans with BAN_F_GONE
  test,      \* b->test
  on,        \* the ban whose objcore list an object is on
  oban,      \* o->ban
  st,        \* of an object: see Status
  pc,        \* where each thread is
  obj,       \* the object a tester works on
  b0,        \* ban_check_object's b0; the ban a purger has added
  b,         \* the ban a tester or a hunter of duplicates looks at
  be,        \* the ban a purger has a reference on
  lurks,     \* objects the lurker may still test
  owed,      \* history: tests added since an object was made that match it
  due,       \* history: those whose BAN_Insert has returned
  stale,     \* history: did a lookup start with such a test due?
  raced      \* history: has a lookup met the lurker on the same object?

listVars == <<first, last, refcount, gone, test>>
objVars == <<on, oban, st>>
procVars == <<pc, obj, b0, b, be, lurks>>
history == <<owed, due, stale, raced>>
vars == <<listVars, objVars, procVars, history>>

(***************************************************************************)
(* "fetch": OC_F_BUSY, being fetched; "live": lookups may find it; "dead": *)
(* banned (ttl and cacheable are 0); "dying": off its objhead, HSH_Deref   *)
(* has still to call BAN_DestroyObj.                                       *)
(***************************************************************************)
Status == {"absent", "fetch", "live", "dead", "dying"}
InTest == {"check", "walk", "update", "write", "passed", "banned"}

\* The mutexes somebody is seen holding, and the lurker's object reference.
OhHeld(o) == \E c \in Clients : pc[c] \in InTest /\ obj[c] = o
BanHeld == pc[Lurker] = "find"
LurkerHas(o) == pc[Lurker] \in InTest /\ obj[Lurker] = o

Init ==
  /\ first = 0 /\ last = 0
  /\ refcount = [x \in Bans |-> 0]
  /\ gone = {0}
  /\ test = [x \in Bans |-> Magic]
  /\ on = [o \in Objects |-> NoBan]
  /\ oban = [o \in Objects |-> NoBan]
  /\ st = [o \in Objects |-> "absent"]
  /\ pc = [p \in Procs |-> "idle"]
  /\ obj = [p \in Testers |-> None]
  /\ b0 = [p \in Procs |-> NoBan]
  /\ b = [p \in Procs |-> NoBan]
  /\ be = [p \in Purgers |-> NoBan]
  /\ lurks = MaxLurks
  /\ owed = [o \in Objects |-> {}]
  /\ due = [o \in Objects |-> {}]
  /\ stale = [c \in Clients |-> FALSE]
  /\ raced = FALSE
-----------------------------------------------------------------------------
(* Adding, listing and retiring bans. *)

\* BAN_CheckLast: the oldest ban goes when nobody refers to it.
Retirable(refs) == last # first /\ refs[last] = 0

Goto(p, where) == pc' = [pc EXCEPT ![p] = where]

Owe(f, t) == [o \in Objects |-> IF st[o] # "absent" /\ o \in Match[t]
                                THEN f[o] \cup {t} ELSE f[o]]

\* Mutated form: the hunt holds no reference on the oldest ban.
BAN_Insert_unpinned(i, t) ==
  /\ pc[i] = "idle" /\ ~BanHeld /\ first < MaxPurges
  /\ first' = first + 1
  /\ test' = [test EXCEPT ![first'] = t]
  /\ owed' = Owe(owed, t)
  /\ be' = [be EXCEPT ![i] = last]
  /\ b0' = [b0 EXCEPT ![i] = first']
  /\ b' = [b EXCEPT ![i] = first']
  /\ Goto(i, "hunt")
  /\ UNCHANGED <<refcount, due, last, gone, objVars, obj, lurks, stale, raced>>

\* BAN_Insert up to the first unlock.  Without purge_dups that is all.
BAN_Insert(i, t) ==
  /\ pc[i] = "idle" /\ ~BanHeld /\ first < MaxPurges
  /\ first' = first + 1
  /\ test' = [test EXCEPT ![first'] = t]
  /\ owed' = Owe(owed, t)
  /\ IF PurgeDups
     THEN /\ refcount' = [refcount EXCEPT ![last] = @ + 1]
          /\ be' = [be EXCEPT ![i] = last]
          /\ b0' = [b0 EXCEPT ![i] = first']
          /\ b' = [b EXCEPT ![i] = first']
          /\ Goto(i, "hunt")
          /\ UNCHANGED due
     ELSE due' = Owe(due, t) /\ UNCHANGED <<refcount, be, b0, b, pc>>
  /\ UNCHANGED <<last, gone, objVars, obj, lurks, stale, raced>>

\* One round of the loop that marks duplicates, from b to be.
HuntDuplicates(i) ==
  /\ pc[i] = "hunt" /\ b[i] # be[i]
  /\ b' = [b EXCEPT ![i] = @ - 1]
  /\ gone' = gone \cup {x \in {b[i] - 1} : test[x] = test[b0[i]]}
  /\ UNCHANGED <<first, last, refcount, test, objVars, pc, obj, b0, be, lurks, history>>

\* The end of BAN_Insert: the ban is in force.
HuntEnd(i) ==
  /\ pc[i] = "hunt" /\ b[i] = be[i] /\ ~BanHeld
  /\ refcount' = [refcount EXCEPT ![be[i]] = @ - 1]
  /\ due' = [o \in Objects |-> due[o] \cup (owed[o] \cap {test[b0[i]]})]
  /\ Goto(i, "idle")
  /\ b0' = [b0 EXCEPT ![i] = NoBan]
  /\ b' = [b EXCEPT ![i] = NoBan]
  /\ be' = [be EXCEPT ![i] = NoBan]
  /\ UNCHANGED <<first, last, gone, test, objVars, obj, lurks, owed, stale, raced>>

\* ccf_purge_list: retire what can be retired, pin the oldest ban, print.
ListRetire(i) ==
  /\ pc[i] = "idle" /\ ~BanHeld /\ Retirable(refcount)
  /\ last' = last + 1
  /\ UNCHANGED <<first, refcount, gone, test, objVars, procVars, history>>

ListBegin(i) ==
  /\ pc[i] = "idle" /\ ~BanHeld /\ ~Retirable(refcount)
  /\ refcount' = [refcount EXCEPT ![last] = @ + 1]
  /\ be' = [be EXCEPT ![i] = last]
  /\ Goto(i, "list")
  /\ UNCHANGED <<first, last, gone, test, objVars, obj, b0, b, lurks, history>>

ListEnd(i) ==
  /\ pc[i] = "list" /\ ~BanHeld
  /\ refcount' = [refcount EXCEPT ![be[i]] = @ - 1]
  /\ be' = [be EXCEPT ![i] = NoBan]
  /\ Goto(i, "idle")
  /\ UNCHANGED <<first, last, gone, test, objVars, obj, b0, b, lurks, history>>
-----------------------------------------------------------------------------
(* The life of an object. *)

\* cnt_fetch: a new object is up to date with the newest ban.
BAN_NewObj(c, o) ==
  /\ pc[c] = "idle" /\ st[o] = "absent" /\ ~BanHeld
  /\ st' = [st EXCEPT ![o] = "fetch"]
  /\ oban' = [oban EXCEPT ![o] = first]
  /\ on' = [on EXCEPT ![o] = first]
  /\ refcount' = [refcount EXCEPT ![first] = @ + 1]
  /\ obj' = [obj EXCEPT ![c] = o]
  /\ Goto(c, "fetch")
  /\ UNCHANGED <<first, last, gone, test, b0, b, be, lurks, history>>

\* HSH_Unbusy, which asserts AN(o->ban).  Banned meanwhile, it stays so.
Unbusy(c) ==
  /\ pc[c] = "fetch"
  /\ st' = [st EXCEPT ![obj[c]] = "live"]
  /\ obj' = [obj EXCEPT ![c] = None]
  /\ Goto(c, "idle")
  /\ UNCHANGED <<listVars, on, oban, b0, b, be, lurks, history>>

\* HSH_Deref of the last reference: off the objhead first ...
Expire(o) ==
  /\ st[o] \in {"live", "dead"} /\ ~OhHeld(o) /\ ~LurkerHas(o)
  /\ st' = [st EXCEPT ![o] = "dying"]
  /\ UNCHANGED <<listVars, on, oban, procVars, history>>

\* ... then off the ban, which may let the oldest ban go.
BAN_DestroyObj(o) ==
  /\ st[o] = "dying"
  /\ st' = [st EXCEPT ![o] = "absent"]
  /\ IF oban[o] = NoBan
     THEN UNCHANGED <<refcount, on, oban, last>>
     ELSE /\ ~BanHeld
          /\ refcount' = [refcount EXCEPT ![oban[o]] = @ - 1]
          /\ on' = [on EXCEPT ![o] = NoBan]
          /\ oban' = [oban EXCEPT ![o] = NoBan]
          /\ last' = IF Retirable(refcount') THEN last + 1 ELSE last
  /\ owed' = [owed EXCEPT ![o] = {}]
  /\ due' = [due EXCEPT ![o] = {}]
  /\ UNCHANGED <<first, gone, test, procVars, stale, raced>>
-----------------------------------------------------------------------------
(* Testing an object: ban_check_object, step by step. *)

\* HSH_Lookup comes to an object that is neither busy nor killed.
LookupObject(c, o) ==
  /\ pc[c] = "idle" /\ st[o] = "live" /\ ~OhHeld(o)
  /\ obj' = [obj EXCEPT ![c] = o]
  /\ stale' = [stale EXCEPT ![c] = due[o] # {}]
  /\ raced' = (raced \/ LurkerHas(o))
  /\ Goto(c, "check")
  /\ UNCHANGED <<listVars, objVars, b0, b, be, lurks, owed, due>>

CheckStart(p) ==
  /\ pc[p] = "check"
  /\ b0' = [b0 EXCEPT ![p] = first]
  /\ b' = [b EXCEPT ![p] = first]
  /\ Goto(p, IF first = oban[obj[p]] THEN "passed" ELSE "walk")
  /\ UNCHANGED <<listVars, objVars, obj, be, lurks, history>>

\* VTAILQ_NEXT
NextBan(x) == IF x = last THEN NoBan ELSE x - 1

CantTest(p, x) == p = Lurker /\ test[x] \in ReqTests

Applies(x, o) == test[x] # Magic /\ o \in Match[test[x]]

\* One round of the loop: the ban b is gone, cannot be tested without a
\* request, matches, or does not.
Walk(p) ==
  LET x == b[p]
      o == obj[p]
  IN  /\ pc[p] = "walk"
      /\ \/ x = oban[o] /\ Goto(p, "update") /\ UNCHANGED b
         \/ /\ x # oban[o]
            /\ \/ /\ x \in gone \/ (~CantTest(p, x) /\ ~Applies(x, o))
                  /\ b' = [b EXCEPT ![p] = NextBan(x)] /\ UNCHANGED pc
               \/ x \notin gone /\ CantTest(p, x) /\ Goto(p, "passed") /\ UNCHANGED b
               \/ /\ x \notin gone /\ ~CantTest(p, x) /\ Applies(x, o)
                  /\ Goto(p, "update") /\ UNCHANGED b
      /\ UNCHANGED <<listVars, objVars, obj, b0, be, lurks, history>>

\* Under ban_mtx the object moves to the list of b0, or to none if banned.
Move(p) ==
  LET o == obj[p]
      old == [refcount EXCEPT ![oban[o]] = @ - 1]
  IN  /\ pc[p] = "update" /\ ~BanHeld
      /\ IF b[p] = oban[o]
         THEN /\ refcount' = [old EXCEPT ![b0[p]] = @ + 1]
              /\ on' = [on EXCEPT ![o] = b0[p]]
         ELSE refcount' = old /\ on' = [on EXCEPT ![o] = NoBan]
      /\ Goto(p, "write")
      /\ UNCHANGED <<first, last, gone, test, oban, st, obj, b0, b, be, lurks, history>>

\* Mutated form: the object is marked with the newest ban there is now.
SetBan_newest(p) ==
  LET o == obj[p] IN
  /\ pc[p] = "write"
  /\ IF b[p] = oban[o]
     THEN oban' = [oban EXCEPT ![o] = first] /\ Goto(p, "passed") /\ UNCHANGED st
     ELSE /\ oban' = [oban EXCEPT ![o] = NoBan]
          /\ st' = [st EXCEPT ![o] = IF @ = "fetch" THEN @ ELSE "dead"]
          /\ Goto(p, "banned")
  /\ UNCHANGED <<listVars, on, obj, b0, b, be, lurks, history>>

\* After the unlock: o->ban, or ttl = cacheable = 0 and no ban at all.
SetBan(p) ==
  LET o == obj[p] IN
  /\ pc[p] = "write"
  /\ IF b[p] = oban[o]
     THEN oban' = [oban EXCEPT ![o] = b0[p]] /\ Goto(p, "passed") /\ UNCHANGED st
     ELSE /\ oban' = [oban EXCEPT ![o] = NoBan]
          /\ st' = [st EXCEPT ![o] = IF @ = "fetch" THEN @ ELSE "dead"]
          /\ Goto(p, "banned")
  /\ UNCHANGED <<listVars, on, obj, b0, b, be, lurks, history>>

\* HSH_Lookup uses the object or looks for another one, and unlocks the
\* objhead; the lurker calls HSH_Deref.
Return(p) ==
  /\ pc[p] \in {"passed", "banned"}
  /\ Goto(p, "idle")
  /\ obj' = [obj EXCEPT ![p] = None]
  /\ b0' = [b0 EXCEPT ![p] = NoBan]
  /\ b' = [b EXCEPT ![p] = NoBan]
  /\ stale' = [c \in Clients |-> c # p /\ stale[c]]
  /\ UNCHANGED <<listVars, objVars, be, lurks, owed, due, raced>>
-----------------------------------------------------------------------------
(* ban_lurker *)

LurkerRetire ==
  /\ pc[Lurker] = "idle" /\ lurks > 0 /\ Retirable(refcount)
  /\ last' = last + 1
  /\ UNCHANGED <<first, refcount, gone, test, objVars, procVars, history>>

\* Poke an object on the oldest ban; ban_mtx stays locked.
LurkerPoke(o) ==
  /\ pc[Lurker] = "idle" /\ lurks > 0 /\ ~Retirable(refcount)
  /\ last # first /\ on[o] = last
  /\ lurks' = lurks - 1
  /\ obj' = [obj EXCEPT ![Lurker] = o]
  /\ Goto(Lurker, "find")
  /\ UNCHANGED <<listVars, objVars, b0, b, be, history>>

\* HSH_FindBan takes the objhead's mutex and a reference, unless the object is
\* on its way out; then ban_mtx is released.
HSH_FindBan ==
  LET o == obj[Lurker] IN
  /\ pc[Lurker] = "find" /\ ~OhHeld(o)
  /\ IF st[o] = "dying"
     THEN Goto(Lurker, "idle") /\ obj' = [obj EXCEPT ![Lurker] = None]
     ELSE Goto(Lurker, "check") /\ UNCHANGED obj
  /\ UNCHANGED <<listVars, objVars, b0, b, be, lurks, history>>
-----------------------------------------------------------------------------
\* Nobody follows a null or dangling ban, HSH_Unbusy finds AN(o->ban), and
\* the bans that BAN_Free gets have AZ(b->refcount) and an empty objcore list:
\* otherwise the process is lost.
Intact ==
  /\ \A p \in Testers :
       /\ pc[p] \in {"check", "walk", "update"} => oban[obj[p]] # NoBan
       /\ pc[p] = "walk" => b[p] \in last .. first
  /\ \A c \in Clients : pc[c] = "fetch" => oban[obj[c]] # NoBan
  /\ \A o \in Objects : on[o] # NoBan => on[o] >= last
  /\ \A x \in last .. first : refcount[x] >= 0

TestStep(p) == CheckStart(p) \/ Walk(p) \/ Move(p) \/ SetBan(p) \/ Return(p)
LurkerStep == LurkerRetire \/ HSH_FindBan \/ \E o \in Objects : LurkerPoke(o)

Next ==
  /\ Intact
  /\ \/ \E i \in Purgers : \/ \E t \in Tests : BAN_Insert(i, t)
                           \/ HuntDuplicates(i) \/ HuntEnd(i)
                           \/ ListRetire(i) \/ ListBegin(i) \/ ListEnd(i)
     \/ \E c \in Clients : \/ \E o \in Objects : BAN_NewObj(c, o) \/ LookupObject(c, o)
                           \/ Unbusy(c)
     \/ \E o \in Objects : Expire(o) \/ BAN_DestroyObj(o)
     \/ \E p \in Testers : TestStep(p)
     \/ LurkerStep

Spec == Init /\ [][Next]_vars
-----------------------------------------------------------------------------
(* Properties. *)

\* Every field holds a value of its type, and the list is never empty.
TypeOK ==
  /\ first \in Bans /\ last \in 0 .. first
  /\ refcount \in [Bans -> Int]
  /\ gone \subseteq Bans
  /\ test \in [Bans -> Tests \cup {Magic}]
  /\ on \in [Objects -> Bans \cup {NoBan}]
  /\ oban \in [Objects -> Bans \cup {NoBan}]
  /\ st \in [Objects -> Status]
  /\ obj \in [Testers -> Objects \cup {None}]
  /\ b0 \in [Procs -> Bans \cup {NoBan}]
  /\ b \in [Procs -> Bans \cup {NoBan}]
  /\ be \in [Purgers -> Bans \cup {NoBan}]
  /\ lurks \in 0 .. MaxLurks

\* A ban's refcount is exactly the objects on it plus the purgers that pin it,
\* unless a lookup and the lurker have tested one object at the same time.
\* Too low retires it under its users, too high keeps the list for ever.
BanRefExact ==
  ~raced => \A x \in last .. first :
    refcount[x] = Count(on, x)
                  + Cardinality({i \in Purgers : pc[i] \in {"hunt", "list"} /\ be[i] = x})

\* ban_check_object: "we know we hold a refcount on a ban somewhere in the list
\* and we do not inspect the list past that ban".
WalkStaysInside ==
  \A p \in Testers : pc[p] \in {"walk", "update"} =>
    /\ oban[obj[p]] <= b[p] /\ b[p] <= b0[p]
    /\ last <= oban[obj[p]] /\ b0[p] <= first

\* The same, as long as a lookup and the lurker do not test one object at a
\* time; and neither does a hunt for duplicates leave the list.
WalksStayInside ==
  ~raced =>
  /\ WalkStaysInside
  /\ \A i \in Purgers : pc[i] = "hunt" => last <= be[i] /\ be[i] <= b[i]

\* No ban is forgotten: if a ban that matches an object was added after the
\* object was made, a ban with that text that is not GONE is still ahead of
\* the object, whatever is retired, eliminated as a duplicate or skipped by a
\* walk; so a later lookup will find it.
BansNotForgotten ==
  \A o \in Objects : st[o] = "live" /\ oban[o] # NoBan =>
    \A t \in owed[o] :
      \E x \in oban[o] + 1 .. first : test[x] = t /\ x \notin gone

\* mgt_param.c on purge_dups: "Detect and eliminate duplicate purges": when
\* every BAN_Insert has returned, at most one ban of each text is not GONE,
\* also after several of them hunted at the same time.
DuplicatesEliminated ==
  PurgeDups /\ (\A i \in Purgers : pc[i] # "hunt") =>
    \A x, y \in (last .. first) \ gone : test[x] = test[y] => x = y

\* The ban list through every race of BAN_Insert, BAN_CheckObject, BAN_DestroyObj
\* and the lurker: counters exact, walks inside the list, duplicates eliminated.
BanInv == TypeOK /\ BanRefExact /\ WalksStayInside /\ DuplicatesEliminated

\* include/cli.h on purge: "All objects where the all the conditions match will
\* be marked obsolete": no lookup that starts after a purge has returned
\* delivers an object the purge matches.
NoStaleDelivery == \A c \in Clients : pc[c] = "passed" => ~stale[c]
=============================================================================
