---------------------------- MODULE ObjectCache ----------------------------
(***************************************************************************)
(* The object cache: objheads, objcores, their reference counters, the     *)
(* waiting lists of sessions parked on a busy object, and the expiry and   *)
(* LRU machinery that owns one reference of every cached object.           *)
(*                                                                         *)
(* Sources: cache_hash.c, cache_expire.c, the lookup, hit, miss, fetch and *)
(* deliver states of cache_center.c, and the calls into the hash made by   *)
(* ban_lurker (cache_ban.c) and smp_load_seg (storage_persistent.c).       *)
(*                                                                         *)
(* One action is one critical section (objhead mutex, exp_mtx, or the lock *)
(* inside the hash implementation).  What a thread does between two        *)
(* critical sections is private to it and is part of the action before.    *)
(*                                                                         *)
(* Abstractions.  An objhead is identified with its key (digest): ohRef[k] *)
(* = 0 says the table holds no objhead for k.  The outcome of the Vary,    *)
(* TTL, grace, backend-health and ban tests of HSH_Lookup is chosen        *)
(* freely, as is the moment a timer fires and the object the LRU list      *)
(* offers: the lookup may reject any object and accept any one that is     *)
(* neither busy nor killed.  The order of the objcs list decides only      *)
(* which of several acceptable objects is used, so objcs is a set.         *)
(***************************************************************************)
EXTENDS RefCount, Sequences

CONSTANTS
  Sess,           \* client sessions (struct sess)
  Keys,           \* digests
  Cores,          \* objcore memory
  RushExponent,   \* params->rush_exponent
  MaxLookups,     \* bound: lookups each session may start
  QueueMayRefuse, \* may WRK_Queue refuse a session (overflow queue full)?
  Silo            \* is there a -spersistent silo with objects to load?

Timer  == "exp_timer"
Lurker == "ban_lurker"
Loader == "smp_thread"
Threads == {Timer, Lurker, Loader}
Procs == Sess \cup Threads

ASSUME SessAssumption == Sess \cap Threads = {} /\ IsFiniteSet(Sess)
ASSUME CoresAssumption == None \notin Cores /\ IsFiniteSet(Cores)
ASSUME KeysAssumption == None \notin Keys
ASSUME RushAssumption == RushExponent \in Nat \ {0}
ASSUME BoundAssumption == MaxLookups \in Nat
ASSUME SwitchAssumption == QueueMayRefuse \in BOOLEAN /\ Silo \in BOOLEAN

VARIABLES
  ohRef,     \* objhead refcnt; 0: no objhead in the hash
  waiting,   \* objhead waitinglist, head first
  hd,        \* oc->objhead of an objcore hung from objcs; None: free memory
  ocRef,     \* objcore refcnt
  status,    \* what flags, obj and ttl of an objcore say; see Status
  silo,      \* objcores that live on a segment's LRU list, not stv->lru
  timer,     \* objcores on the binheap (and, with it, on an LRU list)
  pc,        \* where each session or thread is
  left,      \* lookups a session may still start
  oh,        \* the objhead reference a session carries (sp->objhead, local oh)
  oc,        \* the objcore reference a thread uses the object through
  xr,        \* an objcore reference on its way to or from the binheap
  drop       \* an objhead whose hash->deref is still to be called

headVars == <<ohRef, waiting>>
coreVars == <<hd, ocRef, status, silo, timer>>
procVars == <<pc, left, oh, oc, xr, drop>>
vars == <<headVars, coreVars, procVars>>

(***************************************************************************)
(* "busy": OC_F_BUSY and no object yet; "fetch": OC_F_BUSY with an object; *)
(* "ready": a usable object; "dead": HSH_Drop set ttl and cacheable to 0;  *)
(* "vampire": OC_F_PERSISTENT, loaded from a silo and not yet fixed up.    *)
(***************************************************************************)
Status == {"free", "busy", "fetch", "ready", "dead", "vampire"}

SessPC == {"idle", "scan", "queued", "spin", "parked", "hitref",
           "miss", "fetch", "insert", "unbusy", "dropped", "deliver"}
ThreadPC == {"idle", "popped", "kill", "killcore", "checked", "insert",
             "inject"}

Busy(c) == status[c] \in {"busy", "fetch"}

\* The objects hung from the objhead of k.
objcs(k) == {c \in Cores : hd[c] = k}

Free == {c \in Cores : hd[c] = None}

\* A thread whose last critical section left nothing to finish first.
Settled(p) == drop[p] = None

Init ==
  /\ ohRef = [k \in Keys |-> 0]
  /\ waiting = [k \in Keys |-> <<>>]
  /\ hd = [c \in Cores |-> None]
  /\ ocRef = [c \in Cores |-> 0]
  /\ status = [c \in Cores |-> "free"]
  /\ silo = {}
  /\ timer = {}
  /\ pc = [p \in Procs |-> "idle"]
  /\ left = [s \in Sess |-> MaxLookups]
  /\ oh = [p \in Procs |-> None]
  /\ oc = [p \in Procs |-> None]
  /\ xr = [p \in Procs |-> None]
  /\ drop = [p \in Procs |-> None]

-----------------------------------------------------------------------------
(***************************************************************************)
(* hsh_rush, always called with the objhead mutex held by p, which goes on *)
(* to `to`.  The first RushExponent sessions of the waiting list are       *)
(* handed to WRK_QueueSession.  If one is refused it is closed and deleted *)
(* there and then, and the loop stops with the rest still parked.          *)
(***************************************************************************)
RushLimit(k) == IF Len(waiting[k]) < RushExponent THEN Len(waiting[k])
                                                  ELSE RushExponent

First(k, n) == {waiting[k][i] : i \in 1..n}

\* Mutated form: hsh_rush wakes nobody.
hsh_rush_asleep(k, p, to) == /\ pc' = [pc EXCEPT ![p] = to]
                             /\ UNCHANGED <<waiting, oh>>

\* Mutated form: hsh_rush forgets to unlink the sessions it queues.
hsh_rush_linked(k, p, to) ==
  /\ pc' = [q \in Procs |-> CASE q = p -> to
                              [] q # p /\ q \in First(k, RushLimit(k)) -> "queued"
                              [] OTHER -> pc[q]]
  /\ UNCHANGED <<waiting, oh>>

hsh_rush(k, p, to) ==
  \E n \in 0..RushLimit(k), refused \in {0, 1} :
    /\ refused = 1 => QueueMayRefuse /\ n < RushLimit(k)
    /\ refused = 0 => n = RushLimit(k)
    /\ waiting' = [waiting EXCEPT
                     ![k] = SubSeq(@, n + refused + 1, Len(@))]
    /\ LET gone == First(k, n + refused) \ First(k, n)
       IN  /\ pc' = [q \in Procs |-> CASE q = p -> to
                                       [] q # p /\ q \in First(k, n) -> "queued"
                                       [] q # p /\ q \in gone -> "idle"
                                       [] OTHER -> pc[q]]
           /\ oh' = [q \in Procs |-> IF q \in gone THEN None ELSE oh[q]]

\* No session is woken: p alone moves.
Goto(p, to) == pc' = [pc EXCEPT ![p] = to]

-----------------------------------------------------------------------------
(***************************************************************************)
(* Freeing: FREE_OBJ(oc) is private to the thread that unlinked oc; the    *)
(* reference oc held on its objhead becomes that thread's, to be given up  *)
(* by the hash->deref that follows.                                        *)
(***************************************************************************)
FreeCore(c, p) ==
  /\ hd' = [hd EXCEPT ![c] = None]
  /\ ocRef' = [ocRef EXCEPT ![c] = 0]
  /\ status' = [status EXCEPT ![c] = "free"]
  /\ silo' = silo \ {c}
  /\ drop' = [drop EXCEPT ![p] = hd[c]]

\* HSH_Deref up to the unlock (and, on the last reference, the freeing).
DropCoreRef(c, p) ==
  IF ocRef[c] = 1
  THEN FreeCore(c, p)
  ELSE /\ ocRef' = [ocRef EXCEPT ![c] = @ - 1]
       /\ UNCHANGED <<hd, status, silo, drop>>

\* hash->deref(oh) and, when it returned 0, HSH_DeleteObjHead.
HashDeref(p) ==
  /\ drop[p] # None
  /\ ohRef' = [ohRef EXCEPT ![drop[p]] = @ - 1]
  /\ drop' = [drop EXCEPT ![p] = None]
  /\ UNCHANGED <<waiting, coreVars, pc, left, oh, oc, xr>>

-----------------------------------------------------------------------------
(* Sessions: from the lookup to the last HSH_Deref. *)

\* cnt_recv / cnt_error / cnt_hit "restart": a lookup of some key begins.
\* hash->lookup returns the objhead with a reference held, creating it from
\* the preallocated one when there is none.
HashLookup(s) ==
  \E k \in Keys :
    /\ pc[s] = "idle" /\ Settled(s) /\ left[s] > 0
    /\ left' = [left EXCEPT ![s] = @ - 1]
    /\ ohRef' = [ohRef EXCEPT ![k] = @ + 1]
    /\ oh' = [oh EXCEPT ![s] = k]
    /\ Goto(s, "scan")
    /\ UNCHANGED <<waiting, coreVars, oc, xr, drop>>

\* HSH_Lookup takes the mutex straight away when the session brings an
\* objhead: new, off the waiting list, or (ESI include) after its usleep.
InLookup(s) == pc[s] \in {"scan", "queued", "spin"}

\* SMP_Fixup of the objcores in fix, as the scan passes them.
SMP_Fixup(fix) == status' = [c \in Cores |-> IF c \in fix THEN "ready"
                                                          ELSE status[c]]

Vampires(k) == {c \in objcs(k) : status[c] = "vampire"}

\* An object is live, or in grace with a busy object or a sick backend.
LookupHit(s) ==
  \E c \in objcs(oh[s]), also \in SUBSET Vampires(oh[s]) :
    /\ InLookup(s) /\ oh[s] # None
    /\ status[c] \in {"ready", "vampire"}
    /\ SMP_Fixup(also \cup ({c} \cap Vampires(oh[s])))
    /\ ocRef' = [ocRef EXCEPT ![c] = @ + 1]
    /\ oc' = [oc EXCEPT ![s] = c]
    /\ Goto(s, "hitref")
    /\ UNCHANGED <<headVars, hd, silo, timer, left, oh, xr, drop>>

\* Nothing usable but somebody is fetching: join the waiting list, or, for
\* an ESI include (sp->esis > 0), come back here after a short sleep.
LookupBusy(s, esi) ==
  /\ InLookup(s) /\ oh[s] # None
  /\ \E c \in objcs(oh[s]) : Busy(c)
  /\ SMP_Fixup(Vampires(oh[s]))
  /\ waiting' = IF esi THEN waiting
                ELSE [waiting EXCEPT ![oh[s]] = Append(@, s)]
  /\ Goto(s, IF esi THEN "spin" ELSE "parked")
  /\ UNCHANGED <<ohRef, hd, ocRef, silo, timer, left, oh, oc, xr, drop>>

\* Mutated form: another session's busy objcore is not looked for.
LookupMiss_eager(s) ==
  \E c \in Free :
    /\ InLookup(s) /\ oh[s] # None
    /\ hd' = [hd EXCEPT ![c] = oh[s]]
    /\ ocRef' = [ocRef EXCEPT ![c] = 1]
    /\ status' = [status EXCEPT ![c] = "busy"]
    /\ oc' = [oc EXCEPT ![s] = c]
    /\ oh' = [oh EXCEPT ![s] = None]
    /\ Goto(s, "miss")
    /\ UNCHANGED <<headVars, silo, timer, left, xr, drop>>

\* Nothing usable and nobody fetching: hang the preallocated busy objcore on
\* the objhead; it inherits our objhead reference.
LookupMiss(s) ==
  \E c \in Free :
    /\ InLookup(s) /\ oh[s] # None
    /\ ~ \E b \in objcs(oh[s]) : Busy(b)
    /\ hd' = [hd EXCEPT ![c] = oh[s]]
    /\ ocRef' = [ocRef EXCEPT ![c] = 1]
    /\ status' = [d \in Cores |-> CASE d = c -> "busy"
                                    [] d # c /\ d \in Vampires(oh[s]) -> "ready"
                                    [] OTHER -> status[d]]
    /\ oc' = [oc EXCEPT ![s] = c]
    /\ oh' = [oh EXCEPT ![s] = None]
    /\ Goto(s, "miss")
    /\ UNCHANGED <<headVars, silo, timer, left, xr, drop>>

\* Mutated form: the hash->deref of a hit is missing.
HitDeref_leak(s) ==
  /\ pc[s] = "hitref"
  /\ oh' = [oh EXCEPT ![s] = None]
  /\ Goto(s, "deliver")
  /\ UNCHANGED <<headVars, coreVars, left, oc, xr, drop>>

\* The hash->deref of a hit; the code asserts it does not free the objhead.
HitDeref(s) ==
  /\ pc[s] = "hitref"
  /\ ohRef' = [ohRef EXCEPT ![oh[s]] = @ - 1]
  /\ oh' = [oh EXCEPT ![s] = None]
  /\ Goto(s, "deliver")
  /\ UNCHANGED <<waiting, coreVars, left, oc, xr, drop>>

\* vcl_miss says error or pass, FetchHdr fails, or the response is not
\* cacheable: HSH_DerefObjCore lets go of the busy objcore.
DerefObjCore(s) ==
  LET c == oc[s]
  IN  /\ pc[s] = "miss" /\ Settled(s) /\ xr[s] = None
      /\ FreeCore(c, s)
      /\ hsh_rush(hd[c], s, "idle")
      /\ oc' = [oc EXCEPT ![s] = None]
      /\ UNCHANGED <<ohRef, timer, left, xr>>

\* STV_NewObject got its storage; the object is tied to the objcore.
NewObject(s) ==
  /\ pc[s] = "miss" /\ Settled(s) /\ xr[s] = None
  /\ status' = [status EXCEPT ![oc[s]] = "fetch"]
  /\ Goto(s, "fetch")
  /\ UNCHANGED <<headVars, hd, ocRef, silo, timer, left, oh, oc, xr, drop>>

\* STV_alloc, for the object or for its body, found no room: EXP_NukeOne
\* takes an unused object off the LRU list and the binheap (exp_mtx held,
\* refcnt read without the objhead mutex) and will drop its reference.
EXP_NukeOne(s) ==
  \E c \in timer \ silo :
    /\ pc[s] \in {"miss", "fetch"} /\ Settled(s) /\ xr[s] = None
    /\ ocRef[c] = 1
    /\ timer' = timer \ {c}
    /\ xr' = [xr EXCEPT ![s] = c]
    /\ UNCHANGED <<headVars, hd, ocRef, status, silo, pc, left, oh, oc, drop>>

\* The HSH_Deref at the end of EXP_NukeOne.
NukeDeref(s) ==
  LET c == xr[s]
  IN  /\ pc[s] \in {"miss", "fetch"} /\ xr[s] # None
      /\ DropCoreRef(c, s)
      /\ hsh_rush(hd[c], s, pc[s])
      /\ xr' = [xr EXCEPT ![s] = None]
      /\ UNCHANGED <<ohRef, timer, left, oc>>

\* The fetch failed, or vcl_fetch says error or restart: HSH_Drop kills the
\* object and unbusies it; its HSH_Deref is DeliverDeref.
HSH_Drop(s) ==
  /\ pc[s] = "fetch" /\ Settled(s) /\ xr[s] = None
  /\ status' = [status EXCEPT ![oc[s]] = "dead"]
  /\ hsh_rush(hd[oc[s]], s, "dropped")
  /\ UNCHANGED <<ohRef, hd, ocRef, silo, timer, left, oc, xr, drop>>

\* Mutated form: EXP_Insert without HSH_Ref.
HSH_Ref_missing(s) ==
  /\ pc[s] = "fetch" /\ Settled(s) /\ xr[s] = None
  /\ xr' = [xr EXCEPT ![s] = oc[s]]
  /\ Goto(s, "insert")
  /\ UNCHANGED <<headVars, coreVars, left, oh, oc, drop>>

\* EXP_Insert takes the reference of the binheap and LRU list (HSH_Ref) ...
HSH_Ref(s) ==
  /\ pc[s] = "fetch" /\ Settled(s) /\ xr[s] = None
  /\ ocRef' = [ocRef EXCEPT ![oc[s]] = @ + 1]
  /\ xr' = [xr EXCEPT ![s] = oc[s]]
  /\ Goto(s, "insert")
  /\ UNCHANGED <<headVars, hd, status, silo, timer, left, oh, oc, drop>>

\* ... and puts the still busy object on both.
EXP_Insert(s) ==
  /\ pc[s] = "insert"
  /\ timer' = timer \cup {xr[s]}
  /\ xr' = [xr EXCEPT ![s] = None]
  /\ Goto(s, "unbusy")
  /\ UNCHANGED <<headVars, hd, ocRef, status, silo, left, oh, oc, drop>>

HSH_Unbusy(s) ==
  /\ pc[s] = "unbusy"
  /\ status' = [status EXCEPT ![oc[s]] = "ready"]
  /\ hsh_rush(hd[oc[s]], s, "deliver")
  /\ UNCHANGED <<ohRef, hd, ocRef, silo, timer, left, oc, xr, drop>>

\* The last use of the object: delivered, hit-for-pass, refused by vcl_hit,
\* or dropped.  HSH_Deref.
DeliverDeref(s) ==
  LET c == oc[s]
  IN  /\ pc[s] \in {"deliver", "dropped"}
      /\ DropCoreRef(c, s)
      /\ hsh_rush(hd[c], s, "idle")
      /\ oc' = [oc EXCEPT ![s] = None]
      /\ UNCHANGED <<ohRef, timer, left, xr>>

-----------------------------------------------------------------------------
(* exp_timer, ban_lurker and the silo thread. *)

\* exp_timer takes the root of the binheap off it and off the LRU list.
TimerPop ==
  \E c \in timer :
    /\ pc[Timer] = "idle" /\ Settled(Timer)
    /\ timer' = timer \ {c}
    /\ xr' = [xr EXCEPT ![Timer] = c]
    /\ Goto(Timer, "popped")
    /\ UNCHANGED <<headVars, hd, ocRef, status, silo, left, oh, oc, drop>>

\* It reads OC_F_PERSISTENT with no lock held.
TimerFlag ==
  /\ pc[Timer] = "popped"
  /\ Goto(Timer, IF status[xr[Timer]] = "vampire" THEN "killcore" ELSE "kill")
  /\ UNCHANGED <<headVars, coreVars, left, oh, oc, xr, drop>>

\* HSH_Deref of an object ...
TimerDeref ==
  LET c == xr[Timer]
  IN  /\ pc[Timer] = "kill"
      /\ DropCoreRef(c, Timer)
      /\ hsh_rush(hd[c], Timer, "idle")
      /\ xr' = [xr EXCEPT ![Timer] = None]
      /\ UNCHANGED <<ohRef, timer, left, oc>>

\* ... or HSH_DerefObjCore of a vampire, which does not look at the counter.
TimerDerefObjCore ==
  LET c == xr[Timer]
  IN  /\ pc[Timer] = "killcore"
      /\ FreeCore(c, Timer)
      /\ IF Busy(c)
         THEN hsh_rush(hd[c], Timer, "idle")
         ELSE Goto(Timer, "idle") /\ UNCHANGED <<waiting, oh>>
      /\ xr' = [xr EXCEPT ![Timer] = None]
      /\ UNCHANGED <<ohRef, timer, left, oc>>

\* ban_lurker's HSH_FindBan: an objcore of the oldest ban that is still on
\* its objhead is fixed up and referenced.
HSH_FindBan ==
  \E c \in Cores :
    /\ pc[Lurker] = "idle" /\ Settled(Lurker)
    /\ status[c] \in {"fetch", "ready", "dead", "vampire"}
    /\ SMP_Fixup({c} \cap Vampires(hd[c]))
    /\ ocRef' = [ocRef EXCEPT ![c] = @ + 1]
    /\ oc' = [oc EXCEPT ![Lurker] = c]
    /\ Goto(Lurker, "checked")
    /\ UNCHANGED <<headVars, hd, silo, timer, left, oh, xr, drop>>

\* Its HSH_Deref after the ban check.
LurkerDeref ==
  LET c == oc[Lurker]
  IN  /\ pc[Lurker] = "checked"
      /\ DropCoreRef(c, Lurker)
      /\ hsh_rush(hd[c], Lurker, "idle")
      /\ oc' = [oc EXCEPT ![Lurker] = None]
      /\ UNCHANGED <<ohRef, timer, left, xr>>

\* smp_load_seg, one object: HSH_Insert finds or creates the objhead ...
LoadLookup ==
  \E k \in Keys :
    /\ Silo /\ Free # {}
    /\ pc[Loader] = "idle" /\ Settled(Loader)
    /\ ohRef' = [ohRef EXCEPT ![k] = @ + 1]
    /\ oh' = [oh EXCEPT ![Loader] = k]
    /\ Goto(Loader, "insert")
    /\ UNCHANGED <<waiting, coreVars, left, oc, xr, drop>>

\* ... hangs a vampire on it ...
HSH_Insert ==
  \E c \in Free :
    /\ pc[Loader] = "insert"
    /\ hd' = [hd EXCEPT ![c] = oh[Loader]]
    /\ ocRef' = [ocRef EXCEPT ![c] = 1]
    /\ status' = [status EXCEPT ![c] = "vampire"]
    /\ silo' = silo \cup {c}
    /\ oh' = [oh EXCEPT ![Loader] = None]
    /\ xr' = [xr EXCEPT ![Loader] = c]
    /\ Goto(Loader, "inject")
    /\ UNCHANGED <<headVars, timer, left, oc, drop>>

\* ... and EXP_Inject arms its timer; the reference passes to the binheap.
EXP_Inject ==
  /\ pc[Loader] = "inject"
  /\ timer' = timer \cup {xr[Loader]}
  /\ xr' = [xr EXCEPT ![Loader] = None]
  /\ Goto(Loader, "idle")
  /\ UNCHANGED <<headVars, hd, ocRef, status, silo, left, oh, oc, drop>>

-----------------------------------------------------------------------------
SessStep(s) ==
  \/ HashLookup(s)
  \/ LookupHit(s)
  \/ \E esi \in BOOLEAN : LookupBusy(s, esi)
  \/ LookupMiss(s)
  \/ HitDeref(s)
  \/ DerefObjCore(s)
  \/ NewObject(s)
  \/ EXP_NukeOne(s)
  \/ NukeDeref(s)
  \/ HSH_Drop(s)
  \/ HSH_Ref(s)
  \/ EXP_Insert(s)
  \/ HSH_Unbusy(s)
  \/ DeliverDeref(s)

TimerStep == TimerPop \/ TimerFlag \/ TimerDeref \/ TimerDerefObjCore
LurkerStep == HSH_FindBan \/ LurkerDeref
LoaderStep == LoadLookup \/ HSH_Insert \/ EXP_Inject

\* No thread and no timer refers to a freed objcore.  A thread that does runs
\* into CHECK_OBJ_NOTNULL(oc, OBJCORE_MAGIC) or worse: the child process is
\* lost, and the model goes no further.
Intact ==
  /\ \A p \in Procs : oc[p] # None => hd[oc[p]] # None
  /\ \A p \in Procs : xr[p] # None => hd[xr[p]] # None
  /\ \A c \in timer : hd[c] # None

Next ==
  /\ Intact
  /\ \/ \E s \in Sess : SessStep(s)
     \/ TimerStep
     \/ LurkerStep
     \/ LoaderStep
     \/ \E p \in Procs : HashDeref(p)

Spec == Init /\ [][Next]_vars

\* Workers run (every session on a worker makes progress), and so do the
\* timer thread, whose objects all have finite lifetimes, and whoever owes a
\* hash->deref.  Nothing is assumed of the lurker, the silo or new requests.
FairSpec ==
  /\ Spec
  /\ \A s \in Sess : WF_vars(SessStep(s))
  /\ \A p \in Procs : WF_vars(HashDeref(p))
  /\ WF_vars(TimerStep)
-----------------------------------------------------------------------------
(* Properties. *)

\* Every field holds a value of its type; in particular no counter ever goes
\* below zero (the assert(refcnt > 0) before each decrement in cache_hash.c).
TypeOK ==
  /\ ohRef \in [Keys -> Nat]
  /\ waiting \in [Keys -> Seq(Sess)]
  /\ hd \in [Cores -> Keys \cup {None}]
  /\ ocRef \in [Cores -> Nat]
  /\ status \in [Cores -> Status]
  /\ silo \subseteq Cores
  /\ timer \subseteq Cores
  /\ pc \in [Procs -> SessPC \cup ThreadPC]
  /\ left \in [Sess -> Nat]
  /\ oh \in [Procs -> Keys \cup {None}]
  /\ oc \in [Procs -> Cores \cup {None}]
  /\ xr \in [Procs -> Cores \cup {None}]
  /\ drop \in [Procs -> Keys \cup {None}]

\* An objhead's refcnt is exactly the objcores hung from it, plus the sessions
\* that carry it (looking up, parked, queued), plus the hash->derefs still due.
\* Too small frees it under a user, too large leaks it (cache_hash.c: "Lookups
\* in the hash implementation returns with a ref held and each object hung
\* from the objhead holds a ref as well").
HeadRefExact ==
  \A k \in Keys : ohRef[k] = Count(hd, k) + Count(oh, k) + Count(drop, k)

\* An objcore's refcnt is exactly its users, plus the references in transit to
\* or from the binheap, plus one when it is on the binheap ("We hold one object
\* reference for both data structures", cache_expire.c).
CoreRefExact ==
  \A c \in Cores :
    ocRef[c] = Count(oc, c) + Count(xr, c) + (IF c \in timer THEN 1 ELSE 0)

\* No thread and no timer refers to an objcore that has been freed, whatever
\* order HSH_Deref, EXP_NukeOne, exp_timer and the ban lurker come in.
NoUseAfterFree == Intact

\* Requests for one key are coalesced: at most one of its objcores is busy, so
\* at most one session fetches it (HSH_Lookup inserts a busy objcore only
\* after scanning the whole list and seeing none).
OneFetchPerKey ==
  \A c, d \in Cores : Busy(c) /\ Busy(d) /\ hd[c] = hd[d] => c = d

\* A session that is delivering holds an object that is complete: neither busy
\* nor freed; and a session that is fetching owns a busy one, as the
\* AN(ObjIsBusy(o)) of HSH_Object, EXP_Insert, HSH_Drop and HSH_Unbusy demand.
UsersSeeTheRightObject ==
  \A s \in Sess :
    /\ pc[s] \in {"hitref", "deliver"} => status[oc[s]] \in {"ready", "dead"}
    /\ pc[s] = "miss" => status[oc[s]] = "busy"
    /\ pc[s] \in {"fetch", "insert", "unbusy"} => status[oc[s]] = "fetch"

\* The assertion of a hit: hash->deref(oh) cannot free the objhead, because
\* the object hit still hangs from it (assert(oh->refcnt > 1) in HSH_Lookup).
HitKeepsHead ==
  \A s \in Sess : pc[s] = "hitref" => hd[oc[s]] = oh[s] /\ ohRef[oh[s]] > 1

\* A parked session has a future waker: while anybody is on a waiting list,
\* some object of that objhead is busy, or is held by a thread that will call
\* HSH_Deref (and so hsh_rush), or a session off that list is about to look
\* it up.  Otherwise the rest of the list would sleep until the next request
\* for the same key happened to come along.
NoLostWakeup ==
  \A k \in Keys : waiting[k] # <<>> =>
    \/ \E c \in objcs(k) : Busy(c)
    \/ \E p \in Procs : oc[p] \in objcs(k)
    \/ \E s \in Sess : pc[s] = "queued" /\ oh[s] = k

\* The waiting list and the parked sessions are the same thing: nobody is
\* parked off the list, listed twice, or listed while running.
WaitingListExact ==
  /\ \A s \in Sess : pc[s] = "parked" =>
       \E i \in DOMAIN waiting[oh[s]] : waiting[oh[s]][i] = s
  /\ \A k \in Keys : \A i, j \in DOMAIN waiting[k] :
       /\ pc[waiting[k][i]] = "parked" /\ oh[waiting[k][i]] = k
       /\ waiting[k][i] = waiting[k][j] => i = j

\* The books of the cache are right through every race: counters of objheads
\* and objcores are the references there are, the waiting lists are the
\* sessions that wait, and a hit's objhead outlives the reference given back.
CacheInv ==
  TypeOK /\ HeadRefExact /\ CoreRefExact /\ WaitingListExact /\ HitKeepsHead

\* With a silo the objcores' counters are not kept (the loader and the timer
\* free them unseen), but those of the objheads are, and nobody who waits on
\* one is forgotten before a thread runs into a freed objcore.
HeadsServed == HeadRefExact /\ (Intact => NoLostWakeup)

\* One fetch per key at a time, and nobody delivers an object that is not
\* complete or fetches into one that is.
FetchesCoalesced == OneFetchPerKey /\ UsersSeeTheRightObject

\* Every request that starts a lookup ends: parked sessions are woken, those
\* woken get an object or fetch one (cnt_lookup: "The hash code to restart the
\* session, still in STP_LOOKUP, later when the busy object isn't").
EveryLookupEnds == \A s \in Sess : pc[s] = "parked" ~> pc[s] = "idle"
=============================================================================
