---------------------------- MODULE WorkerPool ----------------------------
(***************************************************************************)
(* cache_pool.c: pools of worker threads, the herder which breeds threads  *)
(* and the herdtimer which scales the limits and retires idle threads.     *)
(*                                                                         *)
(* WRK_Queue picks the first idle worker off its pool under the pool's     *)
(* mutex but hands the work over after the mutex is released; the herder   *)
(* reads nthr and nqueue without any mutex, and its condition is signalled *)
(* without one, so that a signal sent while it is not waiting is lost.     *)
(*                                                                         *)
(* An action is one critical section, or what a thread does between two.   *)
(* nqueue is Len(overflow).  The round-robin counter nq of WRK_Queue is    *)
(* shared without a lock: any pool may be next.  Threads wake up from      *)
(* pthread_cond_wait only when signalled.  pthread_create fails when all   *)
(* of Workers, the threads the system can carry, exist.                    *)
(***************************************************************************)
EXTENDS Integers, FiniteSets, SequencesExt

CONSTANTS
  Workers,        \* worker threads the system has room for
  Feeders,        \* threads that call WRK_QueueSession
  Sessions,
  InitPools,      \* params->wthread_pools at start
  MaxPools,       \* bound: its largest later value
  WThreadMin,     \* params->wthread_min
  WThreadMax,     \* params->wthread_max
  AddThreshold,   \* params->wthread_add_threshold
  OverflowMax,    \* params->overflow_max
  None

Pools == 0 .. MaxPools - 1

\* What tweak_thread_pool_min and tweak_thread_pool_max enforce, among others.
ASSUME PoolAssumption ==
  /\ IsFiniteSet(Workers) /\ IsFiniteSet(Sessions) /\ IsFiniteSet(Feeders)
  /\ None \notin Workers \cup Sessions
  /\ MaxPools \in Nat /\ InitPools \in 1 .. MaxPools
  /\ WThreadMin \in Nat /\ WThreadMin >= 2
  /\ WThreadMax \in Nat /\ WThreadMax >= WThreadMin
  /\ AddThreshold \in Nat /\ OverflowMax \in Nat

VARIABLES
  nwq,         \* number of pools
  nthrMax,     \* nthr_max and ovfl_max: per pool, 0 until the herdtimer runs
  ovflMax,
  idle,        \* qp->idle, the most recently used worker first
  overflow,    \* qp->overflow
  nthr,        \* qp->nthr
  lqueue,      \* qp->lqueue
  wpool,       \* the pool a thread was created for
  wpc,         \* "unborn", "born", "wait", "run", "tail"
  wrq,         \* w->wrq
  signalled,   \* workers whose condition was signalled while they waited
  unsummed,    \* workers with anything in w->stats
  sess,        \* who has a session: see TypeOK
  fpc,         \* a feeder: "free", "hand", "signal"
  fw,          \* the worker, and
  fr,          \* the session in a feeder's hands
  tpc,         \* herdtimer: "scale", "cull", "kiss"
  tu,          \* its u
  victim,      \* wrk_decimate_flock's w
  hpc,         \* herder: "breed", "settle", "check", "lock", "wait", "woken"
  hu,          \* its u and
  hw           \* its w; -1: not in the loop over w

poolVars == <<nwq, nthrMax, ovflMax, idle, overflow, nthr>>
workerVars == <<wpool, wpc, wrq, signalled, unsummed>>
feederVars == <<fpc, fw, fr>>
timerVars == <<tpc, tu, victim>>
herderVars == <<hpc, hu, hw, lqueue>>
vars == <<poolVars, workerVars, sess, feederVars, timerVars, herderVars>>

Init ==
  /\ nwq = InitPools
  /\ nthrMax = 0 /\ ovflMax = 0
  /\ idle = [p \in Pools |-> <<>>]
  /\ overflow = [p \in Pools |-> <<>>]
  /\ nthr = [p \in Pools |-> 0]
  /\ lqueue = [p \in Pools |-> 0]
  /\ wpool = [w \in Workers |-> None]
  /\ wpc = [w \in Workers |-> "unborn"]
  /\ wrq = [w \in Workers |-> None]
  /\ signalled = {} /\ unsummed = {}
  /\ sess = [r \in Sessions |-> "out"]
  /\ fpc = [f \in Feeders |-> "free"]
  /\ fw = [f \in Feeders |-> None]
  /\ fr = [f \in Feeders |-> None]
  /\ tpc = "scale" /\ tu = 0 /\ victim = None
  /\ hpc = "breed" /\ hu = 0 /\ hw = -1

-----------------------------------------------------------------------------
(* Queueing a session *)

\* Mutated form: the worker stays on the idle list.
TickleFirst_peek(f, p, r) ==
  /\ idle[p] # <<>>
  /\ fpc' = [fpc EXCEPT ![f] = "hand"]
  /\ fw' = [fw EXCEPT ![f] = Head(idle[p])]
  /\ fr' = [fr EXCEPT ![f] = r]
  /\ sess' = [sess EXCEPT ![r] = "due"]
  /\ UNCHANGED <<overflow, idle>>

\* WRK_Queue finds an idle worker.
TickleFirst(f, p, r) ==
  /\ idle[p] # <<>>
  /\ idle' = [idle EXCEPT ![p] = Tail(@)]
  /\ fpc' = [fpc EXCEPT ![f] = "hand"]
  /\ fw' = [fw EXCEPT ![f] = Head(idle[p])]
  /\ fr' = [fr EXCEPT ![f] = r]
  /\ sess' = [sess EXCEPT ![r] = "due"]
  /\ UNCHANGED overflow

\* It finds none, but room in the queue.
Overflow(f, p, r) ==
  /\ idle[p] = <<>> /\ Len(overflow[p]) <= ovflMax
  /\ overflow' = [overflow EXCEPT ![p] = Append(@, r)]
  /\ fpc' = [fpc EXCEPT ![f] = "signal"]
  /\ sess' = [sess EXCEPT ![r] = "due"]
  /\ UNCHANGED <<idle, fw, fr>>

\* It refuses: WRK_QueueSession closes and deletes the session.
Refuse(f, p, r) ==
  /\ idle[p] = <<>> /\ Len(overflow[p]) > ovflMax
  /\ sess' = [sess EXCEPT ![r] = "dropped"]
  /\ UNCHANGED <<idle, overflow, feederVars>>

WRK_QueueSession(f, r) ==
  /\ fpc[f] = "free"
  /\ sess[r] = "out"
  /\ \E p \in 0 .. nwq - 1 :
       TickleFirst(f, p, r) \/ Overflow(f, p, r) \/ Refuse(f, p, r)
  /\ UNCHANGED <<nwq, nthrMax, ovflMax, nthr, workerVars, timerVars, herderVars>>

\* Mutated form: the worker is not signalled.
HandOver_silent(f) ==
  /\ fpc[f] = "hand"
  /\ wrq' = [wrq EXCEPT ![fw[f]] = fr[f]]
  /\ fpc' = [fpc EXCEPT ![f] = "free"]
  /\ fw' = [fw EXCEPT ![f] = None]
  /\ fr' = [fr EXCEPT ![f] = None]
  /\ UNCHANGED <<poolVars, wpool, wpc, signalled, unsummed, sess, timerVars, herderVars>>

\* After the unlock: w->wrq = wrq, and the signal.
HandOver(f) ==
  /\ fpc[f] = "hand"
  /\ wrq' = [wrq EXCEPT ![fw[f]] = fr[f]]
  /\ signalled' = signalled \cup {fw[f]}
  /\ fpc' = [fpc EXCEPT ![f] = "free"]
  /\ fw' = [fw EXCEPT ![f] = None]
  /\ fr' = [fr EXCEPT ![f] = None]
  /\ UNCHANGED <<poolVars, wpool, wpc, unsummed, sess, timerVars, herderVars>>

\* pthread_cond_signal(&herder_cond) is lost unless the herder waits.
SignalHerder(f) ==
  /\ fpc[f] = "signal"
  /\ fpc' = [fpc EXCEPT ![f] = "free"]
  /\ hpc' = IF hpc = "wait" THEN "woken" ELSE hpc
  /\ UNCHANGED <<poolVars, workerVars, sess, fw, fr, timerVars, hu, hw, lqueue>>

\* A new connection gets the memory of a deleted session.
SES_New(r) ==
  /\ sess[r] = "dropped"
  /\ sess' = [sess EXCEPT ![r] = "out"]
  /\ UNCHANGED <<poolVars, workerVars, feederVars, timerVars, herderVars>>

-----------------------------------------------------------------------------
(* Worker threads *)

\* Mutated form: a thread sleeps without looking at the overflow queue.
LoopTop_sleepy(w, clean, dirty) ==
  /\ wrq' = [wrq EXCEPT ![w] = None]
  /\ idle' = [idle EXCEPT ![wpool[w]] = <<w>> \o @]
  /\ wpc' = [wpc EXCEPT ![w] = "wait"]
  /\ unsummed' = IF clean THEN dirty ELSE dirty \ {w}
  /\ UNCHANGED <<overflow, sess>>

\* The top of wrk_thread_real's loop, with qp->mtx held; clean: stats_clean,
\* dirty: the workers with unsummed statistics.  Who has some sums them up
\* before he goes to sleep.
LoopTop(w, clean, dirty) ==
  LET p == wpool[w] IN
  IF overflow[p] # <<>>
  THEN /\ wrq' = [wrq EXCEPT ![w] = Head(overflow[p])]
       /\ overflow' = [overflow EXCEPT ![p] = Tail(@)]
       /\ wpc' = [wpc EXCEPT ![w] = "run"]
       /\ sess' = [sess EXCEPT ![Head(overflow[p])] = "run"]
       /\ unsummed' = dirty \cup {w}
       /\ UNCHANGED idle
  ELSE /\ wrq' = [wrq EXCEPT ![w] = None]
       /\ idle' = [idle EXCEPT ![p] = <<w>> \o @]
       /\ wpc' = [wpc EXCEPT ![w] = "wait"]
       /\ unsummed' = IF clean THEN dirty ELSE dirty \ {w}
       /\ UNCHANGED <<overflow, sess>>

\* A thread starts: it counts itself, then enters the loop.
WorkerStart(w) ==
  /\ wpc[w] = "born"
  /\ nthr' = [nthr EXCEPT ![wpool[w]] = @ + 1]
  /\ LoopTop(w, TRUE, unsummed)
  /\ UNCHANGED <<nwq, nthrMax, ovflMax, wpool, signalled, feederVars, timerVars, herderVars>>

\* Lck_CondWait returns: with work, or else the thread ends.
Wake(w) ==
  /\ w \in signalled
  /\ signalled' = signalled \ {w}
  /\ IF wrq[w] # None
     THEN /\ wpc' = [wpc EXCEPT ![w] = "run"]
          /\ sess' = [sess EXCEPT ![wrq[w]] = "run"]
          /\ unsummed' = unsummed \cup {w}
          /\ UNCHANGED <<nthr, wpool>>
     ELSE /\ wpc' = [wpc EXCEPT ![w] = "unborn"]
          /\ wpool' = [wpool EXCEPT ![w] = None]
          /\ nthr' = [nthr EXCEPT ![wpool[w]] = @ - 1]
          /\ unsummed' = unsummed \ {w}
          /\ UNCHANGED sess
  /\ UNCHANGED <<nwq, nthrMax, ovflMax, idle, overflow, wrq, feederVars, timerVars, herderVars>>

\* CNT_Session lets go of the session (sp->wrk = NULL): it is parked on a
\* waiting list or with the waiter, or deleted and its memory used for a new
\* connection.  From then on others may queue it again, while w->wrq still
\* points to it.
ReleaseSession(w) ==
  /\ wpc[w] = "run"
  /\ wpc' = [wpc EXCEPT ![w] = "tail"]
  /\ sess' = [sess EXCEPT ![wrq[w]] = "out"]
  /\ UNCHANGED <<poolVars, wpool, wrq, signalled, unsummed, feederVars, timerVars, herderVars>>

\* The work function has returned.  locked: Lck_Trylock(&wstat_mtx) did it.
Finish(w) ==
  /\ wpc[w] = "tail"
  /\ \E locked \in BOOLEAN :
       LoopTop(w, locked, IF locked THEN unsummed \ {w} ELSE unsummed)
  /\ UNCHANGED <<nwq, nthrMax, ovflMax, nthr, wpool, signalled, feederVars, timerVars, herderVars>>

-----------------------------------------------------------------------------
(* The herdtimer *)

Max2(a, b) == IF a > b THEN a ELSE b

\* wrk_addpools, if thread_pools was raised, and the scaling of the limits.
Scale ==
  /\ tpc = "scale"
  /\ \E u \in nwq .. MaxPools : nwq' = u
  /\ nthrMax' = Max2(WThreadMax \div nwq', WThreadMin)
  /\ ovflMax' = (nthrMax' * OverflowMax) \div 100
  /\ tpc' = "cull" /\ tu' = 0
  /\ UNCHANGED <<idle, overflow, nthr, workerVars, sess, feederVars, victim, herderVars>>

\* The end of the loop body over the pools, and of the herdtimer's loop.
NextFlock ==
  IF tu + 1 < nwq THEN tpc' = "cull" /\ tu' = tu + 1 ELSE tpc' = "scale" /\ tu' = 0

\* wrk_decimate_flock's choice: the worker idle for longest, if it has been
\* idle for thread_pool_timeout (old) or there are too many.
Decimate ==
  /\ tpc = "cull"
  /\ \E old \in BOOLEAN :
       IF /\ nthr[tu] > WThreadMin
          /\ idle[tu] # <<>>
          /\ old \/ nthr[tu] > nthrMax
       THEN /\ victim' = Last(idle[tu])
            /\ idle' = [idle EXCEPT ![tu] = Front(@)]
            /\ tpc' = "kiss" /\ UNCHANGED tu
       ELSE NextFlock /\ UNCHANGED <<victim, idle>>
  /\ UNCHANGED <<nwq, nthrMax, ovflMax, overflow, nthr, workerVars, sess, feederVars, herderVars>>

\* And give it a kiss on the cheek...
Kiss ==
  /\ tpc = "kiss"
  /\ signalled' = signalled \cup {victim}
  /\ victim' = None
  /\ NextFlock
  /\ UNCHANGED <<poolVars, wpool, wpc, wrq, unsummed, sess, feederVars, herderVars>>

-----------------------------------------------------------------------------
(* The herder *)

\* The pool wrk_breed_flock is called for.
Flock == IF hw = -1 THEN hu ELSE hw

\* wrk_breed_flock up to its sleep.
Breed ==
  LET nqueue == Len(overflow[Flock])
      needed == \/ nthr[Flock] < WThreadMin
                \/ nqueue > AddThreshold /\ nqueue > lqueue[Flock]
      unborn == {w \in Workers : wpc[w] = "unborn"} IN
  /\ hpc = "breed"
  /\ IF needed /\ nthr[Flock] < nthrMax /\ unborn # {}
     THEN \E w \in unborn :
            /\ wpc' = [wpc EXCEPT ![w] = "born"]
            /\ wpool' = [wpool EXCEPT ![w] = Flock]
     ELSE UNCHANGED <<wpc, wpool>>
  /\ hpc' = "settle"
  /\ UNCHANGED <<poolVars, wrq, signalled, unsummed, sess, feederVars, timerVars, hu, hw, lqueue>>

\* After the sleep: qp->lqueue = qp->nqueue.
Settle ==
  /\ hpc = "settle"
  /\ lqueue' = [lqueue EXCEPT ![Flock] = Len(overflow[Flock])]
  /\ hw' = Max2(hw, 0)
  /\ hpc' = "check"
  /\ UNCHANGED <<poolVars, workerVars, sess, feederVars, timerVars, hu>>

\* "Make sure all pools have their minimum complement".
CheckMinimum ==
  /\ hpc = "check"
  /\ IF hw >= nwq
     THEN hpc' = "lock" /\ UNCHANGED hw
     ELSE IF nthr[hw] < WThreadMin
     THEN hpc' = "breed" /\ UNCHANGED hw
     ELSE hw' = hw + 1 /\ UNCHANGED hpc
  /\ UNCHANGED <<poolVars, workerVars, sess, feederVars, timerVars, hu, lqueue>>

\* Lck_Lock(&herder_mtx) and Lck_CondWait(&herder_cond, ...).
Wait ==
  /\ hpc = "lock"
  /\ hpc' = "wait"
  /\ UNCHANGED <<poolVars, workerVars, sess, feederVars, timerVars, hu, hw, lqueue>>

NextPool ==
  /\ hpc = "woken"
  /\ hu' = IF hu + 1 < nwq THEN hu + 1 ELSE 0
  /\ hw' = -1
  /\ hpc' = "breed"
  /\ UNCHANGED <<poolVars, workerVars, sess, feederVars, timerVars, lqueue>>

-----------------------------------------------------------------------------
Worker(w) == WorkerStart(w) \/ Wake(w) \/ ReleaseSession(w) \/ Finish(w)
Feeder(f) == HandOver(f) \/ SignalHerder(f)
Herdtimer == Scale \/ Decimate \/ Kiss
Herder == Breed \/ Settle \/ CheckMinimum \/ Wait \/ NextPool

Next ==
  \/ \E f \in Feeders, r \in Sessions : WRK_QueueSession(f, r)
  \/ \E f \in Feeders : Feeder(f)
  \/ \E r \in Sessions : SES_New(r)
  \/ \E w \in Workers : Worker(w)
  \/ Herdtimer
  \/ Herder

Spec == Init /\ [][Next]_vars

\* Threads run, and the work given to a worker comes to an end: clients and
\* backends are read and written with timeouts.  Nobody has to connect.
Fairness ==
  /\ \A w \in Workers : WF_vars(Worker(w))
  /\ \A f \in Feeders : WF_vars(Feeder(f))
  /\ WF_vars(Herdtimer)
  /\ WF_vars(Herder)

FairSpec == Spec /\ Fairness

-----------------------------------------------------------------------------
(* Properties *)

\* The types of the variables.
TypeOK ==
  /\ nwq \in 1 .. MaxPools /\ nthrMax \in Nat /\ ovflMax \in Nat
  /\ idle \in [Pools -> Seq(Workers)]
  /\ overflow \in [Pools -> Seq(Sessions)]
  /\ nthr \in [Pools -> Nat] /\ lqueue \in [Pools -> Nat]
  /\ wpool \in [Workers -> Pools \cup {None}]
  /\ wpc \in [Workers -> {"unborn", "born", "wait", "run", "tail"}]
  /\ wrq \in [Workers -> Sessions \cup {None}]
  /\ signalled \subseteq Workers /\ unsummed \subseteq Workers
  /\ sess \in [Sessions -> {"out", "due", "run", "dropped"}]
  /\ fpc \in [Feeders -> {"free", "hand", "signal"}]
  /\ fw \in [Feeders -> Workers \cup {None}]
  /\ fr \in [Feeders -> Sessions \cup {None}]
  /\ tpc \in {"scale", "cull", "kiss"} /\ tu \in 0 .. MaxPools
  /\ victim \in Workers \cup {None}
  /\ hpc \in {"breed", "settle", "check", "lock", "wait", "woken"}
  /\ hu \in Pools /\ hw \in -1 .. MaxPools

\* In how many places a session waits for a worker thread.
Waits(r) ==
  Cardinality({x \in Pools \X (1 .. Cardinality(Sessions)) :
                 x[2] \in DOMAIN overflow[x[1]] /\ overflow[x[1]][x[2]] = r})
  + Cardinality({f \in Feeders : fr[f] = r})
  + Cardinality({w \in Workers : wpc[w] = "wait" /\ wrq[w] = r})

\* WRK_Queue loses and duplicates no work: a session it has accepted is, until
\* a worker runs it, in exactly one place (an overflow queue, the hands of the
\* thread that queues it, or a worker about to wake up), one that runs has
\* exactly one worker, and any other session is nowhere.
WorkExact ==
  \A r \in Sessions :
    /\ Waits(r) = (IF sess[r] = "due" THEN 1 ELSE 0)
    /\ Cardinality({w \in Workers : wpc[w] = "run" /\ wrq[w] = r})
         = (IF sess[r] = "run" THEN 1 ELSE 0)

\* qp->idle holds, once each, exactly the threads of the pool that sleep and
\* that nobody has picked; nthr counts the threads that have started.
ThreadsExact ==
  \A p \in Pools :
    LET mine(pcs) == {w \in Workers : wpool[w] = p /\ wpc[w] \in pcs} IN
    /\ nthr[p] = Cardinality(mine({"wait", "run", "tail"}))
    /\ IsInjective(idle[p])
    /\ Range(idle[p]) =
         mine({"wait"}) \ (signalled \cup {victim} \cup {fw[f] : f \in Feeders})

\* AZ(w->wrq) of wrk_decimate_flock: the thread the herdtimer sends home is
\* asleep and nobody gives it work before, or after, it is signalled.
VictimHasNoWork ==
  victim # None =>
    /\ wpc[victim] = "wait" /\ wrq[victim] = None
    /\ victim \notin signalled
    /\ \A f \in Feeders : fw[f] # victim

\* No session waits in the overflow queue of a pool with an idle worker.
WorkConserving == \A p \in Pools : overflow[p] # <<>> => idle[p] = <<>>

\* A thread that sleeps leaves nothing in w->stats, whether or not the trylock
\* after its last work succeeded: varnishstat is complete when all is quiet.
SleepersSummed == \A w \in Workers : wpc[w] = "wait" => w \notin unsummed

\* WRK_Queue, the workers, the herder and the herdtimer agree on who has which
\* work, who sleeps and who may be sent home, and a sleeper's statistics are in.
PoolInv == TypeOK /\ WorkExact /\ ThreadsExact /\ VictimHasNoWork /\ SleepersSummed

\* Every accepted session gets a worker, in the end, unless it is queued on a
\* pool that has lost all its threads.
AcceptedWorkRuns ==
  \A r \in Sessions :
    sess[r] = "due" ~>
      \/ sess[r] # "due"
      \/ \E p \in Pools : r \in Range(overflow[p]) /\ nthr[p] = 0
=============================================================================
