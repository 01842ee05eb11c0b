---------------------------- MODULE WorkerProofs ----------------------------
(***************************************************************************)
(* What a worker thread does, proved for every value of the constants: how *)
(* the pools hand it sessions (WorkerPool), and how it carries a body from *)
(* the backend to storage and from there to the client (Transfer).  The two*)
(* specifications share no variable.                                       *)
(*                                                                         *)
(* WorkerPool (cache_pool.c), for any number of threads, feeders, sessions *)
(* and pools: no session is lost or queued twice, qp->idle and qp->nthr are*)
(* exact although WRK_Queue and wrk_decimate_flock hand a worker its work, *)
(* or its end, after they have let go of the mutex, and no session queues  *)
(* up in a pool with an idle worker.  The counts of the properties are not *)
(* inductive; the invariant says who has what: a worker that sleeps is on  *)
(* its idle list, or in the hands of exactly one feeder or of the          *)
(* herdtimer, or signalled (Threads, Idle), and a session that is due is in*)
(* one place (Places).                                                     *)
(*                                                                         *)
(* Transfer (cache_fetch.c, cache_httpconn.c, cache_response.c,            *)
(* cache_wrw.c), for bodies of any length, storages of any size and reads  *)
(* and writes of any part: the object is the body the backend sent, and the*)
(* client gets a beginning of the response.  What BodyStored says of the   *)
(* end of a fetch is not inductive; the invariant says, for each place the *)
(* fetch can be at, what the pipeline and the wire together still hold     *)
(* (Pending): the next bytes of the body, or a chunked body of which so    *)
(* many bytes have been read and so many are left of the chunk (Chunky).   *)
(***************************************************************************)
EXTENDS WorkerPool, Transfer, SequenceTheorems, FiniteSetTheorems, WellFoundedInduction, TLAPS

\* A worker is picked off its idle list before it is told why.
Threads ==
  /\ \A w \in Workers : wpc[w] # "unborn" => wpool[w] \in Pools
  /\ \A w \in signalled : wpc[w] = "wait"
  /\ \A w \in Workers : wpc[w] = "wait" /\ wrq[w] # None => w \in signalled
  /\ \A w \in Workers : wpc[w] = "run" => wrq[w] \in Sessions
  /\ \A w \in Workers : wpc[w] \in {"run", "tail"} \/ w \notin unsummed

Feeding ==
  /\ \A f \in Feeders :
       IF fpc[f] = "hand"
       THEN /\ fw[f] \in Workers /\ fr[f] \in Sessions
            /\ wpc[fw[f]] = "wait" /\ wrq[fw[f]] = None /\ fw[f] \notin signalled
       ELSE fw[f] = None /\ fr[f] = None
  /\ \A f, g \in Feeders : fpc[f] = "hand" /\ fpc[g] = "hand" /\ fw[f] = fw[g] => f = g

Timer ==
  /\ tpc # "scale" => tu < nwq
  /\ hu < nwq /\ (hpc \in {"breed", "settle"} => hw < nwq)
  /\ victim # None => tpc = "kiss"
  /\ tpc = "kiss" => victim # None

\* The threads of a pool that have counted themselves, and the sleepers nobody
\* has picked.
Started(p) == {w \in Workers : wpool[w] = p /\ wpc[w] \in {"wait", "run", "tail"}}
Picked == signalled \cup {victim} \cup {fw[f] : f \in Feeders}
Sleepers(p) == {w \in Workers : wpool[w] = p /\ wpc[w] = "wait"} \ Picked

Idle ==
  \A p \in Pools : IsInjective(idle[p]) /\ Range(idle[p]) = Sleepers(p)

Counted == \A p \in Pools : nthr[p] = Cardinality(Started(p))

\* A session that is due is in one place: a queue, a feeder's hands or those of
\* a worker that is about to wake up.
Places ==
  /\ \A p \in Pools : IsInjective(overflow[p])
  /\ \A p, q \in Pools : \A r \in Sessions :
       r \in Range(overflow[p]) /\ r \in Range(overflow[q]) => p = q
  /\ \A f, g \in Feeders : fr[f] # None /\ fr[f] = fr[g] => f = g
  /\ \A w, v \in Workers :
       wpc[w] = "wait" /\ wpc[v] = "wait" /\ wrq[w] # None /\ wrq[w] = wrq[v] => w = v
  /\ \A p \in Pools, f \in Feeders : fr[f] \notin Range(overflow[p])
  /\ \A p \in Pools, w \in Workers : wpc[w] = "wait" => wrq[w] \notin Range(overflow[p])
  /\ \A f \in Feeders, w \in Workers :
       fr[f] # None /\ wpc[w] = "wait" => wrq[w] # fr[f]

Due(r) ==
  \/ \E p \in Pools : r \in Range(overflow[p])
  \/ \E f \in Feeders : fr[f] = r
  \/ \E w \in Workers : wpc[w] = "wait" /\ wrq[w] = r

States ==
  /\ \A r \in Sessions : sess[r] = "due" <=> Due(r)
  /\ \A r \in Sessions : sess[r] = "run" => \E w \in Workers : wpc[w] = "run" /\ wrq[w] = r
  /\ \A w \in Workers : wpc[w] = "run" => sess[wrq[w]] = "run"
  /\ \A w, v \in Workers :
       wpc[w] = "run" /\ wpc[v] = "run" /\ wrq[w] = wrq[v] => w = v

IInv ==
  /\ TypeOK /\ Threads /\ Feeding /\ Timer /\ VictimHasNoWork /\ Idle /\ Counted
  /\ Places /\ States /\ WorkConserving

-----------------------------------------------------------------------------
(* Sequences without repetitions, as sets. *)

\* Taking the first element off a list.
LEMMA TailRange ==
  ASSUME NEW S, NEW s \in Seq(S), s # <<>>, IsInjective(s)
  PROVE  /\ Head(s) \in S /\ Head(s) \in Range(s)
         /\ Tail(s) \in Seq(S) /\ IsInjective(Tail(s))
         /\ Range(Tail(s)) = Range(s) \ {Head(s)}
  <1>1. /\ Head(s) \in S /\ Tail(s) \in Seq(S) /\ Len(Tail(s)) = Len(s) - 1
        /\ \A i \in 1 .. Len(Tail(s)) : Tail(s)[i] = s[i + 1]
    BY HeadTailProperties
  <1>2. Len(s) \in Nat /\ Len(s) > 0 /\ DOMAIN s = 1 .. Len(s)
    BY EmptySeq, LenProperties
  <1>3. DOMAIN Tail(s) = 1 .. Len(s) - 1
    BY <1>1, LenProperties
  <1>4. Head(s) = s[1]
    OBVIOUS
  <1>5. \A i \in DOMAIN Tail(s) : i + 1 \in DOMAIN s /\ Tail(s)[i] = s[i + 1] /\ i + 1 # 1
    BY <1>1, <1>2, <1>3
  <1>6. IsInjective(Tail(s))
    <2> SUFFICES ASSUME NEW a \in DOMAIN Tail(s), NEW b \in DOMAIN Tail(s),
                        Tail(s)[a] = Tail(s)[b]
                 PROVE  a = b
      BY DEF IsInjective
    <2>1. a + 1 = b + 1
      BY <1>5 DEF IsInjective
    <2> QED
      BY <1>2, <1>3, <2>1
  <1>7. 1 \in DOMAIN s
    BY <1>2
  <1>8. ASSUME NEW x \in Range(Tail(s))
        PROVE  x \in Range(s) /\ x # Head(s)
    <2>1. PICK i \in DOMAIN Tail(s) : x = Tail(s)[i]
      BY DEF Range
    <2>2. i + 1 \in DOMAIN s /\ x = s[i + 1] /\ i + 1 # 1
      BY <1>5, <2>1
    <2> QED
      BY <1>4, <1>7, <2>2 DEF Range, IsInjective
  <1>9. ASSUME NEW x \in Range(s), x # Head(s)
        PROVE  x \in Range(Tail(s))
    <2>1. PICK j \in DOMAIN s : x = s[j]
      BY DEF Range
    <2>2. j # 1
      BY <1>4, <1>9, <2>1
    <2>3. j - 1 \in DOMAIN Tail(s) /\ Tail(s)[j - 1] = s[(j - 1) + 1]
      BY <1>1, <1>2, <1>3, <2>2
    <2>4. (j - 1) + 1 = j
      BY <1>2
    <2> QED
      BY <2>1, <2>3, <2>4 DEF Range
  <1> QED
    BY <1>1, <1>4, <1>6, <1>7, <1>8, <1>9 DEF Range

\* Taking the last element off a list.
LEMMA FrontRange ==
  ASSUME NEW S, NEW s \in Seq(S), s # <<>>, IsInjective(s)
  PROVE  /\ Last(s) \in S /\ Last(s) \in Range(s)
         /\ Front(s) \in Seq(S) /\ IsInjective(Front(s))
         /\ Range(Front(s)) = Range(s) \ {Last(s)}
  <1>1. Len(s) \in Nat /\ Len(s) > 0 /\ DOMAIN s = 1 .. Len(s)
    BY EmptySeq, LenProperties
  <1>2. Len(s) \in DOMAIN s /\ Len(s) - 1 \in Nat
    BY <1>1
  <1>3. \A i \in 1 .. Len(s) : s[i] \in S
    BY ElementOfSeq
  <1>4. /\ Front(s) \in Seq(S) /\ DOMAIN Front(s) = 1 .. Len(s) - 1
        /\ \A i \in 1 .. Len(s) - 1 : Front(s)[i] = s[i]
    <2>1. \A i \in 1 .. Len(s) - 1 : s[i] \in S
      BY <1>1, <1>3
    <2>2. /\ SubSeq(s, 1, Len(s) - 1) \in Seq(S)
          /\ Len(SubSeq(s, 1, Len(s) - 1)) = IF 1 <= Len(s) - 1 THEN Len(s) - 1 - 1 + 1 ELSE 0
          /\ \A i \in 1 .. (Len(s) - 1) - 1 + 1 : SubSeq(s, 1, Len(s) - 1)[i] = s[1 + i - 1]
      BY <1>1, <2>1, SubSeqProperties
    <2>3. Len(Front(s)) = Len(s) - 1
      <3>1. ASSUME NEW n \in Nat, n > 0, NEW m, m = IF 1 <= n - 1 THEN n - 1 - 1 + 1 ELSE 0
            PROVE  m = n - 1
        BY <3>1
      <3> QED
        BY <1>1, <2>2, <3>1 DEF Front
    <2>4. \A i \in 1 .. Len(s) - 1 : i \in 1 .. (Len(s) - 1) - 1 + 1 /\ 1 + i - 1 = i
      BY <1>1
    <2> QED
      BY <2>2, <2>3, <2>4, LenProperties DEF Front
  <1>5. IsInjective(Front(s))
    BY <1>1, <1>4 DEF IsInjective
  <1>6. Last(s) = s[Len(s)]
    BY DEF Last
  <1>7. Last(s) \in S /\ Last(s) \in Range(s)
    BY <1>1, <1>2, <1>3, <1>6 DEF Range
  <1>8. ASSUME NEW x \in Range(Front(s)) PROVE x \in Range(s) /\ x # Last(s)
    <2>1. PICK i \in 1 .. Len(s) - 1 : x = s[i]
      BY <1>4 DEF Range
    <2>2. i \in DOMAIN s /\ i # Len(s)
      <3>1. ASSUME NEW n \in Nat, NEW j \in 1 .. n - 1
            PROVE  j \in 1 .. n /\ j # n
        OBVIOUS
      <3> QED
        BY <1>1, <3>1
    <2> QED
      BY <1>2, <1>6, <2>1, <2>2 DEF Range, IsInjective
  <1>9. ASSUME NEW x \in Range(s), x # Last(s) PROVE x \in Range(Front(s))
    <2>1. PICK i \in DOMAIN s : x = s[i]
      BY DEF Range
    <2>2. i \in 1 .. Len(s) - 1
      BY <1>1, <1>6, <1>9, <2>1
    <2> QED
      BY <1>4, <2>1, <2>2 DEF Range
  <1> QED
    BY <1>4, <1>5, <1>7, <1>8, <1>9

\* A new element in front of a list.
LEMMA ConsRange ==
  ASSUME NEW S, NEW s \in Seq(S), NEW e \in S, e \notin Range(s), IsInjective(s)
  PROVE  /\ <<e>> \o s \in Seq(S) /\ IsInjective(<<e>> \o s)
         /\ Range(<<e>> \o s) = Range(s) \cup {e} /\ <<e>> \o s # <<>>
  <1> DEFINE t == <<e>> \o s
  <1>1. <<e>> \in Seq(S) /\ Len(<<e>>) = 1 /\ <<e>>[1] = e
    OBVIOUS
  <1>2. /\ t \in Seq(S) /\ Len(t) = 1 + Len(s)
        /\ \A i \in 1 .. Len(t) : t[i] = IF i <= Len(<<e>>) THEN <<e>>[i] ELSE s[i - Len(<<e>>)]
    BY <1>1, ConcatProperties
  <1>3. Len(s) \in Nat /\ DOMAIN s = 1 .. Len(s) /\ DOMAIN t = 1 .. Len(s) + 1
    BY <1>2, LenProperties
  <1> HIDE DEF t
  <1>4. t[1] = e /\ \A i \in DOMAIN t : i # 1 => t[i] = s[i - 1] /\ i - 1 \in DOMAIN s
    BY <1>1, <1>2, <1>3
  <1>5. \A i \in DOMAIN s : s[i] # e /\ i + 1 \in DOMAIN t /\ t[i + 1] = s[i]
    <2> TAKE i \in DOMAIN s
    <2>1. i + 1 \in DOMAIN t /\ i + 1 # 1 /\ (i + 1) - 1 = i
      BY <1>3
    <2> QED
      BY <1>4, <2>1 DEF Range
  <1>6. IsInjective(t)
    <2> SUFFICES ASSUME NEW a \in DOMAIN t, NEW b \in DOMAIN t, t[a] = t[b]
                 PROVE  a = b
      BY DEF IsInjective
    <2>1. CASE a = 1 \/ b = 1
      BY <1>4, <1>5, <2>1
    <2>2. CASE a # 1 /\ b # 1
      <3>1. a - 1 = b - 1
        BY <1>4, <2>2 DEF IsInjective
      <3> QED
        BY <1>3, <3>1
    <2> QED
      BY <2>1, <2>2
  <1>7. ASSUME NEW x \in Range(t) PROVE x \in Range(s) \cup {e}
    BY <1>4 DEF Range
  <1>8. ASSUME NEW x \in Range(s) \cup {e} PROVE x \in Range(t)
    <2>1. 1 \in DOMAIN t
      BY <1>3
    <2> QED
      BY <1>4, <1>5, <2>1 DEF Range
  <1>9. t # <<>>
    BY <1>2, <1>3
  <1> QED
    BY <1>2, <1>6, <1>7, <1>8, <1>9 DEF t

\* A new element at the end of a queue.
LEMMA AppendRange ==
  ASSUME NEW S, NEW s \in Seq(S), NEW e \in S, e \notin Range(s), IsInjective(s)
  PROVE  /\ Append(s, e) \in Seq(S) /\ IsInjective(Append(s, e))
         /\ Range(Append(s, e)) = Range(s) \cup {e}
  <1> DEFINE t == Append(s, e)
  <1>1. /\ t \in Seq(S) /\ Len(t) = Len(s) + 1 /\ t[Len(s) + 1] = e
        /\ \A i \in 1 .. Len(s) : t[i] = s[i]
    BY AppendProperties
  <1>2. Len(s) \in Nat /\ DOMAIN s = 1 .. Len(s) /\ DOMAIN t = 1 .. Len(s) + 1
    BY <1>1, LenProperties
  <1> HIDE DEF t
  <1>3. /\ \A i \in DOMAIN s : i \in DOMAIN t /\ t[i] = s[i] /\ s[i] # e
        /\ Len(s) + 1 \in DOMAIN t
        /\ \A i \in DOMAIN t : i # Len(s) + 1 => i \in DOMAIN s
    BY <1>1, <1>2 DEF Range
  <1>4. IsInjective(t)
    BY <1>1, <1>3 DEF IsInjective
  <1>5. Range(t) = Range(s) \cup {e}
    BY <1>1, <1>3 DEF Range
  <1> QED
    BY <1>1, <1>4, <1>5 DEF t

\* Only the empty list has no elements.
LEMMA EmptyRange ==
  ASSUME NEW S, NEW s \in Seq(S)
  PROVE  s = <<>> <=> Range(s) = {}
  <1>1. ASSUME s # <<>> PROVE Range(s) # {}
    <2>1. 1 \in DOMAIN s
      BY <1>1, EmptySeq, LenProperties
    <2> QED
      BY <2>1 DEF Range
  <1>2. Range(<<>>) = {}
    BY DEF Range
  <1> QED
    BY <1>1, <1>2

-----------------------------------------------------------------------------
(* What the steps keep. *)

\* There is a pool, and an unborn, a sleeping and a working thread differ.
LEMMA PoolFacts ==
  /\ None \notin Workers /\ None \notin Sessions /\ MaxPools \in Nat /\ MaxPools >= 1
  /\ IsFiniteSet(Workers) /\ IsFiniteSet(Sessions) /\ IsFiniteSet(Feeders)
  BY PoolAssumption

\* Threads that have started are finitely many.
LEMMA StartedFinite ==
  ASSUME NEW p
  PROVE  IsFiniteSet(Started(p)) /\ Cardinality(Started(p)) \in Nat
  <1>1. Started(p) \subseteq Workers
    BY DEF Started
  <1> QED
    BY <1>1, PoolFacts, FS_Subset, FS_CardinalityType

\* A step that moves no worker, session or queue.
LEMMA Quiet ==
  ASSUME IInv, TypeOK', Timer',
         UNCHANGED <<idle, overflow, nthr, workerVars, sess, fw, fr, victim>>,
         \A f \in Feeders : fpc'[f] = "hand" <=> fpc[f] = "hand"
  PROVE  IInv'
  <1> USE DEF workerVars
  <1>1. Threads'
    BY DEF IInv, Threads
  <1>2. Feeding'
    BY DEF IInv, Feeding
  <1>3. VictimHasNoWork'
    BY DEF IInv, VictimHasNoWork
  <1>4. Idle' /\ Counted'
    BY DEF IInv, Idle, Counted, Sleepers, Picked, Started
  <1>5. Places'
    BY DEF IInv, Places
  <1>6. States'
    BY DEF IInv, States, Due
  <1>7. WorkConserving'
    BY DEF IInv, WorkConserving
  <1> QED
    BY <1>1, <1>2, <1>3, <1>4, <1>5, <1>6, <1>7 DEF IInv

\* A session that is neither due nor running is deleted or made anew.
LEMMA OutsideStep ==
  ASSUME IInv, NEW r \in Sessions, NEW to \in {"out", "dropped"},
         sess[r] \in {"out", "dropped"}, sess' = [sess EXCEPT ![r] = to],
         UNCHANGED <<poolVars, workerVars, feederVars, timerVars, herderVars>>
  PROVE  IInv'
  <1> USE DEF poolVars, workerVars, feederVars, timerVars, herderVars
  <1>1. TypeOK' /\ Timer'
    BY DEF IInv, TypeOK, Timer
  <1>2. Threads' /\ Feeding' /\ VictimHasNoWork'
    BY DEF IInv, Threads, Feeding, VictimHasNoWork
  <1>3. Idle' /\ Counted'
    BY DEF IInv, Idle, Counted, Sleepers, Picked, Started
  <1>4. Places' /\ WorkConserving'
    BY DEF IInv, Places, WorkConserving
  <1>5. States'
    <2>1. \A s \in Sessions : sess'[s] = sess[s] \/ (s = r /\ sess'[s] \in {"out", "dropped"})
      BY DEF IInv, TypeOK
    <2>2. \A s \in Sessions : Due(s)' = Due(s)
      BY DEF Due
    <2> QED
      BY <2>1, <2>2 DEF IInv, States, TypeOK, Threads
  <1> QED
    BY <1>1, <1>2, <1>3, <1>4, <1>5 DEF IInv

-----------------------------------------------------------------------------
(* Queueing a session. *)

\* A session that was out is due now.
LEMMA NewlyDue ==
  ASSUME IInv, NEW r \in Sessions, sess[r] = "out", UNCHANGED <<wpc, wrq>>,
         \A s \in Sessions : sess'[s] = IF s = r THEN "due" ELSE sess[s],
         \A s \in Sessions : Due(s)' <=> (Due(s) \/ s = r)
  PROVE  States'
  <1>1. \A w \in Workers : wpc[w] = "run" => wrq[w] \in Sessions /\ sess[wrq[w]] = "run"
    BY DEF IInv, States, Threads
  <1>2. \A w \in Workers : wpc[w] = "run" => wrq[w] # r
    BY <1>1
  <1>3. \A s \in Sessions : sess'[s] = "due" <=> Due(s)'
    BY DEF IInv, States
  <1>4. \A s \in Sessions : sess'[s] = "run" => \E w \in Workers : wpc'[w] = "run" /\ wrq'[w] = s
    BY DEF IInv, States
  <1>5. \A w \in Workers : wpc'[w] = "run" => sess'[wrq'[w]] = "run"
    BY <1>1, <1>2
  <1>6. \A w, v \in Workers :
          wpc'[w] = "run" /\ wpc'[v] = "run" /\ wrq'[w] = wrq'[v] => w = v
    BY DEF IInv, States
  <1> QED
    BY <1>3, <1>4, <1>5, <1>6 DEF States

\* WRK_Queue takes the first worker off the idle list.
LEMMA TickleStep ==
  ASSUME IInv, NEW f \in Feeders, NEW r \in Sessions, NEW p \in Pools,
         fpc[f] = "free", sess[r] = "out", TickleFirst(f, p, r),
         UNCHANGED <<nwq, nthrMax, ovflMax, nthr, workerVars, timerVars, herderVars>>
  PROVE  IInv'
  <1> USE DEF workerVars, timerVars, herderVars
  <1> DEFINE w == Head(idle[p])
  <1>1. /\ idle[p] # <<>> /\ idle' = [idle EXCEPT ![p] = Tail(@)]
        /\ fpc' = [fpc EXCEPT ![f] = "hand"] /\ fw' = [fw EXCEPT ![f] = w]
        /\ fr' = [fr EXCEPT ![f] = r] /\ sess' = [sess EXCEPT ![r] = "due"]
        /\ overflow' = overflow
    BY DEF TickleFirst
  <1>2. /\ w \in Workers /\ w \in Range(idle[p]) /\ Tail(idle[p]) \in Seq(Workers)
        /\ IsInjective(Tail(idle[p])) /\ Range(Tail(idle[p])) = Range(idle[p]) \ {w}
    BY <1>1, TailRange DEF IInv, TypeOK, Idle
  <1>3. /\ wpool[w] = p /\ wpc[w] = "wait" /\ w \notin signalled /\ w # victim
        /\ \A g \in Feeders : fw[g] # w
    BY <1>2 DEF IInv, Idle, Sleepers, Picked
  <1> HIDE DEF w
  <1>4. wrq[w] = None
    BY <1>2, <1>3 DEF IInv, Threads
  <1>5. TypeOK'
    BY <1>1, <1>2 DEF IInv, TypeOK
  <1>6. Timer' /\ Threads'
    BY DEF IInv, Timer, Threads
  <1>7. Feeding'
    BY <1>1, <1>2, <1>3, <1>4, PoolFacts DEF IInv, Feeding, TypeOK
  <1>8. VictimHasNoWork'
    BY <1>1, <1>3 DEF IInv, VictimHasNoWork, TypeOK
  <1>9. Idle'
    <2>1. fw[f] = None
      BY DEF IInv, Feeding
    <2>2. Picked' \cap Workers = (Picked \cap Workers) \cup {w}
      BY <1>1, <1>2, <2>1, PoolFacts DEF Picked, IInv, TypeOK
    <2>3. \A q \in Pools : Sleepers(q)' = Sleepers(q) \ {w}
      BY <2>2 DEF Sleepers
    <2>4. \A q \in Pools : q # p => w \notin Sleepers(q)
      BY <1>3 DEF Sleepers
    <2>5. \A q \in Pools : idle'[q] = IF q = p THEN Tail(idle[p]) ELSE idle[q]
      BY <1>1 DEF IInv, TypeOK
    <2>6. \A q \in Pools : IsInjective(idle[q]) /\ Range(idle[q]) = Sleepers(q)
      BY DEF IInv, Idle
    <2>7. ASSUME NEW q \in Pools
          PROVE  IsInjective(idle'[q]) /\ Range(idle'[q]) = Sleepers(q)'
      <3>1. Sleepers(q)' = Sleepers(q) \ {w}
        BY <2>3
      <3>2. CASE q = p
        <4>1. idle'[q] = Tail(idle[p]) /\ Range(idle[p]) = Sleepers(q)
          BY <2>5, <2>6, <3>2
        <4> QED
          BY <1>2, <3>1, <4>1
      <3>3. CASE q # p
        <4>1. idle'[q] = idle[q] /\ Sleepers(q)' = Sleepers(q)
          BY <2>4, <2>5, <3>1, <3>3
        <4> QED
          BY <2>6, <4>1
      <3> QED
        BY <3>2, <3>3
    <2> QED
      BY <2>7 DEF Idle
  <1>10. Counted'
    BY DEF IInv, Counted, Started
  <1>11. ~Due(r)
    BY DEF IInv, States
  <1>12. Places'
    <2>1. \A g \in Feeders : fr'[g] = IF g = f THEN r ELSE fr[g]
      BY <1>1 DEF IInv, TypeOK
    <2>2. UNCHANGED <<overflow, wpc, wrq>>
      BY <1>1
    <2> QED
      BY <1>11, <2>1, <2>2 DEF IInv, Places, Due
  <1>13. States'
    <2>1. \A g \in Feeders : fr'[g] = IF g = f THEN r ELSE fr[g]
      BY <1>1 DEF IInv, TypeOK
    <2>2. fr[f] = None
      BY DEF IInv, Feeding
    <2>3. \A s \in Sessions : sess'[s] = IF s = r THEN "due" ELSE sess[s]
      BY <1>1 DEF IInv, TypeOK
    <2>4. \A s \in Sessions : Due(s)' <=> (Due(s) \/ s = r)
      BY <1>1, <2>1, <2>2, PoolFacts DEF Due
    <2> QED
      BY <2>3, <2>4, NewlyDue
  <1>14. WorkConserving'
    BY <1>1 DEF IInv, WorkConserving, TypeOK
  <1> QED
    BY <1>5, <1>6, <1>7, <1>8, <1>9, <1>10, <1>12, <1>13, <1>14 DEF IInv

\* No worker is idle: the session goes to the end of the queue.
LEMMA OverflowStep ==
  ASSUME IInv, NEW f \in Feeders, NEW r \in Sessions, NEW p \in Pools,
         fpc[f] = "free", sess[r] = "out", Overflow(f, p, r),
         UNCHANGED <<nwq, nthrMax, ovflMax, nthr, workerVars, timerVars, herderVars>>
  PROVE  IInv'
  <1> USE DEF workerVars, timerVars, herderVars
  <1>1. /\ idle[p] = <<>> /\ overflow' = [overflow EXCEPT ![p] = Append(@, r)]
        /\ fpc' = [fpc EXCEPT ![f] = "signal"] /\ sess' = [sess EXCEPT ![r] = "due"]
        /\ UNCHANGED <<idle, fw, fr>>
    BY DEF Overflow
  <1>2. ~Due(r)
    BY DEF IInv, States
  <1>3. /\ Append(overflow[p], r) \in Seq(Sessions) /\ IsInjective(Append(overflow[p], r))
        /\ Range(Append(overflow[p], r)) = Range(overflow[p]) \cup {r}
    BY <1>2, AppendRange DEF IInv, TypeOK, Places, Due
  <1>4. TypeOK'
    BY <1>1, <1>3 DEF IInv, TypeOK
  <1>5. Timer' /\ Threads' /\ VictimHasNoWork'
    BY <1>1 DEF IInv, Timer, Threads, VictimHasNoWork
  <1>6. Feeding'
    BY <1>1 DEF IInv, Feeding, TypeOK
  <1>7. Idle' /\ Counted'
    BY <1>1, SMTT(30) DEF IInv, Idle, Counted, Sleepers, Picked, Started
  <1>8. \A q \in Pools : /\ IsInjective(overflow'[q])
                         /\ Range(overflow'[q]) = IF q = p THEN Range(overflow[p]) \cup {r}
                                                  ELSE Range(overflow[q])
    BY <1>1, <1>3 DEF IInv, TypeOK, Places
  <1>9. Places'
    BY <1>1, <1>2, <1>8 DEF IInv, Places, Due
  <1>10. States'
    <2>1. \A s \in Sessions : Due(s)' <=> (Due(s) \/ s = r)
      BY <1>1, <1>8 DEF Due
    <2>2. \A s \in Sessions : sess'[s] = IF s = r THEN "due" ELSE sess[s]
      BY <1>1 DEF IInv, TypeOK
    <2> QED
      BY <2>1, <2>2, NewlyDue
  <1>11. WorkConserving'
    BY <1>1 DEF IInv, WorkConserving, TypeOK
  <1> QED
    BY <1>4, <1>5, <1>6, <1>7, <1>9, <1>10, <1>11 DEF IInv

\* WRK_QueueSession.
LEMMA QueueStep ==
  ASSUME IInv, NEW f \in Feeders, NEW r \in Sessions, WRK_QueueSession(f, r)
  PROVE  IInv'
  <1>1. PICK p \in 0 .. nwq - 1 : TickleFirst(f, p, r) \/ Overflow(f, p, r) \/ Refuse(f, p, r)
    BY DEF WRK_QueueSession
  <1>2. p \in Pools
    BY <1>1, PoolFacts DEF IInv, TypeOK, Pools
  <1>3. /\ fpc[f] = "free" /\ sess[r] = "out"
        /\ UNCHANGED <<nwq, nthrMax, ovflMax, nthr, workerVars, timerVars, herderVars>>
    BY DEF WRK_QueueSession
  <1>4. CASE Refuse(f, p, r)
    <2>1. sess' = [sess EXCEPT ![r] = "dropped"] /\ UNCHANGED <<idle, overflow, feederVars>>
      BY <1>4 DEF Refuse
    <2>2. UNCHANGED <<poolVars, workerVars, feederVars, timerVars, herderVars>>
      BY <1>3, <2>1 DEF poolVars
    <2> QED
      BY <1>3, <2>1, <2>2, OutsideStep
  <1> QED
    BY <1>1, <1>2, <1>3, <1>4, TickleStep, OverflowStep

\* The feeder gives the worker its work and signals it.
LEMMA HandOverStep ==
  ASSUME IInv, NEW f \in Feeders, HandOver(f)
  PROVE  IInv'
  <1> USE DEF poolVars, timerVars, herderVars
  <1>1. /\ wrq' = [wrq EXCEPT ![fw[f]] = fr[f]] /\ signalled' = signalled \cup {fw[f]}
        /\ fpc' = [fpc EXCEPT ![f] = "free"] /\ fw' = [fw EXCEPT ![f] = None]
        /\ fr' = [fr EXCEPT ![f] = None] /\ fpc[f] = "hand"
        /\ UNCHANGED <<poolVars, wpool, wpc, unsummed, sess, timerVars, herderVars>>
    BY DEF HandOver
  <1>2. /\ fw[f] \in Workers /\ fr[f] \in Sessions /\ wpc[fw[f]] = "wait"
        /\ wrq[fw[f]] = None /\ fw[f] \notin signalled
        /\ \A g \in Feeders : g # f => fw[g] # fw[f]
    BY <1>1, PoolFacts DEF IInv, Feeding
  <1>3. /\ \A v \in Workers : wrq'[v] = IF v = fw[f] THEN fr[f] ELSE wrq[v]
        /\ \A g \in Feeders : /\ fpc'[g] = (IF g = f THEN "free" ELSE fpc[g])
                              /\ fw'[g] = (IF g = f THEN None ELSE fw[g])
                              /\ fr'[g] = (IF g = f THEN None ELSE fr[g])
    BY <1>1, <1>2 DEF IInv, TypeOK
  <1>4. TypeOK'
    BY <1>1, <1>2 DEF IInv, TypeOK
  <1>5. Timer' /\ Threads'
    BY <1>1, <1>2, <1>3 DEF IInv, Timer, Threads
  <1>6. Feeding'
    BY <1>1, <1>2, <1>3 DEF IInv, Feeding
  <1>7. VictimHasNoWork'
    BY <1>1, <1>2, <1>3 DEF IInv, VictimHasNoWork, TypeOK
  <1>8. Idle' /\ Counted'
    <2>1. Picked' \cap Workers = Picked \cap Workers
      BY <1>1, <1>2, <1>3, PoolFacts DEF Picked
    <2>2. \A q \in Pools : Sleepers(q)' = Sleepers(q) /\ Started(q)' = Started(q)
      BY <1>1, <2>1 DEF Sleepers, Started
    <2> QED
      BY <1>1, <2>2 DEF IInv, Idle, Counted
  <1>9. Places'
    BY <1>1, <1>2, <1>3, PoolFacts DEF IInv, Places
  <1>10. States'
    <2>1. \A s \in Sessions : Due(s)' <=> Due(s)
      BY <1>1, <1>2, <1>3, PoolFacts DEF Due
    <2> QED
      BY <1>1, <1>2, <1>3, <2>1 DEF IInv, States
  <1>11. WorkConserving'
    BY <1>1 DEF IInv, WorkConserving
  <1> QED
    BY <1>4, <1>5, <1>6, <1>7, <1>8, <1>9, <1>10, <1>11 DEF IInv


-----------------------------------------------------------------------------
(* The herder, and the steps of the herdtimer that leave the workers alone. *)

\* A lost or a received signal changes nothing but the herder's place.
LEMMA SignalHerderStep ==
  ASSUME IInv, NEW f \in Feeders, SignalHerder(f)
  PROVE  IInv'
  <1> USE DEF SignalHerder, poolVars, workerVars, timerVars
  <1>1. \A g \in Feeders : fpc'[g] = IF g = f THEN "free" ELSE fpc[g]
    BY DEF IInv, TypeOK
  <1>2. TypeOK'
    BY DEF IInv, TypeOK
  <1>3. Timer'
    BY DEF IInv, Timer
  <1>4. \A g \in Feeders : fpc'[g] = "hand" <=> fpc[g] = "hand"
    BY <1>1
  <1> QED
    BY <1>2, <1>3, <1>4, Quiet

\* The herder's own steps.
LEMMA HerderQuiet ==
  ASSUME IInv, Settle \/ CheckMinimum \/ Wait \/ NextPool
  PROVE  IInv'
  <1> USE DEF poolVars, workerVars, feederVars, timerVars
  <1>1. /\ UNCHANGED <<poolVars, workerVars, sess, feederVars, timerVars>>
    BY DEF Settle, CheckMinimum, Wait, NextPool
  <1>2. /\ nwq \in 1 .. MaxPools /\ MaxPools \in Nat /\ hu \in 0 .. MaxPools - 1
        /\ hw \in -1 .. MaxPools /\ hu < nwq
        /\ hpc \in {"breed", "settle", "check", "lock", "wait", "woken"}
        /\ lqueue \in [Pools -> Nat] /\ overflow \in [Pools -> Seq(Sessions)]
    BY PoolFacts DEF IInv, TypeOK, Pools, Timer
  <1>3. /\ hpc' \in {"breed", "settle", "check", "lock", "wait", "woken"}
        /\ hu' \in 0 .. MaxPools - 1 /\ hw' \in -1 .. MaxPools /\ hu' < nwq
        /\ (hpc' \in {"breed", "settle"} => hw' < nwq)
        /\ lqueue' \in [Pools -> Nat]
    <2>1. CASE Settle
      <3>1. Flock \in Pools
        BY <1>2, <2>1 DEF IInv, Timer, Settle, Flock, Pools
      <3>2. Len(overflow[Flock]) \in Nat
        BY <1>2, <3>1, LenProperties
      <3>3. lqueue' \in [Pools -> Nat]
        BY <1>2, <2>1, <3>2 DEF Settle
      <3>4. hpc' = "check" /\ hu' = hu /\ hw' = Max2(hw, 0)
        BY <2>1 DEF Settle
      <3>5. hw' \in -1 .. MaxPools
        BY <1>2, <3>4 DEF Max2
      <3> QED
        BY <1>2, <3>3, <3>4, <3>5
    <2>2. CASE CheckMinimum
      BY <1>2, <2>2 DEF CheckMinimum
    <2>3. CASE Wait
      BY <1>2, <2>3 DEF Wait
    <2>4. CASE NextPool
      BY <1>2, <2>4 DEF NextPool
    <2> QED
      BY <2>1, <2>2, <2>3, <2>4
  <1>4. TypeOK'
    BY <1>1, <1>3 DEF IInv, TypeOK, Pools
  <1>5. Timer'
    BY <1>1, <1>3 DEF IInv, Timer
  <1> QED
    BY <1>1, <1>4, <1>5, Quiet

\* The herder starts a thread, which has not counted itself yet.
LEMMA BreedStep ==
  ASSUME IInv, Breed
  PROVE  IInv'
  <1> USE DEF poolVars, feederVars, timerVars
  <1>1. /\ hpc = "breed" /\ hpc' = "settle"
        /\ UNCHANGED <<poolVars, wrq, signalled, unsummed, sess, feederVars, timerVars, hu, hw, lqueue>>
        /\ \/ UNCHANGED <<wpc, wpool>>
           \/ \E w \in Workers : /\ wpc[w] = "unborn" /\ wpc' = [wpc EXCEPT ![w] = "born"]
                                 /\ wpool' = [wpool EXCEPT ![w] = Flock]
    BY DEF Breed
  <1>2. Timer'
    BY <1>1 DEF IInv, Timer
  <1>3. CASE UNCHANGED <<wpc, wpool>>
    <2>1. TypeOK'
      BY <1>1, <1>3 DEF IInv, TypeOK
    <2> QED
      BY <1>1, <1>2, <1>3, <2>1, Quiet DEF workerVars
  <1>4. CASE ~UNCHANGED <<wpc, wpool>>
    <2>1. PICK w \in Workers : /\ wpc[w] = "unborn" /\ wpc' = [wpc EXCEPT ![w] = "born"]
                               /\ wpool' = [wpool EXCEPT ![w] = Flock]
      BY <1>1, <1>4
    <2>2. Flock \in Pools
      BY <1>1, PoolFacts DEF IInv, Timer, TypeOK, Flock, Pools
    <2>3. \A v \in Workers : /\ wpc'[v] = (IF v = w THEN "born" ELSE wpc[v])
                             /\ wpool'[v] = (IF v = w THEN Flock ELSE wpool[v])
      BY <2>1 DEF IInv, TypeOK
    <2>4. \A v \in Workers : \A c \in {"wait", "run", "tail"} :
            /\ (wpc'[v] = c) <=> (wpc[v] = c)
            /\ wpc[v] = c => wpool'[v] = wpool[v]
      BY <2>1, <2>3
    <2>5. TypeOK'
      BY <1>1, <2>1, <2>2 DEF IInv, TypeOK
    <2>6. Threads'
      <3>1. signalled \subseteq Workers
        BY DEF IInv, TypeOK
      <3>2. \A v \in Workers : wpc'[v] # "unborn" => wpool'[v] \in Pools
        BY <2>2, <2>3 DEF IInv, Threads
      <3> QED
        BY <1>1, <2>1, <2>3, <3>1, <3>2 DEF IInv, Threads
    <2>7. Feeding'
      BY <1>1, <2>4 DEF IInv, Feeding
    <2>8. VictimHasNoWork'
      BY <1>1, <2>4 DEF IInv, VictimHasNoWork, TypeOK
    <2>9. \A p \in Pools : Sleepers(p)' = Sleepers(p) /\ Started(p)' = Started(p)
      BY <1>1, <2>4 DEF Sleepers, Started, Picked
    <2>10. Idle' /\ Counted'
      BY <1>1, <2>9 DEF IInv, Idle, Counted
    <2>11. Places'
      BY <1>1, <2>4 DEF IInv, Places
    <2>12. \A s \in Sessions : Due(s)' <=> Due(s)
      BY <1>1, <2>4 DEF Due
    <2>13. States'
      BY <1>1, <2>4, <2>12 DEF IInv, States
    <2>14. WorkConserving'
      BY <1>1 DEF IInv, WorkConserving
    <2> QED
      BY <1>2, <2>5, <2>6, <2>7, <2>8, <2>10, <2>11, <2>13, <2>14 DEF IInv
  <1> QED
    BY <1>3, <1>4

\* What NextFlock leaves.
LEMMA NextFlockFacts ==
  ASSUME IInv, NextFlock, nwq' = nwq
  PROVE  tpc' \in {"scale", "cull"} /\ tu' \in 0 .. MaxPools /\ (tpc' # "scale" => tu' < nwq)
  <1>1. nwq \in 1 .. MaxPools /\ MaxPools \in Nat /\ tu \in 0 .. MaxPools
    BY PoolFacts DEF IInv, TypeOK
  <1> QED
    BY <1>1 DEF NextFlock

\* wrk_addpools and the scaling of the limits.
LEMMA ScaleStep ==
  ASSUME IInv, Scale
  PROVE  IInv'
  <1> USE DEF workerVars, feederVars, herderVars
  <1>1. /\ tpc = "scale" /\ tpc' = "cull" /\ tu' = 0
        /\ nwq' \in nwq .. MaxPools
        /\ nthrMax' = Max2(WThreadMax \div nwq', WThreadMin)
        /\ ovflMax' = (nthrMax' * OverflowMax) \div 100
        /\ UNCHANGED <<idle, overflow, nthr, workerVars, sess, feederVars, victim, herderVars>>
    BY DEF Scale
  <1>2. nwq \in 1 .. MaxPools /\ MaxPools \in Nat
    BY PoolFacts DEF IInv, TypeOK
  <1>3. nwq' \in 1 .. MaxPools /\ nwq' >= nwq
    BY <1>1, <1>2
  <1>4. nthrMax' \in Nat
    <2>1. ASSUME NEW a \in Nat, NEW b \in Nat, b >= 1 PROVE a \div b \in Nat
      BY <2>1
    <2>2. nwq' \in Nat /\ nwq' >= 1 /\ WThreadMax \in Nat
      BY <1>2, <1>3, PoolAssumption
    <2>3. WThreadMax \div nwq' \in Nat
      BY <2>1, <2>2
    <2> QED
      BY <1>1, <2>3, PoolAssumption DEF Max2
  <1>5. ovflMax' \in Nat
    <2>1. ASSUME NEW a \in Nat, NEW b \in Nat PROVE a * b \in Nat
      OBVIOUS
    <2>2. ASSUME NEW a \in Nat PROVE a \div 100 \in Nat
      OBVIOUS
    <2>3. nthrMax' * OverflowMax \in Nat
      BY <1>4, <2>1, PoolAssumption
    <2> QED
      BY <1>1, <2>2, <2>3
  <1>6. TypeOK'
    BY <1>1, <1>2, <1>3, <1>4, <1>5 DEF IInv, TypeOK
  <1>7. hu \in 0 .. MaxPools - 1 /\ hw \in -1 .. MaxPools
    BY DEF IInv, TypeOK, Pools
  <1>8. Timer'
    BY <1>1, <1>2, <1>3, <1>7 DEF IInv, Timer
  <1> QED
    BY <1>1, <1>6, <1>8, Quiet

-----------------------------------------------------------------------------
(* The herdtimer picks a worker and sends it home. *)

\* wrk_decimate_flock's choice.
LEMMA DecimateStep ==
  ASSUME IInv, Decimate
  PROVE  IInv'
  <1> USE DEF workerVars, feederVars, herderVars
  <1>1. /\ tpc = "cull"
        /\ UNCHANGED <<nwq, nthrMax, ovflMax, overflow, nthr, workerVars, sess, feederVars, herderVars>>
        /\ \/ NextFlock /\ UNCHANGED <<victim, idle>>
           \/ /\ idle[tu] # <<>> /\ victim' = Last(idle[tu]) /\ tpc' = "kiss" /\ tu' = tu
              /\ idle' = [idle EXCEPT ![tu] = Front(@)]
    BY DEF Decimate
  <1>2. victim = None
    BY <1>1 DEF IInv, Timer
  <1>3. tu \in Pools /\ tu < nwq
    BY <1>1, PoolFacts DEF IInv, Timer, TypeOK, Pools
  <1>4. CASE NextFlock /\ UNCHANGED <<victim, idle>>
    <2>1. tpc' \in {"scale", "cull"} /\ tu' \in 0 .. MaxPools /\ (tpc' # "scale" => tu' < nwq)
      BY <1>1, <1>4, NextFlockFacts
    <2>2. TypeOK'
      BY <1>1, <1>4, <2>1 DEF IInv, TypeOK
    <2>3. Timer'
      BY <1>1, <1>2, <1>4, <2>1 DEF IInv, Timer
    <2> QED
      BY <1>1, <1>4, <2>2, <2>3, Quiet
  <1>5. CASE /\ idle[tu] # <<>> /\ victim' = Last(idle[tu]) /\ tpc' = "kiss" /\ tu' = tu
             /\ idle' = [idle EXCEPT ![tu] = Front(@)]
    <2> DEFINE w == Last(idle[tu])
    <2>1. /\ w \in Workers /\ w \in Range(idle[tu]) /\ Front(idle[tu]) \in Seq(Workers)
          /\ IsInjective(Front(idle[tu])) /\ Range(Front(idle[tu])) = Range(idle[tu]) \ {w}
      BY <1>3, <1>5, FrontRange DEF IInv, TypeOK, Idle
    <2>2. /\ wpool[w] = tu /\ wpc[w] = "wait" /\ w \notin signalled
          /\ \A g \in Feeders : fw[g] # w
      BY <1>3, <2>1 DEF IInv, Idle, Sleepers, Picked
    <2>3. victim' = w
      BY <1>5
    <2> HIDE DEF w
    <2>4. wrq[w] = None /\ w # None
      BY <2>1, <2>2, PoolFacts DEF IInv, Threads
    <2>5. TypeOK'
      BY <1>1, <1>5, <2>1, <2>3 DEF IInv, TypeOK
    <2>6. Timer'
      BY <1>1, <1>3, <1>5, <2>3, <2>4 DEF IInv, Timer
    <2>7. Threads' /\ Feeding'
      BY <1>1 DEF IInv, Threads, Feeding
    <2>8. VictimHasNoWork'
      BY <1>1, <2>2, <2>3, <2>4 DEF VictimHasNoWork
    <2>9. Counted'
      BY <1>1 DEF IInv, Counted, Started
    <2>10. Idle'
      <3>1. Picked' \cap Workers = (Picked \cap Workers) \cup {w}
        BY <1>1, <1>2, <2>1, <2>3, PoolFacts DEF Picked
      <3>2. \A q \in Pools : Sleepers(q)' = Sleepers(q) \ {w}
        BY <1>1, <3>1 DEF Sleepers
      <3>3. \A q \in Pools : q # tu => w \notin Sleepers(q)
        BY <2>2 DEF Sleepers
      <3>4. \A q \in Pools : idle'[q] = IF q = tu THEN Front(idle[tu]) ELSE idle[q]
        BY <1>5 DEF IInv, TypeOK
      <3>5. \A q \in Pools : IsInjective(idle[q]) /\ Range(idle[q]) = Sleepers(q)
        BY DEF IInv, Idle
      <3>6. ASSUME NEW q \in Pools
            PROVE  IsInjective(idle'[q]) /\ Range(idle'[q]) = Sleepers(q)'
        <4>1. Sleepers(q)' = Sleepers(q) \ {w}
          BY <3>2
        <4>2. CASE q = tu
          <5>1. idle'[q] = Front(idle[tu]) /\ Range(idle[tu]) = Sleepers(q)
            BY <3>4, <3>5, <4>2
          <5> QED
            BY <2>1, <4>1, <5>1
        <4>3. CASE q # tu
          <5>1. idle'[q] = idle[q] /\ Sleepers(q)' = Sleepers(q)
            BY <3>3, <3>4, <4>1, <4>3
          <5> QED
            BY <3>5, <5>1
        <4> QED
          BY <4>2, <4>3
      <3> QED
        BY <3>6 DEF Idle
    <2>11. Places' /\ States'
      BY <1>1 DEF IInv, Places, States, Due
    <2>12. WorkConserving'
      BY <1>1, <1>3, <1>5 DEF IInv, WorkConserving, TypeOK
    <2> QED
      BY <2>5, <2>6, <2>7, <2>8, <2>9, <2>10, <2>11, <2>12 DEF IInv
  <1> QED
    BY <1>1, <1>4, <1>5

\* The victim is signalled without work.
LEMMA KissStep ==
  ASSUME IInv, Kiss
  PROVE  IInv'
  <1> USE DEF poolVars, feederVars, herderVars
  <1>1. /\ tpc = "kiss" /\ signalled' = signalled \cup {victim} /\ victim' = None /\ NextFlock
        /\ UNCHANGED <<poolVars, wpool, wpc, wrq, unsummed, sess, feederVars, herderVars>>
    BY DEF Kiss
  <1>2. tpc' \in {"scale", "cull"} /\ tu' \in 0 .. MaxPools /\ (tpc' # "scale" => tu' < nwq)
    BY <1>1, NextFlockFacts
  <1>3. victim \in Workers /\ wpc[victim] = "wait" /\ \A f \in Feeders : fw[f] # victim
    BY <1>1 DEF IInv, Timer, TypeOK, VictimHasNoWork
  <1>4. TypeOK'
    BY <1>1, <1>2, <1>3 DEF IInv, TypeOK
  <1>5. Timer' /\ VictimHasNoWork'
    BY <1>1, <1>2 DEF IInv, Timer, VictimHasNoWork
  <1>6. Threads' /\ Feeding'
    BY <1>1, <1>3 DEF IInv, Threads, Feeding
  <1>7. Idle' /\ Counted'
    <2>1. Picked' \cap Workers = Picked \cap Workers
      BY <1>1, <1>3, PoolFacts DEF Picked
    <2>2. \A q \in Pools : Sleepers(q)' = Sleepers(q) /\ Started(q)' = Started(q)
      BY <1>1, <2>1 DEF Sleepers, Started
    <2> QED
      BY <1>1, <2>2 DEF IInv, Idle, Counted
  <1>8. Places' /\ States' /\ WorkConserving'
    BY <1>1 DEF IInv, Places, States, Due, WorkConserving
  <1> QED
    BY <1>4, <1>5, <1>6, <1>7, <1>8 DEF IInv

-----------------------------------------------------------------------------
(* The workers. *)

\* CNT_Session lets go of the session.
LEMMA ReleaseStep ==
  ASSUME IInv, NEW w \in Workers, ReleaseSession(w)
  PROVE  IInv'
  <1> USE DEF poolVars, feederVars, timerVars, herderVars
  <1>1. /\ wpc[w] = "run" /\ wpc' = [wpc EXCEPT ![w] = "tail"]
        /\ sess' = [sess EXCEPT ![wrq[w]] = "out"]
        /\ UNCHANGED <<poolVars, wpool, wrq, signalled, unsummed, feederVars, timerVars, herderVars>>
    BY DEF ReleaseSession
  <1> DEFINE r == wrq[w]
  <1>2. r \in Sessions /\ sess[r] = "run"
    BY <1>1 DEF IInv, Threads, States
  <1>3. /\ \A v \in Workers : wpc'[v] = IF v = w THEN "tail" ELSE wpc[v]
        /\ \A s \in Sessions : sess'[s] = IF s = r THEN "out" ELSE sess[s]
    BY <1>1 DEF IInv, TypeOK
  <1> HIDE DEF r
  <1>4. TypeOK'
    BY <1>1 DEF IInv, TypeOK
  <1>5. Timer'
    BY <1>1 DEF IInv, Timer
  <1>6. w \notin signalled /\ signalled \subseteq Workers
    BY <1>1 DEF IInv, Threads, TypeOK
  <1>7. Threads'
    BY <1>1, <1>3, <1>6 DEF IInv, Threads
  <1>8. Feeding' /\ VictimHasNoWork'
    BY <1>1, <1>3 DEF IInv, Feeding, VictimHasNoWork, TypeOK
  <1>9. Idle' /\ Counted'
    <2>1. \A q \in Pools : Sleepers(q)' = Sleepers(q) /\ Started(q)' = Started(q)
      BY <1>1, <1>3 DEF Sleepers, Started, Picked
    <2> QED
      BY <1>1, <2>1 DEF IInv, Idle, Counted
  <1>10. \A v \in Workers : (wpc'[v] = "wait") <=> (wpc[v] = "wait")
    BY <1>1, <1>3
  <1>11. Places' /\ WorkConserving'
    BY <1>1, <1>10 DEF IInv, Places, WorkConserving
  <1>12. States'
    <2>1. \A s \in Sessions : Due(s)' <=> Due(s)
      BY <1>1, <1>10 DEF Due
    <2>2. \A s \in Sessions : sess'[s] = "due" <=> Due(s)'
      BY <1>2, <1>3, <2>1 DEF IInv, States
    <2>3. \A v \in Workers : wpc'[v] = "run" => v # w /\ wpc[v] = "run"
      BY <1>3
    <2>4. \A v \in Workers : wpc[v] = "run" /\ v # w => wrq[v] # r
      BY <1>1 DEF IInv, States, r
    <2>5. \A s \in Sessions : sess'[s] = "run" => \E v \in Workers : wpc'[v] = "run" /\ wrq'[v] = s
      <3> SUFFICES ASSUME NEW s \in Sessions, sess'[s] = "run"
                   PROVE  \E v \in Workers : wpc'[v] = "run" /\ wrq'[v] = s
        OBVIOUS
      <3>1. s # r /\ sess[s] = "run"
        BY <1>3
      <3>2. PICK v \in Workers : wpc[v] = "run" /\ wrq[v] = s
        BY <3>1 DEF IInv, States
      <3>3. v # w
        BY <3>1, <3>2 DEF r
      <3> QED
        BY <1>1, <1>3, <3>2, <3>3
    <2>6. \A v \in Workers : wpc'[v] = "run" => sess'[wrq'[v]] = "run"
      BY <1>1, <1>3, <2>3, <2>4 DEF IInv, States, Threads
    <2>7. \A v, u \in Workers :
            wpc'[v] = "run" /\ wpc'[u] = "run" /\ wrq'[v] = wrq'[u] => v = u
      BY <1>1, <2>3 DEF IInv, States
    <2> QED
      BY <2>2, <2>5, <2>6, <2>7 DEF States
  <1> QED
    BY <1>4, <1>5, <1>7, <1>8, <1>9, <1>11, <1>12 DEF IInv

\* A session that was due runs now, on a worker that ran nothing.
LEMMA NowRunning ==
  ASSUME IInv, NEW w \in Workers, NEW r \in Sessions, sess[r] = "due", wpc[w] # "run",
         \A v \in Workers : wpc'[v] = IF v = w THEN "run" ELSE wpc[v],
         \A v \in Workers : wrq'[v] = IF v = w THEN r ELSE wrq[v],
         \A s \in Sessions : sess'[s] = IF s = r THEN "run" ELSE sess[s],
         \A s \in Sessions : Due(s)' <=> (Due(s) /\ s # r)
  PROVE  States'
  <1>1. \A v \in Workers : wpc[v] = "run" => wrq[v] \in Sessions /\ sess[wrq[v]] = "run"
    BY DEF IInv, States, Threads
  <1>2. \A v \in Workers : wpc[v] = "run" => wrq[v] # r
    BY <1>1
  <1>3. \A s \in Sessions : sess'[s] = "due" <=> Due(s)'
    BY DEF IInv, States
  <1>4. \A s \in Sessions : sess'[s] = "run" => \E v \in Workers : wpc'[v] = "run" /\ wrq'[v] = s
    <2> SUFFICES ASSUME NEW s \in Sessions, sess'[s] = "run"
                 PROVE  \E v \in Workers : wpc'[v] = "run" /\ wrq'[v] = s
      OBVIOUS
    <2>1. CASE s = r
      BY <2>1
    <2>2. CASE s # r
      <3>1. PICK v \in Workers : wpc[v] = "run" /\ wrq[v] = s
        BY <2>2 DEF IInv, States
      <3> QED
        BY <3>1
    <2> QED
      BY <2>1, <2>2
  <1>5. \A v \in Workers : wpc'[v] = "run" => sess'[wrq'[v]] = "run"
    BY <1>1, <1>2
  <1>6. \A v, u \in Workers :
          wpc'[v] = "run" /\ wpc'[u] = "run" /\ wrq'[v] = wrq'[u] => v = u
    BY <1>2 DEF IInv, States
  <1> QED
    BY <1>3, <1>4, <1>5, <1>6 DEF States

\* Lck_CondWait returns, and there is work.
LEMMA WakeToWork ==
  ASSUME IInv, NEW w \in Workers, Wake(w), wrq[w] # None
  PROVE  IInv'
  <1> USE DEF poolVars, feederVars, timerVars, herderVars
  <1> DEFINE r == wrq[w]
  <1>1. /\ w \in signalled /\ signalled' = signalled \ {w}
        /\ wpc' = [wpc EXCEPT ![w] = "run"] /\ sess' = [sess EXCEPT ![r] = "run"]
        /\ unsummed' = unsummed \cup {w}
        /\ UNCHANGED <<nwq, nthrMax, ovflMax, idle, overflow, nthr, wpool, wrq, feederVars,
                       timerVars, herderVars>>
    BY DEF Wake
  <1>2. wpc[w] = "wait" /\ r \in Sessions /\ signalled \subseteq Workers
    BY <1>1 DEF IInv, Threads, TypeOK
  <1>3. Due(r) /\ sess[r] = "due"
    BY <1>2 DEF IInv, States, Due
  <1>4. /\ \A v \in Workers : wpc'[v] = IF v = w THEN "run" ELSE wpc[v]
        /\ \A v \in Workers : wrq'[v] = IF v = w THEN r ELSE wrq[v]
        /\ \A s \in Sessions : sess'[s] = IF s = r THEN "run" ELSE sess[s]
    BY <1>1 DEF IInv, TypeOK
  <1>5. TypeOK'
    BY <1>1, <1>2 DEF IInv, TypeOK
  <1>6. \A f \in Feeders : fw[f] # w
    BY <1>1, PoolFacts DEF IInv, Feeding
  <1>7. victim # w
    BY <1>1, PoolFacts DEF IInv, VictimHasNoWork
  <1>8. \A s \in Sessions : Due(s)' <=> (Due(s) /\ s # r)
    <2>1. /\ \A p \in Pools : r \notin Range(overflow[p])
          /\ \A f \in Feeders : fr[f] # r
          /\ \A v \in Workers : v # w /\ wpc[v] = "wait" => wrq[v] # r
      BY <1>2, PoolFacts DEF IInv, Places
    <2>2. \A v \in Workers : (wpc'[v] = "wait") <=> (wpc[v] = "wait" /\ v # w)
      BY <1>4
    <2> QED
      BY <1>1, <2>1, <2>2 DEF Due
  <1> HIDE DEF r
  <1>9. Timer'
    BY <1>1 DEF IInv, Timer
  <1>10. Threads'
    BY <1>1, <1>2, <1>4 DEF IInv, Threads
  <1>11. Feeding' /\ VictimHasNoWork'
    BY <1>1, <1>4, <1>6, <1>7 DEF IInv, Feeding, VictimHasNoWork, TypeOK
  <1>12. Idle' /\ Counted'
    <2>1. \A q \in Pools : Started(q)' = Started(q)
      BY <1>1, <1>2, <1>4 DEF Started
    <2>2. Picked' \ {w} = Picked \ {w} /\ w \in Picked
      BY <1>1 DEF Picked
    <2>3. \A q \in Pools : Sleepers(q)' = Sleepers(q)
      BY <1>1, <1>2, <1>4, <2>2 DEF Sleepers
    <2> QED
      BY <1>1, <2>1, <2>3 DEF IInv, Idle, Counted
  <1>13. Places' /\ WorkConserving'
    <2>1. \A v \in Workers : (wpc'[v] = "wait") => (wpc[v] = "wait")
      BY <1>4
    <2> QED
      BY <1>1, <2>1 DEF IInv, Places, WorkConserving
  <1>14. States'
    BY <1>2, <1>3, <1>4, <1>8, NowRunning
  <1> QED
    BY <1>5, <1>9, <1>10, <1>11, <1>12, <1>13, <1>14 DEF IInv

\* It returns, and there is none: the thread ends.
LEMMA WakeToEnd ==
  ASSUME IInv, NEW w \in Workers, Wake(w), wrq[w] = None
  PROVE  IInv'
  <1> USE DEF poolVars, feederVars, timerVars, herderVars
  <1>0. PICK p \in Pools : p = wpool[w]
    BY DEF IInv, Threads, Wake
  <1>1. /\ w \in signalled /\ signalled' = signalled \ {w}
        /\ wpc' = [wpc EXCEPT ![w] = "unborn"] /\ wpool' = [wpool EXCEPT ![w] = None]
        /\ nthr' = [nthr EXCEPT ![p] = @ - 1]
        /\ unsummed' = unsummed \ {w}
        /\ UNCHANGED <<nwq, nthrMax, ovflMax, idle, overflow, sess, wrq, feederVars,
                       timerVars, herderVars>>
    BY <1>0 DEF Wake
  <1>2. wpc[w] = "wait" /\ signalled \subseteq Workers
    BY <1>1 DEF IInv, Threads, TypeOK
  <1>3. \A v \in Workers : /\ wpc'[v] = (IF v = w THEN "unborn" ELSE wpc[v])
                           /\ wpool'[v] = (IF v = w THEN None ELSE wpool[v])
    BY <1>1 DEF IInv, TypeOK
  <1>4. /\ Started(p)' = Started(p) \ {w} /\ w \in Started(p)
        /\ \A q \in Pools : q # p => Started(q)' = Started(q)
    <2>1. \A q \in Pools : Started(q)' = Started(q) \ {w}
      <3> TAKE q \in Pools
      <3>1. \A v \in Workers : v \in Started(q)' <=> (v \in Started(q) /\ v # w)
        BY <1>3 DEF Started
      <3>2. Started(q)' \subseteq Workers /\ Started(q) \subseteq Workers
        BY DEF Started
      <3> QED
        BY <3>1, <3>2
    <2>2. w \in Started(p) /\ \A q \in Pools : q # p => w \notin Started(q)
      BY <1>0, <1>2 DEF Started
    <2> QED
      BY <1>2, <2>1, <2>2
  <1>5. /\ Cardinality(Started(p) \ {w}) = Cardinality(Started(p)) - 1
        /\ Cardinality(Started(p) \ {w}) \in Nat
    <2>1. IsFiniteSet(Started(p) \ {w}) /\ Cardinality(Started(p) \ {w}) = Cardinality(Started(p)) - 1
      BY <1>4, StartedFinite, FS_RemoveElement
    <2> QED
      BY <2>1, FS_CardinalityType
  <1>6. nthr[p] = Cardinality(Started(p))
    BY <1>2 DEF IInv, Counted
  <1>7. \A q \in Pools : nthr'[q] = IF q = p THEN Cardinality(Started(p) \ {w}) ELSE nthr[q]
    BY <1>1, <1>5, <1>6 DEF IInv, TypeOK
  <1>8. nthr' \in [Pools -> Nat]
    BY <1>1, <1>5, <1>6 DEF IInv, TypeOK
  <1>9. TypeOK'
    BY <1>1, <1>2, <1>8 DEF IInv, TypeOK
  <1>10. Counted'
    BY <1>4, <1>7 DEF IInv, Counted
  <1>11. (\A f \in Feeders : fw[f] # w) /\ victim # w
    BY <1>1, PoolFacts DEF IInv, Feeding, VictimHasNoWork
  <1>12. Timer'
    BY <1>1 DEF IInv, Timer
  <1>13. Threads'
    BY <1>1, <1>2, <1>3 DEF IInv, Threads
  <1>14. Feeding' /\ VictimHasNoWork'
    BY <1>1, <1>3, <1>11 DEF IInv, Feeding, VictimHasNoWork, TypeOK
  <1>15. Idle'
    <2>1. Picked' \ {w} = Picked \ {w} /\ w \in Picked
      BY <1>1 DEF Picked
    <2>2. \A q \in Pools : Sleepers(q)' = Sleepers(q)
      BY <1>1, <1>2, <1>3, <2>1 DEF Sleepers
    <2> QED
      BY <1>1, <2>2 DEF IInv, Idle
  <1>16. \A v \in Workers : /\ (wpc'[v] = "wait") <=> (wpc[v] = "wait" /\ v # w)
                            /\ (wpc'[v] = "run") <=> (wpc[v] = "run")
    BY <1>2, <1>3
  <1>17. Places' /\ WorkConserving'
    BY <1>1, <1>16 DEF IInv, Places, WorkConserving
  <1>18. States'
    <2>1. \A s \in Sessions : Due(s)' <=> Due(s)
      BY <1>1, <1>16, PoolFacts DEF Due
    <2> QED
      BY <1>1, <1>16, <2>1 DEF IInv, States
  <1> QED
    BY <1>9, <1>10, <1>12, <1>13, <1>14, <1>15, <1>17, <1>18 DEF IInv

\* A thread at the top of its loop has started, and may only now be counted.
LEMMA CountAtTop ==
  ASSUME IInv, NEW w \in Workers, wpc[w] \in {"born", "tail"},
         NEW to \in {"wait", "run"}, wpc' = [wpc EXCEPT ![w] = to], wpool' = wpool,
         nthr' = IF wpc[w] = "born" THEN [nthr EXCEPT ![wpool[w]] = @ + 1] ELSE nthr
  PROVE  Counted' /\ nthr' \in [Pools -> Nat]
  <1>1. PICK p \in Pools : p = wpool[w]
    BY DEF IInv, Threads
  <1>2. \A v \in Workers : wpc'[v] = IF v = w THEN to ELSE wpc[v]
    BY DEF IInv, TypeOK
  <1>3. CASE wpc[w] = "tail"
    <2>1. \A q \in Pools : Started(q)' = Started(q)
      BY <1>2, <1>3 DEF Started
    <2> QED
      BY <1>3, <2>1 DEF IInv, Counted, TypeOK
  <1>4. CASE wpc[w] = "born"
    <2>1. /\ w \notin Started(p) /\ Started(p)' = Started(p) \cup {w}
          /\ \A q \in Pools : q # p => Started(q)' = Started(q)
      BY <1>1, <1>2, <1>4 DEF Started
    <2>2. Cardinality(Started(p) \cup {w}) = Cardinality(Started(p)) + 1
      BY <2>1, StartedFinite, FS_AddElement
    <2>3. nthr[p] = Cardinality(Started(p)) /\ nthr \in [Pools -> Nat]
      BY <1>1 DEF IInv, Counted, TypeOK
    <2>4. \A q \in Pools : nthr'[q] = IF q = p THEN nthr[p] + 1 ELSE nthr[q]
      BY <1>1, <1>4, <2>3
    <2>5. nthr' \in [Pools -> Nat]
      BY <1>1, <1>4, <2>3
    <2>6. Counted'
      BY <2>1, <2>2, <2>3, <2>4 DEF IInv, Counted
    <2> QED
      BY <2>5, <2>6
  <1> QED
    BY <1>3, <1>4

\* The queue has work: the thread takes the first of it.
LEMMA TopTakes ==
  ASSUME IInv, NEW w \in Workers, wpc[w] \in {"born", "tail"}, NEW p \in Pools, p = wpool[w],
         overflow[p] # <<>>,
         wrq' = [wrq EXCEPT ![w] = Head(overflow[p])],
         overflow' = [overflow EXCEPT ![p] = Tail(@)],
         wpc' = [wpc EXCEPT ![w] = "run"],
         sess' = [sess EXCEPT ![Head(overflow[p])] = "run"],
         unsummed' \subseteq unsummed \cup {w}, idle' = idle,
         nthr' = IF wpc[w] = "born" THEN [nthr EXCEPT ![wpool[w]] = @ + 1] ELSE nthr,
         UNCHANGED <<nwq, nthrMax, ovflMax, wpool, signalled, feederVars, timerVars, herderVars>>
  PROVE  IInv'
  <1> USE DEF feederVars, timerVars, herderVars
  <1>1. PICK r : r = Head(overflow[p])
    OBVIOUS
  <1>2. /\ r \in Sessions /\ r \in Range(overflow[p]) /\ Tail(overflow[p]) \in Seq(Sessions)
        /\ IsInjective(Tail(overflow[p])) /\ Range(Tail(overflow[p])) = Range(overflow[p]) \ {r}
    BY <1>1, TailRange DEF IInv, TypeOK, Places
  <1>3. Due(r) /\ sess[r] = "due"
    BY <1>2 DEF IInv, States, Due
  <1>4. /\ \A v \in Workers : wpc'[v] = IF v = w THEN "run" ELSE wpc[v]
        /\ \A v \in Workers : wrq'[v] = IF v = w THEN r ELSE wrq[v]
        /\ \A s \in Sessions : sess'[s] = IF s = r THEN "run" ELSE sess[s]
    BY <1>1, <1>2 DEF IInv, TypeOK
  <1>5. /\ \A q \in Pools : q # p => overflow'[q] = overflow[q]
        /\ overflow'[p] = Tail(overflow[p])
    BY DEF IInv, TypeOK
  <1>6. \A q \in Pools : IsInjective(overflow'[q]) /\ Range(overflow'[q]) = Range(overflow[q]) \ {r}
    <2> TAKE q \in Pools
    <2>1. CASE q = p
      BY <1>2, <1>5, <2>1
    <2>2. CASE q # p
      <3>1. r \notin Range(overflow[q])
        BY <1>2, <2>2 DEF IInv, Places
      <3> QED
        BY <1>5, <2>2, <3>1 DEF IInv, Places
    <2> QED
      BY <2>1, <2>2
  <1>7. Counted' /\ nthr' \in [Pools -> Nat]
    BY CountAtTop
  <1>8. TypeOK'
    <2>1. overflow' \in [Pools -> Seq(Sessions)]
      BY <1>2 DEF IInv, TypeOK
    <2>2. wrq' \in [Workers -> Sessions \cup {None}] /\ unsummed' \subseteq Workers
      BY <1>1, <1>2 DEF IInv, TypeOK
    <2>3. sess' \in [Sessions -> {"out", "due", "run", "dropped"}]
      BY DEF IInv, TypeOK
    <2>4. wpc' \in [Workers -> {"unborn", "born", "wait", "run", "tail"}]
      BY DEF IInv, TypeOK
    <2> QED
      BY <1>7, <2>1, <2>2, <2>3, <2>4 DEF IInv, TypeOK
  <1>9. w \notin signalled /\ signalled \subseteq Workers
    BY DEF IInv, Threads, TypeOK
  <1>10. Timer'
    BY DEF IInv, Timer
  <1>11. Threads'
    BY <1>2, <1>4, <1>9 DEF IInv, Threads
  <1>12. Feeding' /\ VictimHasNoWork'
    <2>0. \A f \in Feeders : fpc[f] = "hand" =>
            /\ fw[f] \in Workers /\ fw[f] # w /\ wpc'[fw[f]] = wpc[fw[f]] /\ wrq'[fw[f]] = wrq[fw[f]]
      BY <1>4 DEF IInv, Feeding
    <2>1. Feeding'
      BY <2>0 DEF IInv, Feeding
    <2>2. VictimHasNoWork'
      BY <1>4 DEF IInv, VictimHasNoWork, TypeOK
    <2> QED
      BY <2>1, <2>2
  <1>13. \A v \in Workers : /\ (wpc'[v] = "wait") <=> (wpc[v] = "wait")
                            /\ wpc[v] = "wait" => wrq'[v] = wrq[v]
    BY <1>4
  <1>14. Idle'
    <2>1. \A q \in Pools : Sleepers(q)' = Sleepers(q)
      BY <1>13 DEF Sleepers, Picked
    <2> QED
      BY <2>1 DEF IInv, Idle
  <1>15. Places'
    <2>1. \A q \in Pools : \A x : x \in Range(overflow'[q]) => x \in Range(overflow[q])
      BY <1>6
    <2>2. (\A q \in Pools : IsInjective(overflow'[q])) /\ UNCHANGED fr
      BY <1>6
    <2>3. Places
      BY DEF IInv
    <2>4. \A u, v \in Workers :
            wpc'[u] = "wait" /\ wpc'[v] = "wait" /\ wrq'[u] # None /\ wrq'[u] = wrq'[v] => u = v
      BY <1>13, <2>3 DEF Places
    <2>5. \A q \in Pools, v \in Workers : wpc'[v] = "wait" => wrq'[v] \notin Range(overflow'[q])
      BY <1>13, <2>1, <2>3 DEF Places
    <2>6. \A f \in Feeders, v \in Workers :
            fr'[f] # None /\ wpc'[v] = "wait" => wrq'[v] # fr'[f]
      BY <1>13, <2>2, <2>3 DEF Places
    <2>7. \A q \in Pools, f \in Feeders : fr'[f] \notin Range(overflow'[q])
      BY <2>1, <2>2, <2>3 DEF Places
    <2>8. \A q, o \in Pools : \A s \in Sessions :
            s \in Range(overflow'[q]) /\ s \in Range(overflow'[o]) => q = o
      BY <2>1, <2>3 DEF Places
    <2>9. \A f, g \in Feeders : fr'[f] # None /\ fr'[f] = fr'[g] => f = g
      BY <2>2, <2>3 DEF Places
    <2> QED
      BY <2>2, <2>4, <2>5, <2>6, <2>7, <2>8, <2>9 DEF Places
  <1>16. WorkConserving'
    BY <1>5 DEF IInv, WorkConserving
  <1>17. States'
    <2>1. /\ \A f \in Feeders : fr[f] # r
          /\ \A v \in Workers : wpc[v] = "wait" => wrq[v] # r
      BY <1>2 DEF IInv, Places
    <2>2. \A s \in Sessions : Due(s)' <=> (Due(s) /\ s # r)
      <3> TAKE s \in Sessions
      <3>1. /\ (\E q \in Pools : s \in Range(overflow'[q]))
               <=> ((\E q \in Pools : s \in Range(overflow[q])) /\ s # r)
        BY <1>6
      <3>2. (\E f \in Feeders : fr'[f] = s) <=> ((\E f \in Feeders : fr[f] = s) /\ s # r)
        BY <2>1
      <3>3. (\E v \in Workers : wpc'[v] = "wait" /\ wrq'[v] = s)
              <=> ((\E v \in Workers : wpc[v] = "wait" /\ wrq[v] = s) /\ s # r)
        BY <1>13, <2>1
      <3> QED
        BY <3>1, <3>2, <3>3 DEF Due
    <2> QED
      BY <1>2, <1>3, <1>4, <2>2, NowRunning
  <1> QED
    BY <1>7, <1>8, <1>10, <1>11, <1>12, <1>14, <1>15, <1>16, <1>17 DEF IInv

\* The queue is empty: the thread goes on the idle list, its statistics summed.
LEMMA TopSleeps ==
  ASSUME IInv, NEW w \in Workers, wpc[w] \in {"born", "tail"}, NEW p \in Pools, p = wpool[w],
         overflow[p] = <<>>,
         wrq' = [wrq EXCEPT ![w] = None],
         idle' = [idle EXCEPT ![p] = <<w>> \o @],
         wpc' = [wpc EXCEPT ![w] = "wait"],
         unsummed' \subseteq unsummed \ {w}, UNCHANGED <<overflow, sess>>,
         nthr' = IF wpc[w] = "born" THEN [nthr EXCEPT ![wpool[w]] = @ + 1] ELSE nthr,
         UNCHANGED <<nwq, nthrMax, ovflMax, wpool, signalled, feederVars, timerVars, herderVars>>
  PROVE  IInv'
  <1> USE DEF feederVars, timerVars, herderVars
  <1>1. /\ \A v \in Workers : wpc'[v] = IF v = w THEN "wait" ELSE wpc[v]
        /\ \A v \in Workers : wrq'[v] = IF v = w THEN None ELSE wrq[v]
    BY DEF IInv, TypeOK
  <1>2. w \notin Range(idle[p])
    BY DEF IInv, Idle, Sleepers
  <1>3. /\ <<w>> \o idle[p] \in Seq(Workers) /\ IsInjective(<<w>> \o idle[p])
        /\ Range(<<w>> \o idle[p]) = Range(idle[p]) \cup {w}
    <2>1. idle[p] \in Seq(Workers) /\ IsInjective(idle[p])
      BY DEF IInv, TypeOK, Idle
    <2> QED
      BY <1>2, <2>1, ConsRange
  <1>4. Counted' /\ nthr' \in [Pools -> Nat]
    BY CountAtTop
  <1>5. TypeOK'
    <2>1. idle' \in [Pools -> Seq(Workers)]
      BY <1>3 DEF IInv, TypeOK
    <2>2. wrq' \in [Workers -> Sessions \cup {None}] /\ unsummed' \subseteq Workers
      BY DEF IInv, TypeOK
    <2>3. wpc' \in [Workers -> {"unborn", "born", "wait", "run", "tail"}]
      BY DEF IInv, TypeOK
    <2> QED
      BY <1>4, <2>1, <2>2, <2>3 DEF IInv, TypeOK
  <1>6. /\ w \notin signalled /\ signalled \subseteq Workers
        /\ w # victim /\ \A f \in Feeders : fw[f] # w
    <2>1. w \notin signalled /\ signalled \subseteq Workers
      BY DEF IInv, Threads, TypeOK
    <2>2. w # victim
      BY PoolFacts DEF IInv, VictimHasNoWork
    <2>3. \A f \in Feeders : fw[f] # w
      BY PoolFacts DEF IInv, Feeding
    <2> QED
      BY <2>1, <2>2, <2>3
  <1>7. Timer'
    BY DEF IInv, Timer
  <1>8. Threads'
    BY <1>1, <1>6 DEF IInv, Threads
  <1>9. Feeding' /\ VictimHasNoWork'
    <2>1. Feeding'
      BY <1>1, <1>6 DEF IInv, Feeding, TypeOK
    <2>2. VictimHasNoWork'
      BY <1>1, <1>6 DEF IInv, VictimHasNoWork, TypeOK
    <2> QED
      BY <2>1, <2>2
  <1>10. Idle'
    <2>1. w \notin Picked
      BY <1>6 DEF Picked
    <2>2. Picked' = Picked
      BY DEF Picked
    <2>3. \A q \in Pools : Sleepers(q)' = IF q = p THEN Sleepers(q) \cup {w} ELSE Sleepers(q)
      BY <1>1, <2>1, <2>2 DEF Sleepers
    <2>4. \A q \in Pools : idle'[q] = IF q = p THEN <<w>> \o idle[p] ELSE idle[q]
      BY DEF IInv, TypeOK
    <2>5. ASSUME NEW q \in Pools
          PROVE  IsInjective(idle'[q]) /\ Range(idle'[q]) = Sleepers(q)'
      <3>1. IsInjective(idle[q]) /\ Range(idle[q]) = Sleepers(q)
        BY DEF IInv, Idle
      <3>2. CASE q = p
        <4>1. idle'[q] = <<w>> \o idle[p] /\ Sleepers(q)' = Sleepers(q) \cup {w}
          BY <2>3, <2>4, <3>2
        <4>2. Range(idle[p]) = Sleepers(q)
          BY <3>1, <3>2
        <4> QED
          BY <1>3, <4>1, <4>2
      <3>3. CASE q # p
        <4>1. idle'[q] = idle[q] /\ Sleepers(q)' = Sleepers(q)
          BY <2>3, <2>4, <3>3
        <4> QED
          BY <3>1, <4>1
      <3> QED
        BY <3>2, <3>3
    <2> QED
      BY <2>5 DEF Idle
  <1>11. Places'
    <2>1. \A v \in Workers : wpc'[v] = "wait" => wrq'[v] = None \/ (wpc[v] = "wait" /\ wrq'[v] = wrq[v])
      BY <1>1
    <2>2. \A q \in Pools : None \notin Range(overflow[q])
      <3> SUFFICES ASSUME NEW q \in Pools, NEW i \in DOMAIN overflow[q]
                   PROVE  overflow[q][i] # None
        BY DEF Range
      <3>1. overflow[q] \in Seq(Sessions)
        BY DEF IInv, TypeOK
      <3>2. overflow[q][i] \in Sessions
        BY <3>1, LenProperties, ElementOfSeq
      <3> QED
        BY <3>2, PoolFacts
    <2> QED
      BY <1>1, <2>1, <2>2 DEF IInv, Places
  <1>12. WorkConserving'
    BY DEF IInv, WorkConserving, TypeOK
  <1>13. States'
    <2>1. \A s \in Sessions : Due(s)' <=> Due(s)
      BY <1>1, PoolFacts DEF Due
    <2>2. \A v \in Workers : /\ (wpc'[v] = "run") <=> (wpc[v] = "run")
                             /\ wpc[v] = "run" => wrq'[v] = wrq[v]
      BY <1>1
    <2> QED
      BY <2>1, <2>2 DEF IInv, States
  <1> QED
    BY <1>4, <1>5, <1>7, <1>8, <1>9, <1>10, <1>11, <1>12, <1>13 DEF IInv

\* The top of wrk_thread_real's loop.
LEMMA LoopTopStep ==
  ASSUME IInv, NEW w \in Workers, wpc[w] \in {"born", "tail"},
         NEW clean \in BOOLEAN, NEW dirty, dirty \subseteq unsummed,
         clean => w \notin dirty, LoopTop(w, clean, dirty),
         nthr' = IF wpc[w] = "born" THEN [nthr EXCEPT ![wpool[w]] = @ + 1] ELSE nthr,
         UNCHANGED <<nwq, nthrMax, ovflMax, wpool, signalled, feederVars, timerVars, herderVars>>
  PROVE  IInv'
  <1>1. PICK p \in Pools : p = wpool[w]
    BY DEF IInv, Threads
  <1>2. CASE overflow[p] # <<>>
    <2>1. /\ wrq' = [wrq EXCEPT ![w] = Head(overflow[p])]
          /\ overflow' = [overflow EXCEPT ![p] = Tail(@)]
          /\ wpc' = [wpc EXCEPT ![w] = "run"]
          /\ sess' = [sess EXCEPT ![Head(overflow[p])] = "run"]
          /\ unsummed' \subseteq unsummed \cup {w} /\ idle' = idle
      BY <1>1, <1>2 DEF LoopTop
    <2> QED
      BY <1>1, <1>2, <2>1, TopTakes
  <1>3. CASE overflow[p] = <<>>
    <2>1. /\ wrq' = [wrq EXCEPT ![w] = None]
          /\ idle' = [idle EXCEPT ![p] = <<w>> \o @]
          /\ wpc' = [wpc EXCEPT ![w] = "wait"]
          /\ unsummed' = (IF clean THEN dirty ELSE dirty \ {w})
          /\ UNCHANGED <<overflow, sess>>
      BY <1>1, <1>3 DEF LoopTop
    <2>2. unsummed' \subseteq unsummed \ {w}
      BY <2>1
    <2> QED
      BY <1>1, <1>3, <2>1, <2>2, TopSleeps
  <1> QED
    BY <1>2, <1>3

\* A worker's steps.
LEMMA WorkerStep ==
  ASSUME IInv, NEW w \in Workers, Worker(w)
  PROVE  IInv'
  <1>1. CASE WorkerStart(w)
    <2>1. w \notin unsummed /\ wpc[w] = "born"
      BY <1>1 DEF IInv, Threads, WorkerStart
    <2> QED
      BY <1>1, <2>1, LoopTopStep DEF WorkerStart
  <1>2. CASE Finish(w)
    <2>1. PICK locked \in BOOLEAN :
            LoopTop(w, locked, IF locked THEN unsummed \ {w} ELSE unsummed)
      BY <1>2 DEF Finish
    <2>2. PICK dirty : dirty = IF locked THEN unsummed \ {w} ELSE unsummed
      OBVIOUS
    <2>3. dirty \subseteq unsummed /\ (locked => w \notin dirty) /\ LoopTop(w, locked, dirty)
      BY <2>1, <2>2
    <2>4. /\ wpc[w] = "tail" /\ nthr' = nthr
          /\ UNCHANGED <<nwq, nthrMax, ovflMax, wpool, signalled, feederVars, timerVars, herderVars>>
      BY <1>2 DEF Finish
    <2> QED
      BY <2>3, <2>4, LoopTopStep
  <1> QED
    BY <1>1, <1>2, WakeToWork, WakeToEnd, ReleaseStep DEF Worker

-----------------------------------------------------------------------------
(* The invariant holds. *)

\* Init: there is no thread and nothing is queued.
LEMMA Initially == Init => IInv
  <1> SUFFICES ASSUME Init PROVE IInv
    OBVIOUS
  <1> USE DEF Init
  <1>1. <<>> \in Seq(Workers) /\ <<>> \in Seq(Sessions) /\ IsInjective(<<>>) /\ Range(<<>>) = {}
    BY DEF IsInjective, Range
  <1>2. 0 \in Pools /\ InitPools \in 1 .. MaxPools /\ MaxPools \in Nat
    BY PoolAssumption DEF Pools
  <1>3. TypeOK
    BY <1>1, <1>2 DEF TypeOK
  <1>4. Threads /\ Feeding /\ VictimHasNoWork
    BY DEF Threads, Feeding, VictimHasNoWork
  <1>5. Timer
    BY <1>2 DEF Timer
  <1>6. \A p \in Pools : Sleepers(p) = {} /\ Started(p) = {}
    BY DEF Sleepers, Started
  <1>7. Idle /\ Counted
    BY <1>1, <1>6, FS_EmptySet DEF Idle, Counted
  <1>8. Places
    BY <1>1 DEF Places
  <1>9. \A r \in Sessions : ~Due(r)
    BY <1>1, PoolFacts DEF Due
  <1>10. States
    BY <1>9 DEF States
  <1>11. WorkConserving
    BY DEF WorkConserving
  <1> QED
    BY <1>3, <1>4, <1>5, <1>7, <1>8, <1>10, <1>11 DEF IInv

\* Every step keeps it.
LEMMA Inductive == IInv /\ [Next]_vars => IInv'
  <1> SUFFICES ASSUME IInv, [Next]_vars PROVE IInv'
    OBVIOUS
  <1>1. ASSUME NEW f \in Feeders, NEW r \in Sessions, WRK_QueueSession(f, r) PROVE IInv'
    BY <1>1, QueueStep
  <1>2. ASSUME NEW f \in Feeders, Feeder(f) PROVE IInv'
    BY <1>2, HandOverStep, SignalHerderStep DEF Feeder
  <1>3. ASSUME NEW r \in Sessions, SES_New(r) PROVE IInv'
    BY <1>3, OutsideStep DEF SES_New
  <1>4. ASSUME NEW w \in Workers, Worker(w) PROVE IInv'
    BY <1>4, WorkerStep
  <1>5. CASE Herdtimer
    BY <1>5, ScaleStep, DecimateStep, KissStep DEF Herdtimer
  <1>6. CASE Herder
    BY <1>6, BreedStep, HerderQuiet DEF Herder
  <1>7. CASE UNCHANGED vars
    <2> USE <1>7 DEF vars, poolVars, workerVars, feederVars, timerVars, herderVars
    <2>1. TypeOK'
      BY DEF IInv, TypeOK
    <2>2. Timer'
      BY DEF IInv, Timer
    <2> QED
      BY <2>1, <2>2, Quiet
  <1> QED
    BY <1>1, <1>2, <1>3, <1>4, <1>5, <1>6, <1>7 DEF Next

\* The inductive invariant of the worker pools: who has which worker and which
\* session, at every step of every thread.
THEOREM Invariance == Spec => []IInv
  BY Initially, Inductive, PTL DEF Spec

-----------------------------------------------------------------------------
(* And it implies what the runs check. *)

\* No queue is longer than there are sessions.
LEMMA QueueBound ==
  ASSUME IInv, NEW p \in Pools, NEW i \in DOMAIN overflow[p]
  PROVE  i \in 1 .. Cardinality(Sessions) /\ overflow[p][i] \in Sessions
  <1>1. overflow[p] \in Seq(Sessions) /\ IsInjective(overflow[p])
    BY DEF IInv, TypeOK, Places
  <1>2. Len(overflow[p]) \in Nat /\ DOMAIN overflow[p] = 1 .. Len(overflow[p])
    BY <1>1, LenProperties
  <1>3. overflow[p] \in [1 .. Len(overflow[p]) -> Sessions]
    BY <1>1, LenProperties
  <1>4. overflow[p] \in Injection(1 .. Len(overflow[p]), Sessions)
    BY <1>1, <1>3 DEF Injection
  <1>5. Cardinality(1 .. Len(overflow[p])) <= Cardinality(Sessions)
    BY <1>4, PoolFacts, FS_Injection
  <1>6. Cardinality(1 .. Len(overflow[p])) = IF 1 > Len(overflow[p]) THEN 0 ELSE Len(overflow[p]) - 1 + 1
    BY <1>2, FS_Interval
  <1>7. Cardinality(Sessions) \in Nat
    BY PoolFacts, FS_CardinalityType
  <1>8. i \in Nat /\ 1 <= i /\ i <= Len(overflow[p])
    BY <1>2
  <1>9. i <= Cardinality(Sessions)
    BY <1>2, <1>5, <1>6, <1>7, <1>8
  <1> QED
    BY <1>2, <1>3, <1>7, <1>8, <1>9

\* A set of one, or of none.
LEMMA OneOrNone ==
  ASSUME NEW S, \A x, y \in S : x = y
  PROVE  Cardinality(S) = IF S = {} THEN 0 ELSE 1
  <1>1. CASE S = {}
    BY <1>1, FS_EmptySet
  <1>2. CASE S # {}
    <2>1. PICK x : x \in S
      BY <1>2
    <2>2. S = {x}
      BY <2>1
    <2> QED
      BY <1>2, <2>2, FS_Singleton
  <1> QED
    BY <1>1, <1>2

\* Who waits, waits in one place.
LEMMA WorkIsExact == IInv => WorkExact
  <1> SUFFICES ASSUME IInv, NEW r \in Sessions
               PROVE  /\ Waits(r) = (IF sess[r] = "due" THEN 1 ELSE 0)
                      /\ Cardinality({w \in Workers : wpc[w] = "run" /\ wrq[w] = r})
                           = (IF sess[r] = "run" THEN 1 ELSE 0)
    BY DEF WorkExact
  <1> DEFINE Q == {x \in Pools \X (1 .. Cardinality(Sessions)) :
                     x[2] \in DOMAIN overflow[x[1]] /\ overflow[x[1]][x[2]] = r}
             F == {f \in Feeders : fr[f] = r}
             W == {w \in Workers : wpc[w] = "wait" /\ wrq[w] = r}
             R == {w \in Workers : wpc[w] = "run" /\ wrq[w] = r}
  <1>1. Q # {} <=> \E p \in Pools : r \in Range(overflow[p])
    <2>1. ASSUME NEW x \in Q PROVE \E p \in Pools : r \in Range(overflow[p])
      BY <2>1 DEF Range
    <2>2. ASSUME NEW p \in Pools, r \in Range(overflow[p]) PROVE Q # {}
      <3>1. PICK i \in DOMAIN overflow[p] : overflow[p][i] = r
        BY <2>2 DEF Range
      <3>2. <<p, i>> \in Q
        BY <3>1, QueueBound
      <3> QED
        BY <3>2
    <2> QED
      BY <2>1, <2>2
  <1>2. \A x, y \in Q : x = y
    <2> SUFFICES ASSUME NEW x \in Q, NEW y \in Q PROVE x = y
      OBVIOUS
    <2>1. PICK p \in Pools, i \in 1 .. Cardinality(Sessions) :
            x = <<p, i>> /\ i \in DOMAIN overflow[p] /\ overflow[p][i] = r
      OBVIOUS
    <2>2. PICK q \in Pools, j \in 1 .. Cardinality(Sessions) :
            y = <<q, j>> /\ j \in DOMAIN overflow[q] /\ overflow[q][j] = r
      OBVIOUS
    <2>3. r \in Range(overflow[p]) /\ r \in Range(overflow[q])
      BY <2>1, <2>2 DEF Range
    <2>4. p = q
      BY <2>3 DEF IInv, Places
    <2>5. i = j
      BY <2>1, <2>2, <2>4 DEF IInv, Places, IsInjective
    <2> QED
      BY <2>1, <2>2, <2>4, <2>5
  <1>3. /\ \A x, y \in F : x = y
        /\ \A x, y \in W : x = y
        /\ \A x, y \in R : x = y
    BY PoolFacts DEF IInv, Places, States
  <1>4. /\ F # {} <=> \E f \in Feeders : fr[f] = r
        /\ W # {} <=> \E w \in Workers : wpc[w] = "wait" /\ wrq[w] = r
        /\ R # {} <=> \E w \in Workers : wpc[w] = "run" /\ wrq[w] = r
    OBVIOUS
  <1>5. /\ ~(Q # {} /\ F # {}) /\ ~(Q # {} /\ W # {}) /\ ~(F # {} /\ W # {})
    BY <1>1, <1>4, PoolFacts DEF IInv, Places
  <1>6. sess[r] = "due" <=> (Q # {} \/ F # {} \/ W # {})
    BY <1>1, <1>4 DEF IInv, States, Due
  <1>7. sess[r] = "run" <=> R # {}
    BY <1>4 DEF IInv, States
  <1>8. Waits(r) = Cardinality(Q) + Cardinality(F) + Cardinality(W)
    BY DEF Waits
  <1>9. /\ Cardinality(Q) = (IF Q = {} THEN 0 ELSE 1)
        /\ Cardinality(F) = (IF F = {} THEN 0 ELSE 1)
        /\ Cardinality(W) = (IF W = {} THEN 0 ELSE 1)
        /\ Cardinality(R) = (IF R = {} THEN 0 ELSE 1)
    <2> HIDE DEF Q, F, W, R
    <2> QED
      BY <1>2, <1>3, OneOrNone
  <1> HIDE DEF Q, F, W
  <1>10. Waits(r) = (IF sess[r] = "due" THEN 1 ELSE 0)
    BY <1>5, <1>6, <1>8, <1>9
  <1>11. Cardinality(R) = (IF sess[r] = "run" THEN 1 ELSE 0)
    BY <1>7, <1>9
  <1> QED
    BY <1>10, <1>11

\* The idle lists and the counts are those of ThreadsExact.
LEMMA ThreadsAreExact == IInv => ThreadsExact
  <1> SUFFICES ASSUME IInv, NEW p \in Pools
               PROVE  LET mine(pcs) == {w \in Workers : wpool[w] = p /\ wpc[w] \in pcs} IN
                      /\ nthr[p] = Cardinality(mine({"wait", "run", "tail"}))
                      /\ IsInjective(idle[p])
                      /\ Range(idle[p]) =
                           mine({"wait"}) \ (signalled \cup {victim} \cup {fw[f] : f \in Feeders})
    BY DEF ThreadsExact
  <1>1. nthr[p] = Cardinality(Started(p)) /\ IsInjective(idle[p]) /\ Range(idle[p]) = Sleepers(p)
    BY DEF IInv, Counted, Idle
  <1>2. {w \in Workers : wpool[w] = p /\ wpc[w] \in {"wait"}} = {w \in Workers : wpool[w] = p /\ wpc[w] = "wait"}
    OBVIOUS
  <1> QED
    BY <1>1, <1>2 DEF Started, Sleepers, Picked

\* PoolInv (WRK_Queue, wrk_thread_real, wrk_herder_thread and wrk_herdtimer_thread):
\* an accepted session is in exactly one place until exactly one worker runs it,
\* the idle lists and thread counts are exact, a victim gets no work, sleepers
\* have their statistics summed up; for any number of threads and pools.
THEOREM PoolTheorem == Spec => []PoolInv
  <1>1. IInv => PoolInv
    <2>1. IInv => TypeOK /\ VictimHasNoWork
      BY DEF IInv
    <2>2. IInv => SleepersSummed
      BY DEF IInv, Threads, SleepersSummed
    <2> QED
      BY <2>1, <2>2, WorkIsExact, ThreadsAreExact DEF PoolInv
  <1> QED
    BY <1>1, Invariance, PTL

\* WorkConserving (WRK_Queue against the top of wrk_thread_real's loop): no
\* session waits in the queue of a pool that has an idle worker.
THEOREM WorkConservingTheorem == Spec => []WorkConserving
  <1>1. IInv => WorkConserving
    BY DEF IInv
  <1> QED
    BY <1>1, Invariance, PTL
-----------------------------------------------------------------------------
(* What FlattenSeq gives. *)

\* A set of naturals that is not empty has a least element.
LEMMA LeastOf ==
  ASSUME NEW S \in SUBSET Nat, S # {}
  PROVE  \E x \in S : \A y \in S : x <= y
<1>1. PICK x \in S : \A y \in S : ~ (<<y, x>> \in OpToRel(<, Nat))
  BY NatLessThanWellFounded, WFMin
<1>2. ASSUME NEW y \in S PROVE x <= y
  <2>1. ~ (y < x)
    BY <1>1 DEF OpToRel
  <2> QED  BY <2>1
<1> QED  BY <1>2

\* The part of a sequence from a to b.
LEMMA PartOf ==
  ASSUME NEW U, NEW s \in Seq(U), NEW a \in Nat \ {0}, NEW b \in Nat, b <= Len(s), a <= b + 1
  PROVE  /\ SubSeq(s, a, b) \in Seq(U) /\ Len(SubSeq(s, a, b)) = (b - a) + 1
         /\ \A i \in 1 .. (b - a) + 1 : SubSeq(s, a, b)[i] = s[(a + i) - 1]
<1>1. Len(s) \in Nat /\ \A i \in 1 .. Len(s) : s[i] \in U
  BY LenProperties, ElementOfSeq
<1>2. \A i \in a .. b : s[i] \in U
  BY <1>1
<1>3. /\ SubSeq(s, a, b) \in Seq(U) /\ Len(SubSeq(s, a, b)) = IF a <= b THEN b - a + 1 ELSE 0
      /\ \A i \in 1 .. b - a + 1 : SubSeq(s, a, b)[i] = s[a + i - 1]
  BY <1>2, SubSeqProperties
<1> QED  BY <1>3

\* Two sequences, one behind the other.
IsJoin(c, a, b, m, n, U) ==
  /\ c \in Seq(U) /\ Len(c) = m + n /\ m \in Nat /\ n \in Nat
  /\ \A i \in 1 .. m + n : c[i] = IF i <= m THEN a[i] ELSE b[i - m]

\* The elements of a concatenation.
LEMMA Joined ==
  ASSUME NEW U, NEW a \in Seq(U), NEW b \in Seq(U), NEW m, NEW n, Len(a) = m, Len(b) = n
  PROVE  IsJoin(a \o b, a, b, m, n, U)
BY ConcatProperties, LenProperties DEF IsJoin

\* The first m elements of a sequence.
LEMMA Upto ==
  ASSUME NEW U, NEW s \in Seq(U), NEW m \in 0 .. Len(s)
  PROVE  /\ SubSeq(s, 1, m) \in Seq(U) /\ Len(SubSeq(s, 1, m)) = m
         /\ \A i \in 1 .. m : SubSeq(s, 1, m)[i] = s[i]
<1> DEFINE q == SubSeq(s, 1, m)
<1>0. Len(s) \in Nat /\ m \in Nat
  BY LenProperties
<1>1. q \in Seq(U) /\ Len(q) = (m - 1) + 1 /\ \A i \in 1 .. (m - 1) + 1 : q[i] = s[(1 + i) - 1]
  BY <1>0, PartOf
<1> HIDE DEF q
<1>2. (m - 1) + 1 = m /\ \A i \in 1 .. m : (1 + i) - 1 = i
  BY <1>0
<1> QED  BY <1>1, <1>2 DEF q

\* What follows the first m elements.
LEMMA After ==
  ASSUME NEW U, NEW s \in Seq(U), NEW m \in 0 .. Len(s)
  PROVE  /\ SubSeq(s, m + 1, Len(s)) \in Seq(U) /\ Len(SubSeq(s, m + 1, Len(s))) = Len(s) - m
         /\ \A i \in 1 .. Len(s) - m : SubSeq(s, m + 1, Len(s))[i] = s[m + i]
<1> DEFINE q == SubSeq(s, m + 1, Len(s))
<1>0. Len(s) \in Nat /\ m \in Nat
  BY LenProperties
<1>1. /\ q \in Seq(U) /\ Len(q) = (Len(s) - (m + 1)) + 1
      /\ \A i \in 1 .. (Len(s) - (m + 1)) + 1 : q[i] = s[((m + 1) + i) - 1]
  BY <1>0, PartOf
<1> HIDE DEF q
<1>2. (Len(s) - (m + 1)) + 1 = Len(s) - m /\ \A i \in 1 .. Len(s) - m : ((m + 1) + i) - 1 = m + i
  BY <1>0
<1> QED  BY <1>1, <1>2 DEF q

Associate(a, b, c) == (a \o b) \o c = a \o (b \o c)

\* Concatenation is associative, one instance at a time.
LEMMA Associates ==
  ASSUME NEW U, NEW a \in Seq(U), NEW b \in Seq(U), NEW c \in Seq(U)
  PROVE  Associate(a, b, c)
BY ConcatAssociative DEF Associate

\* The partial results of FlattenSeq.
IsFlat(f, s, n) == f = [i \in 1 .. n |-> IF i = 1 THEN s[i] ELSE f[i - 1] \o s[i]]

FlatTo(f, s, n, U) == IsFlat(f, s, n) /\ \A i \in 1 .. n : f[i] \in Seq(U)

FlatAt(f, s, i, U) == f[i] = (IF i = 1 THEN s[i] ELSE f[i - 1] \o s[i]) /\ f[i] \in Seq(U)

\* The partial results, by element.
LEMMA FlatStep ==
  ASSUME NEW f, NEW s, NEW n, NEW U, FlatTo(f, s, n, U), NEW i \in 1 .. n
  PROVE  FlatAt(f, s, i, U)
BY DEF FlatTo, IsFlat, FlatAt

\* FlattenSeq is defined by its partial results.
LEMMA FlatPartial ==
  ASSUME NEW U, NEW s \in Seq(Seq(U)), NEW n \in 0 .. Len(s)
  PROVE  \E f : FlatTo(f, s, n, U)
<1> DEFINE Bad == {m \in 0 .. Len(s) : ~ \E f : FlatTo(f, s, m, U)}
<1>0. Len(s) \in Nat /\ \A i \in 1 .. Len(s) : s[i] \in Seq(U)
  BY LenProperties, ElementOfSeq
<1>1. SUFFICES ASSUME Bad # {} PROVE FALSE
  OBVIOUS
<1>2. Bad \in SUBSET Nat
  BY <1>0
<1> HIDE DEF Bad
<1>3. PICK m \in Bad : \A y \in Bad : m <= y
  BY <1>1, <1>2, LeastOf
<1>4. m \in 0 .. Len(s) /\ m \in Nat /\ ~ \E f : FlatTo(f, s, m, U)
  BY <1>0 DEF Bad
<1>5. CASE m = 0
  <2> DEFINE e == [i \in 1 .. 0 |-> IF i = 1 THEN s[i] ELSE s[i] \o s[i]]
  <2>1. e = [i \in 1 .. 0 |-> IF i = 1 THEN s[i] ELSE e[i - 1] \o s[i]]
    OBVIOUS
  <2> QED  BY <1>4, <1>5, <2>1 DEF FlatTo, IsFlat
<1>6. CASE m > 0
  <2>1. m - 1 \in 0 .. Len(s) /\ ~ (m <= m - 1)
    BY <1>0, <1>4, <1>6
  <2>2. m - 1 \notin Bad
    BY <1>3, <2>1
  <2>3. PICK g : FlatTo(g, s, m - 1, U)
    BY <2>1, <2>2 DEF Bad
  <2> DEFINE f == [i \in 1 .. m |-> IF i = m THEN (IF m = 1 THEN s[m] ELSE g[m - 1] \o s[m]) ELSE g[i]]
  <2>4. ASSUME NEW i \in 1 .. m PROVE f[i] = (IF i = 1 THEN s[i] ELSE f[i - 1] \o s[i]) /\ f[i] \in Seq(U)
    <3>1. CASE i = m /\ m = 1
      BY <1>0, <1>4, <3>1
    <3>2. CASE i = m /\ m # 1
      <4>1. m - 1 \in 1 .. m - 1 /\ m - 1 \in 1 .. m /\ m - 1 # m /\ m \in 1 .. Len(s)
        BY <1>0, <1>4, <1>6, <3>2
      <4>2. g[m - 1] \in Seq(U) /\ s[m] \in Seq(U)
        BY <1>0, <2>3, <4>1 DEF FlatTo
      <4>3. f[m] = g[m - 1] \o s[m] /\ f[m - 1] = g[m - 1]
        BY <1>4, <1>6, <3>2, <4>1
      <4>4. g[m - 1] \o s[m] \in Seq(U)
        BY <4>2, ConcatProperties
      <4> QED  BY <3>2, <4>3, <4>4
    <3>3. CASE i # m
      <4>1. i \in 1 .. m - 1 /\ (i # 1 => i - 1 \in 1 .. m /\ i - 1 # m)
        BY <1>4, <3>3
      <4>2. g[i] = (IF i = 1 THEN s[i] ELSE g[i - 1] \o s[i]) /\ g[i] \in Seq(U)
        BY <2>3, <4>1 DEF FlatTo, IsFlat
      <4>3. f[i] = g[i] /\ (i # 1 => f[i - 1] = g[i - 1])
        BY <3>3, <4>1
      <4> QED  BY <4>2, <4>3
    <3> QED  BY <3>1, <3>2, <3>3
  <2>5. DOMAIN f = 1 .. m /\ f = [i \in 1 .. m |-> f[i]]
    OBVIOUS
  <2> HIDE DEF f
  <2>6. f = [i \in 1 .. m |-> IF i = 1 THEN s[i] ELSE f[i - 1] \o s[i]]
    BY <2>4, <2>5
  <2> QED  BY <1>4, <2>4, <2>6 DEF FlatTo, IsFlat
<1> QED  BY <1>4, <1>5, <1>6

\* Partial results depend only on the pieces they are made of.
LEMMA FlatSame ==
  ASSUME NEW f, NEW g, NEW s, NEW t, NEW n \in Nat, NEW m \in Nat, IsFlat(f, s, n), IsFlat(g, t, m),
         NEW i \in 1 .. n, i <= m, \A a \in 1 .. i : s[a] = t[a]
  PROVE  f[i] = g[i]
<1> DEFINE Bad == {a \in 1 .. i : f[a] # g[a]}
<1>1. SUFFICES ASSUME Bad # {} PROVE FALSE
  OBVIOUS
<1>2. Bad \in SUBSET Nat
  OBVIOUS
<1> HIDE DEF Bad
<1>3. PICK a \in Bad : \A y \in Bad : a <= y
  BY <1>1, <1>2, LeastOf
<1>4. a \in 1 .. i /\ a \in 1 .. n /\ a \in 1 .. m /\ f[a] # g[a]
  BY DEF Bad
<1>5. /\ f[a] = IF a = 1 THEN s[a] ELSE f[a - 1] \o s[a]
      /\ g[a] = IF a = 1 THEN t[a] ELSE g[a - 1] \o t[a]
  BY <1>4 DEF IsFlat
<1>6. a # 1 /\ a - 1 \in 1 .. i /\ ~ (a <= a - 1) /\ s[a] = t[a]
  BY <1>4, <1>5
<1>7. f[a - 1] = g[a - 1]
  BY <1>3, <1>6 DEF Bad
<1> QED  BY <1>4, <1>5, <1>6, <1>7

\* What FlattenSeq gives is the last of its partial results.
LEMMA FlatIs ==
  ASSUME NEW U, NEW s \in Seq(Seq(U)), s # <<>>
  PROVE  \E f : FlatTo(f, s, Len(s), U) /\ FlattenSeq(s) = f[Len(s)] /\ FlattenSeq(s) \in Seq(U)
<1> DEFINE g == CHOOSE f : IsFlat(f, s, Len(s))
<1>1. Len(s) \in Nat /\ Len(s) # 0 /\ Len(s) \in 1 .. Len(s)
  BY EmptySeq, LenProperties
<1>2. PICK f : FlatTo(f, s, Len(s), U)
  BY <1>1, FlatPartial
<1>3. \E h : IsFlat(h, s, Len(s))
  BY <1>2 DEF FlatTo
<1>4. IsFlat(g, s, Len(s))
  BY <1>3, Zenon
<1>5. FlattenSeq(s) = g[Len(s)]
  BY <1>1 DEF FlattenSeq, IsFlat
<1> HIDE DEF g
<1>6. ASSUME NEW i \in 1 .. Len(s) PROVE f[i] = g[i]
  <2>1. IsFlat(f, s, Len(s)) /\ \A m \in 1 .. i : s[m] = s[m]
    BY <1>2 DEF FlatTo
  <2> QED  BY <1>1, <1>4, <2>1, FlatSame
<1>7. FlattenSeq(s) = f[Len(s)] /\ f[Len(s)] \in Seq(U)
  BY <1>1, <1>2, <1>5, <1>6 DEF FlatTo
<1> QED  BY <1>2, <1>7

\* It gives a sequence of units, none for no pieces.
LEMMA FlatSeq ==
  ASSUME NEW U, NEW s \in Seq(Seq(U))
  PROVE  FlattenSeq(s) \in Seq(U)
<1>1. CASE s = <<>>
  <2>1. FlattenSeq(s) = s /\ s \in Seq(U)
    BY <1>1, EmptySeq DEF FlattenSeq
  <2> QED  BY <2>1
<1>2. CASE s # <<>>
  BY <1>2, FlatIs
<1> QED  BY <1>1, <1>2

\* Nothing flattened is nothing.
LEMMA FlatEmpty ==
  FlattenSeq(<<>>) = <<>>
BY DEF FlattenSeq

\* One more piece at the end.
LEMMA FlatAppend ==
  ASSUME NEW U, NEW s \in Seq(Seq(U)), NEW x \in Seq(U)
  PROVE  FlattenSeq(Append(s, x)) = FlattenSeq(s) \o x
<1> DEFINE t == Append(s, x)
<1>1. /\ t \in Seq(Seq(U)) /\ Len(t) = Len(s) + 1 /\ t # <<>> /\ Len(s) \in Nat /\ t[Len(s) + 1] = x
      /\ \A i \in 1 .. Len(s) : t[i] = s[i]
  BY AppendProperties, LenProperties
<1> HIDE DEF t
<1>2. PICK f : FlatTo(f, t, Len(t), U) /\ FlattenSeq(t) = f[Len(t)]
  BY <1>1, FlatIs
<1>3. f[Len(t)] = IF Len(t) = 1 THEN x ELSE f[Len(s)] \o x
  <2>1. Len(t) \in 1 .. Len(t) /\ Len(t) - 1 = Len(s) /\ t[Len(t)] = x
    BY <1>1
  <2>2. FlatAt(f, t, Len(t), U)
    BY <1>2, <2>1, FlatStep
  <2> QED  BY <2>1, <2>2 DEF FlatAt
<1>4. CASE s = <<>>
  <2>1. Len(t) = 1 /\ FlattenSeq(s) = <<>> /\ <<>> \o x = x
    BY <1>1, <1>4, FlatEmpty, ConcatEmptySeq
  <2> QED  BY <1>2, <1>3, <2>1 DEF t
<1>5. CASE s # <<>>
  <2>1. PICK g : FlatTo(g, s, Len(s), U) /\ FlattenSeq(s) = g[Len(s)]
    BY <1>5, FlatIs
  <2>2. Len(s) \in 1 .. Len(t) /\ Len(t) # 1 /\ Len(t) \in Nat /\ Len(s) <= Len(s)
    BY <1>1, <1>5, EmptySeq
  <2>3. f[Len(s)] = g[Len(s)]
    <3>1. IsFlat(f, t, Len(t)) /\ IsFlat(g, s, Len(s))
      BY <1>2, <2>1 DEF FlatTo
    <3> QED  BY <1>1, <2>2, <3>1, FlatSame
  <2> QED  BY <1>2, <1>3, <2>1, <2>2, <2>3 DEF t
<1> QED  BY <1>4, <1>5

\* The first piece comes first.
LEMMA FlatHead ==
  ASSUME NEW U, NEW s \in Seq(Seq(U)), s # <<>>
  PROVE  FlattenSeq(s) = Head(s) \o FlattenSeq(Tail(s))
<1> DEFINE t == Tail(s)
<1>1. /\ t \in Seq(Seq(U)) /\ Len(s) = Len(t) + 1 /\ Len(t) \in Nat /\ Head(s) = s[1] /\ s[1] \in Seq(U)
      /\ \A i \in 1 .. Len(t) : t[i] = s[i + 1] /\ t[i] \in Seq(U)
  <2>1. t \in Seq(Seq(U)) /\ Len(s) \in Nat /\ Len(s) # 0 /\ Len(t) = Len(s) - 1
    BY EmptySeq, LenProperties, HeadTailProperties
  <2>2. Head(s) = s[1] /\ \A i \in 1 .. Len(t) : t[i] = s[i + 1]
    BY <2>1
  <2> QED  BY <2>1, <2>2, ElementOfSeq
<1> HIDE DEF t
<1>2. PICK f : FlatTo(f, s, Len(s), U) /\ FlattenSeq(s) = f[Len(s)]
  BY FlatIs
<1>3. f[1] = s[1] /\ \A i \in 2 .. Len(s) : f[i] = f[i - 1] \o s[i]
  <2>1. 1 \in 1 .. Len(s)
    BY <1>1
  <2>2. ASSUME NEW i \in 2 .. Len(s) PROVE f[i] = f[i - 1] \o s[i]
    <3>1. i \in 1 .. Len(s) /\ i # 1
      BY <1>1
    <3>2. FlatAt(f, s, i, U)
      BY <1>2, <3>1, FlatStep
    <3> QED  BY <3>1, <3>2 DEF FlatAt
  <2>3. FlatAt(f, s, 1, U)
    BY <1>2, <2>1, FlatStep
  <2> QED  BY <2>2, <2>3 DEF FlatAt
<1>4. CASE t = <<>>
  <2>1. Len(s) = 1 /\ FlattenSeq(t) = <<>> /\ s[1] \o <<>> = s[1]
    BY <1>1, <1>4, FlatEmpty, ConcatEmptySeq
  <2> QED  BY <1>1, <1>2, <1>3, <2>1 DEF t
<1>5. CASE t # <<>>
  <2>1. PICK g : FlatTo(g, t, Len(t), U) /\ FlattenSeq(t) = g[Len(t)]
    BY <1>1, <1>5, FlatIs
  <2>2. /\ \A i \in 1 .. Len(t) : g[i] = IF i = 1 THEN t[i] ELSE g[i - 1] \o t[i]
        /\ \A i \in 1 .. Len(t) : g[i] \in Seq(U)
    BY <2>1 DEF FlatTo, IsFlat
  <2> DEFINE Bad == {m \in 1 .. Len(t) : f[m + 1] # s[1] \o g[m]}
  <2>3. ASSUME Bad # {} PROVE FALSE
    <3>0. Bad \subseteq 1 .. Len(t)
      BY Zenon
    <3>1. Bad \in SUBSET Nat
      <4> HIDE DEF Bad
      <4> QED  BY <1>1, <3>0
    <3> HIDE DEF Bad
    <3>2. PICK m \in Bad : \A y \in Bad : m <= y
      BY <2>3, <3>1, LeastOf, Zenon
    <3>3. m \in 1 .. Len(t) /\ f[m + 1] # s[1] \o g[m]
      BY DEF Bad
    <3>4. f[m + 1] = f[m] \o t[m]
      <4>1. m + 1 \in 2 .. Len(s) /\ (m + 1) - 1 = m /\ t[m] = s[m + 1]
        BY <1>1, <3>3
      <4> QED  BY <1>3, <4>1
    <3>5. CASE m = 1
      BY <1>1, <1>3, <2>2, <3>3, <3>4, <3>5
    <3>6. CASE m # 1
      <4>1. m - 1 \in 1 .. Len(t) /\ ~ (m <= m - 1) /\ (m - 1) + 1 = m
        BY <1>1, <3>3, <3>6
      <4>2. f[m] = s[1] \o g[m - 1]
        BY <3>2, <4>1 DEF Bad
      <4>3. g[m] = g[m - 1] \o t[m] /\ g[m - 1] \in Seq(U) /\ t[m] \in Seq(U)
        BY <1>1, <2>2, <3>3, <3>6, <4>1
      <4>4. (s[1] \o g[m - 1]) \o t[m] = s[1] \o (g[m - 1] \o t[m])
        <5>1. s[1] \in Seq(U)
          BY <1>1
        <5>2. Associate(s[1], g[m - 1], t[m])
          BY <4>3, <5>1, Associates
        <5> QED  BY <5>2 DEF Associate
      <4> QED  BY <3>3, <3>4, <4>2, <4>3, <4>4
    <3> QED  BY <3>5, <3>6
  <2>4. Len(t) \in 1 .. Len(t)
    BY <1>1, <1>5, EmptySeq
  <2>5. f[Len(t) + 1] = s[1] \o g[Len(t)]
    BY <2>3, <2>4
  <2> QED  BY <1>1, <1>2, <2>1, <2>5 DEF t
<1> QED  BY <1>4, <1>5

\* One piece alone.
LEMMA FlatOne ==
  ASSUME NEW U, NEW x \in Seq(U)
  PROVE  FlattenSeq(<<x>>) = x
<1>1. <<x>> = Append(<<>>, x) /\ <<>> \in Seq(Seq(U))
  BY EmptySeq
<1>2. FlattenSeq(<<x>>) = FlattenSeq(<<>>) \o x
  BY <1>1, FlatAppend
<1> QED  BY <1>2, FlatEmpty, ConcatEmptySeq

-----------------------------------------------------------------------------
(* An object's storages and what is in them. *)

Units ==
  [of : Nat, t : {"data", "size", "nl", "trailer", "status", "fields"}, v : Nat]
    \cup [of : Nat, t : {"hdr"}, hdr : Headers]

Storages == [space : Nat \ {0}, data : Seq(Units)]

Contents(st) == FlattenSeq([i \in 1 .. Len(st) |-> st[i].data])

\* The contents of a list of storages, with one more at its end.
LEMMA DatasType ==
  ASSUME NEW st \in Seq(Storages)
  PROVE  /\ [i \in 1 .. Len(st) |-> st[i].data] \in Seq(Seq(Units))
         /\ Len([i \in 1 .. Len(st) |-> st[i].data]) = Len(st)
<1>1. Len(st) \in Nat
  BY LenProperties
<1>2. ASSUME NEW i \in 1 .. Len(st) PROVE st[i].data \in Seq(Units)
  <2>1. st[i] \in Storages
    BY ElementOfSeq
  <2> QED  BY <2>1 DEF Storages
<1> HIDE DEF Units
<1> QED  BY <1>1, <1>2

\* The contents of storages are units.
LEMMA ContentsType ==
  ASSUME NEW st \in Seq(Storages)
  PROVE  Contents(st) \in Seq(Units) /\ Len(Contents(st)) \in Nat
<1>1. Contents(st) \in Seq(Units)
  BY DatasType, FlatSeq DEF Contents
<1> QED  BY <1>1, LenProperties

\* A storage more adds its bytes at the end.
LEMMA ContentsAppend ==
  ASSUME NEW st \in Seq(Storages), NEW x \in Storages
  PROVE  Contents(Append(st, x)) = Contents(st) \o x.data
<1> DEFINE a == Append(st, x)
           d == [i \in 1 .. Len(st) |-> st[i].data]
           e == [i \in 1 .. Len(a) |-> a[i].data]
<1>1. /\ a \in Seq(Storages) /\ Len(a) = Len(st) + 1 /\ Len(st) \in Nat /\ a[Len(st) + 1] = x
      /\ \A i \in 1 .. Len(st) : a[i] = st[i]
  BY AppendProperties, LenProperties
<1>2. d \in Seq(Seq(Units)) /\ Len(d) = Len(st) /\ x.data \in Seq(Units)
  BY DatasType DEF Storages
<1> HIDE DEF a
<1>3. e \in Seq(Seq(Units)) /\ Len(e) = Len(a)
  BY <1>1, DatasType
<1>4. e = Append(d, x.data)
  <2>1. /\ Append(d, x.data) \in Seq(Seq(Units)) /\ Len(Append(d, x.data)) = Len(d) + 1
        /\ \A i \in 1 .. Len(d) : Append(d, x.data)[i] = d[i]
        /\ Append(d, x.data)[Len(d) + 1] = x.data
    BY <1>2, AppendProperties
  <2>2. ASSUME NEW i \in 1 .. Len(e) PROVE e[i] = Append(d, x.data)[i]
    <3>0. e[i] = a[i].data
      BY <1>3
    <3>1. CASE i = Len(d) + 1
      BY <1>1, <1>2, <1>3, <2>1, <3>0, <3>1
    <3>2. CASE i # Len(d) + 1
      <4>1. i \in 1 .. Len(d)
        BY <1>1, <1>2, <1>3, <3>2
      <4>2. Append(d, x.data)[i] = d[i] /\ d[i] = st[i].data /\ a[i] = st[i]
        BY <1>1, <1>2, <2>1, <4>1
      <4> QED  BY <3>0, <4>2
    <3> QED  BY <3>1, <3>2
  <2>3. Len(e) = Len(Append(d, x.data))
    BY <1>1, <1>2, <1>3, <2>1
  <2> HIDE DEF d, e
  <2> QED  BY <1>3, <2>1, <2>2, <2>3, SeqEqual
<1>5. FlattenSeq(e) = FlattenSeq(d) \o x.data
  BY <1>2, <1>4, FlatAppend
<1> QED  BY <1>5 DEF Contents, a

\* A list of storages that is not empty, and its last one.
LEMMA LastStorage ==
  ASSUME NEW st \in Seq(Storages), st # <<>>
  PROVE  /\ Front(st) \in Seq(Storages) /\ st[Len(st)] \in Storages
         /\ st = Append(Front(st), st[Len(st)])
         /\ Len(st) \in Nat \ {0} /\ Len(Front(st)) = Len(st) - 1
         /\ \A i \in 1 .. Len(st) - 1 : Front(st)[i] = st[i]
<1>1. Len(st) \in Nat \ {0}
  BY EmptySeq
<1>2. \A i \in 1 .. Len(st) : st[i] \in Storages
  BY ElementOfSeq
<1> DEFINE f == Front(st)
<1>3. f \in Seq(Storages) /\ Len(f) = Len(st) - 1 /\ \A i \in 1 .. Len(st) - 1 : f[i] = st[i]
  <2>1. PICK n \in Nat : n = Len(st) - 1
    BY <1>1
  <2>2. /\ f \in Seq(Storages) /\ Len(f) = (n - 1) + 1
        /\ \A i \in 1 .. (n - 1) + 1 : f[i] = st[(1 + i) - 1]
    BY <1>1, <2>1, PartOf DEF Front
  <2> QED  BY <2>1, <2>2
<1> HIDE DEF f
<1>4. st[Len(st)] \in Storages
  BY <1>1, <1>2
<1>5. st = Append(f, st[Len(st)])
  <2>1. /\ Append(f, st[Len(st)]) \in Seq(Storages) /\ Len(Append(f, st[Len(st)])) = Len(f) + 1
        /\ \A i \in 1 .. Len(f) : Append(f, st[Len(st)])[i] = f[i]
        /\ Append(f, st[Len(st)])[Len(f) + 1] = st[Len(st)]
    BY <1>3, <1>4, AppendProperties
  <2>2. Len(st) = Len(Append(f, st[Len(st)]))
    BY <1>1, <1>3, <2>1
  <2>3. ASSUME NEW i \in 1 .. Len(st) PROVE st[i] = Append(f, st[Len(st)])[i]
    BY <1>1, <1>3, <2>1
  <2> QED  BY <2>1, <2>2, <2>3, SeqEqual
<1> QED  BY <1>1, <1>3, <1>4, <1>5 DEF f

\* The last storage is replaced.
LEMMA ChangeLast ==
  ASSUME NEW st \in Seq(Storages), st # <<>>, NEW x \in Storages
  PROVE  /\ [st EXCEPT ![Len(st)] = x] = Append(Front(st), x)
         /\ [st EXCEPT ![Len(st)] = x] \in Seq(Storages)
         /\ [st EXCEPT ![Len(st)] = x] # <<>>
         /\ Len([st EXCEPT ![Len(st)] = x]) = Len(st)
         /\ [st EXCEPT ![Len(st)] = x][Len(st)] = x
         /\ \A i \in 1 .. Len(st) - 1 : [st EXCEPT ![Len(st)] = x][i] = st[i]
<1> DEFINE g == [st EXCEPT ![Len(st)] = x]
           f == Front(st)
<1>1. /\ f \in Seq(Storages) /\ Len(st) \in Nat \ {0} /\ Len(f) = Len(st) - 1
      /\ \A i \in 1 .. Len(st) - 1 : f[i] = st[i]
  BY LastStorage
<1>2. /\ g \in Seq(Storages) /\ Len(g) = Len(st)
      /\ \A i \in 1 .. Len(st) : g[i] = IF i = Len(st) THEN x ELSE st[i]
  BY <1>1, ExceptSeq
<1>3. /\ Append(f, x) \in Seq(Storages) /\ Len(Append(f, x)) = Len(f) + 1
      /\ \A i \in 1 .. Len(f) : Append(f, x)[i] = f[i] /\ Append(f, x)[Len(f) + 1] = x
  BY <1>1, AppendProperties
<1> HIDE DEF f, g
<1>4. Append(f, x)[Len(st)] = x
  <2>1. Len(f) + 1 = Len(st)
    BY <1>1
  <2>2. Append(f, x)[Len(f) + 1] = x
    BY <1>1, AppendProperties
  <2> QED  BY <2>1, <2>2
<1>5. ASSUME NEW i \in 1 .. Len(g) PROVE g[i] = Append(f, x)[i]
  BY <1>1, <1>2, <1>3, <1>4
<1>6. Len(g) = Len(Append(f, x))
  BY <1>1, <1>2, <1>3
<1>7. g = Append(f, x)
  BY <1>2, <1>3, <1>5, <1>6, SeqEqual
<1>8. g # <<>>
  BY <1>1, <1>2, EmptySeq
<1> QED  BY <1>1, <1>2, <1>7, <1>8 DEF f, g

\* What is read goes behind what is there (Store), ...
LEMMA ContentsStore ==
  ASSUME NEW st \in Seq(Storages), st # <<>>, NEW d \in Seq(Units), NEW x \in Storages,
         x.data = st[Len(st)].data \o d
  PROVE  Contents([st EXCEPT ![Len(st)] = x]) = Contents(st) \o d
<1> DEFINE f == Front(st)
           y == st[Len(st)]
<1>1. f \in Seq(Storages) /\ y \in Storages /\ st = Append(f, y)
  BY LastStorage
<1>2. [st EXCEPT ![Len(st)] = x] = Append(f, x)
  BY ChangeLast
<1> HIDE DEF f
<1>3. Contents(Append(f, x)) = Contents(f) \o x.data
  BY <1>1, ContentsAppend
<1>4. Contents(Append(f, y)) = Contents(f) \o y.data
  BY <1>1, ContentsAppend
<1>5. Contents(f) \in Seq(Units) /\ y.data \in Seq(Units)
  BY <1>1, ContentsType DEF Storages
<1>6. (Contents(f) \o y.data) \o d = Contents(f) \o (y.data \o d)
  <2> HIDE DEF y
  <2>1. Associate(Contents(f), y.data, d)
    BY <1>5, Associates
  <2> QED  BY <2>1 DEF Associate
<1> QED  BY <1>1, <1>2, <1>3, <1>4, <1>6

\* ... and a storage with nothing in it makes no difference.
LEMMA ContentsNothing ==
  ASSUME NEW st \in Seq(Storages)
  PROVE  /\ \A x \in Storages : x.data = <<>> => Contents(Append(st, x)) = Contents(st)
         /\ st # <<>> /\ st[Len(st)].data = <<>> => Contents(Front(st)) = Contents(st)
<1>1. ASSUME NEW q \in Seq(Storages), NEW x \in Storages, x.data = <<>> PROVE Contents(Append(q, x)) = Contents(q)
  BY <1>1, ContentsAppend, ContentsType, ConcatEmptySeq
<1>2. ASSUME st # <<>>, st[Len(st)].data = <<>> PROVE Contents(Front(st)) = Contents(st)
  <2>1. Front(st) \in Seq(Storages) /\ st[Len(st)] \in Storages /\ st = Append(Front(st), st[Len(st)])
    BY <1>2, LastStorage
  <2>2. Contents(Append(Front(st), st[Len(st)])) = Contents(Front(st))
    BY <1>1, <1>2, <2>1
  <2> QED  BY <2>1, <2>2
<1> QED  BY <1>1, <1>2

\* No storage, no contents.
LEMMA ContentsNone ==
  Contents(<<>>) = <<>>
<1>1. [i \in 1 .. Len(<<>>) |-> <<>>[i].data] = <<>>
  OBVIOUS
<1> QED  BY <1>1, FlatEmpty DEF Contents

-----------------------------------------------------------------------------
(* What is still to be read of a body, after its first f bytes of n: the   *)
(* bytes, of response x, ...                                               *)

Byte(x, v) == [of |-> x, t |-> "data", v |-> v]

Plain(x, s, f, n) ==
  f + Len(s) <= n /\ \A i \in 1 .. Len(s) : s[i] = Byte(x, f + i)

\* ... or chunks, with g bytes left of the first one.  F and G say how many bytes
\* have been read, and how many are left of the chunk, after each unit.
Over(s) == \A i \in 1 .. Len(s) : s[i].t \in {"nl", "trailer"}

ChunkStep(x, u, f, g, f2, g2) ==
  \/ g > 0 /\ u = Byte(x, f + 1) /\ f2 = f + 1 /\ g2 = g - 1
  \/ g = 0 /\ f2 = f /\ u.t \in {"nl", "trailer"} /\ g2 = 0
  \/ g = 0 /\ f2 = f /\ u.t = "size" /\ g2 = u.v

LastChunk(s, j, f, n) ==
  s[j].t = "size" /\ s[j].v = 0 => f = n /\ \A i \in j + 1 .. Len(s) : s[i].t \in {"nl", "trailer"}

Chunks(x, s, f, g, n, F, G) ==
  /\ F \in [0 .. Len(s) -> 0 .. n] /\ G \in [0 .. Len(s) -> 0 .. n] /\ F[0] = f /\ G[0] = g
  /\ \A j \in 0 .. Len(s) : F[j] + G[j] <= n
  /\ \A j \in 1 .. Len(s) : ChunkStep(x, s[j], F[j - 1], G[j - 1], F[j], G[j])
  /\ \A j \in 1 .. Len(s) : LastChunk(s, j, F[j], n)

Chunky(x, s, f, g, n) == \E F, G : Chunks(x, s, f, g, n, F, G)

\* The backend may stop before the end.
LEMMA PlainCut ==
  ASSUME NEW x, NEW s \in Seq(Units), NEW f \in Nat, NEW n \in Nat, Plain(x, s, f, n), NEW m \in 0 .. Len(s)
  PROVE  Plain(x, SubSeq(s, 1, m), f, n)
<1> DEFINE q == SubSeq(s, 1, m)
<1>0. Len(s) \in Nat /\ m \in Nat
  BY LenProperties
<1>2. Len(q) = m /\ \A i \in 1 .. m : q[i] = s[i]
  BY Upto
<1> HIDE DEF q
<1> QED  BY <1>0, <1>2 DEF Plain, q

\* The same for a chunked body.
LEMMA ChunkyCut ==
  ASSUME NEW x, NEW s \in Seq(Units), NEW f, NEW g, NEW n \in Nat, Chunky(x, s, f, g, n), NEW m \in 0 .. Len(s)
  PROVE  Chunky(x, SubSeq(s, 1, m), f, g, n)
<1> DEFINE q == SubSeq(s, 1, m)
<1>0. Len(s) \in Nat /\ m \in Nat
  BY LenProperties
<1>2. Len(q) = m /\ \A i \in 1 .. m : q[i] = s[i]
  BY Upto
<1> HIDE DEF q
<1>3. PICK F, G : Chunks(x, s, f, g, n, F, G)
  BY DEF Chunky
<1> DEFINE F2 == [j \in 0 .. m |-> F[j]]
           G2 == [j \in 0 .. m |-> G[j]]
<1>4. /\ F2 \in [0 .. m -> 0 .. n] /\ G2 \in [0 .. m -> 0 .. n]
      /\ \A j \in 0 .. m : F2[j] = F[j] /\ G2[j] = G[j]
  <2>1. \A j \in 0 .. m : j \in 0 .. Len(s)
    BY <1>0
  <2>2. \A j \in 0 .. m : F[j] \in 0 .. n /\ G[j] \in 0 .. n
    BY <1>3, <2>1 DEF Chunks
  <2> QED  BY <2>2
<1> HIDE DEF F2, G2
<1>5. /\ F2[0] = f /\ G2[0] = g /\ \A j \in 0 .. m : F2[j] + G2[j] <= n
  BY <1>0, <1>3, <1>4 DEF Chunks
<1>6. ASSUME NEW j \in 1 .. m PROVE ChunkStep(x, q[j], F2[j - 1], G2[j - 1], F2[j], G2[j])
  <2>1. j - 1 \in 0 .. m /\ j \in 0 .. m /\ j \in 1 .. Len(s)
    BY <1>0
  <2> QED  BY <1>2, <1>3, <1>4, <2>1 DEF Chunks
<1>7. ASSUME NEW j \in 1 .. m PROVE LastChunk(q, j, F2[j], n)
  <2>1. j \in 0 .. m /\ j \in 1 .. Len(s) /\ \A i \in j + 1 .. m : i \in 1 .. m /\ i \in j + 1 .. Len(s)
    BY <1>0
  <2>2. LastChunk(s, j, F[j], n)
    BY <1>3, <2>1 DEF Chunks
  <2> QED  BY <1>2, <1>4, <2>1, <2>2 DEF LastChunk
<1>8. Chunks(x, q, f, g, n, F2, G2)
  BY <1>2, <1>4, <1>5, <1>6, <1>7 DEF Chunks
<1> QED  BY <1>8 DEF Chunky, q

\* What is left after m units.
PlainLeft(x, s, f, n, m) ==
  /\ Plain(x, SubSeq(s, m + 1, Len(s)), f + m, n) /\ f + m <= n
  /\ \A i \in 1 .. m : s[i] = Byte(x, f + i)

\* After m bytes of a plain body ...
LEMMA PlainTake ==
  ASSUME NEW x, NEW s \in Seq(Units), NEW f \in Nat, NEW n \in Nat, Plain(x, s, f, n), NEW m \in 0 .. Len(s)
  PROVE  PlainLeft(x, s, f, n, m)
<1> DEFINE q == SubSeq(s, m + 1, Len(s))
<1>0. Len(s) \in Nat /\ m \in Nat
  BY LenProperties
<1>2. Len(q) = Len(s) - m /\ \A i \in 1 .. Len(s) - m : q[i] = s[m + i]
  BY After
<1> HIDE DEF q
<1>3. ASSUME NEW i \in 1 .. Len(q) PROVE q[i] = Byte(x, (f + m) + i)
  <2>1. m + i \in 1 .. Len(s) /\ f + (m + i) = (f + m) + i /\ i \in 1 .. Len(s) - m
    BY <1>0, <1>2
  <2> QED  BY <1>2, <2>1 DEF Plain
<1>4. (f + m) + Len(q) <= n /\ f + m <= n
  BY <1>0, <1>2 DEF Plain
<1>5. \A i \in 1 .. m : s[i] = Byte(x, f + i)
  BY <1>0 DEF Plain
<1> QED  BY <1>3, <1>4, <1>5 DEF Plain, PlainLeft, q

\* ... and after m units of a chunked one, ...
LEMMA ChunkyDrop ==
  ASSUME NEW x, NEW s \in Seq(Units), NEW f, NEW g, NEW n \in Nat, NEW F, NEW G, Chunks(x, s, f, g, n, F, G),
         NEW m \in 0 .. Len(s)
  PROVE  Chunky(x, SubSeq(s, m + 1, Len(s)), F[m], G[m], n)
<1> DEFINE q == SubSeq(s, m + 1, Len(s))
<1>0. Len(s) \in Nat /\ m \in Nat
  BY LenProperties
<1>1. Len(q) = Len(s) - m /\ \A i \in 1 .. Len(s) - m : q[i] = s[m + i]
  BY After
<1> HIDE DEF q
<1>2. PICK l \in Nat : l = Len(s) - m
  BY <1>0
<1>3. Len(q) = l /\ \A i \in 1 .. l : q[i] = s[m + i]
  BY <1>1, <1>2
<1> DEFINE F2 == [j \in 0 .. l |-> F[m + j]]
           G2 == [j \in 0 .. l |-> G[m + j]]
<1>4. \A j \in 0 .. l : m + j \in 0 .. Len(s)
  BY <1>0, <1>2
<1>5. /\ F2 \in [0 .. l -> 0 .. n] /\ G2 \in [0 .. l -> 0 .. n]
      /\ \A j \in 0 .. l : F2[j] = F[m + j] /\ G2[j] = G[m + j]
  BY <1>4 DEF Chunks
<1> HIDE DEF F2, G2
<1>6. F2[0] = F[m] /\ G2[0] = G[m]
  BY <1>0, <1>5
<1>7. \A j \in 0 .. l : F2[j] + G2[j] <= n
  BY <1>4, <1>5 DEF Chunks
<1>8. ASSUME NEW j \in 1 .. l PROVE ChunkStep(x, q[j], F2[j - 1], G2[j - 1], F2[j], G2[j])
  <2>1. j - 1 \in 0 .. l /\ j \in 0 .. l /\ m + j \in 1 .. Len(s) /\ m + (j - 1) = (m + j) - 1
    BY <1>0, <1>2
  <2>2. ChunkStep(x, s[m + j], F[(m + j) - 1], G[(m + j) - 1], F[m + j], G[m + j])
    BY <2>1 DEF Chunks
  <2> QED  BY <1>3, <1>5, <2>1, <2>2
<1>9. ASSUME NEW j \in 1 .. l PROVE LastChunk(q, j, F2[j], n)
  <2>1. j \in 0 .. l /\ m + j \in 1 .. Len(s) /\ \A i \in j + 1 .. l : i \in 1 .. l /\ m + i \in (m + j) + 1 .. Len(s)
    BY <1>0, <1>2
  <2>2. LastChunk(s, m + j, F[m + j], n)
    BY <2>1 DEF Chunks
  <2> QED  BY <1>3, <1>5, <2>1, <2>2 DEF LastChunk
<1>10. Chunks(x, q, F[m], G[m], n, F2, G2)
  BY <1>3, <1>5, <1>6, <1>7, <1>8, <1>9 DEF Chunks
<1> QED  BY <1>10 DEF Chunky, q

ChunkyLeft(x, s, f, g, n, m) ==
  /\ Chunky(x, SubSeq(s, m + 1, Len(s)), f + m, g - m, n) /\ f + m <= n
  /\ \A i \in 1 .. m : s[i] = Byte(x, f + i)

\* ... which are bytes of the chunk if there are no more than it has left.
LEMMA ChunkyTake ==
  ASSUME NEW x, NEW s \in Seq(Units), NEW f, NEW g, NEW n \in Nat, Chunky(x, s, f, g, n),
         NEW m \in 0 .. Len(s), m <= g
  PROVE  ChunkyLeft(x, s, f, g, n, m)
<1>0. Len(s) \in Nat /\ m \in Nat
  BY LenProperties
<1>1. PICK F, G : Chunks(x, s, f, g, n, F, G)
  BY DEF Chunky
<1>2. F[0] = f /\ G[0] = g /\ f \in Nat /\ g \in Nat
  BY <1>0, <1>1 DEF Chunks
<1>3. ASSUME NEW j \in 1 .. m, F[j - 1] = f + (j - 1), G[j - 1] = g - (j - 1)
      PROVE  s[j] = Byte(x, f + j) /\ F[j] = f + j /\ G[j] = g - j
  <2>1. ChunkStep(x, s[j], F[j - 1], G[j - 1], F[j], G[j])
    BY <1>0, <1>1 DEF Chunks
  <2>2. G[j - 1] > 0 /\ F[j - 1] + 1 = f + j /\ G[j - 1] - 1 = g - j /\ ~ (G[j - 1] = 0)
    BY <1>0, <1>2, <1>3
  <2> QED  BY <2>1, <2>2 DEF ChunkStep
<1> DEFINE Bad == {j \in 0 .. m : ~ (F[j] = f + j /\ G[j] = g - j)}
<1>4. ASSUME Bad # {} PROVE FALSE
  <2>1. Bad \in SUBSET Nat
    OBVIOUS
  <2> HIDE DEF Bad
  <2>2. PICK j \in Bad : \A y \in Bad : j <= y
    BY <1>4, <2>1, LeastOf
  <2>3. j \in 0 .. m /\ ~ (F[j] = f + j /\ G[j] = g - j)
    BY DEF Bad
  <2>4. j # 0
    BY <1>2, <2>3
  <2>5. j \in 1 .. m /\ j - 1 \in 0 .. m /\ ~ (j <= j - 1)
    BY <1>0, <2>3, <2>4
  <2>6. F[j - 1] = f + (j - 1) /\ G[j - 1] = g - (j - 1)
    BY <2>2, <2>5 DEF Bad
  <2> QED  BY <1>3, <2>3, <2>5, <2>6
<1>5. \A j \in 0 .. m : F[j] = f + j /\ G[j] = g - j
  BY <1>4
<1>6. ASSUME NEW j \in 1 .. m PROVE s[j] = Byte(x, f + j)
  <2>1. j - 1 \in 0 .. m
    BY <1>0
  <2> QED  BY <1>3, <1>5, <2>1
<1>7. m \in 0 .. m /\ F[m] = f + m /\ G[m] = g - m
  BY <1>0, <1>5
<1>8. f + m <= n
  <2>1. F[m] \in 0 .. n
    BY <1>0, <1>1 DEF Chunks
  <2> QED  BY <1>7, <2>1
<1>9. Chunky(x, SubSeq(s, m + 1, Len(s)), F[m], G[m], n)
  BY <1>1, ChunkyDrop
<1> QED  BY <1>6, <1>7, <1>8, <1>9 DEF ChunkyLeft

\* A line end is skipped, and a length begins a chunk, or ends the body.
LineTaken(x, s, r, f, n) ==
  /\ s[1].t = "nl" => Chunky(x, r, f, 0, n)
  /\ s[1].t = "size" => Chunky(x, r, f, s[1].v, n) /\ (s[1].v = 0 => f = n /\ Over(r))

\* What ChunkLine finds first.
LEMMA ChunkyLine ==
  ASSUME NEW x, NEW s \in Seq(Units), NEW f, NEW n \in Nat, Chunky(x, s, f, 0, n), s # <<>>
  PROVE  LineTaken(x, s, SubSeq(s, 2, Len(s)), f, n)
<1>0. Len(s) \in Nat /\ 1 \in 0 .. Len(s) /\ 1 \in 1 .. Len(s) /\ 1 + 1 = 2 /\ 1 - 1 = 0
  BY EmptySeq, LenProperties
<1>1. PICK F, G : Chunks(x, s, f, 0, n, F, G)
  BY DEF Chunky
<1> DEFINE r == SubSeq(s, 2, Len(s))
<1>2. Chunky(x, r, F[1], G[1], n)
  BY <1>0, <1>1, ChunkyDrop
<1>3. ChunkStep(x, s[1], f, 0, F[1], G[1]) /\ LastChunk(s, 1, F[1], n)
  BY <1>0, <1>1 DEF Chunks
<1>4. F[1] = f /\ (s[1].t \in {"nl", "trailer"} => G[1] = 0) /\ (s[1].t = "size" => G[1] = s[1].v)
  BY <1>3 DEF ChunkStep
<1>5. Len(r) = Len(s) - 1 /\ \A i \in 1 .. Len(s) - 1 : r[i] = s[i + 1]
  <2>1. Len(r) = Len(s) - 1 /\ \A i \in 1 .. Len(s) - 1 : r[i] = s[1 + i]
    BY <1>0, After
  <2> QED  BY <1>0, <2>1
<1>6. ASSUME s[1].t = "size", s[1].v = 0 PROVE f = n /\ Over(r)
  <2>1. f = n /\ \A i \in 2 .. Len(s) : s[i].t \in {"nl", "trailer"}
    BY <1>0, <1>3, <1>4, <1>6 DEF LastChunk
  <2>2. ASSUME NEW i \in 1 .. Len(r) PROVE r[i].t \in {"nl", "trailer"}
    <3>1. i + 1 \in 2 .. Len(s) /\ r[i] = s[i + 1]
      BY <1>0, <1>5
    <3> QED  BY <2>1, <3>1
  <2> QED  BY <2>1, <2>2 DEF Over
<1> QED  BY <1>2, <1>4, <1>6 DEF LineTaken

-----------------------------------------------------------------------------
(* What a backend sends after the header h, read to its end or not. *)

Sent(x, h, s) ==
  /\ Framing(h) = "chunked" => Chunky(x, s, 0, 0, h.body)
  /\ Framing(h) \in {"length", "eof"} => Plain(x, s, 0, h.body)
  /\ Framing(h) = "empty" => s = <<>>

\* The end of a chunked body, and ...
LEMMA ChunkyEnd ==
  ASSUME NEW x, NEW n \in Nat, NEW s \in Seq(Units), s # <<>>, s[1].t = "size", s[1].v = 0,
         \A i \in 2 .. Len(s) : s[i].t \in {"nl", "trailer"}
  PROVE  Chunky(x, s, n, 0, n)
<1>0. Len(s) \in Nat \ {0}
  BY EmptySeq
<1> DEFINE F == [j \in 0 .. Len(s) |-> n]
           G == [j \in 0 .. Len(s) |-> 0]
<1>1. /\ F \in [0 .. Len(s) -> 0 .. n] /\ G \in [0 .. Len(s) -> 0 .. n]
      /\ \A j \in 0 .. Len(s) : F[j] = n /\ G[j] = 0
  OBVIOUS
<1> HIDE DEF F, G
<1>2. ASSUME NEW j \in 1 .. Len(s)
      PROVE  ChunkStep(x, s[j], F[j - 1], G[j - 1], F[j], G[j]) /\ LastChunk(s, j, F[j], n)
  <2>1. j \in 0 .. Len(s) /\ j - 1 \in 0 .. Len(s)
    BY <1>0
  <2>2. F[j] = n /\ F[j - 1] = n /\ G[j] = 0 /\ G[j - 1] = 0
    BY <1>1, <2>1
  <2>3. CASE j = 1
    BY <2>2, <2>3 DEF ChunkStep, LastChunk
  <2>4. CASE j # 1
    <3>1. j \in 2 .. Len(s)
      BY <1>0, <2>4
    <3> QED  BY <2>2, <3>1 DEF ChunkStep, LastChunk
  <2> QED  BY <2>3, <2>4
<1>3. F[0] = n /\ G[0] = 0 /\ \A j \in 0 .. Len(s) : F[j] + G[j] <= n
  BY <1>0, <1>1
<1>4. Chunks(x, s, n, 0, n, F, G)
  BY <1>1, <1>2, <1>3 DEF Chunks
<1> QED  BY <1>4 DEF Chunky

\* ... a chunk before it.
LEMMA ChunkIs ==
  ASSUME NEW f \in Nat, NEW m \in Nat, xid \in Nat
  PROVE  /\ Chunk(f, m) \in Seq(Units) /\ Len(Chunk(f, m)) = m + 2
         /\ Chunk(f, m)[1] = Unit("size", m) /\ Chunk(f, m)[m + 2] = Unit("nl", 0)
         /\ \A i \in 1 .. m : Chunk(f, m)[i + 1] = Byte(xid, f + i)
<1> DEFINE a == <<Unit("size", m)>>
           b == [i \in 1 .. m |-> Unit("data", f + i)]
           c == <<Unit("nl", 0)>>
<1>1. a \in Seq(Units) /\ Len(a) = 1 /\ a[1] = Unit("size", m)
  BY DEF Units, Unit
<1>2. c \in Seq(Units) /\ Len(c) = 1 /\ c[1] = Unit("nl", 0)
  BY DEF Units, Unit
<1>3. b \in Seq(Units) /\ Len(b) = m /\ \A i \in 1 .. m : b[i] = Byte(xid, f + i)
  <2>1. ASSUME NEW i \in 1 .. m PROVE Unit("data", f + i) \in Units /\ Unit("data", f + i) = Byte(xid, f + i)
    BY DEF Units, Unit, Byte
  <2> HIDE DEF Unit
  <2> QED  BY <2>1
<1>4. Chunk(f, m) = (a \o b) \o c
  BY DEF Chunk
<1> HIDE DEF a, b, c
<1>5. /\ a \o b \in Seq(Units) /\ Len(a \o b) = m + 1 /\ (a \o b)[1] = Unit("size", m)
      /\ \A i \in 1 .. m : (a \o b)[i + 1] = Byte(xid, f + i)
  <2>1. /\ a \o b \in Seq(Units) /\ Len(a \o b) = 1 + m
        /\ \A i \in 1 .. 1 + m : (a \o b)[i] = IF i <= 1 THEN a[i] ELSE b[i - 1]
    <3>1. IsJoin(a \o b, a, b, 1, m, Units)
      BY <1>1, <1>3, Joined
    <3> QED  BY <3>1 DEF IsJoin
  <2>2. ASSUME NEW i \in 1 .. m PROVE (a \o b)[i + 1] = Byte(xid, f + i)
    <3>1. i + 1 \in 1 .. 1 + m /\ ~ (i + 1 <= 1) /\ (i + 1) - 1 = i
      OBVIOUS
    <3> QED  BY <1>3, <2>1, <3>1
  <2>3. 1 \in 1 .. 1 + m /\ 1 <= 1 /\ 1 + m = m + 1
    OBVIOUS
  <2> QED  BY <1>1, <2>1, <2>2, <2>3
<1> DEFINE d == a \o b
<1>6. /\ d \o c \in Seq(Units) /\ Len(d \o c) = (m + 1) + 1
      /\ \A i \in 1 .. (m + 1) + 1 : (d \o c)[i] = IF i <= m + 1 THEN d[i] ELSE c[i - (m + 1)]
  <2> HIDE DEF d
  <2>1. d \in Seq(Units) /\ Len(d) = m + 1
    BY <1>5 DEF d
  <2>2. IsJoin(d \o c, d, c, m + 1, 1, Units)
    BY <1>2, <2>1, Joined
  <2> QED  BY <2>2 DEF IsJoin
<1> HIDE DEF d
<1>7. d[1] = Unit("size", m) /\ \A i \in 1 .. m : d[i + 1] = Byte(xid, f + i)
  BY <1>5 DEF d
<1>8. (d \o c)[1] = Unit("size", m)
  <2>1. 1 \in 1 .. (m + 1) + 1 /\ 1 <= m + 1
    OBVIOUS
  <2> QED  BY <1>6, <1>7, <2>1
<1>9. (d \o c)[m + 2] = Unit("nl", 0)
  <2>1. m + 2 \in 1 .. (m + 1) + 1 /\ ~ (m + 2 <= m + 1) /\ (m + 2) - (m + 1) = 1
    OBVIOUS
  <2> QED  BY <1>2, <1>6, <2>1
<1>10. ASSUME NEW i \in 1 .. m PROVE (d \o c)[i + 1] = Byte(xid, f + i)
  <2>1. i + 1 \in 1 .. (m + 1) + 1 /\ i + 1 <= m + 1
    OBVIOUS
  <2> QED  BY <1>6, <1>7, <2>1
<1>11. (m + 1) + 1 = m + 2 /\ Chunk(f, m) = d \o c
  BY <1>4 DEF d
<1> QED  BY <1>6, <1>8, <1>9, <1>10, <1>11

\* A chunk before a chunked body is a chunked body.
LEMMA ChunkyChunk ==
  ASSUME NEW n \in Nat, NEW f \in Nat, NEW m \in Nat \ {0}, xid \in Nat, NEW s \in Seq(Units),
         Chunky(xid, s, f + m, 0, n)
  PROVE  Chunk(f, m) \o s \in Seq(Units) /\ Chunky(xid, Chunk(f, m) \o s, f, 0, n)
<1> DEFINE c == Chunk(f, m)
           q == c \o s
           l == m + 2
<1>0. Len(s) \in Nat
  BY LenProperties
<1>1. /\ c \in Seq(Units) /\ Len(c) = l /\ c[1] = Unit("size", m) /\ c[m + 2] = Unit("nl", 0)
      /\ \A i \in 1 .. m : c[i + 1] = Byte(xid, f + i)
  BY ChunkIs
<1> HIDE DEF c
<1>2. /\ q \in Seq(Units) /\ Len(q) = l + Len(s)
      /\ \A i \in 1 .. l + Len(s) : q[i] = IF i <= l THEN c[i] ELSE s[i - l]
  <2> HIDE DEF l
  <2> QED  BY <1>1, ConcatProperties
<1>3. PICK F, G : Chunks(xid, s, f + m, 0, n, F, G)
  BY DEF Chunky
<1>4. /\ F[0] = f + m /\ G[0] = 0 /\ f + m <= n
      /\ \A j \in 0 .. Len(s) : F[j] \in 0 .. n /\ G[j] \in 0 .. n /\ F[j] + G[j] <= n
  <2>1. F[0] = f + m /\ G[0] = 0 /\ \A j \in 0 .. Len(s) : F[j] \in 0 .. n /\ G[j] \in 0 .. n /\ F[j] + G[j] <= n
    BY <1>3 DEF Chunks
  <2>2. 0 \in 0 .. Len(s)
    BY <1>0
  <2> QED  BY <2>1, <2>2
<1> HIDE DEF q
<1> DEFINE F2 == [j \in 0 .. Len(q) |-> IF j <= 1 THEN f ELSE IF j <= m + 1 THEN f + (j - 1) ELSE F[j - l]]
           G2 == [j \in 0 .. Len(q) |-> IF j = 0 THEN 0 ELSE IF j <= m + 1 THEN m - (j - 1) ELSE G[j - l]]
<1>5. ASSUME NEW j \in 0 .. Len(q) PROVE F2[j] \in 0 .. n /\ G2[j] \in 0 .. n /\ F2[j] + G2[j] <= n
  <2>1. CASE j <= m + 1
    BY <1>4, <2>1
  <2>2. CASE ~ (j <= m + 1)
    <3>1. j - l \in 0 .. Len(s) /\ ~ (j <= 1) /\ j # 0
      BY <1>0, <1>2, <2>2
    <3>2. F2[j] = F[j - l] /\ G2[j] = G[j - l]
      BY <2>2, <3>1
    <3> QED  BY <1>4, <3>1, <3>2
  <2> QED  BY <2>1, <2>2
<1>6. F2 \in [0 .. Len(q) -> 0 .. n] /\ G2 \in [0 .. Len(q) -> 0 .. n] /\ F2[0] = f /\ G2[0] = 0
  <2>1. 0 \in 0 .. Len(q)
    BY <1>0, <1>2
  <2>2. \A j \in 0 .. Len(q) : F2[j] \in 0 .. n /\ G2[j] \in 0 .. n
    BY <1>5
  <2>3. F2[0] = f /\ G2[0] = 0
    BY <2>1
  <2>4. F2 = [j \in 0 .. Len(q) |-> F2[j]] /\ G2 = [j \in 0 .. Len(q) |-> G2[j]]
    OBVIOUS
  <2> HIDE DEF F2, G2
  <2> QED  BY <2>2, <2>3, <2>4
<1>7. \A j \in 0 .. Len(q) :
        /\ F2[j] = IF j <= 1 THEN f ELSE IF j <= m + 1 THEN f + (j - 1) ELSE F[j - l]
        /\ G2[j] = IF j = 0 THEN 0 ELSE IF j <= m + 1 THEN m - (j - 1) ELSE G[j - l]
  OBVIOUS
<1> HIDE DEF F2, G2
<1>8. ASSUME NEW j \in 1 .. Len(q)
      PROVE  ChunkStep(xid, q[j], F2[j - 1], G2[j - 1], F2[j], G2[j]) /\ LastChunk(q, j, F2[j], n)
  <2>0. j \in 0 .. Len(q) /\ j - 1 \in 0 .. Len(q)
    BY <1>0, <1>2
  <2>1. CASE j = 1
    <3>1. q[1] = Unit("size", m) /\ F2[0] = f /\ G2[0] = 0 /\ F2[1] = f /\ G2[1] = m
      BY <1>1, <1>2, <1>6, <1>7, <2>0, <2>1
    <3>2. q[1].t = "size" /\ q[1].v = m
      BY <3>1 DEF Unit
    <3> QED  BY <2>1, <3>1, <3>2 DEF ChunkStep, LastChunk
  <2>2. CASE j \in 2 .. m + 1
    <3>1. PICK i \in 1 .. m : i = j - 1 /\ j = i + 1
      BY <2>2
    <3>2. q[j] = Byte(xid, f + i)
      <4>1. j \in 1 .. l + Len(s) /\ j <= l
        BY <1>0, <1>2, <3>1
      <4> QED  BY <1>1, <1>2, <3>1, <4>1
    <3>3. F2[j] = f + i /\ G2[j] = m - i
      BY <1>7, <2>0, <2>2, <3>1
    <3>4. F2[j - 1] = f + (i - 1) /\ G2[j - 1] = m - (i - 1)
      <4>1. CASE i = 1
        BY <1>7, <2>0, <3>1, <4>1
      <4>2. CASE i # 1
        BY <1>7, <2>0, <2>2, <3>1, <4>2
      <4> QED  BY <4>1, <4>2
    <3>5. G2[j - 1] > 0 /\ F2[j - 1] + 1 = f + i /\ G2[j - 1] - 1 = m - i
      BY <3>4
    <3>6. q[j].t = "data"
      BY <3>2 DEF Byte
    <3> QED  BY <3>2, <3>3, <3>5, <3>6 DEF ChunkStep, LastChunk
  <2>3. CASE j = l
    <3>1. q[j] = Unit("nl", 0)
      BY <1>1, <1>2, <2>3
    <3>2. F2[j] = f + m /\ G2[j] = 0
      <4>1. ~ (j <= 1) /\ ~ (j <= m + 1) /\ j # 0 /\ j - l = 0
        BY <2>3
      <4> QED  BY <1>4, <1>7, <2>0, <4>1
    <3>3. F2[j - 1] = f + m /\ G2[j - 1] = 0
      <4>1. ~ (j - 1 <= 1) /\ j - 1 <= m + 1 /\ j - 1 # 0 /\ (j - 1) - 1 = m /\ m - m = 0
        BY <2>3
      <4> QED  BY <1>7, <2>0, <4>1
    <3>4. q[j].t = "nl"
      BY <3>1 DEF Unit
    <3> QED  BY <3>2, <3>3, <3>4 DEF ChunkStep, LastChunk
  <2>4. CASE j > l
    <3>0. j \in Nat /\ l \in Nat /\ j <= l + Len(s) /\ j > l
      BY <1>0, <1>2, <2>4
    <3>1. PICK i \in 1 .. Len(s) : i = j - l /\ i - 1 = (j - 1) - l
      <4> HIDE DEF l
      <4> QED  BY <1>0, <3>0
    <3>2. q[j] = s[i]
      BY <1>2, <2>4, <3>1
    <3>3. F2[j] = F[i] /\ G2[j] = G[i] /\ F2[j - 1] = F[i - 1] /\ G2[j - 1] = G[i - 1]
      <4>1. ~ (j <= 1) /\ ~ (j <= m + 1) /\ j # 0 /\ ~ (j - 1 <= 1) /\ ~ (j - 1 <= m + 1) /\ j - 1 # 0
        BY <2>4
      <4> QED  BY <1>7, <2>0, <3>1, <4>1
    <3>4. ChunkStep(xid, s[i], F[i - 1], G[i - 1], F[i], G[i]) /\ LastChunk(s, i, F[i], n)
      BY <1>3 DEF Chunks
    <3>5. ASSUME NEW a \in j + 1 .. Len(q) PROVE a - l \in i + 1 .. Len(s) /\ q[a] = s[a - l]
      <4>1. a - l \in i + 1 .. Len(s) /\ ~ (a <= l) /\ a \in 1 .. l + Len(s)
        BY <1>0, <1>2, <2>4, <3>1
      <4> QED  BY <1>2, <4>1
    <3>6. LastChunk(q, j, F2[j], n)
      BY <3>2, <3>3, <3>4, <3>5 DEF LastChunk
    <3> QED  BY <3>2, <3>3, <3>4, <3>6
  <2> QED  BY <2>0, <2>1, <2>2, <2>3, <2>4
<1>9. \A j \in 0 .. Len(q) : F2[j] + G2[j] <= n
  BY <1>5 DEF F2, G2
<1>10. Chunks(xid, q, f, 0, n, F2, G2)
  BY <1>6, <1>8, <1>9 DEF Chunks
<1> QED  BY <1>2, <1>10 DEF Chunky, q, c

\* What Chunked may send is a chunked body ...
LEMMA ChunkedSent ==
  ASSUME NEW n \in Nat, xid \in Nat, NEW b \in Chunked(n)
  PROVE  b \in Seq(Units) /\ Chunky(xid, b, 0, 0, n)
<1> DEFINE z == <<Unit("size", 0)>>
           e == <<Unit("nl", 0)>>
           S == IF n = 0 THEN {<<>>}
                ELSE {Chunk(0, n)} \cup (IF n = 1 THEN {} ELSE {Chunk(0, 1) \o Chunk(1, n - 1)})
<1>1. PICK s \in S, t \in {<<>>, <<Unit("trailer", 0)>>} : b = ((s \o z) \o t) \o e
  BY SMTT(40) DEF Chunked
<1>2. z \in Seq(Units) /\ Len(z) = 1 /\ z[1].t = "size" /\ z[1].v = 0
  BY DEF Units, Unit
<1>3. e \in Seq(Units) /\ Len(e) = 1 /\ e[1].t = "nl"
  BY DEF Units, Unit
<1>4. t \in Seq(Units) /\ \A i \in 1 .. Len(t) : t[i].t = "trailer"
  <2>1. CASE t = <<>>
    BY <2>1, EmptySeq
  <2>2. CASE t = <<Unit("trailer", 0)>>
    BY <2>2 DEF Units, Unit
  <2> QED  BY <2>1, <2>2
<1>5. n # 0 => Chunk(0, n) \in Seq(Units)
  BY ChunkIs
<1>6. n # 0 => Chunk(0, 1) \in Seq(Units) /\ Chunk(1, n - 1) \in Seq(Units)
  <2>1. Chunk(0, 1) \in Seq(Units)
    BY ChunkIs
  <2>2. ASSUME n # 0 PROVE Chunk(1, n - 1) \in Seq(Units)
    <3>1. n - 1 \in Nat
      BY <2>2
    <3> QED  BY <3>1, ChunkIs
  <2> QED  BY <2>1, <2>2
<1>7. \A a, q, c \in Seq(Units) : Associate(a, q, c)
  BY Associates
<1>8. \A a, q \in Seq(Units) : a \o q \in Seq(Units)
  BY ConcatProperties
<1> DEFINE y == (z \o t) \o e
<1> HIDE DEF z, e
<1>9. y \in Seq(Units) /\ Chunky(xid, y, n, 0, n)
  <2>1. PICK l \in Nat : l = Len(t)
    BY <1>4, LenProperties
  <2>2. IsJoin(z \o t, z, t, 1, l, Units)
    BY <1>2, <1>4, <2>1, Joined
  <2>3. IsJoin(y, z \o t, e, 1 + l, 1, Units)
    <3>1. z \o t \in Seq(Units) /\ Len(z \o t) = 1 + l
      BY <2>2 DEF IsJoin
    <3> HIDE DEF e
    <3> QED  BY <1>3, <3>1, Joined
  <2> HIDE DEF y
  <2>4. y \in Seq(Units) /\ Len(y) = l + 2
    BY <2>3 DEF IsJoin
  <2>5. ASSUME NEW i \in 1 .. l + 2
        PROVE  y[i] = IF i = 1 THEN z[1] ELSE IF i <= 1 + l THEN t[i - 1] ELSE e[1]
    <3>1. i \in 1 .. (1 + l) + 1
      OBVIOUS
    <3>2. y[i] = IF i <= 1 + l THEN (z \o t)[i] ELSE e[i - (1 + l)]
      BY <2>3, <3>1 DEF IsJoin
    <3>3. CASE i <= 1 + l
      <4>1. (z \o t)[i] = IF i <= 1 THEN z[i] ELSE t[i - 1]
        <5>1. i \in 1 .. 1 + l
          BY <3>3
        <5> QED  BY <2>2, <5>1 DEF IsJoin
      <4> QED  BY <3>2, <3>3, <4>1
    <3>4. CASE ~ (i <= 1 + l)
      <4>1. i - (1 + l) = 1 /\ i # 1
        BY <3>4
      <4> QED  BY <3>2, <3>4, <4>1
    <3> QED  BY <3>3, <3>4
  <2>6. ASSUME NEW i \in 2 .. Len(y) PROVE y[i].t \in {"nl", "trailer"}
    <3>1. i \in 1 .. l + 2 /\ i # 1 /\ (i <= 1 + l => i - 1 \in 1 .. Len(t))
      BY <2>1, <2>4
    <3> QED  BY <1>3, <1>4, <2>5, <3>1
  <2>7. y # <<>> /\ y[1] = z[1]
    <3>1. 1 \in 1 .. l + 2
      OBVIOUS
    <3> QED  BY <2>4, <2>5, <3>1
  <2> QED  BY <1>2, <2>4, <2>6, <2>7, ChunkyEnd
<1>10. ASSUME s \in Seq(Units) PROVE b = s \o y
  <2>1. (s \o z) \o t = s \o (z \o t)
    BY <1>2, <1>4, <1>7, <1>10 DEF Associate
  <2>2. z \o t \in Seq(Units)
    BY <1>2, <1>4, <1>8
  <2>3. (s \o (z \o t)) \o e = s \o ((z \o t) \o e)
    <3>1. Associate(s, z \o t, e)
      BY <1>3, <1>7, <1>10, <2>2
    <3> QED  BY <3>1 DEF Associate
  <2> QED  BY <1>1, <2>1, <2>3
<1> HIDE DEF y
<1>11. CASE n = 0
  <2>1. s = <<>> /\ s \in Seq(Units)
    BY <1>11, EmptySeq
  <2>2. b = y
    BY <1>9, <1>10, <2>1, ConcatEmptySeq
  <2> QED  BY <1>9, <1>11, <2>2
<1>12. CASE n # 0 /\ s = Chunk(0, n)
  <2>1. b = Chunk(0, n) \o y /\ n \in Nat \ {0} /\ 0 + n = n
    BY <1>5, <1>10, <1>12
  <2>2. Chunky(xid, y, 0 + n, 0, n)
    BY <1>9, <2>1
  <2> QED  BY <1>9, <2>1, <2>2, ChunkyChunk
<1>13. CASE n # 0 /\ n # 1 /\ s = Chunk(0, 1) \o Chunk(1, n - 1)
  <2>1. s \in Seq(Units)
    BY <1>6, <1>8, <1>13
  <2>2. b = Chunk(0, 1) \o (Chunk(1, n - 1) \o y)
    <3>1. b = (Chunk(0, 1) \o Chunk(1, n - 1)) \o y
      BY <1>10, <1>13, <2>1
    <3>2. Associate(Chunk(0, 1), Chunk(1, n - 1), y)
      BY <1>6, <1>7, <1>9, <1>13
    <3> QED  BY <3>1, <3>2 DEF Associate
  <2>3. PICK m \in Nat \ {0} : m = n - 1 /\ 1 + m = n
    BY <1>13
  <2>4. Chunk(1, m) \o y \in Seq(Units) /\ Chunky(xid, Chunk(1, m) \o y, 1, 0, n)
    BY <1>9, <2>3, ChunkyChunk
  <2>5. Chunky(xid, Chunk(1, m) \o y, 0 + 1, 0, n)
    BY <2>4
  <2>6. /\ Chunk(0, 1) \o (Chunk(1, m) \o y) \in Seq(Units)
        /\ Chunky(xid, Chunk(0, 1) \o (Chunk(1, m) \o y), 0, 0, n)
    <3> DEFINE r == Chunk(1, m) \o y
    <3>1. r \in Seq(Units) /\ Chunky(xid, r, 0 + 1, 0, n) /\ 0 \in Nat /\ 1 \in Nat \ {0}
      BY <2>4, <2>5
    <3> HIDE DEF r
    <3>2. Chunk(0, 1) \o r \in Seq(Units) /\ Chunky(xid, Chunk(0, 1) \o r, 0, 0, n)
      BY <3>1, ChunkyChunk
    <3> QED  BY <3>2 DEF r
  <2> QED  BY <2>2, <2>3, <2>6
<1> QED  BY <1>11, <1>12, <1>13

\* ... what Data sends is a plain one ...
LEMMA DataSent ==
  ASSUME NEW n \in Nat, xid \in Nat
  PROVE  Data(n) \in Seq(Units) /\ Plain(xid, Data(n), 0, n)
<1>1. ASSUME NEW i \in 1 .. n PROVE Unit("data", i) \in Units /\ Unit("data", i) = Byte(xid, 0 + i)
  BY DEF Units, Unit, Byte
<1> HIDE DEF Unit, Byte
<1>2. Data(n) \in Seq(Units) /\ Len(Data(n)) = n /\ \A i \in 1 .. n : Data(n)[i] = Byte(xid, 0 + i)
  <2> HIDE DEF Units
  <2> QED  BY <1>1 DEF Data
<1> QED  BY <1>2 DEF Plain

\* ... and BodyOn sends what the header announces.
LEMMA BodySent ==
  ASSUME NEW h \in Headers, xid \in Nat, NEW b \in BodyOn(h)
  PROVE  b \in Seq(Units) /\ Sent(xid, h, b)
<1>0. h.body \in Nat /\ <<>> \in Seq(Units)
  BY TransferAssumption, EmptySeq DEF Headers
<1>1. CASE h.head
  <2>1. b = <<>> /\ Framing(h) = "empty"
    BY <1>1 DEF BodyOn, Framing
  <2> QED  BY <1>0, <2>1 DEF Sent
<1>2. CASE ~ h.head /\ h.te = "length"
  <2>1. b = Data(h.body) /\ Framing(h) = "length"
    BY <1>2 DEF BodyOn, Framing
  <2> QED  BY <1>0, <2>1, DataSent DEF Sent
<1>3. CASE ~ h.head /\ h.te = "chunked"
  <2>1. b \in Chunked(h.body) /\ Framing(h) = "chunked"
    BY <1>3 DEF BodyOn, Framing
  <2> QED  BY <1>0, <2>1, ChunkedSent DEF Sent
<1>4. CASE ~ h.head /\ h.te = "none" /\ ~ BackendKeeps(h)
  <2>1. b = Data(h.body) /\ Framing(h) = "eof"
    BY <1>4 DEF BodyOn, Framing, BackendKeeps, Headers
  <2> QED  BY <1>0, <2>1, DataSent DEF Sent
<1>5. CASE ~ h.head /\ h.te = "none" /\ BackendKeeps(h)
  <2>1. b = <<>> /\ Framing(h) = "empty"
    BY <1>5 DEF BodyOn, Framing, BackendKeeps, Headers
  <2> QED  BY <1>0, <2>1 DEF Sent
<1>6. CASE ~ h.head /\ h.te = "bad"
  <2>1. b = <<>> /\ Framing(h) = "bad"
    BY <1>6 DEF BodyOn, Framing
  <2> QED  BY <1>0, <2>1 DEF Sent
<1>7. h.te \in {"length", "chunked", "bad", "none"}
  BY DEF Headers
<1> QED  BY <1>1, <1>2, <1>3, <1>4, <1>5, <1>6, <1>7

-----------------------------------------------------------------------------
(* HTC_Read takes what comes first, from the pipeline and the socket. *)

\* Taking from a first and then from b is taking from a \o b.
LEMMA SplitJoin ==
  ASSUME NEW U, NEW a \in Seq(U), NEW b \in Seq(U), NEW l \in 0 .. Len(a), NEW n \in 0 .. Len(b),
         n = 0 \/ l = Len(a)
  PROVE  /\ SubSeq(a, 1, l) \o SubSeq(b, 1, n) = SubSeq(a \o b, 1, l + n)
         /\ SubSeq(a, l + 1, Len(a)) \o SubSeq(b, n + 1, Len(b)) = SubSeq(a \o b, (l + n) + 1, Len(a \o b))
         /\ l + n \in 0 .. Len(a \o b)
<1>1. PICK p, q : p = Len(a) /\ q = Len(b) /\ p \in Nat /\ q \in Nat
  BY LenProperties
<1>2. IsJoin(a \o b, a, b, p, q, U)
  BY <1>1, Joined
<1> DEFINE c == a \o b
<1>3. c \in Seq(U) /\ Len(c) = p + q /\ \A i \in 1 .. p + q : c[i] = IF i <= p THEN a[i] ELSE b[i - p]
  BY <1>2 DEF IsJoin
<1>4. l \in Nat /\ n \in Nat /\ l + n \in 0 .. Len(c) /\ (n = 0 \/ l = p) /\ l <= p /\ n <= q
  BY <1>1, <1>3
<1>5. SubSeq(a, 1, l) \o SubSeq(b, 1, n) = SubSeq(c, 1, l + n)
  <2> DEFINE a1 == SubSeq(a, 1, l)
             b1 == SubSeq(b, 1, n)
             c1 == SubSeq(c, 1, l + n)
  <2>1. a1 \in Seq(U) /\ Len(a1) = l /\ \A i \in 1 .. l : a1[i] = a[i]
    BY Upto
  <2>2. b1 \in Seq(U) /\ Len(b1) = n /\ \A i \in 1 .. n : b1[i] = b[i]
    BY Upto
  <2>3. c1 \in Seq(U) /\ Len(c1) = l + n /\ \A i \in 1 .. l + n : c1[i] = c[i]
    <3> HIDE DEF c
    <3> QED  BY <1>3, <1>4, Upto
  <2> HIDE DEF a1, b1, c1, c
  <2>4. IsJoin(a1 \o b1, a1, b1, l, n, U)
    BY <2>1, <2>2, Joined
  <2> DEFINE d == a1 \o b1
  <2>5. d \in Seq(U) /\ Len(d) = l + n /\ \A i \in 1 .. l + n : d[i] = IF i <= l THEN a1[i] ELSE b1[i - l]
    BY <2>4 DEF IsJoin
  <2> HIDE DEF d
  <2>6. ASSUME NEW i \in 1 .. l + n PROVE d[i] = c1[i]
    <3>1. i \in 1 .. p + q
      BY <1>1, <1>4
    <3>2. CASE i <= l
      <4>1. i <= p /\ i \in 1 .. l
        BY <1>1, <1>4, <3>2
      <4> QED  BY <1>3, <2>1, <2>3, <2>5, <3>1, <3>2, <4>1
    <3>3. CASE ~ (i <= l)
      <4>1. l = p /\ i - l \in 1 .. n
        BY <1>4, <3>3
      <4> QED  BY <1>3, <2>2, <2>3, <2>5, <3>1, <3>3, <4>1
    <3> QED  BY <3>2, <3>3
  <2>7. d = c1
    BY <2>3, <2>5, <2>6, SeqEqual
  <2> QED  BY <2>7 DEF a1, b1, c1, d
<1>6. SubSeq(a, l + 1, Len(a)) \o SubSeq(b, n + 1, Len(b)) = SubSeq(c, (l + n) + 1, Len(c))
  <2> DEFINE a1 == SubSeq(a, l + 1, Len(a))
             b1 == SubSeq(b, n + 1, Len(b))
             c1 == SubSeq(c, (l + n) + 1, Len(c))
  <2>1. a1 \in Seq(U) /\ Len(a1) = p - l /\ \A i \in 1 .. p - l : a1[i] = a[l + i]
    BY <1>1, After
  <2>2. b1 \in Seq(U) /\ Len(b1) = q - n /\ \A i \in 1 .. q - n : b1[i] = b[n + i]
    BY <1>1, After
  <2>3. c1 \in Seq(U) /\ Len(c1) = (p + q) - (l + n) /\ \A i \in 1 .. (p + q) - (l + n) : c1[i] = c[(l + n) + i]
    <3> HIDE DEF c
    <3> QED  BY <1>3, <1>4, After
  <2> HIDE DEF a1, b1, c1, c
  <2>4. IsJoin(a1 \o b1, a1, b1, p - l, q - n, U)
    BY <2>1, <2>2, Joined
  <2> DEFINE d == a1 \o b1
  <2>5. /\ d \in Seq(U) /\ Len(d) = (p - l) + (q - n)
        /\ \A i \in 1 .. (p - l) + (q - n) : d[i] = IF i <= p - l THEN a1[i] ELSE b1[i - (p - l)]
    BY <2>4 DEF IsJoin
  <2> HIDE DEF d
  <2>6. (p - l) + (q - n) = (p + q) - (l + n)
    BY <1>1, <1>4
  <2>7. ASSUME NEW i \in 1 .. (p + q) - (l + n) PROVE d[i] = c1[i]
    <3>0. c1[i] = c[(l + n) + i] /\ i \in 1 .. (p - l) + (q - n)
      BY <2>3, <2>6
    <3>1. (l + n) + i \in 1 .. p + q /\ i \in Nat /\ i >= 1 /\ i <= (p - l) + (q - n)
      <4>1. p \in Nat /\ q \in Nat /\ l \in Nat /\ n \in Nat /\ l <= p /\ n <= q
        BY <1>1, <1>4
      <4>2. i \in Nat /\ i >= 1 /\ i <= (p + q) - (l + n)
        BY <4>1
      <4>3. (l + n) + i \in Nat /\ (l + n) + i >= 1 /\ (l + n) + i <= p + q
        BY <4>1, <4>2
      <4> QED  BY <2>6, <4>1, <4>2, <4>3
    <3>2. CASE i <= p - l
      <4>1. n = 0 /\ (l + n) + i <= p /\ i \in 1 .. p - l /\ (l + n) + i = l + i
        BY <1>1, <1>4, <3>2
      <4> QED  BY <1>3, <2>1, <2>5, <3>0, <3>1, <3>2, <4>1
    <3>3. CASE ~ (i <= p - l)
      <4>1. i - (p - l) \in 1 .. q - n /\ ~ ((l + n) + i <= p) /\ ((l + n) + i) - p = n + (i - (p - l))
        BY <1>1, <1>4, <3>1, <3>3
      <4> QED  BY <1>3, <2>2, <2>5, <3>0, <3>1, <3>3, <4>1
    <3> QED  BY <3>2, <3>3
  <2>8. d = c1
    BY <2>3, <2>5, <2>6, <2>7, SeqEqual
  <2> QED  BY <2>8 DEF a1, b1, c1, d
<1> QED  BY <1>4, <1>5, <1>6

\* The units read, and what is left, are those that were there.
Reads(r, len, s) ==
  /\ r.data \in Seq(Units) /\ r.pipe \in Seq(Units) /\ r.wire \in Seq(Units)
  /\ Len(r.data) \in 0 .. len /\ Len(r.data) <= Len(s)
  /\ r.data = SubSeq(s, 1, Len(r.data))
  /\ r.pipe \o r.wire = SubSeq(s, Len(r.data) + 1, Len(s))

\* What HTC_Read returns.
LEMMA ReadIs ==
  ASSUME NEW len \in Nat, pipe \in Seq(Units), wire \in Seq(Units), NEW r \in HTC_Read(len)
  PROVE  Reads(r, len, pipe \o wire)
<1> DEFINE l == IF Len(pipe) > len THEN len ELSE Len(pipe)
           rest == len - l
           most == IF rest < Len(wire) THEN rest ELSE Len(wire)
           Took(n) == [data |-> SubSeq(pipe, 1, l) \o SubSeq(wire, 1, n),
                       pipe |-> SubSeq(pipe, l + 1, Len(pipe)),
                       wire |-> SubSeq(wire, n + 1, Len(wire))]
<1>0. Len(pipe) \in Nat /\ Len(wire) \in Nat
  BY LenProperties
<1>1. l \in 0 .. Len(pipe) /\ rest \in Nat /\ l + rest = len /\ (rest # 0 => l = Len(pipe)) /\ most \in 0 .. Len(wire) /\ most <= rest
  <2>1. l \in 0 .. Len(pipe) /\ l <= len /\ (l # len => l = Len(pipe))
    BY <1>0
  <2> HIDE DEF l
  <2>2. rest \in Nat /\ l + rest = len /\ (rest # 0 => l = Len(pipe))
    BY <1>0, <2>1
  <2> HIDE DEF rest
  <2> QED  BY <1>0, <2>1, <2>2
<1>2. \E n \in 0 .. Len(wire) : n <= rest /\ (n = 0 \/ rest # 0) /\ r = Took(n)
  <2>1. rest = 0 => r = Took(0)
    BY DEF HTC_Read
  <2>2. rest # 0 /\ wire = <<>> => r = Took(0)
    BY DEF HTC_Read
  <2>3. rest # 0 /\ wire # <<>> => \E n \in 1 .. most : r = Took(n)
    BY DEF HTC_Read
  <2> HIDE DEF l, rest, most, Took
  <2>4. CASE rest = 0 \/ wire = <<>>
    BY <1>0, <1>1, <2>1, <2>2, <2>4
  <2>5. CASE rest # 0 /\ wire # <<>>
    <3>1. PICK n \in 1 .. most : r = Took(n)
      BY <2>3, <2>5
    <3>2. n \in 0 .. Len(wire) /\ n <= rest
      BY <1>0, <1>1, <3>1
    <3> QED  BY <2>5, <3>1, <3>2
  <2> QED  BY <2>4, <2>5
<1>3. PICK n \in 0 .. Len(wire) : n <= rest /\ (n = 0 \/ rest # 0) /\ r = Took(n)
  BY <1>2
<1>4. r.data = SubSeq(pipe, 1, l) \o SubSeq(wire, 1, n) /\ r.pipe = SubSeq(pipe, l + 1, Len(pipe)) /\ r.wire = SubSeq(wire, n + 1, Len(wire))
  BY <1>3
<1> HIDE DEF l, rest, most, Took
<1>5. n = 0 \/ l = Len(pipe)
  BY <1>1, <1>3
<1>6. /\ SubSeq(pipe, 1, l) \in Seq(Units) /\ Len(SubSeq(pipe, 1, l)) = l
      /\ SubSeq(wire, 1, n) \in Seq(Units) /\ Len(SubSeq(wire, 1, n)) = n
      /\ r.pipe \in Seq(Units) /\ r.wire \in Seq(Units)
  BY <1>1, <1>4, Upto, After
<1>7. IsJoin(r.data, SubSeq(pipe, 1, l), SubSeq(wire, 1, n), l, n, Units)
  BY <1>4, <1>6, Joined
<1>8. r.data \in Seq(Units) /\ Len(r.data) = l + n /\ l + n \in 0 .. len
  BY <1>0, <1>1, <1>3, <1>7 DEF IsJoin
<1> DEFINE s == pipe \o wire
<1>9. /\ r.data = SubSeq(s, 1, l + n) /\ r.pipe \o r.wire = SubSeq(s, (l + n) + 1, Len(s))
      /\ l + n \in 0 .. Len(s)
  <2>1. pipe \in Seq(Units) /\ wire \in Seq(Units) /\ l \in 0 .. Len(pipe) /\ n \in 0 .. Len(wire)
    BY <1>1
  <2>2. /\ SubSeq(pipe, 1, l) \o SubSeq(wire, 1, n) = SubSeq(pipe \o wire, 1, l + n)
        /\ SubSeq(pipe, l + 1, Len(pipe)) \o SubSeq(wire, n + 1, Len(wire))
             = SubSeq(pipe \o wire, (l + n) + 1, Len(pipe \o wire))
        /\ l + n \in 0 .. Len(pipe \o wire)
    BY <1>5, <2>1, SplitJoin
  <2> QED  BY <1>4, <2>2
<1>10. Len(s) \in Nat
  BY ConcatProperties, LenProperties
<1> HIDE DEF s
<1>11. Len(r.data) <= Len(s)
  BY <1>8, <1>9, <1>10
<1>12. /\ r.data = SubSeq(s, 1, Len(r.data)) /\ r.pipe \o r.wire = SubSeq(s, Len(r.data) + 1, Len(s))
       /\ Len(r.data) \in 0 .. len
  BY <1>8, <1>9
<1>13. Reads(r, len, s)
  BY <1>6, <1>8, <1>11, <1>12 DEF Reads
<1> QED  BY <1>13 DEF s

-----------------------------------------------------------------------------
(* The object while its body is fetched: it has the first bytes of response *)
(* x, in storages that are full but for the last one.                       *)

Nothing == [store |-> <<>>, len |-> 0]
ObjType == [store : Seq(Storages), len : Nat]

Begun(x, o) ==
  /\ o.len = Len(Contents(o.store)) /\ \A i \in 1 .. o.len : Contents(o.store)[i] = Byte(x, i)
  /\ \A i \in 1 .. Len(o.store) : Len(o.store[i].data) <= o.store[i].space
  /\ \A i \in 1 .. Len(o.store) - 1 : Len(o.store[i].data) = o.store[i].space

\* The object when its body has been fetched.
Whole(o, h) ==
  /\ o.len <= h.body /\ (Framing(h) \in {"length", "chunked"} => o.len = h.body)
  /\ \A i \in 1 .. Len(o.store) : o.store[i].data # <<>>
  /\ \A i \in 1 .. Len(o.store) :
       Len(o.store[i].data) = o.store[i].space \/ (Framing(h) = "length" /\ i = Len(o.store))

LastOf(o) == o.store[Len(o.store)]

\* An object with nothing in it is the beginning of any body.
LEMMA NothingBegun ==
  ASSUME NEW x
  PROVE  Nothing \in ObjType /\ Begun(x, Nothing) /\ Nothing.len = 0
<1>1. Nothing.store = <<>> /\ Nothing.len = 0 /\ Nothing \in ObjType
  BY EmptySeq DEF Nothing, ObjType
<1>2. Contents(Nothing.store) = <<>> /\ Len(<<>>) = 0
  BY <1>1, ContentsNone, EmptySeq
<1>3. Begun(x, Nothing)
  <2> HIDE DEF Nothing
  <2> QED  BY <1>1, <1>2 DEF Begun
<1> QED  BY <1>1, <1>3

\* STV_alloc
LEMMA AllocKeeps ==
  ASSUME NEW x, NEW o \in ObjType, Begun(x, o), o.store # <<>> => Len(LastOf(o).data) = LastOf(o).space,
         NEW sp \in Spaces
  PROVE  LET q == [o EXCEPT !.store = Append(@, [space |-> sp, data |-> <<>>])] IN
         q \in ObjType /\ Begun(x, q) /\ q.len = o.len
<1> DEFINE e == [space |-> sp, data |-> <<>>]
           q == [o EXCEPT !.store = Append(@, e)]
           st == o.store
<1>1. st \in Seq(Storages) /\ o.len \in Nat
  BY DEF ObjType
<1>2. e \in Storages /\ e.data = <<>> /\ e.space = sp /\ sp \in Nat \ {0}
  BY TransferAssumption, EmptySeq DEF Storages
<1> HIDE DEF e
<1>3. q.store = Append(st, e) /\ q.len = o.len /\ q = [store |-> Append(st, e), len |-> o.len]
  <2>1. o = [store |-> o.store, len |-> o.len]
    BY DEF ObjType
  <2> QED  BY <2>1
<1> HIDE DEF q
<1>4. /\ Append(st, e) \in Seq(Storages) /\ Len(Append(st, e)) = Len(st) + 1 /\ Append(st, e)[Len(st) + 1] = e
      /\ \A i \in 1 .. Len(st) : Append(st, e)[i] = st[i]
  BY <1>1, <1>2, AppendProperties
<1>5. q \in ObjType
  BY <1>1, <1>3, <1>4 DEF ObjType
<1>6. Contents(q.store) = Contents(st)
  BY <1>1, <1>2, <1>3, ContentsNothing
<1>7. Len(st) \in Nat
  BY <1>1, LenProperties
<1>8. ASSUME NEW i \in 1 .. Len(q.store) PROVE Len(q.store[i].data) <= q.store[i].space
  <2>1. CASE i = Len(st) + 1
    BY <1>2, <1>3, <1>4, <2>1, EmptySeq
  <2>2. CASE i # Len(st) + 1
    <3>1. i \in 1 .. Len(st)
      BY <1>3, <1>4, <1>7, <2>2
    <3> QED  BY <1>3, <1>4, <3>1 DEF Begun
  <2> QED  BY <2>1, <2>2
<1>9. ASSUME NEW i \in 1 .. Len(q.store) - 1 PROVE Len(q.store[i].data) = q.store[i].space
  <2>1. i \in 1 .. Len(st) /\ q.store[i] = st[i]
    BY <1>3, <1>4, <1>7
  <2>2. CASE i = Len(st)
    <3>1. st # <<>>
      BY <1>7, <2>1, EmptySeq
    <3> QED  BY <2>1, <2>2, <3>1 DEF LastOf
  <2>3. CASE i # Len(st)
    <3>1. i \in 1 .. Len(st) - 1
      BY <1>7, <2>1, <2>3
    <3> QED  BY <2>1, <3>1 DEF Begun
  <2> QED  BY <2>2, <2>3
<1>10. Begun(x, q)
  BY <1>3, <1>6, <1>8, <1>9 DEF Begun
<1> QED  BY <1>3, <1>5, <1>10 DEF q, e

\* Store
Stored(x, o, q, d) ==
  /\ q \in ObjType /\ Begun(x, q) /\ q.len = o.len + Len(d) /\ q.store # <<>>
  /\ d # <<>> => LastOf(q).data # <<>>

\* Bytes that come next keep the object a beginning of the body.
LEMMA StoreKeeps ==
  ASSUME NEW x, NEW o \in ObjType, Begun(x, o), o.store # <<>>, NEW d \in Seq(Units),
         Len(d) <= LastOf(o).space - Len(LastOf(o).data), \A i \in 1 .. Len(d) : d[i] = Byte(x, o.len + i)
  PROVE  Stored(x, o, [store |-> [o.store EXCEPT ![Len(o.store)].data = @ \o d], len |-> o.len + Len(d)], d)
<1> DEFINE q == [store |-> [o.store EXCEPT ![Len(o.store)].data = @ \o d], len |-> o.len + Len(d)]
           st == o.store
           y == st[Len(st)]
           z == [y EXCEPT !.data = @ \o d]
<1>1. st \in Seq(Storages) /\ o.len \in Nat /\ Len(d) \in Nat
  BY LenProperties DEF ObjType
<1>2. y \in Storages /\ Len(st) \in Nat \ {0}
  BY <1>1, LastStorage
<1>3. y.data \in Seq(Units) /\ y.space \in Nat \ {0} /\ y = [space |-> y.space, data |-> y.data]
  BY <1>2 DEF Storages
<1>4. IsJoin(y.data \o d, y.data, d, Len(y.data), Len(d), Units)
  BY <1>3, Joined
<1>5. y.data \o d \in Seq(Units) /\ Len(y.data \o d) = Len(y.data) + Len(d) /\ Len(y.data) \in Nat
  BY <1>4 DEF IsJoin
<1>6. z \in Storages /\ z.data = y.data \o d /\ z.space = y.space
  BY <1>3, <1>5 DEF Storages
<1>7. q.store = [st EXCEPT ![Len(st)] = z] /\ q.len = o.len + Len(d)
  OBVIOUS
<1> HIDE DEF z, y
<1> HIDE DEF q
<1>8. /\ q.store \in Seq(Storages) /\ q.store # <<>> /\ Len(q.store) = Len(st)
      /\ q.store[Len(st)] = z /\ \A i \in 1 .. Len(st) - 1 : q.store[i] = st[i]
  BY <1>1, <1>6, <1>7, ChangeLast
<1>9. Contents(q.store) = Contents(st) \o d
  BY <1>1, <1>6, <1>7, ContentsStore DEF y
<1>10. q \in ObjType
  BY <1>1, <1>8 DEF ObjType, q
<1>11. Contents(st) \in Seq(Units) /\ Len(Contents(st)) = o.len
  BY <1>1, ContentsType DEF Begun
<1>12. IsJoin(Contents(q.store), Contents(st), d, o.len, Len(d), Units)
  BY <1>9, <1>11, Joined
<1>13. q.len = Len(Contents(q.store)) /\ \A i \in 1 .. q.len : Contents(q.store)[i] = Byte(x, i)
  <2>1. q.len = Len(Contents(q.store))
    BY <1>7, <1>12 DEF IsJoin
  <2>2. ASSUME NEW i \in 1 .. q.len PROVE Contents(q.store)[i] = Byte(x, i)
    <3>1. Contents(q.store)[i] = IF i <= o.len THEN Contents(st)[i] ELSE d[i - o.len]
      BY <1>7, <1>12 DEF IsJoin
    <3>2. CASE i <= o.len
      BY <1>1, <1>7, <3>1, <3>2 DEF Begun
    <3>3. CASE ~ (i <= o.len)
      <4>1. i - o.len \in 1 .. Len(d) /\ o.len + (i - o.len) = i
        BY <1>1, <1>7, <3>3
      <4> QED  BY <3>1, <3>3, <4>1
    <3> QED  BY <3>2, <3>3
  <2> QED  BY <2>1, <2>2
<1>14. Len(z.data) <= z.space
  <2>1. Len(d) <= y.space - Len(y.data)
    BY DEF y, LastOf
  <2> QED  BY <1>1, <1>3, <1>5, <1>6, <2>1
<1>15. ASSUME NEW i \in 1 .. Len(q.store) PROVE Len(q.store[i].data) <= q.store[i].space
  <2>1. CASE i = Len(st)
    BY <1>8, <1>14, <2>1
  <2>2. CASE i # Len(st)
    <3>1. i \in 1 .. Len(st) - 1 /\ i \in 1 .. Len(st)
      BY <1>2, <1>8, <2>2
    <3> QED  BY <1>8, <3>1 DEF Begun
  <2> QED  BY <2>1, <2>2
<1>16. \A i \in 1 .. Len(q.store) - 1 : Len(q.store[i].data) = q.store[i].space
  BY <1>8 DEF Begun
<1>17. Begun(x, q)
  BY <1>13, <1>15, <1>16 DEF Begun
<1>18. ASSUME d # <<>> PROVE LastOf(q).data # <<>>
  <2>1. Len(d) # 0 /\ Len(y.data \o d) # 0
    BY <1>1, <1>5, <1>18, EmptySeq
  <2>2. z.data # <<>>
    BY <1>6, <2>1, EmptySeq
  <2> QED  BY <1>8, <2>2 DEF LastOf
<1>19. Stored(x, o, q, d)
  BY <1>7, <1>8, <1>10, <1>17, <1>18 DEF Stored
<1> QED  BY <1>19 DEF q

\* Trimmed
LEMMA TrimKeeps ==
  ASSUME NEW x, obj \in ObjType, Begun(x, obj)
  PROVE  /\ Trimmed \in ObjType /\ Begun(x, Trimmed) /\ Trimmed.len = obj.len
         /\ \A i \in 1 .. Len(Trimmed.store) :
              Trimmed.store[i].data # <<>> /\ Len(Trimmed.store[i].data) = Trimmed.store[i].space
<1> DEFINE st == obj.store
           q == Trimmed
<1>1. st \in Seq(Storages) /\ obj.len \in Nat /\ obj = [store |-> st, len |-> obj.len]
  BY DEF ObjType
<1>2. \A i \in 1 .. Len(st) : st[i] \in Storages
  BY <1>1, ElementOfSeq
<1>3. \A y \in Storages : y.data \in Seq(Units) /\ y.space \in Nat \ {0}
  BY DEF Storages
<1>4. ASSUME NEW y \in Storages, Len(y.data) = y.space PROVE y.data # <<>>
  BY <1>3, <1>4, EmptySeq
<1>5. CASE st = <<>>
  <2>1. q = obj
    BY <1>5 DEF Trimmed
  <2>2. Len(st) = 0
    BY <1>5
  <2> QED  BY <2>1, <2>2
<1>6. ASSUME st # <<>>
      PROVE  /\ Front(st) \in Seq(Storages) /\ st[Len(st)] \in Storages
             /\ Len(st) \in Nat \ {0} /\ Len(Front(st)) = Len(st) - 1
             /\ \A i \in 1 .. Len(st) - 1 : Front(st)[i] = st[i]
  BY <1>1, <1>6, LastStorage
<1>7. CASE st # <<>> /\ Cur.data = <<>>
  <2>1. q = [store |-> Front(st), len |-> obj.len]
    <3>1. q = [obj EXCEPT !.store = Front(@)]
      BY <1>7 DEF Trimmed
    <3> QED  BY <1>1, <3>1
  <2>2. q.store = Front(st) /\ q.len = obj.len /\ q \in ObjType
    BY <1>1, <1>6, <1>7, <2>1 DEF ObjType
  <2>3. Contents(q.store) = Contents(st)
    BY <1>1, <1>7, <2>2, ContentsNothing DEF Cur
  <2> HIDE DEF q
  <2>4. ASSUME NEW i \in 1 .. Len(q.store)
        PROVE  Len(q.store[i].data) = q.store[i].space /\ q.store[i].data # <<>> /\ q.store[i].space \in Nat
    <3>1. i \in 1 .. Len(st) - 1 /\ i \in 1 .. Len(st) /\ q.store[i] = st[i]
      BY <1>6, <1>7, <2>2
    <3>2. Len(st[i].data) = st[i].space
      BY <3>1 DEF Begun
    <3> QED  BY <1>2, <1>3, <1>4, <3>1, <3>2
  <2>5. \A i \in 1 .. Len(q.store) - 1 : i \in 1 .. Len(q.store)
    <3>1. Len(q.store) \in Nat
      BY <1>6, <1>7, <2>2, LenProperties
    <3> QED  BY <3>1
  <2>6. Begun(x, q)
    BY <2>2, <2>3, <2>4, <2>5 DEF Begun
  <2> QED  BY <2>2, <2>4, <2>6 DEF q
<1>8. CASE st # <<>> /\ Cur.data # <<>>
  <2> DEFINE y == st[Len(st)]
             z == [y EXCEPT !.space = Len(y.data)]
  <2>0. y = Cur /\ y \in Storages
    BY <1>6, <1>8 DEF Cur
  <2>1. y = [space |-> y.space, data |-> y.data] /\ y.data \in Seq(Units) /\ Len(y.data) \in Nat \ {0}
    BY <1>3, <1>8, <2>0, EmptySeq DEF Storages
  <2>2. z = [space |-> Len(y.data), data |-> y.data]
    BY <2>1
  <2>3. z \in Storages /\ z.data = y.data /\ z.space = Len(y.data)
    BY <2>1, <2>2 DEF Storages
  <2>4. q = [store |-> [st EXCEPT ![Len(st)] = z], len |-> obj.len]
    <3>1. q = [obj EXCEPT !.store[Len(obj.store)].space = Len(Cur.data)]
      BY <1>8 DEF Trimmed
    <3> QED  BY <1>1, <2>0, <3>1
  <2> DEFINE g == [st EXCEPT ![Len(st)] = z]
  <2> HIDE DEF z, q
  <2>5. /\ g = Append(Front(st), z) /\ g \in Seq(Storages) /\ Len(g) = Len(st)
        /\ g[Len(st)] = z /\ \A i \in 1 .. Len(st) - 1 : g[i] = st[i]
    BY <1>1, <1>8, <2>3, ChangeLast
  <2>6. q.store = g /\ q.len = obj.len /\ q \in ObjType
    BY <1>1, <2>4, <2>5 DEF ObjType
  <2>7. Contents(g) = Contents(st)
    <3>1. z.data = y.data \o <<>> /\ <<>> \in Seq(Units)
      BY <2>1, <2>3, ConcatEmptySeq, EmptySeq
    <3>2. Contents(g) = Contents(st) \o <<>>
      BY <1>1, <1>8, <2>3, <3>1, ContentsStore
    <3> QED  BY <1>1, <3>2, ContentsType, ConcatEmptySeq
  <2> HIDE DEF g
  <2>8. ASSUME NEW i \in 1 .. Len(g)
        PROVE  Len(g[i].data) = g[i].space /\ g[i].data # <<>> /\ g[i].space \in Nat
    <3>1. CASE i = Len(st)
      BY <1>4, <2>1, <2>3, <2>5, <3>1
    <3>2. CASE i # Len(st)
      <4>1. i \in 1 .. Len(st) - 1 /\ i \in 1 .. Len(st) /\ g[i] = st[i]
        BY <1>6, <1>8, <2>5, <3>2
      <4>2. Len(st[i].data) = st[i].space
        BY <4>1 DEF Begun
      <4> QED  BY <1>2, <1>3, <1>4, <4>1, <4>2
    <3> QED  BY <3>1, <3>2
  <2>9. \A i \in 1 .. Len(g) - 1 : i \in 1 .. Len(g)
    BY <1>6, <1>8, <2>5
  <2>10. Begun(x, q)
    <3>1. \A i \in 1 .. Len(g) : Len(g[i].data) <= g[i].space
      BY <2>8
    <3>2. \A i \in 1 .. Len(g) - 1 : Len(g[i].data) = g[i].space
      BY <2>8, <2>9
    <3> QED  BY <2>6, <2>7, <3>1, <3>2 DEF Begun
  <2> QED  BY <2>6, <2>8, <2>10 DEF q
<1> QED  BY <1>5, <1>7, <1>8

\* A body of known length needs no trimming.
LEMMA FilledWhole ==
  ASSUME NEW x, NEW h \in Headers, NEW o \in ObjType, Begun(x, o), Framing(h) = "length", o.len = h.body,
         o.store # <<>> => LastOf(o).data # <<>>
  PROVE  Whole(o, h)
<1> DEFINE st == o.store
<1>1. st \in Seq(Storages) /\ o.len \in Nat
  BY DEF ObjType
<1>2. Len(st) \in Nat /\ \A i \in 1 .. Len(st) : st[i].space \in Nat \ {0}
  <2>1. Len(st) \in Nat /\ \A i \in 1 .. Len(st) : st[i] \in Storages
    BY <1>1, ElementOfSeq, LenProperties
  <2> QED  BY <2>1 DEF Storages
<1>3. ASSUME NEW i \in 1 .. Len(st) PROVE st[i].data # <<>> /\ (Len(st[i].data) = st[i].space \/ i = Len(st))
  <2>1. CASE i = Len(st)
    <3>1. st # <<>>
      BY <2>1, EmptySeq
    <3> QED  BY <2>1, <3>1 DEF LastOf
  <2>2. CASE i # Len(st)
    <3>1. i \in 1 .. Len(st) - 1
      BY <1>2, <2>2
    <3>2. Len(st[i].data) = st[i].space
      BY <3>1 DEF Begun
    <3>3. Len(st[i].data) # 0
      BY <1>2, <3>2
    <3>4. st[i].data # <<>>
      BY <3>3, EmptySeq
    <3> QED  BY <3>2, <3>4
  <2> QED  BY <2>1, <2>2
<1> QED  BY <1>1, <1>3 DEF Whole

-----------------------------------------------------------------------------
(* The inductive invariant: where each step of a transfer has got to. *)

Stops == {"get", "send", "rx", "body", "straight", "chunkline", "chunk", "eof", "trim", "done", "deliver",
           "write", "sent", "closed", "error"}

Writes == [iov : Seq(Seq(Units)), werr : BOOLEAN, todo : Seq(Seq(Units)), all : Seq(Units)]

TransferType ==
  /\ xid \in 1 .. NReq /\ pc \in Stops /\ conn \in {"none", "used", "idle"} /\ eof \in BOOLEAN
  /\ wire \in Seq(Units) /\ pipe \in Seq(Units)
  /\ hp \in Headers /\ asked \in Headers
  /\ obj \in ObjType /\ want \in Nat
  /\ wrw \in Writes /\ Len(wrw.iov) <= siov /\ client \in Seq(Units)

Fetching == {"send", "rx", "body", "straight", "chunkline", "chunk", "eof", "trim", "done"}

\* The connection is in use between VBE_GetFd and the end of the fetch; when it is
\* idle there is nothing on it but the end of a chunked response.
Recyclable(s, h) == Over(s) /\ (s # <<>> => Framing(h) = "chunked") /\ BackendKeeps(h)

ConnInv ==
  /\ pc \in {"get", "deliver", "write", "sent", "closed"} => conn \in {"none", "idle"}
  /\ pc = "error" => conn = "none"
  /\ pc \in Fetching => conn = "used"
  /\ conn = "idle" => Recyclable(wire, asked)

\* What is on the wire before the header has been read: what is left of the response
\* before, and then the header and the body.
Answer(x, h, s, j) ==
  /\ \A i \in 1 .. j - 1 : s[i].t \in {"nl", "trailer"}
  /\ s[j].t = "hdr" /\ s[j].hdr = h
  /\ Sent(x, h, SubSeq(s, j + 1, Len(s)))

Answered(x, h, s) == Over(s) \/ \E j \in 1 .. Len(s) : Answer(x, h, s, j)

\* What is still to be read of the body, by the place the fetch has got to.
Pending(p, x, h, o, n, s) ==
  /\ p = "body" => Sent(x, h, s)
  /\ p = "straight" => Framing(h) = "length" /\ n = h.body - o.len /\ n > 0 /\ Plain(x, s, o.len, h.body)
  /\ p = "chunkline" => Framing(h) = "chunked" /\ Chunky(x, s, o.len, 0, h.body)
  /\ p = "chunk" => Framing(h) = "chunked" /\ n > 0 /\ Chunky(x, s, o.len, n, h.body)
  /\ p = "eof" => Framing(h) = "eof" /\ Plain(x, s, o.len, h.body)
  /\ p = "trim" => /\ Framing(h) \in {"chunked", "eof"} /\ o.len <= h.body
                   /\ Framing(h) = "chunked" => Over(s) /\ o.len = h.body
  /\ p = "done" => /\ Whole(o, h) /\ (Over(s) \/ Framing(h) = "eof")
                   /\ Framing(h) \in {"length", "empty"} => s = <<>>
                   /\ Framing(h) # "bad"

FetchInv ==
  /\ Begun(xid, obj)
  /\ pc \in {"get", "send", "rx", "body", "error"} => obj = Nothing
  /\ pc = "send" => Over(wire)
  /\ pc = "rx" => Answered(xid, asked, wire)
  /\ pc \notin {"get", "send", "rx", "error"} => hp = asked
  /\ pc \in {"body", "straight", "chunkline", "chunk", "eof", "trim", "done"} =>
       Pending(pc, xid, hp, obj, want, pipe \o wire)
  /\ pc \in {"deliver", "write", "sent", "closed"} => Whole(obj, hp)

\* What has been written, what is held and what is to come make the response.
WriteInv ==
  /\ pc = "write" /\ ~ wrw.werr => client \o (FlattenSeq(wrw.iov) \o FlattenSeq(wrw.todo)) = wrw.all
  /\ pc \in {"write", "sent", "closed"} => IsPrefix(client, wrw.all)
  /\ pc = "sent" => client = wrw.all

TransferInv == TransferType /\ ConnInv /\ FetchInv /\ WriteInv

-----------------------------------------------------------------------------
(* What is on the wire, when the backend stops before the end or a part of *)
(* it has been read.                                                       *)

\* Parts of the end of a chunked response.
LEMMA OverPart ==
  ASSUME NEW s \in Seq(Units), Over(s), NEW m \in 0 .. Len(s)
  PROVE  Over(SubSeq(s, 1, m)) /\ Over(SubSeq(s, m + 1, Len(s)))
<1>0. Len(s) \in Nat /\ m \in Nat
  BY LenProperties
<1> DEFINE a == SubSeq(s, 1, m)
           b == SubSeq(s, m + 1, Len(s))
<1>1. Len(a) = m /\ \A i \in 1 .. m : a[i] = s[i]
  BY Upto
<1>2. Len(b) = Len(s) - m /\ \A i \in 1 .. Len(s) - m : b[i] = s[m + i]
  BY After
<1> HIDE DEF a, b
<1>3. Over(a)
  BY <1>0, <1>1 DEF Over
<1>4. ASSUME NEW i \in 1 .. Len(b) PROVE b[i].t \in {"nl", "trailer"}
  <2>1. b[i] = s[m + i] /\ m + i \in 1 .. Len(s)
    BY <1>0, <1>2
  <2> QED  BY <2>1 DEF Over
<1> QED  BY <1>3, <1>4 DEF Over, a, b

\* What is not pipelined of it.
LEMMA OverRest ==
  ASSUME NEW a \in Seq(Units), NEW b \in Seq(Units), Over(a \o b)
  PROVE  Over(b)
<1> DEFINE c == a \o b
<1>1. PICK m \in Nat, n \in Nat : Len(a) = m /\ Len(b) = n
  BY LenProperties
<1>2. IsJoin(c, a, b, m, n, Units)
  BY <1>1, Joined
<1>3. Over(c)
  OBVIOUS
<1> HIDE DEF c
<1>4. ASSUME NEW i \in 1 .. n PROVE b[i].t \in {"nl", "trailer"}
  <2>1. m + i \in 1 .. m + n /\ ~ (m + i <= m) /\ (m + i) - m = i
    OBVIOUS
  <2>2. c[m + i] = b[i] /\ Len(c) = m + n
    BY <1>2, <2>1 DEF IsJoin
  <2> QED  BY <1>3, <2>1, <2>2 DEF Over
<1> QED  BY <1>1, <1>4 DEF Over

\* Nothing is left of a response that has been read.
LEMMA OverNone ==
  Over(<<>>)
BY DEF Over

\* The backend stops in the body, ...
LEMMA SentCut ==
  ASSUME NEW x, NEW h \in Headers, NEW s \in Seq(Units), Sent(x, h, s), NEW m \in 0 .. Len(s)
  PROVE  Sent(x, h, SubSeq(s, 1, m))
<1>0. h.body \in Nat /\ 0 \in Nat
  BY TransferAssumption DEF Headers
<1>1. Framing(h) = "chunked" => Chunky(x, SubSeq(s, 1, m), 0, 0, h.body)
  BY <1>0, ChunkyCut DEF Sent
<1>2. Framing(h) \in {"length", "eof"} => Plain(x, SubSeq(s, 1, m), 0, h.body)
  BY <1>0, PlainCut DEF Sent
<1>3. ASSUME Framing(h) = "empty" PROVE SubSeq(s, 1, m) = <<>>
  <2>1. s = <<>>
    BY <1>3 DEF Sent
  <2>2. m = 0
    BY <2>1
  <2>3. SubSeq(s, 1, m) \in Seq(Units) /\ Len(SubSeq(s, 1, m)) = 0
    BY <2>2, Upto
  <2> QED  BY <2>3, EmptySeq
<1> QED  BY <1>1, <1>2, <1>3 DEF Sent

\* ... at whatever place the fetch is.
LEMMA PendingCut ==
  ASSUME NEW p, NEW x, NEW h \in Headers, NEW o \in ObjType, NEW n \in Nat, NEW s \in Seq(Units),
         Pending(p, x, h, o, n, s), NEW m \in 0 .. Len(s)
  PROVE  Pending(p, x, h, o, n, SubSeq(s, 1, m))
<1> DEFINE q == SubSeq(s, 1, m)
<1>0. h.body \in Nat /\ o.len \in Nat /\ 0 \in Nat
  BY TransferAssumption DEF Headers, ObjType
<1>1. Sent(x, h, s) => Sent(x, h, q)
  BY SentCut
<1>2. Plain(x, s, o.len, h.body) => Plain(x, q, o.len, h.body)
  BY <1>0, PlainCut
<1>3. Chunky(x, s, o.len, 0, h.body) => Chunky(x, q, o.len, 0, h.body)
  BY <1>0, ChunkyCut
<1>4. Chunky(x, s, o.len, n, h.body) => Chunky(x, q, o.len, n, h.body)
  BY <1>0, ChunkyCut
<1>5. Over(s) => Over(q)
  BY OverPart
<1>6. s = <<>> => q = <<>>
  <2>1. ASSUME s = <<>> PROVE q = <<>>
    <3>1. m = 0
      BY <2>1
    <3>2. q \in Seq(Units) /\ Len(q) = 0
      BY <3>1, Upto
    <3> QED  BY <3>2, EmptySeq
  <2> QED  BY <2>1
<1> HIDE DEF q
<1>7. Pending(p, x, h, o, n, q)
  BY <1>1, <1>2, <1>3, <1>4, <1>5, <1>6 DEF Pending
<1> QED  BY <1>7 DEF q

\* What is cut off the wire is cut off the end of what is to be read.
LEMMA CutWire ==
  ASSUME NEW a \in Seq(Units), NEW b \in Seq(Units), NEW n \in 0 .. Len(b)
  PROVE  \E m \in 0 .. Len(a \o b) : a \o SubSeq(b, 1, n) = SubSeq(a \o b, 1, m)
<1>1. PICK l : l = Len(a) /\ l \in 0 .. Len(a) /\ SubSeq(a, 1, l) = a
  BY LenProperties, SubSeqFull
<1>2. /\ SubSeq(a, 1, l) \o SubSeq(b, 1, n) = SubSeq(a \o b, 1, l + n)
      /\ l + n \in 0 .. Len(a \o b)
  <2>1. l \in 0 .. Len(a) /\ (n = 0 \/ l = Len(a))
    BY <1>1
  <2> QED  BY <2>1, SplitJoin
<1> QED  BY <1>1, <1>2

\* The header and the body are cut short, ...
LEMMA AnsweredCut ==
  ASSUME NEW x, NEW h \in Headers, NEW s \in Seq(Units), Answered(x, h, s), NEW m \in 0 .. Len(s)
  PROVE  Answered(x, h, SubSeq(s, 1, m))
<1> DEFINE q == SubSeq(s, 1, m)
<1>0. Len(s) \in Nat /\ m \in Nat /\ m <= Len(s)
  BY LenProperties
<1>1. q \in Seq(Units) /\ Len(q) = m /\ \A i \in 1 .. m : q[i] = s[i]
  BY Upto
<1>2. CASE Over(s)
  BY <1>2, OverPart DEF Answered
<1>3. CASE ~ Over(s)
  <2>1. PICK j \in 1 .. Len(s) : Answer(x, h, s, j)
    BY <1>3 DEF Answered
  <2>2. CASE j > m
    <3>1. \A i \in 1 .. Len(q) : q[i].t \in {"nl", "trailer"}
      <4>1. \A i \in 1 .. m : i \in 1 .. j - 1 /\ q[i] = s[i]
        BY <1>0, <1>1, <2>2
      <4> QED  BY <1>1, <2>1, <4>1 DEF Answer
    <3> QED  BY <3>1 DEF Answered, Over
  <2>3. CASE j <= m
    <3> DEFINE u == SubSeq(s, j + 1, Len(s))
               v == SubSeq(q, j + 1, Len(q))
    <3>0. j \in Nat /\ j \in 1 .. m /\ j \in 0 .. Len(s) /\ j \in 0 .. Len(q)
      BY <1>0, <1>1, <2>3
    <3>1. u \in Seq(Units) /\ Len(u) = Len(s) - j /\ \A i \in 1 .. Len(s) - j : u[i] = s[j + i]
      BY <3>0, After
    <3>2. v \in Seq(Units) /\ Len(v) = m - j /\ \A i \in 1 .. m - j : v[i] = q[j + i]
      <4>1. v \in Seq(Units) /\ Len(v) = Len(q) - j /\ \A i \in 1 .. Len(q) - j : v[i] = q[j + i]
        <5> HIDE DEF q
        <5> QED  BY <1>1, <3>0, After
      <4> QED  BY <1>1, <4>1
    <3>3. m - j \in 0 .. Len(u)
      BY <1>0, <3>0, <3>1
    <3> DEFINE y == SubSeq(u, 1, m - j)
    <3> HIDE DEF u, v
    <3>4. y \in Seq(Units) /\ Len(y) = m - j /\ \A i \in 1 .. m - j : y[i] = u[i]
      BY <3>1, <3>3, Upto
    <3> HIDE DEF y, q
    <3>5. ASSUME NEW i \in 1 .. m - j PROVE v[i] = y[i]
      <4>1. j + i \in 1 .. m /\ i \in 1 .. Len(s) - j
        BY <1>0, <3>0
      <4> QED  BY <1>1, <3>1, <3>2, <3>4, <4>1
    <3>6. v = y
      BY <3>2, <3>4, <3>5, SeqEqual
    <3>7. Sent(x, h, y)
      <4>1. Sent(x, h, u)
        BY <2>1 DEF Answer, u
      <4> QED  BY <3>1, <3>3, <4>1, SentCut DEF y
    <3>8. \A i \in 1 .. j - 1 : q[i].t \in {"nl", "trailer"}
      <4>1. \A i \in 1 .. j - 1 : i \in 1 .. m
        BY <1>0, <3>0
      <4> QED  BY <1>1, <2>1, <4>1 DEF Answer
    <3>9. q[j] = s[j]
      BY <1>1, <3>0
    <3>10. Answer(x, h, q, j)
      BY <2>1, <3>6, <3>7, <3>8, <3>9 DEF Answer, v
    <3> QED  BY <1>1, <3>0, <3>10 DEF Answered, q
  <2> QED  BY <1>0, <2>1, <2>2, <2>3
<1> QED  BY <1>2, <1>3

\* ... or line ends before it have been read.
LEMMA AnsweredTail ==
  ASSUME NEW x, NEW h \in Headers, NEW s \in Seq(Units), Answered(x, h, s), NEW m \in 0 .. Len(s),
         \A i \in 1 .. m : s[i].t = "nl"
  PROVE  Answered(x, h, SubSeq(s, m + 1, Len(s)))
<1> DEFINE q == SubSeq(s, m + 1, Len(s))
<1>0. Len(s) \in Nat /\ m \in Nat /\ m <= Len(s)
  BY LenProperties
<1>1. q \in Seq(Units) /\ Len(q) = Len(s) - m /\ \A i \in 1 .. Len(s) - m : q[i] = s[m + i]
  BY After
<1>2. CASE Over(s)
  BY <1>2, OverPart DEF Answered
<1>3. CASE ~ Over(s)
  <2>1. PICK j \in 1 .. Len(s) : Answer(x, h, s, j)
    BY <1>3 DEF Answered
  <2>2. j > m
    <3>1. s[j].t # "nl"
      BY <2>1 DEF Answer
    <3> QED  BY <1>0, <3>1
  <2>3. PICK k \in Nat : k = j - m /\ k \in 1 .. Len(s) - m /\ m + k = j /\ k \in 0 .. Len(q)
    BY <1>0, <1>1, <2>2
  <2>4. q[k] = s[j]
    BY <1>1, <2>3
  <2>5. ASSUME NEW i \in 1 .. k - 1 PROVE q[i].t \in {"nl", "trailer"}
    <3>1. i \in 1 .. Len(s) - m /\ m + i \in 1 .. j - 1
      BY <1>0, <2>3
    <3> QED  BY <1>1, <2>1, <3>1 DEF Answer
  <2> DEFINE u == SubSeq(s, j + 1, Len(s))
             v == SubSeq(q, k + 1, Len(q))
  <2> HIDE DEF q
  <2>6. u \in Seq(Units) /\ Len(u) = Len(s) - j /\ \A i \in 1 .. Len(s) - j : u[i] = s[j + i]
    <3>1. j \in 0 .. Len(s)
      BY <1>0
    <3> QED  BY <3>1, After
  <2>7. v \in Seq(Units) /\ Len(v) = Len(q) - k /\ \A i \in 1 .. Len(q) - k : v[i] = q[k + i]
    BY <1>1, <2>3, After
  <2> HIDE DEF u, v
  <2>8. Len(q) - k = Len(s) - j
    BY <1>0, <1>1, <2>3
  <2>9. ASSUME NEW i \in 1 .. Len(s) - j PROVE v[i] = u[i]
    <3>1. k + i \in 1 .. Len(s) - m /\ m + (k + i) = j + i
      BY <1>0, <2>3
    <3> QED  BY <1>1, <2>6, <2>7, <2>8, <3>1
  <2>10. v = u
    BY <2>6, <2>7, <2>8, <2>9, SeqEqual
  <2>11. Answer(x, h, q, k)
    BY <2>1, <2>4, <2>5, <2>10 DEF Answer, u, v
  <2> QED  BY <1>1, <2>3, <2>11 DEF Answered, q
<1> QED  BY <1>2, <1>3

\* htc_header_complete
HeaderAt(i, s) ==
  \/ i = 0 /\ \A k \in 1 .. Len(s) : s[k].t = "nl"
  \/ /\ i \in 1 .. Len(s) /\ s[i].t # "nl"
     /\ \A k \in 1 .. Len(s) : s[k].t # "nl" => i <= k

\* It finds the first unit that is not white space.
LEMMA HeaderIs ==
  ASSUME NEW s \in Seq(Units)
  PROVE  HeaderAt(htc_header_complete(s), s)
<1> DEFINE I == {k \in 1 .. Len(s) : s[k].t # "nl"}
<1>1. htc_header_complete(s) = IF I # {} THEN Min(I) ELSE 0
  BY DEF htc_header_complete, SelectInSeq, IsSpace
<1>2. CASE I = {}
  BY <1>1, <1>2 DEF HeaderAt
<1>3. CASE I # {}
  <2>1. I \in SUBSET Nat
    BY LenProperties
  <2> HIDE DEF I
  <2>2. \E k \in I : \A y \in I : k <= y
    BY <1>3, <2>1, LeastOf
  <2>3. Min(I) \in I /\ \A y \in I : Min(I) <= y
    BY <2>2 DEF Min
  <2>4. htc_header_complete(s) = Min(I)
    BY <1>1, <1>3
  <2> QED  BY <2>3, <2>4 DEF I, HeaderAt
<1> QED  BY <1>2, <1>3

\* The header found is that of the answer, and the body follows it.
HeaderRead(x, h, s, r, n, i) ==
  /\ r[i].hdr = h
  /\ SubSeq(r, i + 1, n) \in Seq(Units)
  /\ Sent(x, h, SubSeq(r, i + 1, n) \o SubSeq(s, n + 1, Len(s)))

\* That unit, if it is a header, is the one the backend sent for this request.
LEMMA AnsweredHeader ==
  ASSUME NEW x, NEW h \in Headers, NEW s \in Seq(Units), Answered(x, h, s), NEW n \in 1 .. Len(s), NEW i,
         NEW r, r = SubSeq(s, 1, n), i = htc_header_complete(r), i # 0, r[i].t = "hdr"
  PROVE  HeaderRead(x, h, s, r, n, i)
<1>0. Len(s) \in Nat /\ n \in Nat /\ n \in 0 .. Len(s)
  BY LenProperties
<1>1. r \in Seq(Units) /\ Len(r) = n /\ \A k \in 1 .. n : r[k] = s[k]
  BY <1>0, Upto
<1>2. i = htc_header_complete(r) /\ r[i].t = "hdr"
  OBVIOUS
<1>3. i \in 1 .. n /\ \A k \in 1 .. n : r[k].t # "nl" => i <= k
  <2>1. HeaderAt(i, r)
    BY <1>1, <1>2, HeaderIs
  <2> QED  BY <1>1, <2>1 DEF HeaderAt
<1>4. r[i] = s[i] /\ i \in 1 .. Len(s)
  BY <1>0, <1>1, <1>3
<1>5. ~ Over(s)
  BY <1>2, <1>4 DEF Over
<1>6. PICK j \in 1 .. Len(s) : Answer(x, h, s, j)
  BY <1>5 DEF Answered
<1>7. i = j
  <2>1. ~ (i \in 1 .. j - 1)
    BY <1>2, <1>4, <1>6 DEF Answer
  <2>2. j <= i
    BY <1>0, <1>3, <2>1
  <2>3. j \in 1 .. n /\ r[j] = s[j] /\ s[j].t = "hdr"
    BY <1>0, <1>1, <1>3, <1>6, <2>2 DEF Answer
  <2> QED  BY <1>0, <1>3, <2>2, <2>3
<1>8. r[i].hdr = h /\ Sent(x, h, SubSeq(s, i + 1, Len(s)))
  BY <1>4, <1>6, <1>7 DEF Answer
<1> DEFINE a == SubSeq(r, i + 1, n)
           b == SubSeq(s, i + 1, n)
<1>9. a \in Seq(Units) /\ Len(a) = n - i /\ \A k \in 1 .. n - i : a[k] = r[i + k]
  <2>1. i \in 0 .. Len(r)
    BY <1>0, <1>1, <1>3
  <2>2. a = SubSeq(r, i + 1, Len(r))
    BY <1>1
  <2> HIDE DEF a
  <2>3. r \in Seq(Units) /\ Len(r) = n
    BY <1>1
  <2>4. /\ SubSeq(r, i + 1, Len(r)) \in Seq(Units) /\ Len(SubSeq(r, i + 1, Len(r))) = Len(r) - i
        /\ \A k \in 1 .. Len(r) - i : SubSeq(r, i + 1, Len(r))[k] = r[i + k]
    BY <2>1, <2>3, After
  <2> QED  BY <2>2, <2>3, <2>4
<1>10. b \in Seq(Units) /\ Len(b) = n - i /\ \A k \in 1 .. n - i : b[k] = s[i + k]
  <2>0. i + 1 \in Nat \ {0} /\ n \in Nat /\ n <= Len(s) /\ i + 1 <= n + 1
    BY <1>0, <1>3
  <2>1. b \in Seq(Units) /\ Len(b) = (n - (i + 1)) + 1 /\ \A k \in 1 .. (n - (i + 1)) + 1 : b[k] = s[((i + 1) + k) - 1]
    BY <2>0, PartOf
  <2> HIDE DEF b
  <2>2. (n - (i + 1)) + 1 = n - i /\ \A k \in 1 .. n - i : ((i + 1) + k) - 1 = i + k
    <3>1. n \in Nat /\ i \in Nat /\ i <= n
      BY <1>0, <1>3
    <3>2. (n - (i + 1)) + 1 = n - i
      BY <3>1
    <3>3. \A k \in Nat : ((i + 1) + k) - 1 = i + k
      BY <3>1
    <3>4. \A k \in 1 .. n - i : k \in Nat
      BY <3>1
    <3> QED  BY <3>2, <3>3, <3>4
  <2> QED  BY <2>1, <2>2
<1> HIDE DEF a, b
<1>11. ASSUME NEW k \in 1 .. n - i PROVE a[k] = b[k]
  <2>1. i + k \in 1 .. n
    BY <1>0, <1>3
  <2> QED  BY <1>1, <1>9, <1>10, <2>1
<1>12. a = b
  BY <1>9, <1>10, <1>11, SeqEqual
<1>13. b \o SubSeq(s, n + 1, Len(s)) = SubSeq(s, i + 1, Len(s))
  <2>1. i + 1 \in 1 .. Len(s) + 1 /\ n \in (i + 1) - 1 .. Len(s) /\ Len(s) \in n .. Len(s)
    BY <1>0, <1>3
  <2> QED  BY <2>1, ConcatAdjacentSubSeq DEF b
<1> QED  BY <1>8, <1>9, <1>12, <1>13 DEF a, HeaderRead

-----------------------------------------------------------------------------
(* The invariant holds at first, and each action keeps it. *)

\* TransferInit
LEMMA TransferInitInv ==
  TransferInit => TransferInv
<1> SUFFICES ASSUME TransferInit PROVE TransferInv
  OBVIOUS
<1>1. hp \in Headers
  BY TransferAssumption DEF TransferInit, Headers
<1>2. obj = Nothing /\ pc = "get" /\ conn = "none" /\ wire = <<>> /\ pipe = <<>> /\ client = <<>>
  BY DEF TransferInit, Nothing
<1>3. wrw \in Writes /\ wrw.iov = <<>> /\ Len(wrw.iov) = 0
  BY EmptySeq DEF TransferInit, Writes
<1>4. TransferType
  <2>1. xid \in 1 .. NReq /\ want \in Nat /\ eof \in BOOLEAN /\ asked = hp
    <3>1. xid = 1 /\ want = 0 /\ eof = FALSE /\ asked = hp
      BY DEF TransferInit
    <3>2. 1 \in 1 .. NReq
      BY TransferAssumption
    <3>3. xid \in 1 .. NReq /\ want \in Nat
      BY <3>1, <3>2
    <3>4. eof \in BOOLEAN
      BY <3>1
    <3> QED  BY <3>1, <3>3, <3>4
  <2>2. <<>> \in Seq(Units) /\ Nothing \in ObjType /\ 0 <= siov
    BY TransferAssumption, EmptySeq, NothingBegun
  <2> QED  BY <1>1, <1>2, <1>3, <2>1, <2>2 DEF TransferType, Stops
<1>5. ConnInv
  BY <1>2 DEF ConnInv, Fetching
<1>6. FetchInv
  BY <1>2, NothingBegun DEF FetchInv
<1>7. WriteInv
  BY <1>2 DEF WriteInv
<1> QED  BY <1>4, <1>5, <1>6, <1>7 DEF TransferInv

\* A fetch that fails leaves nothing, and no connection.
LEMMA FailedKeeps ==
  ASSUME TransferInv, Failed, pipe' \in Seq(Units), UNCHANGED <<xid, wrw, client, asked>>
  PROVE  TransferInv'
<1>1. obj' = Nothing /\ pc' = "error" /\ conn' = "none" /\ wire' = <<>> /\ eof' = FALSE /\ UNCHANGED <<hp, want>>
  BY DEF Failed, VBE_ClosedFd, Nothing
<1>2. TransferType'
  <2>1. <<>> \in Seq(Units) /\ Nothing \in ObjType
    BY EmptySeq, NothingBegun
  <2> QED  BY <1>1, <2>1 DEF TransferInv, TransferType, Stops
<1>3. ConnInv'
  BY <1>1 DEF ConnInv, Fetching
<1>4. FetchInv'
  BY <1>1, NothingBegun DEF FetchInv
<1>5. WriteInv'
  BY <1>1 DEF WriteInv
<1> QED  BY <1>2, <1>3, <1>4, <1>5 DEF TransferInv

\* VBE_GetFd
LEMMA GetFdKeeps ==
  ASSUME TransferInv, VBE_GetFd
  PROVE  TransferInv'
<1>0. pc = "get" /\ UNCHANGED <<xid, pipe, hp, obj, want, wrw, client, asked>>
  BY DEF VBE_GetFd
<1>1. obj = Nothing /\ TransferType
  BY <1>0 DEF TransferInv, FetchInv
<1>2. \/ pc' = "send" /\ conn' = "used" /\ Over(wire') /\ wire' \in Seq(Units) /\ eof' \in BOOLEAN
      \/ pc' = "error" /\ conn' = "none" /\ wire' \in Seq(Units) /\ eof' \in BOOLEAN
  <2>1. CASE conn = "idle" /\ conn' = "used" /\ pc' = "send" /\ UNCHANGED <<wire, eof>>
    BY <1>1, <2>1 DEF TransferInv, ConnInv, Recyclable, TransferType
  <2>2. CASE /\ wire' = <<>> /\ eof' = FALSE
             /\ (conn' = "used" /\ pc' = "send") \/ (conn' = "none" /\ pc' = "error")
    BY <2>2, EmptySeq, OverNone
  <2> QED  BY <2>1, <2>2 DEF VBE_GetFd
<1>3. TransferType'
  BY <1>0, <1>1, <1>2 DEF TransferType, Stops
<1>4. ConnInv'
  BY <1>2 DEF ConnInv, Fetching
<1>5. FetchInv'
  BY <1>0, <1>1, <1>2 DEF TransferInv, FetchInv
<1>6. WriteInv'
  BY <1>2 DEF WriteInv
<1> QED  BY <1>3, <1>4, <1>5, <1>6 DEF TransferInv

\* The answer goes behind what is left of the response before.
LEMMA AnswerSent ==
  ASSUME NEW s \in Seq(Units), Over(s), xid \in Nat, NEW h \in Headers, NEW b \in BodyOn(h)
  PROVE  (s \o <<Header(h)>>) \o b \in Seq(Units) /\ Answered(xid, h, (s \o <<Header(h)>>) \o b)
<1> DEFINE e == <<Header(h)>>
           a == s \o e
           q == a \o b
<1>1. b \in Seq(Units) /\ Sent(xid, h, b)
  BY BodySent
<1>2. Header(h) \in Units /\ Header(h).t = "hdr" /\ Header(h).hdr = h
  BY DEF Header, Units
<1>3. e \in Seq(Units) /\ Len(e) = 1 /\ e[1] = Header(h)
  BY <1>2
<1>4. PICK m \in Nat, n \in Nat : Len(s) = m /\ Len(b) = n
  BY <1>1, LenProperties
<1> HIDE DEF e
<1>5. IsJoin(a, s, e, m, 1, Units)
  BY <1>3, <1>4, Joined
<1>6. a \in Seq(Units) /\ Len(a) = m + 1 /\ \A i \in 1 .. m + 1 : a[i] = IF i <= m THEN s[i] ELSE e[i - m]
  BY <1>5 DEF IsJoin
<1> HIDE DEF a
<1>7. IsJoin(q, a, b, m + 1, n, Units)
  BY <1>1, <1>4, <1>6, Joined
<1>8. /\ q \in Seq(Units) /\ Len(q) = (m + 1) + n
      /\ \A i \in 1 .. (m + 1) + n : q[i] = IF i <= m + 1 THEN a[i] ELSE b[i - (m + 1)]
  BY <1>7 DEF IsJoin
<1> HIDE DEF q
<1>9. ASSUME NEW i \in 1 .. m PROVE q[i].t \in {"nl", "trailer"}
  <2>1. i \in 1 .. m + 1 /\ i \in 1 .. (m + 1) + n /\ i <= m + 1 /\ i <= m
    OBVIOUS
  <2>2. q[i] = s[i]
    BY <1>6, <1>8, <2>1
  <2> QED  BY <1>4, <2>2 DEF Over
<1>10. q[m + 1] = Header(h)
  <2>1. m + 1 \in 1 .. m + 1 /\ m + 1 \in 1 .. (m + 1) + n /\ ~ (m + 1 <= m) /\ (m + 1) - m = 1 /\ m + 1 <= m + 1
    OBVIOUS
  <2> QED  BY <1>3, <1>6, <1>8, <2>1
<1> DEFINE r == SubSeq(q, (m + 1) + 1, Len(q))
<1>11. r = b
  <2>1. m + 1 \in 0 .. Len(q)
    BY <1>8
  <2>2. r \in Seq(Units) /\ Len(r) = Len(q) - (m + 1) /\ \A i \in 1 .. Len(q) - (m + 1) : r[i] = q[(m + 1) + i]
    BY <1>8, <2>1, After
  <2>3. Len(q) - (m + 1) = n
    BY <1>8
  <2> HIDE DEF r
  <2>4. ASSUME NEW i \in 1 .. n PROVE r[i] = b[i]
    <3>1. (m + 1) + i \in 1 .. (m + 1) + n /\ ~ ((m + 1) + i <= m + 1) /\ ((m + 1) + i) - (m + 1) = i
      OBVIOUS
    <3> QED  BY <1>8, <2>2, <2>3, <3>1
  <2> QED  BY <1>1, <1>4, <2>2, <2>3, <2>4, SeqEqual
<1>12. (m + 1) - 1 = m /\ m + 1 \in 1 .. Len(q)
  BY <1>8
<1>13. Answer(xid, h, q, m + 1)
  BY <1>1, <1>2, <1>9, <1>10, <1>11, <1>12 DEF Answer
<1>14. Answered(xid, h, q)
  BY <1>12, <1>13 DEF Answered
<1> QED  BY <1>8, <1>14 DEF q, a, e

\* FetchHdr, its first half
LEMMA SendKeeps ==
  ASSUME TransferInv, FetchHdr_send
  PROVE  TransferInv'
<1>0. pc = "send" /\ UNCHANGED <<xid, wrw, client>>
  BY DEF FetchHdr_send
<1>1. obj = Nothing /\ TransferType /\ Over(wire) /\ conn = "used"
  BY <1>0 DEF TransferInv, FetchInv, ConnInv, Fetching
<1>2. xid \in Nat
  BY <1>1, TransferAssumption DEF TransferType
<1>3. CASE Failed /\ UNCHANGED <<pipe, asked>>
  BY <1>0, <1>1, <1>3, FailedKeeps DEF TransferType
<1>4. ASSUME pc' = "rx", pipe' = <<>>, UNCHANGED <<conn, hp, obj, want>>, wire' \in Seq(Units), eof' \in BOOLEAN,
             asked' \in Headers, Answered(xid, asked', wire')
      PROVE  TransferInv'
  <2>1. TransferType'
    BY <1>0, <1>1, <1>4, EmptySeq DEF TransferType, Stops
  <2>2. ConnInv'
    BY <1>1, <1>4 DEF ConnInv, Fetching
  <2>3. FetchInv'
    BY <1>0, <1>1, <1>4 DEF TransferInv, FetchInv
  <2>4. WriteInv'
    BY <1>4 DEF WriteInv
  <2> QED  BY <2>1, <2>2, <2>3, <2>4 DEF TransferInv
<1>5. CASE pc' = "rx" /\ pipe' = <<>> /\ UNCHANGED <<conn, wire, eof, hp, obj, want, asked>>
  <2>1. Answered(xid, asked, wire)
    BY <1>1 DEF Answered
  <2> QED  BY <1>1, <1>4, <1>5, <2>1 DEF TransferType
<1>6. CASE /\ \E h \in Headers : \E b \in BodyOn(h) :
                wire' = (wire \o <<Header(h)>>) \o b /\ eof' = ~ BackendKeeps(h) /\ asked' = h
           /\ pc' = "rx" /\ pipe' = <<>> /\ UNCHANGED <<conn, hp, obj, want>>
  <2>1. PICK h \in Headers : \E b \in BodyOn(h) :
                wire' = (wire \o <<Header(h)>>) \o b /\ eof' = ~ BackendKeeps(h) /\ asked' = h
    BY <1>6
  <2>2. PICK b \in BodyOn(h) : wire' = (wire \o <<Header(h)>>) \o b /\ eof' = ~ BackendKeeps(h) /\ asked' = h
    BY <2>1
  <2>3. wire \in Seq(Units)
    BY <1>1 DEF TransferType
  <2>4. wire' \in Seq(Units) /\ Answered(xid, h, wire')
    BY <1>1, <1>2, <2>2, <2>3, AnswerSent
  <2>5. eof' \in BOOLEAN
    BY <2>2 DEF BackendKeeps
  <2> QED  BY <1>4, <1>6, <2>2, <2>4, <2>5
<1> QED  BY <1>3, <1>5, <1>6 DEF FetchHdr_send

\* The backend stops.
LEMMA ClosesKeeps ==
  ASSUME TransferInv, BackendCloses
  PROVE  TransferInv'
<1>0. /\ conn = "used" /\ eof' = TRUE /\ UNCHANGED <<xid, pc, conn, pipe, hp, obj, want, wrw, client, asked>>
      /\ TransferType /\ ConnInv /\ FetchInv
  BY DEF BackendCloses, TransferInv
<1>1. wire \in Seq(Units) /\ pipe \in Seq(Units) /\ hp \in Headers /\ asked \in Headers /\ obj \in ObjType /\ want \in Nat
  BY <1>0 DEF TransferType
<1>2. PICK n \in 0 .. Len(wire) : wire' = SubSeq(wire, 1, n)
  <2>1. PICK n \in 0 .. Len(wire) - 1 : wire' = SubSeq(wire, 1, n)
    BY DEF BackendCloses
  <2>2. n \in 0 .. Len(wire)
    BY <1>1, <2>1, LenProperties
  <2> QED  BY <2>1, <2>2
<1>3. wire' \in Seq(Units)
  BY <1>1, <1>2, Upto
<1>4. pc \in Fetching
  BY <1>0 DEF ConnInv, TransferType, Stops, Fetching
<1>5. Over(wire) => Over(wire')
  BY <1>1, <1>2, OverPart
<1>6. Answered(xid, asked, wire) => Answered(xid, asked, wire')
  BY <1>1, <1>2, AnsweredCut
<1>7. Pending(pc, xid, hp, obj, want, pipe \o wire) => Pending(pc, xid, hp, obj, want, pipe \o wire')
  <2>1. PICK m \in 0 .. Len(pipe \o wire) : pipe \o wire' = SubSeq(pipe \o wire, 1, m)
    BY <1>1, <1>2, CutWire
  <2>2. pipe \o wire \in Seq(Units)
    BY <1>1, ConcatProperties
  <2> QED  BY <1>1, <2>1, <2>2, PendingCut
<1>8. TransferType'
  BY <1>0, <1>3 DEF TransferType
<1>9. ConnInv'
  BY <1>0 DEF ConnInv
<1>10. FetchInv'
  BY <1>0, <1>5, <1>6, <1>7 DEF FetchInv
<1>11. WriteInv'
  BY <1>0, <1>4 DEF WriteInv, Fetching
<1> QED  BY <1>8, <1>9, <1>10, <1>11 DEF TransferInv

\* A step of the fetch that keeps the connection.
LEMMA FetchKeeps ==
  ASSUME TransferInv, pc \in Fetching, pc' \in Fetching, UNCHANGED <<xid, conn, eof, wrw, client, asked>>,
         wire' \in Seq(Units), pipe' \in Seq(Units), hp' \in Headers, obj' \in ObjType, want' \in Nat, FetchInv'
  PROVE  TransferInv'
<1>0. TransferType /\ conn = "used"
  BY DEF TransferInv, ConnInv
<1>1. TransferType'
  BY <1>0 DEF TransferType, Fetching, Stops
<1>2. ConnInv'
  BY <1>0 DEF ConnInv, Fetching
<1>3. WriteInv'
  BY DEF WriteInv, Fetching
<1> QED  BY <1>1, <1>2, <1>3 DEF TransferInv

\* FetchHdr, its second half
LEMMA RxKeeps ==
  ASSUME TransferInv, FetchHdr_rx
  PROVE  TransferInv'
<1>0. pc = "rx" /\ UNCHANGED <<xid, wrw, client, asked>> /\ TransferType
  BY DEF FetchHdr_rx, TransferInv
<1>1. obj = Nothing /\ Answered(xid, asked, wire) /\ Begun(xid, obj)
  BY <1>0 DEF TransferInv, FetchInv
<1>2. wire \in Seq(Units) /\ pipe \in Seq(Units) /\ hp \in Headers /\ asked \in Headers /\ obj \in ObjType /\ want \in Nat
  BY <1>0 DEF TransferType
<1>3. CASE Failed /\ UNCHANGED pipe
  BY <1>0, <1>2, <1>3, FailedKeeps
<1>4. CASE ~ (Failed /\ UNCHANGED pipe)
  <2> DEFINE R(n) == SubSeq(wire, 1, n)
             I(n) == htc_header_complete(R(n))
             W(n) == SubSeq(wire, n + 1, Len(wire))
  <2>1. PICK n \in 1 .. Len(wire) :
          \/ /\ I(n) = 0 /\ wire' = W(n) /\ UNCHANGED <<pc, conn, eof, pipe, hp, obj, want>>
          \/ /\ I(n) # 0 /\ R(n)[I(n)].t = "hdr" /\ hp' = R(n)[I(n)].hdr
             /\ pipe' = SubSeq(R(n), I(n) + 1, n) /\ wire' = W(n)
             /\ pc' = "body" /\ UNCHANGED <<conn, eof, obj, want>>
    BY <1>4 DEF FetchHdr_rx
  <2>2. n \in 1 .. Len(wire) /\ n \in 0 .. Len(wire) /\ n \in Nat
    BY <1>2, <2>1, LenProperties
  <2>3. wire' \in Seq(Units)
    BY <1>2, <2>1, <2>2, After
  <2>4. R(n) \in Seq(Units) /\ Len(R(n)) = n /\ \A k \in 1 .. n : R(n)[k] = wire[k]
    BY <1>2, <2>2, Upto
  <2>5. CASE I(n) = 0
    <3> HIDE DEF R
    <3>1. \A k \in 1 .. n : wire[k].t = "nl"
      <4>1. HeaderAt(I(n), R(n))
        BY <2>4, HeaderIs
      <4> QED  BY <2>4, <2>5, <4>1 DEF HeaderAt
    <3>2. wire' = SubSeq(wire, n + 1, Len(wire)) /\ UNCHANGED <<pc, conn, eof, pipe, hp, obj, want>>
      BY <2>1, <2>5
    <3>3. Answered(xid, asked, wire')
      BY <1>1, <1>2, <2>2, <3>1, <3>2, AnsweredTail
    <3>4. FetchInv'
      BY <1>0, <1>1, <3>2, <3>3 DEF FetchInv
    <3> QED  BY <1>0, <1>2, <2>3, <3>2, <3>4, FetchKeeps DEF Fetching
  <2>6. CASE I(n) # 0
    <3>1. /\ R(n)[I(n)].t = "hdr" /\ hp' = R(n)[I(n)].hdr
          /\ pipe' = SubSeq(R(n), I(n) + 1, n) /\ wire' = W(n)
          /\ pc' = "body" /\ UNCHANGED <<conn, eof, obj, want>>
      BY <2>1, <2>6
    <3>2. hp' = asked /\ pipe' \in Seq(Units) /\ Sent(xid, asked, pipe' \o wire')
      <4>1. PICK i, r : i = I(n) /\ r = R(n)
        OBVIOUS
      <4>2. r = SubSeq(wire, 1, n) /\ i = htc_header_complete(r) /\ i # 0 /\ r[i].t = "hdr"
        BY <2>6, <3>1, <4>1
      <4>3. hp' = r[i].hdr /\ pipe' = SubSeq(r, i + 1, n) /\ wire' = SubSeq(wire, n + 1, Len(wire))
        BY <3>1, <4>1
      <4> HIDE DEF R, I, W
      <4>4. HeaderRead(xid, asked, wire, r, n, i)
        BY <1>1, <1>2, <2>2, <4>2, AnsweredHeader
      <4> QED  BY <4>3, <4>4 DEF HeaderRead
    <3> HIDE DEF R, I, W
    <3>3. Pending(pc', xid, asked, obj, want, pipe' \o wire')
      BY <3>1, <3>2 DEF Pending
    <3>4. FetchInv'
      BY <1>0, <1>1, <3>1, <3>2, <3>3 DEF FetchInv
    <3> QED  BY <1>0, <1>2, <2>3, <3>1, <3>2, <3>4, FetchKeeps DEF Fetching
  <2> QED  BY <2>5, <2>6
<1> QED  BY <1>3, <1>4

\* FetchBody
LEMMA BodyKeeps ==
  ASSUME TransferInv, FetchBody
  PROVE  TransferInv'
<1>0. pc = "body" /\ UNCHANGED <<xid, pipe, wrw, client, asked>> /\ TransferType
  BY DEF FetchBody, TransferInv
<1>1. obj = Nothing /\ Begun(xid, obj) /\ hp = asked /\ Sent(xid, hp, pipe \o wire)
  BY <1>0 DEF TransferInv, FetchInv, Pending
<1>2. /\ wire \in Seq(Units) /\ pipe \in Seq(Units) /\ hp \in Headers /\ asked \in Headers /\ obj \in ObjType /\ want \in Nat
      /\ hp.body \in Nat /\ pipe \o wire \in Seq(Units)
  BY <1>0, TransferAssumption, ConcatProperties DEF TransferType, Headers
<1>3. obj.len = 0 /\ obj.store = <<>>
  BY <1>1 DEF Nothing
<1>4. CASE Failed
  BY <1>0, <1>2, <1>4, FailedKeeps
<1> DEFINE s == pipe \o wire
<1>5. ASSUME UNCHANGED <<conn, wire, eof, hp, obj>>, want' \in Nat,
             pc' \in {"straight", "chunkline", "eof", "done"}, Pending(pc', xid, hp, obj, want', s)
      PROVE  TransferInv'
  <2>1. FetchInv'
    BY <1>0, <1>1, <1>5 DEF FetchInv
  <2> QED  BY <1>0, <1>2, <1>5, <2>1, FetchKeeps DEF Fetching
<1>6. ASSUME obj.len <= hp.body, Framing(hp) \in {"length", "chunked"} => obj.len = hp.body PROVE Whole(obj, hp)
  BY <1>3, <1>6 DEF Whole
<1>7. Len(s) \in Nat /\ (s # <<>> => Len(s) # 0)
  BY <1>2, EmptySeq, LenProperties
<1>8. CASE /\ Framing(hp) = "length" /\ want' = hp.body
           /\ pc' = IF hp.body = 0 THEN "done" ELSE "straight"
           /\ UNCHANGED <<conn, wire, eof, hp, obj>>
  <2>1. Plain(xid, s, 0, hp.body)
    BY <1>1, <1>8 DEF Sent
  <2>2. CASE hp.body = 0
    <3> HIDE DEF s
    <3>1. s = <<>>
      BY <1>7, <2>1, <2>2 DEF Plain
    <3>2. Whole(obj, hp)
      BY <1>3, <1>6, <2>2
    <3>3. Pending("done", xid, hp, obj, want', s)
      BY <1>8, <3>1, <3>2, OverNone DEF Pending
    <3> QED  BY <1>2, <1>5, <1>8, <2>2, <3>3
  <2>3. CASE hp.body # 0
    <3>1. Pending("straight", xid, hp, obj, want', s)
      BY <1>2, <1>3, <1>8, <2>1, <2>3 DEF Pending
    <3> QED  BY <1>2, <1>5, <1>8, <2>3, <3>1
  <2> QED  BY <2>2, <2>3
<1>9. CASE Framing(hp) = "chunked" /\ want' = 0 /\ pc' = "chunkline" /\ UNCHANGED <<conn, wire, eof, hp, obj>>
  <2>1. Chunky(xid, s, 0, 0, hp.body)
    BY <1>1, <1>9 DEF Sent
  <2>2. Pending("chunkline", xid, hp, obj, want', s)
    BY <1>3, <1>9, <2>1 DEF Pending
  <2> QED  BY <1>5, <1>9, <2>2
<1>10. CASE Framing(hp) = "eof" /\ pc' = "eof" /\ UNCHANGED <<conn, wire, eof, hp, obj, want>>
  <2>1. Plain(xid, s, 0, hp.body)
    BY <1>1, <1>10 DEF Sent
  <2>2. Pending("eof", xid, hp, obj, want', s)
    BY <1>3, <1>10, <2>1 DEF Pending
  <2> QED  BY <1>2, <1>5, <1>10, <2>2
<1>11. CASE Framing(hp) = "empty" /\ pc' = "done" /\ UNCHANGED <<conn, wire, eof, hp, obj, want>>
  <2>1. s = <<>>
    BY <1>1, <1>11 DEF Sent
  <2>2. Whole(obj, hp)
    BY <1>2, <1>3, <1>6, <1>11
  <2> HIDE DEF s
  <2>3. Pending("done", xid, hp, obj, want', s)
    BY <1>11, <2>1, <2>2, OverNone DEF Pending
  <2> QED  BY <1>2, <1>5, <1>11, <2>3
<1> QED  BY <1>4, <1>8, <1>9, <1>10, <1>11 DEF FetchBody

\* Another storage.
LEMMA AllocatesKeeps ==
  ASSUME TransferInv, pc \in {"straight", "chunk", "eof"}, NeedStorage, NEW sp \in Spaces, STV_alloc(sp),
         UNCHANGED <<xid, pc, conn, wire, eof, pipe, hp, want, wrw, client, asked>>
  PROVE  TransferInv'
<1>0. TransferType /\ FetchInv
  BY DEF TransferInv
<1>1. obj \in ObjType /\ Begun(xid, obj)
  BY <1>0 DEF TransferType, FetchInv
<1>2. obj' = [obj EXCEPT !.store = Append(@, [space |-> sp, data |-> <<>>])]
  BY DEF STV_alloc
<1>3. obj.store # <<>> => Len(LastOf(obj).data) = LastOf(obj).space
  BY DEF NeedStorage, Cur, LastOf
<1>4. obj' \in ObjType /\ Begun(xid, obj') /\ obj'.len = obj.len
  BY <1>1, <1>2, <1>3, AllocKeeps
<1>5. Pending(pc, xid, hp, obj', want, pipe \o wire)
  <2>1. Pending(pc, xid, hp, obj, want, pipe \o wire)
    BY <1>0 DEF FetchInv
  <2> QED  BY <1>4, <2>1 DEF Pending
<1>6. FetchInv'
  BY <1>0, <1>4, <1>5 DEF FetchInv
<1> QED  BY <1>0, <1>4, <1>6, FetchKeeps DEF TransferType, Fetching

\* There is a storage with space left.
LEMMA SpaceIs ==
  ASSUME obj \in ObjType, Begun(xid, obj), ~ NeedStorage
  PROVE  /\ obj.store # <<>> /\ SpaceLeft \in Nat \ {0} /\ SpaceLeft = LastOf(obj).space - Len(LastOf(obj).data)
<1>1. obj.store # <<>> /\ Len(Cur.data) # Cur.space
  BY DEF NeedStorage
<1>2. Cur = LastOf(obj)
  BY DEF Cur, LastOf
<1>3. obj.store \in Seq(Storages)
  BY DEF ObjType
<1>4. Cur \in Storages /\ Len(obj.store) \in Nat \ {0}
  BY <1>1, <1>3, LastStorage DEF Cur
<1>5. Cur.space \in Nat /\ Len(Cur.data) \in Nat
  BY <1>4, LenProperties DEF Storages
<1>6. Len(Cur.data) <= Cur.space
  BY <1>4 DEF Begun, Cur
<1> QED  BY <1>1, <1>2, <1>5, <1>6 DEF SpaceLeft

\* What has been read goes into the object.
LEMMA ReadStored ==
  ASSUME obj \in ObjType, Begun(xid, obj), ~ NeedStorage, NEW len \in Nat, len <= SpaceLeft,
         NEW s \in Seq(Units), NEW r, Reads(r, len, s), \A i \in 1 .. Len(r.data) : s[i] = Byte(xid, obj.len + i)
  PROVE  Stored(xid, obj, Store(r.data), r.data)
<1>1. /\ obj.store # <<>> /\ SpaceLeft \in Nat \ {0} /\ SpaceLeft = LastOf(obj).space - Len(LastOf(obj).data)
  BY SpaceIs
<1> DEFINE d == r.data
<1>2. d \in Seq(Units) /\ Len(d) \in 0 .. len /\ Len(d) <= Len(s) /\ Len(s) \in Nat
  BY LenProperties DEF Reads
<1>2a. d = SubSeq(s, 1, Len(d))
  BY DEF Reads
<1> HIDE DEF d
<1>3. PICK m \in Nat : m = Len(d) /\ m \in 0 .. Len(s) /\ m <= len
  BY <1>2
<1>4. \A i \in 1 .. m : d[i] = s[i]
  <2>1. \A i \in 1 .. m : SubSeq(s, 1, m)[i] = s[i]
    BY <1>3, Upto
  <2> QED  BY <1>3, <1>2a, <2>1
<1>5. \A i \in 1 .. Len(d) : d[i] = Byte(xid, obj.len + i)
  BY <1>3, <1>4 DEF d
<1>6. Len(d) <= LastOf(obj).space - Len(LastOf(obj).data)
  BY <1>1, <1>3
<1>7. Store(d) = [store |-> [obj.store EXCEPT ![Len(obj.store)].data = @ \o d], len |-> obj.len + Len(d)]
  BY DEF Store
<1>8. Stored(xid, obj, Store(d), d)
  BY <1>1, <1>2, <1>5, <1>6, <1>7, StoreKeeps
<1> QED  BY <1>8 DEF d

\* A read of no more than the bytes wanted, of a body of known length ...
LEMMA StraightKeeps ==
  ASSUME TransferInv, fetch_straight
  PROVE  TransferInv'
<1>0. pc = "straight" /\ UNCHANGED <<xid, wrw, client, asked>> /\ TransferType /\ FetchInv
  BY DEF fetch_straight, TransferInv
<1>1. /\ Begun(xid, obj) /\ hp = asked /\ Framing(hp) = "length"
      /\ want = hp.body - obj.len /\ want > 0 /\ Plain(xid, pipe \o wire, obj.len, hp.body)
  BY <1>0 DEF FetchInv, Pending
<1>2. /\ wire \in Seq(Units) /\ pipe \in Seq(Units) /\ hp \in Headers /\ asked \in Headers /\ obj \in ObjType /\ want \in Nat
      /\ hp.body \in Nat /\ pipe \o wire \in Seq(Units) /\ obj.len \in Nat
  BY <1>0, TransferAssumption, ConcatProperties DEF TransferType, Headers, ObjType
<1>3. CASE /\ NeedStorage /\ \E sp \in Spaces : STV_alloc(sp)
           /\ UNCHANGED <<pc, conn, wire, eof, pipe, hp, want>>
  BY <1>0, <1>3, AllocatesKeeps
<1>4. CASE Failed /\ pipe' \in Seq(Units)
  BY <1>0, <1>4, FailedKeeps
<1> DEFINE len == IF want < SpaceLeft THEN want ELSE SpaceLeft
           s == pipe \o wire
<1>5. ASSUME ~ NeedStorage, NEW r \in HTC_Read(len), pipe' = r.pipe, r.data # <<>>, wire' = r.wire,
             obj' = Store(r.data), want' = want - Len(r.data),
             pc' = IF want = Len(r.data) THEN "done" ELSE "straight", UNCHANGED <<conn, eof, hp>>
      PROVE  TransferInv'
  <2>1. SpaceLeft \in Nat
    BY <1>1, <1>2, <1>5, SpaceIs
  <2>2. len \in Nat /\ len <= SpaceLeft /\ len <= want
    BY <1>2, <2>1
  <2> HIDE DEF len
  <2>3. Reads(r, len, pipe \o wire)
    BY <1>2, <1>5, <2>2, ReadIs
  <2>4. PICK m \in Nat : m = Len(r.data) /\ m <= want /\ m \in 0 .. Len(s)
    <3>1. Len(r.data) \in 0 .. len /\ Len(r.data) <= Len(s)
      BY <2>3 DEF Reads
    <3>2. Len(s) \in Nat
      BY <1>2, LenProperties
    <3> HIDE DEF s
    <3> QED  BY <1>2, <2>2, <3>1, <3>2
  <2>5. r.pipe \in Seq(Units) /\ r.wire \in Seq(Units) /\ r.pipe \o r.wire = SubSeq(s, m + 1, Len(s))
    BY <2>3, <2>4 DEF Reads
  <2>6. s \in Seq(Units) /\ Plain(xid, s, obj.len, hp.body)
    BY <1>1, <1>2
  <2>7. /\ Plain(xid, SubSeq(s, m + 1, Len(s)), obj.len + m, hp.body) /\ obj.len + m <= hp.body
        /\ \A i \in 1 .. m : s[i] = Byte(xid, obj.len + i)
    <3>1. PlainLeft(xid, s, obj.len, hp.body, m)
      <4> HIDE DEF s
      <4> QED  BY <1>2, <2>4, <2>6, PlainTake
    <3> QED  BY <3>1 DEF PlainLeft
  <2>8. Stored(xid, obj, obj', r.data)
    <3>1. Reads(r, len, s) /\ \A i \in 1 .. Len(r.data) : s[i] = Byte(xid, obj.len + i)
      BY <2>3, <2>4, <2>7
    <3> HIDE DEF s
    <3> QED  BY <1>1, <1>2, <1>5, <2>2, <2>6, <3>1, ReadStored
  <2>9. obj' \in ObjType /\ Begun(xid, obj') /\ obj'.len = obj.len + m /\ LastOf(obj').data # <<>>
    BY <1>5, <2>4, <2>8 DEF Stored
  <2>10. Plain(xid, pipe' \o wire', obj'.len, hp.body)
    BY <1>5, <2>5, <2>7, <2>9
  <2>11. want' \in Nat
    BY <1>2, <1>5, <2>4
  <2>12. Pending(pc', xid, hp, obj', want', pipe' \o wire')
    <3>1. CASE want = m
      <4>1. pc' = "done" /\ obj'.len = hp.body
        BY <1>1, <1>2, <1>5, <2>4, <2>9, <3>1
      <4>2. Whole(obj', hp)
        BY <1>1, <1>2, <2>9, <4>1, FilledWhole
      <4>3. pipe' \o wire' = <<>>
        <5>1. pipe' \o wire' \in Seq(Units)
          BY <1>5, <2>5, ConcatProperties
        <5>2. Len(pipe' \o wire') = 0
          <6>1. Len(pipe' \o wire') \in Nat /\ obj'.len + Len(pipe' \o wire') <= hp.body
            BY <2>10, <5>1, LenProperties DEF Plain
          <6> QED  BY <1>2, <4>1, <6>1
        <5> QED  BY <5>1, <5>2, EmptySeq
      <4> QED  BY <1>1, <4>1, <4>2, <4>3, OverNone DEF Pending
    <3>2. CASE want # m
      <4>1. pc' = "straight" /\ want' = hp.body - obj'.len /\ want' > 0
        BY <1>1, <1>2, <1>5, <2>4, <2>9, <3>2
      <4> QED  BY <1>1, <2>10, <4>1 DEF Pending
    <3> QED  BY <3>1, <3>2
  <2>13. pc' \in {"straight", "done"}
    BY <1>5
  <2>14. FetchInv'
    BY <1>0, <1>1, <1>5, <2>9, <2>12, <2>13 DEF FetchInv
  <2> QED  BY <1>0, <1>2, <1>5, <2>5, <2>9, <2>11, <2>13, <2>14, FetchKeeps DEF Fetching
<1>6. CASE ~ NeedStorage
  <2>1. CASE Failed /\ UNCHANGED pipe
    BY <1>2, <1>4, <2>1
  <2>2. CASE ~ (Failed /\ UNCHANGED pipe)
    <3>1. PICK r \in HTC_Read(len) :
            /\ pipe' = r.pipe
            /\ IF r.data = <<>> THEN Failed
               ELSE /\ wire' = r.wire /\ obj' = Store(r.data) /\ want' = want - Len(r.data)
                    /\ pc' = IF want = Len(r.data) THEN "done" ELSE "straight"
                    /\ UNCHANGED <<conn, eof, hp>>
      BY <1>6, <2>2 DEF fetch_straight, ReadInto
    <3>2. r.pipe \in Seq(Units)
      <4>1. SpaceLeft \in Nat
        BY <1>1, <1>2, <1>6, SpaceIs
      <4>2. len \in Nat
        BY <1>2, <4>1
      <4> HIDE DEF len
      <4>3. Reads(r, len, pipe \o wire)
        BY <1>2, <3>1, <4>2, ReadIs
      <4> QED  BY <4>3 DEF Reads
    <3> HIDE DEF len
    <3>3. CASE r.data = <<>>
      BY <1>4, <3>1, <3>2, <3>3
    <3>4. CASE r.data # <<>>
      BY <1>5, <1>6, <3>1, <3>4
    <3> QED  BY <3>3, <3>4
  <2> QED  BY <2>1, <2>2
<1> QED  BY <1>3, <1>6 DEF fetch_straight

\* ... or of a chunk.
LEMMA DataKeeps ==
  ASSUME TransferInv, ChunkData
  PROVE  TransferInv'
<1>0. pc = "chunk" /\ UNCHANGED <<xid, wrw, client, asked>> /\ TransferType /\ FetchInv
  BY DEF ChunkData, TransferInv
<1>1. /\ Begun(xid, obj) /\ hp = asked /\ Framing(hp) = "chunked" /\ want > 0
      /\ Chunky(xid, pipe \o wire, obj.len, want, hp.body)
  BY <1>0 DEF FetchInv, Pending
<1>2. /\ wire \in Seq(Units) /\ pipe \in Seq(Units) /\ hp \in Headers /\ asked \in Headers /\ obj \in ObjType /\ want \in Nat
      /\ hp.body \in Nat /\ pipe \o wire \in Seq(Units) /\ obj.len \in Nat
  BY <1>0, TransferAssumption, ConcatProperties DEF TransferType, Headers, ObjType
<1>3. CASE /\ NeedStorage /\ \E sp \in Spaces : STV_alloc(sp)
           /\ UNCHANGED <<pc, conn, wire, eof, pipe, hp, want>>
  BY <1>0, <1>3, AllocatesKeeps
<1>4. CASE Failed /\ pipe' \in Seq(Units)
  BY <1>0, <1>4, FailedKeeps
<1> DEFINE len == IF want < SpaceLeft THEN want ELSE SpaceLeft
           s == pipe \o wire
<1>5. ASSUME ~ NeedStorage, NEW r \in HTC_Read(len), pipe' = r.pipe, r.data # <<>>, wire' = r.wire,
             obj' = Store(r.data), want' = want - Len(r.data),
             pc' = IF want = Len(r.data) THEN "chunkline" ELSE "chunk", UNCHANGED <<conn, eof, hp>>
      PROVE  TransferInv'
  <2>1. SpaceLeft \in Nat
    BY <1>1, <1>2, <1>5, SpaceIs
  <2>2. len \in Nat /\ len <= SpaceLeft /\ len <= want
    BY <1>2, <2>1
  <2> HIDE DEF len
  <2>3. Reads(r, len, pipe \o wire)
    BY <1>2, <1>5, <2>2, ReadIs
  <2>4. PICK m \in Nat : m = Len(r.data) /\ m <= want /\ m \in 0 .. Len(s)
    <3>1. Len(r.data) \in 0 .. len /\ Len(r.data) <= Len(s)
      BY <2>3 DEF Reads
    <3>2. Len(s) \in Nat
      BY <1>2, LenProperties
    <3> HIDE DEF s
    <3> QED  BY <1>2, <2>2, <3>1, <3>2
  <2>5. r.pipe \in Seq(Units) /\ r.wire \in Seq(Units) /\ r.pipe \o r.wire = SubSeq(s, m + 1, Len(s))
    BY <2>3, <2>4 DEF Reads
  <2>6. s \in Seq(Units) /\ Chunky(xid, s, obj.len, want, hp.body)
    BY <1>1, <1>2
  <2>7. /\ Chunky(xid, SubSeq(s, m + 1, Len(s)), obj.len + m, want - m, hp.body)
        /\ \A i \in 1 .. m : s[i] = Byte(xid, obj.len + i)
    <3>1. ChunkyLeft(xid, s, obj.len, want, hp.body, m)
      <4> HIDE DEF s
      <4> QED  BY <1>2, <2>4, <2>6, ChunkyTake
    <3> QED  BY <3>1 DEF ChunkyLeft
  <2>8. Stored(xid, obj, obj', r.data)
    <3>1. Reads(r, len, s) /\ \A i \in 1 .. Len(r.data) : s[i] = Byte(xid, obj.len + i)
      BY <2>3, <2>4, <2>7
    <3> HIDE DEF s
    <3> QED  BY <1>1, <1>2, <1>5, <2>2, <2>6, <3>1, ReadStored
  <2>9. obj' \in ObjType /\ Begun(xid, obj') /\ obj'.len = obj.len + m
    BY <2>4, <2>8 DEF Stored
  <2>10. want' \in Nat /\ want' = want - m
    BY <1>2, <1>5, <2>4
  <2>11. Chunky(xid, pipe' \o wire', obj'.len, want', hp.body)
    BY <1>5, <2>5, <2>7, <2>9, <2>10
  <2>12. Pending(pc', xid, hp, obj', want', pipe' \o wire')
    <3>1. CASE want = m
      <4>1. pc' = "chunkline" /\ want' = 0
        BY <1>2, <1>5, <2>4, <2>10, <3>1
      <4> QED  BY <1>1, <2>11, <4>1 DEF Pending
    <3>2. CASE want # m
      <4>1. pc' = "chunk" /\ want' > 0
        BY <1>2, <1>5, <2>4, <2>10, <3>2
      <4> QED  BY <1>1, <2>11, <4>1 DEF Pending
    <3> QED  BY <3>1, <3>2
  <2>13. pc' \in {"chunkline", "chunk"}
    BY <1>5
  <2>14. FetchInv'
    BY <1>0, <1>1, <1>5, <2>9, <2>12, <2>13 DEF FetchInv
  <2> QED  BY <1>0, <1>2, <1>5, <2>5, <2>9, <2>10, <2>13, <2>14, FetchKeeps DEF Fetching
<1>6. CASE ~ NeedStorage
  <2>1. CASE Failed /\ UNCHANGED pipe
    BY <1>2, <1>4, <2>1
  <2>2. CASE ~ (Failed /\ UNCHANGED pipe)
    <3>1. PICK r \in HTC_Read(len) :
            /\ pipe' = r.pipe
            /\ IF r.data = <<>> THEN Failed
               ELSE /\ wire' = r.wire /\ obj' = Store(r.data) /\ want' = want - Len(r.data)
                    /\ pc' = IF want = Len(r.data) THEN "chunkline" ELSE "chunk"
                    /\ UNCHANGED <<conn, eof, hp>>
      BY <1>6, <2>2 DEF ChunkData, ReadInto
    <3>2. r.pipe \in Seq(Units)
      <4>1. SpaceLeft \in Nat
        BY <1>1, <1>2, <1>6, SpaceIs
      <4>2. len \in Nat
        BY <1>2, <4>1
      <4> HIDE DEF len
      <4>3. Reads(r, len, pipe \o wire)
        BY <1>2, <3>1, <4>2, ReadIs
      <4> QED  BY <4>3 DEF Reads
    <3> HIDE DEF len
    <3>3. CASE r.data = <<>>
      BY <1>4, <3>1, <3>2, <3>3
    <3>4. CASE r.data # <<>>
      BY <1>5, <1>6, <3>1, <3>4
    <3> QED  BY <3>3, <3>4
  <2> QED  BY <2>1, <2>2
<1> QED  BY <1>3, <1>6 DEF ChunkData

\* A line of a chunked body.
LEMMA LineKeeps ==
  ASSUME TransferInv, ChunkLine
  PROVE  TransferInv'
<1>0. pc = "chunkline" /\ UNCHANGED <<xid, wrw, client, asked>> /\ TransferType /\ FetchInv
  BY DEF ChunkLine, TransferInv
<1>1. /\ Begun(xid, obj) /\ hp = asked /\ Framing(hp) = "chunked" /\ Chunky(xid, pipe \o wire, obj.len, 0, hp.body)
  BY <1>0 DEF FetchInv, Pending
<1>2. /\ wire \in Seq(Units) /\ pipe \in Seq(Units) /\ hp \in Headers /\ asked \in Headers /\ obj \in ObjType /\ want \in Nat
      /\ hp.body \in Nat /\ pipe \o wire \in Seq(Units) /\ obj.len \in Nat
  BY <1>0, TransferAssumption, ConcatProperties DEF TransferType, Headers, ObjType
<1>3. CASE Failed /\ pipe' \in Seq(Units)
  BY <1>0, <1>3, FailedKeeps
<1> DEFINE s == pipe \o wire
<1>4. ASSUME NEW r \in HTC_Read(1), pipe' = r.pipe, r.data # <<>>, r.data[1].t \in {"nl", "size"}, wire' = r.wire,
             UNCHANGED <<conn, eof, hp, obj>>,
             \/ r.data[1].t = "nl" /\ UNCHANGED <<pc, want>>
             \/ r.data[1].t = "size" /\ want' = r.data[1].v /\ pc' = IF want' = 0 THEN "trim" ELSE "chunk"
      PROVE  TransferInv'
  <2>1. Reads(r, 1, pipe \o wire)
    BY <1>2, <1>4, ReadIs
  <2>2. r.data \in Seq(Units) /\ Len(r.data) = 1 /\ 1 \in 0 .. Len(s) /\ Len(s) \in Nat
    <3>1. r.data \in Seq(Units) /\ Len(r.data) \in 0 .. 1 /\ Len(r.data) <= Len(s)
      BY <2>1 DEF Reads
    <3>2. Len(r.data) # 0
      BY <1>4, <3>1, EmptySeq
    <3>3. Len(s) \in Nat
      BY <1>2, LenProperties
    <3> HIDE DEF s
    <3> QED  BY <3>1, <3>2, <3>3
  <2>3. r.pipe \in Seq(Units) /\ r.wire \in Seq(Units) /\ r.pipe \o r.wire = SubSeq(s, 2, Len(s))
    <3>1. r.pipe \o r.wire = SubSeq(s, Len(r.data) + 1, Len(s)) /\ 1 + 1 = 2
      BY <2>1 DEF Reads
    <3> QED  BY <2>1, <2>2, <3>1 DEF Reads
  <2>4. r.data[1] = s[1] /\ s # <<>> /\ s \in Seq(Units)
    <3>1. r.data = SubSeq(s, 1, 1)
      BY <2>1, <2>2 DEF Reads
    <3>2. s \in Seq(Units)
      BY <1>2
    <3> HIDE DEF s
    <3>3. \A i \in 1 .. 1 : SubSeq(s, 1, 1)[i] = s[i]
      BY <2>2, <3>2, Upto
    <3>4. s # <<>>
      BY <2>2, <3>2, EmptySeq
    <3> QED  BY <3>1, <3>2, <3>3, <3>4
  <2>5. LineTaken(xid, s, pipe' \o wire', obj.len, hp.body)
    <3>1. Chunky(xid, s, obj.len, 0, hp.body)
      BY <1>1
    <3> HIDE DEF s
    <3>2. LineTaken(xid, s, SubSeq(s, 2, Len(s)), obj.len, hp.body)
      BY <1>2, <2>4, <3>1, ChunkyLine
    <3> QED  BY <1>4, <2>3, <3>2
  <2>6. s[1] \in Units
    <3> HIDE DEF s
    <3>1. 1 \in 1 .. Len(s)
      BY <2>2
    <3> QED  BY <2>4, <3>1, ElementOfSeq
  <2> HIDE DEF s
  <2>7. CASE r.data[1].t = "nl"
    <3>1. UNCHANGED <<pc, want>> /\ Chunky(xid, pipe' \o wire', obj.len, 0, hp.body)
      BY <1>4, <2>4, <2>5, <2>7 DEF LineTaken
    <3>2. Pending(pc', xid, hp, obj, want', pipe' \o wire')
      BY <1>0, <1>1, <3>1 DEF Pending
    <3>3. FetchInv'
      BY <1>0, <1>1, <1>4, <3>1, <3>2 DEF FetchInv
    <3> QED  BY <1>0, <1>2, <1>4, <2>3, <3>1, <3>3, FetchKeeps DEF Fetching
  <2>8. CASE r.data[1].t = "size"
    <3>1. want' = s[1].v /\ pc' = IF want' = 0 THEN "trim" ELSE "chunk"
      BY <1>4, <2>4, <2>8
    <3>2. s[1].t = "size" /\ want' \in Nat
      BY <2>4, <2>6, <2>8, <3>1 DEF Units
    <3>3. /\ Chunky(xid, pipe' \o wire', obj.len, want', hp.body)
          /\ want' = 0 => obj.len = hp.body /\ Over(pipe' \o wire')
      BY <2>5, <3>1, <3>2 DEF LineTaken
    <3>4. Pending(pc', xid, hp, obj, want', pipe' \o wire')
      <4>1. CASE want' = 0
        <5>1. obj.len <= hp.body
          BY <1>2, <3>3, <4>1
        <5> QED  BY <1>1, <3>1, <3>3, <4>1, <5>1 DEF Pending
      <4>2. CASE want' # 0
        <5>1. want' > 0 /\ pc' = "chunk"
          BY <3>1, <3>2, <4>2
        <5> QED  BY <1>1, <3>3, <5>1 DEF Pending
      <4> QED  BY <4>1, <4>2
    <3>5. pc' \in {"trim", "chunk"}
      BY <3>1
    <3>6. FetchInv'
      BY <1>0, <1>1, <1>4, <3>4, <3>5 DEF FetchInv
    <3> QED  BY <1>0, <1>2, <1>4, <2>3, <3>2, <3>5, <3>6, FetchKeeps DEF Fetching
  <2> QED  BY <1>4, <2>7, <2>8
<1>5. CASE Failed /\ UNCHANGED pipe
  BY <1>2, <1>3, <1>5
<1>6. CASE ~ (Failed /\ UNCHANGED pipe)
  <2>1. PICK r \in HTC_Read(1) :
          /\ pipe' = r.pipe
          /\ \/ /\ r.data # <<>> /\ r.data[1].t = "nl" /\ wire' = r.wire
                /\ UNCHANGED <<pc, conn, eof, hp, obj, want>>
             \/ /\ r.data # <<>> /\ r.data[1].t = "size" /\ wire' = r.wire /\ want' = r.data[1].v
                /\ pc' = IF want' = 0 THEN "trim" ELSE "chunk"
                /\ UNCHANGED <<conn, eof, hp, obj>>
             \/ r.data = <<>> /\ Failed
    BY <1>6 DEF ChunkLine
  <2>2. r.pipe \in Seq(Units)
    <3>1. Reads(r, 1, pipe \o wire)
      BY <1>2, <2>1, ReadIs
    <3> QED  BY <3>1 DEF Reads
  <2>3. CASE Failed
    BY <1>3, <2>1, <2>2, <2>3
  <2>4. CASE ~ Failed
    BY <1>4, <2>1, <2>4
  <2> QED  BY <2>3, <2>4
<1> QED  BY <1>5, <1>6

\* A body that ends with the connection.
LEMMA EofKeeps ==
  ASSUME TransferInv, fetch_eof
  PROVE  TransferInv'
<1>0. pc = "eof" /\ UNCHANGED <<xid, wrw, client, asked>> /\ TransferType /\ FetchInv
  BY DEF fetch_eof, TransferInv
<1>1. Begun(xid, obj) /\ hp = asked /\ Framing(hp) = "eof" /\ Plain(xid, pipe \o wire, obj.len, hp.body)
  BY <1>0 DEF FetchInv, Pending
<1>2. /\ wire \in Seq(Units) /\ pipe \in Seq(Units) /\ hp \in Headers /\ asked \in Headers /\ obj \in ObjType /\ want \in Nat
      /\ hp.body \in Nat /\ pipe \o wire \in Seq(Units) /\ obj.len \in Nat
  BY <1>0, TransferAssumption, ConcatProperties DEF TransferType, Headers, ObjType
<1>3. CASE /\ NeedStorage /\ \E sp \in Spaces : STV_alloc(sp)
           /\ UNCHANGED <<pc, conn, wire, eof, pipe, hp, want>>
  BY <1>0, <1>3, AllocatesKeeps
<1>4. CASE Failed /\ UNCHANGED pipe
  BY <1>0, <1>2, <1>4, FailedKeeps
<1> DEFINE s == pipe \o wire
<1>5. ASSUME ~ NeedStorage, NEW r \in HTC_Read(SpaceLeft), pipe' = r.pipe, wire' = r.wire, obj' = Store(r.data),
             pc' = IF r.data = <<>> THEN "trim" ELSE "eof", UNCHANGED <<conn, eof, hp, want>>
      PROVE  TransferInv'
  <2>1. SpaceLeft \in Nat /\ SpaceLeft <= SpaceLeft
    BY <1>1, <1>2, <1>5, SpaceIs
  <2>2. Reads(r, SpaceLeft, pipe \o wire)
    BY <1>2, <1>5, <2>1, ReadIs
  <2>3. PICK m \in Nat : m = Len(r.data) /\ m \in 0 .. Len(s)
    <3>1. Len(r.data) \in 0 .. SpaceLeft /\ Len(r.data) <= Len(s)
      BY <2>2 DEF Reads
    <3>2. Len(s) \in Nat
      BY <1>2, LenProperties
    <3> HIDE DEF s
    <3> QED  BY <2>1, <3>1, <3>2
  <2>4. r.pipe \in Seq(Units) /\ r.wire \in Seq(Units) /\ r.pipe \o r.wire = SubSeq(s, m + 1, Len(s))
    BY <2>2, <2>3 DEF Reads
  <2>5. s \in Seq(Units) /\ Plain(xid, s, obj.len, hp.body)
    BY <1>1, <1>2
  <2>6. /\ Plain(xid, SubSeq(s, m + 1, Len(s)), obj.len + m, hp.body) /\ obj.len + m <= hp.body
        /\ \A i \in 1 .. m : s[i] = Byte(xid, obj.len + i)
    <3>1. PlainLeft(xid, s, obj.len, hp.body, m)
      <4> HIDE DEF s
      <4> QED  BY <1>2, <2>3, <2>5, PlainTake
    <3> QED  BY <3>1 DEF PlainLeft
  <2>7. Stored(xid, obj, obj', r.data)
    <3>1. Reads(r, SpaceLeft, s) /\ \A i \in 1 .. Len(r.data) : s[i] = Byte(xid, obj.len + i)
      BY <2>2, <2>3, <2>6
    <3> HIDE DEF s
    <3> QED  BY <1>1, <1>2, <1>5, <2>1, <2>5, <3>1, ReadStored
  <2>8. obj' \in ObjType /\ Begun(xid, obj') /\ obj'.len = obj.len + m
    BY <2>3, <2>7 DEF Stored
  <2>9. Plain(xid, pipe' \o wire', obj'.len, hp.body) /\ obj'.len <= hp.body
    BY <1>5, <2>4, <2>6, <2>8
  <2>10. pc' \in {"trim", "eof"}
    BY <1>5
  <2>11. Pending(pc', xid, hp, obj', want, pipe' \o wire')
    BY <1>1, <2>9, <2>10 DEF Pending
  <2>12. FetchInv'
    BY <1>0, <1>1, <1>5, <2>8, <2>10, <2>11 DEF FetchInv
  <2> QED  BY <1>0, <1>2, <1>5, <2>4, <2>8, <2>10, <2>12, FetchKeeps DEF Fetching
<1> QED  BY <1>3, <1>4, <1>5 DEF fetch_eof

\* The last storage is trimmed.
LEMMA TrimAllKeeps ==
  ASSUME TransferInv, Trim
  PROVE  TransferInv'
<1>0. /\ pc = "trim" /\ obj' = Trimmed /\ pc' = "done" /\ TransferType /\ FetchInv
      /\ UNCHANGED <<xid, conn, wire, eof, pipe, hp, want, wrw, client, asked>>
  BY DEF Trim, TransferInv
<1>1. /\ Begun(xid, obj) /\ hp = asked /\ Framing(hp) \in {"chunked", "eof"} /\ obj.len <= hp.body
      /\ Framing(hp) = "chunked" => Over(pipe \o wire) /\ obj.len = hp.body
  BY <1>0 DEF FetchInv, Pending
<1>2. obj \in ObjType
  BY <1>0 DEF TransferType
<1>3. /\ obj' \in ObjType /\ Begun(xid, obj') /\ obj'.len = obj.len
      /\ \A i \in 1 .. Len(obj'.store) :
           obj'.store[i].data # <<>> /\ Len(obj'.store[i].data) = obj'.store[i].space
  BY <1>0, <1>1, <1>2, TrimKeeps
<1>4. Whole(obj', hp)
  BY <1>1, <1>3 DEF Whole
<1>5. Pending("done", xid, hp, obj', want, pipe \o wire)
  BY <1>1, <1>4 DEF Pending
<1>6. FetchInv'
  BY <1>0, <1>1, <1>3, <1>5 DEF FetchInv
<1> QED  BY <1>0, <1>3, <1>6, FetchKeeps DEF TransferType, Fetching

\* The end of the fetch: a connection is kept when nothing more comes on it.
LEMMA DoneKeeps ==
  ASSUME TransferInv, FetchDone
  PROVE  TransferInv'
<1>0. /\ pc = "done" /\ pc' = "deliver" /\ TransferType /\ FetchInv /\ ConnInv
      /\ UNCHANGED <<xid, pipe, hp, obj, want, wrw, client, asked>>
  BY DEF FetchDone, TransferInv
<1>1. /\ Begun(xid, obj) /\ hp = asked /\ Whole(obj, hp) /\ (Over(pipe \o wire) \/ Framing(hp) = "eof")
      /\ Framing(hp) \in {"length", "empty"} => pipe \o wire = <<>>
      /\ Framing(hp) # "bad"
  BY <1>0 DEF FetchInv, Pending
<1>2. wire \in Seq(Units) /\ pipe \in Seq(Units) /\ hp \in Headers
  BY <1>0 DEF TransferType
<1>3. /\ wire' \in Seq(Units) /\ eof' \in BOOLEAN /\ conn' \in {"none", "idle"}
      /\ conn' = "idle" => Recyclable(wire', hp)
  <2>1. CASE Keep(hp)
    <3>1. conn' = "idle" /\ wire' = wire /\ eof' = eof
      BY <2>1 DEF FetchDone, VBE_RecycleFd
    <3>2. Framing(hp) # "eof" /\ hp.connection # "close" /\ (hp.http11 \/ hp.connection = "keep-alive")
      BY <2>1 DEF Keep
    <3>3. Over(wire)
      BY <1>1, <1>2, <3>2, OverRest
    <3>4. BackendKeeps(hp)
      BY <1>2, <3>2 DEF BackendKeeps, Headers
    <3>5. ASSUME wire # <<>> PROVE Framing(hp) = "chunked"
      <4>1. pipe \o wire # <<>>
        BY <1>2, <3>5, ConcatEqualIffEmpty
      <4>2. Framing(hp) \in {"length", "empty", "chunked", "bad", "eof"}
        BY <1>2 DEF Framing, Headers
      <4> QED  BY <1>1, <3>2, <4>1, <4>2
    <3>6. eof \in BOOLEAN
      BY <1>0 DEF TransferType
    <3> QED  BY <1>2, <3>1, <3>3, <3>4, <3>5, <3>6 DEF Recyclable
  <2>2. CASE ~ Keep(hp)
    <3>1. conn' = "none" /\ wire' = <<>> /\ eof' = FALSE
      BY <2>2 DEF FetchDone, VBE_ClosedFd
    <3> QED  BY <3>1, EmptySeq
  <2> QED  BY <2>1, <2>2
<1>4. TransferType'
  BY <1>0, <1>3 DEF TransferType, Stops
<1>5. ConnInv'
  BY <1>0, <1>1, <1>3 DEF ConnInv, Fetching
<1>6. FetchInv'
  BY <1>0, <1>1 DEF FetchInv
<1>7. WriteInv'
  BY <1>0 DEF WriteInv
<1> QED  BY <1>4, <1>5, <1>6, <1>7 DEF TransferInv

-----------------------------------------------------------------------------
(* The gathered write. *)

\* A sequence is a prefix of what it begins.
LEMMA PrefixJoin ==
  ASSUME NEW a \in Seq(Units), NEW b \in Seq(Units)
  PROVE  IsPrefix(a, a \o b)
<1> DEFINE c == a \o b
<1>1. PICK m \in Nat, n \in Nat : m = Len(a) /\ n = Len(b)
  BY LenProperties
<1>2. IsJoin(c, a, b, m, n, Units)
  BY <1>1, Joined
<1>3. c \in Seq(Units) /\ Len(c) = m + n /\ \A i \in 1 .. m + n : c[i] = IF i <= m THEN a[i] ELSE b[i - m]
  BY <1>2 DEF IsJoin
<1> HIDE DEF c
<1>4. m <= Len(c) /\ m \in 0 .. Len(c)
  BY <1>3
<1>5. SubSeq(c, 1, m) \in Seq(Units) /\ Len(SubSeq(c, 1, m)) = m /\ \A i \in 1 .. m : SubSeq(c, 1, m)[i] = c[i]
  BY <1>3, <1>4, Upto
<1>6. SubSeq(a, 1, m) = a
  BY <1>1, SubSeqFull
<1> DEFINE d == SubSeq(c, 1, m)
<1> HIDE DEF d
<1>7. ASSUME NEW i \in 1 .. m PROVE d[i] = a[i]
  <2>1. i \in 1 .. m + n /\ i <= m
    BY <1>1
  <2> QED  BY <1>3, <1>5, <2>1 DEF d
<1>8. d = a
  <2>1. d \in Seq(Units) /\ Len(d) = Len(a)
    BY <1>1, <1>5 DEF d
  <2>2. \A i \in 1 .. Len(d) : d[i] = a[i]
    BY <1>1, <1>7, <2>1
  <2> QED  BY <2>1, <2>2, SeqEqual
<1>9. SubSeq(a, 1, m) = SubSeq(c, 1, m)
  BY <1>6, <1>8 DEF d
<1>10. IsPrefix(a, c)
  BY <1>1, <1>4, <1>9 DEF IsPrefix
<1> QED  BY <1>10 DEF c

\* A part of what comes next leaves a beginning, and all of it leaves the rest.
LEMMA Delivers ==
  ASSUME NEW c \in Seq(Units), NEW f \in Seq(Units), NEW t \in Seq(Units), NEW all,
         c \o (f \o t) = all, NEW n \in 0 .. Len(f)
  PROVE  IsPrefix(c \o SubSeq(f, 1, n), all) /\ (c \o f) \o t = all
<1>0. Len(f) \in Nat /\ n \in Nat
  BY LenProperties
<1>1. PICK a, b : a = SubSeq(f, 1, n) /\ b = SubSeq(f, n + 1, Len(f)) /\ a \in Seq(Units) /\ b \in Seq(Units)
  BY Upto, After
<1>2. f = a \o b
  <2>1. 1 \in 1 .. Len(f) + 1 /\ n \in 1 - 1 .. Len(f) /\ Len(f) \in n .. Len(f)
    BY <1>0
  <2>2. SubSeq(f, 1, n) \o SubSeq(f, n + 1, Len(f)) = SubSeq(f, 1, Len(f))
    BY <2>1, ConcatAdjacentSubSeq
  <2>3. SubSeq(f, 1, Len(f)) = f
    BY SubSeqFull
  <2> QED  BY <1>1, <2>2, <2>3
<1>3. all = (c \o a) \o (b \o t) /\ c \o a \in Seq(Units) /\ b \o t \in Seq(Units)
  <2>1. all = c \o ((a \o b) \o t)
    BY <1>2
  <2>0. a \in Seq(Units) /\ b \in Seq(Units)
    BY <1>1
  <2>2. (a \o b) \o t = a \o (b \o t) /\ b \o t \in Seq(Units) /\ c \o a \in Seq(Units)
    <3>1. Associate(a, b, t)
      BY <2>0, Associates
    <3>2. b \o t \in Seq(Units) /\ c \o a \in Seq(Units)
      BY <2>0, ConcatProperties
    <3> QED  BY <3>1, <3>2 DEF Associate
  <2>3. (c \o a) \o (b \o t) = c \o (a \o (b \o t))
    <3>1. PICK e : e = b \o t /\ e \in Seq(Units)
      BY <2>2
    <3>3. e \in Seq(Units)
      BY <3>1
    <3>4. Associate(c, a, e)
      BY <2>0, <3>3, Associates
    <3>2. (c \o a) \o e = c \o (a \o e)
      BY <3>4 DEF Associate
    <3> QED  BY <3>1, <3>2
  <2> QED  BY <2>1, <2>2, <2>3
<1>4. IsPrefix(c \o a, all)
  BY <1>3, PrefixJoin
<1>5. (c \o f) \o t = all
  <2>1. Associate(c, f, t)
    BY Associates
  <2> QED  BY <2>1 DEF Associate
<1> QED  BY <1>1, <1>4, <1>5

\* The record of a gathered write, changed.
LEMMA WriteSet ==
  ASSUME NEW q \in Writes, NEW i, NEW e, NEW t
  PROVE  [q EXCEPT !.todo = t, !.iov = i, !.werr = e] = [iov |-> i, werr |-> e, todo |-> t, all |-> q.all]
<1>1. q = [iov |-> q.iov, werr |-> q.werr, todo |-> q.todo, all |-> q.all]
  BY DEF Writes
<1>2. PICK a, b, c, d : q = [iov |-> a, werr |-> b, todo |-> c, all |-> d] /\ d = q.all
  BY <1>1
<1>3. [q EXCEPT !.todo = t] = [iov |-> a, werr |-> b, todo |-> t, all |-> d]
  BY <1>2
<1>4. PICK q1 : q1 = [q EXCEPT !.todo = t]
  OBVIOUS
<1>5. [q1 EXCEPT !.iov = i] = [iov |-> i, werr |-> b, todo |-> t, all |-> d]
  <2>1. q1 = [iov |-> a, werr |-> b, todo |-> t, all |-> d]
    BY <1>3, <1>4
  <2> QED  BY <2>1
<1>6. PICK q2 : q2 = [q1 EXCEPT !.iov = i]
  OBVIOUS
<1>7. [q2 EXCEPT !.werr = e] = [iov |-> i, werr |-> e, todo |-> t, all |-> d]
  <2>1. q2 = [iov |-> i, werr |-> b, todo |-> t, all |-> d]
    BY <1>5, <1>6
  <2> QED  BY <2>1
<1>8. [q EXCEPT !.todo = t, !.iov = i, !.werr = e] = [[[q EXCEPT !.todo = t] EXCEPT !.iov = i] EXCEPT !.werr = e]
  OBVIOUS
<1> QED  BY <1>2, <1>4, <1>6, <1>7, <1>8

Flushed(f, s, werr) ==
  /\ f.werr \in BOOLEAN /\ f.sent \in Seq(Units)
  /\ \E n \in 0 .. Len(s) : f.sent = SubSeq(s, 1, n)
  /\ ~ f.werr => f.sent = s
  /\ werr => f.werr /\ f.sent = <<>>

\* What WRW_Flush may write.
LEMMA FlushIs ==
  ASSUME NEW iov \in Seq(Seq(Units)), NEW werr \in BOOLEAN, NEW f \in WRW_Flush(iov, werr)
  PROVE  Flushed(f, FlattenSeq(iov), werr)
<1> DEFINE s == FlattenSeq(iov)
<1>1. s \in Seq(Units)
  BY FlatSeq
<1>2. Len(s) \in Nat /\ 0 \in 0 .. Len(s) /\ Len(s) \in 0 .. Len(s)
  BY <1>1, LenProperties
<1>3. SubSeq(s, 1, 0) = <<>> /\ SubSeq(s, 1, Len(s)) = s /\ <<>> \in Seq(Units)
  <2> HIDE DEF s
  <2>1. SubSeq(s, 1, 0) = <<>>
    BY SubSeqEmpty
  <2> QED  BY <1>1, <2>1, SubSeqFull, EmptySeq
<1>4. CASE iov = <<>> \/ werr
  <2>1. f = [sent |-> <<>>, werr |-> werr]
    BY <1>4 DEF WRW_Flush
  <2>2. f.sent = <<>> /\ f.werr = werr
    BY <2>1
  <2>3. ~ werr => s = <<>>
    BY <1>4, FlatEmpty
  <2> HIDE DEF s
  <2> QED  BY <1>1, <1>2, <1>3, <2>2, <2>3 DEF Flushed, s
<1>5. CASE ~ (iov = <<>> \/ werr)
  <2>1. \/ f = [sent |-> s, werr |-> FALSE]
        \/ \E n \in 0 .. Len(s) - 1 : f = [sent |-> SubSeq(s, 1, n), werr |-> TRUE]
    BY <1>5 DEF WRW_Flush
  <2> HIDE DEF s
  <2>2. CASE f = [sent |-> s, werr |-> FALSE]
    <3>1. f.sent = s /\ f.werr = FALSE
      BY <2>2
    <3> QED  BY <1>1, <1>2, <1>3, <1>5, <3>1 DEF Flushed, s
  <2>3. CASE \E n \in 0 .. Len(s) - 1 : f = [sent |-> SubSeq(s, 1, n), werr |-> TRUE]
    <3>1. PICK n \in 0 .. Len(s) - 1 : f = [sent |-> SubSeq(s, 1, n), werr |-> TRUE]
      BY <2>3
    <3>2. f.sent = SubSeq(s, 1, n) /\ f.werr = TRUE /\ n \in 0 .. Len(s)
      BY <1>2, <3>1
    <3>3. SubSeq(s, 1, n) \in Seq(Units)
      BY <1>1, <3>2, Upto
    <3> QED  BY <1>5, <3>2, <3>3 DEF Flushed, s
  <2> QED  BY <2>1, <2>2, <2>3
<1> QED  BY <1>4, <1>5

\* The pieces of a response.
LEMMA PiecesType ==
  ASSUME obj \in ObjType, xid \in Nat, NEW wantbody \in BOOLEAN, NEW esi \in BOOLEAN, NEW http11 \in BOOLEAN
  PROVE  Pieces(wantbody, esi, http11) \in Seq(Seq(Units))
<1> DEFINE body == [i \in 1 .. Len(obj.store) |-> obj.store[i].data]
           a == IF esi THEN <<>> ELSE <<<<Unit("status", 0)>>, <<Unit("fields", 0)>>>>
           chunk == esi /\ http11 /\ obj.len > 0
           b == IF wantbody /\ chunk THEN <<<<Unit("size", obj.len)>>>> ELSE <<>>
           c == IF wantbody THEN body ELSE <<>>
           d == IF wantbody /\ chunk THEN <<<<Unit("nl", 0)>>>> ELSE <<>>
<1>1. obj.store \in Seq(Storages) /\ obj.len \in Nat
  BY DEF ObjType
<1>2. Unit("status", 0) \in Units /\ Unit("fields", 0) \in Units /\ Unit("size", obj.len) \in Units /\ Unit("nl", 0) \in Units
  BY <1>1 DEF Unit, Units
<1>3. body \in Seq(Seq(Units))
  BY <1>1, DatasType
<1> HIDE DEF chunk, body
<1>4. a \in Seq(Seq(Units)) /\ b \in Seq(Seq(Units)) /\ d \in Seq(Seq(Units)) /\ c \in Seq(Seq(Units))
  <2> HIDE DEF Unit
  <2>1. /\ <<Unit("status", 0)>> \in Seq(Units) /\ <<Unit("fields", 0)>> \in Seq(Units)
        /\ <<Unit("size", obj.len)>> \in Seq(Units) /\ <<Unit("nl", 0)>> \in Seq(Units)
    BY <1>2
  <2>2. <<>> \in Seq(Seq(Units))
    BY EmptySeq
  <2> QED  BY <1>3, <2>1, <2>2
<1>5. Pieces(wantbody, esi, http11) = ((a \o b) \o c) \o d
  BY DEF Pieces, body, chunk
<1> HIDE DEF a, b, c, d
<1>6. a \o b \in Seq(Seq(Units))
  BY <1>4, ConcatProperties
<1>7. (a \o b) \o c \in Seq(Seq(Units))
  BY <1>4, <1>6, ConcatProperties
<1>8. ((a \o b) \o c) \o d \in Seq(Seq(Units))
  BY <1>4, <1>7, ConcatProperties
<1> QED  BY <1>5, <1>8

\* RES_WriteObj
LEMMA WriteObjKeeps ==
  ASSUME TransferInv, RES_WriteObj
  PROVE  TransferInv'
<1>0. /\ pc = "deliver" /\ pc' = "write" /\ client' = <<>> /\ TransferType /\ FetchInv /\ ConnInv
      /\ UNCHANGED <<xid, conn, wire, eof, pipe, hp, obj, want, asked>>
  BY DEF RES_WriteObj, fetchVars, TransferInv
<1>1. obj \in ObjType /\ xid \in Nat
  BY <1>0, TransferAssumption DEF TransferType
<1>2. PICK ps \in Seq(Seq(Units)) : wrw' = [iov |-> <<>>, werr |-> FALSE, todo |-> ps, all |-> FlattenSeq(ps)]
  <2>1. PICK wantbody, esi, http11 \in BOOLEAN :
          wrw' = [iov |-> <<>>, werr |-> FALSE, todo |-> Pieces(wantbody, esi, http11),
                  all |-> FlattenSeq(Pieces(wantbody, esi, http11))]
    BY DEF RES_WriteObj
  <2>2. Pieces(wantbody, esi, http11) \in Seq(Seq(Units))
    BY <1>1, <2>1, PiecesType
  <2> QED  BY <2>1, <2>2
<1>3. FlattenSeq(ps) \in Seq(Units) /\ <<>> \in Seq(Units) /\ <<>> \in Seq(Seq(Units)) /\ Len(<<>>) = 0
  BY <1>2, FlatSeq, EmptySeq
<1> DEFINE z == FlattenSeq(ps)
<1>4. wrw'.iov = <<>> /\ wrw'.todo = ps /\ wrw'.all = z /\ wrw' \in Writes
  <2>1. z \in Seq(Units)
    BY <1>3
  <2> HIDE DEF z
  <2>2. wrw' = [iov |-> <<>>, werr |-> FALSE, todo |-> ps, all |-> z]
    BY <1>2 DEF z
  <2> QED  BY <1>2, <1>3, <2>1, <2>2 DEF Writes
<1> HIDE DEF z
<1>5. TransferType'
  <2>1. Len(wrw'.iov) <= siov
    BY <1>3, <1>4, TransferAssumption
  <2> QED  BY <1>0, <1>3, <1>4, <2>1 DEF TransferType, Stops
<1>6. ConnInv'
  BY <1>0 DEF ConnInv, Fetching
<1>7. FetchInv'
  BY <1>0 DEF FetchInv
<1>8. WriteInv'
  <2>1. z \in Seq(Units) /\ FlattenSeq(wrw'.iov) = <<>> /\ FlattenSeq(wrw'.todo) = z
    BY <1>3, <1>4, FlatEmpty DEF z
  <2>2. <<>> \o (<<>> \o z) = z /\ <<>> \o z = z
    BY <2>1, ConcatEmptySeq
  <2>3. IsPrefix(<<>>, z)
    <3>1. IsPrefix(<<>>, <<>> \o z)
      BY <1>3, <2>1, PrefixJoin
    <3> QED  BY <2>2, <3>1
  <2> QED  BY <1>0, <1>4, <2>1, <2>2, <2>3 DEF WriteInv
<1> QED  BY <1>5, <1>6, <1>7, <1>8 DEF TransferInv

\* A step of the write leaves the rest alone.
LEMMA WritingKeeps ==
  ASSUME TransferInv, pc = "write", pc' \in {"write", "sent", "closed"}, UNCHANGED <<xid, fetchVars>>,
         wrw' \in Writes, Len(wrw'.iov) <= siov, client' \in Seq(Units), WriteInv'
  PROVE  TransferInv'
<1>0. TransferType /\ FetchInv /\ ConnInv /\ UNCHANGED <<xid, conn, wire, eof, pipe, hp, obj, want, asked>>
  BY DEF TransferInv, fetchVars
<1>1. TransferType'
  BY <1>0 DEF TransferType, Stops
<1>2. ConnInv'
  BY <1>0 DEF ConnInv, Fetching
<1>3. FetchInv'
  BY <1>0 DEF FetchInv
<1> QED  BY <1>1, <1>2, <1>3 DEF TransferInv

\* WRW_Write
LEMMA WriteKeeps ==
  ASSUME TransferInv, WRW_Write
  PROVE  TransferInv'
<1>0. pc = "write" /\ pc' = "write" /\ UNCHANGED <<xid, fetchVars>> /\ wrw.todo # <<>> /\ TransferType /\ WriteInv
  BY DEF WRW_Write, TransferInv
<1>1. wrw \in Writes /\ Len(wrw.iov) <= siov /\ client \in Seq(Units)
  BY <1>0 DEF TransferType
<1> DEFINE iov == wrw.iov
           todo == wrw.todo
           all == wrw.all
           p == Head(todo)
           t == Tail(todo)
<1>2. /\ iov \in Seq(Seq(Units)) /\ todo \in Seq(Seq(Units)) /\ wrw.werr \in BOOLEAN /\ all \in Seq(Units)
      /\ wrw = [iov |-> iov, werr |-> wrw.werr, todo |-> todo, all |-> all] /\ todo # <<>>
  BY <1>0, <1>1 DEF Writes
<1> HIDE DEF iov, todo, all
<1>3. p \in Seq(Units) /\ t \in Seq(Seq(Units)) /\ FlattenSeq(todo) = p \o FlattenSeq(t)
  BY <1>2, FlatHead, HeadTailProperties
<1>4. FlattenSeq(iov) \in Seq(Units) /\ FlattenSeq(t) \in Seq(Units)
  BY <1>2, <1>3, FlatSeq
<1> DEFINE F == FlattenSeq(iov)
           T == FlattenSeq(t)
<1>5. /\ ~ wrw.werr => client \o (F \o (p \o T)) = all
      /\ IsPrefix(client, all)
  BY <1>0, <1>3 DEF WriteInv, iov, todo, all
<1> HIDE DEF p, t, F, T
<1>6. F \in Seq(Units) /\ T \in Seq(Units) /\ p \o T \in Seq(Units) /\ Len(iov) \in Nat /\ siov \in Nat \ {0}
  BY <1>1, <1>2, <1>3, <1>4, ConcatProperties, LenProperties, TransferAssumption DEF F, T
<1>7. CASE p = <<>>
  <2>1. wrw' = [iov |-> iov, werr |-> wrw.werr, todo |-> t, all |-> all] /\ client' = client
    <3>1. wrw' = [wrw EXCEPT !.todo = t, !.iov = iov, !.werr = wrw.werr] /\ client' = client
      BY <1>1, <1>7 DEF WRW_Write, p, t, todo, iov, Writes
    <3> QED  BY <1>1, <3>1, WriteSet DEF all
  <2>2. wrw'.iov = iov /\ wrw'.werr = wrw.werr /\ wrw'.todo = t /\ wrw'.all = all /\ wrw' \in Writes
    BY <1>2, <1>3, <2>1 DEF Writes
  <2>3. p \o T = T
    BY <1>6, <1>7, ConcatEmptySeq
  <2>4. WriteInv'
    BY <1>0, <1>5, <2>1, <2>2, <2>3 DEF WriteInv, F, T
  <2>5. Len(iov) <= siov
    BY <1>1 DEF iov
  <2> QED  BY <1>0, <1>1, <2>1, <2>2, <2>4, <2>5, WritingKeeps
<1>8. CASE p # <<>> /\ Len(iov) < siov
  <2>1. wrw' = [iov |-> Append(iov, p), werr |-> wrw.werr, todo |-> t, all |-> all] /\ client' = client
    <3>1. wrw' = [wrw EXCEPT !.todo = t, !.iov = Append(iov, p), !.werr = wrw.werr] /\ client' = client
      BY <1>1, <1>8 DEF WRW_Write, p, t, todo, iov, Writes
    <3> QED  BY <1>1, <3>1, WriteSet DEF all
  <2>2. Append(iov, p) \in Seq(Seq(Units)) /\ Len(Append(iov, p)) = Len(iov) + 1
    BY <1>2, <1>3, AppendProperties DEF p
  <2>3. FlattenSeq(Append(iov, p)) = F \o p
    BY <1>2, <1>3, FlatAppend DEF F, p
  <2>4. /\ wrw'.iov = Append(iov, p) /\ wrw'.werr = wrw.werr /\ wrw'.todo = t /\ wrw'.all = all /\ wrw' \in Writes
    BY <1>2, <1>3, <2>1, <2>2 DEF Writes, t
  <2>5. (F \o p) \o T = F \o (p \o T)
    <3>1. p \in Seq(Units)
      BY <1>3 DEF p
    <3>2. Associate(F, p, T)
      BY <1>6, <3>1, Associates
    <3> QED  BY <3>2 DEF Associate
  <2>6. WriteInv'
    BY <1>0, <1>5, <2>1, <2>3, <2>4, <2>5 DEF WriteInv, T
  <2>7. Len(wrw'.iov) <= siov
    BY <1>6, <1>8, <2>2, <2>4
  <2> QED  BY <1>0, <1>1, <2>1, <2>4, <2>6, <2>7, WritingKeeps
<1>9. CASE p # <<>> /\ ~ (Len(iov) < siov)
  <2>1. PICK f \in WRW_Flush(iov, wrw.werr) :
          wrw' = [wrw EXCEPT !.todo = t, !.iov = <<p>>, !.werr = f.werr] /\ client' = client \o f.sent
    BY <1>9 DEF WRW_Write, p, t, todo, iov
  <2>2. wrw' = [iov |-> <<p>>, werr |-> f.werr, todo |-> t, all |-> all]
    BY <1>1, <2>1, WriteSet DEF all
  <2>3. Flushed(f, F, wrw.werr)
    BY <1>2, <2>1, FlushIs DEF F
  <2>4. f.werr \in BOOLEAN /\ f.sent \in Seq(Units)
    BY <2>3 DEF Flushed
  <2>5. p \in Seq(Units) /\ t \in Seq(Seq(Units))
    BY <1>3 DEF p, t
  <2>6. <<p>> \in Seq(Seq(Units)) /\ Len(<<p>>) = 1 /\ FlattenSeq(<<p>>) = p
    BY <2>5, FlatOne
  <2>7. /\ wrw'.iov = <<p>> /\ wrw'.werr = f.werr /\ wrw'.todo = t /\ wrw'.all = all /\ wrw' \in Writes
    BY <1>2, <2>2, <2>4, <2>5, <2>6 DEF Writes
  <2>8. client' \in Seq(Units)
    BY <1>1, <2>1, <2>4, ConcatProperties
  <2>9. IsPrefix(client', all) /\ (~ f.werr => client' \o (p \o T) = all)
    <3>1. CASE wrw.werr
      <4>1. f.werr /\ f.sent = <<>>
        BY <2>3, <3>1 DEF Flushed
      <4>2. client' = client
        BY <1>1, <2>1, <4>1, ConcatEmptySeq
      <4> QED  BY <1>5, <4>1, <4>2
    <3>2. CASE ~ wrw.werr
      <4>1. client \o (F \o (p \o T)) = all
        BY <1>5, <3>2
      <4>2. PICK n \in 0 .. Len(F) : f.sent = SubSeq(F, 1, n)
        BY <2>3 DEF Flushed
      <4>3. IsPrefix(client \o SubSeq(F, 1, n), all) /\ (client \o F) \o (p \o T) = all
        <5>1. PICK q : q = p \o T /\ q \in Seq(Units)
          BY <1>6
        <5>2. client \o (F \o q) = all /\ n \in 0 .. Len(F)
          BY <4>1, <4>2, <5>1
        <5>3. IsPrefix(client \o SubSeq(F, 1, n), all) /\ (client \o F) \o q = all
          <6>1. q \in Seq(Units) /\ client \in Seq(Units) /\ F \in Seq(Units)
            BY <1>1, <1>6, <5>1
          <6> QED  BY <5>2, <6>1, Delivers
        <5> QED  BY <5>1, <5>3
      <4>4. ~ f.werr => f.sent = F
        BY <2>3 DEF Flushed
      <4> QED  BY <2>1, <4>2, <4>3, <4>4
    <3> QED  BY <3>1, <3>2
  <2>10. WriteInv'
    BY <1>0, <2>6, <2>7, <2>9 DEF WriteInv, T
  <2>11. Len(wrw'.iov) <= siov
    BY <1>6, <2>6, <2>7
  <2> QED  BY <1>0, <2>7, <2>8, <2>10, <2>11, WritingKeeps
<1> QED  BY <1>7, <1>8, <1>9

\* WRW_FlushRelease
LEMMA ReleaseKeeps ==
  ASSUME TransferInv, WRW_FlushRelease
  PROVE  TransferInv'
<1>0. pc = "write" /\ UNCHANGED <<xid, fetchVars>> /\ wrw.todo = <<>> /\ TransferType /\ WriteInv
  BY DEF WRW_FlushRelease, TransferInv
<1>1. wrw \in Writes /\ Len(wrw.iov) <= siov /\ client \in Seq(Units)
  BY <1>0 DEF TransferType
<1> DEFINE iov == wrw.iov
           all == wrw.all
<1>2. /\ iov \in Seq(Seq(Units)) /\ wrw.werr \in BOOLEAN /\ all \in Seq(Units)
      /\ wrw = [iov |-> iov, werr |-> wrw.werr, todo |-> <<>>, all |-> all]
  BY <1>0, <1>1 DEF Writes
<1> DEFINE F == FlattenSeq(iov)
<1>3. F \in Seq(Units) /\ <<>> \in Seq(Units) /\ <<>> \in Seq(Seq(Units)) /\ Len(<<>>) = 0
  BY <1>2, FlatSeq, EmptySeq
<1>4. /\ ~ wrw.werr => client \o (F \o <<>>) = all
      /\ IsPrefix(client, all)
  BY <1>0, FlatEmpty DEF WriteInv
<1>5. PICK f \in WRW_Flush(iov, wrw.werr) :
        /\ client' = client \o f.sent
        /\ wrw' = [wrw EXCEPT !.todo = <<>>, !.iov = <<>>, !.werr = f.werr]
        /\ pc' = IF f.werr THEN "closed" ELSE "sent"
  BY <1>0, <1>1 DEF WRW_FlushRelease, Writes
<1>6. Flushed(f, F, wrw.werr)
  BY <1>2, <1>5, FlushIs
<1> HIDE DEF iov, all, F
<1>7. wrw' = [iov |-> <<>>, werr |-> f.werr, todo |-> <<>>, all |-> all]
  BY <1>1, <1>5, WriteSet DEF all
<1>8. f.werr \in BOOLEAN /\ f.sent \in Seq(Units)
  BY <1>6 DEF Flushed
<1>9. wrw'.iov = <<>> /\ wrw'.all = all /\ wrw' \in Writes
  BY <1>2, <1>3, <1>7, <1>8 DEF Writes
<1>10. client' \in Seq(Units)
  BY <1>1, <1>5, <1>8, ConcatProperties
<1>11. IsPrefix(client', all) /\ (~ f.werr => client' = all)
  <2>1. CASE wrw.werr
    <3>1. f.werr /\ f.sent = <<>>
      BY <1>6, <2>1 DEF Flushed
    <3>2. client' = client
      BY <1>1, <1>5, <3>1, ConcatEmptySeq
    <3> QED  BY <1>4, <3>1, <3>2
  <2>2. CASE ~ wrw.werr
    <3>1. client \o (F \o <<>>) = all
      BY <1>4, <2>2
    <3>2. PICK n \in 0 .. Len(F) : f.sent = SubSeq(F, 1, n)
      BY <1>6 DEF Flushed
    <3>3. IsPrefix(client \o SubSeq(F, 1, n), all)
      <4>1. PICK q : q = <<>> /\ q \in Seq(Units)
        BY <1>3
      <4>2. client \o (F \o q) = all /\ n \in 0 .. Len(F)
        BY <3>1, <3>2, <4>1
      <4>3. IsPrefix(client \o SubSeq(F, 1, n), all) /\ (client \o F) \o q = all
        <5>1. q \in Seq(Units) /\ client \in Seq(Units) /\ F \in Seq(Units)
          BY <1>1, <1>3, <4>1
        <5> QED  BY <4>2, <5>1, Delivers
      <4> QED  BY <4>3
    <3>4. ~ f.werr => f.sent = F
      BY <1>6 DEF Flushed
    <3>5. F \o <<>> = F
      BY <1>3, ConcatEmptySeq
    <3> QED  BY <1>5, <3>1, <3>2, <3>3, <3>4, <3>5
  <2> QED  BY <2>1, <2>2
<1>12. pc' \in {"sent", "closed"} /\ (pc' = "sent" => ~ f.werr)
  BY <1>5
<1>13. WriteInv'
  BY <1>9, <1>11, <1>12 DEF WriteInv
<1>14. Len(wrw'.iov) <= siov
  BY <1>3, <1>9, TransferAssumption
<1> QED  BY <1>0, <1>9, <1>10, <1>12, <1>13, <1>14, WritingKeeps

\* The next request begins with nothing.
LEMMA NextRequestKeeps ==
  ASSUME TransferInv, NextRequest
  PROVE  TransferInv'
<1>0. /\ pc \in {"error", "closed", "sent"} /\ xid < NReq /\ xid' = xid + 1 /\ pc' = "get" /\ client' = <<>>
      /\ UNCHANGED <<conn, wire, eof, pipe, hp, want, asked>> /\ TransferType /\ ConnInv
  BY DEF NextRequest, TransferInv
<1>1. obj' = Nothing
  BY DEF NextRequest, Nothing
<1>2. wrw' = [iov |-> <<>>, werr |-> FALSE, todo |-> <<>>, all |-> <<>>]
  BY DEF NextRequest
<1>3. wrw' \in Writes /\ wrw'.iov = <<>> /\ Len(<<>>) = 0 /\ <<>> \in Seq(Units)
  BY <1>2, EmptySeq DEF Writes
<1>4. xid' \in 1 .. NReq
  BY <1>0, TransferAssumption DEF TransferType
<1>5. TransferType'
  <2>1. Len(wrw'.iov) <= siov
    BY <1>3, TransferAssumption
  <2> QED  BY <1>0, <1>1, <1>3, <1>4, <2>1, NothingBegun DEF TransferType, Stops
<1>6. ConnInv'
  BY <1>0 DEF ConnInv, Fetching
<1>7. FetchInv'
  <2>1. Begun(xid', obj')
    BY <1>1, NothingBegun
  <2> QED  BY <1>0, <1>1, <2>1 DEF FetchInv
<1>8. WriteInv'
  BY <1>0 DEF WriteInv
<1> QED  BY <1>5, <1>6, <1>7, <1>8 DEF TransferInv

\* Every step keeps the invariant.
LEMMA TransferStep ==
  TransferInv /\ [TransferNext]_transferVars => TransferInv'
<1> SUFFICES ASSUME TransferInv, [TransferNext]_transferVars PROVE TransferInv'
  OBVIOUS
<1>1. CASE UNCHANGED transferVars
  BY <1>1 DEF transferVars, TransferInv, TransferType, ConnInv, FetchInv, WriteInv
<1>2. CASE VBE_GetFd \/ FetchHdr_send \/ BackendCloses \/ FetchHdr_rx
  BY <1>2, GetFdKeeps, SendKeeps, ClosesKeeps, RxKeeps
<1>3. CASE FetchBody \/ fetch_straight \/ ChunkLine \/ ChunkData
  BY <1>3, BodyKeeps, StraightKeeps, LineKeeps, DataKeeps
<1>4. CASE fetch_eof \/ Trim \/ FetchDone
  BY <1>4, EofKeeps, TrimAllKeeps, DoneKeeps
<1>5. CASE RES_WriteObj \/ WRW_Write \/ WRW_FlushRelease
  BY <1>5, WriteObjKeeps, WriteKeeps, ReleaseKeeps
<1>6. CASE NextRequest
  BY <1>6, NextRequestKeeps
<1>7. CASE Finished
  BY <1>1, <1>7 DEF Finished
<1> QED  BY <1>1, <1>2, <1>3, <1>4, <1>5, <1>6, <1>7 DEF TransferNext

(* The inductive invariant of a transfer: the connection, the pipeline and *)
(* the storages, at each place the fetch can be at, hold the part of the   *)
(* response that comes next and the part that came before.                 *)
THEOREM TransferInvariant ==
  TransferSpec => []TransferInv
<1>1. TransferInit => TransferInv
  BY TransferInitInv
<1>2. TransferInv /\ [TransferNext]_transferVars => TransferInv'
  BY TransferStep
<1> QED  BY <1>1, <1>2, PTL DEF TransferSpec

(* FetchBody stores the bytes of the response to this request, in order,   *)
(* none missing and none from another response, whatever way the body is   *)
(* framed, cut into reads and spread over storages; and VBE_RecycleFd      *)
(* keeps a connection only at the end of a response.                       *)
THEOREM BodyStoredTheorem ==
  TransferSpec => []BodyStored
<1>1. TransferInv => BodyStored
  <2> SUFFICES ASSUME TransferInv PROVE BodyStored
    OBVIOUS
  <2>1. TransferType /\ ConnInv /\ FetchInv
    BY DEF TransferInv
  <2>2. TransferTypeOK
    <3>1. obj.len \in Nat
      BY <2>1 DEF TransferType, ObjType
    <3> QED  BY <2>1, <3>1 DEF TransferType, TransferTypeOK
  <2>3. ObjData = Contents(obj.store)
    BY DEF ObjData, Contents
  <2>4. obj.len = Len(ObjData) /\ \A i \in 1 .. obj.len : ObjData[i] = Byte(xid, i)
    BY <2>1, <2>3 DEF FetchInv, Begun
  <2>5. \A i \in 1 .. obj.len : ObjData[i].of = xid /\ ObjData[i].t = "data" /\ ObjData[i].v = i
    <3>1. \A i : Byte(xid, i).of = xid /\ Byte(xid, i).t = "data" /\ Byte(xid, i).v = i
      BY DEF Byte
    <3> QED  BY <2>4, <3>1
  <2>6. ASSUME pc \in {"deliver", "write", "sent", "closed"}
        PROVE  /\ hp = asked /\ obj.len <= hp.body
               /\ Framing(hp) \in {"length", "chunked"} => obj.len = hp.body
               /\ \A i \in 1 .. Len(obj.store) : obj.store[i].data # <<>>
               /\ \A i \in 1 .. Len(obj.store) :
                    Len(obj.store[i].data) = obj.store[i].space \/ (Framing(hp) = "length" /\ i = Len(obj.store))
    BY <2>1, <2>6 DEF FetchInv, Whole
  <2>7. ASSUME pc = "error" PROVE obj = [store |-> <<>>, len |-> 0] /\ conn = "none"
    BY <2>1, <2>7 DEF FetchInv, ConnInv, Nothing
  <2>8. BodyExact
    BY <2>2, <2>4, <2>5, <2>6, <2>7 DEF BodyExact
  <2>9. RecycledAtEnd
    BY <2>1 DEF ConnInv, Recyclable, Over, RecycledAtEnd
  <2> QED  BY <2>8, <2>9 DEF BodyStored
<1> QED  BY <1>1, TransferInvariant, PTL

(* The client receives a beginning of the response whatever write fails,   *)
(* and all of it when its session stays open (RES_WriteObj, WRW_Flush).    *)
THEOREM DeliveredTheorem ==
  TransferSpec => []DeliveredWhole
<1>1. TransferInv => DeliveredWhole
  BY DEF TransferInv, WriteInv, DeliveredWhole
<1> QED  BY <1>1, TransferInvariant, PTL
=============================================================================
