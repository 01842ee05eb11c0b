------------------------- MODULE ObjectCacheProofs -------------------------
(***************************************************************************)
(* Proofs about ObjectCache, for any number of sessions, keys, objcores    *)
(* and lookups.  Four layers:                                              *)
(*                                                                         *)
(*   Shape     types, who may hold what at which point, and the waiting    *)
(*             lists; for every value of the constants;                    *)
(*   heads     HeadRefExact, when the worker queue refuses nobody;         *)
(*   cores     CoreInv (exact objcore counters and what they protect),     *)
(*             when there is no persistent silo;                           *)
(*   wakers    NoLostWakeup, when the worker queue refuses nobody.         *)
(***************************************************************************)
EXTENDS ObjectCache, FiniteSetTheorems, TLAPS

-----------------------------------------------------------------------------
(* Reference counters: how Count moves when one holder changes what it holds *)

\* The number of holders is a natural number (each counter has finitely many
\* possible holders).
LEMMA CountType ==
  ASSUME NEW f, NEW v, IsFiniteSet(DOMAIN f)
  PROVE  IsFiniteSet(Holders(f, v)) /\ Count(f, v) \in Nat
  <1>1. Holders(f, v) \subseteq DOMAIN f
    BY DEF Holders
  <1>2. IsFiniteSet(Holders(f, v))
    BY <1>1, FS_Subset
  <1> QED
    BY <1>2, FS_CardinalityType DEF Count

\* No holder, count zero; and the other way round.
LEMMA CountZero ==
  ASSUME NEW f, NEW v, IsFiniteSet(DOMAIN f)
  PROVE  Count(f, v) = 0 <=> \A x \in DOMAIN f : f[x] # v
  <1>1. Count(f, v) = 0 <=> Holders(f, v) = {}
    BY CountType, FS_EmptySet DEF Count
  <1> QED
    BY <1>1 DEF Holders

\* A holder makes the count positive.
LEMMA CountPositive ==
  ASSUME NEW f, IsFiniteSet(DOMAIN f), NEW x \in DOMAIN f
  PROVE  Count(f, f[x]) \in Nat \ {0}
  BY CountType, CountZero

\* One holder x moves: the count of v grows by one if x now holds v and drops
\* by one if x held v before.
LEMMA CountMove ==
  ASSUME NEW f, NEW g, NEW x \in DOMAIN f, NEW v,
         IsFiniteSet(DOMAIN f), DOMAIN g = DOMAIN f,
         \A y \in DOMAIN f \ {x} : g[y] = f[y]
  PROVE  Count(g, v) = Count(f, v) + (IF g[x] = v THEN 1 ELSE 0)
                                   - (IF f[x] = v THEN 1 ELSE 0)
  <1>0. Count(f, v) \in Nat /\ IsFiniteSet(Holders(f, v))
    BY CountType
  <1>1. CASE f[x] # v /\ g[x] = v
    <2>1. Holders(g, v) = Holders(f, v) \cup {x} /\ x \notin Holders(f, v)
      BY <1>1 DEF Holders
    <2>2. Count(g, v) = Count(f, v) + 1
      BY <1>0, <2>1, FS_AddElement DEF Count
    <2> QED
      BY <1>0, <1>1, <2>2
  <1>2. CASE f[x] = v /\ g[x] # v
    <2>1. Holders(g, v) = Holders(f, v) \ {x} /\ x \in Holders(f, v)
      BY <1>2 DEF Holders
    <2>2. Count(g, v) = Count(f, v) - 1
      BY <1>0, <2>1, FS_RemoveElement DEF Count
    <2> QED
      BY <1>0, <1>2, <2>2
  <1>3. CASE f[x] = v <=> g[x] = v
    <2>1. Holders(g, v) = Holders(f, v)
      BY <1>3 DEF Holders
    <2>2. Count(g, v) = Count(f, v)
      BY <2>1 DEF Count
    <2> QED
      BY <1>0, <1>3, <2>2
  <1> QED
    BY <1>1, <1>2, <1>3

-----------------------------------------------------------------------------
(* Layer 1. *)

Types ==
  /\ ohRef \in [Keys -> Int]
  /\ waiting \in [Keys -> Seq(Sess)]
  /\ hd \in [Cores -> Keys \cup {None}]
  /\ ocRef \in [Cores -> Int]
  /\ status \in [Cores -> Status]
  /\ silo \subseteq Cores
  /\ timer \subseteq Cores
  /\ pc \in [Procs -> SessPC \cup ThreadPC]
  /\ left \in [Sess -> Nat]
  /\ oh \in [Procs -> Keys \cup {None}]
  /\ oc \in [Procs -> Cores \cup {None}]
  /\ xr \in [Procs -> Cores \cup {None}]
  /\ drop \in [Procs -> Keys \cup {None}]

\* What a session holds is determined by where it is.
SessOK(s) ==
  /\ pc[s] \in SessPC
  /\ oh[s] # None <=> pc[s] \in {"scan", "queued", "spin", "parked", "hitref"}
  /\ oc[s] # None <=> pc[s] \in {"hitref", "miss", "fetch", "insert",
                                 "unbusy", "dropped", "deliver"}
  /\ xr[s] # None => pc[s] \in {"miss", "fetch", "insert"}
  /\ pc[s] = "insert" => xr[s] = oc[s]
  /\ drop[s] # None => pc[s] \in {"idle", "miss", "fetch"} /\ xr[s] = None

TimerOK ==
  /\ pc[Timer] \in {"idle", "popped", "kill", "killcore"}
  /\ oh[Timer] = None /\ oc[Timer] = None
  /\ xr[Timer] # None <=> pc[Timer] # "idle"
  /\ drop[Timer] # None => pc[Timer] = "idle"

LurkerOK ==
  /\ pc[Lurker] \in {"idle", "checked"}
  /\ oh[Lurker] = None /\ xr[Lurker] = None
  /\ oc[Lurker] # None <=> pc[Lurker] = "checked"
  /\ drop[Lurker] # None => pc[Lurker] = "idle"

LoaderOK ==
  /\ pc[Loader] \in {"idle", "insert", "inject"}
  /\ oc[Loader] = None /\ drop[Loader] = None
  /\ oh[Loader] # None <=> pc[Loader] = "insert"
  /\ xr[Loader] # None <=> pc[Loader] = "inject"

Holding ==
  /\ \A s \in Sess : SessOK(s)
  /\ TimerOK
  /\ LurkerOK
  /\ LoaderOK

Shape == Types /\ Holding /\ WaitingListExact


\* Process p goes to `to`; the others stay where they are, except that parked
\* sessions may be taken off their waiting list: queued or closed.
Moves(p, to) ==
  /\ pc' \in [Procs -> SessPC \cup ThreadPC]
  /\ oh' \in [Procs -> Keys \cup {None}]
  /\ pc'[p] = to
  /\ \A q \in Procs \ {p} :
       \/ pc'[q] = pc[q] /\ oh'[q] = oh[q]
       \/ /\ pc[q] = "parked" /\ q \in Sess
          /\ \/ pc'[q] = "queued" /\ oh'[q] = oh[q]
             \/ pc'[q] = "idle" /\ oh'[q] = None

-----------------------------------------------------------------------------
(* The waiting lists. *)

\* An action that leaves the lists alone and neither parks nor unparks anybody
\* leaves them exact.
LEMMA ListsKept ==
  ASSUME WaitingListExact, waiting' = waiting,
         waiting \in [Keys -> Seq(Sess)],
         \A q \in Sess : pc'[q] = "parked" <=> pc[q] = "parked",
         \A q \in Sess : pc[q] = "parked" => oh'[q] = oh[q]
  PROVE  WaitingListExact'
  <1>1. \A k \in Keys : \A i \in DOMAIN waiting[k] : waiting[k][i] \in Sess
    OBVIOUS
  <1> QED
    BY <1>1 DEF WaitingListExact

\* What hsh_rush does, seen from outside.
LEMMA Rush ==
  ASSUME Shape, NEW k \in Keys, NEW p \in Procs, NEW to \in SessPC \cup ThreadPC,
         pc[p] # "parked", to # "parked", hsh_rush(k, p, to)
  PROVE  /\ Moves(p, to) /\ oh'[p] = oh[p]
         /\ QueueMayRefuse \/ oh' = oh
         /\ waiting' \in [Keys -> Seq(Sess)]
         /\ WaitingListExact'
  <1> USE DEF Shape
  <1> DEFINE W == waiting[k]
  <1>0. W \in Seq(Sess) /\ Len(W) \in Nat /\ DOMAIN W = 1..Len(W)
    BY DEF Types
  <1>1. PICK n \in 0..RushLimit(k), refused \in {0, 1} :
          /\ refused = 1 => QueueMayRefuse /\ n < RushLimit(k)
          /\ waiting' = [waiting EXCEPT
                           ![k] = SubSeq(W, n + refused + 1, Len(W))]
          /\ pc' = [q \in Procs |->
                      CASE q = p -> to
                        [] q # p /\ q \in First(k, n) -> "queued"
                        [] q # p /\ q \in First(k, n + refused) \ First(k, n)
                             -> "idle"
                        [] OTHER -> pc[q]]
          /\ oh' = [q \in Procs |->
                      IF q \in First(k, n + refused) \ First(k, n)
                      THEN None ELSE oh[q]]
    BY DEF hsh_rush
  <1> DEFINE m == n + refused
             Off == First(k, m)
             V == SubSeq(W, m + 1, Len(W))
  <1>2. n \in Nat /\ m \in Nat /\ n <= m /\ m <= Len(W)
    BY RushAssumption, <1>0, <1>1 DEF RushLimit
  <1>3. First(k, n) = {W[i] : i \in 1..n} /\ Off = {W[i] : i \in 1..m}
    BY DEF First
  <1>4. First(k, n) \subseteq Off
    BY <1>2, <1>3
  <1>5. \A q \in Off : q \in Sess /\ pc[q] = "parked" /\ oh[q] = k
    BY <1>0, <1>2, <1>3 DEF WaitingListExact
  <1>6. p \notin Off
    BY <1>5
  <1>7. \A q \in Procs \ {p} : q \notin Off => pc'[q] = pc[q] /\ oh'[q] = oh[q]
    BY <1>1, <1>4
  <1>8. \A q \in Off : \/ pc'[q] = "queued" /\ oh'[q] = oh[q]
                       \/ pc'[q] = "idle" /\ oh'[q] = None
    <2> SUFFICES ASSUME NEW q \in Off
                 PROVE  \/ pc'[q] = "queued" /\ oh'[q] = oh[q]
                        \/ pc'[q] = "idle" /\ oh'[q] = None
      OBVIOUS
    <2>1. q \in Procs /\ q # p
      BY <1>5, <1>6 DEF Procs
    <2>2. CASE q \in First(k, n)
      BY <1>1, <2>1, <2>2
    <2>3. CASE q \notin First(k, n)
      BY <1>1, <2>1, <2>3
    <2> QED
      BY <2>2, <2>3
  <1>9. pc'[p] = to /\ oh'[p] = oh[p]
    BY <1>1, <1>4, <1>6
  <1>10. QueueMayRefuse \/ oh' = oh
    <2>1. SUFFICES ASSUME ~ QueueMayRefuse
                   PROVE  oh' = oh
      OBVIOUS
    <2>2. refused = 0
      BY <1>1, <2>1
    <2>3. m = n
      BY <1>2, <2>2
    <2>4. oh' = [q \in Procs |-> oh[q]]
      BY <1>1, <2>3
    <2> QED
      BY <2>4 DEF Types
  <1>11. Moves(p, to)
    <2>1. pc' \in [Procs -> SessPC \cup ThreadPC]
      <3>1. DOMAIN pc' = Procs /\ pc' = [q \in Procs |-> pc'[q]]
        BY <1>1
      <3>2. \A q \in Procs : pc'[q] \in SessPC \cup ThreadPC
        BY <1>7, <1>8, <1>9 DEF Types, SessPC, ThreadPC
      <3> QED
        BY <3>1, <3>2
    <2>2. oh' \in [Procs -> Keys \cup {None}]
      <3>1. oh' = [q \in Procs |-> oh'[q]]
        BY <1>1
      <3>2. \A q \in Procs : oh'[q] \in Keys \cup {None}
        BY <1>7, <1>8, <1>9 DEF Types
      <3> QED
        BY <3>1, <3>2
    <2> QED
      BY <2>1, <2>2, <1>5, <1>7, <1>8, <1>9 DEF Moves
  <1>12. /\ V \in Seq(Sess)
         /\ Len(V) = Len(W) - m
         /\ DOMAIN V = 1..(Len(W) - m)
         /\ \A i \in 1..(Len(W) - m) : V[i] = W[m + i]
    BY <1>0, <1>2, SMTT(30)
  <1>13. waiting' \in [Keys -> Seq(Sess)]
    BY <1>1, <1>12 DEF Types
  <1>14. waiting'[k] = V /\ \A j \in Keys \ {k} : waiting'[j] = waiting[j]
    BY <1>1 DEF Types
  <1>woken. \A r \in 1..m : W[r] \in Off
    BY <1>3
  <1>ints. m \in Int /\ Len(W) \in Int
    BY <1>2
  <1> HIDE DEF V, W, m, Off
  <1>15. ASSUME NEW s \in Sess, pc'[s] = "parked"
         PROVE  \E i \in DOMAIN waiting'[oh'[s]] : waiting'[oh'[s]][i] = s
    <2>1. s \in Procs /\ s # p /\ s \notin Off
      BY <1>8, <1>9, <1>15 DEF Procs
    <2>2. pc[s] = "parked" /\ oh'[s] = oh[s]
      BY <1>7, <1>15, <2>1
    <2>3. PICK i \in DOMAIN waiting[oh[s]] : waiting[oh[s]][i] = s
      BY <2>2 DEF WaitingListExact
    <2>4. CASE oh[s] = k
      <3>1. i \in 1..Len(W) /\ W[i] = s
        BY <1>0, <2>3, <2>4 DEF W
      <3>2. i \in (m + 1)..Len(W)
        BY <1>woken, <1>ints, <2>1, <3>1
      <3>3. i - m \in 1..(Len(W) - m) /\ m + (i - m) = i
        BY <1>ints, <3>2
      <3>4. i - m \in DOMAIN V /\ V[i - m] = s
        BY <1>12, <3>1, <3>3
      <3> QED
        BY <1>14, <2>2, <2>4, <3>4
    <2>5. CASE oh[s] # k
      <3>1. oh[s] \in Keys
        BY <2>1, <2>2 DEF Holding, SessOK, Types
      <3> QED
        BY <1>14, <2>2, <2>3, <2>5, <3>1
    <2> QED
      BY <2>4, <2>5
  <1>16. ASSUME NEW j \in Keys, NEW i \in DOMAIN waiting'[j],
                NEW l \in DOMAIN waiting'[j]
         PROVE  /\ pc'[waiting'[j][i]] = "parked"
                /\ oh'[waiting'[j][i]] = j
                /\ waiting'[j][i] = waiting'[j][l] => i = l
    <2>1. CASE j = k
      <3>1. i \in 1..(Len(W) - m) /\ l \in 1..(Len(W) - m)
        BY <1>12, <1>14, <2>1
      <3>2. /\ waiting'[j][i] = W[m + i] /\ waiting'[j][l] = W[m + l]
            /\ m + i \in DOMAIN W /\ m + l \in DOMAIN W
        <4>1. waiting'[j][i] = W[m + i] /\ waiting'[j][l] = W[m + l]
          BY <1>12, <1>14, <2>1, <3>1
        <4>2. m + i \in 1..Len(W) /\ m + l \in 1..Len(W)
          BY <1>ints, <1>2, <3>1
        <4> QED
          BY <1>0, <4>1, <4>2
      <3>3. /\ pc[W[m + i]] = "parked" /\ oh[W[m + i]] = k
            /\ W[m + i] = W[m + l] => m + i = m + l
        BY <3>2 DEF WaitingListExact, W
      <3>4. W[m + i] \notin Off
        <4>1. \A r \in 1..m : W[r] # W[m + i]
          <5> SUFFICES ASSUME NEW r \in 1..m, W[r] = W[m + i]
                       PROVE  FALSE
            OBVIOUS
          <5>1. r \in DOMAIN W
            BY <1>0, <1>2
          <5>2. r = m + i
            BY <3>2, <5>1 DEF WaitingListExact, W
          <5> QED
            BY <1>2, <3>1, <5>2
        <4> QED
          BY <1>3, <4>1 DEF W, Off, m
      <3>5. W[m + i] \in Procs \ {p}
        BY <1>0, <3>2, <3>3 DEF Procs
      <3> QED
        BY <1>2, <1>7, <2>1, <3>1, <3>2, <3>3, <3>4, <3>5
    <2>2. CASE j # k
      <3>1. waiting'[j] = waiting[j]
        BY <1>14, <2>2
      <3>2. /\ pc[waiting[j][i]] = "parked" /\ oh[waiting[j][i]] = j
            /\ waiting[j][i] = waiting[j][l] => i = l
        BY <3>1 DEF WaitingListExact
      <3>3. waiting[j][i] \in Sess
        BY <3>1 DEF Types
      <3>4. waiting[j][i] \in Procs \ {p} /\ waiting[j][i] \notin Off
        BY <1>5, <2>2, <3>2, <3>3 DEF Procs
      <3> QED
        BY <1>7, <3>1, <3>2, <3>4
    <2> QED
      BY <2>1, <2>2
  <1>17. WaitingListExact'
    BY <1>15, <1>16 DEF WaitingListExact
  <1> QED
    BY <1>9, <1>10, <1>11, <1>13, <1>17

-----------------------------------------------------------------------------
(* Shape is an invariant. *)

\* What process p holds fits where it is.
OwnOK(p) ==
  /\ p \in Sess => SessOK(p)
  /\ p = Timer => TimerOK
  /\ p = Lurker => LurkerOK
  /\ p = Loader => LoaderOK

\* A step of p that only moves p's own references keeps Shape.
LEMMA ShapeKept ==
  ASSUME Shape, Types', WaitingListExact',
         NEW p \in Procs, NEW to, Moves(p, to), OwnOK(p)',
         \A q \in Procs \ {p} :
           oc'[q] = oc[q] /\ xr'[q] = xr[q] /\ drop'[q] = drop[q]
  PROVE  Shape'
  <1>1. ASSUME NEW s \in Sess
        PROVE  SessOK(s)'
    <2>1. CASE s = p
      BY <2>1 DEF OwnOK
    <2>2. CASE s # p
      <3>1. s \in Procs \ {p}
        BY <2>2 DEF Procs
      <3> QED
        BY <3>1 DEF Shape, Holding, SessOK, Moves, SessPC
    <2> QED
      BY <2>1, <2>2
  <1>2. ASSUME NEW q \in Threads, q # p
        PROVE  /\ pc'[q] = pc[q] /\ oh'[q] = oh[q] /\ oc'[q] = oc[q]
               /\ xr'[q] = xr[q] /\ drop'[q] = drop[q]
    BY <1>2, SessAssumption DEF Moves, Procs
  <1>3. TimerOK'
    BY <1>2 DEF OwnOK, Shape, Holding, TimerOK, Threads, Timer
  <1>4. LurkerOK'
    BY <1>2 DEF OwnOK, Shape, Holding, LurkerOK, Threads, Lurker
  <1>5. LoaderOK'
    BY <1>2 DEF OwnOK, Shape, Holding, LoaderOK, Threads, Loader
  <1> QED
    BY <1>1, <1>3, <1>4, <1>5 DEF Shape, Holding

\* The same for a step that touches no waiting list.
LEMMA QuietShape ==
  ASSUME Shape, Types', waiting' = waiting,
         NEW p \in Procs, NEW to \in SessPC \cup ThreadPC,
         pc[p] # "parked", to # "parked", Goto(p, to), OwnOK(p)',
         \A q \in Procs \ {p} : /\ oh'[q] = oh[q] /\ oc'[q] = oc[q]
                                /\ xr'[q] = xr[q] /\ drop'[q] = drop[q]
  PROVE  Shape'
  <1>1. \A q \in Procs : pc'[q] = IF q = p THEN to ELSE pc[q]
    BY DEF Goto, Shape, Types
  <1>2. Moves(p, to)
    BY <1>1 DEF Moves, Types
  <1>3. WaitingListExact'
    <2>1. \A q \in Sess : pc'[q] = "parked" <=> pc[q] = "parked"
      BY <1>1 DEF Procs
    <2>2. \A q \in Sess : pc[q] = "parked" => oh'[q] = oh[q]
      BY DEF Procs
    <2> QED
      BY <2>1, <2>2, ListsKept DEF Shape, Types
  <1> QED
    BY <1>2, <1>3, ShapeKept

\* OwnOK of a session.
LEMMA SessOwn ==
  ASSUME NEW s \in Sess
  PROVE  s \in Procs /\ s \notin Threads /\ (SessOK(s)' => OwnOK(s)')
  BY SessAssumption DEF Procs, Threads, Timer, Lurker, Loader, OwnOK

\* The session's own steps that touch no waiting list.
LEMMA SessQuietShape ==
  ASSUME Shape, Intact, NEW s \in Sess,
         \/ HashLookup(s) \/ LookupHit(s) \/ LookupBusy(s, TRUE)
         \/ LookupMiss(s) \/ HitDeref(s) \/ NewObject(s)
         \/ EXP_NukeOne(s) \/ HSH_Ref(s) \/ EXP_Insert(s)
  PROVE  Shape'
  <1>0. s \in Procs /\ s \notin Threads /\ (SessOK(s)' => OwnOK(s)')
    BY SessOwn
  <1>1. Types /\ SessOK(s)
    BY DEF Shape, Holding
  <1> USE DEF Goto, InLookup, Settled, SMP_Fixup
  <1>2. CASE HashLookup(s)
    <2>1. Types'
      BY <1>0, <1>1, <1>2 DEF HashLookup, Types, SessPC, coreVars, headVars
    <2>2. SessOK(s)'
      BY <1>0, <1>1, <1>2, KeysAssumption, CoresAssumption
      DEF HashLookup, Types, SessOK, SessPC, coreVars, headVars
    <2>3. Goto(s, "scan") /\ pc[s] # "parked" /\ waiting' = waiting
      BY <1>0, <1>1, <1>2 DEF HashLookup, Types, headVars
    <2>4. \A q \in Procs \ {s} : /\ oh'[q] = oh[q] /\ oc'[q] = oc[q]
                                 /\ xr'[q] = xr[q] /\ drop'[q] = drop[q]
      BY <1>1, <1>2 DEF HashLookup, Types
    <2> QED
      BY <1>0, <2>1, <2>2, <2>3, <2>4, QuietShape DEF SessPC
  <1>3. CASE LookupHit(s)
    <2>1. Types'
      BY <1>0, <1>1, <1>3 DEF LookupHit, Types, SessPC, coreVars, headVars, objcs, Vampires, Status
    <2>2. SessOK(s)'
      BY <1>0, <1>1, <1>3, KeysAssumption, CoresAssumption
      DEF LookupHit, Types, SessOK, SessPC, coreVars, headVars, objcs, Vampires, Status
    <2>3. Goto(s, "hitref") /\ pc[s] # "parked" /\ waiting' = waiting
      BY <1>0, <1>1, <1>3 DEF LookupHit, Types, headVars
    <2>4. \A q \in Procs \ {s} : /\ oh'[q] = oh[q] /\ oc'[q] = oc[q]
                                 /\ xr'[q] = xr[q] /\ drop'[q] = drop[q]
      BY <1>1, <1>3 DEF LookupHit, Types
    <2> QED
      BY <1>0, <2>1, <2>2, <2>3, <2>4, QuietShape DEF SessPC
  <1>4. CASE LookupBusy(s, TRUE)
    <2>1. Types'
      BY <1>0, <1>1, <1>4 DEF LookupBusy, Types, SessPC, coreVars, headVars, objcs, Vampires, Status
    <2>2. SessOK(s)'
      BY <1>0, <1>1, <1>4, KeysAssumption, CoresAssumption
      DEF LookupBusy, Types, SessOK, SessPC, coreVars, headVars, objcs, Vampires, Status
    <2>3. Goto(s, "spin") /\ pc[s] # "parked" /\ waiting' = waiting
      BY <1>0, <1>1, <1>4 DEF LookupBusy, Types, headVars
    <2>4. \A q \in Procs \ {s} : /\ oh'[q] = oh[q] /\ oc'[q] = oc[q]
                                 /\ xr'[q] = xr[q] /\ drop'[q] = drop[q]
      BY <1>1, <1>4 DEF LookupBusy, Types
    <2> QED
      BY <1>0, <2>1, <2>2, <2>3, <2>4, QuietShape DEF SessPC
  <1>5. CASE LookupMiss(s)
    <2>1. Types'
      BY <1>0, <1>1, <1>5 DEF LookupMiss, Types, SessPC, coreVars, headVars, objcs, Free, Vampires, Status
    <2>2. SessOK(s)'
      BY <1>0, <1>1, <1>5, KeysAssumption, CoresAssumption
      DEF LookupMiss, Types, SessOK, SessPC, coreVars, headVars, objcs, Free, Vampires, Status
    <2>3. Goto(s, "miss") /\ pc[s] # "parked" /\ waiting' = waiting
      BY <1>0, <1>1, <1>5 DEF LookupMiss, Types, headVars
    <2>4. \A q \in Procs \ {s} : /\ oh'[q] = oh[q] /\ oc'[q] = oc[q]
                                 /\ xr'[q] = xr[q] /\ drop'[q] = drop[q]
      BY <1>1, <1>5 DEF LookupMiss, Types
    <2> QED
      BY <1>0, <2>1, <2>2, <2>3, <2>4, QuietShape DEF SessPC
  <1>6. CASE HitDeref(s)
    <2>1. Types'
      BY <1>0, <1>1, <1>6 DEF HitDeref, Types, SessOK, SessPC, coreVars, headVars
    <2>2. SessOK(s)'
      BY <1>0, <1>1, <1>6, KeysAssumption, CoresAssumption
      DEF HitDeref, Types, SessOK, SessPC, coreVars, headVars
    <2>3. Goto(s, "deliver") /\ pc[s] # "parked" /\ waiting' = waiting
      BY <1>0, <1>1, <1>6 DEF HitDeref, Types, headVars
    <2>4. \A q \in Procs \ {s} : /\ oh'[q] = oh[q] /\ oc'[q] = oc[q]
                                 /\ xr'[q] = xr[q] /\ drop'[q] = drop[q]
      BY <1>1, <1>6 DEF HitDeref, Types
    <2> QED
      BY <1>0, <2>1, <2>2, <2>3, <2>4, QuietShape DEF SessPC
  <1>7. CASE NewObject(s)
    <2>1. Types'
      BY <1>0, <1>1, <1>7 DEF NewObject, Types, SessPC, coreVars, headVars, Status
    <2>2. SessOK(s)'
      BY <1>0, <1>1, <1>7, KeysAssumption, CoresAssumption
      DEF NewObject, Types, SessOK, SessPC, coreVars, headVars, Status
    <2>3. Goto(s, "fetch") /\ pc[s] # "parked" /\ waiting' = waiting
      BY <1>0, <1>1, <1>7 DEF NewObject, Types, headVars
    <2>4. \A q \in Procs \ {s} : /\ oh'[q] = oh[q] /\ oc'[q] = oc[q]
                                 /\ xr'[q] = xr[q] /\ drop'[q] = drop[q]
      BY <1>1, <1>7 DEF NewObject, Types
    <2> QED
      BY <1>0, <2>1, <2>2, <2>3, <2>4, QuietShape DEF SessPC
  <1>8. CASE EXP_NukeOne(s)
    <2>1. Types'
      BY <1>0, <1>1, <1>8 DEF EXP_NukeOne, Types, coreVars, headVars
    <2>2. SessOK(s)'
      BY <1>0, <1>1, <1>8, CoresAssumption DEF EXP_NukeOne, Types, SessOK, SessPC
    <2>3. Goto(s, pc[s]) /\ pc[s] # "parked" /\ waiting' = waiting
      BY <1>0, <1>1, <1>8 DEF EXP_NukeOne, Types, headVars
    <2>4. \A q \in Procs \ {s} : /\ oh'[q] = oh[q] /\ oc'[q] = oc[q]
                                 /\ xr'[q] = xr[q] /\ drop'[q] = drop[q]
      BY <1>1, <1>8 DEF EXP_NukeOne, Types
    <2> QED
      BY <1>0, <1>1, <2>1, <2>2, <2>3, <2>4, QuietShape DEF Types
  <1>9. CASE HSH_Ref(s)
    <2>1. Types'
      BY <1>0, <1>1, <1>9 DEF HSH_Ref, Types, SessOK, SessPC, coreVars, headVars
    <2>2. SessOK(s)'
      BY <1>0, <1>1, <1>9, KeysAssumption, CoresAssumption
      DEF HSH_Ref, Types, SessOK, SessPC, coreVars, headVars
    <2>3. Goto(s, "insert") /\ pc[s] # "parked" /\ waiting' = waiting
      BY <1>0, <1>1, <1>9 DEF HSH_Ref, Types, headVars
    <2>4. \A q \in Procs \ {s} : /\ oh'[q] = oh[q] /\ oc'[q] = oc[q]
                                 /\ xr'[q] = xr[q] /\ drop'[q] = drop[q]
      BY <1>1, <1>9 DEF HSH_Ref, Types
    <2> QED
      BY <1>0, <2>1, <2>2, <2>3, <2>4, QuietShape DEF SessPC
  <1>10. CASE EXP_Insert(s)
    <2>1. Types'
      BY <1>0, <1>1, <1>10 DEF EXP_Insert, Types, SessOK, SessPC, coreVars, headVars
    <2>2. SessOK(s)'
      BY <1>0, <1>1, <1>10, KeysAssumption, CoresAssumption
      DEF EXP_Insert, Types, SessOK, SessPC, coreVars, headVars
    <2>3. Goto(s, "unbusy") /\ pc[s] # "parked" /\ waiting' = waiting
      BY <1>0, <1>1, <1>10 DEF EXP_Insert, Types, headVars
    <2>4. \A q \in Procs \ {s} : /\ oh'[q] = oh[q] /\ oc'[q] = oc[q]
                                 /\ xr'[q] = xr[q] /\ drop'[q] = drop[q]
      BY <1>1, <1>10 DEF EXP_Insert, Types
    <2> QED
      BY <1>0, <2>1, <2>2, <2>3, <2>4, QuietShape DEF SessPC
  <1> QED
    BY <1>2, <1>3, <1>4, <1>5, <1>6, <1>7, <1>8, <1>9, <1>10

\* Joining the waiting list.
LEMMA ParkShape ==
  ASSUME Shape, NEW s \in Sess, LookupBusy(s, FALSE)
  PROVE  Shape'
  <1>0. s \in Procs /\ s \notin Threads /\ (SessOK(s)' => OwnOK(s)')
    BY SessOwn
  <1>1. Types /\ SessOK(s)
    BY DEF Shape, Holding
  <1>2. oh[s] \in Keys /\ pc[s] \in {"scan", "queued", "spin"}
    BY <1>0, <1>1 DEF LookupBusy, InLookup, Types
  <1>3. /\ waiting' = [waiting EXCEPT ![oh[s]] = Append(@, s)]
        /\ pc' = [pc EXCEPT ![s] = "parked"]
        /\ UNCHANGED <<ohRef, hd, ocRef, silo, timer, left, oh, oc, xr, drop>>
    BY DEF LookupBusy, Goto
  <1>4. Types'
    <2>1. status' \in [Cores -> Status]
      BY <1>1 DEF LookupBusy, SMP_Fixup, Types, Status
    <2>2. Append(waiting[oh[s]], s) \in Seq(Sess)
      BY <1>1, <1>2 DEF Types
    <2>3. waiting' \in [Keys -> Seq(Sess)]
      BY <1>1, <1>3, <2>2 DEF Types
    <2> QED
      BY <1>0, <1>1, <1>3, <2>1, <2>3 DEF Types, SessPC
  <1>5. SessOK(s)'
    BY <1>0, <1>1, <1>2, <1>3 DEF SessOK, Types, SessPC
  <1>6. Moves(s, "parked")
    BY <1>0, <1>1, <1>3, <1>4 DEF Moves, Types
  <1>7. \A q \in Procs : pc'[q] = IF q = s THEN "parked" ELSE pc[q]
    BY <1>1, <1>3 DEF Types
  <1> DEFINE W == waiting[oh[s]]
             V == Append(W, s)
  <1>8. /\ W \in Seq(Sess) /\ Len(W) \in Nat /\ DOMAIN W = 1..Len(W)
        /\ DOMAIN V = 1..(Len(W) + 1) /\ V[Len(W) + 1] = s
        /\ \A i \in 1..Len(W) : V[i] = W[i]
    BY <1>1, <1>2 DEF Types
  <1>9. /\ waiting'[oh[s]] = V
        /\ \A j \in Keys \ {oh[s]} : waiting'[j] = waiting[j]
    BY <1>1, <1>2, <1>3 DEF Types
  <1>10. \A j \in Keys : \A i \in DOMAIN waiting[j] :
            waiting[j][i] \in Sess /\ waiting[j][i] # s
    BY <1>1, <1>2 DEF Shape, WaitingListExact, Types
  <1> HIDE DEF V, W
  <1>11. ASSUME NEW t \in Sess, pc'[t] = "parked"
         PROVE  \E i \in DOMAIN waiting'[oh'[t]] : waiting'[oh'[t]][i] = t
    <2>1. CASE t = s
      BY <1>3, <1>8, <1>9, <2>1
    <2>2. CASE t # s
      <3>1. pc[t] = "parked" /\ t \in Procs
        BY <1>7, <1>11, <2>2 DEF Procs
      <3>2. oh[t] \in Keys
        BY <1>1, <3>1 DEF Shape, Holding, SessOK, Types
      <3>3. PICK i \in DOMAIN waiting[oh[t]] : waiting[oh[t]][i] = t
        BY <3>1 DEF Shape, WaitingListExact
      <3>4. CASE oh[t] = oh[s]
        <4>1. i \in 1..Len(W) /\ W[i] = t
          BY <1>8, <3>3, <3>4 DEF W
        <4>2. i \in DOMAIN V /\ V[i] = t
          BY <1>8, <4>1
        <4> QED
          BY <1>3, <1>9, <3>4, <4>2
      <3>5. CASE oh[t] # oh[s]
        BY <1>3, <1>9, <3>2, <3>3, <3>5
      <3> QED
        BY <3>4, <3>5
    <2> QED
      BY <2>1, <2>2
  <1>12. ASSUME NEW j \in Keys, NEW i \in DOMAIN waiting'[j],
                NEW l \in DOMAIN waiting'[j]
         PROVE  /\ pc'[waiting'[j][i]] = "parked"
                /\ oh'[waiting'[j][i]] = j
                /\ waiting'[j][i] = waiting'[j][l] => i = l
    <2>1. \A r, r2 \in DOMAIN waiting[j] :
            /\ pc'[waiting[j][r]] = "parked" /\ oh[waiting[j][r]] = j
            /\ waiting[j][r] = waiting[j][r2] => r = r2
      BY <1>7, <1>10 DEF Shape, WaitingListExact, Procs
    <2>2. CASE j # oh[s]
      BY <1>3, <1>9, <2>1, <2>2
    <2>3. CASE j = oh[s]
      <3>1. waiting'[j] = V /\ waiting[j] = W
        BY <1>9, <2>3 DEF W
      <3>2. i \in 1..(Len(W) + 1) /\ l \in 1..(Len(W) + 1)
        BY <1>8, <3>1
      <3>3. \A r \in 1..Len(W) : V[r] # s
        BY <1>8, <1>10, <3>1
      <3>4. i \in 1..Len(W) \/ i = Len(W) + 1
        BY <1>8, <3>2
      <3>5. l \in 1..Len(W) \/ l = Len(W) + 1
        BY <1>8, <3>2
      <3>6. pc'[V[i]] = "parked" /\ oh[V[i]] = j
        BY <1>0, <1>7, <1>8, <2>1, <2>3, <3>1, <3>4
      <3>7. V[i] = V[l] => i = l
        BY <1>8, <2>1, <3>1, <3>3, <3>4, <3>5
      <3> QED
        BY <1>3, <3>1, <3>6, <3>7
    <2> QED
      BY <2>2, <2>3
  <1>13. WaitingListExact'
    BY <1>11, <1>12 DEF WaitingListExact
  <1> QED
    BY <1>0, <1>3, <1>4, <1>5, <1>6, <1>13, ShapeKept

\* Giving up an objcore reference keeps the objcores well typed.
LEMMA DropTypes ==
  ASSUME Types, NEW c \in Cores, NEW p \in Procs,
         FreeCore(c, p) \/ DropCoreRef(c, p)
  PROVE  /\ hd' \in [Cores -> Keys \cup {None}]
         /\ ocRef' \in [Cores -> Int]
         /\ status' \in [Cores -> Status]
         /\ silo' \subseteq Cores
         /\ drop' \in [Procs -> Keys \cup {None}]
         /\ \A q \in Procs \ {p} : drop'[q] = drop[q]
         /\ drop'[p] # drop[p] => drop'[p] = hd[c]
  <1>1. CASE FreeCore(c, p)
    BY <1>1 DEF FreeCore, Types, Status
  <1>2. CASE DropCoreRef(c, p) /\ ~ FreeCore(c, p)
    BY <1>2 DEF DropCoreRef, Types
  <1> QED
    BY <1>1, <1>2

\* The session's own steps that call hsh_rush.
LEMMA SessRushShape ==
  ASSUME Shape, Intact, NEW s \in Sess,
         \/ DerefObjCore(s) \/ NukeDeref(s) \/ HSH_Drop(s)
         \/ HSH_Unbusy(s) \/ DeliverDeref(s)
  PROVE  Shape'
  <1>0. s \in Procs /\ s \notin Threads /\ (SessOK(s)' => OwnOK(s)')
    BY SessOwn
  <1>1. Types /\ SessOK(s)
    BY DEF Shape, Holding
  <1>2. CASE DerefObjCore(s)
    <2>1. hd[oc[s]] \in Keys /\ oc[s] \in Cores
      BY <1>0, <1>1, <1>2, CoresAssumption DEF DerefObjCore, Types, SessOK, Intact
    <2>2. hsh_rush(hd[oc[s]], s, "idle") /\ pc[s] # "parked"
      BY <1>2 DEF DerefObjCore
    <2>3. /\ Moves(s, "idle") /\ oh'[s] = oh[s]
          /\ waiting' \in [Keys -> Seq(Sess)] /\ WaitingListExact'
      BY <1>0, <1>1, <1>2, <2>1, <2>2, Rush DEF DerefObjCore, SessPC, ThreadPC
    <2>4. Types'
      BY <1>0, <1>1, <1>2, <2>1, <2>3, DropTypes
      DEF DerefObjCore, Types, Moves
    <2>5. SessOK(s)'
      BY <1>0, <1>1, <1>2, <2>1, <2>3, CoresAssumption
      DEF DerefObjCore, Types, SessOK, SessPC, ThreadPC, Settled, Moves, FreeCore
    <2>6. \A q \in Procs \ {s} :
            oc'[q] = oc[q] /\ xr'[q] = xr[q] /\ drop'[q] = drop[q]
      BY <1>1, <1>2 DEF DerefObjCore, Types, FreeCore
    <2> QED
      BY <1>0, <2>3, <2>4, <2>5, <2>6, ShapeKept
  <1>3. CASE NukeDeref(s)
    <2>1. hd[xr[s]] \in Keys /\ xr[s] \in Cores
      BY <1>0, <1>1, <1>3, CoresAssumption DEF NukeDeref, Types, SessOK, Intact
    <2>2. hsh_rush(hd[xr[s]], s, pc[s]) /\ pc[s] # "parked"
      BY <1>3 DEF NukeDeref
    <2>3. /\ Moves(s, pc[s]) /\ oh'[s] = oh[s]
          /\ waiting' \in [Keys -> Seq(Sess)] /\ WaitingListExact'
      BY <1>0, <1>1, <1>3, <2>1, <2>2, Rush DEF NukeDeref, SessPC, ThreadPC
    <2>4. Types'
      BY <1>0, <1>1, <1>3, <2>1, <2>3, DropTypes
      DEF NukeDeref, Types, Moves
    <2>5. SessOK(s)'
      BY <1>0, <1>1, <1>3, <2>1, <2>3, CoresAssumption
      DEF NukeDeref, Types, SessOK, SessPC, ThreadPC, Settled, Moves, DropCoreRef, FreeCore
    <2>6. \A q \in Procs \ {s} :
            oc'[q] = oc[q] /\ xr'[q] = xr[q] /\ drop'[q] = drop[q]
      BY <1>1, <1>3 DEF NukeDeref, Types, DropCoreRef, FreeCore
    <2> QED
      BY <1>0, <2>3, <2>4, <2>5, <2>6, ShapeKept
  <1>4. CASE HSH_Drop(s)
    <2>1. hd[oc[s]] \in Keys /\ oc[s] \in Cores
      BY <1>0, <1>1, <1>4, CoresAssumption DEF HSH_Drop, Types, SessOK, Intact
    <2>2. hsh_rush(hd[oc[s]], s, "dropped") /\ pc[s] # "parked"
      BY <1>4 DEF HSH_Drop
    <2>3. /\ Moves(s, "dropped") /\ oh'[s] = oh[s]
          /\ waiting' \in [Keys -> Seq(Sess)] /\ WaitingListExact'
      BY <1>0, <1>1, <1>4, <2>1, <2>2, Rush DEF HSH_Drop, SessPC, ThreadPC
    <2>4. Types'
      BY <1>0, <1>1, <1>4, <2>1, <2>3
      DEF HSH_Drop, Types, Moves, Status
    <2>5. SessOK(s)'
      BY <1>0, <1>1, <1>4, <2>1, <2>3, CoresAssumption
      DEF HSH_Drop, Types, SessOK, SessPC, ThreadPC, Settled, Moves
    <2>6. \A q \in Procs \ {s} :
            oc'[q] = oc[q] /\ xr'[q] = xr[q] /\ drop'[q] = drop[q]
      BY <1>1, <1>4 DEF HSH_Drop, Types
    <2> QED
      BY <1>0, <2>3, <2>4, <2>5, <2>6, ShapeKept
  <1>5. CASE HSH_Unbusy(s)
    <2>1. hd[oc[s]] \in Keys /\ oc[s] \in Cores
      BY <1>0, <1>1, <1>5, CoresAssumption DEF HSH_Unbusy, Types, SessOK, Intact
    <2>2. hsh_rush(hd[oc[s]], s, "deliver") /\ pc[s] # "parked"
      BY <1>5 DEF HSH_Unbusy
    <2>3. /\ Moves(s, "deliver") /\ oh'[s] = oh[s]
          /\ waiting' \in [Keys -> Seq(Sess)] /\ WaitingListExact'
      BY <1>0, <1>1, <1>5, <2>1, <2>2, Rush DEF HSH_Unbusy, SessPC, ThreadPC
    <2>4. Types'
      BY <1>0, <1>1, <1>5, <2>1, <2>3
      DEF HSH_Unbusy, Types, Moves, Status
    <2>5. SessOK(s)'
      BY <1>0, <1>1, <1>5, <2>1, <2>3, CoresAssumption
      DEF HSH_Unbusy, Types, SessOK, SessPC, ThreadPC, Settled, Moves
    <2>6. \A q \in Procs \ {s} :
            oc'[q] = oc[q] /\ xr'[q] = xr[q] /\ drop'[q] = drop[q]
      BY <1>1, <1>5 DEF HSH_Unbusy, Types
    <2> QED
      BY <1>0, <2>3, <2>4, <2>5, <2>6, ShapeKept
  <1>6. CASE DeliverDeref(s)
    <2>1. hd[oc[s]] \in Keys /\ oc[s] \in Cores
      BY <1>0, <1>1, <1>6, CoresAssumption DEF DeliverDeref, Types, SessOK, Intact
    <2>2. hsh_rush(hd[oc[s]], s, "idle") /\ pc[s] # "parked"
      BY <1>6 DEF DeliverDeref
    <2>3. /\ Moves(s, "idle") /\ oh'[s] = oh[s]
          /\ waiting' \in [Keys -> Seq(Sess)] /\ WaitingListExact'
      BY <1>0, <1>1, <1>6, <2>1, <2>2, Rush DEF DeliverDeref, SessPC, ThreadPC
    <2>4. Types'
      BY <1>0, <1>1, <1>6, <2>1, <2>3, DropTypes
      DEF DeliverDeref, Types, Moves
    <2>5. SessOK(s)'
      BY <1>0, <1>1, <1>6, <2>1, <2>3, CoresAssumption
      DEF DeliverDeref, Types, SessOK, SessPC, ThreadPC, Settled, Moves, DropCoreRef, FreeCore
    <2>6. \A q \in Procs \ {s} :
            oc'[q] = oc[q] /\ xr'[q] = xr[q] /\ drop'[q] = drop[q]
      BY <1>1, <1>6 DEF DeliverDeref, Types, DropCoreRef, FreeCore
    <2> QED
      BY <1>0, <2>3, <2>4, <2>5, <2>6, ShapeKept
  <1> QED
    BY <1>2, <1>3, <1>4, <1>5, <1>6

\* OwnOK of the three threads.
LEMMA ThreadOwn ==
  /\ {Timer, Lurker, Loader} \subseteq Procs
  /\ TimerOK' => OwnOK(Timer)'
  /\ LurkerOK' => OwnOK(Lurker)'
  /\ LoaderOK' => OwnOK(Loader)'
  BY SessAssumption DEF Procs, Threads, Timer, Lurker, Loader, OwnOK

\* The steps of exp_timer, ban_lurker and the silo thread.
LEMMA ThreadShape ==
  ASSUME Shape, Intact, TimerStep \/ LurkerStep \/ LoaderStep
  PROVE  Shape'
  <1>0. /\ {Timer, Lurker, Loader} \subseteq Procs
        /\ TimerOK' => OwnOK(Timer)'
        /\ LurkerOK' => OwnOK(Lurker)'
        /\ LoaderOK' => OwnOK(Loader)'
    BY ThreadOwn
  <1>1. Types /\ TimerOK /\ LurkerOK /\ LoaderOK
    BY DEF Shape, Holding
  <1> USE DEF Goto, Settled
  <1>2. CASE TimerPop
    <2>1. Types'
      BY <1>0, <1>1, <1>2 DEF TimerPop, Types, TimerOK, ThreadPC, coreVars, headVars
    <2>2. TimerOK'
      BY <1>0, <1>1, <1>2, KeysAssumption, CoresAssumption
      DEF TimerPop, Types, TimerOK, coreVars, headVars
    <2>3. \A q \in Procs \ {Timer} : /\ oh'[q] = oh[q] /\ oc'[q] = oc[q]
                                     /\ xr'[q] = xr[q] /\ drop'[q] = drop[q]
      BY <1>1, <1>2 DEF TimerPop, Types
    <2>4. \E to \in ThreadPC : Goto(Timer, to)
      BY <1>2 DEF TimerPop, ThreadPC
    <2>5. pc[Timer] # "parked" /\ waiting' = waiting
      BY <1>2 DEF TimerPop, headVars
    <2> QED
      BY <1>0, <2>1, <2>2, <2>3, <2>4, <2>5, QuietShape DEF ThreadPC
  <1>3. CASE TimerFlag
    <2>1. Types'
      BY <1>0, <1>1, <1>3 DEF TimerFlag, Types, TimerOK, ThreadPC, coreVars, headVars
    <2>2. TimerOK'
      BY <1>0, <1>1, <1>3, KeysAssumption, CoresAssumption
      DEF TimerFlag, Types, TimerOK, coreVars, headVars
    <2>3. \A q \in Procs \ {Timer} : /\ oh'[q] = oh[q] /\ oc'[q] = oc[q]
                                     /\ xr'[q] = xr[q] /\ drop'[q] = drop[q]
      BY <1>1, <1>3 DEF TimerFlag, Types
    <2>4. \E to \in ThreadPC : Goto(Timer, to)
      BY <1>3 DEF TimerFlag, ThreadPC
    <2>5. pc[Timer] # "parked" /\ waiting' = waiting
      BY <1>3 DEF TimerFlag, headVars
    <2> QED
      BY <1>0, <2>1, <2>2, <2>3, <2>4, <2>5, QuietShape DEF ThreadPC
  <1>4. CASE TimerDeref
    <2>1. hd[xr[Timer]] \in Keys /\ xr[Timer] \in Cores
      BY <1>0, <1>1, <1>4, CoresAssumption DEF TimerDeref, Types, TimerOK, Intact
    <2>2. hsh_rush(hd[xr[Timer]], Timer, "idle") /\ pc[Timer] # "parked"
      BY <1>4 DEF TimerDeref
    <2>3. /\ Moves(Timer, "idle") /\ oh'[Timer] = oh[Timer]
          /\ waiting' \in [Keys -> Seq(Sess)] /\ WaitingListExact'
      BY <1>0, <1>1, <1>4, <2>1, <2>2, Rush DEF TimerDeref, SessPC, ThreadPC
    <2>4. Types'
      BY <1>0, <1>1, <1>4, <2>1, <2>3, DropTypes
      DEF TimerDeref, Types, Moves
    <2>5. TimerOK'
      BY <1>0, <1>1, <1>4, <2>1, <2>3, CoresAssumption
      DEF TimerDeref, Types, TimerOK, Moves, DropCoreRef, FreeCore
    <2>6. \A q \in Procs \ {Timer} :
            oc'[q] = oc[q] /\ xr'[q] = xr[q] /\ drop'[q] = drop[q]
      BY <1>1, <1>4 DEF TimerDeref, Types, DropCoreRef, FreeCore
    <2> QED
      BY <1>0, <2>3, <2>4, <2>5, <2>6, ShapeKept
  <1>5. CASE TimerDerefObjCore
    <2>1. hd[xr[Timer]] \in Keys /\ xr[Timer] \in Cores
      BY <1>0, <1>1, <1>5, CoresAssumption DEF TimerDerefObjCore, Types, TimerOK, Intact
    <2>2. /\ \/ hsh_rush(hd[xr[Timer]], Timer, "idle")
             \/ Goto(Timer, "idle") /\ UNCHANGED <<waiting, oh>>
          /\ pc[Timer] # "parked"
      BY <1>5 DEF TimerDerefObjCore
    <2>3. /\ Moves(Timer, "idle") /\ oh'[Timer] = oh[Timer]
          /\ waiting' \in [Keys -> Seq(Sess)] /\ WaitingListExact'
      <3>1. CASE hsh_rush(hd[xr[Timer]], Timer, "idle")
        BY <1>0, <2>1, <2>2, <3>1, Rush DEF SessPC, ThreadPC
      <3>2. CASE Goto(Timer, "idle") /\ UNCHANGED <<waiting, oh>>
        <4>1. Moves(Timer, "idle") /\ oh'[Timer] = oh[Timer]
          BY <1>0, <1>1, <3>2 DEF Moves, Types, SessPC
        <4>2. \A q \in Sess : pc'[q] = "parked" <=> pc[q] = "parked"
          BY <1>0, <1>1, <2>2, <3>2 DEF Types, Procs
        <4>3. WaitingListExact'
          BY <1>1, <3>2, <4>2, ListsKept DEF Types, Shape
        <4> QED
          BY <1>1, <3>2, <4>1, <4>3 DEF Types
      <3> QED
        BY <2>2, <3>1, <3>2
    <2>4. Types'
      BY <1>0, <1>1, <1>5, <2>1, <2>3, DropTypes
      DEF TimerDerefObjCore, Types, Moves
    <2>5. TimerOK'
      BY <1>0, <1>1, <1>5, <2>1, <2>3, CoresAssumption
      DEF TimerDerefObjCore, Types, TimerOK, Moves, FreeCore
    <2>6. \A q \in Procs \ {Timer} :
            oc'[q] = oc[q] /\ xr'[q] = xr[q] /\ drop'[q] = drop[q]
      BY <1>1, <1>5 DEF TimerDerefObjCore, Types, FreeCore
    <2> QED
      BY <1>0, <2>3, <2>4, <2>5, <2>6, ShapeKept
  <1>6. CASE HSH_FindBan
    <2>1. Types'
      BY <1>0, <1>1, <1>6 DEF HSH_FindBan, Types, LurkerOK, ThreadPC, coreVars, headVars, objcs, Vampires, SMP_Fixup, Status
    <2>2. LurkerOK'
      BY <1>0, <1>1, <1>6, KeysAssumption, CoresAssumption
      DEF HSH_FindBan, Types, LurkerOK, coreVars, headVars, objcs, Vampires, SMP_Fixup, Status
    <2>3. \A q \in Procs \ {Lurker} : /\ oh'[q] = oh[q] /\ oc'[q] = oc[q]
                                      /\ xr'[q] = xr[q] /\ drop'[q] = drop[q]
      BY <1>1, <1>6 DEF HSH_FindBan, Types
    <2>4. \E to \in ThreadPC : Goto(Lurker, to)
      BY <1>6 DEF HSH_FindBan, ThreadPC
    <2>5. pc[Lurker] # "parked" /\ waiting' = waiting
      BY <1>6 DEF HSH_FindBan, headVars
    <2> QED
      BY <1>0, <2>1, <2>2, <2>3, <2>4, <2>5, QuietShape DEF ThreadPC
  <1>7. CASE LurkerDeref
    <2>1. hd[oc[Lurker]] \in Keys /\ oc[Lurker] \in Cores
      BY <1>0, <1>1, <1>7, CoresAssumption DEF LurkerDeref, Types, LurkerOK, Intact
    <2>2. hsh_rush(hd[oc[Lurker]], Lurker, "idle") /\ pc[Lurker] # "parked"
      BY <1>7 DEF LurkerDeref
    <2>3. /\ Moves(Lurker, "idle") /\ oh'[Lurker] = oh[Lurker]
          /\ waiting' \in [Keys -> Seq(Sess)] /\ WaitingListExact'
      BY <1>0, <1>1, <1>7, <2>1, <2>2, Rush DEF LurkerDeref, SessPC, ThreadPC
    <2>4. Types'
      BY <1>0, <1>1, <1>7, <2>1, <2>3, DropTypes
      DEF LurkerDeref, Types, Moves
    <2>5. LurkerOK'
      BY <1>0, <1>1, <1>7, <2>1, <2>3, CoresAssumption
      DEF LurkerDeref, Types, LurkerOK, Moves, DropCoreRef, FreeCore
    <2>6. \A q \in Procs \ {Lurker} :
            oc'[q] = oc[q] /\ xr'[q] = xr[q] /\ drop'[q] = drop[q]
      BY <1>1, <1>7 DEF LurkerDeref, Types, DropCoreRef, FreeCore
    <2> QED
      BY <1>0, <2>3, <2>4, <2>5, <2>6, ShapeKept
  <1>8. CASE LoadLookup
    <2>1. Types'
      BY <1>0, <1>1, <1>8 DEF LoadLookup, Types, LoaderOK, ThreadPC, coreVars, headVars
    <2>2. LoaderOK'
      BY <1>0, <1>1, <1>8, KeysAssumption, CoresAssumption
      DEF LoadLookup, Types, LoaderOK, coreVars, headVars
    <2>3. \A q \in Procs \ {Loader} : /\ oh'[q] = oh[q] /\ oc'[q] = oc[q]
                                      /\ xr'[q] = xr[q] /\ drop'[q] = drop[q]
      BY <1>1, <1>8 DEF LoadLookup, Types
    <2>4. \E to \in ThreadPC : Goto(Loader, to)
      BY <1>8 DEF LoadLookup, ThreadPC
    <2>5. pc[Loader] # "parked" /\ waiting' = waiting
      BY <1>8 DEF LoadLookup, headVars
    <2> QED
      BY <1>0, <2>1, <2>2, <2>3, <2>4, <2>5, QuietShape DEF ThreadPC
  <1>9. CASE HSH_Insert
    <2>1. Types'
      BY <1>0, <1>1, <1>9 DEF HSH_Insert, Types, LoaderOK, ThreadPC, coreVars, headVars, Free, Status
    <2>2. LoaderOK'
      BY <1>0, <1>1, <1>9, KeysAssumption, CoresAssumption
      DEF HSH_Insert, Types, LoaderOK, coreVars, headVars, Free, Status
    <2>3. \A q \in Procs \ {Loader} : /\ oh'[q] = oh[q] /\ oc'[q] = oc[q]
                                      /\ xr'[q] = xr[q] /\ drop'[q] = drop[q]
      BY <1>1, <1>9 DEF HSH_Insert, Types
    <2>4. \E to \in ThreadPC : Goto(Loader, to)
      BY <1>9 DEF HSH_Insert, ThreadPC
    <2>5. pc[Loader] # "parked" /\ waiting' = waiting
      BY <1>9 DEF HSH_Insert, headVars
    <2> QED
      BY <1>0, <2>1, <2>2, <2>3, <2>4, <2>5, QuietShape DEF ThreadPC
  <1>10. CASE EXP_Inject
    <2>1. Types'
      BY <1>0, <1>1, <1>10 DEF EXP_Inject, Types, LoaderOK, ThreadPC, coreVars, headVars
    <2>2. LoaderOK'
      BY <1>0, <1>1, <1>10, KeysAssumption, CoresAssumption
      DEF EXP_Inject, Types, LoaderOK, coreVars, headVars
    <2>3. \A q \in Procs \ {Loader} : /\ oh'[q] = oh[q] /\ oc'[q] = oc[q]
                                      /\ xr'[q] = xr[q] /\ drop'[q] = drop[q]
      BY <1>1, <1>10 DEF EXP_Inject, Types
    <2>4. \E to \in ThreadPC : Goto(Loader, to)
      BY <1>10 DEF EXP_Inject, ThreadPC
    <2>5. pc[Loader] # "parked" /\ waiting' = waiting
      BY <1>10 DEF EXP_Inject, headVars
    <2> QED
      BY <1>0, <2>1, <2>2, <2>3, <2>4, <2>5, QuietShape DEF ThreadPC
  <1> QED
    BY <1>2, <1>3, <1>4, <1>5, <1>6, <1>7, <1>8, <1>9, <1>10 DEF TimerStep, LurkerStep, LoaderStep

\* Giving up an objhead reference.
LEMMA HashDerefShape ==
  ASSUME Shape, NEW p \in Procs, HashDeref(p)
  PROVE  Shape'
  <1>1. /\ ohRef' = [ohRef EXCEPT ![drop[p]] = @ - 1]
        /\ drop' = [drop EXCEPT ![p] = None]
        /\ drop[p] # None
        /\ UNCHANGED <<waiting, hd, ocRef, status, silo, timer, pc, left, oh,
                       oc, xr>>
    BY DEF HashDeref, coreVars
  <1>2. Types'
    BY <1>1 DEF Shape, Types
  <1>3. Holding'
    <2>1. \A q \in Procs : drop'[q] = IF q = p THEN None ELSE drop[q]
      BY <1>1 DEF Shape, Types
    <2>2. ASSUME NEW s \in Sess PROVE SessOK(s)'
      <3>1. SessOK(s) /\ s \in Procs
        BY DEF Shape, Holding, Procs
      <3> QED
        BY <1>1, <2>1, <3>1 DEF SessOK
    <2>3. TimerOK' /\ LurkerOK' /\ LoaderOK'
      BY <1>1, <2>1, ThreadOwn
      DEF Shape, Holding, TimerOK, LurkerOK, LoaderOK
    <2> QED
      BY <2>2, <2>3 DEF Holding
  <1>4. WaitingListExact'
    BY <1>1 DEF Shape, WaitingListExact
  <1> QED
    BY <1>2, <1>3, <1>4 DEF Shape

\* Initially nobody holds anything and nobody is parked.
LEMMA ShapeInit == Init => Shape
  <1> SUFFICES ASSUME Init PROVE Shape
    OBVIOUS
  <1>1. Types
    BY BoundAssumption DEF Init, Types, Status, SessPC
  <1>2. Holding
    BY ThreadOwn DEF Init, Holding, SessOK, TimerOK, LurkerOK, LoaderOK, SessPC, Procs
  <1>3. WaitingListExact
    BY DEF Init, WaitingListExact, Procs
  <1> QED
    BY <1>1, <1>2, <1>3 DEF Shape

\* Every step of every thread keeps the shape.
LEMMA ShapeStep == Shape /\ [Next]_vars => Shape'
  <1>1. ASSUME Shape, UNCHANGED vars
        PROVE  Shape'
    <2>1. Types'
      BY <1>1 DEF vars, headVars, coreVars, procVars, Shape, Types
    <2>2. Holding'
      BY <1>1 DEF vars, headVars, coreVars, procVars, Shape, Holding, SessOK,
                  TimerOK, LurkerOK, LoaderOK
    <2>3. WaitingListExact'
      BY <1>1 DEF vars, headVars, coreVars, procVars, Shape, WaitingListExact
    <2> QED
      BY <2>1, <2>2, <2>3 DEF Shape
  <1>2. ASSUME Shape, Intact, NEW s \in Sess, SessStep(s)
        PROVE  Shape'
    <2>1. CASE \E esi \in BOOLEAN : LookupBusy(s, esi)
      <3>1. LookupBusy(s, TRUE) \/ LookupBusy(s, FALSE)
        BY <2>1
      <3> QED
        BY <1>2, <3>1, ParkShape, SessQuietShape
    <2>2. CASE \/ HashLookup(s) \/ LookupHit(s) \/ LookupMiss(s)
               \/ HitDeref(s) \/ NewObject(s) \/ EXP_NukeOne(s)
               \/ HSH_Ref(s) \/ EXP_Insert(s)
      BY <1>2, <2>2, SessQuietShape
    <2>3. CASE \/ DerefObjCore(s) \/ NukeDeref(s) \/ HSH_Drop(s)
               \/ HSH_Unbusy(s) \/ DeliverDeref(s)
      BY <1>2, <2>3, SessRushShape
    <2> QED
      BY <1>2, <2>1, <2>2, <2>3 DEF SessStep
  <1> QED
    BY <1>1, <1>2, ThreadShape, HashDerefShape DEF Next

\* Every field has its type (counters may be any integer here), each session
\* and thread holds exactly the references its place in the code says, and
\* the waiting lists are exact: for every value of the constants.
THEOREM ShapeInvariant == Spec => []Shape
  BY ShapeInit, ShapeStep, PTL DEF Spec

\* The waiting list and the parked sessions are the same thing, whatever the
\* worker queue refuses and whatever a silo loads (HSH_Lookup's
\* VTAILQ_INSERT_TAIL and hsh_rush's VTAILQ_REMOVE).
THEOREM WaitingListTheorem == Spec => []WaitingListExact
  <1>1. Shape => WaitingListExact
    BY DEF Shape
  <1> QED
    BY <1>1, ShapeInvariant, PTL

-----------------------------------------------------------------------------
(* Layer 2: objhead counters, when the worker queue refuses nobody. *)

\* There are finitely many sessions and threads.
LEMMA ProcsFinite == IsFiniteSet(Procs)
  <1>1. Threads = (({} \cup {Timer}) \cup {Lurker}) \cup {Loader}
    BY DEF Threads
  <1>2. IsFiniteSet(Threads)
    BY <1>1, FS_EmptySet, FS_AddElement
  <1> QED
    BY <1>2, SessAssumption, FS_Union DEF Procs

\* The domains Count counts over.
LEMMA Domains ==
  ASSUME Types
  PROVE  /\ DOMAIN hd = Cores /\ IsFiniteSet(DOMAIN hd)
         /\ DOMAIN oh = Procs /\ IsFiniteSet(DOMAIN oh)
         /\ DOMAIN oc = Procs /\ IsFiniteSet(DOMAIN oc)
         /\ DOMAIN xr = Procs /\ IsFiniteSet(DOMAIN xr)
         /\ DOMAIN drop = Procs /\ IsFiniteSet(DOMAIN drop)
         /\ \A v : /\ Count(hd, v) \in Nat /\ Count(oh, v) \in Nat
                   /\ Count(oc, v) \in Nat /\ Count(xr, v) \in Nat
                   /\ Count(drop, v) \in Nat
  BY ProcsFinite, CoresAssumption, CountType DEF Types

\* Freeing an objcore passes its objhead reference to the thread that frees.
LEMMA DropHead ==
  ASSUME Types, HeadRefExact, NEW c \in Cores, NEW p \in Procs,
         drop[p] = None, hd[c] # None, FreeCore(c, p) \/ DropCoreRef(c, p),
         ohRef' = ohRef, oh' = oh
  PROVE  HeadRefExact'
  <1>1. CASE hd' = hd /\ drop' = drop
    BY <1>1 DEF HeadRefExact
  <1>2. CASE FreeCore(c, p)
    <2>1. /\ hd' = [hd EXCEPT ![c] = None]
          /\ drop' = [drop EXCEPT ![p] = hd[c]]
      BY <1>2 DEF FreeCore
    <2> SUFFICES ASSUME NEW k \in Keys
                 PROVE  ohRef[k] = Count(hd', k) + Count(oh, k) + Count(drop', k)
      BY DEF HeadRefExact
    <2>2. Count(hd', k) = Count(hd, k) + (IF hd'[c] = k THEN 1 ELSE 0)
                                       - (IF hd[c] = k THEN 1 ELSE 0)
      <3>1. /\ DOMAIN hd' = DOMAIN hd /\ IsFiniteSet(DOMAIN hd)
            /\ c \in DOMAIN hd /\ \A d \in DOMAIN hd \ {c} : hd'[d] = hd[d]
        BY <2>1, Domains
      <3> QED
        BY <3>1, CountMove, SMT
    <2>3. Count(drop', k) = Count(drop, k) + (IF drop'[p] = k THEN 1 ELSE 0)
                                           - (IF drop[p] = k THEN 1 ELSE 0)
      <3>1. /\ DOMAIN drop' = DOMAIN drop /\ IsFiniteSet(DOMAIN drop)
            /\ p \in DOMAIN drop
            /\ \A q \in DOMAIN drop \ {p} : drop'[q] = drop[q]
        BY <2>1, Domains
      <3> QED
        BY <3>1, CountMove, SMT
    <2>4. hd'[c] # k /\ drop[p] # k /\ drop'[p] = hd[c]
      BY <2>1, KeysAssumption DEF Types
    <2>5. /\ Count(hd, k) \in Nat /\ Count(oh, k) \in Nat
          /\ Count(drop, k) \in Nat
      BY Domains
    <2>6. ohRef[k] = Count(hd, k) + Count(oh, k) + Count(drop, k)
      BY DEF HeadRefExact
    <2> QED
      BY <2>2, <2>3, <2>4, <2>5, <2>6
  <1> QED
    BY <1>1, <1>2 DEF DropCoreRef

\* The steps that take or give up an objhead reference of process p:
\* hash->lookup, the hash->deref of a hit, and any other hash->deref.
LEMMA HeadMoves ==
  ASSUME Types, Types', HeadRefExact, NEW p \in Procs, NEW k \in Keys,
         \A q \in Procs \ {p} : oh'[q] = oh[q] /\ drop'[q] = drop[q],
         \A l \in Keys \ {k} : ohRef'[l] = ohRef[l], hd' = hd,
         \/ /\ oh[p] = None /\ oh'[p] = k /\ drop'[p] = drop[p]
            /\ ohRef'[k] = ohRef[k] + 1
         \/ /\ oh[p] = k /\ oh'[p] = None /\ drop'[p] = drop[p]
            /\ ohRef'[k] = ohRef[k] - 1
         \/ /\ drop[p] = k /\ drop'[p] = None /\ oh'[p] = oh[p]
            /\ ohRef'[k] = ohRef[k] - 1
  PROVE  HeadRefExact'
  <1> SUFFICES ASSUME NEW j \in Keys
               PROVE  ohRef'[j] = Count(hd', j) + Count(oh', j) + Count(drop', j)
    BY DEF HeadRefExact
  <1>0. /\ None # j /\ None # k
        /\ ohRef[j] = Count(hd, j) + Count(oh, j) + Count(drop, j)
        /\ ohRef[j] \in Int
    BY KeysAssumption DEF HeadRefExact, Types
  <1>1. Count(oh', j) = Count(oh, j) + (IF oh'[p] = j THEN 1 ELSE 0)
                                     - (IF oh[p] = j THEN 1 ELSE 0)
    <2>1. /\ DOMAIN oh' = DOMAIN oh /\ IsFiniteSet(DOMAIN oh)
          /\ p \in DOMAIN oh
          /\ \A y \in DOMAIN oh \ {p} : oh'[y] = oh[y]
      BY Domains DEF Types
    <2> QED
      BY <2>1, CountMove, SMT
  <1>2. Count(drop', j) = Count(drop, j) + (IF drop'[p] = j THEN 1 ELSE 0)
                                     - (IF drop[p] = j THEN 1 ELSE 0)
    <2>1. /\ DOMAIN drop' = DOMAIN drop /\ IsFiniteSet(DOMAIN drop)
          /\ p \in DOMAIN drop
          /\ \A y \in DOMAIN drop \ {p} : drop'[y] = drop[y]
      BY Domains DEF Types
    <2> QED
      BY <2>1, CountMove, SMT
  <1>4. Count(hd, j) \in Nat /\ Count(oh, j) \in Nat /\ Count(drop, j) \in Nat
    BY Domains
  <1>5. CASE j = k
    BY <1>0, <1>1, <1>2, <1>4, <1>5
  <1>6. CASE j # k
    BY <1>0, <1>1, <1>2, <1>4, <1>6
  <1> QED
    BY <1>5, <1>6


\* An objcore hung on the objhead inherits the reference p brought.
LEMMA HeadInherit ==
  ASSUME Types, Types', HeadRefExact,
         NEW p \in Procs, NEW k \in Keys, NEW c \in Cores,
         ohRef' = ohRef, drop' = drop,
         \A q \in Procs \ {p} : oh'[q] = oh[q],
         \A d \in Cores \ {c} : hd'[d] = hd[d],
         oh[p] = k, oh'[p] = None, hd[c] = None, hd'[c] = k
  PROVE  HeadRefExact'
  <1> SUFFICES ASSUME NEW j \in Keys
               PROVE  ohRef'[j] = Count(hd', j) + Count(oh', j) + Count(drop', j)
    BY DEF HeadRefExact
  <1>0. /\ None # j /\ None # k
        /\ ohRef[j] = Count(hd, j) + Count(oh, j) + Count(drop, j)
        /\ ohRef[j] \in Int
    BY KeysAssumption DEF HeadRefExact, Types
  <1>1. Count(oh', j) = Count(oh, j) + (IF oh'[p] = j THEN 1 ELSE 0)
                                     - (IF oh[p] = j THEN 1 ELSE 0)
    <2>1. /\ DOMAIN oh' = DOMAIN oh /\ IsFiniteSet(DOMAIN oh)
          /\ p \in DOMAIN oh
          /\ \A y \in DOMAIN oh \ {p} : oh'[y] = oh[y]
      BY Domains DEF Types
    <2> QED
      BY <2>1, CountMove, SMT
  <1>2. Count(hd', j) = Count(hd, j) + (IF hd'[c] = j THEN 1 ELSE 0)
                                     - (IF hd[c] = j THEN 1 ELSE 0)
    <2>1. /\ DOMAIN hd' = DOMAIN hd /\ IsFiniteSet(DOMAIN hd)
          /\ c \in DOMAIN hd
          /\ \A y \in DOMAIN hd \ {c} : hd'[y] = hd[y]
      BY Domains DEF Types
    <2> QED
      BY <2>1, CountMove, SMT
  <1>4. Count(hd, j) \in Nat /\ Count(oh, j) \in Nat /\ Count(drop, j) \in Nat
    BY Domains
  <1>5. CASE j = k
    BY <1>0, <1>1, <1>2, <1>4, <1>5
  <1>6. CASE j # k
    BY <1>0, <1>1, <1>2, <1>4, <1>6
  <1> QED
    BY <1>5, <1>6


\* A step of a session keeps the objhead counters exact.
LEMMA SessHead ==
  ASSUME Shape, Shape', HeadRefExact, Intact, ~ QueueMayRefuse,
         NEW s \in Sess, SessStep(s)
  PROVE  HeadRefExact'
  <1>0. Types /\ Types' /\ SessOK(s) /\ s \in Procs
    BY DEF Shape, Holding, Procs
  <1> USE DEF Goto, InLookup, Settled
  <1>1. CASE HashLookup(s)
    <2>1. PICK k \in Keys :
            /\ oh' = [oh EXCEPT ![s] = k]
            /\ ohRef' = [ohRef EXCEPT ![k] = @ + 1]
            /\ pc[s] = "idle" /\ hd' = hd /\ drop' = drop
      BY <1>1 DEF HashLookup, coreVars
    <2> QED
      BY <1>0, <2>1, HeadMoves DEF Types, SessOK
  <1>2. CASE LookupMiss(s)
    <2>1. PICK c \in Cores :
            /\ hd[c] = None /\ hd' = [hd EXCEPT ![c] = oh[s]]
            /\ oh' = [oh EXCEPT ![s] = None] /\ oh[s] # None
            /\ ohRef' = ohRef /\ drop' = drop
      BY <1>2 DEF LookupMiss, Free, headVars
    <2> QED
      BY <1>0, <2>1, HeadInherit DEF Types
  <1>3. CASE HitDeref(s)
    <2>1. oh[s] \in Keys
      BY <1>0, <1>3 DEF HitDeref, SessOK, Types
    <2>2. /\ oh' = [oh EXCEPT ![s] = None]
          /\ ohRef' = [ohRef EXCEPT ![oh[s]] = @ - 1]
          /\ hd' = hd /\ drop' = drop
      BY <1>3 DEF HitDeref, coreVars
    <2> QED
      BY <1>0, <2>1, <2>2, HeadMoves DEF Types
  <1>4. CASE DerefObjCore(s)
    <2>1. oc[s] \in Cores /\ hd[oc[s]] \in Keys /\ drop[s] = None
      BY <1>0, <1>4, CoresAssumption DEF DerefObjCore, Types, SessOK, Intact
    <2>2. oh' = oh
      <3>1. hsh_rush(hd[oc[s]], s, "idle") /\ pc[s] # "parked"
        BY <1>4 DEF DerefObjCore
      <3> QED
        BY <1>0, <2>1, <3>1, Rush DEF SessPC
    <2>3. /\ FreeCore(oc[s], s) \/ DropCoreRef(oc[s], s)
          /\ ohRef' = ohRef
      BY <1>4 DEF DerefObjCore
    <2> QED
      BY <1>0, <2>1, <2>2, <2>3, DropHead, KeysAssumption
  <1>5. CASE NukeDeref(s)
    <2>1. xr[s] \in Cores /\ hd[xr[s]] \in Keys /\ drop[s] = None
      BY <1>0, <1>5, CoresAssumption DEF NukeDeref, Types, SessOK, Intact
    <2>2. oh' = oh
      <3>1. hsh_rush(hd[xr[s]], s, pc[s]) /\ pc[s] # "parked"
        BY <1>5 DEF NukeDeref
      <3> QED
        BY <1>0, <2>1, <3>1, Rush DEF SessPC, Types
    <2>3. /\ FreeCore(xr[s], s) \/ DropCoreRef(xr[s], s)
          /\ ohRef' = ohRef
      BY <1>5 DEF NukeDeref
    <2> QED
      BY <1>0, <2>1, <2>2, <2>3, DropHead, KeysAssumption
  <1>6. CASE DeliverDeref(s)
    <2>1. oc[s] \in Cores /\ hd[oc[s]] \in Keys /\ drop[s] = None
      BY <1>0, <1>6, CoresAssumption DEF DeliverDeref, Types, SessOK, Intact
    <2>2. oh' = oh
      <3>1. hsh_rush(hd[oc[s]], s, "idle") /\ pc[s] # "parked"
        BY <1>6 DEF DeliverDeref
      <3> QED
        BY <1>0, <2>1, <3>1, Rush DEF SessPC
    <2>3. /\ FreeCore(oc[s], s) \/ DropCoreRef(oc[s], s)
          /\ ohRef' = ohRef
      BY <1>6 DEF DeliverDeref
    <2> QED
      BY <1>0, <2>1, <2>2, <2>3, DropHead, KeysAssumption
  <1>7. CASE HSH_Drop(s) \/ HSH_Unbusy(s)
    <2>1. oc[s] \in Cores /\ hd[oc[s]] \in Keys
      BY <1>0, <1>7, CoresAssumption DEF HSH_Drop, HSH_Unbusy, Types, SessOK, Intact
    <2>2. oh' = oh
      <3>1. PICK to \in {"dropped", "deliver"} : hsh_rush(hd[oc[s]], s, to)
        BY <1>7 DEF HSH_Drop, HSH_Unbusy
      <3>2. pc[s] # "parked" /\ to \in SessPC \cup ThreadPC /\ to # "parked"
        BY <1>7 DEF HSH_Drop, HSH_Unbusy, SessPC
      <3> QED
        BY <1>0, <2>1, <3>1, <3>2, Rush
    <2>3. UNCHANGED <<ohRef, hd, drop>>
      BY <1>7 DEF HSH_Drop, HSH_Unbusy
    <2> QED
      BY <2>2, <2>3 DEF HeadRefExact
  <1>8. CASE \/ LookupHit(s) \/ NewObject(s) \/ EXP_NukeOne(s)
             \/ HSH_Ref(s) \/ EXP_Insert(s)
             \/ \E esi \in BOOLEAN : LookupBusy(s, esi)
    <2>1. UNCHANGED <<ohRef, hd, oh, drop>>
      BY <1>8 DEF LookupHit, NewObject, EXP_NukeOne, HSH_Ref, EXP_Insert,
                  LookupBusy, headVars
    <2> QED
      BY <2>1 DEF HeadRefExact
  <1> QED
    BY <1>1, <1>2, <1>3, <1>4, <1>5, <1>6, <1>7, <1>8 DEF SessStep

\* A step of a thread keeps the objhead counters exact.
LEMMA ThreadHead ==
  ASSUME Shape, Shape', HeadRefExact, Intact, ~ QueueMayRefuse,
         TimerStep \/ LurkerStep \/ LoaderStep
  PROVE  HeadRefExact'
  <1>0. /\ Types /\ Types' /\ TimerOK /\ LurkerOK /\ LoaderOK
        /\ Timer \in Procs /\ Lurker \in Procs /\ Loader \in Procs
    BY ThreadOwn DEF Shape, Holding
  <1> USE DEF Goto, Settled
  <1>1. CASE TimerDeref
    <2>1. xr[Timer] \in Cores /\ hd[xr[Timer]] \in Keys /\ drop[Timer] = None
      BY <1>0, <1>1, CoresAssumption DEF TimerDeref, Types, TimerOK, Intact
    <2>2. oh' = oh
      <3>1. hsh_rush(hd[xr[Timer]], Timer, "idle") /\ pc[Timer] # "parked"
        BY <1>1 DEF TimerDeref
      <3> QED
        BY <1>0, <2>1, <3>1, Rush DEF SessPC
    <2>3. /\ FreeCore(xr[Timer], Timer) \/ DropCoreRef(xr[Timer], Timer)
          /\ ohRef' = ohRef
      BY <1>1 DEF TimerDeref
    <2> QED
      BY <1>0, <2>1, <2>2, <2>3, DropHead, KeysAssumption
  <1>2. CASE TimerDerefObjCore
    <2>1. xr[Timer] \in Cores /\ hd[xr[Timer]] \in Keys /\ drop[Timer] = None
      BY <1>0, <1>2, CoresAssumption DEF TimerDerefObjCore, Types, TimerOK, Intact
    <2>2. oh' = oh
      <3>1. hsh_rush(hd[xr[Timer]], Timer, "idle") \/ oh' = oh
        BY <1>2 DEF TimerDerefObjCore
      <3>2. pc[Timer] # "parked"
        BY <1>2 DEF TimerDerefObjCore
      <3> QED
        BY <1>0, <2>1, <3>1, <3>2, Rush DEF SessPC
    <2>3. /\ FreeCore(xr[Timer], Timer) \/ DropCoreRef(xr[Timer], Timer)
          /\ ohRef' = ohRef
      BY <1>2 DEF TimerDerefObjCore
    <2> QED
      BY <1>0, <2>1, <2>2, <2>3, DropHead, KeysAssumption
  <1>3. CASE LurkerDeref
    <2>1. oc[Lurker] \in Cores /\ hd[oc[Lurker]] \in Keys /\ drop[Lurker] = None
      BY <1>0, <1>3, CoresAssumption DEF LurkerDeref, Types, LurkerOK, Intact
    <2>2. oh' = oh
      <3>1. hsh_rush(hd[oc[Lurker]], Lurker, "idle") /\ pc[Lurker] # "parked"
        BY <1>3 DEF LurkerDeref
      <3> QED
        BY <1>0, <2>1, <3>1, Rush DEF SessPC
    <2>3. /\ FreeCore(oc[Lurker], Lurker) \/ DropCoreRef(oc[Lurker], Lurker)
          /\ ohRef' = ohRef
      BY <1>3 DEF LurkerDeref
    <2> QED
      BY <1>0, <2>1, <2>2, <2>3, DropHead, KeysAssumption
  <1>4. CASE LoadLookup
    <2>1. PICK k \in Keys :
            /\ oh' = [oh EXCEPT ![Loader] = k]
            /\ ohRef' = [ohRef EXCEPT ![k] = @ + 1]
            /\ pc[Loader] = "idle" /\ hd' = hd /\ drop' = drop
      BY <1>4 DEF LoadLookup, coreVars
    <2> QED
      BY <1>0, <2>1, HeadMoves DEF Types, LoaderOK
  <1>5. CASE HSH_Insert
    <2>1. PICK c \in Cores :
            /\ hd[c] = None /\ hd' = [hd EXCEPT ![c] = oh[Loader]]
            /\ oh' = [oh EXCEPT ![Loader] = None]
            /\ ohRef' = ohRef /\ drop' = drop /\ pc[Loader] = "insert"
      BY <1>5 DEF HSH_Insert, Free, headVars
    <2> QED
      BY <1>0, <2>1, HeadInherit DEF Types, LoaderOK
  <1>6. CASE TimerPop \/ TimerFlag \/ HSH_FindBan \/ EXP_Inject
    <2>1. UNCHANGED <<ohRef, hd, oh, drop>>
      BY <1>6 DEF TimerPop, TimerFlag, HSH_FindBan, EXP_Inject, headVars, coreVars
    <2> QED
      BY <2>1 DEF HeadRefExact
  <1> QED
    BY <1>1, <1>2, <1>3, <1>4, <1>5, <1>6 DEF TimerStep, LurkerStep, LoaderStep

\* Every step keeps the objhead counters exact.
LEMMA HeadStep ==
  ASSUME Shape, Shape', HeadRefExact, ~ QueueMayRefuse, [Next]_vars
  PROVE  HeadRefExact'
  <1>1. CASE UNCHANGED vars
    BY <1>1 DEF HeadRefExact, vars, headVars, coreVars, procVars
  <1>2. ASSUME NEW p \in Procs, HashDeref(p)
        PROVE  HeadRefExact'
    <2>1. drop[p] \in Keys
      BY <1>2 DEF HashDeref, Shape, Types
    <2>2. /\ drop' = [drop EXCEPT ![p] = None]
          /\ ohRef' = [ohRef EXCEPT ![drop[p]] = @ - 1]
          /\ hd' = hd /\ oh' = oh
      BY <1>2 DEF HashDeref, coreVars
    <2> QED
      BY <2>1, <2>2, HeadMoves DEF Shape, Types
  <1> QED
    BY <1>1, <1>2, SessHead, ThreadHead DEF Next

\* When the worker queue refuses nobody, an objhead's refcnt is exactly the
\* objcores hung from it, the sessions that carry it and the hash->derefs
\* still due, for any number of sessions, keys and objcores, persistent
\* storage included (cache_hash.c: "each object hung from the objhead holds
\* a ref as well").
THEOREM HeadRefTheorem ==
  ASSUME QueueMayRefuse = FALSE
  PROVE  Spec => []HeadRefExact
  <1>1. Init => HeadRefExact
    <2> SUFFICES ASSUME Init, NEW k \in Keys
                 PROVE  ohRef[k] = Count(hd, k) + Count(oh, k) + Count(drop, k)
      BY DEF HeadRefExact
    <2>1. Types
      BY ShapeInit DEF Shape
    <2>2. Count(hd, k) = 0 /\ Count(oh, k) = 0 /\ Count(drop, k) = 0
      BY <2>1, Domains, CountZero, KeysAssumption DEF Init
    <2> QED
      BY <2>2 DEF Init
  <1>2. Shape /\ Shape' /\ HeadRefExact /\ [Next]_vars => HeadRefExact'
    BY HeadStep
  <1> QED
    BY <1>1, <1>2, ShapeInvariant, PTL DEF Spec

-----------------------------------------------------------------------------
(* Layer 3: objcore counters, when there is no silo. *)

\* Free memory is exactly the memory nobody counts.
FreeHasNoRefs ==
  \A c \in Cores : /\ hd[c] = None <=> ocRef[c] = 0
                   /\ hd[c] = None <=> status[c] = "free"

\* Nothing comes from a silo.
NoVampires ==
  /\ \A c \in Cores : status[c] # "vampire"
  /\ pc[Timer] # "killcore"
  /\ pc[Loader] = "idle"

\* UsersSeeTheRightObject, for one session.
SeesRight(s) ==
  /\ pc[s] \in {"hitref", "deliver"} => status[oc[s]] \in {"ready", "dead"}
  /\ pc[s] = "miss" => status[oc[s]] = "busy"
  /\ pc[s] \in {"fetch", "insert", "unbusy"} => status[oc[s]] = "fetch"

\* The session that fetches an object: while there is no object yet it has
\* the only reference, and until EXP_Insert the object is on no list.
Owning == {"miss", "fetch", "insert", "unbusy"}

OwnsIt(s) ==
  /\ pc[s] = "miss" => ocRef[oc[s]] = 1
  /\ pc[s] \in {"miss", "fetch", "insert"} => oc[s] \notin timer

OneOwner ==
  \A s, t \in Sess : pc[s] \in Owning /\ oc[t] = oc[s] => t = s

CoreInv ==
  /\ CoreRefExact
  /\ FreeHasNoRefs
  /\ NoVampires
  /\ \A s \in Sess : SeesRight(s)
  /\ \A s \in Sess : OwnsIt(s)
  /\ OneOwner
  /\ OneFetchPerKey

\* Exact counters protect: what is free is held by nobody.
LEMMA ExactIntact ==
  Types /\ CoreRefExact /\ FreeHasNoRefs
    => Intact /\ \A c \in Cores : ocRef[c] \in Nat
  <1> SUFFICES ASSUME Types, CoreRefExact, FreeHasNoRefs
               PROVE  Intact /\ \A c \in Cores : ocRef[c] \in Nat
    OBVIOUS
  <1>1. \A c \in Cores : ocRef[c] \in Nat
    BY Domains DEF CoreRefExact
  <1>2. ASSUME NEW c \in Cores, hd[c] = None
        PROVE  c \notin timer /\ \A q \in Procs : oc[q] # c /\ xr[q] # c
    <2>1. ocRef[c] = 0
      BY <1>2 DEF FreeHasNoRefs
    <2>2. Count(oc, c) = 0 /\ Count(xr, c) = 0 /\ c \notin timer
      BY <2>1, Domains DEF CoreRefExact
    <2> QED
      BY <2>2, Domains, CountZero
  <1> QED
    BY <1>1, <1>2 DEF Intact, Types

\* A step in which p alone moves its references to objcore c, and c's counter
\* and place on the binheap follow.
LEMMA CoreMoves ==
  ASSUME Types, Types', CoreRefExact, NEW p \in Procs, NEW c \in Cores,
         \A q \in Procs \ {p} : oc'[q] = oc[q] /\ xr'[q] = xr[q],
         \A d \in Cores \ {c} : /\ ocRef'[d] = ocRef[d]
                                /\ d \in timer' <=> d \in timer
                                /\ oc'[p] = d <=> oc[p] = d
                                /\ xr'[p] = d <=> xr[p] = d,
         ocRef'[c] = ocRef[c]
                     + (IF oc'[p] = c THEN 1 ELSE 0) - (IF oc[p] = c THEN 1 ELSE 0)
                     + (IF xr'[p] = c THEN 1 ELSE 0) - (IF xr[p] = c THEN 1 ELSE 0)
                     + (IF c \in timer' THEN 1 ELSE 0) - (IF c \in timer THEN 1 ELSE 0)
  PROVE  CoreRefExact'
  <1> SUFFICES ASSUME NEW d \in Cores
               PROVE  ocRef'[d] = Count(oc', d) + Count(xr', d)
                                  + (IF d \in timer' THEN 1 ELSE 0)
    BY DEF CoreRefExact
  <1>1. Count(oc', d) = Count(oc, d) + (IF oc'[p] = d THEN 1 ELSE 0)
                                     - (IF oc[p] = d THEN 1 ELSE 0)
    <2>1. /\ DOMAIN oc' = DOMAIN oc /\ IsFiniteSet(DOMAIN oc)
          /\ p \in DOMAIN oc /\ \A y \in DOMAIN oc \ {p} : oc'[y] = oc[y]
      BY Domains DEF Types
    <2> QED
      BY <2>1, CountMove, SMT
  <1>2. Count(xr', d) = Count(xr, d) + (IF xr'[p] = d THEN 1 ELSE 0)
                                     - (IF xr[p] = d THEN 1 ELSE 0)
    <2>1. /\ DOMAIN xr' = DOMAIN xr /\ IsFiniteSet(DOMAIN xr)
          /\ p \in DOMAIN xr /\ \A y \in DOMAIN xr \ {p} : xr'[y] = xr[y]
      BY Domains DEF Types
    <2> QED
      BY <2>1, CountMove, SMT
  <1>3. /\ Count(oc, d) \in Nat /\ Count(xr, d) \in Nat
        /\ ocRef[d] = Count(oc, d) + Count(xr, d) + (IF d \in timer THEN 1 ELSE 0)
    BY Domains DEF CoreRefExact
  <1>4. CASE d = c
    BY <1>1, <1>2, <1>3, <1>4
  <1>5. CASE d # c
    BY <1>1, <1>2, <1>3, <1>5
  <1> QED
    BY <1>4, <1>5

\* What a step of p must look like to leave the other sessions' view of the
\* objects they hold alone.
LEMMA CoreKept ==
  ASSUME Shape, Shape', CoreInv, CoreRefExact', FreeHasNoRefs', NoVampires',
         NEW p \in Procs, NEW to, Moves(p, to),
         \A q \in Procs \ {p} : oc'[q] = oc[q],
         \A c \in Cores : \/ status'[c] = status[c]
                          \/ hd'[c] = None
                          \/ \A t \in Sess \ {p} : oc[t] # c,
         \A c \in Cores : \/ ocRef'[c] = ocRef[c]
                          \/ hd'[c] = None
                          \/ status[c] # "busy"
                          \/ ocRef[c] # 1,
         \A c \in timer' \ timer : \A t \in Sess \ {p} : oc[t] # c,
         p \in Sess => SeesRight(p)' /\ OwnsIt(p)',
         p \in Sess /\ oc'[p] # None =>
           \A t \in Sess \ {p} : oc'[t] = oc'[p] => /\ pc'[p] \notin Owning
                                                    /\ pc'[t] \notin Owning,
         OneFetchPerKey'
  PROVE  CoreInv'
  <1>0. Types /\ Types'
    BY DEF Shape
  <1>intact. Intact'
    BY <1>0, ExactIntact, PTL
  <1>1. ASSUME NEW t \in Sess \ {p}
        PROVE  /\ t \in Procs \ {p} /\ oc'[t] = oc[t]
               /\ oc[t] # None => oc[t] \in Cores /\ hd'[oc[t]] # None
               /\ oc[t] # None => status'[oc[t]] = status[oc[t]]
               /\ pc'[t] = pc[t] \/ pc'[t] \in {"queued", "idle"}
    <2>1. t \in Procs \ {p} /\ oc'[t] = oc[t]
      BY DEF Procs
    <2>2. oc[t] # None => oc[t] \in Cores /\ hd'[oc[t]] # None
      BY <1>0, <1>intact, <2>1 DEF Types, Intact
    <2>3. pc'[t] = pc[t] \/ pc'[t] \in {"queued", "idle"}
      BY <2>1 DEF Moves
    <2> QED
      BY <2>1, <2>2, <2>3
  <1>2. ASSUME NEW t \in Sess
        PROVE  SeesRight(t)' /\ OwnsIt(t)'
    <2>1. CASE t = p
      BY <2>1
    <2>2. CASE t # p
      <3>1. t \in Sess \ {p} /\ SeesRight(t) /\ OwnsIt(t) /\ SessOK(t)
        BY <2>2 DEF CoreInv, Shape, Holding
      <3>2. SeesRight(t)'
        BY <1>1, <3>1 DEF SeesRight, SessOK
      <3>3. OwnsIt(t)'
        BY <1>1, <3>1 DEF OwnsIt, SeesRight, SessOK
      <3> QED
        BY <3>2, <3>3
    <2> QED
      BY <2>1, <2>2
  <1>3. ASSUME NEW r \in Sess, NEW t \in Sess,
               pc'[r] \in Owning, oc'[t] = oc'[r]
        PROVE  t = r
    <2>1. oc'[r] # None
      BY <1>3 DEF Shape, Holding, SessOK, Owning
    <2>2. CASE r = p \/ t = p
      BY <1>3, <2>1, <2>2
    <2>3. CASE r # p /\ t # p
      <3>1. oc'[r] = oc[r] /\ oc'[t] = oc[t] /\ pc[r] \in Owning
        BY <1>1, <1>3, <2>3 DEF Owning
      <3> QED
        BY <1>3, <3>1 DEF CoreInv, OneOwner
    <2> QED
      BY <2>2, <2>3
  <1> QED
    BY <1>2, <1>3 DEF CoreInv, OneOwner

\* No objcore becomes busy: fetches stay coalesced.
LEMMA BusyKept ==
  ASSUME OneFetchPerKey,
         \A c \in Cores : status'[c] \in {"busy", "fetch"} =>
            status[c] \in {"busy", "fetch"} /\ hd'[c] = hd[c]
  PROVE  OneFetchPerKey'
  BY DEF OneFetchPerKey, Busy

\* Without a silo there is nothing to fix up.
LEMMA NothingToFix ==
  ASSUME Types, NoVampires, NEW k, NEW fix, fix \subseteq Vampires(k),
         SMP_Fixup(fix)
  PROVE  status' = status
  BY DEF Types, NoVampires, Vampires, objcs, SMP_Fixup

\* A step in which p alone changes place wakes nobody.
LEMMA QuietMoves ==
  ASSUME Types, Types', NEW p \in Procs, NEW to, Goto(p, to),
         \A q \in Procs \ {p} : oh'[q] = oh[q]
  PROVE  Moves(p, to)
  BY DEF Types, Goto, Moves

\* Giving up a reference to an objcore, freeing it when it was the last one.
LEMMA DropCore ==
  ASSUME Types, Types', CoreRefExact, FreeHasNoRefs, OneFetchPerKey,
         NEW c \in Cores, NEW p \in Procs, hd[c] # None, timer' = timer,
         (ocRef[c] = 1 /\ FreeCore(c, p)) \/ DropCoreRef(c, p),
         \A q \in Procs \ {p} : oc'[q] = oc[q] /\ xr'[q] = xr[q],
         \/ oc[p] = c /\ oc'[p] = None /\ xr'[p] = xr[p]
         \/ xr[p] = c /\ xr'[p] = None /\ oc'[p] = oc[p]
  PROVE  /\ CoreRefExact' /\ FreeHasNoRefs' /\ OneFetchPerKey'
         /\ \A d \in Cores : status'[d] = status[d] \/ hd'[d] = None
         /\ \A d \in Cores : \/ ocRef'[d] = ocRef[d] \/ hd'[d] = None
                             \/ ocRef[d] # 1
         /\ \A d \in Cores : status'[d] # "vampire" \/ status[d] = "vampire"
  <1>1. CASE ocRef[c] = 1 /\ FreeCore(c, p)
    <2>1. /\ hd' = [hd EXCEPT ![c] = None]
          /\ ocRef' = [ocRef EXCEPT ![c] = 0]
          /\ status' = [status EXCEPT ![c] = "free"]
      BY <1>1 DEF FreeCore
    <2>2. CoreRefExact'
      <3>1. \A d \in Cores \ {c} :
              /\ ocRef'[d] = ocRef[d]
              /\ d \in timer' <=> d \in timer
              /\ oc'[p] = d <=> oc[p] = d
              /\ xr'[p] = d <=> xr[p] = d
        BY <2>1, CoresAssumption DEF Types
      <3>2. ocRef'[c] = ocRef[c] - 1 /\ ocRef[c] \in Int /\ c # None
        BY <1>1, <2>1, CoresAssumption DEF Types
      <3>3. ocRef'[c] = ocRef[c]
              + (IF oc'[p] = c THEN 1 ELSE 0) - (IF oc[p] = c THEN 1 ELSE 0)
              + (IF xr'[p] = c THEN 1 ELSE 0) - (IF xr[p] = c THEN 1 ELSE 0)
              + (IF c \in timer' THEN 1 ELSE 0) - (IF c \in timer THEN 1 ELSE 0)
        BY <3>2
      <3> QED
        BY <3>1, <3>3, CoreMoves
    <2>3. FreeHasNoRefs'
      BY <2>1 DEF FreeHasNoRefs, Types
    <2>4. OneFetchPerKey'
      BY <2>1, BusyKept DEF Types
    <2> QED
      BY <2>1, <2>2, <2>3, <2>4 DEF Types
  <1>2. CASE ocRef[c] # 1 /\ DropCoreRef(c, p)
    <2>1. ocRef' = [ocRef EXCEPT ![c] = @ - 1] /\ UNCHANGED <<hd, status>>
      BY <1>2 DEF DropCoreRef
    <2>2. CoreRefExact'
      <3>1. \A d \in Cores \ {c} :
              /\ ocRef'[d] = ocRef[d]
              /\ d \in timer' <=> d \in timer
              /\ oc'[p] = d <=> oc[p] = d
              /\ xr'[p] = d <=> xr[p] = d
        BY <2>1, CoresAssumption DEF Types
      <3>2. ocRef'[c] = ocRef[c] - 1 /\ ocRef[c] \in Int /\ c # None
        BY <1>2, <2>1, CoresAssumption DEF Types
      <3>3. ocRef'[c] = ocRef[c]
              + (IF oc'[p] = c THEN 1 ELSE 0) - (IF oc[p] = c THEN 1 ELSE 0)
              + (IF xr'[p] = c THEN 1 ELSE 0) - (IF xr[p] = c THEN 1 ELSE 0)
              + (IF c \in timer' THEN 1 ELSE 0) - (IF c \in timer THEN 1 ELSE 0)
        BY <3>2
      <3> QED
        BY <3>1, <3>3, CoreMoves
    <2>3. FreeHasNoRefs'
      BY <1>2, <2>1 DEF FreeHasNoRefs, Types
    <2>4. OneFetchPerKey'
      BY <2>1, BusyKept
    <2> QED
      BY <1>2, <2>1, <2>2, <2>3, <2>4 DEF Types
  <1> QED
    BY <1>1, <1>2 DEF DropCoreRef

\* The steps of a session that let go of an objcore.
LEMMA SessDropCore ==
  ASSUME Shape, Shape', CoreInv, NEW s \in Sess,
         DerefObjCore(s) \/ NukeDeref(s) \/ DeliverDeref(s)
  PROVE  CoreInv'
  <1>0. /\ Types /\ Types' /\ SessOK(s) /\ s \in Procs /\ s # Timer /\ s # Loader
        /\ SeesRight(s) /\ OwnsIt(s) /\ Intact
        /\ CoreRefExact /\ FreeHasNoRefs /\ NoVampires /\ OneFetchPerKey
    BY SessOwn, ExactIntact DEF Shape, Holding, CoreInv, Threads
  <1>1. CASE DerefObjCore(s)
    <2>1. oc[s] \in Cores /\ hd[oc[s]] \in Keys /\ pc[s] # "parked"
      BY <1>0, <1>1, CoresAssumption DEF DerefObjCore, Types, SessOK, Intact
    <2>2. Moves(s, "idle")
      BY <1>0, <1>1, <2>1, Rush DEF DerefObjCore, SessPC, Types
    <2>3. (ocRef[oc[s]] = 1 /\ FreeCore(oc[s], s)) \/ DropCoreRef(oc[s], s)
      BY <1>0, <1>1 DEF DerefObjCore, OwnsIt
    <2>4. /\ timer' = timer
          /\ \A q \in Procs \ {s} : oc'[q] = oc[q] /\ xr'[q] = xr[q]
          /\ oc'[s] = None /\ xr'[s] = xr[s]
      BY <1>0, <1>1 DEF DerefObjCore, Types
    <2>5. /\ CoreRefExact' /\ FreeHasNoRefs' /\ OneFetchPerKey'
          /\ \A d \in Cores : status'[d] = status[d] \/ hd'[d] = None
          /\ \A d \in Cores : \/ ocRef'[d] = ocRef[d] \/ hd'[d] = None
                              \/ ocRef[d] # 1
          /\ \A d \in Cores : status'[d] # "vampire" \/ status[d] = "vampire"
      BY <1>0, <2>1, <2>3, <2>4, DropCore, KeysAssumption
    <2>6. NoVampires'
      BY <1>0, <2>2, <2>5, ThreadOwn, SessAssumption DEF NoVampires, Moves, Threads
    <2>7. SeesRight(s)' /\ OwnsIt(s)'
      BY <2>2 DEF Moves, SeesRight, OwnsIt
    <2> QED
      BY <1>0, <2>2, <2>4, <2>5, <2>6, <2>7, CoreKept
  <1>2. CASE DeliverDeref(s)
    <2>1. oc[s] \in Cores /\ hd[oc[s]] \in Keys /\ pc[s] # "parked"
      BY <1>0, <1>2, CoresAssumption DEF DeliverDeref, Types, SessOK, Intact
    <2>2. Moves(s, "idle")
      BY <1>0, <1>2, <2>1, Rush DEF DeliverDeref, SessPC, Types
    <2>3. (ocRef[oc[s]] = 1 /\ FreeCore(oc[s], s)) \/ DropCoreRef(oc[s], s)
      BY <1>0, <1>2 DEF DeliverDeref, OwnsIt
    <2>4. /\ timer' = timer
          /\ \A q \in Procs \ {s} : oc'[q] = oc[q] /\ xr'[q] = xr[q]
          /\ oc'[s] = None /\ xr'[s] = xr[s]
      BY <1>0, <1>2 DEF DeliverDeref, Types
    <2>5. /\ CoreRefExact' /\ FreeHasNoRefs' /\ OneFetchPerKey'
          /\ \A d \in Cores : status'[d] = status[d] \/ hd'[d] = None
          /\ \A d \in Cores : \/ ocRef'[d] = ocRef[d] \/ hd'[d] = None
                              \/ ocRef[d] # 1
          /\ \A d \in Cores : status'[d] # "vampire" \/ status[d] = "vampire"
      BY <1>0, <2>1, <2>3, <2>4, DropCore, KeysAssumption
    <2>6. NoVampires'
      BY <1>0, <2>2, <2>5, ThreadOwn, SessAssumption DEF NoVampires, Moves, Threads
    <2>7. SeesRight(s)' /\ OwnsIt(s)'
      BY <2>2 DEF Moves, SeesRight, OwnsIt
    <2> QED
      BY <1>0, <2>2, <2>4, <2>5, <2>6, <2>7, CoreKept
  <1>3. CASE NukeDeref(s)
    <2>1. xr[s] \in Cores /\ hd[xr[s]] \in Keys /\ pc[s] # "parked"
      BY <1>0, <1>3, CoresAssumption DEF NukeDeref, Types, SessOK, Intact
    <2>2. Moves(s, pc[s])
      BY <1>0, <1>3, <2>1, Rush DEF NukeDeref, SessPC, Types
    <2>3. (ocRef[xr[s]] = 1 /\ FreeCore(xr[s], s)) \/ DropCoreRef(xr[s], s)
      BY <1>0, <1>3 DEF NukeDeref, OwnsIt
    <2>4. /\ timer' = timer
          /\ \A q \in Procs \ {s} : oc'[q] = oc[q] /\ xr'[q] = xr[q]
          /\ xr'[s] = None /\ oc'[s] = oc[s]
      BY <1>0, <1>3 DEF NukeDeref, Types
    <2>5. /\ CoreRefExact' /\ FreeHasNoRefs' /\ OneFetchPerKey'
          /\ \A d \in Cores : status'[d] = status[d] \/ hd'[d] = None
          /\ \A d \in Cores : \/ ocRef'[d] = ocRef[d] \/ hd'[d] = None
                              \/ ocRef[d] # 1
          /\ \A d \in Cores : status'[d] # "vampire" \/ status[d] = "vampire"
      BY <1>0, <2>1, <2>3, <2>4, DropCore, KeysAssumption
    <2>6. NoVampires'
      BY <1>0, <2>2, <2>5, ThreadOwn, SessAssumption DEF NoVampires, Moves, Threads
    <2>7. Intact'
      BY <1>0, <2>5, ExactIntact, PTL
    <2>8. oc[s] \in Cores /\ hd'[oc[s]] # None
      BY <1>0, <1>3, <2>4, <2>7 DEF NukeDeref, Types, SessOK, Intact
    <2>9. SeesRight(s)' /\ OwnsIt(s)'
      BY <1>0, <2>2, <2>4, <2>5, <2>8 DEF Moves, SeesRight, OwnsIt
    <2>10. \A t \in Sess \ {s} : oc'[t] # oc'[s]
      BY <1>0, <1>3, <2>4 DEF NukeDeref, CoreInv, OneOwner, Owning, Procs
    <2> QED
      BY <1>0, <2>2, <2>4, <2>5, <2>6, <2>9, <2>10, CoreKept
  <1> QED
    BY <1>1, <1>2, <1>3

\* The steps of a session that leave every objcore alone.
LEMMA SessIdleCore ==
  ASSUME Shape, Shape', CoreInv, NEW s \in Sess,
         \/ HashLookup(s) \/ HitDeref(s)
         \/ \E esi \in BOOLEAN : LookupBusy(s, esi)
  PROVE  CoreInv'
  <1>0. /\ Types /\ Types' /\ SessOK(s) /\ s \in Procs /\ s # Timer /\ s # Loader
        /\ SeesRight(s) /\ OwnsIt(s) /\ Intact
        /\ CoreRefExact /\ FreeHasNoRefs /\ NoVampires /\ OneFetchPerKey
    BY SessOwn, ExactIntact DEF Shape, Holding, CoreInv, Threads
  <1>threads. ASSUME NEW to, Moves(s, to)
        PROVE  pc'[Timer] # "killcore" /\ pc'[Loader] = "idle"
    BY <1>0, <1>threads, ThreadOwn, SessAssumption DEF NoVampires, Moves, Threads
  <1>1. /\ UNCHANGED <<hd, ocRef, timer, oc, xr>>
        /\ status' = status
    <2>1. CASE HashLookup(s) \/ HitDeref(s)
      BY <2>1 DEF HashLookup, HitDeref, coreVars
    <2>2. CASE \E esi \in BOOLEAN : LookupBusy(s, esi)
      <3>1. SMP_Fixup(Vampires(oh[s])) /\ UNCHANGED <<hd, ocRef, timer, oc, xr>>
        BY <2>2 DEF LookupBusy
      <3> QED
        BY <1>0, <3>1, NothingToFix
    <2> QED
      BY <2>1, <2>2
  <1>2. PICK to : /\ Goto(s, to) /\ to \notin Owning
                  /\ to \in {"hitref", "deliver"} => pc[s] = "hitref"
                  /\ pc[s] = "hitref" \/ oc[s] = None
    BY <1>0 DEF HashLookup, HitDeref, LookupBusy, Owning, SessOK, InLookup
  <1>3. Moves(s, to)
    <2>1. \A q \in Procs \ {s} : oh'[q] = oh[q]
      BY <1>0 DEF HashLookup, HitDeref, LookupBusy, Types
    <2> QED
      BY <1>0, <1>2, <2>1, QuietMoves
  <1>4. CoreRefExact' /\ FreeHasNoRefs' /\ OneFetchPerKey' /\ NoVampires'
    BY <1>0, <1>1, <1>3, <1>threads
    DEF CoreRefExact, FreeHasNoRefs, OneFetchPerKey, Busy, NoVampires
  <1>5. SeesRight(s)' /\ OwnsIt(s)'
    BY <1>0, <1>1, <1>2, <1>3 DEF SeesRight, OwnsIt, Moves, Owning
  <1>6. oc'[s] # None => \A t \in Sess \ {s} : oc'[t] = oc'[s] =>
                            pc'[s] \notin Owning /\ pc'[t] \notin Owning
    <2> SUFFICES ASSUME NEW t \in Sess \ {s}, oc[t] = oc[s]
                 PROVE  pc'[s] \notin Owning /\ pc'[t] \notin Owning
      BY <1>1
    <2>1. pc[t] \notin Owning
      BY DEF CoreInv, OneOwner
    <2> QED
      BY <1>2, <1>3, <2>1 DEF Moves, Owning, Procs
  <1> QED
    BY <1>0, <1>1, <1>3, <1>4, <1>5, <1>6, CoreKept

\* A hit.
LEMMA SessHitCore ==
  ASSUME Shape, Shape', CoreInv, NEW s \in Sess, LookupHit(s)
  PROVE  CoreInv'
  <1>0. /\ Types /\ Types' /\ SessOK(s) /\ s \in Procs /\ s # Timer /\ s # Loader
        /\ SeesRight(s) /\ OwnsIt(s) /\ Intact
        /\ CoreRefExact /\ FreeHasNoRefs /\ NoVampires /\ OneFetchPerKey
    BY SessOwn, ExactIntact DEF Shape, Holding, CoreInv, Threads
  <1>threads. ASSUME NEW to, Moves(s, to)
        PROVE  pc'[Timer] # "killcore" /\ pc'[Loader] = "idle"
    BY <1>0, <1>threads, ThreadOwn, SessAssumption DEF NoVampires, Moves, Threads
  <1>1. PICK c \in objcs(oh[s]), also \in SUBSET Vampires(oh[s]) :
          /\ InLookup(s) /\ status[c] \in {"ready", "vampire"}
          /\ SMP_Fixup(also \cup ({c} \cap Vampires(oh[s])))
          /\ ocRef' = [ocRef EXCEPT ![c] = @ + 1]
          /\ oc' = [oc EXCEPT ![s] = c]
          /\ Goto(s, "hitref")
          /\ UNCHANGED <<hd, timer, oh, xr>>
    BY DEF LookupHit
  <1>2. c \in Cores /\ c # None /\ status[c] = "ready" /\ status' = status
    <2>1. c \in Cores
      BY DEF objcs
    <2>2. status' = status
      BY <1>0, <1>1, NothingToFix
    <2> QED
      BY <1>0, <1>1, <2>1, <2>2, CoresAssumption DEF NoVampires
  <1>3. oc[s] = None
    BY <1>0, <1>1 DEF SessOK, InLookup
  <1>4. Moves(s, "hitref")
    BY <1>0, <1>1, QuietMoves
  <1>5. CoreRefExact'
    <2>1. \A d \in Cores \ {c} :
            /\ ocRef'[d] = ocRef[d]
            /\ d \in timer' <=> d \in timer
            /\ oc'[s] = d <=> oc[s] = d
            /\ xr'[s] = d <=> xr[s] = d
      BY <1>0, <1>1, <1>2, <1>3, CoresAssumption DEF Types
    <2>2. ocRef'[c] = ocRef[c]
            + (IF oc'[s] = c THEN 1 ELSE 0) - (IF oc[s] = c THEN 1 ELSE 0)
            + (IF xr'[s] = c THEN 1 ELSE 0) - (IF xr[s] = c THEN 1 ELSE 0)
            + (IF c \in timer' THEN 1 ELSE 0) - (IF c \in timer THEN 1 ELSE 0)
      BY <1>0, <1>1, <1>2, <1>3 DEF Types
    <2>3. \A q \in Procs \ {s} : oc'[q] = oc[q] /\ xr'[q] = xr[q]
      BY <1>0, <1>1 DEF Types
    <2> QED
      BY <1>0, <1>2, <2>1, <2>2, <2>3, CoreMoves
  <1>6. FreeHasNoRefs' /\ OneFetchPerKey' /\ NoVampires'
    <2>1. ocRef[c] \in Nat
      BY <1>0, <1>2, ExactIntact
    <2> QED
      BY <1>0, <1>1, <1>2, <1>4, <1>threads, <2>1
      DEF FreeHasNoRefs, OneFetchPerKey, Busy, NoVampires, Types
  <1>7. SeesRight(s)' /\ OwnsIt(s)' /\ oc'[s] = c /\ pc'[s] = "hitref"
    BY <1>0, <1>1, <1>2, <1>4 DEF SeesRight, OwnsIt, Moves, Types
  <1>8. \A q \in Procs \ {s} : oc'[q] = oc[q]
    BY <1>0, <1>1 DEF Types
  <1>9. \A t \in Sess \ {s} : oc'[t] = oc'[s] =>
            pc'[s] \notin Owning /\ pc'[t] \notin Owning
    <2> SUFFICES ASSUME NEW t \in Sess \ {s}, oc[t] = c
                 PROVE  pc'[s] \notin Owning /\ pc'[t] \notin Owning
      BY <1>7, <1>8 DEF Procs
    <2>1. SeesRight(t)
      BY DEF CoreInv
    <2>2. pc[t] \notin Owning
      BY <1>2, <2>1 DEF SeesRight, Owning
    <2> QED
      BY <1>4, <1>7, <2>2 DEF Moves, Owning, Procs
  <1>10. \A d \in Cores : ocRef'[d] = ocRef[d] \/ status[d] # "busy"
    BY <1>0, <1>1, <1>2 DEF Types
  <1> QED
    BY <1>0, <1>1, <1>2, <1>4, <1>5, <1>6, <1>7, <1>8, <1>9, <1>10, CoreKept

\* A miss.
LEMMA SessMissCore ==
  ASSUME Shape, Shape', CoreInv, NEW s \in Sess, LookupMiss(s)
  PROVE  CoreInv'
  <1>0. /\ Types /\ Types' /\ SessOK(s) /\ s \in Procs /\ s # Timer /\ s # Loader
        /\ SeesRight(s) /\ OwnsIt(s) /\ Intact
        /\ CoreRefExact /\ FreeHasNoRefs /\ NoVampires /\ OneFetchPerKey
    BY SessOwn, ExactIntact DEF Shape, Holding, CoreInv, Threads
  <1>threads. ASSUME NEW to, Moves(s, to)
        PROVE  pc'[Timer] # "killcore" /\ pc'[Loader] = "idle"
    BY <1>0, <1>threads, ThreadOwn, SessAssumption DEF NoVampires, Moves, Threads
  <1>1. PICK c \in Free :
          /\ InLookup(s) /\ oh[s] # None
          /\ ~ \E b \in objcs(oh[s]) : Busy(b)
          /\ hd' = [hd EXCEPT ![c] = oh[s]]
          /\ ocRef' = [ocRef EXCEPT ![c] = 1]
          /\ status' = [d \in Cores |->
                          CASE d = c -> "busy"
                            [] d # c /\ d \in Vampires(oh[s]) -> "ready"
                            [] OTHER -> status[d]]
          /\ oc' = [oc EXCEPT ![s] = c]
          /\ oh' = [oh EXCEPT ![s] = None]
          /\ Goto(s, "miss")
          /\ UNCHANGED <<timer, xr>>
    BY DEF LookupMiss
  <1>2. c \in Cores /\ c # None /\ hd[c] = None /\ ocRef[c] = 0 /\ c \notin timer
    BY <1>0, <1>1, CoresAssumption DEF Free, FreeHasNoRefs, Intact
  <1>3. oc[s] = None /\ xr[s] = None /\ \A q \in Procs : oc[q] # c
    BY <1>0, <1>1, <1>2 DEF SessOK, InLookup, Intact
  <1>4. status'[c] = "busy" /\ \A d \in Cores \ {c} : status'[d] = status[d]
    BY <1>0, <1>1, <1>2 DEF NoVampires, Vampires, objcs
  <1>5. Moves(s, "miss")
    <2>1. \A q \in Procs \ {s} : oh'[q] = oh[q]
      BY <1>0, <1>1 DEF Types
    <2> QED
      BY <1>0, <1>1, <2>1, QuietMoves
  <1>6. /\ \A q \in Procs \ {s} : oc'[q] = oc[q] /\ xr'[q] = xr[q]
        /\ oc'[s] = c /\ xr'[s] = xr[s] /\ pc'[s] = "miss" /\ ocRef'[c] = 1
    BY <1>0, <1>1, <1>2, <1>5 DEF Types, Moves
  <1>7. CoreRefExact'
    <2>1. \A d \in Cores \ {c} :
            /\ ocRef'[d] = ocRef[d]
            /\ d \in timer' <=> d \in timer
            /\ oc'[s] = d <=> oc[s] = d
            /\ xr'[s] = d <=> xr[s] = d
      BY <1>0, <1>1, <1>2, <1>3, CoresAssumption DEF Types
    <2>2. ocRef'[c] = ocRef[c]
            + (IF oc'[s] = c THEN 1 ELSE 0) - (IF oc[s] = c THEN 1 ELSE 0)
            + (IF xr'[s] = c THEN 1 ELSE 0) - (IF xr[s] = c THEN 1 ELSE 0)
            + (IF c \in timer' THEN 1 ELSE 0) - (IF c \in timer THEN 1 ELSE 0)
      BY <1>1, <1>2, <1>3, <1>6
    <2> QED
      BY <1>0, <1>2, <1>6, <2>1, <2>2, CoreMoves
  <1>8. FreeHasNoRefs'
    BY <1>0, <1>1, <1>2, <1>4 DEF FreeHasNoRefs, Types
  <1>9. NoVampires'
    BY <1>0, <1>4, <1>5, <1>threads DEF NoVampires
  <1>10. OneFetchPerKey'
    <2> SUFFICES ASSUME NEW d \in Cores, NEW e \in Cores, hd'[d] = hd'[e],
                        status'[d] \in {"busy", "fetch"},
                        status'[e] \in {"busy", "fetch"}
                 PROVE  d = e
      BY DEF OneFetchPerKey, Busy
    <2>1. hd'[c] = oh[s] /\ \A b \in Cores \ {c} : hd'[b] = hd[b]
      BY <1>0, <1>1, <1>2 DEF Types
    <2>2. \A b \in Cores : hd[b] = oh[s] => status[b] \notin {"busy", "fetch"}
      BY <1>1 DEF objcs, Busy
    <2>3. CASE d # c /\ e # c
      BY <1>0, <1>4, <2>1, <2>3 DEF OneFetchPerKey, Busy
    <2> QED
      BY <1>4, <2>1, <2>2, <2>3
  <1>11. SeesRight(s)' /\ OwnsIt(s)'
    BY <1>1, <1>2, <1>4, <1>6 DEF SeesRight, OwnsIt
  <1>12. \A t \in Sess \ {s} : oc'[t] # oc'[s]
    BY <1>3, <1>6 DEF Procs
  <1>13. \A d \in Cores : status'[d] = status[d] \/ \A t \in Sess \ {s} : oc[t] # d
    BY <1>3, <1>4 DEF Procs
  <1>14. \A d \in Cores : ocRef'[d] = ocRef[d] \/ ocRef[d] # 1
    BY <1>0, <1>1, <1>2 DEF Types
  <1> QED
    BY <1>0, <1>1, <1>5, <1>6, <1>7, <1>8, <1>9, <1>11, <1>10, <1>12, <1>13,
       <1>14, CoreKept

\* The steps of the session that fetches an object, up to HSH_Unbusy.
LEMMA SessFetchCore ==
  ASSUME Shape, Shape', CoreInv, NEW s \in Sess,
         \/ NewObject(s) \/ EXP_NukeOne(s) \/ HSH_Drop(s)
         \/ HSH_Ref(s) \/ EXP_Insert(s) \/ HSH_Unbusy(s)
  PROVE  CoreInv'
  <1>1. /\ Types /\ Types' /\ SessOK(s) /\ s \in Procs /\ s # Timer /\ s # Loader
        /\ SeesRight(s) /\ OwnsIt(s) /\ Intact
        /\ CoreRefExact /\ FreeHasNoRefs /\ NoVampires /\ OneFetchPerKey
    BY SessOwn, ExactIntact DEF Shape, Holding, CoreInv, Threads
  <1>2. ASSUME NEW to, Moves(s, to)
        PROVE  pc'[Timer] # "killcore" /\ pc'[Loader] = "idle"
    BY <1>1, <1>2, ThreadOwn, SessAssumption DEF NoVampires, Moves, Threads
  <1>3. oc' = oc /\ hd' = hd /\ pc[s] \in Owning /\ oc[s] \in Cores
    <2>1. oc' = oc /\ hd' = hd /\ pc[s] \in Owning
      BY DEF NewObject, EXP_NukeOne, HSH_Drop, HSH_Ref, EXP_Insert, HSH_Unbusy,
             Owning
    <2> QED
      BY <1>1, <2>1 DEF Owning, SessOK, Types
  <1>4. \A t \in Sess \ {s} : oc[t] # oc[s] /\ oc'[t] # oc'[s]
    BY <1>3 DEF CoreInv, OneOwner
  <1>5. CASE HSH_Drop(s) \/ HSH_Unbusy(s)
    <2>1. PICK to \in {"dropped", "deliver"}, new \in {"dead", "ready"} :
            /\ pc[s] \in {"fetch", "unbusy"}
            /\ status' = [status EXCEPT ![oc[s]] = new]
            /\ hsh_rush(hd[oc[s]], s, to)
            /\ UNCHANGED <<ocRef, timer, xr>>
      BY <1>5 DEF HSH_Drop, HSH_Unbusy
    <2>2. hd[oc[s]] \in Keys /\ pc[s] # "parked" /\ status[oc[s]] = "fetch"
      BY <1>1, <1>3, <2>1, CoresAssumption DEF Types, Intact, SeesRight
    <2>3. Moves(s, to)
      BY <1>1, <2>1, <2>2, Rush DEF SessPC, Types
    <2>4. CoreRefExact'
      BY <1>1, <1>3, <2>1 DEF CoreRefExact
    <2>5. /\ status'[oc[s]] = new
          /\ \A d \in Cores \ {oc[s]} : status'[d] = status[d]
      BY <1>1, <1>3, <2>1 DEF Types
    <2>6. FreeHasNoRefs'
      BY <1>3, <2>1, <2>2, <2>5, <1>1 DEF FreeHasNoRefs
    <2>7. NoVampires'
      BY <1>1, <1>2, <2>3, <2>5 DEF NoVampires
    <2>8. OneFetchPerKey'
      BY <1>1, <1>3, <2>5, BusyKept
    <2>9. SeesRight(s)' /\ OwnsIt(s)'
      BY <1>3, <2>3, <2>5 DEF SeesRight, OwnsIt, Moves
    <2>10. \A d \in Cores : status'[d] = status[d] \/ \A t \in Sess \ {s} : oc[t] # d
      BY <1>4, <2>5
    <2> QED
      BY <1>1, <1>3, <1>4, <2>1, <2>3, <2>4, <2>6, <2>7, <2>8, <2>9, <2>10, CoreKept
  <1>6. CASE NewObject(s)
    <2>1. /\ pc[s] = "miss" /\ status' = [status EXCEPT ![oc[s]] = "fetch"]
          /\ Goto(s, "fetch") /\ UNCHANGED <<ocRef, timer, oh, xr>>
      BY <1>6 DEF NewObject
    <2>2. status[oc[s]] = "busy" /\ oc[s] \notin timer
      BY <1>1, <2>1 DEF SeesRight, OwnsIt
    <2>3. Moves(s, "fetch")
      BY <1>1, <2>1, QuietMoves
    <2>4. CoreRefExact'
      BY <1>1, <1>3, <2>1 DEF CoreRefExact
    <2>5. /\ status'[oc[s]] = "fetch"
          /\ \A d \in Cores \ {oc[s]} : status'[d] = status[d]
      BY <1>1, <1>3, <2>1 DEF Types
    <2>6. FreeHasNoRefs'
      BY <1>3, <2>1, <2>2, <2>5, <1>1 DEF FreeHasNoRefs
    <2>7. NoVampires'
      BY <1>1, <1>2, <2>3, <2>5 DEF NoVampires
    <2>8. OneFetchPerKey'
      BY <1>1, <1>3, <2>2, <2>5, BusyKept
    <2>9. SeesRight(s)' /\ OwnsIt(s)'
      BY <1>3, <2>1, <2>2, <2>3, <2>5 DEF SeesRight, OwnsIt, Moves
    <2>10. \A d \in Cores : status'[d] = status[d] \/ \A t \in Sess \ {s} : oc[t] # d
      BY <1>4, <2>5
    <2> QED
      BY <1>1, <1>3, <1>4, <2>1, <2>3, <2>4, <2>6, <2>7, <2>8, <2>9, <2>10, CoreKept
  <1>7. CASE EXP_NukeOne(s)
    <2>1. PICK c \in timer \ silo :
            /\ pc[s] \in {"miss", "fetch"} /\ xr[s] = None
            /\ timer' = timer \ {c} /\ xr' = [xr EXCEPT ![s] = c]
            /\ UNCHANGED <<ocRef, status, pc, oh>>
      BY <1>7 DEF EXP_NukeOne
    <2>2. c \in Cores /\ c # None
      BY <1>1, <2>1, CoresAssumption DEF Types
    <2>3. Moves(s, pc[s])
      BY <1>1, <2>1 DEF Moves, Types
    <2>4. CoreRefExact'
      <3>1. \A d \in Cores \ {c} :
              /\ ocRef'[d] = ocRef[d]
              /\ d \in timer' <=> d \in timer
              /\ oc'[s] = d <=> oc[s] = d
              /\ xr'[s] = d <=> xr[s] = d
        BY <1>1, <1>3, <2>1, <2>2, CoresAssumption DEF Types
      <3>2. xr'[s] = c /\ xr[s] # c /\ c \in timer /\ c \notin timer'
            /\ ocRef[c] \in Int /\ ocRef'[c] = ocRef[c] /\ oc'[s] = oc[s]
        BY <1>1, <1>3, <2>1, <2>2 DEF Types
      <3>3. ocRef'[c] = ocRef[c]
              + (IF oc'[s] = c THEN 1 ELSE 0) - (IF oc[s] = c THEN 1 ELSE 0)
              + (IF xr'[s] = c THEN 1 ELSE 0) - (IF xr[s] = c THEN 1 ELSE 0)
              + (IF c \in timer' THEN 1 ELSE 0) - (IF c \in timer THEN 1 ELSE 0)
        BY <3>2
      <3>4. \A q \in Procs \ {s} : oc'[q] = oc[q] /\ xr'[q] = xr[q]
        BY <1>1, <1>3, <2>1 DEF Types
      <3> QED
        BY <1>1, <2>2, <3>1, <3>3, <3>4, CoreMoves
    <2>5. FreeHasNoRefs' /\ OneFetchPerKey'
      BY <1>1, <1>3, <2>1 DEF FreeHasNoRefs, OneFetchPerKey, Busy
    <2>6. NoVampires'
      BY <1>1, <1>2, <2>1, <2>3 DEF NoVampires
    <2>7. SeesRight(s)' /\ OwnsIt(s)'
      BY <1>1, <1>3, <2>1 DEF SeesRight, OwnsIt
    <2> QED
      BY <1>1, <1>3, <1>4, <2>1, <2>3, <2>4, <2>5, <2>6, <2>7, CoreKept
  <1>8. CASE HSH_Ref(s)
    <2>1. /\ pc[s] = "fetch" /\ xr[s] = None
          /\ ocRef' = [ocRef EXCEPT ![oc[s]] = @ + 1]
          /\ xr' = [xr EXCEPT ![s] = oc[s]]
          /\ Goto(s, "insert")
          /\ UNCHANGED <<status, timer, oh>>
      BY <1>8 DEF HSH_Ref
    <2>2. status[oc[s]] = "fetch" /\ oc[s] \notin timer /\ oc[s] # None
      BY <1>1, <1>3, <2>1, CoresAssumption DEF SeesRight, OwnsIt
    <2>3. Moves(s, "insert")
      BY <1>1, <2>1, QuietMoves
    <2>4. ocRef[oc[s]] \in Nat
      BY <1>1, <1>3, ExactIntact
    <2>5. CoreRefExact'
      <3>1. \A d \in Cores \ {oc[s]} :
              /\ ocRef'[d] = ocRef[d]
              /\ d \in timer' <=> d \in timer
              /\ oc'[s] = d <=> oc[s] = d
              /\ xr'[s] = d <=> xr[s] = d
        BY <1>1, <1>3, <2>1, CoresAssumption DEF Types
      <3>2. xr'[s] = oc[s] /\ ocRef'[oc[s]] = ocRef[oc[s]] + 1
        BY <1>1, <1>3, <2>1 DEF Types
      <3>3. ocRef'[oc[s]] = ocRef[oc[s]]
              + (IF oc'[s] = oc[s] THEN 1 ELSE 0) - (IF oc[s] = oc[s] THEN 1 ELSE 0)
              + (IF xr'[s] = oc[s] THEN 1 ELSE 0) - (IF xr[s] = oc[s] THEN 1 ELSE 0)
              + (IF oc[s] \in timer' THEN 1 ELSE 0)
              - (IF oc[s] \in timer THEN 1 ELSE 0)
        BY <1>3, <2>1, <2>2, <2>4, <3>2
      <3>4. \A q \in Procs \ {s} : oc'[q] = oc[q] /\ xr'[q] = xr[q]
        BY <1>1, <1>3, <2>1 DEF Types
      <3> QED
        BY <1>1, <1>3, <3>1, <3>3, <3>4, CoreMoves
    <2>6. FreeHasNoRefs' /\ OneFetchPerKey'
      BY <1>1, <1>3, <2>1, <2>2, <2>4
      DEF FreeHasNoRefs, OneFetchPerKey, Busy, Types
    <2>7. NoVampires'
      BY <1>1, <1>2, <2>1, <2>3 DEF NoVampires
    <2>8. SeesRight(s)' /\ OwnsIt(s)'
      BY <1>1, <1>3, <2>1, <2>2, <2>3 DEF SeesRight, OwnsIt, Moves
    <2>9. \A d \in Cores : ocRef'[d] = ocRef[d] \/ status[d] # "busy"
      BY <1>1, <1>3, <2>1, <2>2 DEF Types
    <2> QED
      BY <1>1, <1>3, <1>4, <2>1, <2>3, <2>5, <2>6, <2>7, <2>8, <2>9, CoreKept
  <1>9. CASE EXP_Insert(s)
    <2>1. /\ pc[s] = "insert" /\ timer' = timer \cup {xr[s]}
          /\ xr' = [xr EXCEPT ![s] = None]
          /\ Goto(s, "unbusy")
          /\ UNCHANGED <<ocRef, status, oh>>
      BY <1>9 DEF EXP_Insert
    <2>2. /\ xr[s] = oc[s] /\ status[oc[s]] = "fetch" /\ oc[s] \notin timer
          /\ oc[s] # None
      BY <1>1, <1>3, <2>1, CoresAssumption DEF SeesRight, OwnsIt, SessOK
    <2>3. Moves(s, "unbusy")
      BY <1>1, <2>1, QuietMoves
    <2>4. CoreRefExact'
      <3>1. \A d \in Cores \ {oc[s]} :
              /\ ocRef'[d] = ocRef[d]
              /\ d \in timer' <=> d \in timer
              /\ oc'[s] = d <=> oc[s] = d
              /\ xr'[s] = d <=> xr[s] = d
        BY <1>1, <1>3, <2>1, <2>2, CoresAssumption DEF Types
      <3>2. xr'[s] = None /\ ocRef[oc[s]] \in Int
        BY <1>1, <1>3, <2>1 DEF Types
      <3>3. ocRef'[oc[s]] = ocRef[oc[s]]
              + (IF oc'[s] = oc[s] THEN 1 ELSE 0) - (IF oc[s] = oc[s] THEN 1 ELSE 0)
              + (IF xr'[s] = oc[s] THEN 1 ELSE 0) - (IF xr[s] = oc[s] THEN 1 ELSE 0)
              + (IF oc[s] \in timer' THEN 1 ELSE 0)
              - (IF oc[s] \in timer THEN 1 ELSE 0)
        BY <1>3, <2>1, <2>2, <3>2
      <3>4. \A q \in Procs \ {s} : oc'[q] = oc[q] /\ xr'[q] = xr[q]
        BY <1>1, <1>3, <2>1 DEF Types
      <3> QED
        BY <1>1, <1>3, <3>1, <3>3, <3>4, CoreMoves
    <2>5. FreeHasNoRefs' /\ OneFetchPerKey'
      BY <1>1, <1>3, <2>1 DEF FreeHasNoRefs, OneFetchPerKey, Busy
    <2>6. NoVampires'
      BY <1>1, <1>2, <2>1, <2>3 DEF NoVampires
    <2>7. SeesRight(s)' /\ OwnsIt(s)'
      BY <1>1, <1>3, <2>1, <2>2, <2>3 DEF SeesRight, OwnsIt, Moves
    <2>8. \A c \in timer' \ timer : \A t \in Sess \ {s} : oc[t] # c
      BY <1>4, <2>1, <2>2
    <2> QED
      BY <1>1, <1>3, <1>4, <2>1, <2>3, <2>4, <2>5, <2>6, <2>7, <2>8, CoreKept
  <1> QED
    BY <1>5, <1>6, <1>7, <1>8, <1>9

\* The steps of exp_timer and ban_lurker; without a silo there is nothing for
\* HSH_DerefObjCore in exp_timer or for smp_load_seg to do.
LEMMA ThreadCore ==
  ASSUME Shape, Shape', CoreInv, ~ Silo, TimerStep \/ LurkerStep \/ LoaderStep
  PROVE  CoreInv'
  <1>1. /\ Types /\ Types' /\ TimerOK /\ LurkerOK /\ Intact
        /\ CoreRefExact /\ FreeHasNoRefs /\ NoVampires /\ OneFetchPerKey
    BY ExactIntact DEF Shape, Holding, CoreInv
  <1>2. /\ {Timer, Lurker, Loader} \subseteq Procs
        /\ Timer \notin Sess /\ Lurker \notin Sess /\ Loader \notin Sess
        /\ Timer # Lurker /\ Timer # Loader /\ Lurker # Loader
    BY ThreadOwn, SessAssumption DEF Threads, Timer, Lurker, Loader
  <1>3. ASSUME NEW p \in {Timer, Lurker}, NEW to, to # "killcore", Moves(p, to)
        PROVE  pc'[Timer] # "killcore" /\ pc'[Loader] = "idle"
    BY <1>1, <1>2, <1>3 DEF NoVampires, Moves
  <1>4. CASE TimerPop
    <2>1. PICK c \in timer :
            /\ pc[Timer] = "idle" /\ timer' = timer \ {c}
            /\ xr' = [xr EXCEPT ![Timer] = c] /\ Goto(Timer, "popped")
            /\ UNCHANGED <<hd, ocRef, status, oh, oc>>
      BY <1>4 DEF TimerPop
    <2>2. c \in Cores /\ c # None /\ xr[Timer] = None
      BY <1>1, <2>1, CoresAssumption DEF Types, TimerOK
    <2>3. Moves(Timer, "popped")
      BY <1>1, <1>2, <2>1, QuietMoves
    <2>4. CoreRefExact'
      <3>1. \A d \in Cores \ {c} :
              /\ ocRef'[d] = ocRef[d]
              /\ d \in timer' <=> d \in timer
              /\ oc'[Timer] = d <=> oc[Timer] = d
              /\ xr'[Timer] = d <=> xr[Timer] = d
        BY <1>1, <1>2, <2>1, <2>2, CoresAssumption DEF Types
      <3>2. xr'[Timer] = c /\ c \in timer /\ c \notin timer' /\ ocRef[c] \in Int
        BY <1>1, <1>2, <2>1, <2>2 DEF Types
      <3>3. ocRef'[c] = ocRef[c]
              + (IF oc'[Timer] = c THEN 1 ELSE 0) - (IF oc[Timer] = c THEN 1 ELSE 0)
              + (IF xr'[Timer] = c THEN 1 ELSE 0) - (IF xr[Timer] = c THEN 1 ELSE 0)
              + (IF c \in timer' THEN 1 ELSE 0) - (IF c \in timer THEN 1 ELSE 0)
        BY <2>1, <2>2, <3>2
      <3>4. \A q \in Procs \ {Timer} : oc'[q] = oc[q] /\ xr'[q] = xr[q]
        BY <1>1, <2>1 DEF Types
      <3> QED
        BY <1>1, <1>2, <2>2, <3>1, <3>3, <3>4, CoreMoves
    <2>5. FreeHasNoRefs' /\ OneFetchPerKey' /\ NoVampires'
      BY <1>1, <1>3, <2>1, <2>3 DEF FreeHasNoRefs, OneFetchPerKey, Busy, NoVampires
    <2> QED
      BY <1>1, <1>2, <2>1, <2>3, <2>4, <2>5, CoreKept
  <1>5. CASE TimerFlag
    <2>1. xr[Timer] \in Cores /\ status[xr[Timer]] # "vampire"
      BY <1>1, <1>2, <1>5 DEF TimerFlag, TimerOK, Types, NoVampires
    <2>2. Goto(Timer, "kill") /\ UNCHANGED <<hd, ocRef, status, timer, oh, oc, xr>>
      BY <1>5, <2>1 DEF TimerFlag, coreVars
    <2>3. Moves(Timer, "kill")
      BY <1>1, <1>2, <2>2, QuietMoves
    <2>4. CoreRefExact' /\ FreeHasNoRefs' /\ OneFetchPerKey' /\ NoVampires'
      BY <1>1, <1>3, <2>2, <2>3
      DEF CoreRefExact, FreeHasNoRefs, OneFetchPerKey, Busy, NoVampires
    <2> QED
      BY <1>1, <1>2, <2>2, <2>3, <2>4, CoreKept
  <1>6. CASE TimerDeref
    <2>1. xr[Timer] \in Cores /\ hd[xr[Timer]] \in Keys /\ pc[Timer] = "kill"
      BY <1>1, <1>2, <1>6, CoresAssumption DEF TimerDeref, Types, TimerOK, Intact
    <2>2. Moves(Timer, "idle")
      BY <1>1, <1>2, <1>6, <2>1, Rush DEF TimerDeref, SessPC
    <2>3. /\ timer' = timer
          /\ \A q \in Procs \ {Timer} : oc'[q] = oc[q] /\ xr'[q] = xr[q]
          /\ xr'[Timer] = None /\ oc'[Timer] = oc[Timer]
          /\ DropCoreRef(xr[Timer], Timer)
      BY <1>1, <1>2, <1>6 DEF TimerDeref, Types
    <2>4. /\ CoreRefExact' /\ FreeHasNoRefs' /\ OneFetchPerKey'
          /\ \A d \in Cores : status'[d] = status[d] \/ hd'[d] = None
          /\ \A d \in Cores : \/ ocRef'[d] = ocRef[d] \/ hd'[d] = None
                              \/ ocRef[d] # 1
          /\ \A d \in Cores : status'[d] # "vampire" \/ status[d] = "vampire"
      BY <1>1, <1>2, <2>1, <2>3, DropCore, KeysAssumption
    <2>5. NoVampires'
      BY <1>1, <1>3, <2>2, <2>4 DEF NoVampires
    <2> QED
      BY <1>1, <1>2, <2>2, <2>3, <2>4, <2>5, CoreKept
  <1>7. CASE HSH_FindBan
    <2>1. PICK c \in Cores :
            /\ pc[Lurker] = "idle"
            /\ status[c] \in {"fetch", "ready", "dead", "vampire"}
            /\ SMP_Fixup({c} \cap Vampires(hd[c]))
            /\ ocRef' = [ocRef EXCEPT ![c] = @ + 1]
            /\ oc' = [oc EXCEPT ![Lurker] = c]
            /\ Goto(Lurker, "checked")
            /\ UNCHANGED <<hd, timer, oh, xr>>
      BY <1>7 DEF HSH_FindBan
    <2>2. status' = status
      BY <1>1, <2>1, NothingToFix
    <2>3. Moves(Lurker, "checked")
      BY <1>1, <1>2, <2>1, QuietMoves
    <2>4. c # None /\ oc[Lurker] = None /\ ocRef[c] \in Nat
      BY <1>1, <2>1, CoresAssumption, ExactIntact DEF LurkerOK
    <2>5. CoreRefExact'
      <3>1. \A d \in Cores \ {c} :
              /\ ocRef'[d] = ocRef[d]
              /\ d \in timer' <=> d \in timer
              /\ oc'[Lurker] = d <=> oc[Lurker] = d
              /\ xr'[Lurker] = d <=> xr[Lurker] = d
        BY <1>1, <1>2, <2>1, <2>4, CoresAssumption DEF Types
      <3>2. oc'[Lurker] = c /\ ocRef'[c] = ocRef[c] + 1
        BY <1>1, <1>2, <2>1 DEF Types
      <3>3. ocRef'[c] = ocRef[c]
              + (IF oc'[Lurker] = c THEN 1 ELSE 0)
              - (IF oc[Lurker] = c THEN 1 ELSE 0)
              + (IF xr'[Lurker] = c THEN 1 ELSE 0)
              - (IF xr[Lurker] = c THEN 1 ELSE 0)
              + (IF c \in timer' THEN 1 ELSE 0) - (IF c \in timer THEN 1 ELSE 0)
        BY <2>1, <2>4, <3>2
      <3>4. \A q \in Procs \ {Lurker} : oc'[q] = oc[q] /\ xr'[q] = xr[q]
        BY <1>1, <2>1 DEF Types
      <3> QED
        BY <1>1, <1>2, <3>1, <3>3, <3>4, CoreMoves
    <2>6. FreeHasNoRefs' /\ OneFetchPerKey'
      BY <1>1, <2>1, <2>2, <2>4 DEF FreeHasNoRefs, OneFetchPerKey, Busy, Types
    <2>7. NoVampires'
      BY <1>1, <1>3, <2>2, <2>3 DEF NoVampires
    <2>8. \A d \in Cores : ocRef'[d] = ocRef[d] \/ status[d] # "busy"
      BY <1>1, <2>1 DEF Types
    <2>9. \A q \in Procs \ {Lurker} : oc'[q] = oc[q]
      BY <1>1, <2>1 DEF Types
    <2> QED
      BY <1>1, <1>2, <2>1, <2>2, <2>3, <2>5, <2>6, <2>7, <2>8, <2>9, CoreKept
  <1>8. CASE LurkerDeref
    <2>1. oc[Lurker] \in Cores /\ hd[oc[Lurker]] \in Keys /\ pc[Lurker] = "checked"
      BY <1>1, <1>2, <1>8, CoresAssumption DEF LurkerDeref, Types, LurkerOK, Intact
    <2>2. Moves(Lurker, "idle")
      BY <1>1, <1>2, <1>8, <2>1, Rush DEF LurkerDeref, SessPC
    <2>3. /\ timer' = timer
          /\ \A q \in Procs \ {Lurker} : oc'[q] = oc[q] /\ xr'[q] = xr[q]
          /\ oc'[Lurker] = None /\ xr'[Lurker] = xr[Lurker]
          /\ DropCoreRef(oc[Lurker], Lurker)
      BY <1>1, <1>2, <1>8 DEF LurkerDeref, Types
    <2>4. /\ CoreRefExact' /\ FreeHasNoRefs' /\ OneFetchPerKey'
          /\ \A d \in Cores : status'[d] = status[d] \/ hd'[d] = None
          /\ \A d \in Cores : \/ ocRef'[d] = ocRef[d] \/ hd'[d] = None
                              \/ ocRef[d] # 1
          /\ \A d \in Cores : status'[d] # "vampire" \/ status[d] = "vampire"
      BY <1>1, <1>2, <2>1, <2>3, DropCore, KeysAssumption
    <2>5. NoVampires'
      BY <1>1, <1>3, <2>2, <2>4 DEF NoVampires
    <2> QED
      BY <1>1, <1>2, <2>2, <2>3, <2>4, <2>5, CoreKept
  <1>9. ~ TimerDerefObjCore /\ ~ LoadLookup /\ ~ HSH_Insert /\ ~ EXP_Inject
    BY <1>1 DEF TimerDerefObjCore, LoadLookup, HSH_Insert, EXP_Inject, NoVampires
  <1> QED
    BY <1>4, <1>5, <1>6, <1>7, <1>8, <1>9 DEF TimerStep, LurkerStep, LoaderStep

\* A hash->deref leaves every objcore alone, and so does a stuttering step.
LEMMA QuietCore ==
  ASSUME CoreInv, (\E p \in Procs : HashDeref(p)) \/ UNCHANGED vars
  PROVE  CoreInv'
  <1>1. UNCHANGED <<hd, ocRef, status, timer, pc, oc, xr>>
    BY DEF HashDeref, vars, coreVars, procVars
  <1> QED
    BY <1>1 DEF CoreInv, CoreRefExact, FreeHasNoRefs, NoVampires, SeesRight,
                OwnsIt, OneOwner, OneFetchPerKey, Busy

\* Initially there is no object and nobody holds one.
LEMMA CoreInit == Init => CoreInv
  <1> SUFFICES ASSUME Init PROVE CoreInv
    OBVIOUS
  <1>1. Types
    BY ShapeInit DEF Shape
  <1>2. CoreRefExact
    <2> SUFFICES ASSUME NEW c \in Cores
                 PROVE  ocRef[c] = Count(oc, c) + Count(xr, c)
                                   + (IF c \in timer THEN 1 ELSE 0)
      BY DEF CoreRefExact
    <2>1. Count(oc, c) = 0 /\ Count(xr, c) = 0
      BY <1>1, Domains, CountZero, CoresAssumption DEF Init
    <2> QED
      BY <2>1 DEF Init
  <1>3. \A p \in Procs : pc[p] = "idle"
    BY DEF Init
  <1>4. FreeHasNoRefs /\ OneFetchPerKey
    BY DEF Init, FreeHasNoRefs, OneFetchPerKey, Busy
  <1>5. NoVampires
    BY <1>3, ThreadOwn DEF Init, NoVampires
  <1>6. \A s \in Sess : SeesRight(s) /\ OwnsIt(s) /\ pc[s] \notin Owning
    BY <1>3 DEF SeesRight, OwnsIt, Owning, Procs
  <1> QED
    BY <1>2, <1>4, <1>5, <1>6 DEF CoreInv, OneOwner

\* Every step keeps the objcore invariant.
LEMMA CoreStep ==
  ASSUME Shape, Shape', CoreInv, ~ Silo, [Next]_vars
  PROVE  CoreInv'
  <1>1. ASSUME NEW s \in Sess, SessStep(s)
        PROVE  CoreInv'
    BY <1>1, SessDropCore, SessIdleCore, SessHitCore, SessMissCore, SessFetchCore
    DEF SessStep
  <1> QED
    BY <1>1, ThreadCore, QuietCore DEF Next

\* The objcore invariant, when there is no persistent silo.
THEOREM CoreInvariant ==
  ASSUME Silo = FALSE
  PROVE  Spec => []CoreInv
  <1>1. Shape /\ Shape' /\ CoreInv /\ [Next]_vars => CoreInv'
    BY CoreStep
  <1> QED
    BY <1>1, CoreInit, ShapeInvariant, PTL DEF Spec

\* Without a silo an objcore's refcnt is exactly its users plus the reference
\* of the binheap and LRU list, wherever that reference is (cache_expire.c:
\* "We hold one object reference for both data structures").
THEOREM CoreRefTheorem ==
  ASSUME Silo = FALSE
  PROVE  Spec => []CoreRefExact
  <1>1. CoreInv => CoreRefExact
    BY DEF CoreInv
  <1> QED
    BY <1>1, CoreInvariant, PTL

\* Without a silo HSH_Deref never frees an objcore that a session, exp_timer,
\* the ban lurker or the binheap still refers to.
THEOREM NoUseAfterFreeTheorem ==
  ASSUME Silo = FALSE
  PROVE  Spec => []NoUseAfterFree
  <1>1. Shape /\ CoreInv => NoUseAfterFree
    BY ExactIntact DEF CoreInv, Shape, NoUseAfterFree
  <1> QED
    BY <1>1, ShapeInvariant, CoreInvariant, PTL

\* Without a silo no two sessions fetch the same key at the same time: the
\* busy objcore HSH_Lookup inserts is the only one of its objhead.
THEOREM OneFetchTheorem ==
  ASSUME Silo = FALSE
  PROVE  Spec => []OneFetchPerKey
  <1>1. CoreInv => OneFetchPerKey
    BY DEF CoreInv
  <1> QED
    BY <1>1, CoreInvariant, PTL

\* Without a silo a session delivers only complete objects and fetches only
\* into a busy one: the AN(ObjIsBusy(o)) of EXP_Insert, HSH_Drop and
\* HSH_Unbusy cannot fail.
THEOREM RightObjectTheorem ==
  ASSUME Silo = FALSE
  PROVE  Spec => []UsersSeeTheRightObject
  <1>1. CoreInv => UsersSeeTheRightObject
    BY DEF CoreInv, SeesRight, UsersSeeTheRightObject
  <1> QED
    BY <1>1, CoreInvariant, PTL

-----------------------------------------------------------------------------
(* All layers together. *)

\* With a queue that refuses nobody and no silo, no counter goes below zero:
\* no assert(refcnt > 0) of cache_hash.c fails.
THEOREM TypeTheorem ==
  ASSUME QueueMayRefuse = FALSE, Silo = FALSE
  PROVE  Spec => []TypeOK
  <1>1. Shape /\ CoreInv /\ HeadRefExact => TypeOK
    <2> SUFFICES ASSUME Types, CoreRefExact, FreeHasNoRefs, HeadRefExact
                 PROVE  TypeOK
      BY DEF Shape, CoreInv
    <2>1. \A k \in Keys : ohRef[k] \in Nat
      BY Domains DEF HeadRefExact
    <2>2. \A c \in Cores : ocRef[c] \in Nat
      BY ExactIntact
    <2>3. ohRef \in [Keys -> Nat] /\ ocRef \in [Cores -> Nat]
      BY <2>1, <2>2 DEF Types
    <2> QED
      BY <2>3 DEF Types, TypeOK
  <1> QED
    BY <1>1, ShapeInvariant, CoreInvariant, HeadRefTheorem, PTL

\* What every step of a session or thread p does: the others keep their
\* references, no objcore changes objhead, and only LookupHit hits.
OneMoves(p) ==
  \E to : /\ Moves(p, to)
          /\ to = "hitref" => p \in Sess /\ LookupHit(p)
          /\ \A q \in Procs \ {p} : oc'[q] = oc[q]
          /\ \A d \in Cores : hd'[d] = hd[d] \/ hd'[d] = None \/ hd[d] = None

\* Giving up a reference changes no objhead.
LEMMA DropKeepsHead ==
  ASSUME Types, NEW c, NEW p, FreeCore(c, p) \/ DropCoreRef(c, p)
  PROVE  \A d \in Cores : hd'[d] = hd[d] \/ hd'[d] = None
  BY DEF FreeCore, DropCoreRef, Types

\* The steps of a session.
LEMMA SessMoves ==
  ASSUME Shape, Shape', Intact, NEW s \in Sess, SessStep(s)
  PROVE  OneMoves(s)
  <1>1. Types /\ Types' /\ SessOK(s) /\ s \in Procs
    BY SessOwn DEF Shape, Holding
  <1>2. CASE DerefObjCore(s) \/ DeliverDeref(s)
    <2>1. /\ FreeCore(oc[s], s) \/ DropCoreRef(oc[s], s)
          /\ hsh_rush(hd[oc[s]], s, "idle")
          /\ oc' = [oc EXCEPT ![s] = None]
          /\ pc[s] \in {"miss", "deliver", "dropped"}
      BY <1>2 DEF DerefObjCore, DeliverDeref
    <2>2. oc[s] \in Cores /\ hd[oc[s]] \in Keys
      BY <1>1, <2>1, CoresAssumption DEF Types, SessOK, Intact
    <2>3. Moves(s, "idle")
      BY <1>1, <2>1, <2>2, Rush DEF SessPC
    <2> QED
      BY <1>1, <2>1, <2>3, DropKeepsHead DEF OneMoves, Types
  <1>3. CASE NukeDeref(s)
    <2>1. /\ DropCoreRef(xr[s], s)
          /\ hsh_rush(hd[xr[s]], s, pc[s])
          /\ oc' = oc /\ pc[s] \in {"miss", "fetch"}
          /\ xr[s] \in Cores
      BY <1>1, <1>3 DEF NukeDeref, Types
    <2>2. hd[xr[s]] \in Keys
      BY <1>1, <2>1, CoresAssumption DEF Types, Intact
    <2>3. Moves(s, pc[s])
      BY <1>1, <2>1, <2>2, Rush DEF SessPC
    <2> QED
      BY <1>1, <2>1, <2>3, DropKeepsHead DEF OneMoves, Types
  <1>4. CASE HSH_Drop(s) \/ HSH_Unbusy(s)
    <2>1. PICK to \in {"dropped", "deliver"} :
            /\ pc[s] \in {"fetch", "unbusy"}
            /\ hsh_rush(hd[oc[s]], s, to)
            /\ oc' = oc /\ hd' = hd
      BY <1>4 DEF HSH_Drop, HSH_Unbusy
    <2>2. oc[s] \in Cores /\ hd[oc[s]] \in Keys
      BY <1>1, <2>1, CoresAssumption DEF Types, SessOK, Intact
    <2>3. Moves(s, to)
      BY <1>1, <2>1, <2>2, Rush DEF SessPC
    <2> QED
      BY <1>1, <2>1, <2>3 DEF OneMoves
  <1>5. CASE \/ HashLookup(s) \/ HitDeref(s) \/ NewObject(s) \/ HSH_Ref(s)
             \/ EXP_Insert(s) \/ \E esi \in BOOLEAN : LookupBusy(s, esi)
    <2>1. PICK to : /\ Goto(s, to) /\ to # "hitref"
                    /\ oc' = oc /\ hd' = hd
                    /\ \A q \in Procs \ {s} : oh'[q] = oh[q]
      BY <1>1, <1>5 DEF HashLookup, HitDeref, NewObject, HSH_Ref, EXP_Insert,
                        LookupBusy, coreVars, Types
    <2>2. Moves(s, to)
      BY <1>1, <2>1, QuietMoves
    <2> QED
      BY <2>1, <2>2 DEF OneMoves
  <1>6. CASE EXP_NukeOne(s)
    <2>1. pc' = pc /\ oh' = oh /\ oc' = oc /\ hd' = hd /\ pc[s] # "hitref"
      BY <1>6 DEF EXP_NukeOne
    <2>2. Moves(s, pc[s])
      BY <1>1, <2>1 DEF Moves, Types
    <2> QED
      BY <2>1, <2>2 DEF OneMoves
  <1>7. CASE LookupMiss(s)
    <2>1. PICK c \in Free : /\ hd' = [hd EXCEPT ![c] = oh[s]]
                            /\ oc' = [oc EXCEPT ![s] = c]
                            /\ oh' = [oh EXCEPT ![s] = None]
                            /\ Goto(s, "miss")
      BY <1>7 DEF LookupMiss
    <2>2. Moves(s, "miss")
      BY <1>1, <2>1, QuietMoves DEF Types
    <2>3. \A d \in Cores : hd'[d] = hd[d] \/ hd[d] = None
      BY <1>1, <2>1 DEF Types, Free
    <2>4. \A q \in Procs \ {s} : oc'[q] = oc[q]
      BY <1>1, <2>1 DEF Types
    <2> QED
      BY <2>2, <2>3, <2>4 DEF OneMoves
  <1>8. CASE LookupHit(s)
    <2>1. PICK c \in Cores : /\ oc' = [oc EXCEPT ![s] = c]
                             /\ hd' = hd /\ oh' = oh /\ Goto(s, "hitref")
      BY <1>8 DEF LookupHit, objcs
    <2>2. Moves(s, "hitref")
      BY <1>1, <2>1, QuietMoves
    <2> QED
      BY <1>1, <1>8, <2>1, <2>2 DEF OneMoves, Types
  <1> QED
    BY <1>2, <1>3, <1>4, <1>5, <1>6, <1>7, <1>8 DEF SessStep

\* The steps of the threads.
LEMMA ThreadMoves ==
  ASSUME Shape, Shape', Intact, TimerStep \/ LurkerStep \/ LoaderStep
  PROVE  \E p \in Threads : OneMoves(p)
  <1>1. /\ Types /\ Types' /\ TimerOK /\ LurkerOK /\ LoaderOK
        /\ Timer \in Procs /\ Lurker \in Procs /\ Loader \in Procs
    BY ThreadOwn DEF Shape, Holding
  <1>2. CASE TimerDeref
    <2>1. /\ xr[Timer] \in Cores /\ pc[Timer] = "kill" /\ oc' = oc
          /\ DropCoreRef(xr[Timer], Timer)
          /\ hsh_rush(hd[xr[Timer]], Timer, "idle")
      BY <1>1, <1>2 DEF TimerDeref, Types, TimerOK
    <2>2. hd[xr[Timer]] \in Keys
      BY <1>1, <2>1, CoresAssumption DEF Types, Intact
    <2>3. Moves(Timer, "idle")
      BY <1>1, <2>1, <2>2, Rush DEF SessPC
    <2> QED
      BY <1>1, <2>1, <2>3, DropKeepsHead DEF OneMoves, Threads
  <1>3. CASE TimerDerefObjCore
    <2>1. /\ xr[Timer] \in Cores /\ pc[Timer] = "killcore" /\ oc' = oc
          /\ FreeCore(xr[Timer], Timer)
          /\ \/ hsh_rush(hd[xr[Timer]], Timer, "idle")
             \/ Goto(Timer, "idle") /\ oh' = oh
      BY <1>1, <1>3 DEF TimerDerefObjCore, Types, TimerOK
    <2>2. hd[xr[Timer]] \in Keys
      BY <1>1, <2>1, CoresAssumption DEF Types, Intact
    <2>3. Moves(Timer, "idle")
      <3>1. CASE hsh_rush(hd[xr[Timer]], Timer, "idle")
        BY <1>1, <2>1, <2>2, <3>1, Rush DEF SessPC
      <3>2. CASE Goto(Timer, "idle") /\ oh' = oh
        BY <1>1, <3>2, QuietMoves
      <3> QED
        BY <2>1, <3>1, <3>2
    <2> QED
      BY <1>1, <2>1, <2>3, DropKeepsHead DEF OneMoves, Threads
  <1>4. CASE LurkerDeref
    <2>1. /\ oc[Lurker] \in Cores /\ pc[Lurker] = "checked"
          /\ oc' = [oc EXCEPT ![Lurker] = None]
          /\ DropCoreRef(oc[Lurker], Lurker)
          /\ hsh_rush(hd[oc[Lurker]], Lurker, "idle")
      BY <1>1, <1>4 DEF LurkerDeref, Types, LurkerOK
    <2>2. hd[oc[Lurker]] \in Keys
      BY <1>1, <2>1, CoresAssumption DEF Types, Intact
    <2>3. Moves(Lurker, "idle")
      BY <1>1, <2>1, <2>2, Rush DEF SessPC
    <2>4. \A q \in Procs \ {Lurker} : oc'[q] = oc[q]
      BY <1>1, <2>1 DEF Types
    <2> QED
      BY <1>1, <2>1, <2>3, <2>4, DropKeepsHead DEF OneMoves, Threads
  <1>5. CASE TimerPop \/ TimerFlag
    <2>1. PICK to : /\ Goto(Timer, to) /\ to # "hitref"
                    /\ oc' = oc /\ hd' = hd /\ oh' = oh
      BY <1>5 DEF TimerPop, TimerFlag, coreVars
    <2>2. Moves(Timer, to)
      BY <1>1, <2>1, QuietMoves
    <2> QED
      BY <2>1, <2>2 DEF OneMoves, Threads
  <1>6. CASE HSH_FindBan
    <2>1. /\ Goto(Lurker, "checked") /\ hd' = hd /\ oh' = oh
          /\ \A q \in Procs \ {Lurker} : oc'[q] = oc[q]
      BY <1>1, <1>6 DEF HSH_FindBan, Types
    <2>2. Moves(Lurker, "checked")
      BY <1>1, <2>1, QuietMoves
    <2> QED
      BY <2>1, <2>2 DEF OneMoves, Threads
  <1>7. CASE LoadLookup \/ EXP_Inject
    <2>1. PICK to : /\ Goto(Loader, to) /\ to # "hitref"
                    /\ oc' = oc /\ hd' = hd
                    /\ \A q \in Procs \ {Loader} : oh'[q] = oh[q]
      BY <1>1, <1>7 DEF LoadLookup, EXP_Inject, coreVars, Types
    <2>2. Moves(Loader, to)
      BY <1>1, <2>1, QuietMoves
    <2> QED
      BY <2>1, <2>2 DEF OneMoves, Threads
  <1>8. CASE HSH_Insert
    <2>1. PICK c \in Free : /\ hd' = [hd EXCEPT ![c] = oh[Loader]]
                            /\ oh' = [oh EXCEPT ![Loader] = None]
                            /\ oc' = oc /\ Goto(Loader, "inject")
      BY <1>8 DEF HSH_Insert
    <2>2. Moves(Loader, "inject")
      BY <1>1, <2>1, QuietMoves DEF Types
    <2>3. \A d \in Cores : hd'[d] = hd[d] \/ hd[d] = None
      BY <1>1, <2>1 DEF Types, Free
    <2> QED
      BY <2>1, <2>2, <2>3 DEF OneMoves, Threads
  <1> QED
    BY <1>2, <1>3, <1>4, <1>5, <1>6, <1>7, <1>8
    DEF TimerStep, LurkerStep, LoaderStep

\* The object of a hit hangs from the objhead the session carries.
HitOnHead == \A s \in Sess : pc[s] = "hitref" => hd[oc[s]] = oh[s]

\* A step of p keeps it, as long as nothing in use is freed.
LEMMA HitMoves ==
  ASSUME Shape, Shape', Intact, Intact', HitOnHead, NEW p \in Procs, OneMoves(p)
  PROVE  HitOnHead'
  <1> SUFFICES ASSUME NEW s \in Sess, pc'[s] = "hitref"
               PROVE  hd'[oc'[s]] = oh'[s]
    BY DEF HitOnHead
  <1>1. Types /\ Types' /\ SessOK(s) /\ s \in Procs
    BY SessOwn DEF Shape, Holding
  <1>2. PICK to : /\ Moves(p, to)
                  /\ to = "hitref" => p \in Sess /\ LookupHit(p)
                  /\ \A q \in Procs \ {p} : oc'[q] = oc[q]
                  /\ \A d \in Cores : hd'[d] = hd[d] \/ hd'[d] = None \/ hd[d] = None
    BY DEF OneMoves
  <1>3. CASE s = p
    <2>1. LookupHit(s)
      BY <1>2, <1>3 DEF Moves
    <2>2. PICK c \in objcs(oh[s]) : /\ oc' = [oc EXCEPT ![s] = c]
                                    /\ hd' = hd /\ oh' = oh
      BY <2>1 DEF LookupHit
    <2> QED
      BY <1>1, <2>2 DEF objcs, Types
  <1>4. CASE s # p
    <2>1. pc[s] = "hitref" /\ oh'[s] = oh[s] /\ oc'[s] = oc[s]
      BY <1>1, <1>2, <1>4 DEF Moves
    <2>2. oc[s] \in Cores /\ hd[oc[s]] # None /\ hd'[oc[s]] # None
      BY <1>1, <2>1 DEF SessOK, Types, Intact
    <2>3. hd'[oc[s]] = hd[oc[s]]
      BY <1>2, <2>2
    <2> QED
      BY <2>1, <2>3 DEF HitOnHead
  <1> QED
    BY <1>3, <1>4

\* The assertion of a hit, assert(oh->refcnt > 1) in HSH_Lookup, cannot fail:
\* the object hit hangs from the objhead whose reference is given up, and
\* holds one of its own.
THEOREM HitKeepsHeadTheorem ==
  ASSUME QueueMayRefuse = FALSE, Silo = FALSE
  PROVE  Spec => []HitKeepsHead
  <1>1. Init => HitOnHead
    BY DEF Init, HitOnHead, Procs
  <1>2. Shape /\ CoreInv => Intact
    BY ExactIntact DEF Shape, CoreInv
  <1>3. /\ Shape /\ Shape' /\ Intact /\ Intact' /\ HitOnHead /\ [Next]_vars
        => HitOnHead'
    <2> SUFFICES ASSUME Shape, Shape', Intact, Intact', HitOnHead, [Next]_vars
                 PROVE  HitOnHead'
      OBVIOUS
    <2>1. ASSUME NEW s \in Sess, SessStep(s)
          PROVE  HitOnHead'
      BY <2>1, SessMoves, HitMoves, SessOwn
    <2>2. ASSUME TimerStep \/ LurkerStep \/ LoaderStep
          PROVE  HitOnHead'
      <3>1. PICK p \in Threads : OneMoves(p)
        BY <2>2, ThreadMoves
      <3> QED
        BY <3>1, HitMoves DEF Procs
    <2>3. CASE (\E p \in Procs : HashDeref(p)) \/ UNCHANGED vars
      <3>1. UNCHANGED <<hd, pc, oc, oh>>
        BY <2>3 DEF HashDeref, vars, headVars, coreVars, procVars
      <3> QED
        BY <3>1 DEF HitOnHead
    <2> QED
      BY <2>1, <2>2, <2>3 DEF Next
  <1>4. Shape /\ Intact /\ HeadRefExact /\ HitOnHead => HitKeepsHead
    <2> SUFFICES ASSUME Shape, Intact, HeadRefExact, HitOnHead,
                        NEW s \in Sess, pc[s] = "hitref"
                 PROVE  hd[oc[s]] = oh[s] /\ ohRef[oh[s]] > 1
      BY DEF HitKeepsHead
    <2>1. Types /\ SessOK(s) /\ s \in Procs
      BY SessOwn DEF Shape, Holding
    <2>2. oh[s] \in Keys /\ oc[s] \in Cores /\ hd[oc[s]] = oh[s]
      BY <2>1 DEF SessOK, Types, HitOnHead
    <2>3. Count(hd, oh[s]) > 0 /\ Count(oh, oh[s]) > 0
      BY <2>1, <2>2, Domains, CountPositive
    <2>4. Count(hd, oh[s]) \in Nat /\ Count(oh, oh[s]) \in Nat
          /\ Count(drop, oh[s]) \in Nat
      BY <2>1, Domains
    <2>5. ohRef[oh[s]] = Count(hd, oh[s]) + Count(oh, oh[s]) + Count(drop, oh[s])
      BY <2>2 DEF HeadRefExact
    <2> QED
      BY <2>2, <2>3, <2>4, <2>5
  <1> QED
    BY <1>1, <1>2, <1>3, <1>4, ShapeInvariant, CoreInvariant, HeadRefTheorem, PTL
    DEF Spec

\* With a queue that refuses nobody and no silo, all the books of the cache are
\* right: counters, waiting lists and the objheads of hits (cache_hash.c).
THEOREM CacheTheorem ==
  ASSUME QueueMayRefuse = FALSE, Silo = FALSE
  PROVE  Spec => []CacheInv
  <1>1. TypeOK /\ HeadRefExact /\ CoreRefExact /\ WaitingListExact /\ HitKeepsHead
          => CacheInv
    BY DEF CacheInv
  <1> QED
    BY <1>1, TypeTheorem, HeadRefTheorem, CoreRefTheorem, WaitingListTheorem,
       HitKeepsHeadTheorem, PTL

\* Without a silo fetches are coalesced: one busy objcore for a key, only
\* complete objects delivered, only busy ones fetched into (HSH_Lookup).
THEOREM CoalescingTheorem ==
  ASSUME Silo = FALSE
  PROVE  Spec => []FetchesCoalesced
  <1>1. OneFetchPerKey /\ UsersSeeTheRightObject => FetchesCoalesced
    BY DEF FetchesCoalesced
  <1> QED
    BY <1>1, OneFetchTheorem, RightObjectTheorem, PTL

-----------------------------------------------------------------------------
(* Layer 4: parked sessions, when the worker queue refuses nobody. *)

\* hsh_rush leaves nobody on the list of k without a session that is on its way
\* to look k up, and does not disturb those that already are.
LEMMA RushServes ==
  ASSUME Shape, ~ QueueMayRefuse, NEW k \in Keys, NEW p \in Procs, NEW to,
         pc[p] \notin {"parked", "queued"}, hsh_rush(k, p, to)
  PROVE  /\ \A l \in Keys \ {k} : waiting'[l] = waiting[l]
         /\ \A q \in Sess : pc[q] = "queued" => pc'[q] = "queued" /\ oh'[q] = oh[q]
         /\ waiting'[k] # <<>> => \E q \in Sess : pc'[q] = "queued" /\ oh'[q] = k
  <1> DEFINE W == waiting[k]
  <1>0. Types /\ WaitingListExact /\ W \in Seq(Sess) /\ Len(W) \in Nat /\ DOMAIN W = 1 .. Len(W)
    BY DEF Shape, Types
  <1>1. PICK n \in 0 .. RushLimit(k), refused \in {0, 1} :
          /\ refused = 1 => QueueMayRefuse /\ n < RushLimit(k)
          /\ refused = 0 => n = RushLimit(k)
          /\ waiting' = [waiting EXCEPT ![k] = SubSeq(W, n + refused + 1, Len(W))]
          /\ pc' = [q \in Procs |->
                      CASE q = p -> to
                        [] q # p /\ q \in First(k, n) -> "queued"
                        [] q # p /\ q \in First(k, n + refused) \ First(k, n) -> "idle"
                        [] OTHER -> pc[q]]
          /\ oh' = [q \in Procs |->
                      IF q \in First(k, n + refused) \ First(k, n) THEN None ELSE oh[q]]
    BY DEF hsh_rush
  <1>2. refused = 0 /\ n = RushLimit(k) /\ n \in Nat /\ n + 0 = n /\ n <= Len(W)
    BY <1>0, <1>1, RushAssumption DEF RushLimit
  <1>3. /\ waiting' = [waiting EXCEPT ![k] = SubSeq(W, n + 1, Len(W))]
        /\ \A q \in Procs : pc'[q] = IF q = p THEN to
                                     ELSE IF q \in First(k, n) THEN "queued" ELSE pc[q]
        /\ \A q \in Procs : oh'[q] = oh[q]
    <2>1. First(k, n + refused) \ First(k, n) = {}
      BY <1>2
    <2> QED
      BY <1>1, <1>2, <2>1
  <1>4. \A l \in Keys \ {k} : waiting'[l] = waiting[l]
    BY <1>0, <1>3 DEF Types
  <1>5. \A q \in Sess : pc[q] = "queued" => pc'[q] = "queued" /\ oh'[q] = oh[q]
    BY <1>3 DEF Procs
  <1>6. ASSUME waiting'[k] # <<>>
        PROVE  \E q \in Sess : pc'[q] = "queued" /\ oh'[q] = k
    <2>1. waiting'[k] = SubSeq(W, n + 1, Len(W))
      BY <1>0, <1>3 DEF Types
    <2>2. n < Len(W)
      <3>1. CASE n = Len(W)
        <4>1. SubSeq(W, n + 1, Len(W)) = <<>>
          BY <1>0, <3>1
        <4> QED
          BY <1>6, <2>1, <4>1
      <3> QED
        BY <1>0, <1>2, <3>1
    <2>3. n >= 1
      BY <1>0, <1>2, <2>2, RushAssumption DEF RushLimit
    <2>4. 1 \in DOMAIN W /\ W[1] \in Sess /\ W[1] \in First(k, n)
      BY <1>0, <1>2, <2>2, <2>3 DEF First
    <2>5. pc[W[1]] = "parked" /\ oh[W[1]] = k
      BY <1>0, <2>4 DEF WaitingListExact
    <2>6. W[1] \in Procs /\ W[1] # p
      BY <2>4, <2>5 DEF Procs
    <2> QED
      BY <1>3, <2>4, <2>5, <2>6
  <1> QED
    BY <1>4, <1>5, <1>6

\* A step that calls hsh_rush on every objhead it takes something from.
LEMMA RushWakes ==
  ASSUME Shape, Shape', NoLostWakeup, ~ QueueMayRefuse,
         NEW k \in Keys, NEW p \in Procs, NEW to,
         pc[p] \notin {"parked", "queued"}, hsh_rush(k, p, to),
         \A d \in Cores : hd[d] \in Keys /\ hd[d] # k => hd'[d] = hd[d] /\ status'[d] = status[d],
         \A q \in Procs : oc'[q] = oc[q] \/ (oc[q] \in Cores /\ hd[oc[q]] = k)
  PROVE  NoLostWakeup'
  <1>1. /\ \A l \in Keys \ {k} : waiting'[l] = waiting[l]
        /\ \A q \in Sess : pc[q] = "queued" => pc'[q] = "queued" /\ oh'[q] = oh[q]
        /\ waiting'[k] # <<>> => \E q \in Sess : pc'[q] = "queued" /\ oh'[q] = k
    BY RushServes
  <1> SUFFICES ASSUME NEW l \in Keys, waiting'[l] # <<>>
               PROVE  \/ \E c \in Cores : hd'[c] = l /\ status'[c] \in {"busy", "fetch"}
                      \/ \E q \in Procs : oc'[q] \in Cores /\ hd'[oc'[q]] = l
                      \/ \E s \in Sess : pc'[s] = "queued" /\ oh'[s] = l
    BY DEF NoLostWakeup, objcs, Busy
  <1>2. CASE l = k
    BY <1>1, <1>2
  <1>3. CASE l # k
    <2>1. waiting[l] # <<>>
      BY <1>1, <1>3
    <2>2. \/ \E c \in Cores : hd[c] = l /\ status[c] \in {"busy", "fetch"}
          \/ \E q \in Procs : oc[q] \in Cores /\ hd[oc[q]] = l
          \/ \E s \in Sess : pc[s] = "queued" /\ oh[s] = l
      BY <2>1 DEF NoLostWakeup, objcs, Busy
    <2>3. ASSUME NEW c \in Cores, hd[c] = l, status[c] \in {"busy", "fetch"}
          PROVE  hd'[c] = l /\ status'[c] \in {"busy", "fetch"}
      BY <1>3, <2>3
    <2>4. ASSUME NEW q \in Procs, oc[q] \in Cores, hd[oc[q]] = l
          PROVE  oc'[q] \in Cores /\ hd'[oc'[q]] = l
      BY <1>3, <2>4
    <2>5. ASSUME NEW s \in Sess, pc[s] = "queued", oh[s] = l
          PROVE  pc'[s] = "queued" /\ oh'[s] = l
      BY <1>1, <2>5
    <2> QED
      BY <2>2, <2>3, <2>4, <2>5
  <1> QED
    BY <1>2, <1>3

\* A step that takes nothing from any objhead; a session that was on its way
\* has arrived at an object, or has left a busy one behind.
LEMMA CalmWakes ==
  ASSUME Shape, Shape', NoLostWakeup, waiting' = waiting,
         \A d \in Cores : hd[d] # None =>
           /\ hd'[d] = hd[d]
           /\ status[d] \in {"busy", "fetch"} => status'[d] \in {"busy", "fetch"},
         \A q \in Procs : oc[q] # None => oc'[q] = oc[q],
         \A q \in Sess : pc[q] = "queued" =>
           \/ pc'[q] = "queued" /\ oh'[q] = oh[q]
           \/ \E c \in Cores : hd'[c] = oh[q] /\ status'[c] \in {"busy", "fetch"}
           \/ \E r \in Procs : oc'[r] \in Cores /\ hd'[oc'[r]] = oh[q]
  PROVE  NoLostWakeup'
  <1> SUFFICES ASSUME NEW l \in Keys, waiting'[l] # <<>>
               PROVE  \/ \E c \in Cores : hd'[c] = l /\ status'[c] \in {"busy", "fetch"}
                      \/ \E q \in Procs : oc'[q] \in Cores /\ hd'[oc'[q]] = l
                      \/ \E s \in Sess : pc'[s] = "queued" /\ oh'[s] = l
    BY DEF NoLostWakeup, objcs, Busy
  <1>1. l # None
    BY KeysAssumption
  <1>2. \/ \E c \in Cores : hd[c] = l /\ status[c] \in {"busy", "fetch"}
        \/ \E q \in Procs : oc[q] \in Cores /\ hd[oc[q]] = l
        \/ \E s \in Sess : pc[s] = "queued" /\ oh[s] = l
    BY DEF NoLostWakeup, objcs, Busy
  <1>3. ASSUME NEW c \in Cores, hd[c] = l, status[c] \in {"busy", "fetch"}
        PROVE  hd'[c] = l /\ status'[c] \in {"busy", "fetch"}
    BY <1>1, <1>3
  <1>4. ASSUME NEW q \in Procs, oc[q] \in Cores, hd[oc[q]] = l
        PROVE  oc'[q] \in Cores /\ hd'[oc'[q]] = l
    BY <1>1, <1>4, CoresAssumption
  <1> QED
    BY <1>2, <1>3, <1>4

\* A session's steps.
LEMMA SessWakes ==
  ASSUME Shape, Shape', NoLostWakeup, Intact, ~ QueueMayRefuse, NEW s \in Sess, SessStep(s)
  PROVE  NoLostWakeup'
  <1>0. Types /\ Types' /\ SessOK(s) /\ s \in Procs
    BY DEF Shape, Holding, Procs
  <1> USE DEF Goto, InLookup, Settled
  <1>1. CASE \/ HashLookup(s) \/ HitDeref(s) \/ NewObject(s) \/ EXP_NukeOne(s)
             \/ HSH_Ref(s) \/ EXP_Insert(s)
    <2>1. waiting' = waiting /\ hd' = hd /\ oc' = oc
      BY <1>1 DEF HashLookup, HitDeref, NewObject, EXP_NukeOne, HSH_Ref, EXP_Insert,
                  headVars, coreVars
    <2>2. \A d \in Cores : status[d] \in {"busy", "fetch"} => status'[d] \in {"busy", "fetch"}
      BY <1>0, <1>1 DEF HashLookup, HitDeref, NewObject, EXP_NukeOne, HSH_Ref, EXP_Insert,
                        coreVars, Types
    <2>3. \A q \in Sess : pc[q] = "queued" => pc'[q] = "queued" /\ oh'[q] = oh[q]
      <3>1. pc[s] # "queued"
        BY <1>1 DEF HashLookup, HitDeref, NewObject, EXP_NukeOne, HSH_Ref, EXP_Insert
      <3>2. \A q \in Procs \ {s} : pc'[q] = pc[q] /\ oh'[q] = oh[q]
        BY <1>0, <1>1 DEF HashLookup, HitDeref, NewObject, EXP_NukeOne, HSH_Ref, EXP_Insert, Types
      <3> QED
        BY <3>1, <3>2 DEF Procs
    <2> QED
      BY <2>1, <2>2, <2>3, CalmWakes
  <1>2. CASE LookupHit(s)
    <2>1. PICK c \in Cores, fix \in SUBSET Cores :
            /\ hd[c] = oh[s] /\ pc[s] \in {"scan", "queued", "spin"}
            /\ \A d \in fix : status[d] = "vampire"
            /\ status' = [d \in Cores |-> IF d \in fix THEN "ready" ELSE status[d]]
            /\ oc' = [oc EXCEPT ![s] = c] /\ pc' = [pc EXCEPT ![s] = "hitref"]
            /\ waiting' = waiting /\ hd' = hd /\ oh' = oh
      BY <1>2 DEF LookupHit, SMP_Fixup, Vampires, objcs, headVars
    <2>2. oc[s] = None
      BY <1>0, <2>1 DEF SessOK
    <2>3. oc'[s] = c /\ hd'[c] = oh[s] /\ \A q \in Procs \ {s} : pc'[q] = pc[q] /\ oc'[q] = oc[q]
      BY <1>0, <2>1 DEF Types
    <2>4. \A d \in Cores : status[d] \in {"busy", "fetch"} => status'[d] \in {"busy", "fetch"}
      BY <2>1
    <2>5. \A q \in Sess : pc[q] = "queued" =>
            \/ pc'[q] = "queued" /\ oh'[q] = oh[q]
            \/ \E r \in Procs : oc'[r] \in Cores /\ hd'[oc'[r]] = oh[q]
      BY <1>0, <2>1, <2>3 DEF Procs
    <2> QED
      BY <2>1, <2>2, <2>3, <2>4, <2>5, CalmWakes
  <1>3. ASSUME NEW esi \in BOOLEAN, LookupBusy(s, esi) PROVE NoLostWakeup'
    <2>1. PICK c \in Cores : hd[c] = oh[s] /\ status[c] \in {"busy", "fetch"}
      BY <1>3 DEF LookupBusy, Busy, objcs
    <2>2. /\ pc[s] \in {"scan", "queued", "spin"} /\ oh[s] \in Keys
          /\ hd' = hd /\ oh' = oh /\ oc' = oc
          /\ status' = [d \in Cores |-> IF d \in Vampires(oh[s]) THEN "ready" ELSE status[d]]
          /\ \A q \in Procs \ {s} : pc'[q] = pc[q]
          /\ \A l \in Keys \ {oh[s]} : waiting'[l] = waiting[l]
      BY <1>0, <1>3 DEF LookupBusy, SMP_Fixup, Types
    <2>3. \A d \in Cores : status[d] \in {"busy", "fetch"} => status'[d] \in {"busy", "fetch"}
      BY <2>2 DEF Vampires
    <2>4. hd'[c] = oh[s] /\ status'[c] \in {"busy", "fetch"}
      BY <2>1, <2>2, <2>3
    <2> SUFFICES ASSUME NEW l \in Keys, waiting'[l] # <<>>, l # oh[s]
                 PROVE  \/ \E d \in Cores : hd'[d] = l /\ status'[d] \in {"busy", "fetch"}
                        \/ \E q \in Procs : oc'[q] \in Cores /\ hd'[oc'[q]] = l
                        \/ \E q \in Sess : pc'[q] = "queued" /\ oh'[q] = l
      BY <2>4 DEF NoLostWakeup, objcs, Busy
    <2>5. \/ \E d \in Cores : hd[d] = l /\ status[d] \in {"busy", "fetch"}
          \/ \E q \in Procs : oc[q] \in Cores /\ hd[oc[q]] = l
          \/ \E q \in Sess : pc[q] = "queued" /\ oh[q] = l
      BY <2>2 DEF NoLostWakeup, objcs, Busy
    <2>6. ASSUME NEW q \in Sess, pc[q] = "queued", oh[q] = l
          PROVE  pc'[q] = "queued" /\ oh'[q] = l
      BY <2>2, <2>6 DEF Procs
    <2> QED
      BY <2>2, <2>3, <2>5, <2>6
  <1>4. CASE LookupMiss(s)
    <2>1. PICK c \in Cores :
            /\ hd[c] = None /\ pc[s] \in {"scan", "queued", "spin"}
            /\ hd' = [hd EXCEPT ![c] = oh[s]]
            /\ status' = [d \in Cores |-> CASE d = c -> "busy"
                                            [] d # c /\ d \in Vampires(oh[s]) -> "ready"
                                            [] OTHER -> status[d]]
            /\ oc' = [oc EXCEPT ![s] = c] /\ pc' = [pc EXCEPT ![s] = "miss"]
            /\ oh' = [oh EXCEPT ![s] = None] /\ waiting' = waiting
      BY <1>4 DEF LookupMiss, Free, headVars
    <2>2. oc[s] = None
      BY <1>0, <2>1 DEF SessOK
    <2>3. hd'[c] = oh[s] /\ status'[c] = "busy"
      BY <1>0, <2>1 DEF Types
    <2>4. \A q \in Procs \ {s} : pc'[q] = pc[q] /\ oc'[q] = oc[q] /\ oh'[q] = oh[q]
      BY <1>0, <2>1 DEF Types
    <2>5. \A d \in Cores : hd[d] # None =>
           /\ hd'[d] = hd[d]
           /\ status[d] \in {"busy", "fetch"} => status'[d] \in {"busy", "fetch"}
      <3> SUFFICES ASSUME NEW d \in Cores, hd[d] # None
                   PROVE  /\ hd'[d] = hd[d]
                          /\ status[d] \in {"busy", "fetch"} => status'[d] \in {"busy", "fetch"}
        OBVIOUS
      <3>1. d # c
        BY <2>1
      <3>2. status'[d] = IF d \in Vampires(oh[s]) THEN "ready" ELSE status[d]
        BY <2>1, <3>1
      <3> QED
        BY <1>0, <2>1, <3>1, <3>2 DEF Types, Vampires
    <2>6. \A q \in Sess : pc[q] = "queued" =>
            \/ pc'[q] = "queued" /\ oh'[q] = oh[q]
            \/ \E d \in Cores : hd'[d] = oh[q] /\ status'[d] \in {"busy", "fetch"}
      BY <2>3, <2>4 DEF Procs
    <2> QED
      BY <2>1, <2>2, <2>4, <2>5, <2>6, CalmWakes
  <1>5. CASE DerefObjCore(s) \/ NukeDeref(s) \/ HSH_Drop(s) \/ HSH_Unbusy(s) \/ DeliverDeref(s)
    <2>1. PICK c \in Cores, to \in SessPC :
            /\ c \in {oc[s], xr[s]} /\ hd[c] \in Keys /\ hsh_rush(hd[c], s, to)
            /\ \A d \in Cores \ {c} : hd'[d] = hd[d] /\ status'[d] = status[d]
            /\ oc' = oc \/ (c = oc[s] /\ oc' = [oc EXCEPT ![s] = None])
      <3>1. CASE DerefObjCore(s) \/ DeliverDeref(s)
        <4>1. oc[s] \in Cores /\ hd[oc[s]] \in Keys
          BY <1>0, <3>1, CoresAssumption DEF DerefObjCore, DeliverDeref, Types, SessOK, Intact
        <4>2. /\ hsh_rush(hd[oc[s]], s, "idle") /\ oc' = [oc EXCEPT ![s] = None]
              /\ FreeCore(oc[s], s) \/ DropCoreRef(oc[s], s)
          BY <3>1 DEF DerefObjCore, DeliverDeref
        <4>3. \A d \in Cores \ {oc[s]} : hd'[d] = hd[d] /\ status'[d] = status[d]
          BY <1>0, <4>1, <4>2 DEF FreeCore, DropCoreRef, Types
        <4> QED
          BY <4>1, <4>2, <4>3 DEF SessPC
      <3>2. CASE NukeDeref(s)
        <4>1. xr[s] \in Cores /\ hd[xr[s]] \in Keys /\ pc[s] \in SessPC
          BY <1>0, <3>2, CoresAssumption DEF NukeDeref, Types, SessOK, Intact
        <4>2. hsh_rush(hd[xr[s]], s, pc[s]) /\ oc' = oc /\ DropCoreRef(xr[s], s)
          BY <3>2 DEF NukeDeref
        <4>3. \A d \in Cores \ {xr[s]} : hd'[d] = hd[d] /\ status'[d] = status[d]
          BY <1>0, <4>1, <4>2 DEF FreeCore, DropCoreRef, Types
        <4> QED
          BY <4>1, <4>2, <4>3
      <3>3. CASE HSH_Drop(s) \/ HSH_Unbusy(s)
        <4>1. oc[s] \in Cores /\ hd[oc[s]] \in Keys
          BY <1>0, <3>3, CoresAssumption DEF HSH_Drop, HSH_Unbusy, Types, SessOK, Intact
        <4>2. PICK to \in {"dropped", "deliver"} : hsh_rush(hd[oc[s]], s, to)
          BY <3>3 DEF HSH_Drop, HSH_Unbusy
        <4>3. hd' = hd /\ oc' = oc /\ \A d \in Cores \ {oc[s]} : status'[d] = status[d]
          BY <1>0, <3>3 DEF HSH_Drop, HSH_Unbusy, Types
        <4> QED
          BY <4>1, <4>2, <4>3 DEF SessPC
      <3> QED
        BY <1>5, <3>1, <3>2, <3>3
    <2>2. pc[s] \notin {"parked", "queued"}
      BY <1>5 DEF DerefObjCore, NukeDeref, HSH_Drop, HSH_Unbusy, DeliverDeref
    <2>3. PICK k \in Keys : k = hd[c]
      BY <2>1
    <2>4. \A d \in Cores : hd[d] \in Keys /\ hd[d] # k => hd'[d] = hd[d] /\ status'[d] = status[d]
      BY <2>1, <2>3
    <2>5. \A q \in Procs : oc'[q] = oc[q] \/ (oc[q] \in Cores /\ hd[oc[q]] = k)
      BY <1>0, <2>1, <2>3 DEF Types
    <2> QED
      BY <1>0, <2>1, <2>2, <2>3, <2>4, <2>5, RushWakes
  <1> QED
    BY <1>1, <1>2, <1>3, <1>4, <1>5 DEF SessStep

\* The threads' steps.  HSH_DerefObjCore of a vampire calls hsh_rush only when
\* it is busy; when it is not, whoever used it now uses freed memory.
LEMMA ThreadWakes ==
  ASSUME Shape, Shape', NoLostWakeup, Intact, Intact', ~ QueueMayRefuse,
         TimerStep \/ LurkerStep \/ LoaderStep
  PROVE  NoLostWakeup'
  <1>0. /\ Types /\ Types' /\ TimerOK /\ LurkerOK /\ LoaderOK
        /\ Timer \in Procs /\ Lurker \in Procs /\ Loader \in Procs
    BY ThreadOwn DEF Shape, Holding
  <1>00. Sess \subseteq Procs \ {Timer, Lurker, Loader}
    BY SessAssumption DEF Procs, Threads
  <1> USE DEF Goto, Settled
  <1>1. CASE TimerPop \/ TimerFlag \/ HSH_FindBan \/ LoadLookup \/ EXP_Inject
    <2>1. waiting' = waiting /\ hd' = hd
      BY <1>1 DEF TimerPop, TimerFlag, HSH_FindBan, LoadLookup, EXP_Inject, headVars, coreVars
    <2>2. \A d \in Cores : status[d] \in {"busy", "fetch"} => status'[d] \in {"busy", "fetch"}
      BY <1>0, <1>1 DEF TimerPop, TimerFlag, HSH_FindBan, LoadLookup, EXP_Inject, coreVars,
                        SMP_Fixup, Vampires
    <2>3. \A q \in Procs : oc[q] # None => oc'[q] = oc[q]
      BY <1>0, <1>1 DEF TimerPop, TimerFlag, HSH_FindBan, LoadLookup, EXP_Inject, Types, LurkerOK
    <2>4. \A q \in Sess : pc'[q] = pc[q] /\ oh'[q] = oh[q]
      BY <1>0, <1>00, <1>1 DEF TimerPop, TimerFlag, HSH_FindBan, LoadLookup, EXP_Inject, Types
    <2> QED
      BY <2>1, <2>2, <2>3, <2>4, CalmWakes
  <1>2. CASE HSH_Insert
    <2>1. PICK c \in Cores :
            /\ hd[c] = None /\ hd' = [hd EXCEPT ![c] = oh[Loader]]
            /\ status' = [status EXCEPT ![c] = "vampire"] /\ oc' = oc
            /\ oh' = [oh EXCEPT ![Loader] = None] /\ pc' = [pc EXCEPT ![Loader] = "inject"]
            /\ waiting' = waiting
      BY <1>2 DEF HSH_Insert, Free, headVars
    <2>2. \A d \in Cores : hd[d] # None => hd'[d] = hd[d] /\ status'[d] = status[d]
      BY <1>0, <2>1 DEF Types
    <2>3. \A q \in Sess : pc'[q] = pc[q] /\ oh'[q] = oh[q]
      BY <1>0, <1>00, <2>1 DEF Types
    <2> QED
      BY <2>1, <2>2, <2>3, CalmWakes
  <1>3. CASE TimerDeref \/ LurkerDeref \/ TimerDerefObjCore
    <2>1. PICK p \in {Timer, Lurker}, c \in Cores :
            /\ c \in {oc[p], xr[p]} /\ hd[c] \in Keys /\ p \in Procs
            /\ pc[p] \in {"kill", "checked", "killcore"}
            /\ \A d \in Cores \ {c} : hd'[d] = hd[d] /\ status'[d] = status[d]
            /\ oc' = oc \/ (c = oc[p] /\ oc' = [oc EXCEPT ![p] = None])
            /\ \/ hsh_rush(hd[c], p, "idle")
               \/ /\ ~Busy(c) /\ hd'[c] = None /\ oc' = oc
                  /\ pc' = [pc EXCEPT ![p] = "idle"] /\ waiting' = waiting /\ oh' = oh
      <3>1. CASE TimerDeref
        <4>1. xr[Timer] \in Cores /\ hd[xr[Timer]] \in Keys /\ pc[Timer] = "kill"
          BY <1>0, <3>1, CoresAssumption DEF TimerDeref, Types, TimerOK, Intact
        <4>2. hsh_rush(hd[xr[Timer]], Timer, "idle") /\ oc' = oc /\ DropCoreRef(xr[Timer], Timer)
          BY <3>1 DEF TimerDeref
        <4>3. \A d \in Cores \ {xr[Timer]} : hd'[d] = hd[d] /\ status'[d] = status[d]
          BY <1>0, <4>1, <4>2 DEF FreeCore, DropCoreRef, Types
        <4> QED
          BY <1>0, <4>1, <4>2, <4>3
      <3>2. CASE LurkerDeref
        <4>1. oc[Lurker] \in Cores /\ hd[oc[Lurker]] \in Keys /\ pc[Lurker] = "checked"
          BY <1>0, <3>2, CoresAssumption DEF LurkerDeref, Types, LurkerOK, Intact
        <4>2. /\ hsh_rush(hd[oc[Lurker]], Lurker, "idle") /\ DropCoreRef(oc[Lurker], Lurker)
              /\ oc' = [oc EXCEPT ![Lurker] = None]
          BY <3>2 DEF LurkerDeref
        <4>3. \A d \in Cores \ {oc[Lurker]} : hd'[d] = hd[d] /\ status'[d] = status[d]
          BY <1>0, <4>1, <4>2 DEF FreeCore, DropCoreRef, Types
        <4> QED
          BY <1>0, <4>1, <4>2, <4>3
      <3>3. CASE TimerDerefObjCore
        <4>1. xr[Timer] \in Cores /\ hd[xr[Timer]] \in Keys /\ pc[Timer] = "killcore"
          BY <1>0, <3>3, CoresAssumption DEF TimerDerefObjCore, Types, TimerOK, Intact
        <4>2. /\ FreeCore(xr[Timer], Timer) /\ oc' = oc
              /\ \/ hsh_rush(hd[xr[Timer]], Timer, "idle")
                 \/ /\ ~Busy(xr[Timer]) /\ pc' = [pc EXCEPT ![Timer] = "idle"]
                    /\ waiting' = waiting /\ oh' = oh
          BY <3>3 DEF TimerDerefObjCore
        <4>3. /\ \A d \in Cores \ {xr[Timer]} : hd'[d] = hd[d] /\ status'[d] = status[d]
              /\ hd'[xr[Timer]] = None
          BY <1>0, <4>1, <4>2 DEF FreeCore, Types
        <4> QED
          BY <1>0, <4>1, <4>2, <4>3
      <3> QED
        BY <1>3, <3>1, <3>2, <3>3
    <2>2. CASE hsh_rush(hd[c], p, "idle")
      <3>1. PICK k \in Keys : k = hd[c]
        BY <2>1
      <3>2. \A d \in Cores : hd[d] \in Keys /\ hd[d] # k => hd'[d] = hd[d] /\ status'[d] = status[d]
        BY <2>1, <3>1
      <3>3. \A q \in Procs : oc'[q] = oc[q] \/ (oc[q] \in Cores /\ hd[oc[q]] = k)
        BY <1>0, <2>1, <3>1 DEF Types
      <3> QED
        BY <2>1, <2>2, <3>1, <3>2, <3>3, RushWakes
    <2>3. CASE ~hsh_rush(hd[c], p, "idle")
      <3>1. /\ ~Busy(c) /\ hd'[c] = None /\ oc' = oc
            /\ pc' = [pc EXCEPT ![p] = "idle"] /\ waiting' = waiting /\ oh' = oh
        BY <2>1, <2>3
      <3>2. \A q \in Procs : oc[q] # c
        BY <3>1, CoresAssumption DEF Intact
      <3>3. \A q \in Sess : pc'[q] = pc[q] /\ oh'[q] = oh[q]
        BY <1>0, <1>00, <2>1, <3>1 DEF Types
      <3> SUFFICES ASSUME NEW l \in Keys, waiting'[l] # <<>>
                   PROVE  \/ \E d \in Cores : hd'[d] = l /\ status'[d] \in {"busy", "fetch"}
                          \/ \E q \in Procs : oc'[q] \in Cores /\ hd'[oc'[q]] = l
                          \/ \E q \in Sess : pc'[q] = "queued" /\ oh'[q] = l
        BY DEF NoLostWakeup, objcs, Busy
      <3>4. \/ \E d \in Cores : hd[d] = l /\ status[d] \in {"busy", "fetch"}
            \/ \E q \in Procs : oc[q] \in Cores /\ hd[oc[q]] = l
            \/ \E q \in Sess : pc[q] = "queued" /\ oh[q] = l
        BY <3>1 DEF NoLostWakeup, objcs, Busy
      <3>5. ASSUME NEW d \in Cores, hd[d] = l, status[d] \in {"busy", "fetch"}
            PROVE  hd'[d] = l /\ status'[d] \in {"busy", "fetch"}
        BY <2>1, <3>1, <3>5 DEF Busy
      <3>6. ASSUME NEW q \in Procs, oc[q] \in Cores, hd[oc[q]] = l
            PROVE  oc'[q] \in Cores /\ hd'[oc'[q]] = l
        BY <2>1, <3>1, <3>2, <3>6
      <3> QED
        BY <3>3, <3>4, <3>5, <3>6
    <2> QED
      BY <2>2, <2>3
  <1> QED
    BY <1>1, <1>2, <1>3 DEF TimerStep, LurkerStep, LoaderStep

\* A parked session keeps its waker as long as nothing freed is in use.
LEMMA WakeStep ==
  ASSUME Shape, Shape', Intact => NoLostWakeup, ~ QueueMayRefuse, [Next]_vars
  PROVE  Intact' => NoLostWakeup'
  <1> SUFFICES ASSUME Intact' PROVE NoLostWakeup'
    OBVIOUS
  <1>1. CASE UNCHANGED vars
    <2>1. Intact
      BY <1>1 DEF Intact, vars, coreVars, procVars
    <2> QED
      BY <1>1, <2>1 DEF NoLostWakeup, objcs, Busy, vars, headVars, coreVars, procVars
  <1>2. CASE Next
    <2>1. Intact /\ NoLostWakeup
      BY <1>2 DEF Next
    <2>2. ASSUME NEW p \in Procs, HashDeref(p) PROVE NoLostWakeup'
      BY <2>1, <2>2 DEF HashDeref, coreVars, NoLostWakeup, objcs, Busy
    <2> QED
      BY <1>2, <2>1, <2>2, SessWakes, ThreadWakes DEF Next
  <1> QED
    BY <1>1, <1>2

\* When the worker queue refuses nobody, the objhead counters are exact and
\* whoever waits on an objhead has a waker (hsh_rush of HSH_Unbusy, HSH_Drop,
\* HSH_Deref and HSH_DerefObjCore), persistent storage included, until a thread
\* runs into an objcore that was freed unseen.
THEOREM HeadsServedTheorem ==
  ASSUME QueueMayRefuse = FALSE
  PROVE  Spec => []HeadsServed
  <1>1. Init => (Intact => NoLostWakeup)
    BY DEF Init, NoLostWakeup
  <1>2. Shape /\ Shape' /\ (Intact => NoLostWakeup) /\ [Next]_vars => (Intact => NoLostWakeup)'
    BY WakeStep
  <1>3. HeadRefExact /\ (Intact => NoLostWakeup) => HeadsServed
    BY DEF HeadsServed
  <1> QED
    BY <1>1, <1>2, <1>3, ShapeInvariant, HeadRefTheorem, PTL DEF Spec

\* Without a silo nothing freed is ever in use: no wakeup is lost at all, for
\* any number of sessions and any rush_exponent (hsh_rush).
THEOREM NoLostWakeupTheorem ==
  ASSUME QueueMayRefuse = FALSE, Silo = FALSE
  PROVE  Spec => []NoLostWakeup
  <1>1. HeadsServed /\ NoUseAfterFree => NoLostWakeup
    BY DEF HeadsServed, NoUseAfterFree
  <1> QED
    BY <1>1, HeadsServedTheorem, NoUseAfterFreeTheorem, PTL
=============================================================================
