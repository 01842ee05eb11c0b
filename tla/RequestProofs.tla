--------------------------- MODULE RequestProofs ---------------------------
(***************************************************************************)
(* Proofs about the request state machine, about the backends that it uses *)
(* (the second part of this module) and about the directors that choose    *)
(* them (the third).                                                       *)
(*                                                                         *)
(* Proofs about Request (cache_center.c): whatever the VCL program, the    *)
(* client, the backends and the cache answer, the handlers' ledger is      *)
(* balanced, their assertions hold, who waits keeps nothing, and a request *)
(* is answered once, for any max_restarts and max_esi_includes.            *)
(*                                                                         *)
(* The properties say little of most steps; what makes them inductive is   *)
(* AtStep, which says for every step of CNT_Session what the session and   *)
(* the worker point to when the handler is entered.                        *)
(***************************************************************************)
EXTENDS Request, Backend, Director, SequenceTheorems, FiniteSetTheorems,
        WellFoundedInduction, TLAPS

Session ==
  [step : Steps, fd : BOOLEAN, vcl : BOOLEAN, obj : ObjKinds,
   objcore : BOOLEAN, director : BOOLEAN, vbe : BOOLEAN,
   restarts : 0 .. MaxRestarts, doclose : BOOLEAN, xid : BOOLEAN,
   disable_esi : BOOLEAN, bits : 0 .. MaxIncludes]

Pointers ==
  [vcl : BOOLEAN, bereq : BOOLEAN, beresp : BOOLEAN, resp : BOOLEAN,
   handling : Returns.fetch \cup {"none"}]

Counts == [obj : Int, busy : Int, vcl : Int, conn : Int]

\* An object ESI_Deliver has set aside is complete: it is being delivered.
Saved == [obj : {"cached", "anon"}, bits : 0 .. MaxIncludes]

\* TypeOK, with what it says of the stack made precise.
Types ==
  /\ sp \in Session
  /\ stack \in Seq(Saved) /\ Len(stack) <= MaxEsi
  /\ w \in Pointers
  /\ at \in {"worker", "spin", "parked", "waiter", "free", "leaked"}
  /\ wrk \in {"session", "returned", "idle"}
  /\ wrk = "session" <=> at \in {"worker", "spin"}
  /\ held \in Counts
  /\ waits \in 0 .. MaxWaits
  /\ told \in {"nothing", "answer", "twice", "pipe", "no backend"}
  /\ panic \in {"none", "INCOMPL", "cnt_pass", "worker"}

\* The ledger, also of a child that has panicked.
Ledger ==
  /\ held.obj = Len(stack) + One(sp.obj # "none")
  /\ held.busy = One(sp.objcore) + One(sp.obj = "busy")
  /\ held.vcl = One(sp.vcl) + One(w.vcl)
  /\ held.conn = One(sp.vbe)

\* The steps of a session between two requests, and of one with a request
\* that is not answered yet.
Between == {"FIRST", "WAIT", "START"}
Working == {"RECV", "LOOKUP", "HIT", "MISS", "PASS", "PIPE", "PIPING", "FETCH",
            "HDR", "BODY", "ERROR", "DELIVER"}

\* What the session has in its hands at each step of CNT_Session.
AtStep ==
  at \in {"worker", "spin", "parked"} =>
    /\ sp.step \in Between => ~sp.vcl /\ ~sp.xid /\ ~sp.director
                                   /\ sp.restarts = 0 /\ stack = <<>>
    /\ sp.step \in Working \cup {"ESI"} => sp.vcl
    /\ sp.obj # "none" => sp.step \in {"HIT", "BODY", "DELIVER", "ESI"}
    /\ sp.step \in {"DELIVER", "ESI"} => sp.obj \in {"cached", "anon"}
    /\ sp.step = "HIT" => sp.obj = "cached"
    /\ sp.step = "BODY" => sp.obj \in {"busy", "anon"}
    /\ sp.objcore => sp.step \in {"MISS", "FETCH", "HDR"}
    /\ sp.step = "MISS" => sp.objcore
    /\ sp.vbe <=> sp.step \in {"PIPING", "HDR", "BODY"}
    /\ sp.step = "RECV" => ~sp.director
    /\ sp.step \in {"LOOKUP", "HIT", "MISS", "PASS", "FETCH", "HDR", "BODY"} =>
         sp.director /\ sp.restarts < MaxRestarts
    /\ sp.step \in {"FETCH", "HDR", "BODY"} => w.bereq
    /\ w.beresp <=> sp.step \in {"HDR", "BODY"}
    /\ sp.step \in {"DELIVER", "ESI"} => ~w.bereq
    /\ stack = <<>> /\ sp.step \notin {"ESI", "DONE"} => sp.fd
    /\ sp.step \in {"PIPE", "PIPING"} => stack = <<>>
    /\ stack # <<>> => sp.vcl
    /\ stack # <<>> /\ sp.step = "DONE" => ~w.bereq

\* Who has the session while it is not on a worker.
OffWorker ==
  /\ at \in {"spin", "parked"} => sp.step = "LOOKUP"
  /\ at \in {"parked", "waiter", "free", "leaked"} => stack = <<>>
  /\ at \in {"waiter", "free", "leaked"} =>
       ~sp.vcl /\ sp.obj = "none" /\ ~sp.objcore /\ ~sp.vbe
  /\ at \in {"free", "leaked"} => ~sp.fd
  /\ at = "waiter" => sp.fd /\ ~sp.xid /\ ~sp.director /\ sp.restarts = 0
  /\ wrk # "session" => ~w.beresp

\* What the client has got.
Told ==
  /\ told # "twice"
  /\ stack # <<>> => told = "answer" /\ ~sp.disable_esi
  /\ at \in {"worker", "spin", "parked"} =>
       /\ sp.step \in Working \ {"PIPING"} /\ stack = <<>> => told = "nothing"
       /\ sp.step = "ESI" => told = "answer" /\ ~sp.disable_esi
       /\ sp.step \in Between => told # "pipe"
       /\ sp.step = "DONE" /\ stack = <<>> /\ sp.fd => told \in {"answer", "no backend"}
  /\ at = "waiter" => told # "pipe"

IInv == Types /\ Ledger /\ AtStep /\ OffWorker /\ Told

-----------------------------------------------------------------------------
(* What the steps of a handler do to the session. *)

\* The session is a record with the fields of a session.
Shaped ==
  sp' = [step |-> sp'.step, fd |-> sp'.fd, vcl |-> sp'.vcl, obj |-> sp'.obj,
            objcore |-> sp'.objcore, director |-> sp'.director, vbe |-> sp'.vbe,
            restarts |-> sp'.restarts, doclose |-> sp'.doclose, xid |-> sp'.xid,
            disable_esi |-> sp'.disable_esi, bits |-> sp'.bits]

\* A step changes no other field of the session than those in F.
Changes(F) ==
  /\ "step" \in F \/ sp'.step = sp.step
  /\ "fd" \in F \/ sp'.fd = sp.fd
  /\ "vcl" \in F \/ sp'.vcl = sp.vcl
  /\ "obj" \in F \/ sp'.obj = sp.obj
  /\ "objcore" \in F \/ sp'.objcore = sp.objcore
  /\ "director" \in F \/ sp'.director = sp.director
  /\ "vbe" \in F \/ sp'.vbe = sp.vbe
  /\ "restarts" \in F \/ sp'.restarts = sp.restarts
  /\ "doclose" \in F \/ sp'.doclose = sp.doclose
  /\ "xid" \in F \/ sp'.xid = sp.xid
  /\ "disable_esi" \in F \/ sp'.disable_esi = sp.disable_esi
  /\ "bits" \in F \/ sp'.bits = sp.bits

\* A record with the fields of a session, of their types, is one.
LEMMA TypedSession ==
  ASSUME Shaped,
         sp'.step \in Steps, sp'.fd \in BOOLEAN, sp'.vcl \in BOOLEAN,
         sp'.obj \in ObjKinds, sp'.objcore \in BOOLEAN, sp'.director \in BOOLEAN,
         sp'.vbe \in BOOLEAN, sp'.restarts \in 0 .. MaxRestarts,
         sp'.doclose \in BOOLEAN, sp'.xid \in BOOLEAN,
         sp'.disable_esi \in BOOLEAN, sp'.bits \in 0 .. MaxIncludes
  PROVE  sp' \in Session
  BY DEF Shaped, Session

\* The depth of includes is 0 exactly when nothing is set aside.
LEMMA NoIncludes == Types => (stack = <<>> <=> esis = 0)
  <1>1. ASSUME NEW S, NEW s \in Seq(S) PROVE s = <<>> <=> Len(s) = 0
    OBVIOUS
  <1> QED
    BY <1>1 DEF esis, Types

\* What is known when a handler of CNT_Session is entered.
LEMMA Entered ==
  ASSUME IInv, NEW s, In(s)
  PROVE  /\ sp \in Session /\ w \in Pointers /\ held \in Counts
         /\ at = "worker" /\ wrk = "session" /\ panic = "none" /\ sp.step = s
         /\ (stack = <<>> <=> esis = 0)
  BY NoIncludes DEF IInv, Types, In

\* The ledger counts.
LEMMA LedgerTyped ==
  ASSUME IInv
  PROVE  /\ held.obj \in Int /\ held.busy \in Int /\ held.vcl \in Int /\ held.conn \in Int
         /\ w.vcl \in BOOLEAN /\ sp.vcl \in BOOLEAN
         /\ Len(stack) \in Nat
  <1>1. ASSUME NEW S, NEW s \in Seq(S) PROVE Len(s) \in Nat
    OBVIOUS
  <1>2. held \in Counts /\ stack \in Seq(Saved) /\ w \in Pointers /\ sp \in Session
    BY DEF IInv, Types
  <1> QED
    BY <1>1, <1>2 DEF Counts, Pointers, Session

\* A step which leaves the session on its worker and the includes alone.
LEMMA TypesKept ==
  ASSUME Types, sp' \in Session, w' \in Pointers, held' \in Counts,
         told' \in {"nothing", "answer", "twice", "pipe", "no backend"},
         StayOnWorker, stack' = stack, waits' \in 0 .. MaxWaits
  PROVE  Types'
  BY DEF Types, StayOnWorker

\* What the calls do to the ledger.
LEMMA Calls ==
  ASSUME NEW h \in Counts
  PROVE  /\ HSH_Deref(h) \in Counts /\ HSH_Deref(h).obj = h.obj - 1
         /\ HSH_Deref(h).busy = h.busy /\ HSH_Deref(h).vcl = h.vcl
         /\ HSH_Deref(h).conn = h.conn
         /\ STV_NewObject(h) \in Counts /\ STV_NewObject(h).obj = h.obj + 1
         /\ STV_NewObject(h).busy = h.busy /\ STV_NewObject(h).vcl = h.vcl
         /\ STV_NewObject(h).conn = h.conn
         /\ HSH_Unbusy(h) \in Counts /\ HSH_Unbusy(h).busy = h.busy - 1
         /\ HSH_Unbusy(h).obj = h.obj /\ HSH_Unbusy(h).vcl = h.vcl
         /\ HSH_Unbusy(h).conn = h.conn
         /\ HSH_DerefObjCore(h) = HSH_Unbusy(h)
         /\ VBE_Release(h) \in Counts /\ VBE_Release(h).conn = h.conn - 1
         /\ VBE_Release(h).obj = h.obj /\ VBE_Release(h).busy = h.busy
         /\ VBE_Release(h).vcl = h.vcl
  BY DEF Counts, HSH_Deref, STV_NewObject, HSH_Unbusy, HSH_DerefObjCore, VBE_Release

\* And what two of them in a row do.
LEMMA NestedCalls ==
  ASSUME NEW h \in Counts
  PROVE  /\ HSH_Drop(h, "busy") \in Counts
         /\ HSH_Drop(h, "busy").obj = h.obj - 1 /\ HSH_Drop(h, "busy").busy = h.busy - 1
         /\ HSH_Drop(h, "busy").vcl = h.vcl /\ HSH_Drop(h, "busy").conn = h.conn
         /\ HSH_Drop(h, "anon") = HSH_Deref(h)
         /\ HSH_Deref(STV_NewObject(h)) \in Counts
         /\ HSH_Deref(STV_NewObject(h)).obj = h.obj
         /\ HSH_Deref(STV_NewObject(h)).busy = h.busy
         /\ HSH_Deref(STV_NewObject(h)).vcl = h.vcl
         /\ HSH_Deref(STV_NewObject(h)).conn = h.conn
  <1> DEFINE u == HSH_Unbusy(h)
             n == STV_NewObject(h)
  <1>1. HSH_Drop(h, "anon") = HSH_Deref(h) /\ HSH_Drop(h, "busy") = HSH_Deref(u)
    BY DEF HSH_Drop
  <1>2. /\ u \in Counts /\ u.obj = h.obj /\ u.busy = h.busy - 1
        /\ u.vcl = h.vcl /\ u.conn = h.conn
    BY Calls
  <1>3. /\ n \in Counts /\ n.obj = h.obj + 1 /\ n.busy = h.busy
        /\ n.vcl = h.vcl /\ n.conn = h.conn
    BY Calls
  <1>4. h.obj \in Int
    BY DEF Counts
  <1> HIDE DEF u, n
  <1>5. /\ HSH_Deref(u) \in Counts /\ HSH_Deref(u).obj = u.obj - 1
        /\ HSH_Deref(u).busy = u.busy /\ HSH_Deref(u).vcl = u.vcl
        /\ HSH_Deref(u).conn = u.conn
    BY <1>2, Calls
  <1>6. /\ HSH_Deref(n) \in Counts /\ HSH_Deref(n).obj = n.obj - 1
        /\ HSH_Deref(n).busy = n.busy /\ HSH_Deref(n).vcl = n.vcl
        /\ HSH_Deref(n).conn = n.conn
    BY <1>3, Calls
  <1>7. HSH_Deref(n).obj = h.obj
    BY <1>3, <1>4, <1>6
  <1> QED
    BY <1>1, <1>2, <1>3, <1>5, <1>6, <1>7 DEF u, n

\* The connection is let go of before the object.
LEMMA DropCalls ==
  ASSUME NEW h \in Counts, NEW r, r = VBE_Release(h)
  PROVE  /\ HSH_Drop(r, "busy") \in Counts /\ HSH_Drop(r, "anon") \in Counts
         /\ HSH_Drop(r, "busy").obj = h.obj - 1 /\ HSH_Drop(r, "anon").obj = h.obj - 1
         /\ HSH_Drop(r, "busy").busy = h.busy - 1 /\ HSH_Drop(r, "anon").busy = h.busy
         /\ HSH_Drop(r, "busy").vcl = h.vcl /\ HSH_Drop(r, "anon").vcl = h.vcl
         /\ HSH_Drop(r, "busy").conn = h.conn - 1 /\ HSH_Drop(r, "anon").conn = h.conn - 1
  <1>1. /\ r \in Counts /\ r.conn = h.conn - 1 /\ r.obj = h.obj /\ r.busy = h.busy
        /\ r.vcl = h.vcl
    BY Calls
  <1>2. /\ HSH_Deref(r) \in Counts /\ HSH_Deref(r).obj = r.obj - 1
        /\ HSH_Deref(r).busy = r.busy /\ HSH_Deref(r).vcl = r.vcl
        /\ HSH_Deref(r).conn = r.conn
    BY <1>1, Calls
  <1> QED
    BY <1>1, <1>2, NestedCalls

\* Initially.
LEMMA Initially == Init => IInv
  BY BoundsAssumption
  DEF Init, IInv, Types, Session, Pointers, Counts, Saved, Steps, ObjKinds, NewSession,
      Ledger, One, AtStep, OffWorker, Told, Between, Working, Returns

-----------------------------------------------------------------------------
(* One lemma for each handler. *)

\* The first request of a session.
LEMMA cnt_firstStep == IInv /\ cnt_first => IInv'
  <1> SUFFICES ASSUME IInv, cnt_first PROVE IInv'
    OBVIOUS
  <1>1. /\ sp \in Session /\ w \in Pointers /\ held \in Counts
        /\ at = "worker" /\ wrk = "session" /\ panic = "none"
        /\ sp.step = "FIRST" /\ (stack = <<>> <=> esis = 0)
    BY Entered DEF cnt_first
  <1>2. /\ StayOnWorker /\ stack' = stack /\ waits' = waits /\ told' = told
    BY DEF cnt_first
  <1>3. CASE /\ sp' = Go("WAIT") /\ w' = w /\ held' = held
    <2>1. /\ Shaped /\ Changes({"step"}) /\ sp'.step = "WAIT"
      BY <1>1, <1>2, <1>3 DEF Go, Shaped, Changes, Session
    <2>2. sp' \in Session
      BY <1>1, <1>2, <1>3, <2>1, TypedSession, BoundsAssumption
      DEF Changes, Session, Steps, ObjKinds
    <2>3. /\ w' \in Pointers /\ w'.vcl = w.vcl /\ w'.bereq = w.bereq
          /\ w'.beresp = w.beresp
      BY <1>1, <1>2, <1>3 DEF Pointers, Go
    <2>4. /\ held' \in Counts /\ held'.obj = held.obj
          /\ held'.busy = held.busy /\ held'.vcl = held.vcl
          /\ held'.conn = held.conn
      BY <1>1, <1>2, <1>3 DEF Counts, Go
    <2>5. Types'
      BY <1>1, <1>2, <2>2, <2>3, <2>4, TypesKept DEF IInv, Types
    <2>6. Ledger'
      BY <1>1, <1>2, <2>1, <2>3, <2>4, LedgerTyped
      DEF IInv, Ledger, One, Changes, AtStep
    <2>7. AtStep'
      BY <1>1, <1>2, <2>1, <2>3
      DEF IInv, Changes, AtStep, Between, Working, StayOnWorker
    <2>8. OffWorker'
      BY <1>1, <1>2, <2>1, <2>3 DEF IInv, OffWorker, StayOnWorker
    <2>9. Told'
      BY <1>1, <1>2, <2>1, <2>3
      DEF IInv, Changes, AtStep, Told, Between, Working, StayOnWorker
    <2> QED
      BY <2>5, <2>6, <2>7, <2>8, <2>9 DEF IInv
  <1> QED
    BY <1>1, <1>3 DEF cnt_first, Go

\* What cnt_recv makes of the verdict.
Received(step, off) ==
  /\ sp' = [[sp EXCEPT !.director = TRUE, !.disable_esi = off /\ esis = 0]
              EXCEPT !.step = step]
  /\ step # "ERROR" => sp.restarts < MaxRestarts
  /\ step = "PIPE" => esis = 0

\* After the restart limit the verdict of vcl_recv{} is ignored.
LEMMA cnt_recvStep == IInv /\ cnt_recv => IInv'
  <1> SUFFICES ASSUME IInv, cnt_recv PROVE IInv'
    OBVIOUS
  <1>1. /\ sp \in Session /\ w \in Pointers /\ held \in Counts
        /\ at = "worker" /\ wrk = "session" /\ panic = "none"
        /\ sp.step = "RECV" /\ (stack = <<>> <=> esis = 0)
    BY Entered DEF cnt_recv
  <1>2. /\ StayOnWorker /\ stack' = stack /\ waits' = waits /\ told' = told
        /\ w' = w /\ held' = held
    BY DEF cnt_recv
  <1>3. CASE /\ (\E off \in BOOLEAN, step \in {"LOOKUP", "PASS", "PIPE", "ERROR"} :
                   Received(step, off))
    <2>1. /\ Shaped /\ Changes({"step", "director", "disable_esi"})
          /\ sp'.director = TRUE
          /\ sp'.step \in {"LOOKUP", "PASS", "PIPE", "ERROR"}
          /\ (sp'.step # "ERROR" => sp.restarts < MaxRestarts)
          /\ (sp'.step = "PIPE" => esis = 0) /\ sp'.disable_esi \in BOOLEAN
          /\ (sp'.disable_esi => esis = 0)
      BY <1>1, <1>2, <1>3 DEF Received, Shaped, Changes, Session
    <2>2. sp' \in Session
      BY <1>1, <1>2, <1>3, <2>1, TypedSession, BoundsAssumption
      DEF Changes, Session, Steps, ObjKinds
    <2>3. /\ w' \in Pointers /\ w'.vcl = w.vcl /\ w'.bereq = w.bereq
          /\ w'.beresp = w.beresp
      BY <1>1, <1>2, <1>3 DEF Pointers, Received
    <2>4. /\ held' \in Counts /\ held'.obj = held.obj
          /\ held'.busy = held.busy /\ held'.vcl = held.vcl
          /\ held'.conn = held.conn
      BY <1>1, <1>2, <1>3 DEF Counts, Received
    <2>5. Types'
      BY <1>1, <1>2, <2>2, <2>3, <2>4, TypesKept DEF IInv, Types
    <2>6. Ledger'
      BY <1>1, <1>2, <2>1, <2>3, <2>4, LedgerTyped
      DEF IInv, Ledger, One, Changes, AtStep
    <2>7. AtStep'
      BY <1>1, <1>2, <2>1, <2>3
      DEF IInv, Changes, AtStep, Between, Working, StayOnWorker
    <2>8. OffWorker'
      BY <1>1, <1>2, <2>1, <2>3 DEF IInv, OffWorker, StayOnWorker
    <2>9. Told'
      BY <1>1, <1>2, <2>1, <2>3
      DEF IInv, Changes, AtStep, Told, Between, Working, StayOnWorker
    <2> QED
      BY <2>5, <2>6, <2>7, <2>8, <2>9 DEF IInv
  <1>4. PICK verdict \in Returns.recv, off \in BOOLEAN :
           \/ /\ sp.restarts >= MaxRestarts
              /\ sp' = [[sp EXCEPT !.director = TRUE, !.disable_esi = off /\ esis = 0]
                          EXCEPT !.step = "ERROR"]
           \/ /\ sp.restarts < MaxRestarts
              /\ verdict = "pipe" => esis = 0
              /\ sp' = [[sp EXCEPT !.director = TRUE, !.disable_esi = off /\ esis = 0]
                          EXCEPT !.step = [lookup |-> "LOOKUP", pass |-> "PASS",
                                          pipe |-> "PIPE", error |-> "ERROR"][verdict]]
    BY DEF cnt_recv
  <1>5. \/ Received("ERROR", off) \/ Received("LOOKUP", off)
        \/ Received("PASS", off) \/ Received("PIPE", off)
    <2>1. CASE sp.restarts >= MaxRestarts
      BY <1>1, <1>4, <2>1, BoundsAssumption DEF Received, Session
    <2>2. CASE sp.restarts < MaxRestarts
      <3>1. verdict = "lookup" => Received("LOOKUP", off)
        BY <1>1, <1>4, <2>2, BoundsAssumption DEF Received, Session
      <3>2. verdict = "pass" => Received("PASS", off)
        BY <1>1, <1>4, <2>2, BoundsAssumption DEF Received, Session
      <3>3. verdict = "pipe" => Received("PIPE", off)
        BY <1>1, <1>4, <2>2, BoundsAssumption DEF Received, Session
      <3>4. verdict = "error" => Received("ERROR", off)
        BY <1>1, <1>4, <2>2, BoundsAssumption DEF Received, Session
      <3> QED
        BY <3>1, <3>2, <3>3, <3>4 DEF Returns
    <2> QED
      BY <1>1, <2>1, <2>2, BoundsAssumption DEF Session
  <1> QED
    BY <1>3, <1>5

\* HSH_Lookup finds nothing, an object or one marked for pass.
LEMMA LookupFindsStep == IInv /\ LookupFinds => IInv'
  <1> SUFFICES ASSUME IInv, LookupFinds PROVE IInv'
    OBVIOUS
  <1>1. /\ sp \in Session /\ w \in Pointers /\ held \in Counts
        /\ at = "worker" /\ wrk = "session" /\ panic = "none"
        /\ sp.step = "LOOKUP" /\ (stack = <<>> <=> esis = 0)
    BY Entered DEF LookupFinds
  <1>2. /\ StayOnWorker /\ stack' = stack /\ waits' = waits /\ told' = told
        /\ w' = w
    BY DEF LookupFinds
  <1>3. CASE /\ sp' = [sp EXCEPT !.step = "MISS", !.objcore = TRUE]
             /\ held' = [held EXCEPT !.busy = @ + 1]
    <2>1. /\ Shaped /\ Changes({"step", "objcore"}) /\ sp'.step = "MISS"
          /\ sp'.objcore = TRUE
      BY <1>1, <1>2, <1>3 DEF Shaped, Changes, Session
    <2>2. sp' \in Session
      BY <1>1, <1>2, <1>3, <2>1, TypedSession, BoundsAssumption
      DEF Changes, Session, Steps, ObjKinds
    <2>3. /\ w' \in Pointers /\ w'.vcl = w.vcl /\ w'.bereq = w.bereq
          /\ w'.beresp = w.beresp
      BY <1>1, <1>2, <1>3 DEF Pointers
    <2>4. /\ held' \in Counts /\ held'.obj = held.obj
          /\ held'.busy = held.busy + 1 /\ held'.vcl = held.vcl
          /\ held'.conn = held.conn
      BY <1>1, <1>2, <1>3 DEF Counts
    <2>5. Types'
      BY <1>1, <1>2, <2>2, <2>3, <2>4, TypesKept DEF IInv, Types
    <2>6. Ledger'
      BY <1>1, <1>2, <2>1, <2>3, <2>4, LedgerTyped
      DEF IInv, Ledger, One, Changes, AtStep
    <2>7. AtStep'
      BY <1>1, <1>2, <2>1, <2>3
      DEF IInv, Changes, AtStep, Between, Working, StayOnWorker
    <2>8. OffWorker'
      BY <1>1, <1>2, <2>1, <2>3 DEF IInv, OffWorker, StayOnWorker
    <2>9. Told'
      BY <1>1, <1>2, <2>1, <2>3
      DEF IInv, Changes, AtStep, Told, Between, Working, StayOnWorker
    <2> QED
      BY <2>5, <2>6, <2>7, <2>8, <2>9 DEF IInv
  <1>4. CASE /\ sp' = [sp EXCEPT !.step = "HIT", !.obj = "cached"]
             /\ held' = [held EXCEPT !.obj = @ + 1]
    <2>1. /\ Shaped /\ Changes({"step", "obj"}) /\ sp'.step = "HIT"
          /\ sp'.obj = "cached"
      BY <1>1, <1>2, <1>4 DEF Shaped, Changes, Session
    <2>2. sp' \in Session
      BY <1>1, <1>2, <1>4, <2>1, TypedSession, BoundsAssumption
      DEF Changes, Session, Steps, ObjKinds
    <2>3. /\ w' \in Pointers /\ w'.vcl = w.vcl /\ w'.bereq = w.bereq
          /\ w'.beresp = w.beresp
      BY <1>1, <1>2, <1>4 DEF Pointers
    <2>4. /\ held' \in Counts /\ held'.obj = held.obj + 1
          /\ held'.busy = held.busy /\ held'.vcl = held.vcl
          /\ held'.conn = held.conn
      BY <1>1, <1>2, <1>4 DEF Counts
    <2>5. Types'
      BY <1>1, <1>2, <2>2, <2>3, <2>4, TypesKept DEF IInv, Types
    <2>6. Ledger'
      BY <1>1, <1>2, <2>1, <2>3, <2>4, LedgerTyped
      DEF IInv, Ledger, One, Changes, AtStep
    <2>7. AtStep'
      BY <1>1, <1>2, <2>1, <2>3
      DEF IInv, Changes, AtStep, Between, Working, StayOnWorker
    <2>8. OffWorker'
      BY <1>1, <1>2, <2>1, <2>3 DEF IInv, OffWorker, StayOnWorker
    <2>9. Told'
      BY <1>1, <1>2, <2>1, <2>3
      DEF IInv, Changes, AtStep, Told, Between, Working, StayOnWorker
    <2> QED
      BY <2>5, <2>6, <2>7, <2>8, <2>9 DEF IInv
  <1>5. CASE /\ sp' = Go("PASS") /\ held' = HSH_Deref(STV_NewObject(held))
    <2>1. /\ Shaped /\ Changes({"step"}) /\ sp'.step = "PASS"
      BY <1>1, <1>2, <1>5 DEF Go, Shaped, Changes, Session
    <2>2. sp' \in Session
      BY <1>1, <1>2, <1>5, <2>1, TypedSession, BoundsAssumption
      DEF Changes, Session, Steps, ObjKinds
    <2>3. /\ w' \in Pointers /\ w'.vcl = w.vcl /\ w'.bereq = w.bereq
          /\ w'.beresp = w.beresp
      BY <1>1, <1>2, <1>5 DEF Pointers, Go
    <2>4. /\ held' \in Counts /\ held'.obj = held.obj
          /\ held'.busy = held.busy /\ held'.vcl = held.vcl
          /\ held'.conn = held.conn
      BY <1>1, <1>2, <1>5, NestedCalls DEF Counts
    <2>5. Types'
      BY <1>1, <1>2, <2>2, <2>3, <2>4, TypesKept DEF IInv, Types
    <2>6. Ledger'
      BY <1>1, <1>2, <2>1, <2>3, <2>4, LedgerTyped
      DEF IInv, Ledger, One, Changes, AtStep
    <2>7. AtStep'
      BY <1>1, <1>2, <2>1, <2>3
      DEF IInv, Changes, AtStep, Between, Working, StayOnWorker
    <2>8. OffWorker'
      BY <1>1, <1>2, <2>1, <2>3 DEF IInv, OffWorker, StayOnWorker
    <2>9. Told'
      BY <1>1, <1>2, <2>1, <2>3
      DEF IInv, Changes, AtStep, Told, Between, Working, StayOnWorker
    <2> QED
      BY <2>5, <2>6, <2>7, <2>8, <2>9 DEF IInv
  <1> QED
    BY <1>1, <1>3, <1>4, <1>5 DEF LookupFinds, STV_NewObject

\* A hit is delivered, or its reference is given back.
LEMMA cnt_hitStep == IInv /\ cnt_hit => IInv'
  <1> SUFFICES ASSUME IInv, cnt_hit PROVE IInv'
    OBVIOUS
  <1>1. /\ sp \in Session /\ w \in Pointers /\ held \in Counts
        /\ at = "worker" /\ wrk = "session" /\ panic = "none"
        /\ sp.step = "HIT" /\ (stack = <<>> <=> esis = 0)
    BY Entered DEF cnt_hit
  <1>2. /\ StayOnWorker /\ stack' = stack /\ waits' = waits /\ told' = told
    BY DEF cnt_hit
  <1>3. CASE /\ sp' = Go("DELIVER") /\ w' = [w EXCEPT !.bereq = FALSE]
             /\ held' = held
    <2>1. /\ Shaped /\ Changes({"step"}) /\ sp'.step = "DELIVER"
      BY <1>1, <1>2, <1>3 DEF Go, Shaped, Changes, Session
    <2>2. sp' \in Session
      BY <1>1, <1>2, <1>3, <2>1, TypedSession, BoundsAssumption
      DEF Changes, Session, Steps, ObjKinds
    <2>3. /\ w' \in Pointers /\ w'.vcl = w.vcl /\ w'.bereq = FALSE
          /\ w'.beresp = w.beresp
      BY <1>1, <1>2, <1>3 DEF Pointers, Go
    <2>4. /\ held' \in Counts /\ held'.obj = held.obj
          /\ held'.busy = held.busy /\ held'.vcl = held.vcl
          /\ held'.conn = held.conn
      BY <1>1, <1>2, <1>3 DEF Counts, Go
    <2>5. Types'
      BY <1>1, <1>2, <2>2, <2>3, <2>4, TypesKept DEF IInv, Types
    <2>6. Ledger'
      BY <1>1, <1>2, <2>1, <2>3, <2>4, LedgerTyped
      DEF IInv, Ledger, One, Changes, AtStep
    <2>7. AtStep'
      BY <1>1, <1>2, <2>1, <2>3
      DEF IInv, Changes, AtStep, Between, Working, StayOnWorker
    <2>8. OffWorker'
      BY <1>1, <1>2, <2>1, <2>3 DEF IInv, OffWorker, StayOnWorker
    <2>9. Told'
      BY <1>1, <1>2, <2>1, <2>3
      DEF IInv, Changes, AtStep, Told, Between, Working, StayOnWorker
    <2> QED
      BY <2>5, <2>6, <2>7, <2>8, <2>9 DEF IInv
  <1>4. CASE /\ (\E step \in {"PASS", "ERROR"} :
                   sp' = [[sp EXCEPT !.obj = "none", !.objcore = FALSE]
                           EXCEPT !.step = step])
             /\ w' = w /\ held' = HSH_Deref(held)
    <2>1. /\ Shaped /\ Changes({"step", "obj", "objcore"}) /\ sp'.obj = "none"
          /\ sp'.objcore = FALSE /\ sp'.step \in {"PASS", "ERROR"}
      BY <1>1, <1>2, <1>4 DEF HSH_Deref, Shaped, Changes, Session
    <2>2. sp' \in Session
      BY <1>1, <1>2, <1>4, <2>1, TypedSession, BoundsAssumption
      DEF Changes, Session, Steps, ObjKinds
    <2>3. /\ w' \in Pointers /\ w'.vcl = w.vcl /\ w'.bereq = w.bereq
          /\ w'.beresp = w.beresp
      BY <1>1, <1>2, <1>4 DEF Pointers, HSH_Deref
    <2>4. /\ held' \in Counts /\ held'.obj = held.obj - 1
          /\ held'.busy = held.busy /\ held'.vcl = held.vcl
          /\ held'.conn = held.conn
      BY <1>1, <1>2, <1>4 DEF Counts, HSH_Deref
    <2>5. Types'
      BY <1>1, <1>2, <2>2, <2>3, <2>4, TypesKept DEF IInv, Types
    <2>6. Ledger'
      BY <1>1, <1>2, <2>1, <2>3, <2>4, LedgerTyped
      DEF IInv, Ledger, One, Changes, AtStep
    <2>7. AtStep'
      BY <1>1, <1>2, <2>1, <2>3
      DEF IInv, Changes, AtStep, Between, Working, StayOnWorker
    <2>8. OffWorker'
      BY <1>1, <1>2, <2>1, <2>3 DEF IInv, OffWorker, StayOnWorker
    <2>9. Told'
      BY <1>1, <1>2, <2>1, <2>3
      DEF IInv, Changes, AtStep, Told, Between, Working, StayOnWorker
    <2> QED
      BY <2>5, <2>6, <2>7, <2>8, <2>9 DEF IInv
  <1>5. CASE /\ sp' = Restarted([sp EXCEPT !.obj = "none", !.objcore = FALSE])
             /\ w' = w /\ held' = HSH_Deref(held)
    <2>1. /\ Shaped
          /\ Changes({"step", "obj", "objcore", "director", "restarts"})
          /\ sp'.step = "RECV" /\ sp'.obj = "none" /\ sp'.objcore = FALSE
          /\ sp'.director = FALSE /\ sp'.restarts = sp.restarts + 1
      BY <1>1, <1>2, <1>5 DEF Restarted, HSH_Deref, Shaped, Changes, Session
    <2>2. sp' \in Session
      <3>1. sp'.restarts \in 0 .. MaxRestarts
        BY <1>1, <1>2, <1>5, <2>1, BoundsAssumption DEF Session, IInv, AtStep
      <3>2. /\ sp'.step \in Steps /\ sp'.fd \in BOOLEAN /\ sp'.vcl \in BOOLEAN
            /\ sp'.obj \in ObjKinds /\ sp'.objcore \in BOOLEAN
            /\ sp'.director \in BOOLEAN /\ sp'.vbe \in BOOLEAN
            /\ sp'.doclose \in BOOLEAN /\ sp'.xid \in BOOLEAN
            /\ sp'.disable_esi \in BOOLEAN /\ sp'.bits \in 0 .. MaxIncludes
        BY <1>1, <1>2, <2>1 DEF Changes, Session, Steps, ObjKinds
      <3>3. Shaped
        BY <2>1
      <3> QED
        BY <3>1, <3>2, <3>3, TypedSession
    <2>3. /\ w' \in Pointers /\ w'.vcl = w.vcl /\ w'.bereq = w.bereq
          /\ w'.beresp = w.beresp
      BY <1>1, <1>2, <1>5 DEF Pointers, Restarted, HSH_Deref
    <2>4. /\ held' \in Counts /\ held'.obj = held.obj - 1
          /\ held'.busy = held.busy /\ held'.vcl = held.vcl
          /\ held'.conn = held.conn
      BY <1>1, <1>2, <1>5 DEF Counts, Restarted, HSH_Deref
    <2>5. Types'
      BY <1>1, <1>2, <2>2, <2>3, <2>4, TypesKept DEF IInv, Types
    <2>6. Ledger'
      BY <1>1, <1>2, <2>1, <2>3, <2>4, LedgerTyped
      DEF IInv, Ledger, One, Changes, AtStep
    <2>7. AtStep'
      BY <1>1, <1>2, <2>1, <2>3
      DEF IInv, Changes, AtStep, Between, Working, StayOnWorker
    <2>8. OffWorker'
      BY <1>1, <1>2, <2>1, <2>3 DEF IInv, OffWorker, StayOnWorker
    <2>9. Told'
      BY <1>1, <1>2, <2>1, <2>3
      DEF IInv, Changes, AtStep, Told, Between, Working, StayOnWorker
    <2> QED
      BY <2>5, <2>6, <2>7, <2>8, <2>9 DEF IInv
  <1> QED
    BY <1>1, <1>3, <1>4, <1>5 DEF cnt_hit, Returns

\* A miss is fetched, or its busy objcore is given back.
LEMMA cnt_missStep == IInv /\ cnt_miss => IInv'
  <1> SUFFICES ASSUME IInv, cnt_miss PROVE IInv'
    OBVIOUS
  <1>1. /\ sp \in Session /\ w \in Pointers /\ held \in Counts
        /\ at = "worker" /\ wrk = "session" /\ panic = "none"
        /\ sp.step = "MISS" /\ (stack = <<>> <=> esis = 0)
    BY Entered DEF cnt_miss
  <1>2. /\ StayOnWorker /\ stack' = stack /\ waits' = waits /\ told' = told
        /\ w' = [w EXCEPT !.bereq = TRUE]
    BY DEF cnt_miss
  <1>3. CASE /\ sp' = Go("FETCH") /\ held' = held
    <2>1. /\ Shaped /\ Changes({"step"}) /\ sp'.step = "FETCH"
      BY <1>1, <1>2, <1>3 DEF Go, Shaped, Changes, Session
    <2>2. sp' \in Session
      BY <1>1, <1>2, <1>3, <2>1, TypedSession, BoundsAssumption
      DEF Changes, Session, Steps, ObjKinds
    <2>3. /\ w' \in Pointers /\ w'.vcl = w.vcl /\ w'.bereq = TRUE
          /\ w'.beresp = w.beresp
      BY <1>1, <1>2, <1>3 DEF Pointers, Go
    <2>4. /\ held' \in Counts /\ held'.obj = held.obj
          /\ held'.busy = held.busy /\ held'.vcl = held.vcl
          /\ held'.conn = held.conn
      BY <1>1, <1>2, <1>3 DEF Counts, Go
    <2>5. Types'
      BY <1>1, <1>2, <2>2, <2>3, <2>4, TypesKept DEF IInv, Types
    <2>6. Ledger'
      BY <1>1, <1>2, <2>1, <2>3, <2>4, LedgerTyped
      DEF IInv, Ledger, One, Changes, AtStep
    <2>7. AtStep'
      BY <1>1, <1>2, <2>1, <2>3
      DEF IInv, Changes, AtStep, Between, Working, StayOnWorker
    <2>8. OffWorker'
      BY <1>1, <1>2, <2>1, <2>3 DEF IInv, OffWorker, StayOnWorker
    <2>9. Told'
      BY <1>1, <1>2, <2>1, <2>3
      DEF IInv, Changes, AtStep, Told, Between, Working, StayOnWorker
    <2> QED
      BY <2>5, <2>6, <2>7, <2>8, <2>9 DEF IInv
  <1>4. CASE /\ (\E step \in {"PASS", "ERROR"} :
                   sp' = [sp EXCEPT !.objcore = FALSE, !.step = step])
             /\ held' = HSH_DerefObjCore(held)
    <2>1. /\ Shaped /\ Changes({"step", "objcore"}) /\ sp'.objcore = FALSE
          /\ sp'.step \in {"PASS", "ERROR"}
      BY <1>1, <1>2, <1>4 DEF HSH_DerefObjCore, Shaped, Changes, Session
    <2>2. sp' \in Session
      BY <1>1, <1>2, <1>4, <2>1, TypedSession, BoundsAssumption
      DEF Changes, Session, Steps, ObjKinds
    <2>3. /\ w' \in Pointers /\ w'.vcl = w.vcl /\ w'.bereq = TRUE
          /\ w'.beresp = w.beresp
      BY <1>1, <1>2, <1>4 DEF Pointers, HSH_DerefObjCore
    <2>4. /\ held' \in Counts /\ held'.obj = held.obj
          /\ held'.busy = held.busy - 1 /\ held'.vcl = held.vcl
          /\ held'.conn = held.conn
      BY <1>1, <1>2, <1>4 DEF Counts, HSH_DerefObjCore
    <2>5. Types'
      BY <1>1, <1>2, <2>2, <2>3, <2>4, TypesKept DEF IInv, Types
    <2>6. Ledger'
      BY <1>1, <1>2, <2>1, <2>3, <2>4, LedgerTyped
      DEF IInv, Ledger, One, Changes, AtStep
    <2>7. AtStep'
      BY <1>1, <1>2, <2>1, <2>3
      DEF IInv, Changes, AtStep, Between, Working, StayOnWorker
    <2>8. OffWorker'
      BY <1>1, <1>2, <2>1, <2>3 DEF IInv, OffWorker, StayOnWorker
    <2>9. Told'
      BY <1>1, <1>2, <2>1, <2>3
      DEF IInv, Changes, AtStep, Told, Between, Working, StayOnWorker
    <2> QED
      BY <2>5, <2>6, <2>7, <2>8, <2>9 DEF IInv
  <1> QED
    BY <1>1, <1>3, <1>4 DEF cnt_miss, Returns

\* A pass is fetched, or fails.
LEMMA cnt_passStep == IInv /\ cnt_pass => IInv'
  <1> SUFFICES ASSUME IInv, cnt_pass PROVE IInv'
    OBVIOUS
  <1>1. /\ sp \in Session /\ w \in Pointers /\ held \in Counts
        /\ at = "worker" /\ wrk = "session" /\ panic = "none"
        /\ sp.step = "PASS" /\ (stack = <<>> <=> esis = 0)
    BY Entered DEF cnt_pass
  <1>2. /\ StayOnWorker /\ stack' = stack /\ waits' = waits /\ told' = told
        /\ w' = [w EXCEPT !.bereq = TRUE] /\ held' = held
    BY DEF cnt_pass
  <1>3. CASE /\ (\E step \in {"FETCH", "ERROR"} : sp' = Go(step))
    <2>1. /\ Shaped /\ Changes({"step"}) /\ sp'.step \in {"FETCH", "ERROR"}
      BY <1>1, <1>2, <1>3 DEF Go, Shaped, Changes, Session
    <2>2. sp' \in Session
      BY <1>1, <1>2, <1>3, <2>1, TypedSession, BoundsAssumption
      DEF Changes, Session, Steps, ObjKinds
    <2>3. /\ w' \in Pointers /\ w'.vcl = w.vcl /\ w'.bereq = TRUE
          /\ w'.beresp = w.beresp
      BY <1>1, <1>2, <1>3 DEF Pointers, Go
    <2>4. /\ held' \in Counts /\ held'.obj = held.obj
          /\ held'.busy = held.busy /\ held'.vcl = held.vcl
          /\ held'.conn = held.conn
      BY <1>1, <1>2, <1>3 DEF Counts, Go
    <2>5. Types'
      BY <1>1, <1>2, <2>2, <2>3, <2>4, TypesKept DEF IInv, Types
    <2>6. Ledger'
      BY <1>1, <1>2, <2>1, <2>3, <2>4, LedgerTyped
      DEF IInv, Ledger, One, Changes, AtStep
    <2>7. AtStep'
      BY <1>1, <1>2, <2>1, <2>3
      DEF IInv, Changes, AtStep, Between, Working, StayOnWorker
    <2>8. OffWorker'
      BY <1>1, <1>2, <2>1, <2>3 DEF IInv, OffWorker, StayOnWorker
    <2>9. Told'
      BY <1>1, <1>2, <2>1, <2>3
      DEF IInv, Changes, AtStep, Told, Between, Working, StayOnWorker
    <2> QED
      BY <2>5, <2>6, <2>7, <2>8, <2>9 DEF IInv
  <1> QED
    BY <1>1, <1>3 DEF cnt_pass, Go

\* A pipe gets a backend connection, or none.
LEMMA cnt_pipeStep == IInv /\ cnt_pipe => IInv'
  <1> SUFFICES ASSUME IInv, cnt_pipe PROVE IInv'
    OBVIOUS
  <1>1. /\ sp \in Session /\ w \in Pointers /\ held \in Counts
        /\ at = "worker" /\ wrk = "session" /\ panic = "none"
        /\ sp.step = "PIPE" /\ (stack = <<>> <=> esis = 0)
    BY Entered DEF cnt_pipe
  <1>2. /\ StayOnWorker /\ stack' = stack /\ waits' = waits
    BY DEF cnt_pipe
  <1>3. CASE /\ sp' = [sp EXCEPT !.step = "PIPING", !.vbe = TRUE]
             /\ held' = ConnTaken(held) /\ w' = [w EXCEPT !.bereq = TRUE]
             /\ told' = "pipe"
    <2>1. /\ Shaped /\ Changes({"step", "vbe"}) /\ sp'.step = "PIPING"
          /\ sp'.vbe = TRUE
      BY <1>1, <1>2, <1>3 DEF ConnTaken, Shaped, Changes, Session
    <2>2. sp' \in Session
      BY <1>1, <1>2, <1>3, <2>1, TypedSession, BoundsAssumption
      DEF Changes, Session, Steps, ObjKinds
    <2>3. /\ w' \in Pointers /\ w'.vcl = w.vcl /\ w'.bereq = TRUE
          /\ w'.beresp = w.beresp /\ told' = "pipe"
      BY <1>1, <1>2, <1>3 DEF Pointers, ConnTaken
    <2>4. /\ held' \in Counts /\ held'.obj = held.obj
          /\ held'.busy = held.busy /\ held'.vcl = held.vcl
          /\ held'.conn = held.conn + 1
      BY <1>1, <1>2, <1>3 DEF Counts, ConnTaken
    <2>5. Types'
      BY <1>1, <1>2, <2>2, <2>3, <2>4, TypesKept DEF IInv, Types
    <2>6. Ledger'
      BY <1>1, <1>2, <2>1, <2>3, <2>4, LedgerTyped
      DEF IInv, Ledger, One, Changes, AtStep
    <2>7. AtStep'
      BY <1>1, <1>2, <2>1, <2>3
      DEF IInv, Changes, AtStep, Between, Working, StayOnWorker
    <2>8. OffWorker'
      BY <1>1, <1>2, <2>1, <2>3 DEF IInv, OffWorker, StayOnWorker
    <2>9. Told'
      BY <1>1, <1>2, <2>1, <2>3
      DEF IInv, Changes, AtStep, Told, Between, Working, StayOnWorker
    <2> QED
      BY <2>5, <2>6, <2>7, <2>8, <2>9 DEF IInv
  <1>4. CASE /\ sp' = Go("DONE") /\ held' = held
             /\ w' = [w EXCEPT !.bereq = FALSE] /\ told' = "no backend"
    <2>1. /\ Shaped /\ Changes({"step"}) /\ sp'.step = "DONE"
      BY <1>1, <1>2, <1>4 DEF Go, Shaped, Changes, Session
    <2>2. sp' \in Session
      BY <1>1, <1>2, <1>4, <2>1, TypedSession, BoundsAssumption
      DEF Changes, Session, Steps, ObjKinds
    <2>3. /\ w' \in Pointers /\ w'.vcl = w.vcl /\ w'.bereq = FALSE
          /\ w'.beresp = w.beresp /\ told' = "no backend"
      BY <1>1, <1>2, <1>4 DEF Pointers, Go
    <2>4. /\ held' \in Counts /\ held'.obj = held.obj
          /\ held'.busy = held.busy /\ held'.vcl = held.vcl
          /\ held'.conn = held.conn
      BY <1>1, <1>2, <1>4 DEF Counts, Go
    <2>5. Types'
      BY <1>1, <1>2, <2>2, <2>3, <2>4, TypesKept DEF IInv, Types
    <2>6. Ledger'
      BY <1>1, <1>2, <2>1, <2>3, <2>4, LedgerTyped
      DEF IInv, Ledger, One, Changes, AtStep
    <2>7. AtStep'
      BY <1>1, <1>2, <2>1, <2>3
      DEF IInv, Changes, AtStep, Between, Working, StayOnWorker
    <2>8. OffWorker'
      BY <1>1, <1>2, <2>1, <2>3 DEF IInv, OffWorker, StayOnWorker
    <2>9. Told'
      BY <1>1, <1>2, <2>1, <2>3
      DEF IInv, Changes, AtStep, Told, Between, Working, StayOnWorker
    <2> QED
      BY <2>5, <2>6, <2>7, <2>8, <2>9 DEF IInv
  <1> QED
    BY <1>1, <1>3, <1>4 DEF cnt_pipe

\* The end of a pipe closes the session and the connection.
LEMMA PipeEndsStep == IInv /\ PipeEnds => IInv'
  <1> SUFFICES ASSUME IInv, PipeEnds PROVE IInv'
    OBVIOUS
  <1>1. /\ sp \in Session /\ w \in Pointers /\ held \in Counts
        /\ at = "worker" /\ wrk = "session" /\ panic = "none"
        /\ sp.step = "PIPING" /\ (stack = <<>> <=> esis = 0)
    BY Entered DEF PipeEnds
  <1>2. /\ StayOnWorker /\ stack' = stack /\ waits' = waits /\ told' = told
    BY DEF PipeEnds
  <1>3. CASE /\ sp' = vca_close_session([sp EXCEPT !.step = "DONE", !.vbe = FALSE])
             /\ held' = VBE_Release(held) /\ w' = [w EXCEPT !.bereq = FALSE]
    <2>1. /\ Shaped /\ Changes({"step", "vbe", "fd"}) /\ sp'.step = "DONE"
          /\ sp'.vbe = FALSE /\ sp'.fd = FALSE
      BY <1>1, <1>2, <1>3
      DEF vca_close_session, VBE_Release, Shaped, Changes, Session
    <2>2. sp' \in Session
      BY <1>1, <1>2, <1>3, <2>1, TypedSession, BoundsAssumption
      DEF Changes, Session, Steps, ObjKinds
    <2>3. /\ w' \in Pointers /\ w'.vcl = w.vcl /\ w'.bereq = FALSE
          /\ w'.beresp = w.beresp
      BY <1>1, <1>2, <1>3 DEF Pointers, vca_close_session, VBE_Release
    <2>4. /\ held' \in Counts /\ held'.obj = held.obj
          /\ held'.busy = held.busy /\ held'.vcl = held.vcl
          /\ held'.conn = held.conn - 1
      BY <1>1, <1>2, <1>3 DEF Counts, vca_close_session, VBE_Release
    <2>5. Types'
      BY <1>1, <1>2, <2>2, <2>3, <2>4, TypesKept DEF IInv, Types
    <2>6. Ledger'
      BY <1>1, <1>2, <2>1, <2>3, <2>4, LedgerTyped
      DEF IInv, Ledger, One, Changes, AtStep
    <2>7. AtStep'
      BY <1>1, <1>2, <2>1, <2>3
      DEF IInv, Changes, AtStep, Between, Working, StayOnWorker
    <2>8. OffWorker'
      BY <1>1, <1>2, <2>1, <2>3 DEF IInv, OffWorker, StayOnWorker
    <2>9. Told'
      BY <1>1, <1>2, <2>1, <2>3
      DEF IInv, Changes, AtStep, Told, Between, Working, StayOnWorker
    <2> QED
      BY <2>5, <2>6, <2>7, <2>8, <2>9 DEF IInv
  <1> QED
    BY <1>1, <1>3 DEF PipeEnds

\* The request is read, and a VCL reference taken.
LEMMA cnt_startStep == IInv /\ cnt_start => IInv'
  <1> SUFFICES ASSUME IInv, cnt_start PROVE IInv'
    OBVIOUS
  <1>1. /\ sp \in Session /\ w \in Pointers /\ held \in Counts
        /\ at = "worker" /\ wrk = "session" /\ panic = "none"
        /\ sp.step = "START" /\ (stack = <<>> <=> esis = 0)
    BY Entered DEF cnt_start
  <1>2. /\ StayOnWorker /\ stack' = stack /\ waits' \in 0 .. MaxWaits
        /\ told' = "nothing" /\ w' = [w EXCEPT !.vcl = FALSE]
        /\ held' = IF w.vcl THEN held ELSE VclTaken(held)
    BY BoundsAssumption DEF cnt_start
  <1>3. CASE /\ sp' = vca_close_session([[sp EXCEPT !.xid = TRUE, !.vcl = TRUE]
                        EXCEPT !.step = "DONE"])
    <2>1. /\ Shaped /\ Changes({"step", "fd", "vcl", "xid"})
          /\ sp'.step = "DONE" /\ sp'.fd = FALSE /\ sp'.vcl = TRUE
          /\ sp'.xid = TRUE
      BY <1>1, <1>2, <1>3
      DEF vca_close_session, VclTaken, Shaped, Changes, Session
    <2>2. sp' \in Session
      BY <1>1, <1>2, <1>3, <2>1, TypedSession, BoundsAssumption
      DEF Changes, Session, Steps, ObjKinds
    <2>3. /\ w' \in Pointers /\ w'.vcl = FALSE /\ w'.bereq = w.bereq
          /\ w'.beresp = w.beresp
      BY <1>1, <1>2, <1>3 DEF Pointers, vca_close_session, VclTaken
    <2>4. /\ held' \in Counts /\ held'.obj = held.obj
          /\ held'.busy = held.busy /\ held'.vcl = 1 /\ held'.conn = held.conn
      BY <1>1, <1>2, <1>3, LedgerTyped
      DEF Counts, VclTaken, IInv, Ledger, One, AtStep, Between
    <2>5. Types'
      BY <1>1, <1>2, <2>2, <2>3, <2>4, TypesKept, BoundsAssumption
      DEF IInv, Types
    <2>6. Ledger'
      BY <1>1, <1>2, <2>1, <2>3, <2>4, LedgerTyped
      DEF IInv, Ledger, One, Changes, AtStep
    <2>7. AtStep'
      BY <1>1, <1>2, <2>1, <2>3
      DEF IInv, Changes, AtStep, Between, Working, StayOnWorker
    <2>8. OffWorker'
      BY <1>1, <1>2, <2>1, <2>3 DEF IInv, OffWorker, StayOnWorker
    <2>9. Told'
      BY <1>1, <1>2, <2>1, <2>3
      DEF IInv, Changes, AtStep, Told, Between, Working, StayOnWorker
    <2> QED
      BY <2>5, <2>6, <2>7, <2>8, <2>9 DEF IInv
  <1>4. CASE /\ sp' = [[sp EXCEPT !.xid = TRUE, !.vcl = TRUE] EXCEPT !.step = "ERROR"]
    <2>1. /\ Shaped /\ Changes({"step", "vcl", "xid"}) /\ sp'.step = "ERROR"
          /\ sp'.vcl = TRUE /\ sp'.xid = TRUE
      BY <1>1, <1>2, <1>4 DEF VclTaken, Shaped, Changes, Session
    <2>2. sp' \in Session
      BY <1>1, <1>2, <1>4, <2>1, TypedSession, BoundsAssumption
      DEF Changes, Session, Steps, ObjKinds
    <2>3. /\ w' \in Pointers /\ w'.vcl = FALSE /\ w'.bereq = w.bereq
          /\ w'.beresp = w.beresp
      BY <1>1, <1>2, <1>4 DEF Pointers, VclTaken
    <2>4. /\ held' \in Counts /\ held'.obj = held.obj
          /\ held'.busy = held.busy /\ held'.vcl = 1 /\ held'.conn = held.conn
      BY <1>1, <1>2, <1>4, LedgerTyped
      DEF Counts, VclTaken, IInv, Ledger, One, AtStep, Between
    <2>5. Types'
      BY <1>1, <1>2, <2>2, <2>3, <2>4, TypesKept, BoundsAssumption
      DEF IInv, Types
    <2>6. Ledger'
      BY <1>1, <1>2, <2>1, <2>3, <2>4, LedgerTyped
      DEF IInv, Ledger, One, Changes, AtStep
    <2>7. AtStep'
      BY <1>1, <1>2, <2>1, <2>3
      DEF IInv, Changes, AtStep, Between, Working, StayOnWorker
    <2>8. OffWorker'
      BY <1>1, <1>2, <2>1, <2>3 DEF IInv, OffWorker, StayOnWorker
    <2>9. Told'
      BY <1>1, <1>2, <2>1, <2>3
      DEF IInv, Changes, AtStep, Told, Between, Working, StayOnWorker
    <2> QED
      BY <2>5, <2>6, <2>7, <2>8, <2>9 DEF IInv
  <1>5. CASE /\ (\E close \in BOOLEAN :
                   sp' = [[sp EXCEPT !.xid = TRUE, !.vcl = TRUE]
                           EXCEPT !.step = "RECV", !.doclose = close])
    <2>1. /\ Shaped /\ Changes({"step", "vcl", "xid", "doclose"})
          /\ sp'.step = "RECV" /\ sp'.vcl = TRUE /\ sp'.xid = TRUE
          /\ sp'.doclose \in BOOLEAN
      BY <1>1, <1>2, <1>5 DEF VclTaken, Shaped, Changes, Session
    <2>2. sp' \in Session
      BY <1>1, <1>2, <1>5, <2>1, TypedSession, BoundsAssumption
      DEF Changes, Session, Steps, ObjKinds
    <2>3. /\ w' \in Pointers /\ w'.vcl = FALSE /\ w'.bereq = w.bereq
          /\ w'.beresp = w.beresp
      BY <1>1, <1>2, <1>5 DEF Pointers, VclTaken
    <2>4. /\ held' \in Counts /\ held'.obj = held.obj
          /\ held'.busy = held.busy /\ held'.vcl = 1 /\ held'.conn = held.conn
      BY <1>1, <1>2, <1>5, LedgerTyped
      DEF Counts, VclTaken, IInv, Ledger, One, AtStep, Between
    <2>5. Types'
      BY <1>1, <1>2, <2>2, <2>3, <2>4, TypesKept, BoundsAssumption
      DEF IInv, Types
    <2>6. Ledger'
      BY <1>1, <1>2, <2>1, <2>3, <2>4, LedgerTyped
      DEF IInv, Ledger, One, Changes, AtStep
    <2>7. AtStep'
      BY <1>1, <1>2, <2>1, <2>3
      DEF IInv, Changes, AtStep, Between, Working, StayOnWorker
    <2>8. OffWorker'
      BY <1>1, <1>2, <2>1, <2>3 DEF IInv, OffWorker, StayOnWorker
    <2>9. Told'
      BY <1>1, <1>2, <2>1, <2>3
      DEF IInv, Changes, AtStep, Told, Between, Working, StayOnWorker
    <2> QED
      BY <2>5, <2>6, <2>7, <2>8, <2>9 DEF IInv
  <1> QED
    BY <1>1, <1>3, <1>4, <1>5 DEF cnt_start

\* cnt_fetch gets a backend connection, or fails.
LEMMA cnt_fetchStep == IInv /\ cnt_fetch => IInv'
  <1> SUFFICES ASSUME IInv, cnt_fetch PROVE IInv'
    OBVIOUS
  <1>1. /\ sp \in Session /\ w \in Pointers /\ held \in Counts
        /\ at = "worker" /\ wrk = "session" /\ panic = "none"
        /\ sp.step = "FETCH" /\ (stack = <<>> <=> esis = 0)
    BY Entered DEF cnt_fetch
  <1>2. /\ StayOnWorker /\ stack' = stack /\ waits' = waits /\ told' = told
    BY DEF cnt_fetch
  <1>3. CASE /\ sp' = [sp EXCEPT !.step = "HDR", !.vbe = TRUE]
             /\ held' = ConnTaken(held) /\ w' = [w EXCEPT !.beresp = TRUE]
    <2>1. /\ Shaped /\ Changes({"step", "vbe"}) /\ sp'.step = "HDR"
          /\ sp'.vbe = TRUE
      BY <1>1, <1>2, <1>3 DEF ConnTaken, Shaped, Changes, Session
    <2>2. sp' \in Session
      BY <1>1, <1>2, <1>3, <2>1, TypedSession, BoundsAssumption
      DEF Changes, Session, Steps, ObjKinds
    <2>3. /\ w' \in Pointers /\ w'.vcl = w.vcl /\ w'.bereq = w.bereq
          /\ w'.beresp = TRUE
      BY <1>1, <1>2, <1>3 DEF Pointers, ConnTaken
    <2>4. /\ held' \in Counts /\ held'.obj = held.obj
          /\ held'.busy = held.busy /\ held'.vcl = held.vcl
          /\ held'.conn = held.conn + 1
      BY <1>1, <1>2, <1>3 DEF Counts, ConnTaken
    <2>5. Types'
      BY <1>1, <1>2, <2>2, <2>3, <2>4, TypesKept DEF IInv, Types
    <2>6. Ledger'
      BY <1>1, <1>2, <2>1, <2>3, <2>4, LedgerTyped
      DEF IInv, Ledger, One, Changes, AtStep
    <2>7. AtStep'
      BY <1>1, <1>2, <2>1, <2>3
      DEF IInv, Changes, AtStep, Between, Working, StayOnWorker
    <2>8. OffWorker'
      BY <1>1, <1>2, <2>1, <2>3 DEF IInv, OffWorker, StayOnWorker
    <2>9. Told'
      BY <1>1, <1>2, <2>1, <2>3
      DEF IInv, Changes, AtStep, Told, Between, Working, StayOnWorker
    <2> QED
      BY <2>5, <2>6, <2>7, <2>8, <2>9 DEF IInv
  <1>4. CASE /\ HdrFailed(sp, held) /\ sp.objcore
    <2>1. /\ Shaped /\ Changes({"step", "objcore", "vbe"})
          /\ sp'.step = "ERROR" /\ sp'.objcore = FALSE /\ sp'.vbe = FALSE
      BY <1>1, <1>2, <1>4 DEF HdrFailed, Shaped, Changes, Session
    <2>2. sp' \in Session
      BY <1>1, <1>2, <1>4, <2>1, TypedSession, BoundsAssumption
      DEF Changes, Session, Steps, ObjKinds
    <2>3. /\ w' \in Pointers /\ w'.vcl = w.vcl /\ w'.bereq = FALSE
          /\ w'.beresp = FALSE
      BY <1>1, <1>2, <1>4 DEF Pointers, HdrFailed, FetchDone
    <2>4. /\ held' \in Counts /\ held'.obj = held.obj
          /\ held'.busy = held.busy - 1 /\ held'.vcl = held.vcl
          /\ held'.conn = held.conn
      BY <1>1, <1>2, <1>4, Calls DEF Counts, HdrFailed
    <2>5. Types'
      BY <1>1, <1>2, <1>4, <2>2, <2>3, <2>4, TypesKept DEF IInv, Types
    <2>6. Ledger'
      BY <1>1, <1>2, <1>4, <2>1, <2>3, <2>4, LedgerTyped
      DEF IInv, Ledger, One, Changes, AtStep
    <2>7. AtStep'
      BY <1>1, <1>2, <1>4, <2>1, <2>3
      DEF IInv, Changes, AtStep, Between, Working, StayOnWorker
    <2>8. OffWorker'
      BY <1>1, <1>2, <1>4, <2>1, <2>3 DEF IInv, OffWorker, StayOnWorker
    <2>9. Told'
      BY <1>1, <1>2, <1>4, <2>1, <2>3
      DEF IInv, Changes, AtStep, Told, Between, Working, StayOnWorker
    <2> QED
      BY <2>5, <2>6, <2>7, <2>8, <2>9 DEF IInv
  <1>5. CASE /\ HdrFailed(sp, held) /\ ~sp.objcore
    <2>1. /\ Shaped /\ Changes({"step", "objcore", "vbe"})
          /\ sp'.step = "ERROR" /\ sp'.objcore = FALSE /\ sp'.vbe = FALSE
      BY <1>1, <1>2, <1>5 DEF HdrFailed, Shaped, Changes, Session
    <2>2. sp' \in Session
      BY <1>1, <1>2, <1>5, <2>1, TypedSession, BoundsAssumption
      DEF Changes, Session, Steps, ObjKinds
    <2>3. /\ w' \in Pointers /\ w'.vcl = w.vcl /\ w'.bereq = FALSE
          /\ w'.beresp = FALSE
      BY <1>1, <1>2, <1>5 DEF Pointers, HdrFailed, FetchDone
    <2>4. /\ held' \in Counts /\ held'.obj = held.obj
          /\ held'.busy = held.busy /\ held'.vcl = held.vcl
          /\ held'.conn = held.conn
      BY <1>1, <1>2, <1>5, Calls DEF Counts, HdrFailed
    <2>5. Types'
      BY <1>1, <1>2, <1>5, <2>2, <2>3, <2>4, TypesKept DEF IInv, Types
    <2>6. Ledger'
      BY <1>1, <1>2, <1>5, <2>1, <2>3, <2>4, LedgerTyped
      DEF IInv, Ledger, One, Changes, AtStep
    <2>7. AtStep'
      BY <1>1, <1>2, <1>5, <2>1, <2>3
      DEF IInv, Changes, AtStep, Between, Working, StayOnWorker
    <2>8. OffWorker'
      BY <1>1, <1>2, <1>5, <2>1, <2>3 DEF IInv, OffWorker, StayOnWorker
    <2>9. Told'
      BY <1>1, <1>2, <1>5, <2>1, <2>3
      DEF IInv, Changes, AtStep, Told, Between, Working, StayOnWorker
    <2> QED
      BY <2>5, <2>6, <2>7, <2>8, <2>9 DEF IInv
  <1> QED
    BY <1>1, <1>3, <1>4, <1>5 DEF cnt_fetch

\* The header of the response is there: a new object, or failure.
LEMMA FetchHdrStep == IInv /\ FetchHdr => IInv'
  <1> SUFFICES ASSUME IInv, FetchHdr PROVE IInv'
    OBVIOUS
  <1>1. /\ sp \in Session /\ w \in Pointers /\ held \in Counts
        /\ at = "worker" /\ wrk = "session" /\ panic = "none"
        /\ sp.step = "HDR" /\ (stack = <<>> <=> esis = 0)
    BY Entered DEF FetchHdr
  <1>2. /\ StayOnWorker /\ stack' = stack /\ waits' = waits /\ told' = told
    BY DEF FetchHdr
  <1>3. CASE /\ HdrFailed(sp, VBE_Release(held)) /\ sp.objcore
    <2>1. /\ Shaped /\ Changes({"step", "objcore", "vbe"})
          /\ sp'.step = "ERROR" /\ sp'.objcore = FALSE /\ sp'.vbe = FALSE
      BY <1>1, <1>2, <1>3 DEF HdrFailed, Shaped, Changes, Session
    <2>2. sp' \in Session
      BY <1>1, <1>2, <1>3, <2>1, TypedSession, BoundsAssumption
      DEF Changes, Session, Steps, ObjKinds
    <2>3. /\ w' \in Pointers /\ w'.vcl = w.vcl /\ w'.bereq = FALSE
          /\ w'.beresp = FALSE
      BY <1>1, <1>2, <1>3 DEF Pointers, HdrFailed, FetchDone
    <2>4. /\ held' \in Counts /\ held'.obj = held.obj
          /\ held'.busy = held.busy - 1 /\ held'.vcl = held.vcl
          /\ held'.conn = held.conn - 1
      <3> DEFINE v == VBE_Release(held)
      <3>1. /\ v \in Counts /\ v.conn = held.conn - 1 /\ v.obj = held.obj
            /\ v.busy = held.busy /\ v.vcl = held.vcl
        BY <1>1, Calls
      <3>2. held' = HSH_Unbusy(v)
        BY <1>3, <1>1, Calls, <3>1 DEF HdrFailed
      <3> HIDE DEF v
      <3>3. /\ HSH_Unbusy(v) \in Counts /\ HSH_Unbusy(v).busy = v.busy - 1
            /\ HSH_Unbusy(v).obj = v.obj /\ HSH_Unbusy(v).vcl = v.vcl
            /\ HSH_Unbusy(v).conn = v.conn
        BY <3>1, Calls
      <3> QED  BY <3>1, <3>2, <3>3
    <2>5. Types'
      BY <1>1, <1>2, <1>3, <2>2, <2>3, <2>4, TypesKept DEF IInv, Types
    <2>6. Ledger'
      BY <1>1, <1>2, <1>3, <2>1, <2>3, <2>4, LedgerTyped
      DEF IInv, Ledger, One, Changes, AtStep
    <2>7. AtStep'
      BY <1>1, <1>2, <1>3, <2>1, <2>3
      DEF IInv, Changes, AtStep, Between, Working, StayOnWorker
    <2>8. OffWorker'
      BY <1>1, <1>2, <1>3, <2>1, <2>3 DEF IInv, OffWorker, StayOnWorker
    <2>9. Told'
      BY <1>1, <1>2, <1>3, <2>1, <2>3
      DEF IInv, Changes, AtStep, Told, Between, Working, StayOnWorker
    <2> QED
      BY <2>5, <2>6, <2>7, <2>8, <2>9 DEF IInv
  <1>4. CASE /\ HdrFailed(sp, VBE_Release(held)) /\ ~sp.objcore
    <2>1. /\ Shaped /\ Changes({"step", "objcore", "vbe"})
          /\ sp'.step = "ERROR" /\ sp'.objcore = FALSE /\ sp'.vbe = FALSE
      BY <1>1, <1>2, <1>4 DEF HdrFailed, Shaped, Changes, Session
    <2>2. sp' \in Session
      BY <1>1, <1>2, <1>4, <2>1, TypedSession, BoundsAssumption
      DEF Changes, Session, Steps, ObjKinds
    <2>3. /\ w' \in Pointers /\ w'.vcl = w.vcl /\ w'.bereq = FALSE
          /\ w'.beresp = FALSE
      BY <1>1, <1>2, <1>4 DEF Pointers, HdrFailed, FetchDone
    <2>4. /\ held' \in Counts /\ held'.obj = held.obj
          /\ held'.busy = held.busy /\ held'.vcl = held.vcl
          /\ held'.conn = held.conn - 1
      BY <1>1, <1>2, <1>4, Calls DEF Counts, HdrFailed
    <2>5. Types'
      BY <1>1, <1>2, <1>4, <2>2, <2>3, <2>4, TypesKept DEF IInv, Types
    <2>6. Ledger'
      BY <1>1, <1>2, <1>4, <2>1, <2>3, <2>4, LedgerTyped
      DEF IInv, Ledger, One, Changes, AtStep
    <2>7. AtStep'
      BY <1>1, <1>2, <1>4, <2>1, <2>3
      DEF IInv, Changes, AtStep, Between, Working, StayOnWorker
    <2>8. OffWorker'
      BY <1>1, <1>2, <1>4, <2>1, <2>3 DEF IInv, OffWorker, StayOnWorker
    <2>9. Told'
      BY <1>1, <1>2, <1>4, <2>1, <2>3
      DEF IInv, Changes, AtStep, Told, Between, Working, StayOnWorker
    <2> QED
      BY <2>5, <2>6, <2>7, <2>8, <2>9 DEF IInv
  <1>5. CASE /\ (\E handling \in Returns.fetch : NewObject(handling, TRUE))
    <2>1. /\ Shaped /\ Changes({"step", "objcore", "obj"})
          /\ sp'.step = "BODY" /\ sp'.objcore = FALSE /\ sp'.obj = "busy"
          /\ sp.objcore
      BY <1>1, <1>2, <1>5 DEF NewObject, Shaped, Changes, Session
    <2>2. sp' \in Session
      BY <1>1, <1>2, <1>5, <2>1, TypedSession, BoundsAssumption
      DEF Changes, Session, Steps, ObjKinds
    <2>3. /\ w' \in Pointers /\ w'.vcl = w.vcl /\ w'.bereq = w.bereq
          /\ w'.beresp = w.beresp
      BY <1>1, <1>2, <1>5 DEF Pointers, NewObject
    <2>4. /\ held' \in Counts /\ held'.obj = held.obj + 1
          /\ held'.busy = held.busy /\ held'.vcl = held.vcl
          /\ held'.conn = held.conn
      BY <1>1, <1>2, <1>5, Calls DEF Counts, NewObject
    <2>5. Types'
      BY <1>1, <1>2, <2>2, <2>3, <2>4, TypesKept DEF IInv, Types
    <2>6. Ledger'
      BY <1>1, <1>2, <2>1, <2>3, <2>4, LedgerTyped
      DEF IInv, Ledger, One, Changes, AtStep
    <2>7. AtStep'
      BY <1>1, <1>2, <2>1, <2>3
      DEF IInv, Changes, AtStep, Between, Working, StayOnWorker
    <2>8. OffWorker'
      BY <1>1, <1>2, <2>1, <2>3 DEF IInv, OffWorker, StayOnWorker
    <2>9. Told'
      BY <1>1, <1>2, <2>1, <2>3
      DEF IInv, Changes, AtStep, Told, Between, Working, StayOnWorker
    <2> QED
      BY <2>5, <2>6, <2>7, <2>8, <2>9 DEF IInv
  <1>6. CASE /\ (\E handling \in Returns.fetch : NewObject(handling, FALSE))
             /\ sp.objcore
    <2>1. /\ Shaped /\ Changes({"step", "objcore", "obj"})
          /\ sp'.step = "BODY" /\ sp'.objcore = FALSE /\ sp'.obj = "anon"
      BY <1>1, <1>2, <1>6 DEF NewObject, Shaped, Changes, Session
    <2>2. sp' \in Session
      BY <1>1, <1>2, <1>6, <2>1, TypedSession, BoundsAssumption
      DEF Changes, Session, Steps, ObjKinds
    <2>3. /\ w' \in Pointers /\ w'.vcl = w.vcl /\ w'.bereq = w.bereq
          /\ w'.beresp = w.beresp
      BY <1>1, <1>2, <1>6 DEF Pointers, NewObject
    <2>4. /\ held' \in Counts /\ held'.obj = held.obj + 1
          /\ held'.busy = held.busy - 1 /\ held'.vcl = held.vcl
          /\ held'.conn = held.conn
      BY <1>1, <1>2, <1>6, Calls DEF Counts, NewObject
    <2>5. Types'
      BY <1>1, <1>2, <1>6, <2>2, <2>3, <2>4, TypesKept DEF IInv, Types
    <2>6. Ledger'
      BY <1>1, <1>2, <1>6, <2>1, <2>3, <2>4, LedgerTyped
      DEF IInv, Ledger, One, Changes, AtStep
    <2>7. AtStep'
      BY <1>1, <1>2, <1>6, <2>1, <2>3
      DEF IInv, Changes, AtStep, Between, Working, StayOnWorker
    <2>8. OffWorker'
      BY <1>1, <1>2, <1>6, <2>1, <2>3 DEF IInv, OffWorker, StayOnWorker
    <2>9. Told'
      BY <1>1, <1>2, <1>6, <2>1, <2>3
      DEF IInv, Changes, AtStep, Told, Between, Working, StayOnWorker
    <2> QED
      BY <2>5, <2>6, <2>7, <2>8, <2>9 DEF IInv
  <1>7. CASE /\ (\E handling \in Returns.fetch : NewObject(handling, FALSE))
             /\ ~sp.objcore
    <2>1. /\ Shaped /\ Changes({"step", "objcore", "obj"})
          /\ sp'.step = "BODY" /\ sp'.objcore = FALSE /\ sp'.obj = "anon"
      BY <1>1, <1>2, <1>7 DEF NewObject, Shaped, Changes, Session
    <2>2. sp' \in Session
      BY <1>1, <1>2, <1>7, <2>1, TypedSession, BoundsAssumption
      DEF Changes, Session, Steps, ObjKinds
    <2>3. /\ w' \in Pointers /\ w'.vcl = w.vcl /\ w'.bereq = w.bereq
          /\ w'.beresp = w.beresp
      BY <1>1, <1>2, <1>7 DEF Pointers, NewObject
    <2>4. /\ held' \in Counts /\ held'.obj = held.obj + 1
          /\ held'.busy = held.busy /\ held'.vcl = held.vcl
          /\ held'.conn = held.conn
      BY <1>1, <1>2, <1>7, Calls DEF Counts, NewObject
    <2>5. Types'
      BY <1>1, <1>2, <1>7, <2>2, <2>3, <2>4, TypesKept DEF IInv, Types
    <2>6. Ledger'
      BY <1>1, <1>2, <1>7, <2>1, <2>3, <2>4, LedgerTyped
      DEF IInv, Ledger, One, Changes, AtStep
    <2>7. AtStep'
      BY <1>1, <1>2, <1>7, <2>1, <2>3
      DEF IInv, Changes, AtStep, Between, Working, StayOnWorker
    <2>8. OffWorker'
      BY <1>1, <1>2, <1>7, <2>1, <2>3 DEF IInv, OffWorker, StayOnWorker
    <2>9. Told'
      BY <1>1, <1>2, <1>7, <2>1, <2>3
      DEF IInv, Changes, AtStep, Told, Between, Working, StayOnWorker
    <2> QED
      BY <2>5, <2>6, <2>7, <2>8, <2>9 DEF IInv
  <1> QED
    BY <1>1, <1>3, <1>4, <1>5, <1>6, <1>7 DEF FetchHdr

\* The body is there, or not: the object is published, delivered or dropped.
LEMMA FetchBodyStep == IInv /\ FetchBody => IInv'
  <1> SUFFICES ASSUME IInv, FetchBody PROVE IInv'
    OBVIOUS
  <1>1. /\ sp \in Session /\ w \in Pointers /\ held \in Counts
        /\ at = "worker" /\ wrk = "session" /\ panic = "none"
        /\ sp.step = "BODY" /\ (stack = <<>> <=> esis = 0)
    BY Entered DEF FetchBody
  <1>2. /\ StayOnWorker /\ stack' = stack /\ waits' = waits /\ told' = told
        /\ w' = FetchDone
    BY DEF FetchBody
  <1>3. CASE /\ sp.obj = "busy"
             /\ sp' = [[[sp EXCEPT !.vbe = FALSE] EXCEPT !.obj = "none"]
                        EXCEPT !.step = "ERROR"]
             /\ held' = HSH_Drop(VBE_Release(held), sp.obj)
    <2>1. /\ Shaped /\ Changes({"step", "vbe", "obj"}) /\ sp'.step = "ERROR"
          /\ sp'.vbe = FALSE /\ sp'.obj = "none"
      BY <1>1, <1>2, <1>3 DEF Shaped, Changes, Session
    <2>2. sp' \in Session
      BY <1>1, <1>2, <1>3, <2>1, TypedSession, BoundsAssumption
      DEF Changes, Session, Steps, ObjKinds
    <2>3. /\ w' \in Pointers /\ w'.vcl = w.vcl /\ w'.bereq = FALSE
          /\ w'.beresp = FALSE
      BY <1>1, <1>2, <1>3 DEF Pointers, FetchDone
    <2>4. /\ held' \in Counts /\ held'.obj = held.obj - 1
          /\ held'.busy = held.busy - 1 /\ held'.vcl = held.vcl
          /\ held'.conn = held.conn - 1
      BY <1>1, <1>2, <1>3, DropCalls DEF Counts
    <2>5. Types'
      BY <1>1, <1>2, <1>3, <2>2, <2>3, <2>4, TypesKept DEF IInv, Types
    <2>6. Ledger'
      BY <1>1, <1>2, <1>3, <2>1, <2>3, <2>4, LedgerTyped
      DEF IInv, Ledger, One, Changes, AtStep
    <2>7. AtStep'
      BY <1>1, <1>2, <1>3, <2>1, <2>3
      DEF IInv, Changes, AtStep, Between, Working, StayOnWorker
    <2>8. OffWorker'
      BY <1>1, <1>2, <1>3, <2>1, <2>3 DEF IInv, OffWorker, StayOnWorker
    <2>9. Told'
      BY <1>1, <1>2, <1>3, <2>1, <2>3
      DEF IInv, Changes, AtStep, Told, Between, Working, StayOnWorker
    <2> QED
      BY <2>5, <2>6, <2>7, <2>8, <2>9 DEF IInv
  <1>4. CASE /\ sp.obj = "busy"
             /\ sp' = Restarted([[sp EXCEPT !.vbe = FALSE] EXCEPT !.obj = "none"])
             /\ held' = HSH_Drop(VBE_Release(held), sp.obj)
    <2>1. /\ Shaped /\ Changes({"step", "vbe", "obj", "director", "restarts"})
          /\ sp'.step = "RECV" /\ sp'.vbe = FALSE /\ sp'.obj = "none"
          /\ sp'.director = FALSE /\ sp'.restarts = sp.restarts + 1
      BY <1>1, <1>2, <1>4 DEF Restarted, Shaped, Changes, Session
    <2>2. sp' \in Session
      <3>1. sp'.restarts \in 0 .. MaxRestarts
        BY <1>1, <1>2, <1>4, <2>1, BoundsAssumption DEF Session, IInv, AtStep
      <3>2. /\ sp'.step \in Steps /\ sp'.fd \in BOOLEAN /\ sp'.vcl \in BOOLEAN
            /\ sp'.obj \in ObjKinds /\ sp'.objcore \in BOOLEAN
            /\ sp'.director \in BOOLEAN /\ sp'.vbe \in BOOLEAN
            /\ sp'.doclose \in BOOLEAN /\ sp'.xid \in BOOLEAN
            /\ sp'.disable_esi \in BOOLEAN /\ sp'.bits \in 0 .. MaxIncludes
        BY <1>1, <1>2, <2>1 DEF Changes, Session, Steps, ObjKinds
      <3>3. Shaped
        BY <2>1
      <3> QED
        BY <3>1, <3>2, <3>3, TypedSession
    <2>3. /\ w' \in Pointers /\ w'.vcl = w.vcl /\ w'.bereq = FALSE
          /\ w'.beresp = FALSE
      BY <1>1, <1>2, <1>4 DEF Pointers, FetchDone
    <2>4. /\ held' \in Counts /\ held'.obj = held.obj - 1
          /\ held'.busy = held.busy - 1 /\ held'.vcl = held.vcl
          /\ held'.conn = held.conn - 1
      BY <1>1, <1>2, <1>4, DropCalls DEF Counts
    <2>5. Types'
      BY <1>1, <1>2, <1>4, <2>2, <2>3, <2>4, TypesKept DEF IInv, Types
    <2>6. Ledger'
      BY <1>1, <1>2, <1>4, <2>1, <2>3, <2>4, LedgerTyped
      DEF IInv, Ledger, One, Changes, AtStep
    <2>7. AtStep'
      BY <1>1, <1>2, <1>4, <2>1, <2>3
      DEF IInv, Changes, AtStep, Between, Working, StayOnWorker
    <2>8. OffWorker'
      BY <1>1, <1>2, <1>4, <2>1, <2>3 DEF IInv, OffWorker, StayOnWorker
    <2>9. Told'
      BY <1>1, <1>2, <1>4, <2>1, <2>3
      DEF IInv, Changes, AtStep, Told, Between, Working, StayOnWorker
    <2> QED
      BY <2>5, <2>6, <2>7, <2>8, <2>9 DEF IInv
  <1>5. CASE /\ sp.obj = "anon"
             /\ sp' = [[[sp EXCEPT !.vbe = FALSE] EXCEPT !.obj = "none"]
                        EXCEPT !.step = "ERROR"]
             /\ held' = HSH_Drop(VBE_Release(held), sp.obj)
    <2>1. /\ Shaped /\ Changes({"step", "vbe", "obj"}) /\ sp'.step = "ERROR"
          /\ sp'.vbe = FALSE /\ sp'.obj = "none"
      BY <1>1, <1>2, <1>5 DEF Shaped, Changes, Session
    <2>2. sp' \in Session
      BY <1>1, <1>2, <1>5, <2>1, TypedSession, BoundsAssumption
      DEF Changes, Session, Steps, ObjKinds
    <2>3. /\ w' \in Pointers /\ w'.vcl = w.vcl /\ w'.bereq = FALSE
          /\ w'.beresp = FALSE
      BY <1>1, <1>2, <1>5 DEF Pointers, FetchDone
    <2>4. /\ held' \in Counts /\ held'.obj = held.obj - 1
          /\ held'.busy = held.busy /\ held'.vcl = held.vcl
          /\ held'.conn = held.conn - 1
      BY <1>1, <1>2, <1>5, DropCalls DEF Counts
    <2>5. Types'
      BY <1>1, <1>2, <1>5, <2>2, <2>3, <2>4, TypesKept DEF IInv, Types
    <2>6. Ledger'
      BY <1>1, <1>2, <1>5, <2>1, <2>3, <2>4, LedgerTyped
      DEF IInv, Ledger, One, Changes, AtStep
    <2>7. AtStep'
      BY <1>1, <1>2, <1>5, <2>1, <2>3
      DEF IInv, Changes, AtStep, Between, Working, StayOnWorker
    <2>8. OffWorker'
      BY <1>1, <1>2, <1>5, <2>1, <2>3 DEF IInv, OffWorker, StayOnWorker
    <2>9. Told'
      BY <1>1, <1>2, <1>5, <2>1, <2>3
      DEF IInv, Changes, AtStep, Told, Between, Working, StayOnWorker
    <2> QED
      BY <2>5, <2>6, <2>7, <2>8, <2>9 DEF IInv
  <1>6. CASE /\ sp.obj = "anon"
             /\ sp' = Restarted([[sp EXCEPT !.vbe = FALSE] EXCEPT !.obj = "none"])
             /\ held' = HSH_Drop(VBE_Release(held), sp.obj)
    <2>1. /\ Shaped /\ Changes({"step", "vbe", "obj", "director", "restarts"})
          /\ sp'.step = "RECV" /\ sp'.vbe = FALSE /\ sp'.obj = "none"
          /\ sp'.director = FALSE /\ sp'.restarts = sp.restarts + 1
      BY <1>1, <1>2, <1>6 DEF Restarted, Shaped, Changes, Session
    <2>2. sp' \in Session
      <3>1. sp'.restarts \in 0 .. MaxRestarts
        BY <1>1, <1>2, <1>6, <2>1, BoundsAssumption DEF Session, IInv, AtStep
      <3>2. /\ sp'.step \in Steps /\ sp'.fd \in BOOLEAN /\ sp'.vcl \in BOOLEAN
            /\ sp'.obj \in ObjKinds /\ sp'.objcore \in BOOLEAN
            /\ sp'.director \in BOOLEAN /\ sp'.vbe \in BOOLEAN
            /\ sp'.doclose \in BOOLEAN /\ sp'.xid \in BOOLEAN
            /\ sp'.disable_esi \in BOOLEAN /\ sp'.bits \in 0 .. MaxIncludes
        BY <1>1, <1>2, <2>1 DEF Changes, Session, Steps, ObjKinds
      <3>3. Shaped
        BY <2>1
      <3> QED
        BY <3>1, <3>2, <3>3, TypedSession
    <2>3. /\ w' \in Pointers /\ w'.vcl = w.vcl /\ w'.bereq = FALSE
          /\ w'.beresp = FALSE
      BY <1>1, <1>2, <1>6 DEF Pointers, FetchDone
    <2>4. /\ held' \in Counts /\ held'.obj = held.obj - 1
          /\ held'.busy = held.busy /\ held'.vcl = held.vcl
          /\ held'.conn = held.conn - 1
      BY <1>1, <1>2, <1>6, DropCalls DEF Counts
    <2>5. Types'
      BY <1>1, <1>2, <1>6, <2>2, <2>3, <2>4, TypesKept DEF IInv, Types
    <2>6. Ledger'
      BY <1>1, <1>2, <1>6, <2>1, <2>3, <2>4, LedgerTyped
      DEF IInv, Ledger, One, Changes, AtStep
    <2>7. AtStep'
      BY <1>1, <1>2, <1>6, <2>1, <2>3
      DEF IInv, Changes, AtStep, Between, Working, StayOnWorker
    <2>8. OffWorker'
      BY <1>1, <1>2, <1>6, <2>1, <2>3 DEF IInv, OffWorker, StayOnWorker
    <2>9. Told'
      BY <1>1, <1>2, <1>6, <2>1, <2>3
      DEF IInv, Changes, AtStep, Told, Between, Working, StayOnWorker
    <2> QED
      BY <2>5, <2>6, <2>7, <2>8, <2>9 DEF IInv
  <1>7. CASE /\ sp.obj = "busy"
             /\ sp' = [[sp EXCEPT !.vbe = FALSE]
                        EXCEPT !.step = "DELIVER", !.obj = "cached"]
             /\ held' = HSH_Unbusy(VBE_Release(held))
    <2>1. /\ Shaped /\ Changes({"step", "vbe", "obj"}) /\ sp'.step = "DELIVER"
          /\ sp'.vbe = FALSE /\ sp'.obj = "cached"
      BY <1>1, <1>2, <1>7 DEF Shaped, Changes, Session
    <2>2. sp' \in Session
      BY <1>1, <1>2, <1>7, <2>1, TypedSession, BoundsAssumption
      DEF Changes, Session, Steps, ObjKinds
    <2>3. /\ w' \in Pointers /\ w'.vcl = w.vcl /\ w'.bereq = FALSE
          /\ w'.beresp = FALSE
      BY <1>1, <1>2, <1>7 DEF Pointers, FetchDone
    <2>4. /\ held' \in Counts /\ held'.obj = held.obj
          /\ held'.busy = held.busy - 1 /\ held'.vcl = held.vcl
          /\ held'.conn = held.conn - 1
      BY <1>1, <1>2, <1>7, Calls DEF Counts
    <2>5. Types'
      BY <1>1, <1>2, <1>7, <2>2, <2>3, <2>4, TypesKept DEF IInv, Types
    <2>6. Ledger'
      BY <1>1, <1>2, <1>7, <2>1, <2>3, <2>4, LedgerTyped
      DEF IInv, Ledger, One, Changes, AtStep
    <2>7. AtStep'
      BY <1>1, <1>2, <1>7, <2>1, <2>3
      DEF IInv, Changes, AtStep, Between, Working, StayOnWorker
    <2>8. OffWorker'
      BY <1>1, <1>2, <1>7, <2>1, <2>3 DEF IInv, OffWorker, StayOnWorker
    <2>9. Told'
      BY <1>1, <1>2, <1>7, <2>1, <2>3
      DEF IInv, Changes, AtStep, Told, Between, Working, StayOnWorker
    <2> QED
      BY <2>5, <2>6, <2>7, <2>8, <2>9 DEF IInv
  <1>8. CASE /\ sp.obj = "anon"
             /\ sp' = [[sp EXCEPT !.vbe = FALSE]
                        EXCEPT !.step = "DELIVER", !.obj = "anon"]
             /\ held' = VBE_Release(held)
    <2>1. /\ Shaped /\ Changes({"step", "vbe", "obj"}) /\ sp'.step = "DELIVER"
          /\ sp'.vbe = FALSE /\ sp'.obj = "anon"
      BY <1>1, <1>2, <1>8 DEF Shaped, Changes, Session
    <2>2. sp' \in Session
      BY <1>1, <1>2, <1>8, <2>1, TypedSession, BoundsAssumption
      DEF Changes, Session, Steps, ObjKinds
    <2>3. /\ w' \in Pointers /\ w'.vcl = w.vcl /\ w'.bereq = FALSE
          /\ w'.beresp = FALSE
      BY <1>1, <1>2, <1>8 DEF Pointers, FetchDone
    <2>4. /\ held' \in Counts /\ held'.obj = held.obj
          /\ held'.busy = held.busy /\ held'.vcl = held.vcl
          /\ held'.conn = held.conn - 1
      BY <1>1, <1>2, <1>8, Calls DEF Counts
    <2>5. Types'
      BY <1>1, <1>2, <1>8, <2>2, <2>3, <2>4, TypesKept DEF IInv, Types
    <2>6. Ledger'
      BY <1>1, <1>2, <1>8, <2>1, <2>3, <2>4, LedgerTyped
      DEF IInv, Ledger, One, Changes, AtStep
    <2>7. AtStep'
      BY <1>1, <1>2, <1>8, <2>1, <2>3
      DEF IInv, Changes, AtStep, Between, Working, StayOnWorker
    <2>8. OffWorker'
      BY <1>1, <1>2, <1>8, <2>1, <2>3 DEF IInv, OffWorker, StayOnWorker
    <2>9. Told'
      BY <1>1, <1>2, <1>8, <2>1, <2>3
      DEF IInv, Changes, AtStep, Told, Between, Working, StayOnWorker
    <2> QED
      BY <2>5, <2>6, <2>7, <2>8, <2>9 DEF IInv
  <1> QED
    BY <1>1, <1>3, <1>4, <1>5, <1>6, <1>7, <1>8
    DEF FetchBody, FetchVerdict, IInv, AtStep, Session

\* A synthetic object, delivered or dropped.
LEMMA cnt_errorStep == IInv /\ cnt_error => IInv'
  <1> SUFFICES ASSUME IInv, cnt_error PROVE IInv'
    OBVIOUS
  <1>1. /\ sp \in Session /\ w \in Pointers /\ held \in Counts
        /\ at = "worker" /\ wrk = "session" /\ panic = "none"
        /\ sp.step = "ERROR" /\ (stack = <<>> <=> esis = 0)
    BY Entered DEF cnt_error
  <1>2. /\ StayOnWorker /\ stack' = stack /\ waits' = waits /\ told' = told
    BY DEF cnt_error
  <1>3. CASE /\ sp.restarts < MaxRestarts /\ sp' = Restarted(sp) /\ w' = w
             /\ held' = HSH_Deref(STV_NewObject(held))
    <2>1. /\ Shaped /\ Changes({"step", "director", "restarts"})
          /\ sp'.step = "RECV" /\ sp'.director = FALSE
          /\ sp'.restarts = sp.restarts + 1
      BY <1>1, <1>2, <1>3 DEF Restarted, Shaped, Changes, Session
    <2>2. sp' \in Session
      <3>1. sp'.restarts \in 0 .. MaxRestarts
        BY <1>1, <1>2, <1>3, <2>1, BoundsAssumption DEF Session, IInv, AtStep
      <3>2. /\ sp'.step \in Steps /\ sp'.fd \in BOOLEAN /\ sp'.vcl \in BOOLEAN
            /\ sp'.obj \in ObjKinds /\ sp'.objcore \in BOOLEAN
            /\ sp'.director \in BOOLEAN /\ sp'.vbe \in BOOLEAN
            /\ sp'.doclose \in BOOLEAN /\ sp'.xid \in BOOLEAN
            /\ sp'.disable_esi \in BOOLEAN /\ sp'.bits \in 0 .. MaxIncludes
        BY <1>1, <1>2, <2>1 DEF Changes, Session, Steps, ObjKinds
      <3>3. Shaped
        BY <2>1
      <3> QED
        BY <3>1, <3>2, <3>3, TypedSession
    <2>3. /\ w' \in Pointers /\ w'.vcl = w.vcl /\ w'.bereq = w.bereq
          /\ w'.beresp = w.beresp
      BY <1>1, <1>2, <1>3 DEF Pointers, Restarted
    <2>4. /\ held' \in Counts /\ held'.obj = held.obj
          /\ held'.busy = held.busy /\ held'.vcl = held.vcl
          /\ held'.conn = held.conn
      BY <1>1, <1>2, <1>3, NestedCalls DEF Counts
    <2>5. Types'
      BY <1>1, <1>2, <2>2, <2>3, <2>4, TypesKept DEF IInv, Types
    <2>6. Ledger'
      BY <1>1, <1>2, <2>1, <2>3, <2>4, LedgerTyped
      DEF IInv, Ledger, One, Changes, AtStep
    <2>7. AtStep'
      BY <1>1, <1>2, <2>1, <2>3
      DEF IInv, Changes, AtStep, Between, Working, StayOnWorker
    <2>8. OffWorker'
      BY <1>1, <1>2, <2>1, <2>3 DEF IInv, OffWorker, StayOnWorker
    <2>9. Told'
      BY <1>1, <1>2, <2>1, <2>3
      DEF IInv, Changes, AtStep, Told, Between, Working, StayOnWorker
    <2> QED
      BY <2>5, <2>6, <2>7, <2>8, <2>9 DEF IInv
  <1>4. CASE /\ sp' = [sp EXCEPT !.step = "DELIVER", !.obj = "anon", !.doclose = TRUE]
             /\ held' = STV_NewObject(held) /\ w' = [w EXCEPT !.bereq = FALSE]
    <2>1. /\ Shaped /\ Changes({"step", "obj", "doclose"})
          /\ sp'.step = "DELIVER" /\ sp'.obj = "anon" /\ sp'.doclose = TRUE
      BY <1>1, <1>2, <1>4 DEF Shaped, Changes, Session
    <2>2. sp' \in Session
      BY <1>1, <1>2, <1>4, <2>1, TypedSession, BoundsAssumption
      DEF Changes, Session, Steps, ObjKinds
    <2>3. /\ w' \in Pointers /\ w'.vcl = w.vcl /\ w'.bereq = FALSE
          /\ w'.beresp = w.beresp
      BY <1>1, <1>2, <1>4 DEF Pointers
    <2>4. /\ held' \in Counts /\ held'.obj = held.obj + 1
          /\ held'.busy = held.busy /\ held'.vcl = held.vcl
          /\ held'.conn = held.conn
      BY <1>1, <1>2, <1>4, Calls DEF Counts
    <2>5. Types'
      BY <1>1, <1>2, <2>2, <2>3, <2>4, TypesKept DEF IInv, Types
    <2>6. Ledger'
      BY <1>1, <1>2, <2>1, <2>3, <2>4, LedgerTyped
      DEF IInv, Ledger, One, Changes, AtStep
    <2>7. AtStep'
      BY <1>1, <1>2, <2>1, <2>3
      DEF IInv, Changes, AtStep, Between, Working, StayOnWorker
    <2>8. OffWorker'
      BY <1>1, <1>2, <2>1, <2>3 DEF IInv, OffWorker, StayOnWorker
    <2>9. Told'
      BY <1>1, <1>2, <2>1, <2>3
      DEF IInv, Changes, AtStep, Told, Between, Working, StayOnWorker
    <2> QED
      BY <2>5, <2>6, <2>7, <2>8, <2>9 DEF IInv
  <1> QED
    BY <1>1, <1>3, <1>4 DEF cnt_error, HSH_Drop

\* Delivery, to its end or to the first include.
LEMMA cnt_deliverStep == IInv /\ cnt_deliver => IInv'
  <1> SUFFICES ASSUME IInv, cnt_deliver PROVE IInv'
    OBVIOUS
  <1>1. /\ sp \in Session /\ w \in Pointers /\ held \in Counts
        /\ at = "worker" /\ wrk = "session" /\ panic = "none"
        /\ sp.step = "DELIVER" /\ (stack = <<>> <=> esis = 0)
    BY Entered DEF cnt_deliver
  <1>2. /\ StayOnWorker /\ stack' = stack /\ waits' = waits /\ HeaderSent
    BY DEF cnt_deliver
  <1>3. CASE /\ Delivered([sp EXCEPT !.director = FALSE, !.restarts = 0])
    <2>1. /\ Shaped
          /\ Changes({"step", "obj", "bits", "director", "restarts", "fd"})
          /\ sp'.step = "DONE" /\ sp'.obj = "none" /\ sp'.bits = 0
          /\ sp'.director = FALSE /\ sp'.restarts = 0 /\ sp'.fd \in BOOLEAN
          /\ (sp'.fd => sp.fd)
      BY <1>1, <1>2, <1>3 DEF Delivered, Shaped, Changes, Session
    <2>2. sp' \in Session
      <3>1. sp'.restarts \in 0 .. MaxRestarts
        BY <1>1, <1>2, <1>3, <2>1, BoundsAssumption DEF Session
      <3>2. /\ sp'.step \in Steps /\ sp'.fd \in BOOLEAN /\ sp'.vcl \in BOOLEAN
            /\ sp'.obj \in ObjKinds /\ sp'.objcore \in BOOLEAN
            /\ sp'.director \in BOOLEAN /\ sp'.vbe \in BOOLEAN
            /\ sp'.doclose \in BOOLEAN /\ sp'.xid \in BOOLEAN
            /\ sp'.disable_esi \in BOOLEAN
        BY <1>1, <1>2, <2>1 DEF Changes, Session, Steps, ObjKinds
      <3>3. sp'.bits \in 0 .. MaxIncludes
        BY <2>1, BoundsAssumption
      <3>4. Shaped
        BY <2>1
      <3> QED
        BY <3>1, <3>2, <3>3, <3>4, TypedSession
    <2>3. /\ w' \in Pointers /\ w'.vcl = w.vcl /\ w'.bereq = w.bereq
          /\ w'.beresp = w.beresp
      BY <1>1, <1>2, <1>3 DEF Pointers, Delivered
    <2>4. /\ held' \in Counts /\ held'.obj = held.obj - 1
          /\ held'.busy = held.busy /\ held'.vcl = held.vcl
          /\ held'.conn = held.conn
      BY <1>1, <1>2, <1>3, Calls DEF Counts, Delivered
    <2>5. Types'
      BY <1>1, <1>2, <2>2, <2>3, <2>4, TypesKept DEF IInv, Types, HeaderSent
    <2>6. Ledger'
      BY <1>1, <1>2, <2>1, <2>3, <2>4, LedgerTyped
      DEF IInv, Ledger, One, Changes, AtStep
    <2>7. AtStep'
      BY <1>1, <1>2, <2>1, <2>3
      DEF IInv, Changes, AtStep, Between, Working, StayOnWorker, HeaderSent
    <2>8. OffWorker'
      BY <1>1, <1>2, <2>1, <2>3 DEF IInv, OffWorker, StayOnWorker
    <2>9. Told'
      BY <1>1, <1>2, <2>1, <2>3
      DEF IInv, Changes, AtStep, Told, Between, Working, StayOnWorker,
          HeaderSent
    <2> QED
      BY <2>5, <2>6, <2>7, <2>8, <2>9 DEF IInv
  <1>4. CASE /\ ~sp.disable_esi
             /\ (\E n \in 1 .. MaxIncludes, c \in BOOLEAN :
                   sp' = [[sp EXCEPT !.director = FALSE, !.restarts = 0]
                           EXCEPT !.step = "ESI", !.bits = n, !.doclose = c])
             /\ w' = [w EXCEPT !.resp = TRUE] /\ held' = held
    <2>1. /\ Shaped
          /\ Changes({"step", "bits", "director", "restarts", "doclose"})
          /\ sp'.step = "ESI" /\ sp'.director = FALSE /\ sp'.restarts = 0
          /\ sp'.bits \in 1 .. MaxIncludes /\ sp'.doclose \in BOOLEAN
      BY <1>1, <1>2, <1>4 DEF Shaped, Changes, Session
    <2>2. sp' \in Session
      <3>1. sp'.restarts \in 0 .. MaxRestarts
        BY <1>1, <1>2, <1>4, <2>1, BoundsAssumption DEF Session
      <3>2. /\ sp'.step \in Steps /\ sp'.fd \in BOOLEAN /\ sp'.vcl \in BOOLEAN
            /\ sp'.obj \in ObjKinds /\ sp'.objcore \in BOOLEAN
            /\ sp'.director \in BOOLEAN /\ sp'.vbe \in BOOLEAN
            /\ sp'.doclose \in BOOLEAN /\ sp'.xid \in BOOLEAN
            /\ sp'.disable_esi \in BOOLEAN
        BY <1>1, <1>2, <2>1 DEF Changes, Session, Steps, ObjKinds
      <3>3. sp'.bits \in 0 .. MaxIncludes
        BY <2>1, BoundsAssumption
      <3>4. Shaped
        BY <2>1
      <3> QED
        BY <3>1, <3>2, <3>3, <3>4, TypedSession
    <2>3. /\ w' \in Pointers /\ w'.vcl = w.vcl /\ w'.bereq = w.bereq
          /\ w'.beresp = w.beresp
      BY <1>1, <1>2, <1>4 DEF Pointers
    <2>4. /\ held' \in Counts /\ held'.obj = held.obj
          /\ held'.busy = held.busy /\ held'.vcl = held.vcl
          /\ held'.conn = held.conn
      BY <1>1, <1>2, <1>4 DEF Counts
    <2>5. Types'
      BY <1>1, <1>2, <1>4, <2>2, <2>3, <2>4, TypesKept
      DEF IInv, Types, HeaderSent
    <2>6. Ledger'
      BY <1>1, <1>2, <1>4, <2>1, <2>3, <2>4, LedgerTyped
      DEF IInv, Ledger, One, Changes, AtStep
    <2>7. AtStep'
      BY <1>1, <1>2, <1>4, <2>1, <2>3
      DEF IInv, Changes, AtStep, Between, Working, StayOnWorker, HeaderSent
    <2>8. OffWorker'
      BY <1>1, <1>2, <1>4, <2>1, <2>3 DEF IInv, OffWorker, StayOnWorker
    <2>9. Told'
      BY <1>1, <1>2, <1>4, <2>1, <2>3
      DEF IInv, Changes, AtStep, Told, Between, Working, StayOnWorker,
          HeaderSent
    <2> QED
      BY <2>5, <2>6, <2>7, <2>8, <2>9 DEF IInv
  <1> QED
    BY <1>1, <1>3, <1>4 DEF cnt_deliver

\* No include is left, or a write failed.
LEMMA EsiEndStep == IInv /\ EsiEnd => IInv'
  <1> SUFFICES ASSUME IInv, EsiEnd PROVE IInv'
    OBVIOUS
  <1>1. /\ sp \in Session /\ w \in Pointers /\ held \in Counts
        /\ at = "worker" /\ wrk = "session" /\ panic = "none"
        /\ sp.step = "ESI" /\ (stack = <<>> <=> esis = 0)
    BY Entered DEF EsiEnd
  <1>2. /\ StayOnWorker /\ stack' = stack /\ waits' = waits /\ told' = told
    BY DEF EsiEnd
  <1>3. CASE /\ Delivered(sp)
    <2>1. /\ Shaped /\ Changes({"step", "obj", "bits", "fd"})
          /\ sp'.step = "DONE" /\ sp'.obj = "none" /\ sp'.bits = 0
          /\ sp'.fd \in BOOLEAN /\ (sp'.fd => sp.fd)
      BY <1>1, <1>2, <1>3
      DEF Delivered, vca_close_session, Shaped, Changes, Session
    <2>2. sp' \in Session
      BY <1>1, <1>2, <1>3, <2>1, TypedSession, BoundsAssumption
      DEF Changes, Session, Steps, ObjKinds
    <2>3. /\ w' \in Pointers /\ w'.vcl = w.vcl /\ w'.bereq = w.bereq
          /\ w'.beresp = w.beresp
      BY <1>1, <1>2, <1>3 DEF Pointers, Delivered, vca_close_session
    <2>4. /\ held' \in Counts /\ held'.obj = held.obj - 1
          /\ held'.busy = held.busy /\ held'.vcl = held.vcl
          /\ held'.conn = held.conn
      BY <1>1, <1>2, <1>3, Calls DEF Counts, Delivered, vca_close_session
    <2>5. Types'
      BY <1>1, <1>2, <2>2, <2>3, <2>4, TypesKept DEF IInv, Types
    <2>6. Ledger'
      BY <1>1, <1>2, <2>1, <2>3, <2>4, LedgerTyped
      DEF IInv, Ledger, One, Changes, AtStep
    <2>7. AtStep'
      BY <1>1, <1>2, <2>1, <2>3
      DEF IInv, Changes, AtStep, Between, Working, StayOnWorker
    <2>8. OffWorker'
      BY <1>1, <1>2, <2>1, <2>3 DEF IInv, OffWorker, StayOnWorker
    <2>9. Told'
      BY <1>1, <1>2, <2>1, <2>3
      DEF IInv, Changes, AtStep, Told, Between, Working, StayOnWorker
    <2> QED
      BY <2>5, <2>6, <2>7, <2>8, <2>9 DEF IInv
  <1>4. CASE /\ Delivered(vca_close_session(sp))
    <2>1. /\ Shaped /\ Changes({"step", "obj", "bits", "fd"})
          /\ sp'.step = "DONE" /\ sp'.obj = "none" /\ sp'.bits = 0
          /\ sp'.fd \in BOOLEAN /\ (sp'.fd => sp.fd)
      BY <1>1, <1>2, <1>4
      DEF Delivered, vca_close_session, Shaped, Changes, Session
    <2>2. sp' \in Session
      BY <1>1, <1>2, <1>4, <2>1, TypedSession, BoundsAssumption
      DEF Changes, Session, Steps, ObjKinds
    <2>3. /\ w' \in Pointers /\ w'.vcl = w.vcl /\ w'.bereq = w.bereq
          /\ w'.beresp = w.beresp
      BY <1>1, <1>2, <1>4 DEF Pointers, Delivered, vca_close_session
    <2>4. /\ held' \in Counts /\ held'.obj = held.obj - 1
          /\ held'.busy = held.busy /\ held'.vcl = held.vcl
          /\ held'.conn = held.conn
      BY <1>1, <1>2, <1>4, Calls DEF Counts, Delivered, vca_close_session
    <2>5. Types'
      BY <1>1, <1>2, <2>2, <2>3, <2>4, TypesKept DEF IInv, Types
    <2>6. Ledger'
      BY <1>1, <1>2, <2>1, <2>3, <2>4, LedgerTyped
      DEF IInv, Ledger, One, Changes, AtStep
    <2>7. AtStep'
      BY <1>1, <1>2, <2>1, <2>3
      DEF IInv, Changes, AtStep, Between, Working, StayOnWorker
    <2>8. OffWorker'
      BY <1>1, <1>2, <2>1, <2>3 DEF IInv, OffWorker, StayOnWorker
    <2>9. Told'
      BY <1>1, <1>2, <2>1, <2>3
      DEF IInv, Changes, AtStep, Told, Between, Working, StayOnWorker
    <2> QED
      BY <2>5, <2>6, <2>7, <2>8, <2>9 DEF IInv
  <1> QED
    BY <1>1, <1>3, <1>4 DEF EsiEnd

\* A part of a request, or none: back to the waiter, or closed.
LEMMA cnt_waitStep == IInv /\ cnt_wait => IInv'
  <1> SUFFICES ASSUME IInv, cnt_wait PROVE IInv'
    OBVIOUS
  <1>1. /\ sp \in Session /\ w \in Pointers /\ held \in Counts /\ at = "worker"
        /\ wrk = "session" /\ panic = "none" /\ sp.step = "WAIT"
    BY Entered DEF cnt_wait
  <1>2. UNCHANGED <<stack, w, held, waits, told, panic>>
    BY DEF cnt_wait, StayOnWorker
  <1>3. /\ Shaped /\ Changes({"step", "fd"})
        /\ \/ sp'.step = "START" /\ sp'.fd = sp.fd /\ UNCHANGED <<at, wrk>>
           \/ sp'.step = "WAIT" /\ sp'.fd = sp.fd /\ LeaveWorker("waiter")
           \/ sp'.step = "WAIT" /\ sp'.fd = FALSE /\ LeaveWorker("leaked")
           \/ sp'.step = "DONE" /\ sp'.fd = FALSE /\ UNCHANGED <<at, wrk>>
    BY <1>1 DEF cnt_wait, HTC_Rx, vca_return_session, vca_close_session, Go, StayOnWorker,
                Shaped, Changes, Session
  <1>4. sp' \in Session
    BY <1>1, <1>3, TypedSession DEF Changes, Session, Steps
  <1>5. Types'
    BY <1>1, <1>2, <1>3, <1>4 DEF IInv, Types, LeaveWorker
  <1>6. Ledger'
    BY <1>2, <1>3 DEF IInv, Ledger, Changes
  <1>7. AtStep' /\ OffWorker' /\ Told'
    BY <1>1, <1>2, <1>3
    DEF IInv, Changes, AtStep, OffWorker, Told, Between, Working, LeaveWorker
  <1> QED
    BY <1>5, <1>6, <1>7 DEF IInv

\* A busy object: on the waiting list, or asleep inside ESI_Deliver.
LEMMA LookupBusyStep == IInv /\ LookupBusy => IInv'
  <1> SUFFICES ASSUME IInv, LookupBusy PROVE IInv'
    OBVIOUS
  <1>1. /\ sp \in Session /\ w \in Pointers /\ held \in Counts /\ at = "worker"
        /\ wrk = "session" /\ panic = "none" /\ sp.step = "LOOKUP"
        /\ (stack = <<>> <=> esis = 0)
    BY Entered DEF LookupBusy
  <1>2. UNCHANGED <<sp, stack, w, held, told, panic>>
    BY DEF LookupBusy
  <1>2a. waits' \in 0 .. MaxWaits
    <2>1. waits \in 0 .. MaxWaits /\ waits < MaxWaits /\ waits' = waits + 1
      BY DEF LookupBusy, IInv, Types
    <2> QED
      BY <2>1, BoundsAssumption
  <1>3. \/ esis = 0 /\ LeaveWorker("parked")
        \/ esis # 0 /\ at' = "spin" /\ wrk' = wrk
    BY DEF LookupBusy
  <1>4. Types'
    BY <1>1, <1>2, <1>2a, <1>3 DEF IInv, Types, LeaveWorker
  <1>5. Ledger'
    BY <1>2 DEF IInv, Ledger
  <1>6. AtStep' /\ OffWorker' /\ Told'
    BY <1>1, <1>2, <1>3 DEF IInv, AtStep, OffWorker, Told, Between, Working, LeaveWorker
  <1> QED
    BY <1>4, <1>5, <1>6 DEF IInv

\* ESI_Deliver sets its object aside: the reference moves to the stack.
LEMMA EsiIncludeStep == IInv /\ EsiInclude => IInv'
  <1> SUFFICES ASSUME IInv, EsiInclude PROVE IInv'
    OBVIOUS
  <1>1. /\ sp \in Session /\ w \in Pointers /\ held \in Counts /\ at = "worker"
        /\ wrk = "session" /\ panic = "none" /\ sp.step = "ESI"
    BY Entered DEF EsiInclude
  <1>2. /\ StayOnWorker /\ UNCHANGED <<w, held, waits, told>>
        /\ sp.bits > 0 /\ Len(stack) < MaxEsi
    BY DEF EsiInclude, EsiLeft, esis
  <1>3. /\ Shaped /\ Changes({"step", "obj", "bits", "director"})
        /\ sp'.step = "RECV" /\ sp'.obj = "none" /\ sp'.bits = 0 /\ sp'.director = FALSE
    BY <1>1 DEF EsiInclude, Shaped, Changes, Session
  <1>4. sp' \in Session
    <2>1. sp'.bits \in 0 .. MaxIncludes
      BY <1>3, BoundsAssumption
    <2>2. /\ sp'.step \in Steps /\ sp'.fd \in BOOLEAN /\ sp'.vcl \in BOOLEAN
          /\ sp'.obj \in ObjKinds /\ sp'.objcore \in BOOLEAN /\ sp'.director \in BOOLEAN
          /\ sp'.vbe \in BOOLEAN /\ sp'.restarts \in 0 .. MaxRestarts
          /\ sp'.doclose \in BOOLEAN /\ sp'.xid \in BOOLEAN /\ sp'.disable_esi \in BOOLEAN
      BY <1>1, <1>3 DEF Changes, Session, Steps, ObjKinds
    <2> QED
      BY <1>3, <2>1, <2>2, TypedSession
  <1>5. [obj |-> sp.obj, bits |-> sp.bits - 1] \in Saved
    BY <1>1, <1>2, BoundsAssumption DEF IInv, AtStep, Session, Saved
  <1>6. stack' = Append(stack, [obj |-> sp.obj, bits |-> sp.bits - 1])
    BY DEF EsiInclude
  <1>7. /\ stack' \in Seq(Saved) /\ Len(stack') = Len(stack) + 1 /\ stack' # <<>>
    <2>1. stack \in Seq(Saved)
      BY DEF IInv, Types
    <2> QED
      BY <1>5, <1>6, <2>1, AppendProperties
  <1>7a. Len(stack') <= MaxEsi
    BY <1>2, <1>7, LedgerTyped, BoundsAssumption
  <1>8. Types'
    BY <1>1, <1>2, <1>4, <1>7, <1>7a DEF IInv, Types, StayOnWorker
  <1>9. Ledger'
    BY <1>1, <1>2, <1>3, <1>7, LedgerTyped DEF IInv, Ledger, One, Changes, AtStep
  <1>10. AtStep' /\ OffWorker' /\ Told'
    BY <1>1, <1>2, <1>3, <1>7
    DEF IInv, Changes, AtStep, OffWorker, Told, Between, Working, StayOnWorker
  <1> QED
    BY <1>8, <1>9, <1>10 DEF IInv

\* The include is done: ESI_Deliver has its object back.
LEMMA EsiReturnStep == IInv /\ EsiReturn => IInv'
  <1> SUFFICES ASSUME IInv, EsiReturn PROVE IInv'
    OBVIOUS
  <1>1. /\ sp \in Session /\ w \in Pointers /\ held \in Counts /\ at = "worker"
        /\ wrk = "session" /\ panic = "none" /\ sp.step = "DONE"
    BY Entered DEF EsiReturn
  <1>2. /\ StayOnWorker /\ UNCHANGED <<w, held, waits, told>>
        /\ Len(stack) > 0 /\ stack' = SubSeq(stack, 1, Len(stack) - 1)
    BY DEF EsiReturn, esis
  <1>3. /\ stack[Len(stack)] \in Saved /\ stack' \in Seq(Saved)
        /\ Len(stack') = Len(stack) - 1 /\ stack # <<>> /\ Len(stack') <= MaxEsi
    <2>1. stack \in Seq(Saved) /\ Len(stack) \in Nat /\ Len(stack) <= MaxEsi
      BY LenProperties DEF IInv, Types
    <2>2. \A i \in 1 .. Len(stack) : stack[i] \in Saved
      BY <2>1, ElementOfSeq
    <2>3. SubSeq(stack, 1, Len(stack) - 1) \in Seq(Saved)
          /\ Len(SubSeq(stack, 1, Len(stack) - 1)) =
               IF 1 <= Len(stack) - 1 THEN Len(stack) - 1 - 1 + 1 ELSE 0
      BY <2>1, <2>2, SubSeqProperties
    <2>4. stack # <<>>
      BY <1>2, EmptySeq
    <2>5. Len(stack) \in 1 .. Len(stack)
          /\ Len(SubSeq(stack, 1, Len(stack) - 1)) = Len(stack) - 1
      <3>1. ASSUME NEW n \in Nat, n > 0, NEW m, m = IF 1 <= n - 1 THEN n - 1 - 1 + 1 ELSE 0
            PROVE  n \in 1 .. n /\ m = n - 1
        BY <3>1
      <3> QED
        BY <1>2, <2>1, <2>3, <3>1
    <2>6. Len(stack) - 1 <= MaxEsi
      BY <2>1, BoundsAssumption
    <2> QED
      BY <1>2, <2>2, <2>3, <2>4, <2>5, <2>6
  <1>4. /\ Shaped /\ Changes({"step", "obj", "bits", "director", "restarts", "xid"})
        /\ sp'.step = "ESI" /\ sp'.obj = stack[Len(stack)].obj
        /\ sp'.bits = stack[Len(stack)].bits /\ sp'.director = FALSE
        /\ sp'.restarts = 0 /\ sp'.xid = FALSE
    BY <1>1 DEF EsiReturn, Shaped, Changes, Session, esis
  <1>5. sp'.obj \in {"cached", "anon"} /\ sp'.bits \in 0 .. MaxIncludes
    BY <1>3, <1>4 DEF Saved
  <1>6. sp' \in Session
    <2>1. sp'.restarts \in 0 .. MaxRestarts
      BY <1>4, BoundsAssumption
    <2>2. /\ sp'.step \in Steps /\ sp'.fd \in BOOLEAN /\ sp'.vcl \in BOOLEAN
          /\ sp'.objcore \in BOOLEAN /\ sp'.director \in BOOLEAN
          /\ sp'.vbe \in BOOLEAN /\ sp'.doclose \in BOOLEAN
          /\ sp'.xid \in BOOLEAN /\ sp'.disable_esi \in BOOLEAN
      BY <1>1, <1>4 DEF Changes, Session, Steps
    <2>3. sp'.obj \in ObjKinds
      BY <1>5 DEF ObjKinds
    <2> QED
      BY <1>4, <1>5, <2>1, <2>2, <2>3, TypedSession
  <1>7. Types'
    BY <1>1, <1>2, <1>3, <1>6 DEF IInv, Types, StayOnWorker
  <1>8. Ledger'
    <2>1. sp.obj = "none" /\ sp'.obj # "none" /\ sp'.obj # "busy"
      BY <1>1, <1>5 DEF IInv, AtStep
    <2>2. held.obj = Len(stack) /\ held'.obj = Len(stack') + 1
      BY <1>2, <1>3, <2>1, LedgerTyped DEF IInv, Ledger, One
    <2> QED
      BY <1>2, <1>4, <2>1, <2>2 DEF IInv, Ledger, One, Changes
  <1>9. AtStep' /\ OffWorker' /\ Told'
    BY <1>1, <1>2, <1>3, <1>4, <1>5
    DEF IInv, Changes, AtStep, OffWorker, Told, Between, Working, StayOnWorker
  <1> QED
    BY <1>7, <1>8, <1>9 DEF IInv

\* The end of a request: the worker takes the VCL reference back.
LEMMA cnt_doneStep == IInv /\ cnt_done => IInv'
  <1> SUFFICES ASSUME IInv, cnt_done PROVE IInv'
    OBVIOUS
  <1>1. /\ sp \in Session /\ w \in Pointers /\ held \in Counts /\ at = "worker"
        /\ wrk = "session" /\ panic = "none" /\ sp.step = "DONE" /\ stack = <<>>
    BY Entered DEF cnt_done
  <1>2. UNCHANGED <<stack, waits, told, panic>>
    BY DEF cnt_done
  <1>3. /\ Shaped /\ Changes({"director", "restarts", "vcl", "xid", "fd", "step"})
        /\ sp'.director = FALSE /\ sp'.restarts = 0 /\ sp'.vcl = FALSE /\ sp'.xid = FALSE
    BY <1>1 DEF cnt_done, Shaped, Changes, Session, vca_close_session
  <1>4. \/ sp'.step = "DONE" /\ sp'.fd = FALSE /\ LeaveWorker("free")
        \/ sp'.step \in {"START", "WAIT"} /\ sp.fd /\ sp'.fd = TRUE /\ UNCHANGED <<at, wrk>>
        \/ sp'.step = "DONE" /\ sp.fd /\ sp'.fd = TRUE /\ LeaveWorker("waiter")
        \/ sp'.step = "DONE" /\ sp'.fd = FALSE /\ LeaveWorker("leaked")
    BY <1>1 DEF cnt_done, Session, vca_close_session
  <1>5. sp' \in Session
    <2>1. sp'.step \in Steps /\ sp'.fd \in BOOLEAN
      BY <1>4 DEF Steps
    <2>2. sp'.restarts \in 0 .. MaxRestarts
      BY <1>3, BoundsAssumption
    <2>3. /\ sp'.obj \in ObjKinds /\ sp'.objcore \in BOOLEAN /\ sp'.vbe \in BOOLEAN
          /\ sp'.doclose \in BOOLEAN /\ sp'.disable_esi \in BOOLEAN
          /\ sp'.bits \in 0 .. MaxIncludes
          /\ sp'.vcl \in BOOLEAN /\ sp'.xid \in BOOLEAN /\ sp'.director \in BOOLEAN
      BY <1>1, <1>3 DEF Changes, Session
    <2> QED
      BY <1>3, <2>1, <2>2, <2>3, TypedSession
  <1>6. /\ w' \in Pointers /\ w'.bereq = w.bereq /\ w'.beresp = w.beresp
        /\ w'.vcl = (w.vcl \/ sp.vcl)
    BY <1>1 DEF cnt_done, Pointers, Session
  <1>7. held' = IF sp.vcl /\ w.vcl THEN VclGivenBack(held) ELSE held
    BY DEF cnt_done
  <1>8. /\ held' \in Counts
        /\ held'.obj = held.obj /\ held'.busy = held.busy /\ held'.conn = held.conn
        /\ sp.vcl /\ w.vcl => held'.vcl = held.vcl - 1
        /\ ~(sp.vcl /\ w.vcl) => held'.vcl = held.vcl
    BY <1>1, <1>7 DEF Counts, VclGivenBack
  <1>9. Types'
    BY <1>1, <1>2, <1>4, <1>5, <1>6, <1>8 DEF IInv, Types, LeaveWorker
  <1>10. Ledger'
    <2>1. held.vcl = One(sp.vcl) + One(w.vcl) /\ w.vcl \in BOOLEAN /\ sp.vcl \in BOOLEAN
      BY LedgerTyped DEF IInv, Ledger
    <2>2. held'.vcl = One(sp'.vcl) + One(w'.vcl)
      <3>1. CASE sp.vcl /\ w.vcl
        <4>1. held.vcl = 2 /\ held'.vcl = held.vcl - 1
          BY <1>8, <2>1, <3>1 DEF One
        <4>2. One(sp'.vcl) = 0 /\ One(w'.vcl) = 1
          BY <1>3, <1>6, <2>1, <3>1 DEF One
        <4> QED
          BY <4>1, <4>2
      <3>2. CASE ~(sp.vcl /\ w.vcl)
        BY <1>3, <1>6, <1>8, <2>1, <3>2 DEF One
      <3> QED
        BY <3>1, <3>2
    <2> QED
      BY <1>2, <1>3, <1>8, <2>2 DEF IInv, Ledger, Changes
  <1>11. AtStep' /\ OffWorker' /\ Told'
    BY <1>1, <1>2, <1>3, <1>4, <1>6
    DEF IInv, Changes, AtStep, OffWorker, Told, Between, Working, LeaveWorker
  <1> QED
    BY <1>9, <1>10, <1>11 DEF IInv


-----------------------------------------------------------------------------
(* The other steps. *)

\* A VCL program asks for what a handler cannot do, and the child dies.
LEMMA UnimplementedStep ==
  ASSUME IInv, PipeInEsi \/ MissRestart \/ PassRestart \/ PipeError \/ DeliverRestart
  PROVE  IInv'
  <1>1. /\ UNCHANGED <<sp, stack, w, at, wrk, held, waits, told>>
        /\ panic' \in {"INCOMPL", "cnt_pass"}
    BY DEF PipeInEsi, MissRestart, PassRestart, PipeError, DeliverRestart, Unimplemented
  <1>2. Types'
    BY <1>1 DEF IInv, Types
  <1>3. Ledger' /\ AtStep' /\ OffWorker' /\ Told'
    BY <1>1 DEF IInv, Ledger, AtStep, OffWorker, Told
  <1> QED
    BY <1>2, <1>3 DEF IInv

\* The sleep inside ESI_Deliver is over, or a worker is done with the session.
LEMMA IdleStep ==
  ASSUME IInv, SpinAgain \/ WorkerReturns
  PROVE  IInv'
  <1>1. /\ UNCHANGED <<sp, stack, w, held, waits, told>>
        /\ panic' \in {"none", "worker"}
    BY DEF SpinAgain, WorkerReturns
  <1>2. \/ at = "spin" /\ at' = "worker" /\ wrk' = wrk
        \/ at' = at /\ wrk = "returned" /\ wrk' = "idle"
    BY DEF SpinAgain, WorkerReturns
  <1>3. Types'
    BY <1>1, <1>2 DEF IInv, Types
  <1>4. Ledger'
    BY <1>1 DEF IInv, Ledger
  <1>5. AtStep' /\ OffWorker' /\ Told'
    BY <1>1, <1>2 DEF IInv, AtStep, OffWorker, Told
  <1> QED
    BY <1>3, <1>4, <1>5 DEF IInv

\* A worker gets the session.  The VCL reference it brings along is counted.
LEMMA OnWorkerCounts ==
  ASSUME IInv, OnWorker
  PROVE  /\ w' \in Pointers /\ w'.bereq = w.bereq /\ w'.beresp = FALSE
         /\ held' \in Counts /\ held'.obj = held.obj /\ held'.busy = held.busy
         /\ held'.conn = held.conn /\ held'.vcl = One(sp.vcl) + One(w'.vcl)
         /\ at' = "worker" /\ wrk' = "session" /\ wrk = "idle" /\ stack' = stack
         /\ panic' = panic
  <1>1. PICK has \in BOOLEAN :
          /\ w' = [w EXCEPT !.vcl = has]
          /\ held' = [held EXCEPT !.vcl = @ - (IF w.vcl THEN 1 ELSE 0) + (IF has THEN 1 ELSE 0)]
    BY DEF OnWorker
  <1>2. /\ w \in Pointers /\ held \in Counts /\ held.vcl = One(sp.vcl) + One(w.vcl)
        /\ wrk = "idle" /\ ~w.beresp /\ at' = "worker" /\ wrk' = "session"
        /\ UNCHANGED <<stack, panic>>
    BY DEF OnWorker, IInv, Types, Ledger, OffWorker
  <1>3. /\ w' \in Pointers /\ w'.vcl = has /\ w'.bereq = w.bereq /\ w'.beresp = w.beresp
    BY <1>1, <1>2 DEF Pointers
  <1>4. /\ held' \in Counts /\ held'.obj = held.obj /\ held'.busy = held.busy
        /\ held'.conn = held.conn /\ held'.vcl = held.vcl - One(w.vcl) + One(has)
    BY <1>1, <1>2 DEF Counts, One
  <1>5. held'.vcl = One(sp.vcl) + One(w'.vcl)
    <2>1. One(w.vcl) \in Int /\ One(has) \in Int /\ One(sp.vcl) \in Int
      BY DEF One
    <2>2. held'.vcl = One(sp.vcl) + One(has)
      BY <1>2, <1>4, <2>1
    <2> QED
      BY <1>3, <2>2
  <1>6. w'.beresp = FALSE
    BY <1>2, <1>3 DEF Pointers
  <1> QED
    BY <1>2, <1>3, <1>4, <1>5, <1>6

\* A complete request, a busy object no more, or a new connection.
LEMMA HandoverStep == IInv /\ Handover => IInv'
  <1> SUFFICES ASSUME IInv, Handover PROVE IInv'
    OBVIOUS
  <1>1. /\ at = "waiter" /\ OnWorker /\ sp \in Session /\ UNCHANGED <<waits, told>>
    BY DEF Handover, IInv, Types
  <1>2. Shaped /\ Changes({"step"}) /\ sp'.step = "START"
    BY <1>1 DEF Handover, Go, Shaped, Changes, Session
  <1>3. sp' \in Session
    BY <1>1, <1>2, TypedSession DEF Changes, Session, Steps
  <1>4. Types'
    BY <1>1, <1>3, OnWorkerCounts DEF IInv, Types
  <1>5. Ledger'
    BY <1>1, <1>2, OnWorkerCounts DEF IInv, Ledger, Changes
  <1>6. AtStep' /\ OffWorker' /\ Told'
    BY <1>1, <1>2, OnWorkerCounts
    DEF IInv, Changes, AtStep, OffWorker, Told, Between, Working
  <1> QED
    BY <1>4, <1>5, <1>6 DEF IInv

\* hsh_rush wakes the session up: it looks up again.
LEMMA ResumeStep == IInv /\ Resume => IInv'
  <1> SUFFICES ASSUME IInv, Resume PROVE IInv'
    OBVIOUS
  <1>1. at = "parked" /\ OnWorker /\ UNCHANGED <<sp, waits, told>>
    BY DEF Resume
  <1>2. Types'
    BY <1>1, OnWorkerCounts DEF IInv, Types
  <1>3. Ledger'
    BY <1>1, OnWorkerCounts DEF IInv, Ledger
  <1>4. AtStep' /\ OffWorker' /\ Told'
    BY <1>1, OnWorkerCounts DEF IInv, AtStep, OffWorker, Told, Between, Working
  <1> QED
    BY <1>2, <1>3, <1>4 DEF IInv

\* SES_New: a session with nothing in its hands.
LEMMA AcceptStep == IInv /\ Accept => IInv'
  <1> SUFFICES ASSUME IInv, Accept PROVE IInv'
    OBVIOUS
  <1>1. /\ at \in {"free", "leaked"} /\ OnWorker /\ sp' = NewSession
        /\ waits' = 0 /\ told' = "nothing"
    BY DEF Accept
  <1>2. /\ sp'.step = "FIRST" /\ sp'.fd = TRUE /\ sp'.vcl = FALSE /\ sp'.obj = "none"
        /\ sp'.objcore = FALSE /\ sp'.director = FALSE /\ sp'.vbe = FALSE
        /\ sp'.restarts = 0 /\ sp'.xid = FALSE
    BY <1>1 DEF NewSession
  <1>3. sp' \in Session
    BY <1>1, BoundsAssumption DEF NewSession, Session, Steps, ObjKinds
  <1>4. waits' \in 0 .. MaxWaits
    BY <1>1, BoundsAssumption
  <1>5. Types'
    BY <1>1, <1>3, <1>4, OnWorkerCounts DEF IInv, Types
  <1>6. Ledger'
    BY <1>1, <1>2, OnWorkerCounts, LedgerTyped DEF IInv, Ledger, One, OffWorker
  <1>7. AtStep' /\ OffWorker' /\ Told'
    BY <1>1, <1>2, OnWorkerCounts
    DEF IInv, AtStep, OffWorker, Told, Between, Working
  <1> QED
    BY <1>5, <1>6, <1>7 DEF IInv

\* A session is deleted while it waits: its VCL reference is given back.
LEMMA DroppedStep == IInv /\ Dropped => IInv'
  <1> SUFFICES ASSUME IInv, Dropped PROVE IInv'
    OBVIOUS
  <1>1. /\ at \in {"waiter", "parked"} /\ at' = "free" /\ sp \in Session /\ held \in Counts
        /\ UNCHANGED <<stack, w, wrk, waits, told, panic>>
    BY DEF Dropped, IInv, Types
  <1>2. Shaped /\ Changes({"vcl", "fd"}) /\ sp'.vcl = FALSE /\ sp'.fd = FALSE
    BY <1>1 DEF Dropped, vca_close_session, Shaped, Changes, Session
  <1>3. sp' \in Session
    BY <1>1, <1>2, TypedSession DEF Changes, Session
  <1>4. held' = IF sp.vcl THEN VclGivenBack(held) ELSE held
    BY DEF Dropped
  <1>5. /\ held' \in Counts
        /\ held'.obj = held.obj /\ held'.busy = held.busy /\ held'.conn = held.conn
        /\ held'.vcl = held.vcl - One(sp.vcl)
    BY <1>1, <1>4 DEF Counts, VclGivenBack, One
  <1>6. Types'
    BY <1>1, <1>3, <1>5 DEF IInv, Types
  <1>7. Ledger'
    <2>1. One(w.vcl) \in Int /\ One(sp.vcl) \in Int /\ One(sp'.vcl) = 0
      BY <1>2 DEF One
    <2>2. held'.vcl = One(sp'.vcl) + One(w'.vcl)
      BY <1>1, <1>5, <2>1 DEF IInv, Ledger
    <2> QED
      BY <1>1, <1>2, <1>5, <2>2 DEF IInv, Ledger, Changes
  <1>8. AtStep' /\ OffWorker' /\ Told'
    BY <1>1, <1>2 DEF IInv, Changes, AtStep, OffWorker, Told, Between, Working
  <1> QED
    BY <1>6, <1>7, <1>8 DEF IInv

-----------------------------------------------------------------------------
(* The theorems. *)

\* Every step of the session, its workers and the waiter keeps the invariant.
LEMMA Inductive == IInv /\ [Next]_vars => IInv'
  <1> SUFFICES ASSUME IInv, [Next]_vars PROVE IInv'
    OBVIOUS
  <1>1. CASE UNCHANGED vars
    <2>1. Types'
      BY <1>1 DEF vars, IInv, Types
    <2>2. Ledger' /\ AtStep'
      BY <1>1 DEF vars, IInv, Ledger, AtStep
    <2>3. OffWorker' /\ Told'
      BY <1>1 DEF vars, IInv, OffWorker, Told
    <2> QED
      BY <2>1, <2>2, <2>3 DEF IInv
  <1>2. CASE CNT_Session
    BY <1>2, cnt_firstStep, cnt_waitStep, cnt_startStep, cnt_recvStep, LookupFindsStep,
       LookupBusyStep, cnt_hitStep, cnt_missStep, cnt_passStep, cnt_pipeStep, PipeEndsStep,
       cnt_fetchStep, FetchHdrStep, FetchBodyStep, cnt_errorStep, cnt_deliverStep,
       EsiIncludeStep, EsiEndStep, EsiReturnStep, cnt_doneStep, UnimplementedStep
    DEF CNT_Session
  <1>3. CASE SpinAgain \/ WorkerReturns \/ Handover \/ Resume \/ Accept \/ Dropped
    BY <1>3, IdleStep, HandoverStep, ResumeStep, AcceptStep, DroppedStep
  <1> QED
    BY <1>1, <1>2, <1>3 DEF Next, Dead

\* IInv holds in every reachable state.
THEOREM Invariance == Spec => []IInv
  BY Initially, Inductive, PTL DEF Spec

\* No handler of cache_center.c leaks or releases twice, restarts more often
\* than max_restarts, or is entered in a state it does not expect.
THEOREM RequestTheorem == Spec => []RequestInv
  <1>1. IInv => TypeOK
    <2> SUFFICES ASSUME IInv PROVE TypeOK
      OBVIOUS
    <2>1. \A i \in 1 .. esis : stack[i] \in [obj : ObjKinds, bits : 0 .. MaxIncludes]
      <3>1. stack \in Seq(Saved)
        BY DEF IInv, Types
      <3>2. \A i \in 1 .. Len(stack) : stack[i] \in Saved
        BY <3>1, ElementOfSeq
      <3> QED
        BY <3>2 DEF Saved, ObjKinds, esis
    <2> QED
      BY <2>1 DEF IInv, Types, Session, Pointers, Counts, TypeOK, esis
  <1>2. IInv => Balanced
    BY DEF IInv, Ledger, Balanced, esis
  <1>3. IInv => AssertionsHold
    BY DEF IInv, AtStep, AssertionsHold, Between, Working
  <1> QED
    BY <1>1, <1>2, <1>3, Invariance, PTL DEF RequestInv

\* Who waits, for the client or for another request, or is gone, keeps nothing
\* that somebody else may be waiting for.
THEOREM NothingHeldTheorem == Spec => []NothingHeld
  <1>1. IInv => NoHoldAndWait
    <2> SUFFICES ASSUME IInv, at \in {"parked", "spin"} \/ (at = "worker" /\ sp.step = "LOOKUP")
                 PROVE  held.busy = 0 /\ \A i \in 1 .. esis : stack[i].obj # "busy"
      BY DEF NoHoldAndWait
    <2>1. held.busy = 0
      <3>1. sp.step = "LOOKUP" /\ at \in {"worker", "spin", "parked"}
        BY DEF IInv, OffWorker
      <3>2. ~sp.objcore /\ sp.obj = "none"
        BY <3>1 DEF IInv, AtStep
      <3> QED
        BY <3>2 DEF IInv, Ledger, One
    <2>2. \A i \in 1 .. Len(stack) : stack[i] \in Saved
      BY ElementOfSeq DEF IInv, Types
    <2> QED
      BY <2>1, <2>2 DEF Saved, esis
  <1>2. IInv => NothingLeftBehind
    <2> SUFFICES ASSUME IInv, at \in {"parked", "waiter", "free", "leaked"}
                 PROVE  /\ stack = <<>> /\ held.obj = 0 /\ held.busy = 0 /\ held.conn = 0
                        /\ (sp.vcl <=> at = "parked")
                        /\ (at \in {"parked", "waiter"} <=> sp.fd)
      BY DEF NothingLeftBehind
    <2>1. stack = <<>> /\ Len(stack) = 0 /\ sp.obj = "none" /\ ~sp.objcore /\ ~sp.vbe
      BY DEF IInv, AtStep, OffWorker
    <2>2. held.obj = 0 /\ held.busy = 0 /\ held.conn = 0
      BY <2>1 DEF IInv, Ledger, One
    <2>3. (sp.vcl <=> at = "parked") /\ (at \in {"parked", "waiter"} <=> sp.fd)
      BY <2>1 DEF IInv, AtStep, OffWorker, Working
    <2> QED
      BY <2>1, <2>2, <2>3
  <1> QED
    BY <1>1, <1>2, Invariance, PTL DEF NothingHeld

\* The client gets one response header per request, never one in the middle of
\* an included body, and its connection is reused only when the request is
\* settled.
THEOREM AnsweredOnceTheorem == Spec => []AnsweredOnce
  <1>1. IInv => AnsweredOnce
    <2> SUFFICES ASSUME IInv PROVE AnsweredOnce
      OBVIOUS
    <2>1. esis = 0 => stack = <<>>
      BY NoIncludes DEF IInv
    <2>2. esis > 0 => stack # <<>>
      BY DEF esis
    <2> QED
      BY <2>1, <2>2 DEF IInv, Told, AnsweredOnce
  <1> QED
    BY <1>1, Invariance, PTL

-----------------------------------------------------------------------------
(***************************************************************************)
(* Proofs about module Backend: the counters that decide when a VCL        *)
(* program and a backend are freed are exact, for any number of programs,  *)
(* backends and workers.                                                   *)
(*                                                                         *)
(* BackendInv is not inductive.  That a counter is not lowered below zero, *)
(* and that no worker drops the last reference, needs to know who keeps a  *)
(* backend alive: the program of a worker that is busy with it, which is   *)
(* neither being freed nor being initialised.  That needs to know how far  *)
(* the CLI thread is with which program, and the bound on connections      *)
(* needs to count the workers that are about to open one.                  *)
(*                                                                         *)
(* All of it is said of a process in which VBE_AddBackend has lost no      *)
(* update; BackendNext takes no step in any other.                         *)
(***************************************************************************)

-----------------------------------------------------------------------------
(* Reference counters: how Count moves when one holder changes what it holds *)

\* The number of holders is a natural number (each counter has finitely many
\* possible holders).
LEMMA CountType ==
  ASSUME NEW f, NEW v, IsFiniteSet(DOMAIN f)
  PROVE  IsFiniteSet(Holders(f, v)) /\ Count(f, v) \in Nat
  <1>1. Holders(f, v) \subseteq DOMAIN f
    BY DEF Holders
  <1>2. IsFiniteSet(Holders(f, v))
    BY <1>1, FS_Subset
  <1> QED
    BY <1>2, FS_CardinalityType DEF Count

\* No holder, count zero; and the other way round.
LEMMA CountZero ==
  ASSUME NEW f, NEW v, IsFiniteSet(DOMAIN f)
  PROVE  Count(f, v) = 0 <=> \A x \in DOMAIN f : f[x] # v
  <1>1. Count(f, v) = 0 <=> Holders(f, v) = {}
    BY CountType, FS_EmptySet DEF Count
  <1> QED
    BY <1>1 DEF Holders

\* A holder makes the count positive.
LEMMA CountPositive ==
  ASSUME NEW f, IsFiniteSet(DOMAIN f), NEW x \in DOMAIN f
  PROVE  Count(f, f[x]) \in Nat \ {0}
  BY CountType, CountZero

\* One holder x moves: the count of v grows by one if x now holds v and drops
\* by one if x held v before.
LEMMA CountMove ==
  ASSUME NEW f, NEW g, NEW x \in DOMAIN f, NEW v,
         IsFiniteSet(DOMAIN f), DOMAIN g = DOMAIN f,
         \A y \in DOMAIN f \ {x} : g[y] = f[y]
  PROVE  Count(g, v) = Count(f, v) + (IF g[x] = v THEN 1 ELSE 0)
                                   - (IF f[x] = v THEN 1 ELSE 0)
  <1>0. Count(f, v) \in Nat /\ IsFiniteSet(Holders(f, v))
    BY CountType
  <1>1. CASE f[x] # v /\ g[x] = v
    <2>1. Holders(g, v) = Holders(f, v) \cup {x} /\ x \notin Holders(f, v)
      BY <1>1 DEF Holders
    <2>2. Count(g, v) = Count(f, v) + 1
      BY <1>0, <2>1, FS_AddElement DEF Count
    <2> QED
      BY <1>0, <1>1, <2>2
  <1>2. CASE f[x] = v /\ g[x] # v
    <2>1. Holders(g, v) = Holders(f, v) \ {x} /\ x \in Holders(f, v)
      BY <1>2 DEF Holders
    <2>2. Count(g, v) = Count(f, v) - 1
      BY <1>0, <2>1, FS_RemoveElement DEF Count
    <2> QED
      BY <1>0, <1>2, <2>2
  <1>3. CASE f[x] = v <=> g[x] = v
    <2>1. Holders(g, v) = Holders(f, v)
      BY <1>3 DEF Holders
    <2>2. Count(g, v) = Count(f, v)
      BY <2>1 DEF Count
    <2> QED
      BY <1>0, <1>3, <2>2
  <1> QED
    BY <1>1, <1>2, <1>3

-----------------------------------------------------------------------------
(* The inductive invariant *)

\* Only a worker that runs a program is busy with a backend, one of its program.
UsersOK ==
  /\ pc[Timer] = "idle"
  /\ \A u \in Users :
       /\ pc[u] # "idle" => uvcl[u] # None
       /\ IF pc[u] \in {"idle", "run"} THEN ube[u] = None ELSE ube[u] \in Uses[uvcl[u]]

\* Programs in use are not being freed.  Before its init_func has run, a program
\* has no worker, and is the active one only if nothing is served yet.
ProgramsOK ==
  /\ active # None => vcl[active] = "loaded"
  /\ started => active # None
  /\ \A u \in Users : uvcl[u] # None => vcl[uvcl[u]] \in {"loaded", "discarded"}
  /\ cli.pc \in {"init", "add"} =>
       /\ started => active # cli.v
       /\ \A t \in Workers : uvcl[t] # cli.v

\* What the CLI thread works on.
ThreadOK ==
  /\ cli.pc \in {"vclpoll", "fini", "join"} => \A v \in cli.todo : vcl[v] = "discarded"
  /\ \A v \in Vcls : vcl[v] = "fini" <=> (cli.pc \in {"fini", "join"} /\ cli.v = v)
  /\ cli.pc \in {"fini", "join"} => cli.v \in Vcls /\ cli.bes \subseteq Uses[cli.v]
  /\ cli.pc \in {"init", "add"} =>
       cli.v \in Vcls /\ vcl[cli.v] = "loaded" /\ cli.bes \subseteq Uses[cli.v]
  /\ cli.pc = "add" => cli.b \in cli.bes /\ be[cli.b]
  /\ cli.pc = "discard" => cli.v \in Vcls /\ vcl[cli.v] = "discarded"
  /\ cli.pc = "join" => cli.b \in Backends /\ be[cli.b] /\ ref[cli.b] = 0

\* The life of the struct of b and of its probe.  Without references it is left
\* to the CLI thread, which frees it before another program is loaded.
Owned(b) ==
  /\ ~ be[b] => ref[b] = 0 /\ ~ probe[b]
  /\ be[b] /\ ref[b] = 0 =>
       /\ cli.pc \in {"idle", "vclpoll", "fini", "join"}
       /\ probe[b] => cli.pc = "join" /\ cli.b = b
  /\ ref[b] > 0 => ~ stop[b] /\ (probe[b] <=> b \in Probed)
  /\ poller[b] # "none" => probe[b]
  /\ probe[b] /\ ~ stop[b] => poller[b] # "none"

\* The workers with a connection to b, or that have found the idle list empty.
Engaged(b) == {t \in Workers : ube[t] = b /\ pc[t] \in Connected \cup {"healthy", "try"}}

Bounded(b) == idle[b] + Cardinality(Engaged(b)) <= Cardinality(Workers)

RefOK(b) == ref[b] = Cardinality(Directs(b)) + Cardinality(Connects(b))

Strong ==
  /\ UsersOK /\ ProgramsOK /\ ThreadOK
  /\ \A b \in Backends : RefOK(b) /\ Owned(b) /\ Bounded(b)

BInv ==
  /\ BackendTypeOK /\ VclBusyExact /\ ConnExact /\ ConnBound /\ NoPanic
  /\ ~ raced => Strong

-----------------------------------------------------------------------------
(* Facts about the constants and the sets *)

\* What the assumptions on the constants give.
LEMMA Consts ==
  ASSUME BackendAssumption
  PROVE  /\ IsFiniteSet(Vcls) /\ IsFiniteSet(Users) /\ IsFiniteSet(Workers)
         /\ Timer \in Users /\ Timer \notin Workers /\ \A t \in Workers : t \in Users /\ t # Timer
         /\ None \notin Vcls /\ None \notin Backends
         /\ \A v \in Vcls : Uses[v] \subseteq Backends
         /\ Cardinality(Workers) \in Nat
<1>1. IsFiniteSet(Users) /\ Workers \subseteq Users
  BY DEF BackendAssumption, Users
<1>2. IsFiniteSet(Workers)
  BY <1>1, FS_Subset
<1>3. Cardinality(Workers) \in Nat
  BY <1>2, FS_CardinalityType
<1> QED  BY <1>1, <1>2, <1>3 DEF BackendAssumption, Users

\* A part of a finite set is finite, and not larger.
LEMMA Part ==
  ASSUME NEW T, IsFiniteSet(T), NEW S, S \subseteq T
  PROVE  IsFiniteSet(S) /\ Cardinality(S) \in Nat /\ Cardinality(S) <= Cardinality(T)
BY FS_Subset, FS_CardinalityType

\* Whether x is in S, as a number.
Ind(x, S) == IF x \in S THEN 1 ELSE 0

\* The size of a set of which one member x comes, goes or stays.
LEMMA CardMove ==
  ASSUME NEW S, NEW T, NEW x, IsFiniteSet(S), T \ {x} = S \ {x}
  PROVE  /\ IsFiniteSet(T) /\ Cardinality(S) \in Nat /\ Cardinality(T) \in Nat
         /\ Cardinality(T) = (Cardinality(S) + Ind(x, T)) - Ind(x, S)
<1>0. Cardinality(S) \in Nat
  BY FS_CardinalityType
<1>1. CASE x \in T /\ x \notin S
  <2>1. T = S \cup {x}
    BY <1>1
  <2>2. IsFiniteSet(T) /\ Cardinality(T) = Cardinality(S) + 1
    BY <1>1, <2>1, FS_AddElement
  <2> QED  BY <1>0, <1>1, <2>2 DEF Ind
<1>2. CASE x \notin T /\ x \in S
  <2>1. T = S \ {x}
    BY <1>2
  <2>2. IsFiniteSet(T) /\ Cardinality(T) = Cardinality(S) - 1
    BY <1>2, <2>1, FS_RemoveElement
  <2>3. Cardinality(T) \in Nat
    BY <2>2, FS_CardinalityType
  <2> QED  BY <1>0, <1>2, <2>2, <2>3 DEF Ind
<1>3. CASE x \in T <=> x \in S
  <2>1. T = S
    BY <1>3
  <2> QED  BY <1>0, <2>1 DEF Ind
<1> QED  BY <1>1, <1>2, <1>3

\* A set with one known member.
LEMMA CardOne ==
  ASSUME NEW S, IsFiniteSet(S), NEW x \in S
  PROVE  Cardinality(S) \in Nat /\ Cardinality(S) >= 1 /\ (Cardinality(S) = 1 => S = {x})
<1>1. Cardinality(S) \in Nat /\ IsFiniteSet(S \ {x}) /\ Cardinality(S \ {x}) = Cardinality(S) - 1
  BY FS_CardinalityType, FS_RemoveElement
<1>2. Cardinality(S \ {x}) \in Nat /\ (Cardinality(S \ {x}) = 0 => S \ {x} = {})
  BY <1>1, FS_CardinalityType, FS_EmptySet
<1> QED  BY <1>1, <1>2

\* The sets that are counted are finite.
LEMMA Counted ==
  ASSUME BackendAssumption, NEW b
  PROVE  /\ IsFiniteSet(Directs(b)) /\ Cardinality(Directs(b)) \in Nat
         /\ IsFiniteSet(Connects(b)) /\ Cardinality(Connects(b)) \in Nat
         /\ IsFiniteSet(Engaged(b)) /\ Cardinality(Engaged(b)) \in Nat
         /\ Cardinality(Connects(b)) <= Cardinality(Engaged(b))
         /\ Cardinality(Engaged(b)) <= Cardinality(Workers)
<1>1. /\ Directs(b) \subseteq Vcls /\ Engaged(b) \subseteq Workers /\ Connects(b) \subseteq Engaged(b)
  BY DEF Directs, Engaged, Connects
<1>2. IsFiniteSet(Vcls) /\ IsFiniteSet(Workers)
  BY Consts
<1>3. IsFiniteSet(Engaged(b)) /\ Cardinality(Engaged(b)) \in Nat /\ Cardinality(Engaged(b)) <= Cardinality(Workers)
  BY <1>1, <1>2, Part
<1>4. IsFiniteSet(Connects(b)) /\ Cardinality(Connects(b)) \in Nat /\ Cardinality(Connects(b)) <= Cardinality(Engaged(b))
  BY <1>1, <1>3, Part
<1>5. IsFiniteSet(Directs(b)) /\ Cardinality(Directs(b)) \in Nat
  BY <1>1, <1>2, Part
<1> QED  BY <1>3, <1>4, <1>5

-----------------------------------------------------------------------------
(* Who keeps a backend alive *)

\* A worker that is busy with a backend: its program has a director for it.
LEMMA Pinned ==
  ASSUME BackendAssumption, BackendTypeOK, Strong, ConnExact,
         NEW t \in Workers, pc[t] \notin {"idle", "run"}
  PROVE  LET b == ube[t] IN
         /\ t \in Users /\ b \in Backends /\ uvcl[t] \in Directs(b)
         /\ ref[b] \in Nat /\ nConn[b] \in Nat /\ idle[b] \in Nat
         /\ ref[b] >= 1 /\ be[b]
         /\ pc[t] \in Connected => ref[b] >= 2 /\ nConn[b] >= idle[b] + 1
<1> DEFINE b == ube[t]
           v == uvcl[t]
<1>1. t \in Users /\ None \notin Vcls
  BY Consts
<1>2. v \in Vcls /\ b \in Uses[v] /\ vcl[v] \in {"loaded", "discarded"}
  BY <1>1 DEF Strong, UsersOK, ProgramsOK, BackendTypeOK
<1>3. b \in Backends
  BY <1>2, Consts
<1>4. ~ (cli.pc \in {"init", "add"} /\ cli.v = v)
  BY DEF Strong, ProgramsOK
<1>5. v \in Directs(b)
  BY <1>2, <1>4 DEF Directs
<1>6. ref[b] \in Nat /\ nConn[b] \in Nat /\ idle[b] \in Nat
  BY <1>3 DEF BackendTypeOK
<1>7. Cardinality(Directs(b)) \in Nat /\ Cardinality(Directs(b)) >= 1
  BY <1>5, Counted, CardOne
<1>8. Cardinality(Connects(b)) \in Nat
  BY Counted
<1>9. ref[b] = Cardinality(Directs(b)) + Cardinality(Connects(b))
  BY <1>3 DEF Strong, RefOK
<1>10. ref[b] >= 1
  BY <1>7, <1>8, <1>9
<1>11. be[b]
  BY <1>3, <1>6, <1>10 DEF Strong, Owned
<1>12. ASSUME pc[t] \in Connected PROVE ref[b] >= 2 /\ nConn[b] >= idle[b] + 1
  <2>1. t \in Connects(b)
    BY <1>12 DEF Connects
  <2>2. Cardinality(Connects(b)) >= 1
    BY <2>1, Counted, CardOne
  <2>3. nConn[b] = idle[b] + Cardinality(Connects(b))
    BY <1>3, <1>6, <1>10 DEF ConnExact
  <2> QED  BY <2>2, <2>3, <1>6, <1>7, <1>8, <1>9
<1> HIDE DEF b
<1> QED  BY <1>1, <1>3, <1>5, <1>6, <1>10, <1>11, <1>12 DEF b

-----------------------------------------------------------------------------
(* Workers and their connections *)

Busy == Connected \cup {"healthy", "try"}
Labels == {"run", "getvbe", "healthy", "try"} \cup Connected

\* Worker t goes to label l, and i connections to its backend are idle then.
ConnDoes(t, l, i) ==
  LET b == ube[t] IN
  /\ pc' = [pc EXCEPT ![t] = l]
  /\ ube' = IF l = "run" THEN [ube EXCEPT ![t] = None] ELSE ube
  /\ ref' = [ref EXCEPT ![b] = (ref[b] + Ind(l, Connected)) - Ind(pc[t], Connected)]
  /\ nConn' = [nConn EXCEPT ![b] =
                 (nConn[b] + (i - idle[b]) + Ind(l, Connected)) - Ind(pc[t], Connected)]
  /\ idle' = [idle EXCEPT ![b] = i]
  /\ i + Ind(l, Busy) <= idle[b] + Ind(pc[t], Busy) \/ i = 0
  /\ failed' = FALSE
  /\ UNCHANGED <<vclVars, be, probeVars, uvcl, cli, raced>>

\* The workers with a connection, and those that count for the bound.
LEMMA ConnSets ==
  ASSUME BackendAssumption, BackendTypeOK, NEW t \in Workers, NEW b \in Backends, ube[t] = b,
         NEW l \in Labels, NEW i \in Nat, ConnDoes(t, l, i)
  PROVE  /\ \A c \in Backends : c # b => Connects(c)' = Connects(c) /\ Engaged(c)' = Engaged(c)
         /\ Cardinality(Connects(b)') = (Cardinality(Connects(b)) + Ind(l, Connected)) - Ind(pc[t], Connected)
         /\ Cardinality(Engaged(b)') = (Cardinality(Engaged(b)) + Ind(l, Busy)) - Ind(pc[t], Busy)
         /\ Cardinality(Connects(b)') \in Nat /\ Cardinality(Engaged(b)') \in Nat
         /\ Cardinality(Connects(b)') <= Cardinality(Engaged(b)')
         /\ Cardinality(Engaged(b)') <= Cardinality(Workers)
<1>1. t \in Users /\ None # b /\ IsFiniteSet(Workers) /\ \A x \in Workers : x \in Users
  BY Consts
<1>2. /\ pc'[t] = l /\ \A x \in Workers : x # t => pc'[x] = pc[x] /\ ube'[x] = ube[x]
      /\ l = "run" => ube'[t] = None
      /\ l # "run" => ube'[t] = b
  BY <1>1 DEF ConnDoes, BackendTypeOK
<1>3. l = "run" => l \notin Connected /\ l \notin Busy
  BY DEF Connected, Busy
<1>4. PICK S : S = Connects(b)'
  OBVIOUS
<1>5. PICK T : T = Engaged(b)'
  OBVIOUS
<1>6. /\ S \ {t} = Connects(b) \ {t}
      /\ t \in S <=> l \in Connected
      /\ t \in Connects(b) <=> pc[t] \in Connected
  BY <1>1, <1>2, <1>3, <1>4 DEF Connects
<1>7. /\ T \ {t} = Engaged(b) \ {t}
      /\ t \in T <=> l \in Busy
      /\ t \in Engaged(b) <=> pc[t] \in Busy
  BY <1>1, <1>2, <1>3, <1>5 DEF Engaged, Busy
<1>8. Cardinality(S) = (Cardinality(Connects(b)) + Ind(l, Connected)) - Ind(pc[t], Connected)
  <2>1. Cardinality(S) = (Cardinality(Connects(b)) + Ind(t, S)) - Ind(t, Connects(b))
    BY <1>6, Counted, CardMove
  <2> QED  BY <2>1, <1>6 DEF Ind
<1>9. Cardinality(T) = (Cardinality(Engaged(b)) + Ind(l, Busy)) - Ind(pc[t], Busy)
  <2>1. Cardinality(T) = (Cardinality(Engaged(b)) + Ind(t, T)) - Ind(t, Engaged(b))
    BY <1>7, Counted, CardMove
  <2> QED  BY <2>1, <1>7 DEF Ind
<1>10. S \subseteq T /\ T \subseteq Workers
  BY <1>4, <1>5 DEF Connects, Engaged
<1>11. /\ IsFiniteSet(T) /\ Cardinality(T) \in Nat /\ Cardinality(T) <= Cardinality(Workers)
  BY <1>1, <1>10, Part
<1>12. /\ Cardinality(S) \in Nat /\ Cardinality(S) <= Cardinality(T)
  BY <1>10, <1>11, Part
<1>13. \A c \in Backends : c # b => Connects(c)' = Connects(c) /\ Engaged(c)' = Engaged(c)
  <2>1. \A c \in Backends : c # b => c # None
    BY Consts
  <2> QED  BY <1>2, <2>1 DEF Connects, Engaged
<1> QED  BY <1>4, <1>5, <1>8, <1>9, <1>11, <1>12, <1>13

\* Such a step keeps the invariant.
LEMMA ConnMove ==
  ASSUME BackendAssumption, BInv, ~ raced, NEW t \in Workers, pc[t] \notin {"idle", "run"},
         NEW l \in Labels, NEW i \in Nat, ConnDoes(t, l, i)
  PROVE  BInv'
<1>1. BackendTypeOK /\ Strong /\ ConnExact /\ ConnBound /\ VclBusyExact
  BY DEF BInv
<1>2. PICK b \in Backends : b = ube[t]
  BY <1>1, Pinned
<1>3. /\ t \in Users /\ uvcl[t] \in Directs(b)
      /\ ref[b] \in Nat /\ nConn[b] \in Nat /\ idle[b] \in Nat /\ ref[b] >= 1 /\ be[b]
      /\ pc[t] \in Connected => ref[b] >= 2 /\ nConn[b] >= idle[b] + 1
  BY <1>1, <1>2, Pinned
<1>4. /\ pc' = [pc EXCEPT ![t] = l]
      /\ ube' = IF l = "run" THEN [ube EXCEPT ![t] = None] ELSE ube
      /\ i + Ind(l, Busy) <= idle[b] + Ind(pc[t], Busy) \/ i = 0
      /\ failed' = FALSE
      /\ UNCHANGED <<vclVars, be, probeVars, uvcl, cli, raced>>
  BY <1>2 DEF ConnDoes
<1>5. PICK r : r = (ref[b] + Ind(l, Connected)) - Ind(pc[t], Connected)
  OBVIOUS
<1>6. PICK n : n = (nConn[b] + (i - idle[b]) + Ind(l, Connected)) - Ind(pc[t], Connected)
  OBVIOUS
<1>7. ref' = [ref EXCEPT ![b] = r] /\ nConn' = [nConn EXCEPT ![b] = n] /\ idle' = [idle EXCEPT ![b] = i]
  BY <1>2, <1>5, <1>6 DEF ConnDoes
<1>8. nConn[b] = idle[b] + Cardinality(Connects(b)) /\ Cardinality(Connects(b)) \in Nat
  BY <1>1, <1>3, Counted DEF ConnExact
<1>9. PICK k \in Nat, e \in Nat :
        /\ k = Cardinality(Connects(b)') /\ e = Cardinality(Engaged(b)')
        /\ k = (Cardinality(Connects(b)) + Ind(l, Connected)) - Ind(pc[t], Connected)
        /\ e = (Cardinality(Engaged(b)) + Ind(l, Busy)) - Ind(pc[t], Busy)
        /\ k <= e /\ e <= Cardinality(Workers)
  BY <1>1, <1>2, ConnSets
<1>10. Ind(l, Connected) \in {0, 1} /\ Ind(pc[t], Connected) \in {0, 1}
       /\ Ind(l, Busy) \in {0, 1} /\ Ind(pc[t], Busy) \in {0, 1}
  BY DEF Ind
<1>11. r \in Nat /\ r >= 1
  <2>1. CASE pc[t] \in Connected
    BY <2>1, <1>3, <1>5, <1>10
  <2>2. CASE pc[t] \notin Connected
    BY <2>2, <1>3, <1>5, <1>10 DEF Ind
  <2> QED  BY <2>1, <2>2
<1>12. n = i + k /\ n \in Nat
  BY <1>3, <1>6, <1>8, <1>9, <1>10
<1>13. i + e <= Cardinality(Workers)
  <2>1. /\ idle[b] + Cardinality(Engaged(b)) <= Cardinality(Workers)
    BY <1>1 DEF Strong, Bounded
  <2>2. Cardinality(Engaged(b)) \in Nat /\ Cardinality(Workers) \in Nat
    BY Counted, Consts
  <2>3. CASE i = 0
    BY <2>2, <2>3, <1>9
  <2>4. CASE i + Ind(l, Busy) <= idle[b] + Ind(pc[t], Busy)
    BY <2>1, <2>2, <2>4, <1>3, <1>9, <1>10
  <2> QED  BY <2>3, <2>4, <1>4
<1>14. \A c \in Backends : Directs(c)' = Directs(c)
  BY <1>4 DEF Directs, vclVars
<1>15. \A c \in Backends : /\ c # b => /\ Connects(c)' = Connects(c) /\ Engaged(c)' = Engaged(c)
                                       /\ ref'[c] = ref[c] /\ nConn'[c] = nConn[c] /\ idle'[c] = idle[c]
                           /\ ref'[b] = r /\ nConn'[b] = n /\ idle'[b] = i
  <2>1. \A c \in Backends : c # b => Connects(c)' = Connects(c) /\ Engaged(c)' = Engaged(c)
    BY <1>1, <1>2, ConnSets, SMTT(30)
  <2>2. ref \in [Backends -> Nat] /\ nConn \in [Backends -> Nat] /\ idle \in [Backends -> Nat]
    BY <1>1 DEF BackendTypeOK
  <2>3. ref'[b] = r /\ \A c \in Backends : c # b => ref'[c] = ref[c]
    BY <1>7, <2>2
  <2>4. nConn'[b] = n /\ \A c \in Backends : c # b => nConn'[c] = nConn[c]
    BY <1>7, <2>2
  <2>5. idle'[b] = i /\ \A c \in Backends : c # b => idle'[c] = idle[c]
    BY <1>7, <2>2
  <2> QED  BY <2>1, <2>3, <2>4, <2>5
<1>16. BackendTypeOK'
  <2>1. ref' \in [Backends -> Nat] /\ nConn' \in [Backends -> Nat] /\ idle' \in [Backends -> Nat]
    BY <1>1, <1>7, <1>11, <1>12 DEF BackendTypeOK
  <2>2. pc' \in [Users -> {"idle", "run", "getvbe", "healthy", "try"} \cup Connected]
    BY <1>1, <1>4 DEF BackendTypeOK, Labels
  <2>3. ube' \in [Users -> Backends \cup {None}]
    BY <1>1, <1>4 DEF BackendTypeOK
  <2> QED  BY <1>1, <1>4, <2>1, <2>2, <2>3 DEF BackendTypeOK, vclVars, probeVars
<1>17. VclBusyExact'
  BY <1>1, <1>4 DEF VclBusyExact, vclVars
<1>18. ConnExact'
  <2> SUFFICES ASSUME NEW c \in Backends, ref'[c] > 0
               PROVE  nConn'[c] = idle'[c] + Cardinality(Connects(c)')
    BY DEF ConnExact
  <2>1. CASE c = b
    BY <2>1, <1>9, <1>12, <1>15
  <2>2. CASE c # b
    BY <2>2, <1>1, <1>15 DEF ConnExact
  <2> QED  BY <2>1, <2>2
<1>19. ConnBound'
  <2> SUFFICES ASSUME NEW c \in Backends PROVE nConn'[c] <= Cardinality(Workers)
    BY DEF ConnBound
  <2>1. CASE c = b
    BY <2>1, <1>9, <1>12, <1>13, <1>15, Consts
  <2>2. CASE c # b
    BY <2>2, <1>1, <1>15 DEF ConnBound
  <2> QED  BY <2>1, <2>2
<1>20. UsersOK'
  <2>1. Timer # t /\ Timer \in Users
    BY Consts
  <2>2. pc'[Timer] = "idle"
    BY <1>1, <1>4, <2>1 DEF Strong, UsersOK, BackendTypeOK
  <2>3. ASSUME NEW u \in Users
        PROVE  /\ pc'[u] # "idle" => uvcl'[u] # None
               /\ IF pc'[u] \in {"idle", "run"} THEN ube'[u] = None ELSE ube'[u] \in Uses[uvcl'[u]]
    <3>1. CASE u # t
      <4>1. pc'[u] = pc[u] /\ ube'[u] = ube[u] /\ uvcl'[u] = uvcl[u]
        BY <3>1, <1>1, <1>4 DEF BackendTypeOK
      <4> QED  BY <4>1, <1>1 DEF Strong, UsersOK
    <3>2. CASE u = t
      <4>1. pc'[u] = l /\ uvcl'[u] = uvcl[u] /\ ube'[u] = IF l = "run" THEN None ELSE ube[u]
        BY <3>2, <1>1, <1>3, <1>4 DEF BackendTypeOK
      <4>2. uvcl[u] # None /\ ube[u] \in Uses[uvcl[u]]
        BY <3>2, <1>1, <1>3 DEF Strong, UsersOK
      <4>3. l # "idle"
        BY DEF Labels, Connected
      <4> QED  BY <4>1, <4>2, <4>3
    <3> QED  BY <3>1, <3>2
  <2> QED  BY <2>2, <2>3 DEF UsersOK
<1>21. ProgramsOK'
  BY <1>1, <1>4 DEF Strong, ProgramsOK, vclVars
<1>22. ThreadOK'
  <2>1. cli.pc = "join" => cli.b \in Backends /\ be[cli.b] /\ ref[cli.b] = 0
    BY <1>1 DEF Strong, ThreadOK
  <2>2. cli.pc = "join" => ref'[cli.b] = 0
    BY <2>1, <1>3, <1>15
  <2> QED  BY <2>1, <2>2, <1>1, <1>4 DEF Strong, ThreadOK, vclVars
<1>23. ASSUME NEW c \in Backends PROVE (RefOK(c) /\ Owned(c) /\ Bounded(c))'
  <2>1. RefOK(c) /\ Owned(c) /\ Bounded(c)
    BY <1>1 DEF Strong
  <2>2. CASE c = b
    <3>1. RefOK(b)'
      <4>1. ref[b] = Cardinality(Directs(b)) + Cardinality(Connects(b)) /\ Cardinality(Directs(b)) \in Nat
        BY <2>1, <2>2, Counted DEF RefOK
      <4>2. r = Cardinality(Directs(b)) + k
        BY <4>1, <1>5, <1>8, <1>9, <1>10
      <4> QED  BY <4>2, <1>9, <1>14, <1>15 DEF RefOK
    <3>2. Owned(b)'
      BY <2>1, <2>2, <1>3, <1>4, <1>11, <1>15 DEF Owned, probeVars
    <3>3. Bounded(b)'
      BY <1>9, <1>13, <1>15 DEF Bounded
    <3> QED  BY <3>1, <3>2, <3>3, <2>2
  <2>3. CASE c # b
    <3>1. RefOK(c)' /\ Bounded(c)'
      BY <2>1, <2>3, <1>14, <1>15 DEF RefOK, Bounded
    <3>2. Owned(c)'
      BY <2>1, <2>3, <1>4, <1>15 DEF Owned, probeVars
    <3> QED  BY <3>1, <3>2
  <2> QED  BY <2>2, <2>3
<1> QED  BY <1>4, <1>16, <1>17, <1>18, <1>19, <1>20, <1>21, <1>22, <1>23 DEF BInv, Strong, NoPanic

\* What the functions of cache_backend.c do is such a step.
LEMMA ConnStepIs ==
  ASSUME BackendAssumption, BInv, ~ raced, ~ failed, NEW t \in Workers, ConnStep(t)
  PROVE  /\ pc[t] \notin {"idle", "run"}
         /\ \E l \in Labels, i \in Nat : ConnDoes(t, l, i)
<1>1. BackendTypeOK /\ Strong /\ ConnExact
  BY DEF BInv
<1>2. pc[t] \notin {"idle", "run"}
  BY DEF ConnStep, TakeIdle, CheckFd, HealthyAndVacant, ConnTry, Connect, VBE_RecycleFd, CloseConn
<1>3. PICK b \in Backends : b = ube[t]
  BY <1>1, <1>2, Pinned
<1>4. /\ ref[b] \in Nat /\ nConn[b] \in Nat /\ idle[b] \in Nat /\ ref[b] >= 1
      /\ pc[t] \in Connected => ref[b] >= 2 /\ nConn[b] >= idle[b] + 1
  BY <1>1, <1>2, <1>3, Pinned
<1>5. /\ \A r \in Nat : (r + 0) - 0 = r /\ (r + 1) - 1 = r /\ (r + 1) - 0 = r + 1 /\ (r + 0) - 1 = r - 1
      /\ "run" \in Labels /\ "getvbe" \in Labels /\ "healthy" \in Labels /\ "try" \in Labels
      /\ "check" \in Labels /\ "connect" \in Labels /\ "use" \in Labels
  BY DEF Labels, Connected
<1>6. /\ \A l \in {"run", "getvbe", "healthy", "try"} : Ind(l, Connected) = 0
      /\ \A l \in {"check", "connect", "use"} : Ind(l, Connected) = 1 /\ Ind(l, Busy) = 1
      /\ \A l \in {"healthy", "try"} : Ind(l, Busy) = 1
      /\ \A l \in {"run", "getvbe"} : Ind(l, Busy) = 0
  BY DEF Ind, Connected, Busy
<1>7. /\ ref = [ref EXCEPT ![b] = ref[b]] /\ nConn = [nConn EXCEPT ![b] = nConn[b]]
      /\ idle = [idle EXCEPT ![b] = idle[b]]
  BY <1>1 DEF BackendTypeOK
\* A step is described by its label and the three counters.
<1>8. ASSUME NEW l \in Labels, NEW i \in Nat, Goto(t, l),
             l = "run" => ube' = [ube EXCEPT ![t] = None],
             l # "run" => ube' = ube,
             ref' = [ref EXCEPT ![b] = (ref[b] + Ind(l, Connected)) - Ind(pc[t], Connected)],
             nConn' = [nConn EXCEPT ![b] =
                         (nConn[b] + (i - idle[b]) + Ind(l, Connected)) - Ind(pc[t], Connected)],
             idle' = [idle EXCEPT ![b] = i],
             i + Ind(l, Busy) <= idle[b] + Ind(pc[t], Busy) \/ i = 0,
             failed' = FALSE, OthersStay
      PROVE  \E k \in Labels, j \in Nat : ConnDoes(t, k, j)
  <2>1. ConnDoes(t, l, i)
    BY <1>3, <1>8 DEF ConnDoes, Goto, OthersStay
  <2> QED  BY <2>1
<1>9. failed = FALSE
  BY <1>1 DEF BackendTypeOK
<1>10. CASE TakeIdle(t)
  <2>1. pc[t] = "getvbe" /\ nConn' = nConn /\ ube' = ube /\ failed' = FALSE /\ OthersStay
    BY <1>10, <1>9 DEF TakeIdle
  <2>2. CASE idle[b] > 0
    <3>1. ref' = [ref EXCEPT ![b] = ref[b] + 1] /\ idle' = [idle EXCEPT ![b] = idle[b] - 1] /\ Goto(t, "check")
      BY <1>10, <2>2, <1>3 DEF TakeIdle
    <3>2. PICK i \in Nat : i = idle[b] - 1
      BY <2>2, <1>4
    <3>3. /\ (ref[b] + 1) - 0 = ref[b] + 1 /\ (nConn[b] + (i - idle[b]) + 1) - 0 = nConn[b]
          /\ i + 1 <= idle[b] + 0
      BY <3>2, <1>4
    <3>4. Ind("check", Connected) = 1 /\ Ind("check", Busy) = 1
          /\ Ind(pc[t], Connected) = 0 /\ Ind(pc[t], Busy) = 0
      BY <2>1, <1>6
    <3>5. /\ ref' = [ref EXCEPT ![b] = (ref[b] + Ind("check", Connected)) - Ind(pc[t], Connected)]
          /\ nConn' = [nConn EXCEPT ![b] =
                        (nConn[b] + (i - idle[b]) + Ind("check", Connected)) - Ind(pc[t], Connected)]
          /\ idle' = [idle EXCEPT ![b] = i]
          /\ i + Ind("check", Busy) <= idle[b] + Ind(pc[t], Busy) \/ i = 0
      BY <2>1, <3>1, <3>2, <3>3, <3>4, <1>7, Zenon
    <3> QED  BY <2>1, <3>1, <3>2, <3>5, <1>5, <1>8, Zenon
  <2>3. CASE ~ (idle[b] > 0)
    <3>1. ref' = ref /\ idle' = idle /\ Goto(t, "healthy")
      BY <1>10, <2>3, <1>3 DEF TakeIdle
    <3>2. /\ (ref[b] + 0) - 0 = ref[b] /\ (nConn[b] + (0 - idle[b]) + 0) - 0 = nConn[b] /\ idle[b] = 0
      BY <2>3, <1>4
    <3>3. Ind("healthy", Connected) = 0 /\ Ind("healthy", Busy) = 1
          /\ Ind(pc[t], Connected) = 0 /\ Ind(pc[t], Busy) = 0
      BY <2>1, <1>6
    <3>4. /\ ref' = [ref EXCEPT ![b] = (ref[b] + Ind("healthy", Connected)) - Ind(pc[t], Connected)]
          /\ nConn' = [nConn EXCEPT ![b] =
                        (nConn[b] + (0 - idle[b]) + Ind("healthy", Connected)) - Ind(pc[t], Connected)]
          /\ idle' = [idle EXCEPT ![b] = 0]
          /\ 0 + Ind("healthy", Busy) <= idle[b] + Ind(pc[t], Busy) \/ 0 = 0
      BY <2>1, <3>1, <3>2, <3>3, <1>7, Zenon
    <3> QED  BY <2>1, <3>1, <3>4, <1>5, <1>8, Zenon
  <2> QED  BY <2>2, <2>3
<1>11. CASE CheckFd(t)
  <2>1. pc[t] = "check" /\ ube' = ube /\ OthersStay /\ pc[t] \in Connected
    BY <1>11 DEF CheckFd, Connected
  <2>2. Ind(pc[t], Connected) = 1 /\ Ind(pc[t], Busy) = 1
    BY <2>1, <1>6
  <2>3. CASE Goto(t, "use") /\ UNCHANGED <<connVars, failed>>
    <3>1. /\ (ref[b] + 1) - 1 = ref[b] /\ (nConn[b] + (idle[b] - idle[b]) + 1) - 1 = nConn[b]
      BY <1>4
    <3>2. Ind("use", Connected) = 1 /\ Ind("use", Busy) = 1 /\ idle[b] + 1 <= idle[b] + 1
      BY <1>6, <1>4
    <3>3. ref' = ref /\ nConn' = nConn /\ idle' = idle /\ failed' = FALSE
      BY <2>3, <1>9 DEF connVars
    <3>4. /\ ref' = [ref EXCEPT ![b] = (ref[b] + Ind("use", Connected)) - Ind(pc[t], Connected)]
          /\ nConn' = [nConn EXCEPT ![b] =
                        (nConn[b] + (idle[b] - idle[b]) + Ind("use", Connected)) - Ind(pc[t], Connected)]
          /\ idle' = [idle EXCEPT ![b] = idle[b]]
          /\ idle[b] + Ind("use", Busy) <= idle[b] + Ind(pc[t], Busy) \/ idle[b] = 0
      BY <2>2, <3>1, <3>2, <3>3, <1>7, Zenon
    <3> QED  BY <2>1, <2>3, <3>3, <3>4, <1>4, <1>5, <1>8, Zenon
  <2>4. CASE Goto(t, "getvbe") /\ VBE_ClosedFd(ube[t])
    <3>1. /\ nConn' = [nConn EXCEPT ![b] = nConn[b] - 1] /\ ref' = [ref EXCEPT ![b] = ref[b] - 1]
          /\ idle' = idle /\ failed' = (ref[b] <= 1)
      BY <2>4, <1>3 DEF VBE_ClosedFd, WorkerDrops
    <3>2. failed' = FALSE
      <4>1. (ref[b] <= 1) = FALSE
        BY <2>1, <1>4
      <4> QED  BY <3>1, <4>1, Zenon
    <3>3. /\ (ref[b] + 0) - 1 = ref[b] - 1 /\ (nConn[b] + (idle[b] - idle[b]) + 0) - 1 = nConn[b] - 1
      BY <1>4
    <3>4. Ind("getvbe", Connected) = 0 /\ Ind("getvbe", Busy) = 0 /\ idle[b] + 0 <= idle[b] + 1
      BY <1>6, <1>4
    <3>5. /\ ref' = [ref EXCEPT ![b] = (ref[b] + Ind("getvbe", Connected)) - Ind(pc[t], Connected)]
          /\ nConn' = [nConn EXCEPT ![b] =
                        (nConn[b] + (idle[b] - idle[b]) + Ind("getvbe", Connected)) - Ind(pc[t], Connected)]
          /\ idle' = [idle EXCEPT ![b] = idle[b]]
          /\ idle[b] + Ind("getvbe", Busy) <= idle[b] + Ind(pc[t], Busy) \/ idle[b] = 0
      BY <2>2, <3>1, <3>3, <3>4, <1>7, Zenon
    <3> QED  BY <2>1, <2>4, <3>2, <3>5, <1>4, <1>5, <1>8, Zenon
  <2> QED  BY <1>11, <2>3, <2>4 DEF CheckFd
<1>12. CASE HealthyAndVacant(t)
  <2>1. pc[t] = "healthy" /\ OthersStay /\ UNCHANGED <<connVars, failed>>
    BY <1>12 DEF HealthyAndVacant
  <2>2. /\ Ind(pc[t], Connected) = 0 /\ Ind(pc[t], Busy) = 1 /\ ref' = ref /\ nConn' = nConn
        /\ idle' = idle /\ failed' = FALSE
    BY <2>1, <1>6, <1>9 DEF connVars
  <2>3. /\ (ref[b] + 0) - 0 = ref[b] /\ (nConn[b] + (idle[b] - idle[b]) + 0) - 0 = nConn[b]
        /\ idle[b] + 0 <= idle[b] + 1 /\ idle[b] + 1 <= idle[b] + 1
    BY <1>4
  <2>4. CASE Goto(t, "try") /\ UNCHANGED ube
    <3>1. Ind("try", Connected) = 0 /\ Ind("try", Busy) = 1
      BY <1>6
    <3>2. /\ ref' = [ref EXCEPT ![b] = (ref[b] + Ind("try", Connected)) - Ind(pc[t], Connected)]
          /\ nConn' = [nConn EXCEPT ![b] =
                        (nConn[b] + (idle[b] - idle[b]) + Ind("try", Connected)) - Ind(pc[t], Connected)]
          /\ idle' = [idle EXCEPT ![b] = idle[b]]
          /\ idle[b] + Ind("try", Busy) <= idle[b] + Ind(pc[t], Busy) \/ idle[b] = 0
      BY <2>2, <2>3, <3>1, <1>7, Zenon
    <3> QED  BY <2>1, <2>2, <2>4, <3>2, <1>4, <1>5, <1>8, Zenon
  <2>5. CASE Ends(t)
    <3>1. Ind("run", Connected) = 0 /\ Ind("run", Busy) = 0 /\ Goto(t, "run") /\ ube' = [ube EXCEPT ![t] = None]
      BY <2>5, <1>6 DEF Ends, Goto
    <3>2. /\ ref' = [ref EXCEPT ![b] = (ref[b] + Ind("run", Connected)) - Ind(pc[t], Connected)]
          /\ nConn' = [nConn EXCEPT ![b] =
                        (nConn[b] + (idle[b] - idle[b]) + Ind("run", Connected)) - Ind(pc[t], Connected)]
          /\ idle' = [idle EXCEPT ![b] = idle[b]]
          /\ idle[b] + Ind("run", Busy) <= idle[b] + Ind(pc[t], Busy) \/ idle[b] = 0
      BY <2>2, <2>3, <3>1, <1>7, Zenon
    <3> QED  BY <2>1, <2>2, <3>1, <3>2, <1>4, <1>5, <1>8, Zenon
  <2> QED  BY <1>12, <2>4, <2>5 DEF HealthyAndVacant
<1>13. CASE ConnTry(t)
  <2>1. /\ pc[t] = "try" /\ OthersStay /\ Goto(t, "connect") /\ ube' = ube /\ failed' = FALSE /\ idle' = idle
        /\ ref' = [ref EXCEPT ![b] = ref[b] + 1] /\ nConn' = [nConn EXCEPT ![b] = nConn[b] + 1]
    BY <1>13, <1>3, <1>9 DEF ConnTry
  <2>2. Ind(pc[t], Connected) = 0 /\ Ind(pc[t], Busy) = 1 /\ Ind("connect", Connected) = 1 /\ Ind("connect", Busy) = 1
    BY <2>1, <1>6
  <2>3. /\ (ref[b] + 1) - 0 = ref[b] + 1 /\ (nConn[b] + (idle[b] - idle[b]) + 1) - 0 = nConn[b] + 1
        /\ idle[b] + 1 <= idle[b] + 1
    BY <1>4
  <2> QED  BY <2>1, <2>2, <2>3, <1>4, <1>5, <1>7, <1>8
<1>14. CASE Connect(t)
  <2>1. pc[t] = "connect" /\ OthersStay /\ idle' = idle /\ failed' = FALSE
    BY <1>14, <1>9 DEF Connect
  <2>2. Ind(pc[t], Connected) = 1 /\ Ind(pc[t], Busy) = 1
    BY <2>1, <1>6
  <2>3. CASE Goto(t, "use") /\ UNCHANGED <<ube, ref, nConn>>
    <3>1. /\ (ref[b] + 1) - 1 = ref[b] /\ (nConn[b] + (idle[b] - idle[b]) + 1) - 1 = nConn[b]
      BY <1>4
    <3>2. Ind("use", Connected) = 1 /\ Ind("use", Busy) = 1 /\ idle[b] + 1 <= idle[b] + 1
      BY <1>6, <1>4
    <3>3. /\ ref' = [ref EXCEPT ![b] = (ref[b] + Ind("use", Connected)) - Ind(pc[t], Connected)]
          /\ nConn' = [nConn EXCEPT ![b] =
               (nConn[b] + (idle[b] - idle[b]) + Ind("use", Connected)) - Ind(pc[t], Connected)]
          /\ idle' = [idle EXCEPT ![b] = idle[b]] /\ ube' = ube
      BY <2>1, <2>2, <2>3, <3>1, <3>2, <1>7
    <3> QED  BY <2>1, <2>2, <2>3, <3>2, <3>3, <1>4, <1>5, <1>8
  <2>4. CASE Ends(t) /\ ConnFails(ube[t])
    <3>1. /\ nConn' = [nConn EXCEPT ![b] = nConn[b] - 1] /\ ref' = [ref EXCEPT ![b] = ref[b] - 1]
          /\ Goto(t, "run") /\ ube' = [ube EXCEPT ![t] = None]
      BY <2>4, <1>3 DEF ConnFails, Ends, Goto
    <3>2. /\ (ref[b] + 0) - 1 = ref[b] - 1 /\ (nConn[b] + (idle[b] - idle[b]) + 0) - 1 = nConn[b] - 1
      BY <1>4
    <3>3. Ind("run", Connected) = 0 /\ Ind("run", Busy) = 0 /\ idle[b] + 0 <= idle[b] + 1
      BY <1>6, <1>4
    <3> QED  BY <2>1, <2>2, <3>1, <3>2, <3>3, <1>4, <1>5, <1>7, <1>8
  <2> QED  BY <1>14, <2>3, <2>4 DEF Connect
<1>15. CASE VBE_RecycleFd(t)
  <2>1. /\ pc[t] = "use" /\ OthersStay /\ Goto(t, "run") /\ ube' = [ube EXCEPT ![t] = None]
        /\ idle' = [idle EXCEPT ![b] = idle[b] + 1] /\ nConn' = nConn
        /\ ref' = [ref EXCEPT ![b] = ref[b] - 1] /\ failed' = (ref[b] <= 1)
    BY <1>15, <1>3 DEF VBE_RecycleFd, WorkerDrops, Ends, Goto
  <2>2. Ind(pc[t], Connected) = 1 /\ Ind(pc[t], Busy) = 1 /\ Ind("run", Connected) = 0 /\ Ind("run", Busy) = 0
    BY <2>1, <1>6
  <2>3. failed' = FALSE
    <3>1. (ref[b] <= 1) = FALSE
      BY <2>1, <1>4 DEF Connected
    <3> QED  BY <2>1, <3>1, Zenon
  <2>4. PICK i \in Nat : i = idle[b] + 1
    BY <1>4
  <2>5. /\ (ref[b] + 0) - 1 = ref[b] - 1 /\ (nConn[b] + (i - idle[b]) + 0) - 1 = nConn[b]
        /\ i + 0 <= idle[b] + 1
    BY <1>4, <2>4
  <2>6. /\ ref' = [ref EXCEPT ![b] = (ref[b] + Ind("run", Connected)) - Ind(pc[t], Connected)]
        /\ nConn' = [nConn EXCEPT ![b] =
             (nConn[b] + (i - idle[b]) + Ind("run", Connected)) - Ind(pc[t], Connected)]
        /\ idle' = [idle EXCEPT ![b] = i]
    BY <2>1, <2>2, <2>4, <2>5, <1>7
  <2> QED  BY <2>1, <2>2, <2>3, <2>5, <2>6, <1>5, <1>8
<1>16. CASE CloseConn(t)
  <2>1. /\ pc[t] = "use" /\ OthersStay /\ Goto(t, "run") /\ ube' = [ube EXCEPT ![t] = None]
        /\ nConn' = [nConn EXCEPT ![b] = nConn[b] - 1] /\ ref' = [ref EXCEPT ![b] = ref[b] - 1]
        /\ idle' = idle /\ failed' = (ref[b] <= 1)
    BY <1>16, <1>3 DEF CloseConn, VBE_ClosedFd, WorkerDrops, Ends, Goto
  <2>2. Ind(pc[t], Connected) = 1 /\ Ind(pc[t], Busy) = 1 /\ Ind("run", Connected) = 0 /\ Ind("run", Busy) = 0
    BY <2>1, <1>6
  <2>3. failed' = FALSE
    <3>1. (ref[b] <= 1) = FALSE
      BY <2>1, <1>4 DEF Connected
    <3> QED  BY <2>1, <3>1, Zenon
  <2>4. /\ (ref[b] + 0) - 1 = ref[b] - 1 /\ (nConn[b] + (idle[b] - idle[b]) + 0) - 1 = nConn[b] - 1
        /\ idle[b] + 0 <= idle[b] + 1
    BY <1>4
  <2> QED  BY <2>1, <2>2, <2>3, <2>4, <1>4, <1>5, <1>7, <1>8
<1> QED  BY <1>2, <1>10, <1>11, <1>12, <1>13, <1>14, <1>15, <1>16 DEF ConnStep

-----------------------------------------------------------------------------
(* Programs and their users *)

\* A step of a thread that takes, keeps or gives back its program, or starts to
\* look for a connection, touches no counter of a backend.
LEMMA UserMove ==
  ASSUME BackendAssumption, BInv, ~ raced,
         UNCHANGED <<vcl, active, started, be, connVars, probeVars, cli, raced>>,
         failed' = FALSE, BackendTypeOK', VclBusyExact', UsersOK', ProgramsOK',
         \A t \in Workers : \/ pc'[t] = pc[t] /\ ube'[t] = ube[t]
                            \/ pc[t] \notin Busy /\ pc'[t] \notin Busy
  PROVE  BInv'
<1>1. BackendTypeOK /\ Strong /\ ConnExact /\ ConnBound
  BY DEF BInv
<1>2. \A b \in Backends : Connects(b)' = Connects(b) /\ Engaged(b)' = Engaged(b) /\ Directs(b)' = Directs(b)
  <2>1. \A b : Connects(b)' = Connects(b)
    BY DEF Connects, Busy
  <2>2. \A b : Engaged(b)' = Engaged(b)
    BY DEF Engaged, Busy
  <2>3. \A b : Directs(b)' = Directs(b)
    BY DEF Directs
  <2> QED  BY <2>1, <2>2, <2>3
<1>3. ConnExact' /\ ConnBound'
  BY <1>1, <1>2 DEF ConnExact, ConnBound, connVars
<1>4. ThreadOK'
  BY <1>1 DEF Strong, ThreadOK, connVars
<1>5. \A b \in Backends : RefOK(b)' /\ Owned(b)' /\ Bounded(b)'
  BY <1>1, <1>2 DEF Strong, RefOK, Owned, Bounded, connVars, probeVars
<1> QED  BY <1>3, <1>4, <1>5 DEF BInv, Strong, NoPanic

\* VCL_Rel, in VCL_Refresh and at the end of a thread.
LEMMA Releases ==
  ASSUME BackendAssumption, BInv, ~ raced, NEW u \in Users, pc[u] = "idle", uvcl[u] # None, VCL_Rel(u),
         UNCHANGED <<vcl, active, started, be, connVars, probeVars, pc, ube, cli, raced>>
  PROVE  BInv'
<1>1. BackendTypeOK /\ Strong /\ VclBusyExact
  BY DEF BInv
<1>2. PICK v \in Vcls : v = uvcl[u]
  BY <1>1 DEF BackendTypeOK
<1>3. /\ busy' = [busy EXCEPT ![v] = busy[v] - 1] /\ failed' = (busy[v] = 0)
      /\ uvcl' = [uvcl EXCEPT ![u] = None]
  BY <1>2 DEF VCL_Rel
<1>4. DOMAIN uvcl = Users /\ DOMAIN uvcl' = Users /\ IsFiniteSet(Users) /\ None \notin Vcls
  BY <1>1, <1>3, Consts DEF BackendTypeOK
<1>5. Count(uvcl, v) \in Nat \ {0} /\ busy[v] = Count(uvcl, v)
  BY <1>1, <1>2, <1>4, CountPositive DEF VclBusyExact
<1>6. failed' = FALSE
  <2>1. (busy[v] = 0) = FALSE
    BY <1>5
  <2> QED  BY <1>3, <2>1
<1>7. PICK g : g = uvcl'
  OBVIOUS
<1>8. /\ DOMAIN g = Users /\ g[u] = None /\ \A x \in Users \ {u} : g[x] = uvcl[x]
  BY <1>3, <1>4, <1>7
<1>9. VclBusyExact'
  <2> SUFFICES ASSUME NEW x \in Vcls PROVE busy'[x] = Count(g, x)
    BY <1>7 DEF VclBusyExact
  <2>1. Count(g, x) = Count(uvcl, x) + (IF g[u] = x THEN 1 ELSE 0) - (IF uvcl[u] = x THEN 1 ELSE 0)
    BY <1>4, <1>8, CountMove
  <2>2. g[u] # x /\ Count(uvcl, x) \in Nat /\ busy[x] = Count(uvcl, x)
    BY <1>1, <1>4, <1>8, CountType DEF VclBusyExact
  <2>3. Count(g, x) = Count(uvcl, x) - (IF uvcl[u] = x THEN 1 ELSE 0)
    BY <2>1, <2>2
  <2>4. busy'[x] = IF x = v THEN busy[x] - 1 ELSE busy[x]
    BY <1>1, <1>3 DEF BackendTypeOK
  <2> QED  BY <2>2, <2>3, <2>4, <1>2
<1>10. BackendTypeOK'
  <2>1. busy' \in [Vcls -> Nat]
    BY <1>1, <1>3, <1>5 DEF BackendTypeOK
  <2>2. uvcl' \in [Users -> Vcls \cup {None}]
    BY <1>1, <1>3 DEF BackendTypeOK
  <2> QED  BY <1>1, <1>6, <2>1, <2>2 DEF BackendTypeOK, connVars, probeVars
<1>11. UsersOK'
  BY <1>1, <1>7, <1>8 DEF Strong, UsersOK
<1>12. ProgramsOK'
  <2>1. \A x \in Users : g[x] # None => g[x] = uvcl[x]
    BY <1>8
  <2>2. ASSUME cli.pc \in {"init", "add"}, NEW t \in Workers PROVE g[t] # cli.v
    <3>1. t \in Users /\ uvcl[t] # cli.v /\ cli.v \in Vcls
      BY <2>2, <1>1, Consts DEF Strong, ProgramsOK, ThreadOK
    <3> QED  BY <3>1, <1>4, <1>8
  <2> QED  BY <2>1, <2>2, <1>1, <1>7 DEF Strong, ProgramsOK
<1> QED  BY <1>6, <1>9, <1>10, <1>11, <1>12, UserMove

\* VCL_Get.
LEMMA Gets ==
  ASSUME BackendAssumption, BInv, ~ raced, NEW u \in Users, VCL_Get(u)
  PROVE  BInv'
<1>1. BackendTypeOK /\ Strong /\ VclBusyExact
  BY DEF BInv
<1>2. /\ pc[u] = "idle" /\ uvcl[u] = None /\ (u = Timer \/ started) /\ active # None
      /\ UNCHANGED <<vcl, active, started, be, connVars, probeVars, ube, cli, raced>>
  BY DEF VCL_Get
<1>3. PICK v \in Vcls : v = active
  BY <1>1, <1>2 DEF BackendTypeOK
<1>4. /\ busy' = [busy EXCEPT ![v] = busy[v] + 1] /\ failed' = (vcl[v] # "loaded")
      /\ uvcl' = [uvcl EXCEPT ![u] = v]
      /\ pc' = [pc EXCEPT ![u] = IF u = Timer THEN "idle" ELSE "run"]
  BY <1>3 DEF VCL_Get
<1>5. DOMAIN uvcl = Users /\ IsFiniteSet(Users) /\ None \notin Vcls
  BY <1>1, Consts DEF BackendTypeOK
<1>6. failed' = FALSE /\ vcl[v] = "loaded"
  <2>1. vcl[v] = "loaded"
    BY <1>1, <1>2, <1>3 DEF Strong, ProgramsOK
  <2>2. (vcl[v] # "loaded") = FALSE
    BY <2>1
  <2> QED  BY <1>4, <2>1, <2>2
<1>7. PICK g : g = uvcl'
  OBVIOUS
<1>8. /\ DOMAIN g = Users /\ g[u] = v /\ \A x \in Users \ {u} : g[x] = uvcl[x]
  BY <1>4, <1>5, <1>7
<1>9. VclBusyExact'
  <2> SUFFICES ASSUME NEW x \in Vcls PROVE busy'[x] = Count(g, x)
    BY <1>7 DEF VclBusyExact
  <2>1. Count(g, x) = Count(uvcl, x) + (IF g[u] = x THEN 1 ELSE 0) - (IF uvcl[u] = x THEN 1 ELSE 0)
    BY <1>5, <1>8, CountMove
  <2>2. uvcl[u] # x /\ Count(uvcl, x) \in Nat /\ busy[x] = Count(uvcl, x)
    BY <1>1, <1>2, <1>5, CountType DEF VclBusyExact
  <2>3. Count(g, x) = Count(uvcl, x) + (IF g[u] = x THEN 1 ELSE 0)
    BY <2>1, <2>2
  <2>4. busy'[x] = IF x = v THEN busy[x] + 1 ELSE busy[x]
    BY <1>1, <1>4 DEF BackendTypeOK
  <2> QED  BY <2>2, <2>3, <2>4, <1>8
<1>10. /\ pc'[u] = (IF u = Timer THEN "idle" ELSE "run") /\ \A x \in Users \ {u} : pc'[x] = pc[x]
  BY <1>1, <1>4 DEF BackendTypeOK
<1>11. BackendTypeOK'
  <2>1. busy' \in [Vcls -> Nat]
    BY <1>1, <1>4 DEF BackendTypeOK
  <2>2. uvcl' \in [Users -> Vcls \cup {None}]
    BY <1>1, <1>4 DEF BackendTypeOK
  <2>3. pc' \in [Users -> {"idle", "run", "getvbe", "healthy", "try"} \cup Connected]
    BY <1>1, <1>4 DEF BackendTypeOK
  <2> QED  BY <1>1, <1>2, <1>6, <2>1, <2>2, <2>3 DEF BackendTypeOK, connVars, probeVars
<1>12. UsersOK'
  <2>1. pc'[Timer] = "idle"
    BY <1>1, <1>10, Consts DEF Strong, UsersOK
  <2>2. ASSUME NEW x \in Users
        PROVE  /\ pc'[x] # "idle" => g[x] # None
               /\ IF pc'[x] \in {"idle", "run"} THEN ube[x] = None ELSE ube[x] \in Uses[g[x]]
    <3>1. CASE x = u
      <4>1. ube[u] = None /\ pc'[u] \in {"idle", "run"} /\ g[u] # None
        BY <1>1, <1>2, <1>5, <1>8, <1>10 DEF Strong, UsersOK
      <4> QED  BY <3>1, <4>1
    <3>2. CASE x # u
      BY <3>2, <1>1, <1>8, <1>10 DEF Strong, UsersOK
    <3> QED  BY <3>1, <3>2
  <2> QED  BY <2>1, <2>2, <1>2, <1>7 DEF UsersOK
<1>13. ProgramsOK'
  <2>1. \A x \in Users : g[x] # None => vcl[g[x]] \in {"loaded", "discarded"}
    BY <1>1, <1>6, <1>8 DEF Strong, ProgramsOK
  <2>2. ASSUME cli.pc \in {"init", "add"}, NEW t \in Workers PROVE g[t] # cli.v
    <3>1. t \in Users /\ t # Timer
      BY Consts
    <3>2. uvcl[t] # cli.v /\ (started => active # cli.v)
      BY <2>2, <1>1 DEF Strong, ProgramsOK
    <3> QED  BY <3>1, <3>2, <1>2, <1>3, <1>8
  <2> QED  BY <2>1, <2>2, <1>1, <1>2, <1>7 DEF Strong, ProgramsOK
<1>14. \A t \in Workers : \/ pc'[t] = pc[t] /\ ube'[t] = ube[t]
                          \/ pc[t] \notin Busy /\ pc'[t] \notin Busy
  BY <1>2, <1>10, Consts DEF Busy, Connected
<1> QED  BY <1>2, <1>6, <1>9, <1>11, <1>12, <1>13, <1>14, UserMove

\* A worker goes on with its program, is done with it, or needs a backend.
LEMMA WorkerTurns ==
  ASSUME BackendAssumption, BInv, ~ raced, ~ failed, NEW t \in Workers,
         Fresh(t) \/ Done(t) \/ \E b \in Backends : VBE_GetFd(t, b)
  PROVE  BInv'
<1>1. BackendTypeOK /\ Strong /\ VclBusyExact
  BY DEF BInv
<1>2. t \in Users /\ t # Timer
  BY Consts
<1>3. /\ UNCHANGED <<vclVars, be, connVars, probeVars, uvcl, cli, failed, raced>>
      /\ pc[t] \in {"idle", "run"} /\ uvcl[t] # None
  BY <1>1, <1>2 DEF Fresh, Done, VBE_GetFd, Strong, UsersOK
<1>4. PICK l \in {"idle", "run", "getvbe"}, b \in Backends \cup {None} :
        /\ pc' = [pc EXCEPT ![t] = l] /\ ube' = [ube EXCEPT ![t] = b]
        /\ l # "getvbe" => b = None
        /\ l = "getvbe" => b \in Uses[uvcl[t]]
  <2>1. ube[t] = None /\ ube = [ube EXCEPT ![t] = None]
    BY <1>1, <1>2, <1>3 DEF Strong, UsersOK, BackendTypeOK
  <2>2. CASE Fresh(t)
    BY <2>1, <2>2 DEF Fresh
  <2>3. CASE Done(t)
    BY <2>1, <2>3 DEF Done
  <2>4. ASSUME NEW c \in Backends, VBE_GetFd(t, c)
        PROVE  /\ pc' = [pc EXCEPT ![t] = "getvbe"] /\ ube' = [ube EXCEPT ![t] = c]
               /\ c \in Uses[uvcl[t]]
    BY <2>4 DEF VBE_GetFd
  <2> QED  BY <2>2, <2>3, <2>4
<1>5. /\ pc'[t] = l /\ ube'[t] = b /\ \A x \in Users \ {t} : pc'[x] = pc[x] /\ ube'[x] = ube[x]
  BY <1>1, <1>2, <1>4 DEF BackendTypeOK
<1>6. BackendTypeOK'
  <2>1. pc' \in [Users -> {"idle", "run", "getvbe", "healthy", "try"} \cup Connected]
    BY <1>1, <1>4 DEF BackendTypeOK
  <2>2. ube' \in [Users -> Backends \cup {None}]
    BY <1>1, <1>4 DEF BackendTypeOK
  <2> QED  BY <1>1, <1>3, <2>1, <2>2 DEF BackendTypeOK, vclVars, connVars, probeVars
<1>7. VclBusyExact'
  BY <1>1, <1>3 DEF VclBusyExact, vclVars
<1>8. UsersOK'
  <2>1. pc'[Timer] = "idle"
    BY <1>1, <1>2, <1>5, Consts DEF Strong, UsersOK
  <2>2. ASSUME NEW x \in Users
        PROVE  /\ pc'[x] # "idle" => uvcl[x] # None
               /\ IF pc'[x] \in {"idle", "run"} THEN ube'[x] = None ELSE ube'[x] \in Uses[uvcl[x]]
    <3>1. CASE x = t
      BY <3>1, <1>3, <1>4, <1>5
    <3>2. CASE x # t
      BY <3>2, <1>1, <1>5 DEF Strong, UsersOK
    <3> QED  BY <3>1, <3>2
  <2> QED  BY <2>1, <2>2, <1>3 DEF UsersOK
<1>9. ProgramsOK'
  BY <1>1, <1>3 DEF Strong, ProgramsOK, vclVars
<1>10. \A x \in Workers : \/ pc'[x] = pc[x] /\ ube'[x] = ube[x]
                          \/ pc[x] \notin Busy /\ pc'[x] \notin Busy
  <2>1. l \notin Busy /\ pc[t] \notin Busy
    BY <1>3 DEF Busy, Connected
  <2> QED  BY <2>1, <1>5, Consts
<1>11. failed' = FALSE
  BY <1>1, <1>3 DEF BackendTypeOK
<1> QED  BY <1>3, <1>6, <1>7, <1>8, <1>9, <1>10, <1>11, UserMove DEF vclVars

-----------------------------------------------------------------------------
(* Probes *)

\* A poller only ends after it was told to, and only then is there none.
LEMMA PollerKeeps ==
  ASSUME BackendAssumption, BInv, ~ raced, NEW b \in Backends, PollerStep(b)
  PROVE  BInv'
<1>1. BackendTypeOK /\ Strong /\ VclBusyExact /\ ConnExact /\ ConnBound /\ NoPanic
  BY DEF BInv
<1>2. /\ UNCHANGED <<vclVars, be, connVars, probe, stop, userVars, cli, failed, raced>>
      /\ poller[b] # "none"
  BY DEF PollerStep, PollerStarts, Poke, PollerCancelled
<1>3. PICK p \in {"none", "start", "poll"} :
        poller' = [poller EXCEPT ![b] = p] /\ (p = "none" => stop[b])
  <2>1. poller[b] \in {"none", "start", "poll"}
    BY <1>1 DEF BackendTypeOK
  <2> QED  BY <1>2, <2>1 DEF PollerStep, PollerStarts, Poke, PollerCancelled
<1>4. happy' \in [Backends -> [1 .. Window -> BOOLEAN]] /\ healthy' \in [Backends -> BOOLEAN]
  <2>1. CASE PollerStarts(b)
    <3>1. PICK h \in [1 .. Window -> BOOLEAN] : happy' = [happy EXCEPT ![b] = h]
      BY <2>1 DEF PollerStarts
    <3>2. PICK g \in BOOLEAN : healthy' = [healthy EXCEPT ![b] = g]
      <4>1. healthy' = [healthy EXCEPT ![b] = Good(b) >= Threshold]
        BY <2>1 DEF PollerStarts, vbp_has_poked
      <4>2. (Good(b) >= Threshold) \in BOOLEAN
        OBVIOUS
      <4> QED  BY <4>1, <4>2, Zenon
    <3> QED  BY <3>1, <3>2, <1>1 DEF BackendTypeOK
  <2>2. CASE Poke(b)
    <3>1. PICK r \in BOOLEAN :
            happy' = [happy EXCEPT ![b] = [i \in 1 .. Window |-> IF i = 1 THEN r ELSE happy[b][i - 1]]]
      BY <2>2 DEF Poke
    <3>2. [i \in 1 .. Window |-> IF i = 1 THEN r ELSE happy[b][i - 1]] \in [1 .. Window -> BOOLEAN]
      <4>1. happy[b] \in [1 .. Window -> BOOLEAN] /\ Window \in Nat
        BY <1>1 DEF BackendTypeOK, BackendAssumption
      <4>2. \A i \in 1 .. Window : i # 1 => i - 1 \in 1 .. Window
        BY <4>1
      <4>3. \A i \in 1 .. Window : i # 1 => happy[b][i - 1] \in BOOLEAN
        BY <4>1, <4>2
      <4> QED  BY <4>3
    <3>3. PICK g \in BOOLEAN : healthy' = [healthy EXCEPT ![b] = g]
      <4>1. healthy' = [healthy EXCEPT ![b] = Good(b) >= Threshold]
        BY <2>2 DEF Poke, vbp_has_poked
      <4>2. (Good(b) >= Threshold) \in BOOLEAN
        OBVIOUS
      <4> QED  BY <4>1, <4>2, Zenon
    <3> QED  BY <3>1, <3>2, <3>3, <1>1 DEF BackendTypeOK
  <2>3. CASE PollerCancelled(b)
    BY <2>3, <1>1 DEF PollerCancelled, BackendTypeOK
  <2> QED  BY <2>1, <2>2, <2>3 DEF PollerStep
<1>5. BackendTypeOK'
  <2>1. poller' \in [Backends -> {"none", "start", "poll"}]
    BY <1>1, <1>3 DEF BackendTypeOK
  <2> QED  BY <1>1, <1>2, <1>4, <2>1 DEF BackendTypeOK, vclVars, connVars, userVars
<1>6. \A c \in Backends : Connects(c)' = Connects(c) /\ Engaged(c)' = Engaged(c) /\ Directs(c)' = Directs(c)
  BY <1>2 DEF Connects, Engaged, Directs, userVars, vclVars
<1>7. VclBusyExact' /\ ConnExact' /\ ConnBound' /\ NoPanic'
  BY <1>1, <1>2, <1>6 DEF VclBusyExact, ConnExact, ConnBound, NoPanic, vclVars, connVars, userVars
<1>8. UsersOK' /\ ProgramsOK' /\ ThreadOK'
  BY <1>1, <1>2 DEF Strong, UsersOK, ProgramsOK, ThreadOK, vclVars, connVars, userVars
<1>9. ASSUME NEW c \in Backends PROVE (RefOK(c) /\ Owned(c) /\ Bounded(c))'
  <2>1. RefOK(c) /\ Owned(c) /\ Bounded(c)
    BY <1>1 DEF Strong
  <2>2. RefOK(c)' /\ Bounded(c)'
    BY <2>1, <1>2, <1>6 DEF RefOK, Bounded, connVars
  <2>3. poller'[c] = IF c = b THEN p ELSE poller[c]
    BY <1>1, <1>3 DEF BackendTypeOK
  <2>4. Owned(c)'
    BY <2>1, <2>3, <1>2, <1>3 DEF Owned, connVars
  <2> QED  BY <2>2, <2>4
<1> QED  BY <1>5, <1>7, <1>8, <1>9 DEF BInv, Strong

-----------------------------------------------------------------------------
(* The CLI thread, where it touches no backend *)

Threads ==
  [pc : {"idle", "vclpoll", "run", "init", "add", "discard", "fini", "join"},
   todo : SUBSET Vcls, v : Vcls \cup {None}, bes : SUBSET Backends,
   b : Backends \cup {None}, tmp : Nat, ret : {"idle", "vclpoll"}]

\* The record of a thread that does nothing is one of a thread.
LEMMA IdleThread ==
  CliIdle \in Threads /\ CliIdle.pc = "idle" /\ CliIdle.todo = {} /\ CliIdle.bes = {}
BY DEF CliIdle, Threads

\* The thread goes from one program, or one command, to the next.
LEMMA CliQuiet ==
  ASSUME BackendAssumption, BInv, ~ raced, NEW c \in Threads, cli' = c,
         UNCHANGED <<busy, be, connVars, probeVars, userVars, raced>>, failed' = FALSE,
         vcl' \in [Vcls -> {"free", "loaded", "discarded", "fini"}],
         active' \in Vcls \cup {None}, started' \in BOOLEAN, ProgramsOK', ThreadOK',
         \A b \in Backends : Directs(b)' = Directs(b),
         cli.pc # "join",
         cli.pc \in {"idle", "vclpoll", "fini"} => c.pc \in {"idle", "vclpoll", "fini", "join"}
  PROVE  BInv'
<1>1. BackendTypeOK /\ Strong /\ VclBusyExact /\ ConnExact /\ ConnBound
  BY DEF BInv
<1>2. BackendTypeOK'
  BY <1>1 DEF BackendTypeOK, connVars, probeVars, userVars, Threads
<1>3. \A b \in Backends : Connects(b)' = Connects(b) /\ Engaged(b)' = Engaged(b)
  BY DEF Connects, Engaged, userVars
<1>4. VclBusyExact' /\ ConnExact' /\ ConnBound'
  BY <1>1, <1>3 DEF VclBusyExact, ConnExact, ConnBound, connVars, userVars
<1>5. UsersOK'
  BY <1>1 DEF Strong, UsersOK, userVars
<1>6. ASSUME NEW b \in Backends PROVE (RefOK(b) /\ Owned(b) /\ Bounded(b))'
  <2>1. RefOK(b) /\ Owned(b) /\ Bounded(b)
    BY <1>1 DEF Strong
  <2>2. RefOK(b)' /\ Bounded(b)'
    BY <2>1, <1>3 DEF RefOK, Bounded, connVars
  <2>3. Owned(b)'
    BY <2>1 DEF Owned, connVars, probeVars
  <2> QED  BY <2>2, <2>3
<1> QED  BY <1>2, <1>4, <1>5, <1>6 DEF BInv, Strong, NoPanic

\* cli_cb_before, and the commands that change no program.
LEMMA CliTurns ==
  ASSUME BackendAssumption, BInv, ~ raced, ~ failed, CbBefore \/ OtherCommand \/ InitEnds \/ ccf_start
  PROVE  BInv'
<1>1. BackendTypeOK /\ Strong
  BY DEF BInv
<1>2. /\ UNCHANGED <<vcl, active, busy, be, connVars, probeVars, userVars, failed, raced>>
      /\ cli.pc \in {"idle", "run", "init"} /\ (cli.pc = "init" => cli.bes = {})
  BY DEF CbBefore, OtherCommand, InitEnds, ccf_start, vclVars
<1>3. PICK c \in Threads :
        /\ cli' = c /\ c.pc \in {"idle", "vclpoll"}
        /\ c.pc = "vclpoll" => \A v \in c.todo : vcl[v] = "discarded"
  <2>1. CASE CbBefore
    <3> DEFINE d == [CliIdle EXCEPT !.pc = "vclpoll", !.todo = {v \in Vcls : vcl[v] = "discarded"}]
    <3>1. d \in Threads /\ d.pc = "vclpoll" /\ d.todo = {v \in Vcls : vcl[v] = "discarded"}
      BY DEF CliIdle, Threads
    <3>2. cli' = d
      BY <2>1 DEF CbBefore
    <3> HIDE DEF d
    <3> QED  BY <3>1, <3>2
  <2>2. CASE OtherCommand \/ InitEnds \/ ccf_start
    BY <2>2, IdleThread DEF OtherCommand, InitEnds, ccf_start
  <2> QED  BY <2>1, <2>2
<1>4. started' \in BOOLEAN /\ (started' => active # None)
  <2>1. CASE CbBefore \/ OtherCommand \/ InitEnds
    <3>1. started' = started
      BY <2>1 DEF CbBefore, OtherCommand, InitEnds, vclVars
    <3> QED  BY <3>1, <1>1 DEF Strong, ProgramsOK, BackendTypeOK
  <2>2. CASE ccf_start
    BY <2>2 DEF ccf_start
  <2> QED  BY <2>1, <2>2
<1>5. ProgramsOK'
  BY <1>1, <1>2, <1>3, <1>4 DEF Strong, ProgramsOK, userVars
<1>6. \A v \in Vcls : vcl[v] # "fini"
  BY <1>1, <1>2 DEF Strong, ThreadOK
<1>7. ThreadOK'
  BY <1>2, <1>3, <1>6 DEF ThreadOK
<1>8. \A b \in Backends : Directs(b)' = Directs(b)
  BY <1>2, <1>3, <1>6 DEF Directs
<1>9. failed' = FALSE
  BY <1>1, <1>2 DEF BackendTypeOK
<1> QED  BY <1>1, <1>2, <1>3, <1>4, <1>5, <1>7, <1>8, <1>9, CliQuiet DEF BackendTypeOK

\* ccf_config_use: the selected program has been initialised.
LEMMA CliUses ==
  ASSUME BackendAssumption, BInv, ~ raced, ~ failed, NEW v \in Vcls, ccf_config_use(v)
  PROVE  BInv'
<1>1. BackendTypeOK /\ Strong
  BY DEF BInv
<1>2. /\ UNCHANGED <<vcl, busy, started, be, connVars, probeVars, userVars, failed, raced>>
      /\ cli.pc = "run" /\ vcl[v] = "loaded" /\ active' = v /\ cli' = CliIdle
  BY DEF ccf_config_use
<1>3. PICK c \in Threads : c = CliIdle /\ c.pc = "idle"
  BY IdleThread
<1>4. v # None
  BY Consts
<1>5. ProgramsOK'
  BY <1>1, <1>2, <1>3, <1>4 DEF Strong, ProgramsOK, userVars
<1>6. \A x \in Vcls : vcl[x] # "fini"
  BY <1>1, <1>2 DEF Strong, ThreadOK
<1>7. ThreadOK'
  BY <1>2, <1>3, <1>6 DEF ThreadOK
<1>8. \A b \in Backends : Directs(b)' = Directs(b)
  BY <1>2, <1>3, <1>6 DEF Directs
<1>9. failed' = FALSE
  BY <1>1, <1>2 DEF BackendTypeOK
<1> QED  BY <1>1, <1>2, <1>3, <1>5, <1>7, <1>8, <1>9, CliQuiet DEF BackendTypeOK

\* ccf_config_discard, up to the unlock.
LEMMA CliDiscards ==
  ASSUME BackendAssumption, BInv, ~ raced, ~ failed, NEW v \in Vcls, ccf_config_discard(v)
  PROVE  BInv'
<1>1. BackendTypeOK /\ Strong
  BY DEF BInv
<1>2. /\ UNCHANGED <<active, busy, started, be, connVars, probeVars, userVars, failed, raced>>
      /\ cli.pc = "run" /\ vcl[v] = "loaded" /\ v # active
      /\ vcl' = [vcl EXCEPT ![v] = "discarded"]
      /\ cli' = [CliIdle EXCEPT !.pc = "discard", !.v = v]
  BY DEF ccf_config_discard
<1>3. PICK c \in Threads : c = [CliIdle EXCEPT !.pc = "discard", !.v = v] /\ c.pc = "discard" /\ c.v = v
  <2>1. /\ [CliIdle EXCEPT !.pc = "discard", !.v = v] \in Threads
        /\ [CliIdle EXCEPT !.pc = "discard", !.v = v].pc = "discard"
        /\ [CliIdle EXCEPT !.pc = "discard", !.v = v].v = v
    BY DEF CliIdle, Threads
  <2> QED  BY <2>1, Zenon
<1>4. vcl' \in [Vcls -> {"free", "loaded", "discarded", "fini"}]
      /\ \A x \in Vcls : vcl'[x] = IF x = v THEN "discarded" ELSE vcl[x]
  BY <1>1, <1>2 DEF BackendTypeOK
<1>5. \A u \in Users : uvcl[u] # None => uvcl[u] \in Vcls
  BY <1>1 DEF BackendTypeOK
<1>6. ProgramsOK'
  <2>1. active # None => active \in Vcls /\ vcl'[active] = "loaded"
    BY <1>1, <1>2, <1>4 DEF Strong, ProgramsOK, BackendTypeOK
  <2>2. \A u \in Users : uvcl[u] # None => vcl'[uvcl[u]] \in {"loaded", "discarded"}
    BY <1>1, <1>4, <1>5 DEF Strong, ProgramsOK
  <2> QED  BY <2>1, <2>2, <1>1, <1>2, <1>3 DEF Strong, ProgramsOK, userVars
<1>7. \A x \in Vcls : vcl[x] # "fini" /\ vcl'[x] # "fini"
  BY <1>1, <1>2, <1>4 DEF Strong, ThreadOK
<1>8. ThreadOK'
  BY <1>2, <1>3, <1>4, <1>7 DEF ThreadOK
<1>9. \A b \in Backends : Directs(b)' = Directs(b)
  BY <1>2, <1>3, <1>4, <1>7 DEF Directs
<1>10. failed' = FALSE
  BY <1>1, <1>2 DEF BackendTypeOK
<1> QED  BY <1>1, <1>2, <1>3, <1>4, <1>6, <1>8, <1>9, <1>10, CliQuiet DEF BackendTypeOK

\* VCL_Load, up to the call of init_func.
LEMMA CliLoads ==
  ASSUME BackendAssumption, BInv, ~ raced, ~ failed, NEW v \in Vcls, VCL_Load(v)
  PROVE  BInv'
<1>1. BackendTypeOK /\ Strong /\ VclBusyExact
  BY DEF BInv
<1>2. /\ UNCHANGED <<started, be, connVars, probeVars, userVars, failed, raced>>
      /\ cli.pc = "run" /\ vcl[v] = "free"
      /\ vcl' = [vcl EXCEPT ![v] = "loaded"] /\ busy' = [busy EXCEPT ![v] = 0]
      /\ active' = (IF active = None THEN v ELSE active)
      /\ cli' = [CliIdle EXCEPT !.pc = "init", !.v = v, !.bes = Uses[v]]
  BY DEF VCL_Load
<1>3. Uses[v] \subseteq Backends /\ v # None
  BY Consts
<1>4. PICK c \in Threads : /\ c = [CliIdle EXCEPT !.pc = "init", !.v = v, !.bes = Uses[v]]
                           /\ c.pc = "init" /\ c.v = v /\ c.bes = Uses[v]
  <2> DEFINE d == [CliIdle EXCEPT !.pc = "init", !.v = v, !.bes = Uses[v]]
  <2>1. /\ d \in Threads
        /\ d.pc = "init"
        /\ d.v = v
        /\ d.bes = Uses[v]
    BY <1>3 DEF CliIdle, Threads
  <2>2. d = [CliIdle EXCEPT !.pc = "init", !.v = v, !.bes = Uses[v]]
    OBVIOUS
  <2> HIDE DEF d
  <2> QED  BY <2>1, <2>2, Zenon
<1>5. vcl' \in [Vcls -> {"free", "loaded", "discarded", "fini"}]
      /\ \A x \in Vcls : vcl'[x] = IF x = v THEN "loaded" ELSE vcl[x]
  BY <1>1, <1>2 DEF BackendTypeOK
<1>6. \A u \in Users : (uvcl[u] # None => uvcl[u] \in Vcls) /\ uvcl[u] # v
  BY <1>1, <1>2, <1>3 DEF BackendTypeOK, Strong, ProgramsOK
<1>7. busy' = busy
  <2>1. DOMAIN uvcl = Users /\ IsFiniteSet(Users)
    BY <1>1, Consts DEF BackendTypeOK
  <2>2. Count(uvcl, v) = 0
    BY <1>6, <2>1, CountZero
  <2>3. busy[v] = 0
    BY <1>1, <2>2 DEF VclBusyExact
  <2> QED  BY <1>1, <1>2, <2>3 DEF BackendTypeOK
<1>8. ProgramsOK'
  <2>1. active' # None => vcl'[active'] = "loaded"
    BY <1>1, <1>2, <1>5 DEF Strong, ProgramsOK, BackendTypeOK
  <2>2. \A u \in Users : uvcl[u] # None => vcl'[uvcl[u]] \in {"loaded", "discarded"}
    BY <1>1, <1>5, <1>6 DEF Strong, ProgramsOK
  <2>3. started => active # None /\ active' = active /\ active # v
    BY <1>1, <1>2 DEF Strong, ProgramsOK
  <2>4. \A t \in Workers : uvcl[t] # v
    BY <1>6, Consts
  <2> QED  BY <2>1, <2>2, <2>3, <2>4, <1>2, <1>4 DEF ProgramsOK, userVars
<1>9. \A x \in Vcls : vcl[x] # "fini" /\ vcl'[x] # "fini"
  BY <1>1, <1>2, <1>5 DEF Strong, ThreadOK
<1>10. ThreadOK'
  BY <1>2, <1>4, <1>5, <1>9 DEF ThreadOK
<1>11. \A b \in Backends : Directs(b)' = Directs(b)
  BY <1>2, <1>4, <1>5, <1>9 DEF Directs
<1>12. failed' = FALSE /\ active' \in Vcls \cup {None}
  BY <1>1, <1>2 DEF BackendTypeOK
<1> QED  BY <1>1, <1>2, <1>4, <1>5, <1>7, <1>8, <1>10, <1>11, <1>12, CliQuiet DEF BackendTypeOK

\* VCL_Nuke, up to the call of fini_func: nobody has the program.
LEMMA CliNukes ==
  ASSUME BackendAssumption, BInv, ~ raced, NEW v \in Vcls, NEW todo \in SUBSET Vcls,
         NEW ret \in {"idle", "vclpoll"}, VCL_Nuke(v, todo, ret),
         cli.pc \in {"vclpoll", "discard"}, vcl[v] = "discarded", busy[v] = 0,
         \A x \in todo : vcl[x] = "discarded" /\ x # v,
         UNCHANGED <<active, busy, started, be, connVars, probeVars, userVars, raced>>
  PROVE  BInv'
<1>1. BackendTypeOK /\ Strong /\ VclBusyExact
  BY DEF BInv
<1>2. /\ failed' = (v = active \/ busy[v] # 0) /\ vcl' = [vcl EXCEPT ![v] = "fini"]
      /\ cli' = [CliIdle EXCEPT !.pc = "fini", !.todo = todo, !.v = v, !.bes = Uses[v], !.ret = ret]
  BY DEF VCL_Nuke
<1>3. Uses[v] \subseteq Backends /\ v # None
  BY Consts
<1>4. PICK c \in Threads : /\ c = [CliIdle EXCEPT !.pc = "fini", !.todo = todo, !.v = v, !.bes = Uses[v], !.ret = ret]
                           /\ c.pc = "fini" /\ c.todo = todo /\ c.v = v /\ c.bes = Uses[v]
  <2> DEFINE d == [CliIdle EXCEPT !.pc = "fini", !.todo = todo, !.v = v, !.bes = Uses[v], !.ret = ret]
  <2>1. /\ d \in Threads
        /\ d.pc = "fini"
        /\ d.todo = todo
        /\ d.v = v
        /\ d.bes = Uses[v]
    BY <1>3 DEF CliIdle, Threads
  <2>2. d = [CliIdle EXCEPT !.pc = "fini", !.todo = todo, !.v = v, !.bes = Uses[v], !.ret = ret]
    OBVIOUS
  <2> HIDE DEF d
  <2> QED  BY <2>1, <2>2, Zenon
<1>5. vcl' \in [Vcls -> {"free", "loaded", "discarded", "fini"}]
      /\ \A x \in Vcls : vcl'[x] = IF x = v THEN "fini" ELSE vcl[x]
  BY <1>1, <1>2 DEF BackendTypeOK
<1>6. v # active
  BY <1>1, <1>3 DEF Strong, ProgramsOK
<1>7. failed' = FALSE
  <2>1. (v = active \/ busy[v] # 0) = FALSE
    BY <1>6
  <2> QED  BY <1>2, <2>1
<1>8. \A u \in Users : (uvcl[u] # None => uvcl[u] \in Vcls) /\ uvcl[u] # v
  <2>1. DOMAIN uvcl = Users /\ IsFiniteSet(Users)
    BY <1>1, Consts DEF BackendTypeOK
  <2>2. Count(uvcl, v) = 0
    BY <1>1 DEF VclBusyExact
  <2> QED  BY <1>1, <2>1, <2>2, CountZero DEF BackendTypeOK
<1>9. ProgramsOK'
  <2>1. active # None => vcl'[active] = "loaded"
    BY <1>1, <1>5, <1>6 DEF Strong, ProgramsOK, BackendTypeOK
  <2>2. \A u \in Users : uvcl[u] # None => vcl'[uvcl[u]] \in {"loaded", "discarded"}
    BY <1>1, <1>5, <1>8 DEF Strong, ProgramsOK
  <2> QED  BY <2>1, <2>2, <1>1, <1>2, <1>4 DEF Strong, ProgramsOK, userVars
<1>10. \A x \in Vcls : vcl[x] # "fini" /\ (vcl'[x] = "fini" <=> x = v)
  BY <1>1, <1>5 DEF Strong, ThreadOK
<1>11. ThreadOK'
  BY <1>2, <1>4, <1>5, <1>10 DEF ThreadOK
<1>12. \A b \in Backends : Directs(b)' = Directs(b)
  BY <1>2, <1>4, <1>5, <1>10 DEF Directs
<1> QED  BY <1>1, <1>2, <1>4, <1>5, <1>7, <1>9, <1>11, <1>12, CliQuiet DEF BackendTypeOK

\* VCL_Poll of one program, and ccf_config_discard after the unlock.
LEMMA CliPolls ==
  ASSUME BackendAssumption, BInv, ~ raced, ~ failed,
         (\E v \in Vcls : VCL_Poll(v)) \/ DiscardEnds
  PROVE  BInv'
<1>1. BackendTypeOK /\ Strong /\ cli \in Threads
  BY DEF BInv, BackendTypeOK, Threads
<1>2. UNCHANGED <<active, busy, started, be, connVars, probeVars, userVars, raced>>
  BY DEF VCL_Poll, DiscardEnds
<1>3. ASSUME NEW c \in Threads, cli' = c, c.pc \in {"idle", "vclpoll"}, UNCHANGED <<vcl, failed>>,
             cli.pc \in {"vclpoll", "discard"},
             c.pc = "vclpoll" => \A x \in c.todo : vcl[x] = "discarded"
      PROVE  BInv'
  <2>1. \A x \in Vcls : vcl[x] # "fini"
    BY <1>1, <1>3 DEF Strong, ThreadOK
  <2>2. ThreadOK'
    BY <1>3, <2>1 DEF ThreadOK
  <2>3. ProgramsOK'
    BY <1>1, <1>2, <1>3 DEF Strong, ProgramsOK, userVars
  <2>4. \A b \in Backends : Directs(b)' = Directs(b)
    BY <1>3, <2>1 DEF Directs
  <2>5. failed' = FALSE
    BY <1>1, <1>3 DEF BackendTypeOK
  <2> QED  BY <1>1, <1>2, <1>3, <2>2, <2>3, <2>4, <2>5, CliQuiet DEF BackendTypeOK
<1>4. ASSUME NEW v \in Vcls, VCL_Poll(v) PROVE BInv'
  <2>1. cli.pc = "vclpoll" /\ v \in cli.todo /\ cli.todo \in SUBSET Vcls /\ \A x \in cli.todo : vcl[x] = "discarded"
    BY <1>1, <1>4 DEF VCL_Poll, Strong, ThreadOK, Threads
  <2>2. CASE busy[v] = 0
    <3>1. VCL_Nuke(v, cli.todo \ {v}, "vclpoll")
      BY <1>4, <2>2 DEF VCL_Poll
    <3>2. PICK T : T = cli.todo \ {v}
      OBVIOUS
    <3>3. T \in SUBSET Vcls /\ \A x \in T : vcl[x] = "discarded" /\ x # v
      BY <2>1, <3>2
    <3> QED  BY <3>1, <3>2, <3>3, <2>1, <2>2, <1>2, CliNukes
  <2>3. CASE busy[v] # 0
    <3> DEFINE d == [cli EXCEPT !.todo = cli.todo \ {v}]
    <3>1. d \in Threads /\ d.pc = "vclpoll" /\ d.todo = cli.todo \ {v}
      BY <1>1, <2>1 DEF Threads
    <3>2. cli' = d /\ UNCHANGED <<vcl, failed>>
      BY <1>4, <2>3 DEF VCL_Poll
    <3> HIDE DEF d
    <3> QED  BY <3>1, <3>2, <2>1, <1>3
  <2> QED  BY <2>2, <2>3
<1>5. ASSUME DiscardEnds PROVE BInv'
  <2>1. PICK v \in Vcls : v = cli.v /\ vcl[v] = "discarded"
    BY <1>1, <1>5 DEF DiscardEnds, Strong, ThreadOK
  <2>2. cli.pc = "discard"
    BY <1>5 DEF DiscardEnds
  <2>3. CASE busy[v] = 0
    <3>1. VCL_Nuke(v, {}, "idle")
      BY <1>5, <2>1, <2>3 DEF DiscardEnds
    <3>2. PICK T \in SUBSET Vcls : T = {}
      OBVIOUS
    <3> QED  BY <3>1, <3>2, <2>1, <2>2, <2>3, <1>2, CliNukes
  <2>4. CASE busy[v] # 0
    <3>1. cli' = CliIdle /\ UNCHANGED <<vcl, failed>>
      BY <1>5, <2>1, <2>4 DEF DiscardEnds
    <3> QED  BY <3>1, <2>2, <1>3, IdleThread
  <2> QED  BY <2>3, <2>4
<1> QED  BY <1>4, <1>5

\* VCL_Nuke frees the program, after fini_func has freed its directors.
LEMMA CliFrees ==
  ASSUME BackendAssumption, BInv, ~ raced, ~ failed, NukeEnds
  PROVE  BInv'
<1>1. BackendTypeOK /\ Strong /\ cli \in Threads
  BY DEF BInv, BackendTypeOK, Threads
<1>2. /\ UNCHANGED <<active, busy, started, be, connVars, probeVars, userVars, failed, raced>>
      /\ cli.pc = "fini" /\ cli.bes = {}
  BY DEF NukeEnds
<1>3. PICK v \in Vcls : v = cli.v /\ \A x \in Vcls : vcl[x] = "fini" <=> x = v
  BY <1>1, <1>2 DEF Strong, ThreadOK
<1>4. \A x \in cli.todo : x \in Vcls /\ vcl[x] = "discarded"
  BY <1>1, <1>2 DEF Strong, ThreadOK, Threads
<1>5. PICK c \in Threads : cli' = c /\ c.pc \in {"idle", "vclpoll"} /\ c.todo = cli.todo
  <2> DEFINE d == [CliIdle EXCEPT !.pc = cli.ret, !.todo = cli.todo]
  <2>1. d \in Threads /\ d.pc = cli.ret /\ d.todo = cli.todo /\ cli.ret \in {"idle", "vclpoll"}
    BY <1>1 DEF CliIdle, Threads
  <2>2. cli' = d
    BY DEF NukeEnds
  <2> HIDE DEF d
  <2> QED  BY <2>1, <2>2
<1>6. vcl' \in [Vcls -> {"free", "loaded", "discarded", "fini"}]
      /\ \A x \in Vcls : vcl'[x] = IF x = v THEN "free" ELSE vcl[x]
  BY <1>1, <1>3 DEF BackendTypeOK, NukeEnds
<1>7. ProgramsOK'
  <2>1. active # None => active \in Vcls /\ vcl'[active] = "loaded"
    BY <1>1, <1>3, <1>6 DEF Strong, ProgramsOK, BackendTypeOK
  <2>2. \A u \in Users : uvcl[u] # None => uvcl[u] \in Vcls /\ vcl'[uvcl[u]] \in {"loaded", "discarded"}
    <3>1. \A u \in Users : uvcl[u] # None => uvcl[u] \in Vcls
      BY <1>1 DEF BackendTypeOK
    <3>2. \A u \in Users : uvcl[u] # None => vcl[uvcl[u]] \in {"loaded", "discarded"}
      BY <1>1 DEF Strong, ProgramsOK
    <3>3. \A x \in Vcls : vcl[x] \in {"loaded", "discarded"} => vcl'[x] = vcl[x]
      BY <1>3, <1>6
    <3> QED  BY <3>1, <3>2, <3>3
  <2> QED  BY <2>1, <2>2, <1>1, <1>2, <1>5 DEF Strong, ProgramsOK, userVars
<1>8. ThreadOK'
  BY <1>3, <1>4, <1>5, <1>6 DEF ThreadOK
<1>9. \A b \in Backends : Directs(b)' = Directs(b)
  BY <1>2, <1>3, <1>5, <1>6 DEF Directs
<1>10. failed' = FALSE
  BY <1>1, <1>2 DEF BackendTypeOK
<1> QED  BY <1>1, <1>2, <1>5, <1>6, <1>7, <1>8, <1>9, <1>10, CliQuiet DEF BackendTypeOK

\* VBE_AddBackend reads the counter of a backend that is there already.
LEMMA CliAdds ==
  ASSUME BackendAssumption, BInv, ~ raced, ~ failed, NEW b \in Backends, AddBackend(b)
  PROVE  BInv'
<1>1. BackendTypeOK /\ Strong /\ cli \in Threads
  BY DEF BInv, BackendTypeOK, Threads
<1>2. /\ UNCHANGED <<vclVars, be, connVars, probeVars, userVars, failed, raced>>
      /\ cli.pc = "init" /\ b \in cli.bes /\ be[b]
  BY DEF AddBackend
<1>3. PICK c \in Threads : /\ cli' = c /\ c.pc = "add" /\ c.b = b /\ c.bes = cli.bes /\ c.v = cli.v
  <2> DEFINE d == [cli EXCEPT !.pc = "add", !.b = b, !.tmp = ref[b]]
  <2>1. d \in Threads /\ d.pc = "add" /\ d.b = b /\ d.bes = cli.bes /\ d.v = cli.v
    BY <1>1 DEF Threads, BackendTypeOK
  <2>2. cli' = d
    BY DEF AddBackend
  <2> HIDE DEF d
  <2> QED  BY <2>1, <2>2
<1>4. \A x \in Vcls : vcl[x] # "fini"
  BY <1>1, <1>2 DEF Strong, ThreadOK
<1>5. ProgramsOK'
  BY <1>1, <1>2, <1>3 DEF Strong, ProgramsOK, userVars, vclVars
<1>6. ThreadOK'
  BY <1>1, <1>2, <1>3, <1>4 DEF Strong, ThreadOK, vclVars
<1>7. \A x \in Backends : Directs(x)' = Directs(x)
  BY <1>2, <1>3, <1>4 DEF Directs, vclVars
<1>8. failed' = FALSE
  BY <1>1, <1>2 DEF BackendTypeOK
<1> QED  BY <1>1, <1>2, <1>3, <1>5, <1>6, <1>7, <1>8, CliQuiet DEF BackendTypeOK, vclVars

-----------------------------------------------------------------------------
(* The CLI thread and the backends *)

\* A step of the thread that touches backends and no program.
LEMMA CliMoves ==
  ASSUME BackendAssumption, BInv, ~ raced, UNCHANGED <<vclVars, userVars, raced>>, failed' = FALSE,
         BackendTypeOK', ThreadOK', ConnExact',
         cli'.pc \in {"init", "add"} => cli.pc \in {"init", "add"} /\ cli'.v = cli.v,
         \A b \in Backends : /\ RefOK(b)' /\ Owned(b)'
                             /\ idle'[b] <= idle[b] /\ nConn'[b] <= nConn[b]
  PROVE  BInv'
<1>1. BackendTypeOK /\ Strong /\ VclBusyExact /\ ConnBound
  BY DEF BInv
<1>2. \A b \in Backends : Engaged(b)' = Engaged(b)
  BY DEF Engaged, userVars
<1>3. VclBusyExact'
  BY <1>1 DEF VclBusyExact, vclVars, userVars
<1>4. Cardinality(Workers) \in Nat
  BY Consts
<1>5. ConnBound'
  BY <1>1, <1>4 DEF ConnBound, BackendTypeOK
<1>6. UsersOK' /\ ProgramsOK'
  BY <1>1 DEF Strong, UsersOK, ProgramsOK, userVars, vclVars
<1>7. ASSUME NEW b \in Backends PROVE Bounded(b)'
  <2>1. Bounded(b) /\ Cardinality(Engaged(b)) \in Nat
    BY <1>1, Counted DEF Strong
  <2>2. idle[b] \in Nat /\ idle'[b] \in Nat /\ idle'[b] <= idle[b]
    BY <1>1 DEF BackendTypeOK
  <2>3. idle'[b] + Cardinality(Engaged(b)) <= Cardinality(Workers)
    BY <2>1, <2>2, <1>4 DEF Bounded
  <2> QED  BY <2>3, <1>2 DEF Bounded
<1> QED  BY <1>3, <1>5, <1>6, <1>7 DEF BInv, Strong, NoPanic

\* VBP_Stop: the thread of the probe has ended.
LEMMA CliStops ==
  ASSUME BackendAssumption, BInv, ~ raced, ~ failed, VBP_Stop
  PROVE  BInv'
<1>1. BackendTypeOK /\ Strong /\ ConnExact /\ cli \in Threads
  BY DEF BInv, BackendTypeOK, Threads
<1>2. /\ UNCHANGED <<vclVars, be, connVars, healthy, stop, poller, happy, userVars, failed, raced>>
      /\ cli.pc = "join"
  BY DEF VBP_Stop
<1>3. PICK b \in Backends : b = cli.b /\ be[b] /\ ref[b] = 0 /\ poller[b] = "none"
  BY <1>1, <1>2 DEF Strong, ThreadOK, VBP_Stop
<1>4. probe' = [probe EXCEPT ![b] = FALSE]
  BY <1>3 DEF VBP_Stop
<1>5. PICK c \in Threads : /\ cli' = c /\ c.pc = "fini" /\ c.bes = cli.bes /\ c.v = cli.v /\ c.todo = cli.todo
  <2> DEFINE d == [cli EXCEPT !.pc = "fini", !.b = None]
  <2>1. d \in Threads /\ d.pc = "fini" /\ d.bes = cli.bes /\ d.v = cli.v /\ d.todo = cli.todo
    BY <1>1 DEF Threads
  <2>2. cli' = d
    BY DEF VBP_Stop
  <2> HIDE DEF d
  <2> QED  BY <2>1, <2>2
<1>6. BackendTypeOK'
  <2>1. probe' \in [Backends -> BOOLEAN]
    BY <1>1, <1>4 DEF BackendTypeOK
  <2> QED  BY <2>1, <1>1, <1>2, <1>5 DEF BackendTypeOK, vclVars, connVars, userVars, Threads
<1>7. ThreadOK'
  BY <1>1, <1>2, <1>5 DEF Strong, ThreadOK, vclVars, connVars
<1>8. \A x \in Backends : Directs(x)' = Directs(x) /\ Connects(x)' = Connects(x)
  BY <1>2, <1>5 DEF Directs, Connects, vclVars, userVars
<1>9. ConnExact'
  BY <1>1, <1>2, <1>8 DEF ConnExact, connVars
<1>10. ASSUME NEW x \in Backends PROVE RefOK(x)' /\ Owned(x)' /\ idle'[x] <= idle[x] /\ nConn'[x] <= nConn[x]
  <2>1. RefOK(x) /\ Owned(x)
    BY <1>1 DEF Strong
  <2>2. RefOK(x)'
    BY <2>1, <1>2, <1>8 DEF RefOK, connVars
  <2>3. probe'[x] = IF x = b THEN FALSE ELSE probe[x]
    BY <1>1, <1>4 DEF BackendTypeOK
  <2>4. Owned(x)'
    <3>1. CASE x = b
      BY <3>1, <2>1, <2>3, <1>2, <1>3, <1>5 DEF Owned, connVars
    <3>2. CASE x # b
      BY <3>2, <2>1, <2>3, <1>2, <1>3, <1>5 DEF Owned, connVars
    <3> QED  BY <3>1, <3>2
  <2>5. idle[x] \in Nat /\ nConn[x] \in Nat
    BY <1>1 DEF BackendTypeOK
  <2> QED  BY <2>2, <2>4, <2>5, <1>2 DEF connVars
<1>11. failed' = FALSE
  BY <1>1, <1>2 DEF BackendTypeOK
<1> QED  BY <1>2, <1>5, <1>6, <1>7, <1>9, <1>10, <1>11, CliMoves

\* VBE_Nuke of the backends in S.
LEMMA NukedIs ==
  ASSUME BackendTypeOK, NEW S, Nuked(S)
  PROVE  /\ be' \in [Backends -> BOOLEAN] /\ nConn' \in [Backends -> Nat] /\ healthy' \in [Backends -> BOOLEAN]
         /\ stop' \in [Backends -> BOOLEAN] /\ happy' \in [Backends -> [1 .. Window -> BOOLEAN]]
         /\ \A b \in Backends : /\ be'[b] <=> be[b] /\ b \notin S
                                /\ stop'[b] <=> stop[b] /\ b \notin S
                                /\ nConn'[b] = (IF b \in S THEN 0 ELSE nConn[b])
                                /\ nConn'[b] <= nConn[b]
<1>1. be' \in [Backends -> BOOLEAN] /\ \A b \in Backends : be'[b] <=> be[b] /\ b \notin S
  BY DEF Nuked
<1>2. stop' \in [Backends -> BOOLEAN] /\ \A b \in Backends : stop'[b] <=> stop[b] /\ b \notin S
  BY DEF Nuked
<1>3. healthy' \in [Backends -> BOOLEAN] /\ happy' \in [Backends -> [1 .. Window -> BOOLEAN]]
  BY DEF Nuked
<1>4. \A b \in Backends : nConn[b] \in Nat /\ nConn'[b] = IF b \in S THEN 0 ELSE nConn[b]
  BY DEF Nuked, BackendTypeOK
<1>5. nConn' \in [Backends -> Nat]
  BY DEF Nuked, BackendTypeOK
<1>6. \A b \in Backends : nConn'[b] <= nConn[b]
  BY <1>4
<1> QED  BY <1>1, <1>2, <1>3, <1>4, <1>5, <1>6

\* VBE_Poll frees what has no reference and no probe, and leaves no backend
\* without a reference.
LEMMA CliSweeps ==
  ASSUME BackendAssumption, BInv, ~ raced, ~ failed, VBE_Poll
  PROVE  BInv'
<1>1. BackendTypeOK /\ Strong /\ ConnExact /\ cli \in Threads
  BY DEF BInv, BackendTypeOK, Threads
<1>2. /\ UNCHANGED <<vclVars, ref, idle, probe, poller, userVars, failed, raced>>
      /\ cli.pc = "vclpoll"
  BY DEF VBE_Poll
<1>3. PICK S : S = {b \in Backends : be[b] /\ ref[b] = 0 /\ ~ probe[b]}
  OBVIOUS
<1>4. Nuked(S)
  BY <1>3 DEF VBE_Poll
<1>5. PICK c \in Threads : cli' = c /\ c.pc = "run"
  <2> DEFINE d == [cli EXCEPT !.pc = "run"]
  <2>1. d \in Threads /\ d.pc = "run"
    BY <1>1 DEF Threads
  <2>2. cli' = d
    BY DEF VBE_Poll
  <2> HIDE DEF d
  <2> QED  BY <2>1, <2>2
<1>6. BackendTypeOK'
  BY <1>1, <1>2, <1>4, <1>5, NukedIs DEF BackendTypeOK, vclVars, userVars, Threads
<1>7. \A x \in Vcls : vcl[x] # "fini"
  BY <1>1, <1>2 DEF Strong, ThreadOK
<1>8. ThreadOK'
  BY <1>2, <1>5, <1>7 DEF ThreadOK, vclVars
<1>9. \A x \in Backends : Directs(x)' = Directs(x) /\ Connects(x)' = Connects(x)
  BY <1>2, <1>5, <1>7 DEF Directs, Connects, vclVars, userVars
<1>10. \A x \in Backends : /\ be'[x] <=> be[x] /\ x \notin S
                           /\ stop'[x] <=> stop[x] /\ x \notin S
                           /\ nConn'[x] = (IF x \in S THEN 0 ELSE nConn[x])
                           /\ nConn'[x] <= nConn[x] /\ ref[x] \in Nat /\ idle[x] \in Nat
  BY <1>1, <1>4, NukedIs DEF BackendTypeOK
<1>11. ConnExact'
  <2> SUFFICES ASSUME NEW x \in Backends, ref'[x] > 0
               PROVE  nConn'[x] = idle'[x] + Cardinality(Connects(x)')
    BY DEF ConnExact
  <2>1. x \notin S
    BY <1>2, <1>3, <1>10
  <2> QED  BY <2>1, <1>1, <1>2, <1>9, <1>10 DEF ConnExact
<1>12. ASSUME NEW x \in Backends PROVE RefOK(x)' /\ Owned(x)' /\ idle'[x] <= idle[x] /\ nConn'[x] <= nConn[x]
  <2>1. RefOK(x) /\ Owned(x)
    BY <1>1 DEF Strong
  <2>2. RefOK(x)'
    BY <2>1, <1>2, <1>9 DEF RefOK
  <2>3. be[x] /\ ref[x] = 0 => x \in S
    BY <2>1, <1>2, <1>3 DEF Owned
  <2>4. Owned(x)'
    <3>1. CASE x \in S
      <4>1. ref[x] = 0 /\ ~ probe[x] /\ ~ be'[x]
        BY <3>1, <1>3, <1>10
      <4> QED  BY <4>1, <2>1, <1>2 DEF Owned
    <3>2. CASE x \notin S
      BY <3>2, <2>1, <2>3, <1>2, <1>10 DEF Owned
    <3> QED  BY <3>1, <3>2
  <2> QED  BY <2>2, <2>4, <1>2, <1>10
<1>13. failed' = FALSE
  BY <1>1, <1>2 DEF BackendTypeOK
<1> QED  BY <1>2, <1>5, <1>6, <1>8, <1>11, <1>12, <1>13, CliMoves

\* VRT_fini_dir drops the reference of a director.  The last one finds no worker
\* on the backend.
LEMMA CliDrops ==
  ASSUME BackendAssumption, BInv, ~ raced, NEW b \in Backends, VRT_fini_dir(b)
  PROVE  BInv'
<1>1. BackendTypeOK /\ Strong /\ ConnExact /\ cli \in Threads
  BY DEF BInv, BackendTypeOK, Threads
<1>2. /\ UNCHANGED <<vclVars, probe, poller, userVars, raced>>
      /\ cli.pc = "fini" /\ b \in cli.bes /\ ref' = [ref EXCEPT ![b] = ref[b] - 1]
      /\ failed' = (ref[b] = 0) /\ idle' = [idle EXCEPT ![b] = IF ref[b] = 1 THEN 0 ELSE idle[b]]
  BY DEF VRT_fini_dir
<1>3. PICK v \in Vcls : v = cli.v /\ b \in Uses[v] /\ \A x \in Vcls : vcl[x] = "fini" <=> x = v
  BY <1>1, <1>2 DEF Strong, ThreadOK
<1>4. v \in Directs(b)
  BY <1>2, <1>3 DEF Directs
<1>5. /\ Cardinality(Directs(b)) \in Nat /\ Cardinality(Directs(b)) >= 1
      /\ Cardinality(Directs(b)) = 1 => Directs(b) = {v}
  BY <1>4, Counted, CardOne
<1>6. ref[b] = Cardinality(Directs(b)) + Cardinality(Connects(b)) /\ Cardinality(Connects(b)) \in Nat
  BY <1>1, Counted DEF Strong, RefOK
<1>7. ref[b] \in Nat /\ ref[b] >= 1 /\ be[b]
  <2>1. ref[b] \in Nat /\ ref[b] >= 1
    BY <1>5, <1>6
  <2> QED  BY <2>1, <1>1 DEF Strong, Owned
<1>8. failed' = FALSE
  <2>1. (ref[b] = 0) = FALSE
    BY <1>7
  <2> QED  BY <1>2, <2>1
<1>9. PICK c \in Threads :
        /\ cli' = c /\ c.bes = cli.bes \ {b} /\ c.v = v /\ c.todo = cli.todo
        /\ IF ref[b] = 1 /\ probe[b] THEN c.pc = "join" /\ c.b = b ELSE c.pc = "fini"
  <2>1. CASE ref[b] = 1 /\ probe[b]
    <3> DEFINE d == [cli EXCEPT !.bes = cli.bes \ {b}, !.pc = "join", !.b = b]
    <3>1. d \in Threads /\ d.bes = cli.bes \ {b} /\ d.v = v /\ d.todo = cli.todo /\ d.pc = "join" /\ d.b = b
      BY <1>1, <1>3 DEF Threads
    <3>2. cli' = d
      BY <2>1 DEF VRT_fini_dir
    <3> HIDE DEF d
    <3> QED  BY <2>1, <3>1, <3>2
  <2>2. CASE ~ (ref[b] = 1 /\ probe[b])
    <3> DEFINE d == [cli EXCEPT !.bes = cli.bes \ {b}]
    <3>1. d \in Threads /\ d.bes = cli.bes \ {b} /\ d.v = v /\ d.todo = cli.todo /\ d.pc = "fini"
      BY <1>1, <1>2, <1>3 DEF Threads
    <3>2. cli' = d
      BY <2>2 DEF VRT_fini_dir
    <3> HIDE DEF d
    <3> QED  BY <2>2, <3>1, <3>2
  <2> QED  BY <2>1, <2>2
<1>10. \A x \in Backends : /\ x # b => ref'[x] = ref[x] /\ idle'[x] = idle[x]
                           /\ ref'[b] = ref[b] - 1 /\ idle'[b] = (IF ref[b] = 1 THEN 0 ELSE idle[b])
                           /\ idle[x] \in Nat /\ idle'[x] <= idle[x]
  BY <1>1, <1>2 DEF BackendTypeOK
<1>11. /\ be' \in [Backends -> BOOLEAN] /\ nConn' \in [Backends -> Nat] /\ healthy' \in [Backends -> BOOLEAN]
       /\ stop' \in [Backends -> BOOLEAN] /\ happy' \in [Backends -> [1 .. Window -> BOOLEAN]]
       /\ \A x \in Backends :
            /\ x # b => (be'[x] <=> be[x]) /\ (stop'[x] <=> stop[x])
            /\ nConn'[x] <= nConn[x] /\ (x # b \/ ref[b] # 1 => nConn'[x] = nConn[x])
       /\ be'[b] <=> be[b] /\ (ref[b] # 1 \/ probe[b])
       /\ ref[b] # 1 => (stop'[b] <=> stop[b])
  <2>1. CASE ref[b] = 1 /\ probe[b]
    <3>1. stop' = [stop EXCEPT ![b] = TRUE] /\ UNCHANGED <<be, nConn, healthy, happy>>
      BY <2>1 DEF VRT_fini_dir
    <3>2. \A x \in Backends : nConn[x] <= nConn[x] /\ (x # b => (stop'[x] <=> stop[x]))
      <4>1. \A x \in Backends : nConn[x] \in Nat
        BY <1>1 DEF BackendTypeOK
      <4>2. \A x \in Backends : x # b => (stop'[x] <=> stop[x])
        BY <1>1, <3>1, Zenon DEF BackendTypeOK
      <4> QED  BY <4>1, <4>2
    <3>3. stop' \in [Backends -> BOOLEAN]
      BY <1>1, <3>1 DEF BackendTypeOK
    <3> QED  BY <1>1, <2>1, <3>1, <3>2, <3>3 DEF BackendTypeOK
  <2>2. CASE ~ (ref[b] = 1 /\ probe[b])
    <3>1. PICK S : S = IF ref[b] = 1 THEN {b} ELSE {}
      OBVIOUS
    <3>2. Nuked(S)
      BY <2>2, <3>1 DEF VRT_fini_dir
    <3>3. /\ \A x \in Backends : x # b => x \notin S
          /\ b \in S <=> ref[b] = 1
      BY <3>1
    <3> QED  BY <1>1, <2>2, <3>2, <3>3, NukedIs
  <2> QED  BY <2>1, <2>2
<1>12. BackendTypeOK'
  <2>1. ref' \in [Backends -> Nat] /\ idle' \in [Backends -> Nat]
    BY <1>1, <1>2, <1>7 DEF BackendTypeOK
  <2>2. UNCHANGED <<vcl, active, busy, started, probe, poller, pc, uvcl, ube, raced>> /\ failed' = FALSE
    BY <1>2, <1>8 DEF vclVars, userVars
  <2>3. cli' \in Threads
    BY <1>9
  <2> QED  BY <1>1, <1>11, <2>1, <2>2, <2>3 DEF BackendTypeOK, Threads
<1>13. \A x \in Backends : Connects(x)' = Connects(x) /\ (x # b => Directs(x)' = Directs(x))
  BY <1>2, <1>3, <1>9 DEF Connects, Directs, vclVars, userVars
<1>14. Directs(b)' = Directs(b) \ {v}
  BY <1>2, <1>3, <1>9 DEF Directs, vclVars
<1>15. Cardinality(Directs(b)') = Cardinality(Directs(b)) - 1
  BY <1>4, <1>14, Counted, FS_RemoveElement
<1>16. ThreadOK'
  <2>1. c.pc = "join" => c.b = b /\ be'[b] /\ ref'[b] = 0
    BY <1>7, <1>9, <1>10, <1>11
  <2>2. vcl' = vcl /\ \A x \in c.todo : vcl[x] = "discarded"
    BY <1>1, <1>2, <1>9 DEF Strong, ThreadOK, vclVars
  <2>3. c.bes \subseteq Uses[v] /\ c.pc \in {"fini", "join"}
    BY <1>1, <1>2, <1>3, <1>9 DEF Strong, ThreadOK
  <2> QED  BY <2>1, <2>2, <2>3, <1>3, <1>9 DEF ThreadOK
<1>17. ConnExact'
  <2> SUFFICES ASSUME NEW x \in Backends, ref'[x] > 0
               PROVE  nConn'[x] = idle'[x] + Cardinality(Connects(x)')
    BY DEF ConnExact
  <2>1. x # b \/ ref[b] # 1
    BY <1>7, <1>10
  <2>2. ref[x] > 0 /\ idle'[x] = idle[x] /\ nConn'[x] = nConn[x]
    BY <2>1, <1>7, <1>10, <1>11
  <2> QED  BY <2>2, <1>1, <1>13 DEF ConnExact
<1>18. ASSUME NEW x \in Backends PROVE RefOK(x)' /\ Owned(x)'
  <2>1. RefOK(x) /\ Owned(x)
    BY <1>1 DEF Strong
  <2>2. CASE x = b
    <3>1. RefOK(b)'
      BY <1>5, <1>6, <1>10, <1>13, <1>15 DEF RefOK
    <3>2. CASE ref[b] = 1 /\ probe[b]
      <4>1. ref'[b] = 0 /\ be'[b] /\ c.pc = "join" /\ c.b = b /\ probe' = probe /\ poller' = poller
        BY <3>2, <1>2, <1>7, <1>9, <1>10, <1>11
      <4> QED  BY <4>1, <2>1, <2>2, <3>1, <3>2, <1>7, <1>9 DEF Owned
    <3>3. CASE ref[b] = 1 /\ ~ probe[b]
      <4>1. ref'[b] = 0 /\ ~ be'[b] /\ probe' = probe /\ poller' = poller
        BY <3>3, <1>2, <1>7, <1>10, <1>11
      <4> QED  BY <4>1, <2>1, <2>2, <3>1, <3>3 DEF Owned
    <3>4. CASE ref[b] # 1
      <4>1. ref'[b] > 0 /\ be'[b] /\ probe' = probe /\ poller' = poller /\ (stop'[b] <=> stop[b])
        BY <3>4, <1>2, <1>7, <1>10, <1>11
      <4> QED  BY <4>1, <2>1, <2>2, <3>1, <1>7 DEF Owned
    <3> QED  BY <3>2, <3>3, <3>4, <2>2
  <2>3. CASE x # b
    <3>1. RefOK(x)'
      BY <2>1, <2>3, <1>10, <1>13 DEF RefOK
    <3>2. /\ (be'[x] <=> be[x]) /\ (stop'[x] <=> stop[x]) /\ ref'[x] = ref[x]
          /\ probe' = probe /\ poller' = poller /\ c.pc \in {"fini", "join"}
      BY <2>3, <1>2, <1>9, <1>10, <1>11
    <3>3. Owned(x)'
      BY <3>2, <2>1, <1>2, <1>9 DEF Owned
    <3> QED  BY <3>1, <3>3
  <2> QED  BY <2>2, <2>3
<1>19. c.pc \notin {"init", "add"}
  BY <1>9
<1> QED  BY <1>2, <1>8, <1>9, <1>10, <1>11, <1>12, <1>16, <1>17, <1>18, <1>19, CliMoves

\* VBE_AddBackend makes a new struct: nobody has a pointer to it yet.
LEMMA CliCreates ==
  ASSUME BackendAssumption, BInv, ~ raced, ~ failed, NEW b \in Backends, NewBackend(b)
  PROVE  BInv'
<1>1. BackendTypeOK /\ Strong /\ ConnExact /\ cli \in Threads
  BY DEF BInv, BackendTypeOK, Threads
<1>2. /\ UNCHANGED <<vclVars, userVars, failed, raced>>
      /\ cli.pc = "init" /\ b \in cli.bes /\ ~ be[b]
      /\ be' = [be EXCEPT ![b] = TRUE] /\ ref' = [ref EXCEPT ![b] = 1]
      /\ nConn' = [nConn EXCEPT ![b] = 0] /\ idle' = [idle EXCEPT ![b] = 0] /\ VBP_Start(b)
  BY DEF NewBackend
<1>3. PICK v \in Vcls : v = cli.v /\ b \in Uses[v] /\ vcl[v] = "loaded"
  BY <1>1, <1>2 DEF Strong, ThreadOK
<1>4. \A x \in Vcls : vcl[x] # "fini"
  BY <1>1, <1>2 DEF Strong, ThreadOK
<1>5. PICK c \in Threads : cli' = c /\ c.bes = cli.bes \ {b} /\ c.v = v /\ c.pc = "init"
  <2> DEFINE d == [cli EXCEPT !.bes = cli.bes \ {b}]
  <2>1. d \in Threads /\ d.bes = cli.bes \ {b} /\ d.v = v /\ d.pc = "init"
    BY <1>1, <1>2, <1>3 DEF Threads
  <2>2. cli' = d
    BY DEF NewBackend
  <2> HIDE DEF d
  <2> QED  BY <2>1, <2>2
<1>6. Cardinality(Directs(b)) = 0 /\ Cardinality(Connects(b)) = 0 /\ Directs(b) = {}
  <2>1. ref[b] = 0 /\ RefOK(b)
    BY <1>1, <1>2 DEF Strong, Owned
  <2>2. /\ Cardinality(Directs(b)) \in Nat /\ Cardinality(Connects(b)) \in Nat /\ IsFiniteSet(Directs(b))
        /\ Cardinality(Directs(b)) + Cardinality(Connects(b)) = 0
    BY <2>1, Counted DEF RefOK
  <2>3. Cardinality(Directs(b)) = 0 /\ Cardinality(Connects(b)) = 0
    BY <2>2
  <2> QED  BY <2>2, <2>3, FS_EmptySet
<1>7. /\ healthy' \in [Backends -> BOOLEAN] /\ probe' \in [Backends -> BOOLEAN] /\ stop' \in [Backends -> BOOLEAN]
      /\ poller' \in [Backends -> {"none", "start", "poll"}]
      /\ happy' \in [Backends -> [1 .. Window -> BOOLEAN]]
  <2>1. healthy' \in [Backends -> BOOLEAN]
    BY <1>1, <1>2 DEF VBP_Start, BackendTypeOK
  <2>2. probe' \in [Backends -> BOOLEAN]
    BY <1>1, <1>2 DEF VBP_Start, BackendTypeOK
  <2>3. stop' \in [Backends -> BOOLEAN] /\ poller' \in [Backends -> {"none", "start", "poll"}]
    BY <1>1, <1>2 DEF VBP_Start, BackendTypeOK
  <2>4. happy' \in [Backends -> [1 .. Window -> BOOLEAN]]
    <3>1. PICK h \in [1 .. Window -> BOOLEAN] : happy' = [happy EXCEPT ![b] = h]
      BY <1>2 DEF VBP_Start
    <3> QED  BY <1>1, <3>1 DEF BackendTypeOK
  <2> QED  BY <2>1, <2>2, <2>3, <2>4
<1>8. BackendTypeOK'
  <2>1. be' \in [Backends -> BOOLEAN] /\ ref' \in [Backends -> Nat] /\ nConn' \in [Backends -> Nat]
        /\ idle' \in [Backends -> Nat]
    BY <1>1, <1>2 DEF BackendTypeOK
  <2>2. UNCHANGED <<vcl, active, busy, started, pc, uvcl, ube, failed, raced>> /\ cli' \in Threads
    BY <1>2, <1>5 DEF vclVars, userVars
  <2> QED  BY <1>1, <1>7, <2>1, <2>2 DEF BackendTypeOK, Threads
<1>9. /\ ref'[b] = 1 /\ nConn'[b] = 0 /\ idle'[b] = 0 /\ be'[b] /\ ~ stop'[b]
      /\ probe'[b] <=> b \in Probed
      /\ poller'[b] = IF b \in Probed THEN "start" ELSE "none"
  <2>1. probe'[b] = (b \in Probed)
    BY <1>1, <1>2, Zenon DEF VBP_Start, BackendTypeOK
  <2>2. ref'[b] = 1 /\ nConn'[b] = 0 /\ idle'[b] = 0 /\ be'[b] /\ ~ stop'[b]
    BY <1>1, <1>2 DEF VBP_Start, BackendTypeOK
  <2>3. poller'[b] = IF b \in Probed THEN "start" ELSE "none"
    BY <1>1, <1>2 DEF VBP_Start, BackendTypeOK
  <2> QED  BY <2>1, <2>2, <2>3
<1>10. \A x \in Backends : x # b =>
         /\ ref'[x] = ref[x] /\ nConn'[x] = nConn[x] /\ idle'[x] = idle[x] /\ poller'[x] = poller[x]
         /\ (be'[x] <=> be[x]) /\ (probe'[x] <=> probe[x]) /\ (stop'[x] <=> stop[x])
  <2>1. \A x \in Backends : x # b =>
          /\ ref'[x] = ref[x] /\ nConn'[x] = nConn[x] /\ idle'[x] = idle[x] /\ poller'[x] = poller[x]
    BY <1>1, <1>2 DEF VBP_Start, BackendTypeOK
  <2>2. \A x \in Backends : x # b =>
         /\ (be'[x] <=> be[x]) /\ (probe'[x] <=> probe[x]) /\ (stop'[x] <=> stop[x])
    BY <1>1, <1>2, Zenon DEF VBP_Start, BackendTypeOK
  <2> QED  BY <2>1, <2>2
<1>11. ThreadOK'
  <2>1. c.bes \subseteq Uses[v] /\ vcl' = vcl
    BY <1>1, <1>2, <1>3, <1>5 DEF Strong, ThreadOK, vclVars
  <2> QED  BY <2>1, <1>3, <1>4, <1>5 DEF ThreadOK
<1>12. \A x \in Backends : Connects(x)' = Connects(x) /\ (x # b => Directs(x)' = Directs(x))
  BY <1>2, <1>3, <1>4, <1>5 DEF Connects, Directs, vclVars, userVars
<1>13. Directs(b)' = {v}
  <2>1. \A x \in Vcls : x \in Directs(b)' <=> x = v
    <3>1. v \in Directs(b)'
      BY <1>2, <1>3, <1>5 DEF Directs, vclVars
    <3>2. ASSUME NEW x \in Vcls, x # v, x \in Directs(b)' PROVE FALSE
      <4>1. x \in Directs(b)
        BY <3>2, <1>2, <1>3, <1>4 DEF Directs, vclVars
      <4> QED  BY <4>1, <1>6
    <3> QED  BY <3>1, <3>2
  <2>2. Directs(b)' \subseteq Vcls
    BY DEF Directs
  <2> QED  BY <2>1, <2>2
<1>14. ConnExact'
  <2> SUFFICES ASSUME NEW x \in Backends, ref'[x] > 0
               PROVE  nConn'[x] = idle'[x] + Cardinality(Connects(x)')
    BY DEF ConnExact
  <2>1. CASE x = b
    BY <2>1, <1>6, <1>9, <1>12
  <2>2. CASE x # b
    BY <2>2, <1>1, <1>10, <1>12 DEF ConnExact
  <2> QED  BY <2>1, <2>2
<1>15. ASSUME NEW x \in Backends PROVE RefOK(x)' /\ Owned(x)' /\ idle'[x] <= idle[x] /\ nConn'[x] <= nConn[x]
  <2>1. RefOK(x) /\ Owned(x) /\ idle[x] \in Nat /\ nConn[x] \in Nat
    BY <1>1 DEF Strong, BackendTypeOK
  <2>2. CASE x = b
    <3>1. Cardinality({v}) = 1
      BY FS_Singleton
    <3>2. RefOK(b)'
      BY <3>1, <1>6, <1>9, <1>12, <1>13 DEF RefOK
    <3>3. Owned(b)'
      BY <1>9 DEF Owned
    <3> QED  BY <2>1, <2>2, <3>2, <3>3, <1>9
  <2>3. CASE x # b
    <3>1. RefOK(x)'
      BY <2>1, <2>3, <1>10, <1>12 DEF RefOK
    <3>2. be[x] => ref[x] # 0
      BY <2>1, <1>2 DEF Owned
    <3>3. Owned(x)'
      BY <2>1, <2>3, <3>2, <1>10 DEF Owned
    <3> QED  BY <2>1, <2>3, <3>1, <3>3, <1>10
  <2> QED  BY <2>2, <2>3
<1>16. failed' = FALSE
  BY <1>1, <1>2 DEF BackendTypeOK
<1> QED  BY <1>2, <1>3, <1>5, <1>8, <1>11, <1>14, <1>15, <1>16, CliMoves

\* VBE_AddBackend writes the counter back.  Nothing but that counter is wrong
\* when it has changed meanwhile.
LEMMA CliAdded ==
  ASSUME BackendAssumption, BInv, ~ raced, ~ failed, AddedBackend
  PROVE  BInv'
<1>1. BackendTypeOK /\ Strong /\ ConnExact /\ ConnBound /\ VclBusyExact /\ NoPanic /\ cli \in Threads
  BY DEF BInv, BackendTypeOK, Threads
<1>2. UNCHANGED <<vclVars, be, nConn, idle, probeVars, userVars, failed>> /\ cli.pc = "add"
  BY DEF AddedBackend
<1>3. PICK b \in Backends : b = cli.b /\ b \in cli.bes /\ be[b]
  BY <1>1, <1>2 DEF Strong, ThreadOK, Threads
<1>4. /\ ref' = [ref EXCEPT ![b] = cli.tmp + 1] /\ raced' = (ref[b] # cli.tmp)
      /\ cli.tmp \in Nat /\ ref[b] \in Nat
  BY <1>1, <1>3 DEF AddedBackend, Threads, BackendTypeOK
<1>5. PICK v \in Vcls : v = cli.v /\ b \in Uses[v] /\ vcl[v] = "loaded"
  BY <1>1, <1>2, <1>3 DEF Strong, ThreadOK
<1>6. \A x \in Vcls : vcl[x] # "fini"
  BY <1>1, <1>2 DEF Strong, ThreadOK
<1>7. PICK c \in Threads : cli' = c /\ c.bes = cli.bes \ {b} /\ c.v = v /\ c.pc = "init"
  <2> DEFINE d == [cli EXCEPT !.pc = "init", !.bes = cli.bes \ {cli.b}, !.b = None, !.tmp = 0]
  <2>1. d \in Threads /\ d.bes = cli.bes \ {b} /\ d.v = v /\ d.pc = "init"
    BY <1>1, <1>3, <1>5 DEF Threads
  <2>2. cli' = d
    BY DEF AddedBackend
  <2> HIDE DEF d
  <2> QED  BY <2>1, <2>2
<1>8. ref[b] > 0 /\ \A x \in Backends : be[x] => ref[x] # 0
  <2>1. \A x \in Backends : be[x] => ref[x] # 0
    BY <1>1, <1>2 DEF Strong, Owned
  <2> QED  BY <2>1, <1>3, <1>4
<1>9. \A x \in Backends : ref'[x] = IF x = b THEN cli.tmp + 1 ELSE ref[x]
  BY <1>1, <1>4 DEF BackendTypeOK
<1>10. BackendTypeOK'
  <2>1. ref' \in [Backends -> Nat]
    BY <1>1, <1>4 DEF BackendTypeOK
  <2>2. raced' \in BOOLEAN
    <3>1. (ref[b] # cli.tmp) \in BOOLEAN
      OBVIOUS
    <3> QED  BY <3>1, <1>4, Zenon
  <2>3. /\ UNCHANGED <<vcl, active, busy, started, be, nConn, idle, healthy, probe, stop, poller, happy>>
        /\ UNCHANGED <<pc, uvcl, ube, failed>> /\ cli' \in Threads
    BY <1>2, <1>7 DEF vclVars, probeVars, userVars
  <2> QED  BY <1>1, <2>1, <2>2, <2>3 DEF BackendTypeOK, Threads
<1>11. \A x \in Backends : Connects(x)' = Connects(x) /\ Engaged(x)' = Engaged(x)
  BY <1>2 DEF Connects, Engaged, userVars
<1>12. VclBusyExact' /\ ConnBound' /\ NoPanic'
  BY <1>1, <1>2 DEF VclBusyExact, ConnBound, NoPanic, vclVars, userVars
<1>13. ConnExact'
  <2> SUFFICES ASSUME NEW x \in Backends, ref'[x] > 0
               PROVE  nConn'[x] = idle'[x] + Cardinality(Connects(x)')
    BY DEF ConnExact
  <2>1. ref[x] > 0
    BY <1>8, <1>9
  <2> QED  BY <2>1, <1>1, <1>2, <1>11 DEF ConnExact
<1>14. ASSUME ~ raced' PROVE Strong'
  <2>1. cli.tmp = ref[b]
    <3>1. CASE ref[b] # cli.tmp
      <4>1. raced' = TRUE
        BY <3>1, <1>4
      <4> QED  BY <4>1, <1>14
    <3> QED  BY <3>1
  <2>2. UsersOK' /\ ProgramsOK'
    BY <1>1, <1>2, <1>5, <1>7 DEF Strong, UsersOK, ProgramsOK, vclVars, userVars
  <2>3. ThreadOK'
    <3>1. c.bes \subseteq Uses[v] /\ vcl' = vcl
      BY <1>1, <1>2, <1>5, <1>7 DEF Strong, ThreadOK, vclVars
    <3> QED  BY <3>1, <1>5, <1>6, <1>7 DEF ThreadOK
  <2>4. \A x \in Backends : x # b => Directs(x)' = Directs(x)
    BY <1>2, <1>5, <1>6, <1>7 DEF Directs, vclVars
  <2>5. Directs(b)' = Directs(b) \cup {v} /\ v \notin Directs(b)
    <3>1. v \notin Directs(b)
      BY <1>2, <1>3, <1>5, <1>6 DEF Directs
    <3>2. v \in Directs(b)'
      BY <1>2, <1>5, <1>7 DEF Directs, vclVars
    <3>3. ASSUME NEW x \in Vcls, x # v PROVE x \in Directs(b)' <=> x \in Directs(b)
      BY <3>3, <1>2, <1>5, <1>6, <1>7 DEF Directs, vclVars
    <3>4. Directs(b) \subseteq Vcls /\ Directs(b)' \subseteq Vcls
      BY DEF Directs
    <3> QED  BY <3>1, <3>2, <3>3, <3>4
  <2>6. Cardinality(Directs(b)') = Cardinality(Directs(b)) + 1
    BY <2>5, Counted, FS_AddElement
  <2>7. ASSUME NEW x \in Backends PROVE (RefOK(x) /\ Owned(x) /\ Bounded(x))'
    <3>1. RefOK(x) /\ Owned(x) /\ Bounded(x)
      BY <1>1 DEF Strong
    <3>2. Bounded(x)'
      BY <3>1, <1>2, <1>11 DEF Bounded
    <3>3. RefOK(x)'
      <4>1. CASE x = b
        <5>1. Cardinality(Directs(b)) \in Nat /\ Cardinality(Connects(b)) \in Nat
          BY Counted
        <5>2. ref'[b] = (Cardinality(Directs(b)) + 1) + Cardinality(Connects(b))
          BY <3>1, <4>1, <5>1, <2>1, <1>9 DEF RefOK
        <5> QED  BY <4>1, <5>2, <2>6, <1>11 DEF RefOK
      <4>2. CASE x # b
        BY <3>1, <4>2, <2>4, <1>9, <1>11 DEF RefOK
      <4> QED  BY <4>1, <4>2
    <3>4. Owned(x)'
      <4>1. ref'[x] > 0 <=> ref[x] > 0
        BY <1>4, <1>8, <1>9
      <4>2. ref'[x] = 0 <=> ref[x] = 0
        BY <1>4, <1>8, <1>9
      <4> QED  BY <3>1, <4>1, <4>2, <1>2, <1>8 DEF Owned, probeVars
    <3> QED  BY <3>2, <3>3, <3>4
  <2> QED  BY <2>2, <2>3, <2>7 DEF Strong
<1> QED  BY <1>10, <1>12, <1>13, <1>14 DEF BInv

-----------------------------------------------------------------------------
(* The theorems *)

\* A child starts without programs and backends.
LEMMA InitIInv ==
  ASSUME BackendAssumption, BackendInit
  PROVE  BInv
<1>1. BackendTypeOK
  <2>1. CliIdle \in Threads
    BY IdleThread
  <2>2. /\ be \in [Backends -> BOOLEAN] /\ healthy \in [Backends -> BOOLEAN] /\ probe \in [Backends -> BOOLEAN]
        /\ stop \in [Backends -> BOOLEAN] /\ happy \in [Backends -> [1 .. Window -> BOOLEAN]]
    BY DEF BackendInit
  <2>3. /\ vcl \in [Vcls -> {"free", "loaded", "discarded", "fini"}] /\ active \in Vcls \cup {None}
        /\ busy \in [Vcls -> Nat] /\ started \in BOOLEAN
        /\ ref \in [Backends -> Nat] /\ nConn \in [Backends -> Nat] /\ idle \in [Backends -> Nat]
        /\ poller \in [Backends -> {"none", "start", "poll"}]
    BY DEF BackendInit
  <2>4. /\ pc \in [Users -> {"idle", "run", "getvbe", "healthy", "try"} \cup Connected]
        /\ uvcl \in [Users -> Vcls \cup {None}] /\ ube \in [Users -> Backends \cup {None}]
        /\ failed \in BOOLEAN /\ raced \in BOOLEAN
    BY DEF BackendInit
  <2>5. cli \in Threads
    BY <2>1 DEF BackendInit
  <2> QED  BY <2>2, <2>3, <2>4, <2>5 DEF BackendTypeOK, Threads
<1>2. /\ \A u \in Users : pc[u] = "idle" /\ uvcl[u] = None /\ ube[u] = None
      /\ \A v \in Vcls : vcl[v] = "free" /\ busy[v] = 0
      /\ \A b \in Backends : /\ ref[b] = 0 /\ nConn[b] = 0 /\ idle[b] = 0 /\ poller[b] = "none"
                             /\ ~ be[b] /\ ~ probe[b] /\ ~ stop[b]
      /\ active = None /\ ~ started /\ cli = CliIdle /\ ~ failed /\ ~ raced
  BY DEF BackendInit
<1>3. VclBusyExact
  <2>1. DOMAIN uvcl = Users /\ IsFiniteSet(Users) /\ None \notin Vcls
    BY <1>1, Consts DEF BackendTypeOK
  <2>2. \A v \in Vcls : Count(uvcl, v) = 0
    BY <2>1, <1>2, CountZero
  <2> QED  BY <2>2, <1>2 DEF VclBusyExact
<1>4. ASSUME NEW b \in Backends
      PROVE  Cardinality(Directs(b)) = 0 /\ Cardinality(Connects(b)) = 0 /\ Cardinality(Engaged(b)) = 0
  <2>1. Directs(b) = {}
    BY <1>2 DEF Directs
  <2>2. Connects(b) = {} /\ Engaged(b) = {}
    BY <1>2, Consts DEF Connects, Engaged
  <2> QED  BY <2>1, <2>2, FS_EmptySet
<1>5. ConnExact /\ ConnBound /\ NoPanic
  BY <1>2, Consts DEF ConnExact, ConnBound, NoPanic
<1>6. UsersOK
  BY <1>2, Consts DEF UsersOK
<1>7. ProgramsOK /\ ThreadOK
  BY <1>2, IdleThread DEF ProgramsOK, ThreadOK
<1>8. ASSUME NEW b \in Backends PROVE RefOK(b) /\ Owned(b) /\ Bounded(b)
  <2>1. RefOK(b) /\ Bounded(b)
    BY <1>2, <1>4, Consts DEF RefOK, Bounded
  <2>2. Owned(b)
    BY <1>2 DEF Owned
  <2> QED  BY <2>1, <2>2
<1> QED  BY <1>1, <1>3, <1>5, <1>6, <1>7, <1>8 DEF BInv, Strong

\* Every step keeps the invariant.
LEMMA NextIInv ==
  ASSUME BackendAssumption, BInv, [BackendNext]_backendVars
  PROVE  BInv'
<1>1. CASE UNCHANGED backendVars
  <2>1. \A b \in Backends : Directs(b)' = Directs(b) /\ Connects(b)' = Connects(b) /\ Engaged(b)' = Engaged(b)
    BY <1>1 DEF backendVars, vclVars, userVars, Directs, Connects, Engaged
  <2>2. (BackendTypeOK /\ VclBusyExact /\ NoPanic /\ ConnBound)'
    BY <1>1 DEF BInv, backendVars, vclVars, connVars, probeVars, userVars, BackendTypeOK, VclBusyExact, NoPanic, ConnBound
  <2>3. ConnExact'
    BY <1>1, <2>1 DEF BInv, backendVars, connVars, ConnExact
  <2>4. ASSUME Strong PROVE (UsersOK /\ ProgramsOK /\ ThreadOK)'
    BY <1>1, <2>4 DEF backendVars, vclVars, connVars, userVars, Strong, UsersOK, ProgramsOK, ThreadOK
  <2>5. ASSUME Strong, NEW b \in Backends PROVE (RefOK(b) /\ Owned(b) /\ Bounded(b))'
    BY <1>1, <2>1, <2>5 DEF backendVars, connVars, probeVars, Strong, RefOK, Owned, Bounded
  <2>6. raced' = raced
    BY <1>1 DEF backendVars
  <2> QED  BY <2>2, <2>3, <2>4, <2>5, <2>6 DEF BInv, Strong
<1>2. CASE BackendNext
  <2>1. ~ failed /\ ~ raced
    BY <1>2 DEF BackendNext, Intact
  <2>2. ASSUME NEW u \in Users, VCL_Refresh(u) PROVE BInv'
    <3>1. pc[u] = "idle" /\ uvcl[u] # None /\ VCL_Rel(u)
          /\ UNCHANGED <<vcl, active, started, be, connVars, probeVars, pc, ube, cli, raced>>
      BY <2>2 DEF VCL_Refresh
    <3> QED  BY <2>1, <3>1, Releases
  <2>3. ASSUME NEW u \in Users, VCL_Get(u) PROVE BInv'
    BY <2>1, <2>3, Gets
  <2>4. ASSUME NEW t \in Workers, ThreadEnds(t) PROVE BInv'
    <3>1. pc[t] = "idle" /\ uvcl[t] # None /\ VCL_Rel(t)
          /\ UNCHANGED <<vcl, active, started, be, connVars, probeVars, pc, ube, cli, raced>>
      BY <2>4 DEF ThreadEnds
    <3>2. t \in Users
      BY Consts
    <3> QED  BY <2>1, <3>1, <3>2, Releases
  <2>5. ASSUME NEW t \in Workers, Fresh(t) \/ Done(t) \/ \E b \in Backends : VBE_GetFd(t, b) PROVE BInv'
    BY <2>1, <2>5, WorkerTurns
  <2>6. ASSUME NEW t \in Workers, ConnStep(t) PROVE BInv'
    <3>1. pc[t] \notin {"idle", "run"}
      BY <2>1, <2>6, ConnStepIs
    <3>2. PICK l \in Labels, i \in Nat : ConnDoes(t, l, i)
      BY <2>1, <2>6, ConnStepIs
    <3> QED  BY <2>1, <3>1, <3>2, ConnMove
  <2>7. ASSUME NEW b \in Backends, PollerStep(b) PROVE BInv'
    BY <2>1, <2>7, PollerKeeps
  <2>8. ASSUME PollStep PROVE BInv'
    <3>1. CASE CbBefore
      BY <2>1, <3>1, CliTurns
    <3>2. CASE \E v \in Vcls : VCL_Poll(v)
      BY <2>1, <3>2, CliPolls
    <3>3. CASE VBE_Poll
      BY <2>1, <3>3, CliSweeps
    <3> QED  BY <2>8, <3>1, <3>2, <3>3 DEF PollStep
  <2>9. ASSUME NukeStep PROVE BInv'
    <3>1. ASSUME NEW b \in Backends, VRT_fini_dir(b) PROVE BInv'
      BY <2>1, <3>1, CliDrops
    <3>2. CASE VBP_Stop
      BY <2>1, <3>2, CliStops
    <3>3. CASE NukeEnds
      BY <2>1, <3>3, CliFrees
    <3> QED  BY <2>9, <3>1, <3>2, <3>3 DEF NukeStep
  <2>10. ASSUME Command PROVE BInv'
    <3>1. CASE OtherCommand \/ ccf_start
      BY <2>1, <3>1, CliTurns
    <3>2. ASSUME NEW v \in Vcls, VCL_Load(v) PROVE BInv'
      BY <2>1, <3>2, CliLoads
    <3>3. ASSUME NEW v \in Vcls, ccf_config_use(v) PROVE BInv'
      BY <2>1, <3>3, CliUses
    <3>4. ASSUME NEW v \in Vcls, ccf_config_discard(v) PROVE BInv'
      BY <2>1, <3>4, CliDiscards
    <3> QED  BY <2>10, <3>1, <3>2, <3>3, <3>4 DEF Command
  <2>11. ASSUME CommandStep PROVE BInv'
    <3>1. ASSUME NEW b \in Backends, NewBackend(b) PROVE BInv'
      BY <2>1, <3>1, CliCreates
    <3>2. ASSUME NEW b \in Backends, AddBackend(b) PROVE BInv'
      BY <2>1, <3>2, CliAdds
    <3>3. CASE AddedBackend
      BY <2>1, <3>3, CliAdded
    <3>4. CASE InitEnds
      BY <2>1, <3>4, CliTurns
    <3>5. CASE DiscardEnds
      BY <2>1, <3>5, CliPolls
    <3> QED  BY <2>11, <3>1, <3>2, <3>3, <3>4, <3>5 DEF CommandStep
  <2> QED  BY <1>2, <2>2, <2>3, <2>4, <2>5, <2>6, <2>7, <2>8, <2>9, <2>10, <2>11 DEF BackendNext, CliStep
<1> QED  BY <1>1, <1>2

\* The inductive invariant holds in every state of the workers, the pollers and
\* the CLI thread.
THEOREM BackendInvariance ==
  ASSUME BackendAssumption
  PROVE  BackendSpec => []BInv
<1>1. BackendInit => BInv
  BY InitIInv
<1>2. BInv /\ [BackendNext]_backendVars => BInv'
  BY NextIInv
<1> QED  BY <1>1, <1>2, PTL DEF BackendSpec

\* conf->busy, b->refcount and b->n_conn are exact, no backend has more
\* connections than there are workers, and no assertion of cache_vcl.c,
\* cache_backend.c and cache_backend_cfg.c fails, however workers, pollers and
\* the CLI thread interleave.
THEOREM BackendTheorem ==
  ASSUME BackendAssumption
  PROVE  BackendSpec => []BackendInv
<1>1. BInv => BackendInv
  BY DEF BInv, BackendInv, BackendRefExact, Strong, RefOK
<1> QED  BY <1>1, BackendInvariance, PTL

\* Whoever has a pointer to a backend (a worker without a reference of its own,
\* a director, the poller) finds it allocated, and a probed backend that a
\* program can use has a running probe.
THEOREM BackendAliveTheorem ==
  ASSUME BackendAssumption
  PROVE  BackendSpec => []BackendAlive
<1>1. BInv => BackendAlive
  <2> SUFFICES ASSUME BInv, ~ raced, NEW b \in Backends
               PROVE  /\ (\E t \in Workers : ube[t] = b) \/ Directs(b) # {} \/ poller[b] # "none" => be[b]
                      /\ b \in Probed /\ Directs(b) # {} => probe[b] /\ ~ stop[b] /\ poller[b] # "none"
    BY DEF BackendAlive, PointersValid, ProbeKept, BackendAssumption
  <2>1. BackendTypeOK /\ Strong /\ ConnExact /\ RefOK(b) /\ Owned(b) /\ ref[b] \in Nat
    BY DEF BInv, Strong, BackendTypeOK
  <2>2. ASSUME NEW t \in Workers, ube[t] = b PROVE be[b]
    <3>1. pc[t] \notin {"idle", "run"}
      BY <2>1, <2>2, Consts DEF Strong, UsersOK
    <3> QED  BY <2>1, <2>2, <3>1, Pinned
  <2>3. ASSUME Directs(b) # {} PROVE ref[b] > 0
    <3>1. PICK v : v \in Directs(b)
      BY <2>3
    <3>2. Cardinality(Directs(b)) \in Nat /\ Cardinality(Directs(b)) >= 1 /\ Cardinality(Connects(b)) \in Nat
      BY <3>1, Counted, CardOne
    <3> QED  BY <2>1, <3>2 DEF RefOK
  <2>4. poller[b] # "none" => be[b]
    BY <2>1 DEF Owned
  <2>5. ref[b] > 0 => be[b] /\ (b \in Probed => probe[b] /\ ~ stop[b] /\ poller[b] # "none")
    BY <2>1 DEF Owned
  <2> QED  BY <2>2, <2>3, <2>4, <2>5
<1> QED  BY <1>1, BackendInvariance, PTL

-----------------------------------------------------------------------------
(* The third part: directors. *)

\* A set of naturals that is not empty has a least element.
LEMMA MinOf ==
  ASSUME NEW S \in SUBSET Nat, S # {}
  PROVE  Min(S) \in S /\ \A y \in S : Min(S) <= y
<1>1. PICK x \in S : \A y \in S : ~ (<<y, x>> \in OpToRel(<, Nat))
  BY NatLessThanWellFounded, WFMin
<1>2. ASSUME NEW y \in S PROVE x <= y
  <2>1. ~ (y < x)
    BY <1>1 DEF OpToRel
  <2> QED  BY <2>1
<1>3. \E z \in S : \A y \in S : z =< y
  BY <1>2
<1> QED  BY <1>3 DEF Min

\* What a loop over the hosts has added up before each of the first m.
Added(S, i) == IF i - 1 \in S THEN Weight[i - 1] ELSE 0
IsSum(f, S, m) ==
  /\ f \in [0 .. m -> Nat] /\ f[0] = 0
  /\ \A i \in 1 .. m : f[i] = f[i - 1] + Added(S, i)

\* A weight is a number.
LEMMA AddedType ==
  ASSUME NEW S \in SUBSET Hosts, NEW i \in 1 .. NHosts
  PROVE  Added(S, i) \in Nat /\ (i - 1 \in S => Added(S, i) > 0)
<1>1. i - 1 \in S => Weight[i - 1] \in Nat \ {0}
  BY DirectorAssumption
<1> QED  BY <1>1 DEF Added

\* The loop can be run for every number of hosts.
LEMMA SumExists ==
  ASSUME NEW S \in SUBSET Hosts, NEW m \in 0 .. NHosts
  PROVE  \E f : IsSum(f, S, m)
<1> DEFINE B == {x \in 0 .. NHosts : ~ \E f : IsSum(f, S, x)}
<1>0. NHosts \in Nat
  BY DirectorAssumption
<1>1. CASE B = {}
  BY <1>1
<1>2. CASE B # {}
  <2>1. PICK x : x = Min(B)
    OBVIOUS
  <2>2. B \in SUBSET Nat
    BY <1>0
  <2>3. x \in B /\ \A y \in B : x <= y
    BY <1>2, <2>1, <2>2, MinOf
  <2>4. x # 0
    <3> DEFINE f == [i \in 0 .. 0 |-> 0]
    <3>1. f \in [0 .. 0 -> Nat] /\ f[0] = 0 /\ 1 .. 0 = {}
      OBVIOUS
    <3>2. IsSum(f, S, 0)
      BY <3>1 DEF IsSum
    <3>3. \E g : IsSum(g, S, 0)
      BY <3>2
    <3> QED  BY <2>3, <3>3
  <2>5. PICK k : k = x - 1
    OBVIOUS
  <2>6. k \in 0 .. NHosts /\ k \in Nat /\ x = k + 1 /\ k \notin B /\ x \in 1 .. NHosts
    BY <1>0, <2>3, <2>4, <2>5
  <2>7. PICK f : IsSum(f, S, k)
    BY <2>6
  <2>8. PICK a \in Nat : a = Added(S, x)
    BY <2>6, AddedType
  <2> DEFINE g == [i \in 0 .. x |-> IF i <= k THEN f[i] ELSE f[k] + a]
  <2>9. f[k] \in Nat
    BY <2>6, <2>7 DEF IsSum
  <2>10. g \in [0 .. x -> Nat] /\ g[0] = 0
    BY <2>6, <2>7, <2>8, <2>9 DEF IsSum
  <2>11. \A i \in 1 .. x : g[i] = g[i - 1] + Added(S, i)
    <3> SUFFICES ASSUME NEW i \in 1 .. x PROVE g[i] = g[i - 1] + Added(S, i)
      OBVIOUS
    <3>1. i \in 0 .. x /\ i - 1 \in 0 .. x /\ i - 1 <= k
      BY <2>6
    <3>2. CASE i = x
      BY <2>6, <2>8, <3>1, <3>2
    <3>3. CASE i # x
      <4>1. i <= k /\ i \in 1 .. k
        BY <2>6, <3>3
      <4>2. f[i] = f[i - 1] + Added(S, i)
        BY <2>7, <4>1 DEF IsSum
      <4> QED  BY <3>1, <4>1, <4>2
    <3> QED  BY <3>2, <3>3
  <2>12. IsSum(g, S, x)
    BY <2>10, <2>11 DEF IsSum
  <2>13. \E h : IsSum(h, S, x)
    BY <2>12
  <2> QED  BY <2>3, <2>13
<1> QED  BY <1>1, <1>2

\* What Sums is.
LEMMA SumsAre ==
  ASSUME NEW S \in SUBSET Hosts
  PROVE  IsSum(Sums(S), S, NHosts)
<1>0. NHosts \in Nat /\ NHosts \in 0 .. NHosts
  BY DirectorAssumption
<1>1. PICK f : IsSum(f, S, NHosts)
  BY <1>0, SumExists
<1>2. f = [i \in 0 .. NHosts |->
             IF i = 0 THEN 0 ELSE f[i - 1] + (IF i - 1 \in S THEN Weight[i - 1] ELSE 0)]
  <2>1. f = [i \in 0 .. NHosts |-> f[i]] /\ f[0] = 0
    BY <1>1 DEF IsSum
  <2>2. ASSUME NEW i \in 0 .. NHosts
        PROVE  f[i] = IF i = 0 THEN 0 ELSE f[i - 1] + (IF i - 1 \in S THEN Weight[i - 1] ELSE 0)
    <3>1. CASE i = 0
      BY <2>1, <3>1
    <3>2. CASE i # 0
      <4>1. i \in 1 .. NHosts
        BY <1>0, <3>2
      <4> QED  BY <1>1, <3>2, <4>1 DEF IsSum, Added
    <3> QED  BY <3>1, <3>2
  <2> QED  BY <2>1, <2>2
<1>3. Sums(S) = [i \in 0 .. NHosts |->
             IF i = 0 THEN 0
             ELSE Sums(S)[i - 1] + (IF i - 1 \in S THEN Weight[i - 1] ELSE 0)]
  BY <1>2 DEF Sums
<1>4. \A i \in 0 .. NHosts : Sums(S)[i] = f[i]
  <2> DEFINE B == {i \in 0 .. NHosts : Sums(S)[i] # f[i]}
  <2>1. CASE B = {}
    BY <2>1
  <2>2. CASE B # {}
    <3>1. PICK x : x = Min(B)
      OBVIOUS
    <3>2. B \in SUBSET Nat
      BY <1>0
    <3>3. x \in B /\ \A y \in B : x <= y
      BY <2>2, <3>1, <3>2, MinOf
    <3>4. x # 0
      BY <1>0, <1>2, <1>3, <3>3
    <3>5. x - 1 \in 0 .. NHosts /\ x - 1 \notin B
      BY <1>0, <3>3, <3>4
    <3>6. Sums(S)[x - 1] = f[x - 1]
      BY <3>5
    <3>7. x \in 0 .. NHosts /\ Sums(S)[x] # f[x]
      BY <3>3
    <3>8. f[x] = f[x - 1] + (IF x - 1 \in S THEN Weight[x - 1] ELSE 0)
      BY <1>2, <3>4, <3>7
    <3>9. Sums(S)[x] = Sums(S)[x - 1] + (IF x - 1 \in S THEN Weight[x - 1] ELSE 0)
      BY <1>3, <3>4, <3>7
    <3> QED  BY <3>6, <3>7, <3>8, <3>9
  <2> QED  BY <2>1, <2>2
<1>5. Sums(S) = f
  BY <1>1, <1>3, <1>4 DEF IsSum
<1> QED  BY <1>1, <1>5

\* Sums only grow.
LEMMA SumGrows ==
  ASSUME NEW S \in SUBSET Hosts, NEW j \in 0 .. NHosts
  PROVE  /\ Sums(S)[j] \in Nat
         /\ \A i \in 0 .. NHosts : j <= i => Sums(S)[j] <= Sums(S)[i]
<1>0. NHosts \in Nat /\ IsSum(Sums(S), S, NHosts)
  BY DirectorAssumption, SumsAre
<1>1. PICK f : f = Sums(S)
  OBVIOUS
<1>2. f \in [0 .. NHosts -> Nat] /\ \A i \in 1 .. NHosts : f[i] = f[i - 1] + Added(S, i)
  BY <1>0, <1>1 DEF IsSum
<1>3. \A i \in 1 .. NHosts : f[i - 1] <= f[i]
  <2> SUFFICES ASSUME NEW i \in 1 .. NHosts PROVE f[i - 1] <= f[i]
    OBVIOUS
  <2>1. PICK a \in Nat : a = Added(S, i)
    BY AddedType
  <2>2. f[i] \in Nat /\ f[i - 1] \in Nat
    BY <1>0, <1>2
  <2> QED  BY <1>2, <2>1, <2>2
<1> DEFINE B == {i \in 0 .. NHosts : j <= i /\ ~ (f[j] <= f[i])}
<1>4. CASE B = {}
  BY <1>1, <1>2, <1>4
<1>5. CASE B # {}
  <2>1. PICK x : x = Min(B)
    OBVIOUS
  <2>2. B \in SUBSET Nat
    BY <1>0
  <2>3. x \in B /\ \A y \in B : x <= y
    BY <1>5, <2>1, <2>2, MinOf
  <2>4. x # j
    BY <1>2, <2>3
  <2>5. x - 1 \in 0 .. NHosts /\ x \in 1 .. NHosts /\ j <= x - 1 /\ x - 1 \notin B
    BY <1>0, <2>3, <2>4
  <2>6. f[j] \in Nat /\ f[x] \in Nat /\ f[x - 1] \in Nat
    BY <1>2, <2>3, <2>5
  <2> QED  BY <1>3, <2>3, <2>5, <2>6
<1> QED  BY <1>4, <1>5

\* A fraction of a number is less than all of it.
LEMMA LessThanAll ==
  ASSUME NEW T \in Nat \ {0}, NEW F \in Nat \ {0}, NEW u \in 0 .. F - 1
  PROVE  u * T < F * T /\ u * T \in Nat
<1>1. PICK d \in Nat \ {0} : F = u + d
  <2>1. F - u \in Nat \ {0} /\ F = u + (F - u)
    OBVIOUS
  <2> QED  BY <2>1
<1>2. F * T = u * T + d * T
  BY <1>1
<1>3. d * T > 0 /\ u * T \in Nat /\ d * T \in Nat
  OBVIOUS
<1> QED  BY <1>2, <1>3

\* The loops of vdi_random_getfd choose one of the hosts they look at.
LEMMA ChosenIn ==
  ASSUME NEW S \in SUBSET Hosts, S # {}, NEW u \in 0 .. Fractions - 1
  PROVE  Chosen(u, S) \in S
<1>0. /\ NHosts \in Nat /\ Fractions \in Nat \ {0} /\ IsSum(Sums(S), S, NHosts)
      /\ S \subseteq Nat /\ \A h \in S : h \in 0 .. NHosts - 1
  BY DirectorAssumption, SumsAre DEF Hosts
<1>1. PICK f : f = Sums(S)
  OBVIOUS
<1>2. /\ f \in [0 .. NHosts -> Nat] /\ f[0] = 0
      /\ \A i \in 1 .. NHosts : f[i] = f[i - 1] + Added(S, i)
  BY <1>0, <1>1 DEF IsSum
<1>3. Total(S) = f[NHosts] /\ Total(S) \in Nat \ {0}
  <2>1. PICK h : h \in S
    OBVIOUS
  <2>2. h + 1 \in 1 .. NHosts /\ (h + 1) - 1 = h /\ h \in 0 .. NHosts
    BY <1>0, <2>1
  <2>3. PICK a \in Nat : a = Added(S, h + 1) /\ a > 0
    BY <2>1, <2>2, AddedType
  <2>4. f[h + 1] = f[h] + a
    BY <1>2, <2>2, <2>3
  <2>5. f[h + 1] > 0
    <3>1. f[h] \in Nat
      BY <1>2, <2>2
    <3> QED  BY <2>3, <2>4, <3>1
  <2>6. NHosts \in 0 .. NHosts /\ h + 1 \in 0 .. NHosts /\ h + 1 <= NHosts
    BY <1>0, <2>2
  <2>7. f[h + 1] <= f[NHosts] /\ f[NHosts] \in Nat /\ f[h + 1] \in Nat
    BY <1>1, <2>6, SumGrows
  <2>8. Total(S) = f[NHosts]
    BY <1>1 DEF Total
  <2> QED  BY <2>5, <2>7, <2>8
<1>4. PICK T \in Nat \ {0} : T = Total(S) /\ u * T < Fractions * T /\ u * T \in Nat
  BY <1>0, <1>3, LessThanAll
<1>5. PICK r \in Nat : r = u * T
  BY <1>4
<1> DEFINE B == {i \in 0 .. NHosts : r < Fractions * f[i]}
<1>6. NHosts \in B
  BY <1>0, <1>3, <1>4, <1>5
<1>7. PICK x : x = Min(B)
  OBVIOUS
<1>8. x \in B /\ \A y \in B : x <= y
  <2>1. B \in SUBSET Nat /\ B # {}
    BY <1>0, <1>6
  <2> QED  BY <1>7, <2>1, MinOf
<1>9. x # 0
  <2>1. Fractions * 0 = 0
    BY <1>0
  <2> QED  BY <1>2, <1>5, <1>8, <2>1
<1>10. x - 1 \in 0 .. NHosts /\ x - 1 \notin B /\ x \in 1 .. NHosts
  BY <1>0, <1>8, <1>9
<1>11. x - 1 \in S
  <2> SUFFICES ASSUME x - 1 \notin S PROVE FALSE
    OBVIOUS
  <2>1. Added(S, x) = 0
    BY DEF Added
  <2>2. f[x] = f[x - 1]
    BY <1>2, <1>10, <2>1
  <2> QED  BY <1>8, <1>10, <2>2
<1> DEFINE C == {h \in S : u * Total(S) < Fractions * Sums(S)[h + 1]}
<1>12. x - 1 \in C
  <2>1. (x - 1) + 1 = x
    BY <1>10
  <2> QED  BY <1>1, <1>4, <1>5, <1>8, <1>11, <2>1
<1>13. C \in SUBSET Nat /\ C # {}
  BY <1>0, <1>12
<1>14. Min(C) \in C
  BY <1>13, MinOf
<1> QED  BY <1>14 DEF Chosen

-----------------------------------------------------------------------------
(* Picks. *)

DrawPcs == {"idle", "canonical", "try_canonical", "sum", "try", "got", "none"}
RobinPcs == {"idle", "take", "load", "store", "ask", "got", "none"}

Picks == [pc : DrawPcs \cup RobinPcs, u : 0 .. Fractions - 1,
          cache : [Hosts -> {"unknown", "healthy", "sick"}], k : Nat, host : Hosts, tmp : Hosts]

With(c, v) == {h \in Hosts : c.cache[h] = v}

\* A call of a random or hashing director: every round that failed has found
\* another host sick, and a hashing one has its canonical host, or found it sick.
Drawn(c, kd, rt) ==
  /\ c.pc \in DrawPcs
  /\ c.k <= Cardinality(With(c, "sick"))
  /\ c.pc \in {"try_canonical", "try", "got"} => c.host \in With(c, "healthy")
  /\ c.pc = "try_canonical" => c.host = Chosen(c.u, Hosts)
  /\ kd = "hash" /\ c.pc \in {"sum", "try"} => Chosen(c.u, Hosts) \in With(c, "sick")
  /\ kd = "hash" /\ c.pc = "got" => Chosen(c.u, Hosts) \in {c.host} \cup With(c, "sick")
  /\ c.pc = "none" => With(c, "sick") = Hosts \/ c.k = rt

\* A call of a round-robin director goes at most once around.
Turn(c) == c.pc \in RobinPcs /\ (c.pc \in {"take", "load", "store", "ask"} => c.k < NHosts)

\* The host j places before a, and the one after it.
Back(a, j) == IF j <= a THEN a - j ELSE (a - j) + NHosts
After(a) == IF a + 1 = NHosts THEN 0 ELSE a + 1

\* The k hosts before a have been found sick.
SickBefore(c, a, k) == \A j \in 1 .. k : c.cache[Back(a, j)] = "sick"

\* While nobody else moves next_host, the hosts it has passed are those that the
\* call has looked at.
Robin(c, nh) ==
  /\ c.pc \in {"take", "load", "store"} => SickBefore(c, nh, c.k)
  /\ c.pc \in {"load", "store"} => c.host = nh
  /\ c.pc = "store" => c.tmp = After(nh)
  /\ c.pc = "ask" => nh = After(c.host) /\ SickBefore(c, c.host, c.k)
  /\ c.pc = "none" => With(c, "sick") = Hosts

DirectorInv ==
  /\ kind \in {"random", "hash", "round_robin"} /\ retries \in Nat
  /\ kind = "round_robin" => retries = NHosts
  /\ vbe_healthy \in [Hosts -> BOOLEAN] /\ next_host \in Hosts
  /\ pick \in [Callers -> Picks] /\ moved \in SUBSET Callers
  /\ \A t \in Callers :
       /\ kind # "round_robin" => Drawn(pick[t], kind, retries)
       /\ kind = "round_robin" => Turn(pick[t])
       /\ kind = "round_robin" /\ t \notin moved => Robin(pick[t], next_host)

\* Hosts are numbers from 0 to NHosts - 1.
LEMMA HostFacts ==
  /\ NHosts \in Nat \ {0} /\ Fractions \in Nat \ {0} /\ Hosts = 0 .. NHosts - 1
  /\ 0 \in Hosts /\ 0 \in 0 .. Fractions - 1
  /\ IsFiniteSet(Hosts) /\ Cardinality(Hosts) = NHosts
<1>1. NHosts \in Nat \ {0} /\ Fractions \in Nat \ {0} /\ Hosts = 0 .. NHosts - 1
  BY DirectorAssumption DEF Hosts
<1>2. 0 \in Int /\ NHosts - 1 \in Int /\ ~ (0 > NHosts - 1) /\ (NHosts - 1) - 0 + 1 = NHosts
  BY <1>1
<1>3. IsFiniteSet(0 .. NHosts - 1) /\ Cardinality(0 .. NHosts - 1) = NHosts
  BY <1>2, FS_Interval
<1> QED  BY <1>1, <1>3

\* A step of the call of t that moves next_host for nobody.
LEMMA OneCall ==
  ASSUME DirectorInv, NEW t \in Callers, NEW c \in Picks, Goes(t, c),
         UNCHANGED <<kind, retries, vbe_healthy, next_host>>, moved' \in {moved, moved \ {t}},
         kind # "round_robin" => Drawn(c, kind, retries),
         kind = "round_robin" => Turn(c),
         kind = "round_robin" /\ t \notin moved' => Robin(c, next_host)
  PROVE  DirectorInv'
<1>1. pick' = [pick EXCEPT ![t] = c] /\ pick \in [Callers -> Picks]
  BY DEF Goes, DirectorInv
<1>2. pick' \in [Callers -> Picks] /\ pick'[t] = c /\ \A o \in Callers \ {t} : pick'[o] = pick[o]
  BY <1>1
<1>3. moved' \in SUBSET Callers /\ \A o \in Callers \ {t} : o \in moved' <=> o \in moved
  BY DEF DirectorInv
<1>4. ASSUME NEW o \in Callers
      PROVE  /\ kind # "round_robin" => Drawn(pick'[o], kind, retries)
             /\ kind = "round_robin" => Turn(pick'[o])
             /\ kind = "round_robin" /\ o \notin moved' => Robin(pick'[o], next_host)
  <2>1. CASE o = t
    BY <1>2, <2>1
  <2>2. CASE o # t
    <3>1. pick'[o] = pick[o] /\ (o \in moved' <=> o \in moved)
      BY <1>2, <1>3, <2>2
    <3> QED  BY <3>1 DEF DirectorInv
  <2> QED  BY <2>1, <2>2
<1> QED  BY <1>2, <1>3, <1>4 DEF DirectorInv

\* NoCall is one.
LEMMA Resting == NoCall \in Picks /\ NoCall.pc = "idle" /\ NoCall.k = 0
<1>1. 0 \in Hosts /\ 0 \in 0 .. Fractions - 1
  BY HostFacts
<1> QED  BY <1>1 DEF NoCall, Picks, DrawPcs, RobinPcs

\* The number of hosts found sick.
LEMMA SickCount ==
  ASSUME NEW c \in Picks, NEW v
  PROVE  IsFiniteSet(With(c, v)) /\ Cardinality(With(c, v)) \in Nat /\ With(c, v) \subseteq Hosts
<1>1. With(c, v) \subseteq Hosts /\ IsFiniteSet(Hosts)
  BY HostFacts DEF With
<1> QED  BY <1>1, FS_Subset, FS_CardinalityType

\* One more host found sick.
LEMMA SickMore ==
  ASSUME NEW c \in Picks, NEW d \in Picks, NEW h \in Hosts, c.cache[h] # "sick",
         d.cache = [c.cache EXCEPT ![h] = "sick"]
  PROVE  /\ With(d, "sick") = With(c, "sick") \cup {h}
         /\ Cardinality(With(d, "sick")) = Cardinality(With(c, "sick")) + 1
         /\ Cardinality(With(c, "sick")) \in Nat
<1>1. c.cache \in [Hosts -> {"unknown", "healthy", "sick"}]
  BY DEF Picks
<1>2. With(d, "sick") = With(c, "sick") \cup {h} /\ h \notin With(c, "sick")
  BY <1>1 DEF With
<1>3. IsFiniteSet(With(c, "sick")) /\ Cardinality(With(c, "sick")) \in Nat
  BY SickCount
<1> QED  BY <1>2, <1>3, FS_AddElement

\* vdi_random_cache_healthy: a host is known afterwards, and the others as before.
Asked(c, d, h) ==
  /\ d \in Picks /\ d.pc = c.pc /\ d.u = c.u /\ d.k = c.k /\ d.host = c.host
  /\ d.cache[h] \in {"healthy", "sick"}
  /\ \A g \in Hosts : c.cache[g] # "unknown" => d.cache[g] = c.cache[g]
  /\ Cardinality(With(c, "sick")) <= Cardinality(With(d, "sick"))

\* That is what Ask does.
LEMMA AskIs ==
  ASSUME DirectorInv, NEW c \in Picks, NEW h \in Hosts
  PROVE  Asked(c, Ask(c, h), h)
<1>1. /\ vbe_healthy[h] \in BOOLEAN /\ c.cache \in [Hosts -> {"unknown", "healthy", "sick"}]
  BY DEF DirectorInv, Picks
<1>2. PICK v \in {"unknown", "healthy", "sick"} :
        v = IF c.cache[h] # "unknown" THEN c.cache[h] ELSE IF vbe_healthy[h] THEN "healthy" ELSE "sick"
  BY <1>1
<1>3. v # "unknown" /\ (c.cache[h] # "unknown" => v = c.cache[h])
  BY <1>1, <1>2
<1>4. PICK d : d = Ask(c, h)
  OBVIOUS
<1>5. d = [c EXCEPT !.cache = [c.cache EXCEPT ![h] = v]]
  BY <1>2, <1>4 DEF Ask, Picks
<1>6. /\ d \in Picks /\ d.pc = c.pc /\ d.u = c.u /\ d.k = c.k /\ d.host = c.host
      /\ d.cache = [c.cache EXCEPT ![h] = v]
  BY <1>1, <1>5 DEF Picks
<1>7. d.cache[h] = v /\ \A g \in Hosts : g # h => d.cache[g] = c.cache[g]
  BY <1>1, <1>6
<1>8. With(c, "sick") \subseteq With(d, "sick")
  BY <1>3, <1>7 DEF With
<1>9. Cardinality(With(c, "sick")) <= Cardinality(With(d, "sick"))
  BY <1>6, <1>8, SickCount, FS_Subset
<1> QED  BY <1>3, <1>4, <1>6, <1>7, <1>9 DEF Asked

\* A call of a director that draws, and what is known of it.
LEMMA DrawnFacts ==
  ASSUME DirectorInv, NEW t \in Callers, pick[t].pc \in {"canonical", "try_canonical", "sum", "try"}
  PROVE  /\ kind \in {"random", "hash"} /\ kind # "round_robin" /\ pick[t] \in Picks
         /\ Drawn(pick[t], kind, retries)
<1>1. kind # "round_robin"
  BY DEF DirectorInv, Turn, RobinPcs
<1> QED  BY <1>1 DEF DirectorInv

\* getfd is called.
LEMMA CallStep ==
  ASSUME DirectorInv, NEW t \in Callers, Call(t)
  PROVE  DirectorInv'
<1>1. PICK u \in 0 .. Fractions - 1 :
        Goes(t, [NoCall EXCEPT !.u = u,
                     !.pc = CASE kind = "hash" -> "canonical"
                              [] kind = "random" -> "sum"
                              [] kind = "round_robin" -> "take"])
        /\ (kind # "hash" => u = 0)
  BY DEF Call
<1>2. PICK q \in DrawPcs \cup RobinPcs :
        /\ q = CASE kind = "hash" -> "canonical" [] kind = "random" -> "sum"
                 [] kind = "round_robin" -> "take"
        /\ kind = "hash" => q = "canonical"
        /\ kind = "random" => q = "sum"
        /\ kind = "round_robin" => q = "take"
  <2>1. CASE kind = "hash"  BY <2>1 DEF DrawPcs
  <2>2. CASE kind = "random"  BY <2>2 DEF DrawPcs
  <2>3. CASE kind = "round_robin"  BY <2>3 DEF RobinPcs
  <2> QED  BY <2>1, <2>2, <2>3 DEF DirectorInv
<1>3. PICK c : c = [NoCall EXCEPT !.u = u, !.pc = q]
  OBVIOUS
<1>4. c \in Picks /\ c.pc = q /\ c.u = u /\ c.k = 0 /\ \A h \in Hosts : c.cache[h] = "unknown"
  <2>1. 0 \in Hosts /\ u \in 0 .. Fractions - 1 /\ q \in DrawPcs \cup RobinPcs
    BY HostFacts
  <2> QED  BY <1>3, <2>1 DEF NoCall, Picks
<1>5. Goes(t, c)
  BY <1>1, <1>2, <1>3
<1>6. Cardinality(With(c, "sick")) \in Nat
  BY <1>4, SickCount
<1>7. kind # "round_robin" => Drawn(c, kind, retries)
  BY <1>2, <1>4, <1>6 DEF Drawn, DrawPcs, DirectorInv
<1>8. kind = "round_robin" => Turn(c) /\ Robin(c, next_host)
  BY <1>2, <1>4, HostFacts DEF Turn, Robin, RobinPcs, SickBefore
<1>9. UNCHANGED <<kind, retries, vbe_healthy, next_host>> /\ moved' = moved \ {t}
  BY DEF Call
<1> QED  BY <1>4, <1>5, <1>7, <1>8, <1>9, OneCall

\* The look at the canonical backend.
LEMMA CanonicalStep ==
  ASSUME DirectorInv, NEW t \in Callers, Canonical(t)
  PROVE  DirectorInv'
<1>1. pick[t].pc = "canonical"
  BY DEF Canonical, At
<1>2. /\ kind \in {"random", "hash"} /\ kind # "round_robin" /\ pick[t] \in Picks
      /\ Drawn(pick[t], kind, retries)
  BY <1>1, DrawnFacts
<1>3. PICK h : h = Chosen(pick[t].u, Hosts)
  OBVIOUS
<1>4. h \in Hosts
  <2>1. pick[t].u \in 0 .. Fractions - 1 /\ Hosts # {}
    BY <1>2, HostFacts DEF Picks
  <2> QED  BY <1>3, <2>1, ChosenIn
<1>5. PICK d : d = Ask(pick[t], h)
  OBVIOUS
<1>6. Asked(pick[t], d, h)
  BY <1>2, <1>4, <1>5, AskIs
<1>7. PICK c : c = [d EXCEPT !.host = h,
                      !.pc = IF d.cache[h] = "healthy" THEN "try_canonical" ELSE "sum"]
  OBVIOUS
<1>8. Goes(t, c)
  BY <1>3, <1>5, <1>7 DEF Canonical
<1>9. /\ c \in Picks /\ c.host = h /\ c.u = d.u /\ c.k = d.k /\ c.cache = d.cache
      /\ c.pc = IF d.cache[h] = "healthy" THEN "try_canonical" ELSE "sum"
  BY <1>4, <1>6, <1>7 DEF Picks, DrawPcs, Asked
<1>10. With(c, "sick") = With(d, "sick")
  BY <1>9 DEF With
<1>11. c.k <= Cardinality(With(c, "sick"))
  <2>1. /\ pick[t].k <= Cardinality(With(pick[t], "sick")) /\ pick[t].k \in Nat
        /\ Cardinality(With(pick[t], "sick")) \in Nat /\ Cardinality(With(d, "sick")) \in Nat
    BY <1>2, <1>6, SickCount DEF Drawn, Picks, Asked
  <2> QED  BY <1>6, <1>9, <1>10, <2>1 DEF Asked
<1>12. Drawn(c, kind, retries)
  <2>1. CASE d.cache[h] = "healthy"
    BY <1>3, <1>4, <1>6, <1>9, <1>11, <2>1 DEF Drawn, DrawPcs, Asked, With
  <2>2. CASE d.cache[h] = "sick"
    BY <1>3, <1>4, <1>6, <1>9, <1>11, <2>2 DEF Drawn, DrawPcs, Asked, With
  <2> QED  BY <1>6, <2>1, <2>2 DEF Asked
<1>13. UNCHANGED <<kind, retries, vbe_healthy, next_host>> /\ moved' = moved
  BY DEF Canonical
<1> QED  BY <1>2, <1>8, <1>9, <1>12, <1>13, OneCall

\* The canonical backend gives a connection, or counts as sick.
LEMMA TryCanonicalStep ==
  ASSUME DirectorInv, NEW t \in Callers, TryCanonical(t)
  PROVE  DirectorInv'
<1>1. pick[t].pc = "try_canonical"
  BY DEF TryCanonical, At
<1>2. /\ kind \in {"random", "hash"} /\ kind # "round_robin" /\ pick[t] \in Picks
      /\ Drawn(pick[t], kind, retries)
  BY <1>1, DrawnFacts
<1>3. UNCHANGED <<kind, retries, vbe_healthy, next_host>> /\ moved' = moved
  BY DEF TryCanonical
<1>4. CASE Goes(t, [pick[t] EXCEPT !.pc = "got"])
  <2>1. PICK c : c = [pick[t] EXCEPT !.pc = "got"]
    OBVIOUS
  <2>2. /\ c \in Picks /\ c.host = pick[t].host /\ c.u = pick[t].u /\ c.k = pick[t].k
        /\ c.cache = pick[t].cache /\ c.pc = "got"
    BY <1>2, <2>1 DEF Picks, DrawPcs
  <2>3. With(c, "sick") = With(pick[t], "sick") /\ With(c, "healthy") = With(pick[t], "healthy")
    BY <2>2 DEF With
  <2>4. Drawn(c, kind, retries)
    BY <1>1, <1>2, <2>2, <2>3 DEF Drawn, DrawPcs
  <2> QED  BY <1>2, <1>3, <1>4, <2>1, <2>2, <2>4, OneCall
<1>5. CASE Goes(t, [pick[t] EXCEPT !.pc = "sum", !.cache[pick[t].host] = "sick"])
  <2>0. /\ pick[t].host \in Hosts /\ pick[t].cache[pick[t].host] = "healthy"
        /\ pick[t].host = Chosen(pick[t].u, Hosts)
    BY <1>1, <1>2 DEF Drawn, With
  <2>1. PICK c : c = [pick[t] EXCEPT !.pc = "sum", !.cache[pick[t].host] = "sick"]
    OBVIOUS
  <2>2. /\ c \in Picks /\ c.host = pick[t].host /\ c.u = pick[t].u /\ c.k = pick[t].k
        /\ c.cache = [pick[t].cache EXCEPT ![pick[t].host] = "sick"] /\ c.pc = "sum"
    BY <1>2, <2>0, <2>1 DEF Picks, DrawPcs
  <2>3. /\ With(c, "sick") = With(pick[t], "sick") \cup {pick[t].host}
        /\ Cardinality(With(c, "sick")) = Cardinality(With(pick[t], "sick")) + 1
        /\ Cardinality(With(pick[t], "sick")) \in Nat
    BY <1>2, <2>0, <2>2, SickMore
  <2>4. c.k <= Cardinality(With(c, "sick"))
    BY <1>2, <2>2, <2>3 DEF Drawn, Picks
  <2>5. Drawn(c, kind, retries)
    BY <2>0, <2>2, <2>3, <2>4 DEF Drawn, DrawPcs
  <2> QED  BY <1>2, <1>3, <1>5, <2>1, <2>2, <2>5, OneCall
<1> QED  BY <1>4, <1>5 DEF TryCanonical

\* One more host is asked.
LEMMA SumStep ==
  ASSUME DirectorInv, NEW t \in Callers, Sum1(t)
  PROVE  DirectorInv'
<1>1. pick[t].pc = "sum" /\ Known(t, "unknown") # {}
  BY DEF Sum1, At
<1>2. /\ kind \in {"random", "hash"} /\ kind # "round_robin" /\ pick[t] \in Picks
      /\ Drawn(pick[t], kind, retries)
  BY <1>1, DrawnFacts
<1>3. PICK h : h = Min(Known(t, "unknown"))
  OBVIOUS
<1>4. h \in Hosts
  <2>1. Known(t, "unknown") \in SUBSET Nat /\ Known(t, "unknown") \subseteq Hosts
    BY HostFacts DEF Known
  <2> QED  BY <1>1, <1>3, <2>1, MinOf
<1>5. PICK c : c = Ask(pick[t], h)
  OBVIOUS
<1>6. Asked(pick[t], c, h) /\ Goes(t, c)
  BY <1>2, <1>3, <1>4, <1>5, AskIs DEF Sum1
<1>7. c.k <= Cardinality(With(c, "sick")) /\ c \in Picks /\ c.pc = "sum"
  <2>1. /\ pick[t].k <= Cardinality(With(pick[t], "sick")) /\ pick[t].k \in Nat /\ c \in Picks
        /\ Cardinality(With(pick[t], "sick")) \in Nat /\ Cardinality(With(c, "sick")) \in Nat
    BY <1>2, <1>6, SickCount DEF Drawn, Picks, Asked
  <2> QED  BY <1>1, <1>6, <2>1 DEF Asked
<1>8. With(pick[t], "sick") \subseteq With(c, "sick") /\ c.u = pick[t].u
  BY <1>6 DEF Asked, With
<1>9. Drawn(c, kind, retries)
  BY <1>1, <1>2, <1>7, <1>8 DEF Drawn, DrawPcs
<1>10. UNCHANGED <<kind, retries, vbe_healthy, next_host>> /\ moved' = moved
  BY DEF Sum1
<1> QED  BY <1>2, <1>6, <1>7, <1>9, <1>10, OneCall

\* A healthy host is chosen, or there is none.
LEMMA ChooseStep ==
  ASSUME DirectorInv, NEW t \in Callers, Choose1(t)
  PROVE  DirectorInv'
<1>1. pick[t].pc = "sum" /\ Known(t, "unknown") = {}
  BY DEF Choose1, At
<1>2. /\ kind \in {"random", "hash"} /\ kind # "round_robin" /\ pick[t] \in Picks
      /\ Drawn(pick[t], kind, retries)
  BY <1>1, DrawnFacts
<1>3. UNCHANGED <<kind, retries, vbe_healthy, next_host>> /\ moved' = moved
  BY DEF Choose1
<1>4. CASE Known(t, "healthy") = {}
  <2>1. PICK c : c = [pick[t] EXCEPT !.pc = "none"]
    OBVIOUS
  <2>2. Goes(t, c)
    BY <1>4, <2>1 DEF Choose1
  <2>3. /\ c \in Picks /\ c.host = pick[t].host /\ c.u = pick[t].u /\ c.k = pick[t].k
        /\ c.cache = pick[t].cache /\ c.pc = "none"
    BY <1>2, <2>1 DEF Picks, DrawPcs
  <2>4. With(c, "sick") = With(pick[t], "sick")
    BY <2>3 DEF With
  <2>5. With(c, "sick") = Hosts
    <3>1. pick[t].cache \in [Hosts -> {"unknown", "healthy", "sick"}]
      BY <1>2 DEF Picks
    <3> QED  BY <1>1, <1>4, <2>3, <3>1 DEF With, Known
  <2>6. Drawn(c, kind, retries)
    BY <1>2, <2>3, <2>4, <2>5 DEF Drawn, DrawPcs
  <2> QED  BY <1>2, <1>3, <2>2, <2>3, <2>6, OneCall
<1>5. CASE Known(t, "healthy") # {}
  <2>1. PICK u \in 0 .. Fractions - 1 :
          Goes(t, [pick[t] EXCEPT !.pc = "try", !.host = Chosen(u, Known(t, "healthy"))])
    BY <1>5 DEF Choose1
  <2>2. PICK h : h = Chosen(u, Known(t, "healthy"))
    OBVIOUS
  <2>3. h \in Known(t, "healthy") /\ h \in Hosts
    <3>1. Known(t, "healthy") \in SUBSET Hosts
      BY DEF Known
    <3>2. h \in Known(t, "healthy")
      BY <1>5, <2>2, <3>1, ChosenIn
    <3> QED  BY <3>1, <3>2
  <2>4. PICK c : c = [pick[t] EXCEPT !.pc = "try", !.host = h]
    OBVIOUS
  <2>5. /\ c \in Picks /\ c.host = h /\ c.u = pick[t].u /\ c.k = pick[t].k
        /\ c.cache = pick[t].cache /\ c.pc = "try" /\ Goes(t, c)
    BY <1>2, <2>1, <2>2, <2>3, <2>4 DEF Picks, DrawPcs
  <2>6. /\ With(c, "sick") = With(pick[t], "sick") /\ With(c, "healthy") = Known(t, "healthy")
    BY <2>5 DEF With, Known
  <2>7. Drawn(c, kind, retries)
    BY <1>1, <1>2, <2>3, <2>5, <2>6 DEF Drawn, DrawPcs
  <2> QED  BY <1>2, <1>3, <2>5, <2>7, OneCall
<1> QED  BY <1>4, <1>5

\* The chosen host gives a connection, or counts as sick.
LEMMA TryStep ==
  ASSUME DirectorInv, NEW t \in Callers, Try(t)
  PROVE  DirectorInv'
<1>1. pick[t].pc = "try"
  BY DEF Try, At
<1>2. /\ kind \in {"random", "hash"} /\ kind # "round_robin" /\ pick[t] \in Picks
      /\ Drawn(pick[t], kind, retries)
  BY <1>1, DrawnFacts
<1>3. UNCHANGED <<kind, retries, vbe_healthy, next_host>> /\ moved' = moved
  BY DEF Try
<1>4. CASE Goes(t, [pick[t] EXCEPT !.pc = "got"])
  <2>1. PICK c : c = [pick[t] EXCEPT !.pc = "got"]
    OBVIOUS
  <2>2. /\ c \in Picks /\ c.host = pick[t].host /\ c.u = pick[t].u /\ c.k = pick[t].k
        /\ c.cache = pick[t].cache /\ c.pc = "got"
    BY <1>2, <2>1 DEF Picks, DrawPcs
  <2>3. With(c, "sick") = With(pick[t], "sick") /\ With(c, "healthy") = With(pick[t], "healthy")
    BY <2>2 DEF With
  <2>4. Drawn(c, kind, retries)
    BY <1>1, <1>2, <2>2, <2>3 DEF Drawn, DrawPcs
  <2> QED  BY <1>2, <1>3, <1>4, <2>1, <2>2, <2>4, OneCall
<1>5. CASE Goes(t, [pick[t] EXCEPT !.k = @ + 1, !.cache[pick[t].host] = "sick",
                       !.pc = IF pick[t].k + 1 = retries THEN "none" ELSE "sum"])
  <2>0. pick[t].host \in Hosts /\ pick[t].cache[pick[t].host] = "healthy" /\ pick[t].k \in Nat
    BY <1>1, <1>2 DEF Drawn, With, Picks
  <2>1. PICK c : c = [pick[t] EXCEPT !.k = @ + 1, !.cache[pick[t].host] = "sick",
                        !.pc = IF pick[t].k + 1 = retries THEN "none" ELSE "sum"]
    OBVIOUS
  <2>2. /\ c \in Picks /\ c.host = pick[t].host /\ c.u = pick[t].u /\ c.k = pick[t].k + 1
        /\ c.cache = [pick[t].cache EXCEPT ![pick[t].host] = "sick"]
        /\ c.pc = IF pick[t].k + 1 = retries THEN "none" ELSE "sum"
    <3>1. PICK q \in {"none", "sum"} : q = IF pick[t].k + 1 = retries THEN "none" ELSE "sum"
      OBVIOUS
    <3>2. PICK n \in Nat : n = pick[t].k + 1
      BY <2>0
    <3>3. c = [pick[t] EXCEPT !.k = n, !.cache[pick[t].host] = "sick", !.pc = q]
      BY <2>1, <3>1, <3>2
    <3>4. /\ c \in Picks /\ c.host = pick[t].host /\ c.u = pick[t].u /\ c.k = n
          /\ c.cache = [pick[t].cache EXCEPT ![pick[t].host] = "sick"] /\ c.pc = q
      BY <1>2, <2>0, <3>3 DEF Picks, DrawPcs
    <3> QED  BY <3>1, <3>2, <3>4
  <2>3. /\ With(c, "sick") = With(pick[t], "sick") \cup {pick[t].host}
        /\ Cardinality(With(c, "sick")) = Cardinality(With(pick[t], "sick")) + 1
        /\ Cardinality(With(pick[t], "sick")) \in Nat
    BY <1>2, <2>0, <2>2, SickMore
  <2>4. c.k <= Cardinality(With(c, "sick"))
    BY <1>2, <2>0, <2>2, <2>3 DEF Drawn, Picks
  <2>5. kind = "hash" => Chosen(c.u, Hosts) \in With(c, "sick")
    BY <1>1, <1>2, <2>2, <2>3 DEF Drawn
  <2>6. Drawn(c, kind, retries)
    BY <2>2, <2>4, <2>5 DEF Drawn, DrawPcs
  <2> QED  BY <1>2, <1>3, <1>5, <2>1, <2>2, <2>6, OneCall
<1> QED  BY <1>4, <1>5 DEF Try

\* A call of a round-robin director, and what is known of it.
LEMMA RobinFacts ==
  ASSUME DirectorInv, NEW t \in Callers, pick[t].pc \in {"take", "load", "store", "ask"}
  PROVE  /\ kind = "round_robin" /\ retries = NHosts /\ pick[t] \in Picks
         /\ pick[t].k \in Nat /\ pick[t].k < NHosts /\ next_host \in Hosts
         /\ pick[t].host \in Hosts /\ pick[t].tmp \in Hosts
         /\ t \notin moved => Robin(pick[t], next_host)
<1>1. kind = "round_robin"
  BY DEF DirectorInv, Drawn, DrawPcs
<1> QED  BY <1>1 DEF DirectorInv, Turn, Picks

\* (a + 1) % NHosts is the host after a.
LEMMA AfterIs ==
  ASSUME NEW a \in Hosts
  PROVE  (a + 1) % NHosts = After(a) /\ After(a) \in Hosts
<1>1. NHosts \in Nat \ {0} /\ a \in 0 .. NHosts - 1 /\ Hosts = 0 .. NHosts - 1
  BY HostFacts
<1>2. CASE a + 1 = NHosts
  <2>1. NHosts % NHosts = 0
    BY <1>1
  <2> QED  BY <1>1, <1>2, <2>1 DEF After
<1>3. CASE a + 1 # NHosts
  <2>1. a + 1 \in 0 .. NHosts - 1
    BY <1>1, <1>3
  <2>2. (a + 1) % NHosts = a + 1
    BY <1>1, <2>1
  <2> QED  BY <1>1, <1>3, <2>1, <2>2 DEF After
<1> QED  BY <1>2, <1>3

\* The places before the host after a.
LEMMA BackAfter ==
  ASSUME NEW a \in Hosts
  PROVE  /\ Back(After(a), 1) = a
         /\ \A j \in 1 .. NHosts : Back(a, j) \in Hosts
         /\ \A j \in 2 .. NHosts : Back(After(a), j) = Back(a, j - 1)
         /\ \A h \in Hosts : \E j \in 1 .. NHosts : Back(a, j) = h
<1>1. NHosts \in Nat \ {0} /\ a \in 0 .. NHosts - 1 /\ Hosts = 0 .. NHosts - 1
  BY HostFacts
<1>2. ASSUME NEW h \in Hosts PROVE \E j \in 1 .. NHosts : Back(a, j) = h
  <2>1. CASE h < a
    <3>1. a - h \in 1 .. NHosts /\ Back(a, a - h) = h
      BY <1>1, <2>1 DEF Back
    <3> QED  BY <3>1
  <2>2. CASE ~ (h < a)
    <3>1. (a - h) + NHosts \in 1 .. NHosts /\ Back(a, (a - h) + NHosts) = h
      BY <1>1, <2>2 DEF Back
    <3> QED  BY <3>1
  <2> QED  BY <2>1, <2>2
<1>3. Back(After(a), 1) = a /\ \A j \in 1 .. NHosts : Back(a, j) \in Hosts
  BY <1>1 DEF Back, After
<1>4. \A j \in 2 .. NHosts : Back(After(a), j) = Back(a, j - 1)
  BY <1>1 DEF Back, After
<1> QED  BY <1>2, <1>3, <1>4

\* The next host is taken.
LEMMA TakeStep ==
  ASSUME DirectorInv, NEW t \in Callers, Take(t)
  PROVE  DirectorInv'
<1>1. pick[t].pc = "take"
  BY DEF Take, At
<1>2. /\ kind = "round_robin" /\ pick[t] \in Picks
      /\ pick[t].k \in Nat /\ pick[t].k < NHosts /\ next_host \in Hosts
      /\ t \notin moved => Robin(pick[t], next_host)
  BY <1>1, RobinFacts
<1>3. PICK c : c = [pick[t] EXCEPT !.pc = "load", !.host = next_host]
  OBVIOUS
<1>4. /\ c \in Picks /\ c.pc = "load" /\ c.host = next_host /\ c.k = pick[t].k
      /\ c.cache = pick[t].cache /\ Goes(t, c)
  BY <1>2, <1>3 DEF Take, Picks, RobinPcs
<1>5. Turn(c) /\ (t \notin moved => Robin(c, next_host))
  BY <1>1, <1>2, <1>4 DEF Turn, Robin, RobinPcs, SickBefore
<1>6. UNCHANGED <<kind, retries, vbe_healthy, next_host>> /\ moved' = moved
  BY DEF Take
<1> QED  BY <1>2, <1>4, <1>5, <1>6, OneCall

\* next_host is loaded again, to be counted up.
LEMMA LoadStep ==
  ASSUME DirectorInv, NEW t \in Callers, Load(t)
  PROVE  DirectorInv'
<1>1. pick[t].pc = "load"
  BY DEF Load, At
<1>2. /\ kind = "round_robin" /\ pick[t] \in Picks
      /\ pick[t].k \in Nat /\ pick[t].k < NHosts /\ next_host \in Hosts
      /\ t \notin moved => Robin(pick[t], next_host)
  BY <1>1, RobinFacts
<1>3. (next_host + 1) % NHosts = After(next_host) /\ After(next_host) \in Hosts
  BY <1>2, AfterIs
<1>4. PICK a \in Hosts : a = After(next_host)
  BY <1>3
<1>5. PICK c : c = [pick[t] EXCEPT !.pc = "store", !.tmp = a]
  OBVIOUS
<1>6. /\ c \in Picks /\ c.pc = "store" /\ c.host = pick[t].host /\ c.k = pick[t].k
      /\ c.cache = pick[t].cache /\ c.tmp = a
  BY <1>2, <1>5 DEF Picks, RobinPcs
<1>7. Goes(t, c)
  BY <1>3, <1>4, <1>5 DEF Load
<1>8. Turn(c) /\ (t \notin moved => Robin(c, next_host))
  BY <1>1, <1>2, <1>4, <1>6 DEF Turn, Robin, RobinPcs, SickBefore
<1>9. UNCHANGED <<kind, retries, vbe_healthy, next_host>> /\ moved' = moved
  BY DEF Load
<1> QED  BY <1>2, <1>6, <1>7, <1>8, <1>9, OneCall

\* ... and stored, which whoever is in a call must be told.
LEMMA StoreStep ==
  ASSUME DirectorInv, NEW t \in Callers, StoreNext(t)
  PROVE  DirectorInv'
<1>1. pick[t].pc = "store"
  BY DEF StoreNext, At
<1>2. /\ kind = "round_robin" /\ pick[t] \in Picks /\ pick[t].tmp \in Hosts
      /\ pick[t].k \in Nat /\ pick[t].k < NHosts /\ next_host \in Hosts
      /\ t \notin moved => Robin(pick[t], next_host)
  BY <1>1, RobinFacts
<1>3. PICK c : c = [pick[t] EXCEPT !.pc = "ask", !.tmp = 0]
  OBVIOUS
<1>4. /\ c \in Picks /\ c.pc = "ask" /\ c.host = pick[t].host /\ c.k = pick[t].k
      /\ c.cache = pick[t].cache
  BY <1>2, <1>3, HostFacts DEF Picks, RobinPcs
<1>5. /\ pick' = [pick EXCEPT ![t] = c] /\ next_host' = pick[t].tmp
      /\ UNCHANGED <<kind, retries, vbe_healthy>>
      /\ moved' = moved \cup {o \in Callers \ {t} : ~At(o, "idle")}
  BY <1>3 DEF StoreNext, Goes
<1>6. pick' \in [Callers -> Picks] /\ pick'[t] = c /\ \A o \in Callers \ {t} : pick'[o] = pick[o]
  BY <1>4, <1>5 DEF DirectorInv
<1>7. Turn(c) /\ (t \notin moved => Robin(c, next_host'))
  BY <1>1, <1>2, <1>4, <1>5 DEF Turn, Robin, RobinPcs, SickBefore
<1>8. moved' \in SUBSET Callers /\ (t \in moved' <=> t \in moved)
  BY <1>5 DEF DirectorInv
<1>9. ASSUME NEW o \in Callers \ {t}
      PROVE  Turn(pick'[o]) /\ (o \notin moved' => Robin(pick'[o], next_host'))
  <2>1. pick'[o] = pick[o] /\ Turn(pick[o])
    BY <1>2, <1>6 DEF DirectorInv
  <2>2. o \notin moved' => pick[o].pc = "idle"
    BY <1>5 DEF At
  <2>3. pick[o].pc = "idle" => Robin(pick[o], next_host')
    BY DEF Robin
  <2> QED  BY <2>1, <2>2, <2>3
<1>10. ASSUME NEW o \in Callers
       PROVE  Turn(pick'[o]) /\ (o \notin moved' => Robin(pick'[o], next_host'))
  <2>1. CASE o = t
    BY <1>6, <1>7, <1>8, <2>1
  <2>2. CASE o # t
    BY <1>9, <2>2
  <2> QED  BY <2>1, <2>2
<1>11. next_host' \in Hosts
  BY <1>2, <1>5
<1> QED  BY <1>2, <1>5, <1>6, <1>8, <1>10, <1>11 DEF DirectorInv

\* The host is asked, and gives a connection or not.
LEMMA AskStep ==
  ASSUME DirectorInv, NEW t \in Callers, AskAndTry(t)
  PROVE  DirectorInv'
<1>1. pick[t].pc = "ask"
  BY DEF AskAndTry, At
<1>2. /\ kind = "round_robin" /\ retries = NHosts /\ pick[t] \in Picks
      /\ pick[t].k \in Nat /\ pick[t].k < NHosts /\ next_host \in Hosts /\ pick[t].host \in Hosts
      /\ t \notin moved => Robin(pick[t], next_host)
  BY <1>1, RobinFacts
<1>3. UNCHANGED <<kind, retries, vbe_healthy, next_host>> /\ moved' = moved
  BY DEF AskAndTry
<1>4. CASE Goes(t, [pick[t] EXCEPT !.pc = "got"])
  <2>1. PICK c : c = [pick[t] EXCEPT !.pc = "got"]
    OBVIOUS
  <2>2. c \in Picks /\ c.pc = "got"
    BY <1>2, <2>1 DEF Picks, RobinPcs
  <2>3. Turn(c) /\ Robin(c, next_host)
    BY <2>2 DEF Turn, Robin, RobinPcs
  <2> QED  BY <1>2, <1>3, <1>4, <2>1, <2>2, <2>3, OneCall
<1>5. CASE Goes(t, [pick[t] EXCEPT !.k = @ + 1, !.cache[pick[t].host] = "sick", !.host = 0,
                       !.pc = IF pick[t].k + 1 = retries THEN "none" ELSE "take"])
  <2>1. PICK q \in {"none", "take"} : q = IF pick[t].k + 1 = retries THEN "none" ELSE "take"
    OBVIOUS
  <2>2. PICK n \in Nat : n = pick[t].k + 1
    BY <1>2
  <2>3. PICK c : c = [pick[t] EXCEPT !.k = n, !.cache[pick[t].host] = "sick", !.host = 0, !.pc = q]
    OBVIOUS
  <2>4. Goes(t, c)
    BY <1>5, <2>1, <2>2, <2>3
  <2>5. PICK x : x = pick[t].host
    OBVIOUS
  <2>6. /\ c \in Picks /\ c.k = n /\ c.pc = q
        /\ c.cache = [pick[t].cache EXCEPT ![x] = "sick"]
    BY <1>2, <2>3, <2>5, HostFacts DEF Picks, RobinPcs
  <2>7. Turn(c)
    BY <1>2, <2>1, <2>2, <2>6, HostFacts DEF Turn, RobinPcs
  <2>8. c.cache[x] = "sick" /\ \A h \in Hosts : pick[t].cache[h] = "sick" => c.cache[h] = "sick"
    <3>1. pick[t].cache \in [Hosts -> {"unknown", "healthy", "sick"}] /\ x \in Hosts
      BY <1>2, <2>5 DEF Picks
    <3> QED  BY <2>6, <3>1
  <2>9. ASSUME t \notin moved PROVE SickBefore(c, next_host, n)
    <3>1. next_host = After(x) /\ SickBefore(pick[t], x, pick[t].k) /\ x \in Hosts
      BY <1>1, <1>2, <2>5, <2>9 DEF Robin
    <3>2. /\ Back(After(x), 1) = x
          /\ \A j \in 1 .. NHosts : Back(x, j) \in Hosts
          /\ \A j \in 2 .. NHosts : Back(After(x), j) = Back(x, j - 1)
      BY <3>1, BackAfter
    <3> SUFFICES ASSUME NEW j \in 1 .. n PROVE c.cache[Back(next_host, j)] = "sick"
      BY DEF SickBefore
    <3>3. CASE j = 1
      BY <2>8, <3>1, <3>2, <3>3
    <3>4. CASE j # 1
      <4>1. j \in 2 .. NHosts /\ j - 1 \in 1 .. pick[t].k /\ j - 1 \in 1 .. NHosts
        BY <1>2, <2>2, <3>4, HostFacts
      <4>2. Back(next_host, j) = Back(x, j - 1) /\ Back(x, j - 1) \in Hosts
        BY <3>1, <3>2, <4>1
      <4>3. pick[t].cache[Back(x, j - 1)] = "sick"
        BY <3>1, <4>1 DEF SickBefore
      <4> QED  BY <2>8, <4>2, <4>3
    <3> QED  BY <3>3, <3>4
  <2>10. ASSUME t \notin moved, q = "none" PROVE With(c, "sick") = Hosts
    <3>1. n = NHosts
      BY <1>2, <2>1, <2>2, <2>10
    <3>2. ASSUME NEW h \in Hosts PROVE c.cache[h] = "sick"
      <4>1. PICK j \in 1 .. NHosts : Back(next_host, j) = h
        BY <1>2, BackAfter
      <4>2. SickBefore(c, next_host, n)
        BY <2>9, <2>10
      <4> QED  BY <3>1, <4>1, <4>2 DEF SickBefore
    <3> QED  BY <3>2 DEF With
  <2>11. t \notin moved => Robin(c, next_host)
    BY <2>6, <2>9, <2>10 DEF Robin
  <2> QED  BY <1>2, <1>3, <2>4, <2>6, <2>7, <2>11, OneCall
<1> QED  BY <1>4, <1>5 DEF AskAndTry

\* getfd returns.
LEMMA ReturnCallStep ==
  ASSUME DirectorInv, NEW t \in Callers, Return(t)
  PROVE  DirectorInv'
<1>1. /\ Goes(t, NoCall) /\ moved' = moved \ {t}
      /\ UNCHANGED <<kind, retries, vbe_healthy, next_host>>
  BY DEF Return
<1>2. NoCall \in Picks /\ NoCall.pc = "idle" /\ NoCall.k = 0
  BY Resting
<1>3. Cardinality(With(NoCall, "sick")) \in Nat
  BY <1>2, SickCount
<1>4. Drawn(NoCall, kind, retries) /\ Turn(NoCall) /\ Robin(NoCall, next_host)
  BY <1>2, <1>3 DEF Drawn, Turn, Robin, DrawPcs, RobinPcs
<1> QED  BY <1>1, <1>2, <1>4, OneCall

\* A probe finishes or a saint mode entry expires.
LEMMA HealthStep ==
  ASSUME DirectorInv, HealthChanges
  PROVE  DirectorInv'
<1>1. PICK h \in Hosts : vbe_healthy' = [vbe_healthy EXCEPT ![h] = ~@]
  BY DEF HealthChanges
<1>2. vbe_healthy' \in [Hosts -> BOOLEAN]
  BY <1>1 DEF DirectorInv
<1>3. UNCHANGED <<kind, retries, next_host, pick, moved>>
  BY DEF HealthChanges
<1> QED  BY <1>2, <1>3 DEF DirectorInv

\* The invariant holds at the start.
LEMMA DirectorStart == DirectorInit => DirectorInv
<1> SUFFICES ASSUME DirectorInit PROVE DirectorInv
  OBVIOUS
<1>1. /\ kind \in {"random", "hash", "round_robin"} /\ vbe_healthy \in [Hosts -> BOOLEAN]
      /\ next_host = 0 /\ moved = {} /\ pick = [t \in Callers |-> NoCall]
  BY DEF DirectorInit
<1>2. retries \in Nat /\ (kind = "round_robin" => retries = NHosts)
  BY DirectorAssumption DEF DirectorInit
<1>3. NoCall \in Picks /\ NoCall.pc = "idle" /\ NoCall.k = 0
  BY Resting
<1>4. Cardinality(With(NoCall, "sick")) \in Nat
  BY <1>3, SickCount
<1>5. Drawn(NoCall, kind, retries) /\ Turn(NoCall) /\ Robin(NoCall, next_host)
  BY <1>3, <1>4 DEF Drawn, Turn, Robin, DrawPcs, RobinPcs
<1>6. pick \in [Callers -> Picks] /\ \A t \in Callers : pick[t] = NoCall
  BY <1>1, <1>3
<1> QED  BY <1>1, <1>2, <1>5, <1>6, HostFacts DEF DirectorInv

\* The invariant is kept by every step.
LEMMA DirectorStep == DirectorInv /\ [DirectorNext]_directorVars => DirectorInv'
<1> SUFFICES ASSUME DirectorInv, [DirectorNext]_directorVars PROVE DirectorInv'
  OBVIOUS
<1>1. CASE UNCHANGED directorVars
  BY <1>1 DEF DirectorInv, directorVars
<1>2. CASE HealthChanges
  BY <1>2, HealthStep
<1>3. ASSUME NEW t \in Callers,
             \/ Call(t) \/ Canonical(t) \/ TryCanonical(t) \/ Sum1(t) \/ Choose1(t) \/ Try(t)
             \/ Take(t) \/ Load(t) \/ StoreNext(t) \/ AskAndTry(t) \/ Return(t)
      PROVE  DirectorInv'
  BY <1>3, CallStep, CanonicalStep, TryCanonicalStep, SumStep, ChooseStep, TryStep, TakeStep,
     LoadStep, StoreStep, AskStep, ReturnCallStep
<1> QED  BY <1>1, <1>2, <1>3 DEF DirectorNext

\* For any number of hosts, weights, retries and callers: vdi_random_getfd and
\* vdi_round_robin_getfd give up only when every host was seen sick or refused in
\* this call, .retries ran out, or another thread moved next_host; a host seen sick
\* is not picked, and a hashing director leaves its canonical host only when that
\* was seen sick.
THEOREM DirectorTheorem == DirectorSpec => []NoneOverlooked
<1>1. DirectorInv => NoneOverlooked
  <2> SUFFICES ASSUME DirectorInv, NEW t \in Callers
               PROVE  /\ At(t, "none") =>
                           \/ Known(t, "sick") = Hosts
                           \/ kind # "round_robin" /\ retries < NHosts /\ pick[t].k = retries
                           \/ kind = "round_robin" /\ t \in moved
                      /\ At(t, "got") =>
                           /\ kind # "round_robin" => pick[t].host \in Known(t, "healthy")
                           /\ kind = "hash" =>
                                Chosen(pick[t].u, Hosts) \in {pick[t].host} \cup Known(t, "sick")
    BY DEF NoneOverlooked
  <2>1. /\ Known(t, "sick") = With(pick[t], "sick") /\ Known(t, "healthy") = With(pick[t], "healthy")
        /\ pick[t] \in Picks
    BY DEF Known, With, DirectorInv
  <2>2. ASSUME At(t, "got")
        PROVE  /\ kind # "round_robin" => pick[t].host \in Known(t, "healthy")
               /\ kind = "hash" =>
                    Chosen(pick[t].u, Hosts) \in {pick[t].host} \cup Known(t, "sick")
    BY <2>1, <2>2 DEF DirectorInv, Drawn, At
  <2>3. ASSUME At(t, "none"), kind = "round_robin"
        PROVE  Known(t, "sick") = Hosts \/ t \in moved
    BY <2>1, <2>3 DEF DirectorInv, Robin, At
  <2>4. ASSUME At(t, "none"), kind # "round_robin"
        PROVE  Known(t, "sick") = Hosts \/ (retries < NHosts /\ pick[t].k = retries)
    <3>1. Drawn(pick[t], kind, retries)
      BY <2>4 DEF DirectorInv
    <3>2. With(pick[t], "sick") = Hosts \/ pick[t].k = retries
      BY <2>4, <3>1 DEF Drawn, At
    <3>3. ASSUME pick[t].k = retries, ~ (retries < NHosts) PROVE With(pick[t], "sick") = Hosts
      <4>1. /\ IsFiniteSet(Hosts) /\ Cardinality(Hosts) = NHosts /\ NHosts \in Nat
            /\ With(pick[t], "sick") \subseteq Hosts
        BY <2>1, HostFacts, SickCount
      <4>2. retries <= Cardinality(With(pick[t], "sick")) /\ retries \in Nat
        BY <3>1, <3>3 DEF Drawn, DirectorInv
      <4>3. Cardinality(With(pick[t], "sick")) <= NHosts /\ Cardinality(With(pick[t], "sick")) \in Nat
            /\ (Cardinality(With(pick[t], "sick")) = NHosts => With(pick[t], "sick") = Hosts)
        BY <4>1, <2>1, SickCount, FS_Subset
      <4> QED  BY <3>3, <4>1, <4>2, <4>3
    <3> QED  BY <2>1, <3>2, <3>3
  <2> QED  BY <2>2, <2>3, <2>4
<1>2. DirectorInit => DirectorInv
  BY DirectorStart
<1>3. DirectorInv /\ [DirectorNext]_directorVars => DirectorInv'
  BY DirectorStep
<1> QED  BY <1>1, <1>2, <1>3, PTL DEF DirectorSpec

=============================================================================
