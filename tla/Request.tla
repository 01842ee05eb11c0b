------------------------------ MODULE Request ------------------------------
(***************************************************************************)
(* cache_center.c: the life of one session and of the requests on it, from *)
(* the step engine CNT_Session through lookup, fetch, pass, pipe, error,   *)
(* restart and delivery with ESI includes, to the waiter and back.         *)
(*                                                                         *)
(* The VCL program, the client, the backends, the cache's contents and the *)
(* other sessions are the environment: every answer they may give is       *)
(* possible.  `held' is a ledger of what was really taken and given back   *)
(* by the calls (references, busy objcores, backend connections); sp and w *)
(* are the pointers the code has to them.                                  *)
(*                                                                         *)
(* A handler is one action, except where it waits for the network or calls *)
(* CNT_Session again: cnt_fetch waits in the steps HDR and BODY, cnt_pipe  *)
(* in PIPING, and ESI is cnt_deliver inside ESI_Deliver.                   *)
(***************************************************************************)
EXTENDS Integers, Sequences

CONSTANTS
  MaxRestarts,   \* params->max_restarts
  MaxEsi,        \* params->max_esi_includes: the nesting of includes
  MaxIncludes,   \* bound: include bits of one object
  MaxWaits       \* bound: busy objects met by one request

ASSUME BoundsAssumption ==
  /\ MaxRestarts \in Nat /\ MaxEsi \in Nat /\ MaxWaits \in Nat
  /\ MaxIncludes \in Nat \ {0}

VARIABLES
  sp,      \* the session
  stack,   \* ESI_Deliver's saved objects and the bits left, innermost last
  w,       \* the worker thread's pointers
  at,      \* who has the session
  wrk,     \* the worker: in CNT_Session, just back from it, or idle
  held,    \* ledger
  waits,   \* busy objects met by this request
  told,    \* history: what the client got for this request
  panic    \* the child died, and where

vars == <<sp, stack, w, at, wrk, held, waits, told, panic>>

\* What vcl_recv{} and the others may return; VCL_xxx_method asserts it.
Returns ==
  [recv    |-> {"error", "pass", "pipe", "lookup"},
   pipe    |-> {"error", "pipe"},
   pass    |-> {"error", "restart", "pass"},
   miss    |-> {"error", "restart", "pass", "fetch"},
   hit     |-> {"error", "restart", "pass", "deliver"},
   fetch   |-> {"error", "restart", "pass", "deliver"},
   deliver |-> {"restart", "deliver"},
   error   |-> {"restart", "deliver"}]

Steps == {"FIRST", "WAIT", "START", "RECV", "LOOKUP", "HIT", "MISS", "PASS",
          "PIPE", "PIPING", "FETCH", "HDR", "BODY", "ERROR", "DELIVER", "ESI",
          "DONE"}

\* sp->obj: a reference to an object in the cache, to the busy object of this
\* session's own fetch, or to an object outside the cache.
ObjKinds == {"none", "cached", "busy", "anon"}

\* ses_setup clears everything; the acceptor sets fd and step.
NewSession ==
  [step |-> "FIRST", fd |-> TRUE, vcl |-> FALSE, obj |-> "none", objcore |-> FALSE,
   director |-> FALSE, vbe |-> FALSE, restarts |-> 0, doclose |-> FALSE,
   xid |-> FALSE, disable_esi |-> FALSE, bits |-> 0]

Init ==
  /\ sp = NewSession
  /\ stack = <<>>
  /\ w = [vcl |-> FALSE, bereq |-> FALSE, beresp |-> FALSE, resp |-> FALSE,
          handling |-> "none"]
  /\ at = "worker" /\ wrk = "session"
  /\ held = [obj |-> 0, busy |-> 0, vcl |-> 0, conn |-> 0]
  /\ waits = 0 /\ told = "nothing" /\ panic = "none"

--------------------------------------------------------------------------
(* What the calls take and give back. *)

HSH_Deref(h) == [h EXCEPT !.obj = @ - 1]
HSH_DerefObjCore(h) == [h EXCEPT !.busy = @ - 1]
HSH_Unbusy(h) == [h EXCEPT !.busy = @ - 1]
\* Mutated form: the busy mark is kept.
HSH_Drop_busy(h, o) == HSH_Deref(h)

HSH_Drop(h, o) == HSH_Deref(IF o = "busy" THEN HSH_Unbusy(h) ELSE h)
STV_NewObject(h) == [h EXCEPT !.obj = @ + 1]
\* VCL_Rel, VCL_Get and VBE_GetFd (module Backend has what they do to the
\* program and the backend).
VclGivenBack(h) == [h EXCEPT !.vcl = @ - 1]
VclTaken(h) == [h EXCEPT !.vcl = @ + 1]
ConnTaken(h) == [h EXCEPT !.conn = @ + 1]
\* VBE_ClosedFd and VBE_RecycleFd: the connection is not ours any more.
VBE_Release(h) == [h EXCEPT !.conn = @ - 1]

vca_close_session(s) == [s EXCEPT !.fd = FALSE]

esis == Len(stack)
In(step) == panic = "none" /\ at = "worker" /\ sp.step = step
Go(step) == [sp EXCEPT !.step = step]
LeaveWorker(to) == at' = to /\ wrk' = "returned"
StayOnWorker == UNCHANGED <<at, wrk, panic>>

\* The VCL program asks for something the handler cannot do.
Unimplemented(where) ==
  panic' = where /\ UNCHANGED <<sp, stack, w, at, wrk, held, waits, told>>

--------------------------------------------------------------------------
(* Between requests. *)

cnt_first ==
  /\ In("FIRST")
  /\ sp' = Go("WAIT")
  /\ StayOnWorker /\ UNCHANGED <<stack, w, held, waits, told>>

\* TCP_nonblocking may find the client gone: the session is closed, but
\* nobody deletes it.
vca_return_session ==
  \/ sp' = sp /\ LeaveWorker("waiter")
  \/ sp' = vca_close_session(sp) /\ LeaveWorker("leaked")

\* A whole request, a part of one or nothing yet, EOF or error.  It cannot
\* overflow in cnt_wait: pipelined input is shorter than the buffer.
HTC_Rx == {1, 0, -1}

cnt_wait ==
  /\ In("WAIT")
  /\ \E i \in HTC_Rx :
       \/ i = 1 /\ sp' = Go("START") /\ StayOnWorker
       \/ i = 0 /\ vca_return_session /\ UNCHANGED panic
       \/ i = -1 /\ sp' = vca_close_session(Go("DONE")) /\ StayOnWorker
  /\ UNCHANGED <<stack, w, held, waits, told>>

\* Borrows the worker's VCL reference, refreshed if it has an old one or none.
cnt_start ==
  /\ In("START")
  /\ \E close \in BOOLEAN, got \in {"junk", "bad", "request"} :
       LET s == [sp EXCEPT !.xid = TRUE, !.vcl = TRUE]
       IN  \/ got = "junk" /\ sp' = vca_close_session([s EXCEPT !.step = "DONE"])
           \/ got = "bad" /\ sp' = [s EXCEPT !.step = "ERROR"]
           \/ got = "request" /\ sp' = [s EXCEPT !.step = "RECV", !.doclose = close]
  /\ held' = IF w.vcl THEN held ELSE VclTaken(held)
  /\ w' = [w EXCEPT !.vcl = FALSE]
  /\ waits' = 0 /\ told' = "nothing"
  /\ StayOnWorker /\ UNCHANGED stack

--------------------------------------------------------------------------
(* What to do with the request. *)

\* After the restart limit vcl_recv{} still runs, but its verdict is ignored.
\* VRT_l_req_esi lets it turn ESI off in the main request only.
cnt_recv ==
  /\ In("RECV")
  /\ \E verdict \in Returns.recv, off \in BOOLEAN :
       LET s == [sp EXCEPT !.director = TRUE, !.disable_esi = off /\ esis = 0]
       IN  \/ /\ sp.restarts >= MaxRestarts
              /\ sp' = [s EXCEPT !.step = "ERROR"]
           \/ /\ sp.restarts < MaxRestarts
              /\ verdict = "pipe" => esis = 0
              /\ sp' = [s EXCEPT !.step = [lookup |-> "LOOKUP", pass |-> "PASS",
                                          pipe |-> "PIPE", error |-> "ERROR"][verdict]]
  /\ StayOnWorker /\ UNCHANGED <<stack, w, held, waits, told>>

PipeInEsi ==
  /\ In("RECV") /\ "pipe" \in Returns.recv
  /\ sp.restarts < MaxRestarts /\ esis > 0
  /\ Unimplemented("INCOMPL")

\* HSH_Lookup finds an object, one marked for pass, or inserts a busy objcore.
LookupFinds ==
  /\ In("LOOKUP")
  /\ \/ /\ sp' = [sp EXCEPT !.step = "MISS", !.objcore = TRUE]
        /\ held' = [held EXCEPT !.busy = @ + 1]
     \/ /\ sp' = [sp EXCEPT !.step = "HIT", !.obj = "cached"]
        /\ held' = [held EXCEPT !.obj = @ + 1]
     \/ /\ sp' = Go("PASS")
        /\ held' = HSH_Deref([held EXCEPT !.obj = @ + 1])
  /\ StayOnWorker /\ UNCHANGED <<stack, w, waits, told>>

\* HSH_Lookup finds a busy objcore.  The session goes on the waiting list and
\* leaves the worker, except inside ESI_Deliver, which sleeps and tries again.
LookupBusy ==
  /\ In("LOOKUP") /\ waits < MaxWaits
  /\ waits' = waits + 1
  /\ IF esis = 0 THEN LeaveWorker("parked") ELSE at' = "spin" /\ UNCHANGED wrk
  /\ UNCHANGED <<sp, stack, w, held, told, panic>>

\* The loop around CNT_Session in ESI_Deliver.
SpinAgain ==
  /\ panic = "none" /\ at = "spin"
  /\ at' = "worker"
  /\ UNCHANGED <<sp, stack, w, wrk, held, waits, told, panic>>

\* Mutated form: a restart is not counted.
Restarted_uncounted(s) == [s EXCEPT !.step = "RECV", !.director = FALSE]

Restarted(s) == [s EXCEPT !.step = "RECV", !.director = FALSE, !.restarts = @ + 1]

cnt_hit ==
  /\ In("HIT")
  /\ \E verdict \in Returns.hit :
       IF verdict = "deliver"
       THEN /\ sp' = Go("DELIVER")
            /\ w' = [w EXCEPT !.bereq = FALSE]
            /\ UNCHANGED held
       ELSE LET s == [sp EXCEPT !.obj = "none", !.objcore = FALSE] IN
            /\ \/ verdict = "pass" /\ sp' = [s EXCEPT !.step = "PASS"]
               \/ verdict = "error" /\ sp' = [s EXCEPT !.step = "ERROR"]
               \/ verdict = "restart" /\ sp' = Restarted(s)
            /\ held' = HSH_Deref(held)
            /\ UNCHANGED w
  /\ StayOnWorker /\ UNCHANGED <<stack, waits, told>>

cnt_miss ==
  /\ In("MISS")
  /\ w' = [w EXCEPT !.bereq = TRUE]
  /\ \/ "fetch" \in Returns.miss /\ sp' = Go("FETCH") /\ UNCHANGED held
     \/ \E verdict \in Returns.miss \cap {"error", "pass"} :
          /\ sp' = [sp EXCEPT !.objcore = FALSE,
                             !.step = IF verdict = "error" THEN "ERROR" ELSE "PASS"]
          /\ held' = HSH_DerefObjCore(held)
  /\ StayOnWorker /\ UNCHANGED <<stack, waits, told>>

MissRestart ==
  /\ In("MISS") /\ "restart" \in Returns.miss
  /\ Unimplemented("INCOMPL")

cnt_pass ==
  /\ In("PASS")
  /\ w' = [w EXCEPT !.bereq = TRUE]
  /\ \E verdict \in Returns.pass \cap {"error", "pass"} :
       sp' = Go(IF verdict = "error" THEN "ERROR" ELSE "FETCH")
  /\ StayOnWorker /\ UNCHANGED <<stack, held, waits, told>>

PassRestart ==
  /\ In("PASS") /\ "restart" \in Returns.pass
  /\ Unimplemented("cnt_pass")

\* PipeSession without a backend returns at once; cnt_done then sees a request
\* which was not answered on a connection which is not closed.
cnt_pipe ==
  /\ In("PIPE") /\ "pipe" \in Returns.pipe
  /\ \/ /\ sp' = [sp EXCEPT !.step = "PIPING", !.vbe = TRUE]
        /\ held' = ConnTaken(held)
        /\ w' = [w EXCEPT !.bereq = TRUE]
        /\ told' = "pipe"
     \/ /\ sp' = Go("DONE")
        /\ w' = [w EXCEPT !.bereq = FALSE]
        /\ told' = "no backend"
        /\ UNCHANGED held
  /\ StayOnWorker /\ UNCHANGED <<stack, waits>>

PipeError ==
  /\ In("PIPE") /\ "error" \in Returns.pipe
  /\ Unimplemented("INCOMPL")

PipeEnds ==
  /\ In("PIPING")
  /\ sp' = vca_close_session([sp EXCEPT !.step = "DONE", !.vbe = FALSE])
  /\ held' = VBE_Release(held)
  /\ w' = [w EXCEPT !.bereq = FALSE]
  /\ StayOnWorker /\ UNCHANGED <<stack, waits, told>>

--------------------------------------------------------------------------
(* cnt_fetch. *)

FetchDone == [w EXCEPT !.bereq = FALSE, !.beresp = FALSE, !.handling = "none"]

\* Mutated form: the busy objcore is kept.
HdrFailed_kept(s, h) ==
  /\ sp' = [s EXCEPT !.step = "ERROR", !.vbe = FALSE]
  /\ held' = h
  /\ w' = FetchDone

\* FetchHdr failed: let go of the busy objcore.
HdrFailed(s, h) ==
  /\ sp' = [s EXCEPT !.step = "ERROR", !.objcore = FALSE, !.vbe = FALSE]
  /\ held' = IF s.objcore THEN HSH_DerefObjCore(h) ELSE h
  /\ w' = FetchDone

cnt_fetch ==
  /\ In("FETCH")
  /\ \/ /\ sp' = [sp EXCEPT !.step = "HDR", !.vbe = TRUE]
        /\ held' = ConnTaken(held)
        /\ w' = [w EXCEPT !.beresp = TRUE]
     \/ HdrFailed(sp, held)
  /\ StayOnWorker /\ UNCHANGED <<stack, waits, told>>

\* vcl_fetch{} decides, and says if the object may be cached; the busy objcore
\* is then given its object, or let go of.
NewObject(handling, cacheable) ==
  /\ cacheable => sp.objcore
  /\ w' = [w EXCEPT !.handling = handling]
  /\ sp' = [sp EXCEPT !.step = "BODY", !.objcore = FALSE,
                     !.obj = IF cacheable THEN "busy" ELSE "anon"]
  /\ held' = STV_NewObject(IF sp.objcore /\ ~cacheable
                           THEN HSH_DerefObjCore(held) ELSE held)

FetchHdr ==
  /\ In("HDR")
  /\ \/ HdrFailed(sp, VBE_Release(held))
     \/ \E handling \in Returns.fetch, cacheable \in BOOLEAN :
          NewObject(handling, cacheable)
  /\ StayOnWorker /\ UNCHANGED <<stack, waits, told>>

\* What vcl_fetch{} wanted is done when the body is there: EXP_Insert and
\* HSH_Unbusy publish the object, or HSH_Drop gets rid of it.
FetchVerdict(i, h, s) ==
  LET drop == [s EXCEPT !.obj = "none"]
  IN  \/ /\ i \in {"failed", "error"}
         /\ sp' = [drop EXCEPT !.step = "ERROR"]
         /\ held' = HSH_Drop(h, s.obj)
      \/ /\ i = "restart"
         /\ sp' = Restarted(drop)
         /\ held' = HSH_Drop(h, s.obj)
      \/ /\ i \in {"pass", "deliver"}
         /\ sp' = [s EXCEPT !.step = "DELIVER", !.obj = IF @ = "busy" THEN "cached" ELSE @]
         /\ held' = IF s.obj = "busy" THEN HSH_Unbusy(h) ELSE h

\* The body is there, or failed; the connection is closed or recycled.
FetchBody ==
  /\ In("BODY")
  /\ \E i \in {"failed", w.handling} :
       FetchVerdict(i, VBE_Release(held), [sp EXCEPT !.vbe = FALSE])
  /\ w' = FetchDone
  /\ StayOnWorker /\ UNCHANGED <<stack, waits, told>>

\* A synthetic object, and vcl_error{}.  A restart leaves w->bereq alone.
cnt_error ==
  /\ In("ERROR")
  /\ \E verdict \in Returns.error :
       \/ /\ verdict = "restart" /\ sp.restarts < MaxRestarts
          /\ sp' = Restarted(sp)
          /\ held' = HSH_Drop(STV_NewObject(held), "anon")
          /\ UNCHANGED w
       \/ /\ verdict = "deliver" \/ sp.restarts >= MaxRestarts
          /\ sp' = [sp EXCEPT !.step = "DELIVER", !.obj = "anon", !.doclose = TRUE]
          /\ held' = STV_NewObject(held)
          /\ w' = [w EXCEPT !.bereq = FALSE]
  /\ StayOnWorker /\ UNCHANGED <<stack, waits, told>>

--------------------------------------------------------------------------
(* Delivery. *)

\* Mutated form: included objects have their header sent too.
HeaderSent_always == told' = IF told = "nothing" THEN "answer" ELSE "twice"

\* RES_WriteObj writes the header of the main request's response only.
HeaderSent ==
  told' = IF ~(sp.disable_esi \/ esis = 0) THEN told
          ELSE IF told = "nothing" THEN "answer" ELSE "twice"

\* The tail of cnt_deliver; writing may have failed, which closes the session.
Delivered(s) ==
  /\ \E fd \in {s.fd, FALSE} :
       sp' = [s EXCEPT !.step = "DONE", !.obj = "none", !.bits = 0, !.fd = fd]
  /\ held' = HSH_Deref(held)
  /\ w' = [w EXCEPT !.resp = FALSE]

cnt_deliver ==
  /\ In("DELIVER") /\ "deliver" \in Returns.deliver
  /\ LET s == [sp EXCEPT !.director = FALSE, !.restarts = 0]
     IN  \/ Delivered(s)
         \/ /\ ~sp.disable_esi
            /\ \E n \in 1 .. MaxIncludes, eof \in BOOLEAN :
                 sp' = [s EXCEPT !.step = "ESI", !.bits = n, !.doclose = @ \/ eof]
            /\ w' = [w EXCEPT !.resp = TRUE]
            /\ UNCHANGED held
  /\ HeaderSent
  /\ StayOnWorker /\ UNCHANGED <<stack, waits>>

DeliverRestart ==
  /\ In("DELIVER") /\ "restart" \in Returns.deliver
  /\ Unimplemented("INCOMPL")

EsiLeft == sp.bits > 0 /\ esis < MaxEsi /\ sp.fd

\* ESI_Deliver sets the object aside and runs the request for the include.
EsiInclude ==
  /\ In("ESI") /\ EsiLeft
  /\ stack' = Append(stack, [obj |-> sp.obj, bits |-> sp.bits - 1])
  /\ sp' = [sp EXCEPT !.step = "RECV", !.obj = "none", !.bits = 0, !.director = FALSE]
  /\ StayOnWorker /\ UNCHANGED <<w, held, waits, told>>

\* No include left, the nesting too deep, or a write failed.
EsiEnd ==
  /\ In("ESI")
  /\ \/ ~EsiLeft /\ Delivered(sp)
     \/ EsiLeft /\ Delivered(vca_close_session(sp))
  /\ StayOnWorker /\ UNCHANGED <<stack, waits, told>>

\* cnt_done of an include: back to ESI_Deliver.
EsiReturn ==
  /\ In("DONE") /\ esis > 0
  /\ LET top == stack[esis] IN
       sp' = [sp EXCEPT !.step = "ESI", !.obj = top.obj, !.bits = top.bits,
                        !.director = FALSE, !.restarts = 0, !.xid = FALSE]
  /\ stack' = SubSeq(stack, 1, esis - 1)
  /\ StayOnWorker /\ UNCHANGED <<w, held, waits, told>>

--------------------------------------------------------------------------
(* The end of a request, the waiter, and the worker. *)

\* The worker takes the VCL reference back, giving up its own if it has one.
cnt_done ==
  /\ In("DONE") /\ esis = 0
  /\ w' = [w EXCEPT !.vcl = @ \/ sp.vcl]
  /\ held' = IF sp.vcl /\ w.vcl THEN VclGivenBack(held) ELSE held
  /\ LET s == [sp EXCEPT !.director = FALSE, !.restarts = 0, !.vcl = FALSE,
                         !.xid = FALSE, !.fd = @ /\ ~sp.doclose]
     IN  \/ ~s.fd /\ sp' = s /\ LeaveWorker("free")
         \/ /\ s.fd /\ \E step \in {"START", "WAIT"} : sp' = [s EXCEPT !.step = step]
            /\ UNCHANGED <<at, wrk>>
         \/ s.fd /\ sp' = s /\ LeaveWorker("waiter")
         \/ s.fd /\ sp' = vca_close_session(s) /\ LeaveWorker("leaked")
  /\ UNCHANGED <<stack, waits, told, panic>>

\* wrk_thread_real asserts that nothing is left on the worker.
WorkerReturns ==
  /\ panic = "none" /\ wrk = "returned"
  /\ wrk' = "idle"
  /\ panic' = IF w.bereq \/ w.beresp \/ w.resp THEN "worker" ELSE "none"
  /\ UNCHANGED <<sp, stack, w, at, held, waits, told>>

\* A worker, maybe another one, gets the session: it has a VCL reference left
\* from an earlier request, or none.
OnWorker ==
  /\ panic = "none" /\ wrk = "idle"
  /\ at' = "worker" /\ wrk' = "session"
  /\ \E vcl \in BOOLEAN :
       /\ w' = [w EXCEPT !.vcl = vcl]
       /\ held' = [held EXCEPT !.vcl = @ - (IF w.vcl THEN 1 ELSE 0) + (IF vcl THEN 1 ELSE 0)]
  /\ UNCHANGED <<stack, panic>>

\* vca_handover: a complete request.
Handover ==
  /\ at = "waiter" /\ OnWorker
  /\ sp' = Go("START")
  /\ UNCHANGED <<waits, told>>

\* hsh_rush: the busy object is busy no more.
Resume ==
  /\ at = "parked" /\ OnWorker
  /\ UNCHANGED <<sp, waits, told>>

\* SES_New, and the acceptor's WRK_QueueSession.
Accept ==
  /\ at \in {"free", "leaked"} /\ OnWorker
  /\ sp' = NewSession
  /\ waits' = 0 /\ told' = "nothing"

\* vca_handover: timeout, EOF or a request too big; or WRK_QueueSession finds
\* the queue full.
Dropped ==
  /\ panic = "none" /\ at \in {"waiter", "parked"}
  /\ at' = "free"
  /\ sp' = vca_close_session([sp EXCEPT !.vcl = FALSE])
  /\ held' = IF sp.vcl THEN VclGivenBack(held) ELSE held
  /\ UNCHANGED <<stack, w, wrk, waits, told, panic>>

Dead == panic # "none" /\ UNCHANGED vars

CNT_Session ==
  \/ cnt_first \/ cnt_wait \/ cnt_start \/ cnt_recv \/ LookupFinds \/ LookupBusy
  \/ cnt_hit \/ cnt_miss \/ cnt_pass \/ cnt_pipe \/ PipeEnds
  \/ cnt_fetch \/ FetchHdr \/ FetchBody \/ cnt_error
  \/ cnt_deliver \/ EsiInclude \/ EsiEnd \/ EsiReturn \/ cnt_done
  \/ PipeInEsi \/ MissRestart \/ PassRestart \/ PipeError \/ DeliverRestart

Next ==
  \/ CNT_Session \/ SpinAgain \/ WorkerReturns
  \/ Handover \/ Resume \/ Accept \/ Dropped \/ Dead

Spec == Init /\ [][Next]_vars

\* A thread which can run does, sleep(3) ends, and a parked session is woken
\* (ObjectCache!EveryLookupEnds) and gets a worker or is dropped.
Fairness ==
  /\ WF_vars(CNT_Session) /\ WF_vars(SpinAgain) /\ WF_vars(WorkerReturns)
  /\ WF_vars(at = "parked" /\ (Resume \/ Dropped))

FairSpec == Spec /\ Fairness

--------------------------------------------------------------------------
(* Properties. *)

\* Everything has its type, and the restarts never exceed max_restarts: the
\* handlers that raise them do not look, only cnt_recv and cnt_error do.
TypeOK ==
  /\ sp \in [step : Steps, fd : BOOLEAN, vcl : BOOLEAN, obj : ObjKinds,
             objcore : BOOLEAN, director : BOOLEAN, vbe : BOOLEAN,
             restarts : 0 .. MaxRestarts, doclose : BOOLEAN, xid : BOOLEAN,
             disable_esi : BOOLEAN, bits : 0 .. MaxIncludes]
  /\ esis <= MaxEsi
  /\ \A i \in 1 .. esis : stack[i] \in [obj : ObjKinds, bits : 0 .. MaxIncludes]
  /\ w \in [vcl : BOOLEAN, bereq : BOOLEAN, beresp : BOOLEAN, resp : BOOLEAN,
            handling : Returns.fetch \cup {"none"}]
  /\ at \in {"worker", "spin", "parked", "waiter", "free", "leaked"}
  /\ wrk \in {"session", "returned", "idle"}
  /\ wrk = "session" <=> at \in {"worker", "spin"}
  /\ held \in [obj : Int, busy : Int, vcl : Int, conn : Int]
  /\ waits \in 0 .. MaxWaits
  /\ told \in {"nothing", "answer", "twice", "pipe", "no backend"}
  /\ panic \in {"none", "INCOMPL", "cnt_pass", "worker"}

One(b) == IF b THEN 1 ELSE 0

\* Whatever path a request takes through restarts, errors and includes, what
\* the calls took and did not give back is exactly what the session and its
\* worker point to: nothing leaks and nothing is released twice.
Balanced ==
  panic = "none" =>
    /\ held.obj = esis + One(sp.obj # "none")
    /\ held.busy = One(sp.objcore) + One(sp.obj = "busy")
    /\ held.vcl = One(sp.vcl) + One(w.vcl)
    /\ held.conn = One(sp.vbe)

\* A session waits for somebody else's busy object only while it has none of
\* its own, at any depth of includes: sessions cannot wait for one another in
\* a circle.
NoHoldAndWait ==
  at \in {"parked", "spin"} \/ (at = "worker" /\ sp.step = "LOOKUP") =>
    held.busy = 0 /\ \A i \in 1 .. esis : stack[i].obj # "busy"

\* A session which is not on a worker keeps nothing but its VCL reference, and
\* this only on a waiting list.  SES_Delete and vca_return_session assert it.
NothingLeftBehind ==
  at \in {"parked", "waiter", "free", "leaked"} /\ panic = "none" =>
    /\ stack = <<>> /\ held.obj = 0 /\ held.busy = 0 /\ held.conn = 0
    /\ sp.vcl <=> at = "parked"
    /\ at \in {"parked", "waiter"} <=> sp.fd

\* What the handlers assert when they are entered, and the functions they call
\* of the session: none of the assertions fails, after any sequence of restarts,
\* errors, includes and requests.
AssertionsHold ==
  panic = "none" /\ at = "worker" =>
    LET s == sp.step IN
    /\ s = "FIRST" => ~sp.xid /\ sp.restarts = 0
    /\ s = "WAIT" => ~sp.vcl /\ sp.obj = "none" /\ ~sp.xid /\ sp.fd
    /\ s = "START" => ~sp.vcl /\ sp.obj = "none" /\ sp.restarts = 0
    /\ s = "RECV" => sp.vcl /\ sp.obj = "none" /\ ~sp.director
    /\ s = "LOOKUP" => sp.vcl /\ sp.director
    /\ s = "HIT" => sp.vcl /\ sp.obj = "cached"
    /\ s = "MISS" => sp.vcl /\ sp.obj = "none" /\ sp.objcore
    /\ s = "PASS" => sp.vcl /\ sp.obj = "none" /\ ~sp.objcore
    /\ s = "PIPE" => sp.vcl /\ ~sp.vbe
    /\ s = "FETCH" => sp.vcl /\ sp.director /\ ~sp.vbe /\ sp.obj = "none" /\ w.bereq
    /\ s = "BODY" => sp.director /\ sp.obj \in {"busy", "anon"} /\ w.bereq /\ w.beresp
    /\ s = "ERROR" => sp.vcl /\ sp.obj = "none"
    /\ s = "DELIVER" => sp.vcl /\ sp.obj \in {"cached", "anon"} /\ ~w.bereq /\ ~w.beresp
    /\ s = "DONE" => sp.obj = "none" /\ ~sp.vbe

\* No handler of cache_center.c leaks or releases twice, restarts more often
\* than max_restarts, or is entered in a state it does not expect.
RequestInv == TypeOK /\ Balanced /\ AssertionsHold

\* Who waits, for the client or for another request, or is gone, keeps nothing
\* that somebody else may be waiting for.
NothingHeld == NoHoldAndWait /\ NothingLeftBehind

\* The client gets one response header per request, never one in the middle of
\* an included body, and its connection is reused only when the request is
\* settled.  (A pipe without a backend is not: see README.)
AnsweredOnce ==
  panic = "none" =>
    /\ told # "twice"
    /\ at = "waiter" => told # "pipe"
    /\ sp.step = "DONE" /\ esis = 0 /\ at = "worker" /\ sp.fd => told \in {"answer", "no backend"}
    /\ esis > 0 /\ at = "worker" => told = "answer"

\* Every request comes to an end, whatever the VCL program asks for: restarts
\* and includes are bounded.  (A pipe lasts as long as its ends want.)
RequestEnds ==
  at = "worker" /\ sp.step = "START"
    ~> \/ panic # "none" \/ at = "free"
       \/ sp.step = "PIPING" \/ (sp.step = "DONE" /\ esis = 0)
=============================================================================
