------------------------------ MODULE Headers ------------------------------
(***************************************************************************)
(* Where the headers of a request and of its answers are.  A struct http   *)
(* holds pointers; the text is in a workspace, a stack of memory           *)
(* (cache_ws.c), and workspaces are reset and used again while pointers    *)
(* into them may still be followed.                                        *)
(*                                                                         *)
(* There are two: the session's holds the request as received, with what   *)
(* was received after it (pipelining, cache_httpconn.c), and what VCL      *)
(* writes to req; the worker's holds what is written to bereq, beresp and  *)
(* resp, and the response as received from the backend.  bereq begins as a *)
(* copy of the pointers of req, resp as a copy of those of the object,     *)
(* which has copied all text home.  One header takes one cell; the first   *)
(* line of a message is treated as a header.                               *)
(***************************************************************************)
EXTENDS Naturals, Sequences, SequencesExt, FiniteSets

CONSTANTS Cells,       \* cells of a workspace (sess_workspace)
          Slots,       \* headers a struct http has room for (http_headers)
          Names,       \* names of headers VCL writes
          Requests,    \* requests of the client: sequences of names, a sequence
          Answers,     \* answers of the backend, a set of sequences of names
          Printed,     \* headers RES_BuildHttp adds, a sequence of names
          MaxEdits,    \* bound: headers written by VCL in a request
          MaxRestarts  \* bound: max_restarts

HeadersAssumption ==
  /\ Cells \in Nat /\ Slots \in Nat
  /\ \A r \in 1 .. Len(Requests) : Requests[r] # <<>>

VARIABLES pc,          \* where the request is
          mem,         \* the cells of both workspaces
          free,        \* ws->f of each: cells in use
          rxbuf,       \* cells of the session's workspace received so far
          pipeline,    \* cells received after the request's end: <<first, last>>
          got,         \* texts the client has sent and the session received
          nreq,        \* requests begun
          ws_req,      \* watermark of the request
          http, http0, bereq, beresp, obj, resp,
          edits, restarts,
          rolled,      \* VRT_Rollback was called since bereq was made
          left         \* cells in use in the worker's workspace when it began

vars == <<pc, mem, free, rxbuf, pipeline, got, nreq, ws_req, http, http0, bereq,
          beresp, obj, resp, edits, restarts, rolled, left>>

rx == <<rxbuf, pipeline, got, nreq>>

\* A text is a name, a value (who wrote it, and which time), and whether it ends a
\* message's header.
Text(n, v, end) == [name |-> n, value |-> v, end |-> end]
Nothing == Text("", <<"", 0>>, FALSE)

\* What the client sends, header by header.
Sent ==
  LET text(r) == [i \in 1 .. Len(Requests[r]) |->
                    Text(Requests[r][i], <<"client", r>>, i = Len(Requests[r]))]
  IN FlattenSeq([r \in 1 .. Len(Requests) |-> text(r)])

\* A pointer knows, for the properties, the text that was there when it was made.
\* Literals and the texts of an object stay where they are.
Ptr(ws, at, text) == [ws |-> ws, at |-> at, text |-> text]
Reads(p) == IF p.ws \in {"sess", "wrk"} THEN mem[p.ws][p.at] ELSE p.text
Intact(h) == \A i \in 1 .. Len(h) : Reads(h[i]) = h[i].text
NamesOf(h) == {h[i].text.name : i \in 1 .. Len(h)}

\* HTC_Init and HTC_Reinit reserve half a workspace for what will be received.
Half == Cells \div 2

\* The session's watermark, ws_ses, is at the bottom of its workspace.
Init ==
  /\ pc = "wait"
  /\ mem = [ws \in {"sess", "wrk"} |-> [i \in 1 .. Cells |-> Nothing]]
  /\ free = [ws \in {"sess", "wrk"} |-> 0]
  /\ rxbuf = 0 /\ pipeline = <<>> /\ got = 0 /\ nreq = 0 /\ ws_req = 0
  /\ http = <<>> /\ http0 = <<>> /\ bereq = <<>> /\ beresp = <<>> /\ obj = <<>>
  /\ resp = <<>>
  /\ edits = 0 /\ restarts = 0 /\ rolled = FALSE /\ left = 0

-----------------------------------------------------------------------------
\* Receiving.

\* The request that ends within the first n cells of m, as its number of cells.
HeaderEnd(m, n) == SelectInSeq(SubSeq(m, 1, n), LAMBDA t : t.end)

\* HTC_Complete, with n cells received in m: the workspace is released behind all
\* that was received, and what follows the header's end is kept as pipelined
\* input.
\* Mutated form: the workspace is released behind the request's header.
HTC_Complete_short(m, n) ==
  LET i == HeaderEnd(m, n)
  IN /\ free' = [free EXCEPT !["sess"] = i]
     /\ rxbuf' = IF i = 0 THEN n ELSE i
     /\ pipeline' = IF i > 0 /\ i < n THEN <<i + 1, n>> ELSE <<>>
     /\ pc' = IF i = 0 THEN "wait" ELSE "start"

HTC_Complete(m, n) ==
  LET i == HeaderEnd(m, n)
  IN /\ free' = [free EXCEPT !["sess"] = IF i = 0 THEN 0 ELSE n]
     /\ rxbuf' = IF i = 0 THEN n ELSE i
     /\ pipeline' = IF i > 0 /\ i < n THEN <<i + 1, n>> ELSE <<>>
     /\ pc' = IF i = 0 THEN "wait" ELSE "start"

\* HTC_Rx: any part of what the client has sent and there is room for arrives.
\* One cell of the reserved half is for the NUL.  Without room the session is
\* closed (not modelled: nothing follows).
HTC_Rx ==
  /\ pc = "wait"
  /\ \E k \in 1 .. Len(Sent) - got :
       /\ rxbuf + k <= Half - 1
       /\ mem' = [mem EXCEPT !["sess"] =
                    [i \in 1 .. Cells |->
                       IF i \in rxbuf + 1 .. rxbuf + k THEN Sent[got + i - rxbuf] ELSE @[i]]]
       /\ got' = got + k
       /\ HTC_Complete(mem'["sess"], rxbuf + k)
  /\ UNCHANGED <<nreq, ws_req, http, http0, bereq, beresp, obj, resp, edits, restarts,
                 rolled, left>>

\* The session waits long enough to be given back to the waiter: the next worker
\* begins with an empty workspace (wrk_thread_real).
Herded ==
  /\ pc = "wait" /\ free["wrk"] > 0
  /\ free' = [free EXCEPT !["wrk"] = 0]
  /\ UNCHANGED <<pc, mem, rx, ws_req, http, http0, bereq, beresp, obj, resp, edits,
                 restarts, rolled, left>>

\* cnt_start: http_Setup, http_DissectRequest and HTTP_Copy.  A request with more
\* headers than slots is answered 400 without its headers being looked at.
cnt_start ==
  /\ pc = "start"
  /\ nreq' = nreq + 1
  /\ http' = [i \in 1 .. (IF rxbuf < Slots THEN rxbuf ELSE Slots) |->
                Ptr("sess", i, mem["sess"][i])]
  /\ http0' = http'
  /\ ws_req' = free["sess"]
  /\ pc' = IF rxbuf > Slots THEN "error" ELSE "recv"
  /\ edits' = 0 /\ restarts' = 0 /\ rolled' = FALSE /\ left' = free["wrk"]
  /\ bereq' = <<>> /\ beresp' = <<>> /\ obj' = <<>> /\ resp' = <<>>
  /\ UNCHANGED <<mem, free, rxbuf, pipeline, got>>

-----------------------------------------------------------------------------
\* Writing headers.

\* http_Unset
http_Unset(h, n) == SelectSeq(h, LAMBDA p : p.text.name # n)

\* WS_Reserve ... WS_Release, WS_Alloc: the next cell of a workspace, if there is
\* one, gets the text.
Room(ws) == free[ws] < Cells
Write(ws, text) ==
  /\ mem' = [mem EXCEPT ![ws][free[ws] + 1] = text]
  /\ free' = [free EXCEPT ![ws] = @ + 1]

\* VRT_SetHdr on h: without room the old header stays; http_SetHeader loses the
\* new one if all slots are taken.  The result is h afterwards.
VRT_SetHdr(h, ws, text) ==
  IF ~Room(ws) THEN h
  ELSE LET g == http_Unset(h, text.name)
       IN IF Len(g) < Slots THEN Append(g, Ptr(ws, free[ws] + 1, text)) ELSE g

SetOn(ws, text) == IF Room(ws) THEN Write(ws, text) ELSE UNCHANGED <<mem, free>>

VclText(n) == Text(n, <<"vcl", edits>>, FALSE)

\* VCL writes or removes a header of req, anywhere, ...
InVcl == pc \in {"recv", "miss", "fetch", "deliver"}

EditReq ==
  /\ InVcl /\ edits < MaxEdits
  /\ edits' = edits + 1
  /\ \E n \in Names :
       \/ SetOn("sess", VclText(n)) /\ http' = VRT_SetHdr(http, "sess", VclText(n))
       \/ http' = http_Unset(http, n) /\ UNCHANGED <<mem, free>>
  /\ UNCHANGED <<pc, rx, ws_req, http0, bereq, beresp, obj, resp, restarts, rolled, left>>

\* ... of bereq in vcl_miss or vcl_pass, of beresp in vcl_fetch, of resp in
\* vcl_deliver.
EditOther ==
  /\ edits < MaxEdits
  /\ edits' = edits + 1
  /\ \E n \in Names :
       /\ SetOn("wrk", VclText(n))
       /\ \/ pc = "miss" /\ bereq' = VRT_SetHdr(bereq, "wrk", VclText(n))
             /\ UNCHANGED <<beresp, resp>>
          \/ pc = "fetch" /\ beresp' = VRT_SetHdr(beresp, "wrk", VclText(n))
             /\ UNCHANGED <<bereq, resp>>
          \/ pc = "deliver" /\ resp' = VRT_SetHdr(resp, "wrk", VclText(n))
             /\ UNCHANGED <<bereq, beresp>>
  /\ UNCHANGED <<pc, rx, ws_req, http, http0, obj, restarts, rolled, left>>

\* VRT_Rollback: HTTP_Copy of the original request, and WS_Reset to its watermark.
VRT_Rollback ==
  /\ InVcl /\ edits > 0 /\ http # http0
  /\ http' = http0
  /\ free' = [free EXCEPT !["sess"] = ws_req]
  /\ rolled' = (pc # "recv")
  /\ UNCHANGED <<pc, mem, rx, ws_req, http0, bereq, beresp, obj, resp, edits, restarts,
                 left>>

-----------------------------------------------------------------------------
\* http_PrintfHeader, several times: what there is room and a slot for is added.
PrintfCount(h, ws, k) ==
  LET a == Cells - free[ws]
      b == Slots - Len(h)
      min(x, y) == IF x < y THEN x ELSE y
  IN min(k, min(a, b))

\* cnt_miss, cnt_pass and cnt_pipe: WS_Reset of the worker's workspace,
\* http_FilterHeader with "X-Varnish".
\* Mutated form: the worker's workspace is not reset.
MakeBereq_noreset ==
  /\ bereq' = IF Len(http) < Slots /\ Room("wrk")
              THEN Append(http, Ptr("wrk", free["wrk"] + 1, Text("X-Varnish", <<"varnish", 0>>, FALSE)))
              ELSE http
  /\ SetOn("wrk", Text("X-Varnish", <<"varnish", 0>>, FALSE))

MakeBereq ==
  LET text == Text("X-Varnish", <<"varnish", 0>>, FALSE)
  IN /\ bereq' = IF Len(http) < Slots THEN Append(http, Ptr("wrk", 1, text)) ELSE http
     /\ IF Len(http) < Slots
        THEN /\ mem' = [mem EXCEPT !["wrk"][1] = text]
             /\ free' = [free EXCEPT !["wrk"] = 1]
        ELSE /\ free' = [free EXCEPT !["wrk"] = 0]
             /\ UNCHANGED mem

cnt_miss ==
  /\ pc = "recv"
  /\ MakeBereq
  /\ pc' = "miss" /\ rolled' = FALSE
  /\ UNCHANGED <<rx, ws_req, http, http0, beresp, obj, resp, edits, restarts, left>>

\* The request is sent to the backend (http_Write).
FetchHdrSends ==
  /\ pc = "miss"
  /\ pc' = "send"
  /\ UNCHANGED <<mem, free, rx, ws_req, http, http0, bereq, beresp, obj, resp, edits,
                 restarts, rolled, left>>

\* FetchHdr: HTC_Init wants half of the workspace (xxxassert in WS_Reserve; the
\* child ends otherwise), the answer arrives, http_DissectResponse points at it.
\* An answer that does not fit or has too many headers is an error.
FetchHdr ==
  /\ pc = "send"
  /\ free["wrk"] + Half <= Cells
  /\ \E a \in Answers :
       LET from == free["wrk"]
           text(i) == Text(a[i], <<"backend", 0>>, i = Len(a))
       IN IF Len(a) > Half - 1 \/ Len(a) > Slots
          THEN pc' = "error" /\ UNCHANGED <<mem, free, beresp>>
          ELSE /\ mem' = [mem EXCEPT !["wrk"] =
                            [i \in 1 .. Cells |->
                               IF i \in from + 1 .. from + Len(a) THEN text(i - from)
                               ELSE @[i]]]
               /\ free' = [free EXCEPT !["wrk"] = from + Len(a)]
               /\ beresp' = [i \in 1 .. Len(a) |-> Ptr("wrk", from + i, text(i))]
               /\ pc' = "fetch"
  /\ UNCHANGED <<rx, ws_req, http, http0, bereq, obj, resp, edits, restarts, rolled, left>>

\* vcl_fetch is done.  http_EstimateWS and http_CopyHome: the object has room for
\* the texts of beresp, and gets them as they read now.
MakeObj ==
  /\ pc = "fetch"
  /\ obj' = [i \in 1 .. Len(beresp) |-> Ptr("obj", i, Reads(beresp[i]))]
  /\ pc' = "build" /\ bereq' = <<>> /\ beresp' = <<>>
  /\ UNCHANGED <<mem, free, rx, ws_req, http, http0, resp, edits, restarts, rolled, left>>

\* A restart keeps the request as it is now.
Restart ==
  /\ pc \in {"miss", "fetch"} /\ restarts < MaxRestarts
  /\ restarts' = restarts + 1
  /\ pc' = "recv" /\ bereq' = <<>> /\ beresp' = <<>>
  /\ UNCHANGED <<mem, free, rx, ws_req, http, http0, obj, resp, edits, rolled, left>>

\* A hit, or the object that cnt_error makes up.
Hit ==
  /\ pc \in {"recv", "error"}
  /\ \E a \in Answers : obj' = [i \in 1 .. Len(a) |-> Ptr("obj", i, Text(a[i], <<"object", 0>>, FALSE))]
  /\ pc' = "build" /\ bereq' = <<>> /\ beresp' = <<>>
  /\ UNCHANGED <<mem, free, rx, ws_req, http, http0, resp, edits, restarts, rolled, left>>

\* cnt_deliver, RES_BuildHttp: http_Setup, http_FilterFields, http_PrintfHeader.
\* Nothing resets the worker's workspace here.
RES_BuildHttp ==
  /\ pc = "build"
  /\ LET k == PrintfCount(obj, "wrk", Len(Printed))
         from == free["wrk"]
         text(i) == Text(Printed[i], <<"varnish", 0>>, FALSE)
     IN /\ resp' = obj \o [i \in 1 .. k |-> Ptr("wrk", from + i, text(i))]
        /\ mem' = [mem EXCEPT !["wrk"] =
                     [i \in 1 .. Cells |-> IF i \in from + 1 .. from + k THEN text(i - from)
                                           ELSE @[i]]]
        /\ free' = [free EXCEPT !["wrk"] = from + k]
  /\ pc' = "deliver"
  /\ UNCHANGED <<rx, ws_req, http, http0, bereq, beresp, obj, edits, restarts, rolled, left>>

\* RES_WriteObj: the response is sent (http_Write).
RES_WriteObj ==
  /\ pc = "deliver"
  /\ pc' = "write"
  /\ UNCHANGED <<mem, free, rx, ws_req, http, http0, bereq, beresp, obj, resp, edits,
                 restarts, rolled, left>>

\* cnt_done: "Reset the workspace to the session-watermark", HTC_Reinit moves the
\* pipelined input to where requests begin, HTC_Complete.
cnt_done ==
  /\ pc = "write"
  /\ LET n == IF pipeline = <<>> THEN 0 ELSE pipeline[2] - pipeline[1] + 1
         m == mem["sess"]
     IN /\ mem' = [mem EXCEPT !["sess"] =
                     [i \in 1 .. Cells |-> IF i <= n THEN m[pipeline[1] + i - 1] ELSE m[i]]]
        /\ HTC_Complete(mem'["sess"], n)
  /\ http' = <<>> /\ http0' = <<>> /\ resp' = <<>> /\ obj' = <<>>
  /\ edits' = 0 /\ restarts' = 0 /\ rolled' = FALSE /\ left' = 0 /\ ws_req' = 0
  /\ UNCHANGED <<got, nreq, bereq, beresp>>

Next ==
  \/ HTC_Rx \/ Herded \/ cnt_start \/ EditReq \/ EditOther \/ VRT_Rollback \/ cnt_miss
  \/ FetchHdrSends \/ FetchHdr \/ MakeObj \/ Restart \/ Hit \/ RES_BuildHttp
  \/ RES_WriteObj \/ cnt_done

Spec == Init /\ [][Next]_vars

-----------------------------------------------------------------------------
\* Cells that hold what the client sent: the k texts from the first.
HoldsSent(from, first, k) == \A i \in 0 .. k - 1 : mem["sess"][from + i] = Sent[first + i]

\* Everything that is read is what was written, however workspaces are reset and
\* used again in between: the request in VCL, what is sent to the backend (unless
\* VCL has rolled the request back since, see README), the backend's answer, the
\* response, and the pipelined input, which is the next thing the client sent.
HeadersIntact ==
  /\ Intact(http) /\ Intact(http0) /\ Intact(beresp) /\ Intact(resp)
  /\ pc \in {"miss", "send"} /\ ~rolled => Intact(bereq)
  /\ pipeline # <<>> =>
       LET k == pipeline[2] - pipeline[1] + 1 IN HoldsSent(pipeline[1], got - k + 1, k)
  /\ pc \in {"wait", "start"} =>
       LET k == IF pipeline = <<>> THEN 0 ELSE pipeline[2] - pipeline[1] + 1
       IN HoldsSent(1, got - k - rxbuf + 1, rxbuf)

\* A response has its own headers, "Connection" among them, if one request needs no
\* more than the workspace has and found it empty.  (Between two requests of one
\* connection that hit, nothing resets it, see README.)
ResponseKept ==
  pc = "write" /\ left = 0 => {Printed[i] : i \in 1 .. Len(Printed)} \subseteq NamesOf(resp)
=============================================================================
