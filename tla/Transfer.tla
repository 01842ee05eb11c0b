------------------------------ MODULE Transfer ------------------------------
(***************************************************************************)
(* A body on its way through a worker: from the backend's connection into  *)
(* storage (cache_fetch.c: FetchHdr, FetchBody and the three ways to frame *)
(* a body; cache_httpconn.c: HTC_Rx and HTC_Read with their pipeline), and *)
(* from storage to the client (cache_response.c: RES_WriteObj; cache_wrw.c:*)
(* gathered writes).  The backend's connection is kept for the next        *)
(* request when the code believes the response has been read to its end.   *)
(*                                                                         *)
(* What travels is a sequence of units: a response header, a chunk's       *)
(* length line, a line end, a byte of body.  Each is marked with the       *)
(* request it belongs to, which the program does not see.  A read takes    *)
(* any number of units, at most what it asked for.                         *)
(***************************************************************************)
EXTENDS Naturals, Sequences, FiniteSets, SequencesExt

CONSTANTS NReq,       \* bound: requests, one after the other
          Bodies,     \* lengths of bodies
          Spaces,     \* sizes STV_alloc may return a storage with
          siov        \* how many pieces a gathered write holds

ASSUME TransferAssumption ==
  /\ NReq \in Nat \ {0} /\ Bodies \subseteq Nat /\ 0 \in Bodies
  /\ Spaces \subseteq Nat \ {0} /\ siov \in Nat \ {0}

VARIABLES xid,    \* the request being served
          pc,     \* where the worker is
          conn,   \* the backend's connection: "none", "used" or "idle"
          wire,   \* sent by the backend on it, and not yet read
          eof,    \* the backend has closed its end
          pipe,   \* htc->pipeline: read along with the header
          hp,     \* the header of the response being fetched
          obj,    \* sp->obj: its storages (space and bytes) and its length
          want,   \* bytes still to come: cl of a length, u of a chunk
          wrw,    \* the gathered write: pieces held, errors, pieces to come
          client, \* what the client has received of this response
          asked   \* history: the response the backend gave to request xid

fetchVars == <<conn, wire, eof, pipe, hp, obj, want, asked>>
transferVars == <<xid, pc, conn, wire, eof, pipe, hp, obj, want, wrw, client, asked>>

(***************************************************************************)
(* What a backend sends                                                    *)
(***************************************************************************)
\* A response header: is it the answer to a HEAD, how does it give the
\* body's length, what does it say of the connection, is it HTTP/1.1.
Headers == [head : BOOLEAN, te : {"length", "chunked", "bad", "none"},
            connection : {"close", "keep-alive", "none"}, http11 : BOOLEAN,
            body : Bodies]

Unit(t, v) == [of |-> xid, t |-> t, v |-> v]
Header(h) == [of |-> xid, t |-> "hdr", hdr |-> h]
Data(n) == [i \in 1..n |-> Unit("data", i)]

\* A chunked body of n bytes: in one chunk, or with its first byte apart.
Chunk(from, n) ==
  <<Unit("size", n)>> \o [i \in 1..n |-> Unit("data", from + i)]
    \o <<Unit("nl", 0)>>
Chunked(n) ==
  {s \o <<Unit("size", 0)>> \o t \o <<Unit("nl", 0)>> :
     s \in IF n = 0 THEN {<<>>}
           ELSE {Chunk(0, n)} \cup
                (IF n = 1 THEN {} ELSE {Chunk(0, 1) \o Chunk(1, n - 1)}),
     t \in {<<>>, <<Unit("trailer", 0)>>}}

\* A backend closes the connection when it says so, or speaks old HTTP and
\* does not say otherwise.
BackendKeeps(h) ==
  h.connection = "keep-alive" \/ (h.connection = "none" /\ h.http11)

BodyOn(h) ==
  IF h.head \/ h.te = "bad" THEN {<<>>}
  ELSE IF h.te = "length" THEN {Data(h.body)}
  ELSE IF h.te = "chunked" THEN Chunked(h.body)
  ELSE IF BackendKeeps(h) THEN {<<>>} ELSE {Data(h.body)}

\* A response that has no body says nothing of one.
SaneHeader(h) ==
  h.te = "bad" \/ (h.te = "none" /\ (BackendKeeps(h) \/ h.head)) => h.body = 0

(***************************************************************************)
(* HTC_Rx, HTC_Complete, HTC_Read                                          *)
(***************************************************************************)
IsSpace(u) == u.t = "nl"

\* The header in what was read, if it is complete: leading white space is
\* skipped, what follows the header is pipelined.
htc_header_complete(s) == SelectInSeq(s, LAMBDA u : ~IsSpace(u))

\* Let go of the connection: closed, or kept for the next request.
VBE_ClosedFd == conn' = "none" /\ wire' = <<>> /\ eof' = FALSE
VBE_RecycleFd == conn' = "idle" /\ UNCHANGED <<wire, eof>>

Failed ==
  /\ pc' = "error"
  /\ obj' = [store |-> <<>>, len |-> 0]
  /\ VBE_ClosedFd
  /\ UNCHANGED <<hp, want>>

\* Mutated form: the pipeline is not advanced past what was taken from it.
HTC_Read_again(len) ==
  LET l == IF Len(pipe) > len THEN len ELSE Len(pipe)
      rest == len - l
      most == IF rest < Len(wire) THEN rest ELSE Len(wire)
      Took(n) == [data |-> SubSeq(pipe, 1, l) \o SubSeq(wire, 1, n),
                  pipe |-> pipe, wire |-> SubSeq(wire, n + 1, Len(wire))]
  IN  IF rest = 0 THEN {Took(0)}
      ELSE IF wire = <<>> THEN IF eof THEN {Took(0)} ELSE {}
      ELSE {Took(n) : n \in 1..most}

\* HTC_Read(htc, d, len): what is pipelined comes first, and a read(2) only
\* if that was not enough.  The units taken, and what is left of both.
HTC_Read(len) ==
  LET l == IF Len(pipe) > len THEN len ELSE Len(pipe)
      rest == len - l
      most == IF rest < Len(wire) THEN rest ELSE Len(wire)
      Took(n) == [data |-> SubSeq(pipe, 1, l) \o SubSeq(wire, 1, n),
                  pipe |-> SubSeq(pipe, l + 1, Len(pipe)),
                  wire |-> SubSeq(wire, n + 1, Len(wire))]
  IN  IF rest = 0 THEN {Took(0)}
      ELSE IF wire = <<>> THEN IF eof THEN {Took(0)} ELSE {}
      ELSE {Took(n) : n \in 1..most}

\* read(2) is called and fails; what came from the pipeline is lost with it.
ReadError(len) == Len(pipe) < len

(***************************************************************************)
(* The connection and the request                                          *)
(***************************************************************************)
TransferInit ==
  /\ xid = 1 /\ pc = "get"
  /\ conn = "none" /\ wire = <<>> /\ eof = FALSE /\ pipe = <<>>
  /\ hp = [head |-> FALSE, te |-> "none", connection |-> "none",
           http11 |-> TRUE, body |-> 0]
  /\ obj = [store |-> <<>>, len |-> 0] /\ want = 0
  /\ wrw = [iov |-> <<>>, werr |-> FALSE, todo |-> <<>>, all |-> <<>>]
  /\ client = <<>> /\ asked = hp

\* An idle connection is used again unless something can be read from it
\* (what is still under way is not seen); else a new one is tried.
VBE_GetFd ==
  /\ pc = "get"
  /\ \/ /\ conn = "idle" /\ conn' = "used" /\ pc' = "send"
        /\ UNCHANGED <<wire, eof>>
     \/ /\ conn = "none" \/ wire # <<>> \/ eof
        /\ wire' = <<>> /\ eof' = FALSE
        /\ \/ conn' = "used" /\ pc' = "send"
           \/ conn' = "none" /\ pc' = "error"              \* bes_conn_try
  /\ UNCHANGED <<xid, pipe, hp, obj, want, wrw, client, asked>>

\* The request's own body: passed on or discarded (0), not readable or in
\* chunks (1), not taken by the backend (2).
FetchReqBody == 0..2

\* The first half of FetchHdr: write the request, which the backend answers.
FetchHdr_send ==
  /\ pc = "send"
  /\ \/ /\ \E i \in FetchReqBody, werr \in BOOLEAN : werr \/ i > 0
        /\ Failed /\ UNCHANGED <<pipe, asked>>               \* write error
     \/ /\ eof /\ pc' = "rx" /\ pipe' = <<>>
        /\ UNCHANGED <<conn, wire, eof, hp, obj, want, asked>>
     \/ /\ ~eof
        /\ \E h \in Headers : \E b \in BodyOn(h) :
             /\ SaneHeader(h)
             /\ wire' = wire \o <<Header(h)>> \o b
             /\ eof' = ~BackendKeeps(h)
             /\ asked' = h
        /\ pc' = "rx" /\ pipe' = <<>>                          \* HTC_Init
        /\ UNCHANGED <<conn, hp, obj, want>>
  /\ UNCHANGED <<xid, wrw, client>>

\* The backend dies, or cuts the connection: the rest of what it had to say
\* is lost.
BackendCloses ==
  /\ conn = "used" /\ wire # <<>>
  /\ \E n \in 0..Len(wire) - 1 : wire' = SubSeq(wire, 1, n)
  /\ eof' = TRUE
  /\ UNCHANGED <<xid, pc, conn, pipe, hp, obj, want, wrw, client, asked>>

\* The second half: HTC_Rx until the header is complete.
FetchHdr_rx ==
  /\ pc = "rx"
  /\ \/ Failed /\ UNCHANGED pipe                             \* EOF, timeout
     \/ \E n \in 1..Len(wire) :
          LET rxbuf == SubSeq(wire, 1, n)
              i == htc_header_complete(rxbuf)
          IN  /\ \/ /\ i = 0                                 \* keep trying
                    /\ wire' = SubSeq(wire, n + 1, Len(wire))
                    /\ UNCHANGED <<pc, conn, eof, pipe, hp, obj, want>>
                 \/ /\ i # 0 /\ rxbuf[i].t # "hdr"    \* http_DissectResponse
                    /\ Failed /\ UNCHANGED pipe
                 \/ /\ i # 0 /\ rxbuf[i].t = "hdr"
                    /\ hp' = rxbuf[i].hdr
                    /\ pipe' = SubSeq(rxbuf, i + 1, n)
                    /\ wire' = SubSeq(wire, n + 1, Len(wire))
                    /\ pc' = "body"
                    /\ UNCHANGED <<conn, eof, obj, want>>
  /\ UNCHANGED <<xid, wrw, client, asked>>

(***************************************************************************)
(* FetchBody                                                               *)
(***************************************************************************)
\* How the body is framed, from what the header says.
Framing(h) ==
  IF h.head THEN "empty"
  ELSE IF h.te \in {"length", "chunked", "bad"} THEN h.te
  ELSE IF h.connection = "keep-alive" THEN "empty"
  ELSE IF h.connection = "close" \/ ~h.http11 THEN "eof" ELSE "empty"

FetchBody ==
  /\ pc = "body"
  /\ \/ /\ Framing(hp) = "length"
        /\ want' = hp.body
        /\ pc' = IF hp.body = 0 THEN "done" ELSE "straight"
        /\ UNCHANGED <<conn, wire, eof, hp, obj>>
     \/ /\ Framing(hp) = "chunked" /\ want' = 0 /\ pc' = "chunkline"
        /\ UNCHANGED <<conn, wire, eof, hp, obj>>
     \/ /\ Framing(hp) = "eof" /\ pc' = "eof"
        /\ UNCHANGED <<conn, wire, eof, hp, obj, want>>
     \/ /\ Framing(hp) = "empty" /\ pc' = "done"
        /\ UNCHANGED <<conn, wire, eof, hp, obj, want>>
     \/ Framing(hp) = "bad" /\ Failed
  /\ UNCHANGED <<xid, pipe, wrw, client, asked>>

Cur == obj.store[Len(obj.store)]
NeedStorage == obj.store # <<>> => Len(Cur.data) = Cur.space
SpaceLeft == Cur.space - Len(Cur.data)

\* STV_alloc hangs another storage on the object.
STV_alloc(sp) ==
  obj' = [obj EXCEPT !.store = Append(@, [space |-> sp, data |-> <<>>])]

Store(d) ==
  [store |-> [obj.store EXCEPT ![Len(obj.store)].data = @ \o d],
   len |-> obj.len + Len(d)]

\* Read up to len units into the current storage; nothing read is an error.
ReadInto(len, Then(_)) ==
  \/ /\ ReadError(len)
     /\ Failed /\ UNCHANGED pipe
  \/ \E r \in HTC_Read(len) :
       /\ pipe' = r.pipe
       /\ IF r.data = <<>> THEN Failed
          ELSE /\ wire' = r.wire /\ obj' = Store(r.data)
               /\ Then(Len(r.data))
               /\ UNCHANGED <<conn, eof, hp>>

fetch_straight ==
  /\ pc = "straight"
  /\ \/ /\ NeedStorage
        /\ \E sp \in Spaces : STV_alloc(sp)
        /\ UNCHANGED <<pc, conn, wire, eof, pipe, hp, want>>
     \/ /\ ~NeedStorage
        /\ ReadInto(IF want < SpaceLeft THEN want ELSE SpaceLeft,
             LAMBDA n : /\ want' = want - n
                        /\ pc' = IF want = n THEN "done" ELSE "straight")
  /\ UNCHANGED <<xid, wrw, client, asked>>

\* A unit at a time until it is a length; line ends before it are skipped.
ChunkLine ==
  /\ pc = "chunkline"
  /\ \/ ReadError(1) /\ Failed /\ UNCHANGED pipe
     \/ \E r \in HTC_Read(1) :
          /\ pipe' = r.pipe
          /\ \/ /\ r.data # <<>> /\ r.data[1].t = "nl"
                /\ wire' = r.wire
                /\ UNCHANGED <<pc, conn, eof, hp, obj, want>>
             \/ /\ r.data # <<>> /\ r.data[1].t = "size"
                /\ wire' = r.wire
                /\ want' = r.data[1].v
                /\ pc' = IF want' = 0 THEN "trim" ELSE "chunk"
                /\ UNCHANGED <<conn, eof, hp, obj>>
             \/ r.data = <<>> /\ Failed
  /\ UNCHANGED <<xid, wrw, client, asked>>

ChunkData ==
  /\ pc = "chunk"
  /\ \/ /\ NeedStorage
        /\ \E sp \in Spaces : STV_alloc(sp)
        /\ UNCHANGED <<pc, conn, wire, eof, pipe, hp, want>>
     \/ /\ ~NeedStorage
        /\ ReadInto(IF want < SpaceLeft THEN want ELSE SpaceLeft,
             LAMBDA n : /\ want' = want - n
                        /\ pc' = IF want = n THEN "chunkline" ELSE "chunk")
  /\ UNCHANGED <<xid, wrw, client, asked>>

fetch_eof ==
  /\ pc = "eof"
  /\ \/ /\ NeedStorage
        /\ \E sp \in Spaces : STV_alloc(sp)
        /\ UNCHANGED <<pc, conn, wire, eof, pipe, hp, want>>
     \/ /\ ~NeedStorage
        /\ \/ ReadError(SpaceLeft) /\ Failed /\ UNCHANGED pipe
           \/ \E r \in HTC_Read(SpaceLeft) :
                /\ pipe' = r.pipe /\ wire' = r.wire
                /\ obj' = Store(r.data)
                /\ pc' = IF r.data = <<>> THEN "trim" ELSE "eof"
                /\ UNCHANGED <<conn, eof, hp, want>>
  /\ UNCHANGED <<xid, wrw, client, asked>>

\* The last storage is cut to what it holds, or given back if that is none.
Trimmed ==
  IF obj.store = <<>> THEN obj
  ELSE IF Cur.data = <<>> THEN [obj EXCEPT !.store = Front(@)]
  ELSE [obj EXCEPT !.store[Len(obj.store)].space = Len(Cur.data)]

Trim ==
  /\ pc = "trim"
  /\ obj' = Trimmed
  /\ pc' = "done"
  /\ UNCHANGED <<xid, conn, wire, eof, pipe, hp, want, wrw, client, asked>>

\* May the connection serve another request?
Keep(h) ==
  /\ Framing(h) # "eof"
  /\ h.connection # "close"
  /\ h.http11 \/ h.connection = "keep-alive"

\* The end of FetchBody: the connection is closed or recycled, and the
\* object is delivered.
FetchDone ==
  /\ pc = "done"
  /\ IF Keep(hp) THEN VBE_RecycleFd ELSE VBE_ClosedFd
  /\ pc' = "deliver"
  /\ UNCHANGED <<xid, pipe, hp, obj, want, wrw, client, asked>>

(***************************************************************************)
(* RES_WriteObj and the gathered write                                     *)
(***************************************************************************)
\* The pieces of a response: the header's lines, and each storage; inside an
\* ESI document, for HTTP/1.1, a chunk's length before them and a line end
\* after them.
Pieces(wantbody, esi, http11) ==
  LET body == [i \in 1..Len(obj.store) |-> obj.store[i].data]
      chunk == esi /\ http11 /\ obj.len > 0
  IN  (IF esi THEN <<>> ELSE <<<<Unit("status", 0)>>, <<Unit("fields", 0)>>>>)
      \o (IF wantbody /\ chunk THEN <<<<Unit("size", obj.len)>>>> ELSE <<>>)
      \o (IF wantbody THEN body ELSE <<>>)
      \o (IF wantbody /\ chunk THEN <<<<Unit("nl", 0)>>>> ELSE <<>>)

RES_WriteObj ==
  /\ pc = "deliver"
  /\ \E wantbody, esi, http11 \in BOOLEAN :
       LET ps == Pieces(wantbody, esi, http11)
       IN  wrw' = [iov |-> <<>>, werr |-> FALSE, todo |-> ps,   \* WRW_Reserve
                   all |-> FlattenSeq(ps)]
  /\ client' = <<>>
  /\ pc' = "write"
  /\ UNCHANGED <<xid, fetchVars>>

\* Mutated form: a write is tried again after one has failed.
WRW_Flush_on(iov, werr) ==
  {[sent |-> FlattenSeq(iov), werr |-> werr]} \cup
  {[sent |-> SubSeq(FlattenSeq(iov), 1, n), werr |-> TRUE] :
     n \in 0..Len(FlattenSeq(iov)) - 1}

\* WRW_Flush writes everything held, or fails after a part of it; after a
\* failure nothing is written any more.
WRW_Flush(iov, werr) ==
  IF iov = <<>> \/ werr THEN {[sent |-> <<>>, werr |-> werr]}
  ELSE {[sent |-> FlattenSeq(iov), werr |-> FALSE]} \cup
       {[sent |-> SubSeq(FlattenSeq(iov), 1, n), werr |-> TRUE] :
          n \in 0..Len(FlattenSeq(iov)) - 1}

WRW_Write ==
  /\ pc = "write" /\ wrw.todo # <<>>
  /\ LET p == Head(wrw.todo) IN
       IF p = <<>> \/ Len(wrw.iov) < siov
       THEN /\ wrw' = [wrw EXCEPT !.todo = Tail(@),
                              !.iov = IF p = <<>> THEN @ ELSE Append(@, p)]
            /\ UNCHANGED client
       ELSE \E f \in WRW_Flush(wrw.iov, wrw.werr) :
              /\ wrw' = [wrw EXCEPT !.todo = Tail(@), !.iov = <<p>>,
                                !.werr = f.werr]
              /\ client' = client \o f.sent
  /\ UNCHANGED <<xid, pc, fetchVars>>

\* The last flush; an error closes the client's session.
WRW_FlushRelease ==
  /\ pc = "write" /\ wrw.todo = <<>>
  /\ \E f \in WRW_Flush(wrw.iov, wrw.werr) :
       /\ client' = client \o f.sent
       /\ wrw' = [wrw EXCEPT !.iov = <<>>, !.werr = f.werr]
       /\ pc' = IF f.werr THEN "closed" ELSE "sent"
  /\ UNCHANGED <<xid, fetchVars>>

\* The worker goes on to another request.
NextRequest ==
  /\ pc \in {"error", "closed", "sent"}
  /\ xid < NReq
  /\ xid' = xid + 1 /\ pc' = "get"
  /\ obj' = [store |-> <<>>, len |-> 0]
  /\ wrw' = [iov |-> <<>>, werr |-> FALSE, todo |-> <<>>, all |-> <<>>]
  /\ client' = <<>>
  /\ UNCHANGED <<conn, wire, eof, pipe, hp, want, asked>>

Finished ==
  /\ pc \in {"error", "closed", "sent"} /\ xid = NReq
  /\ UNCHANGED transferVars

TransferNext ==
  \/ VBE_GetFd \/ FetchHdr_send \/ BackendCloses \/ FetchHdr_rx \/ FetchBody
  \/ fetch_straight \/ ChunkLine \/ ChunkData \/ fetch_eof \/ Trim \/ FetchDone
  \/ RES_WriteObj \/ WRW_Write \/ WRW_FlushRelease
  \/ NextRequest \/ Finished

TransferSpec == TransferInit /\ [][TransferNext]_transferVars

(***************************************************************************)
(* Properties                                                              *)
(***************************************************************************)
TransferTypeOK ==
  /\ xid \in 1..NReq
  /\ conn \in {"none", "used", "idle"} /\ eof \in BOOLEAN
  /\ hp \in Headers /\ asked \in Headers
  /\ obj.len \in Nat /\ want \in Nat
  /\ Len(wrw.iov) <= siov

ObjData == FlattenSeq([i \in 1..Len(obj.store) |-> obj.store[i].data])

(* However the body was framed, cut into reads, split between the pipeline *)
(* and the socket and spread over storages, a fetch that succeeds has      *)
(* stored the bytes of the response to this request, in order, none        *)
(* missing and none from another response; only a body that ends with the  *)
(* connection can be cut short by a backend that dies.  The object's       *)
(* length is the sum of its storages (asserted in FetchBody and            *)
(* RES_WriteObj), none of which is empty or has unused space, save the     *)
(* last of a body of known length.  A fetch that fails leaves nothing.     *)
BodyExact ==
  /\ TransferTypeOK
  /\ obj.len = Len(ObjData)
  /\ pc \in {"deliver", "write", "sent", "closed"} =>
       /\ \A i \in 1..obj.len :
            ObjData[i].of = xid /\ ObjData[i].t = "data" /\ ObjData[i].v = i
       /\ hp = asked
       /\ obj.len <= hp.body
       /\ Framing(hp) \in {"length", "chunked"} => obj.len = hp.body
       /\ \A i \in 1..Len(obj.store) : obj.store[i].data # <<>>
       /\ \A i \in 1..Len(obj.store) :
            Len(obj.store[i].data) = obj.store[i].space
              \/ (Framing(hp) = "length" /\ i = Len(obj.store))
  /\ pc = "error" => obj = [store |-> <<>>, len |-> 0] /\ conn = "none"

(* A connection that is kept for another request has been read to the end  *)
(* of the response, but for the trailer and the line end after a last      *)
(* chunk; and the backend has not said that it would close it.             *)
RecycledAtEnd ==
  conn = "idle" =>
    /\ wire # <<>> => Framing(asked) = "chunked"
    /\ \A i \in 1..Len(wire) : wire[i].t \in {"trailer", "nl"}
    /\ BackendKeeps(asked)

(* What is stored is the body the backend sent (FetchBody), and a          *)
(* connection is recycled only at the end of a response (VBE_RecycleFd).   *)
BodyStored == BodyExact /\ RecycledAtEnd

(* The client receives a beginning of the response, piece by piece in      *)
(* order, whatever write fails; and all of it if its session stays open.   *)
DeliveredWhole ==
  /\ pc \in {"write", "sent", "closed"} => IsPrefix(client, wrw.all)
  /\ pc = "sent" => client = wrw.all
=============================================================================
