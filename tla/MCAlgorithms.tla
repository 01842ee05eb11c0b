---------------------------- MODULE MCAlgorithms ----------------------------
(***************************************************************************)
(* Parts that do one thing each, for TLC: a body's way from the backend to *)
(* the client, an ESI document's, the workspaces headers are in, the heap  *)
(* of the expiry timer, the choice of a backend by a director, and the     *)
(* VCL compiler's checks and access lists.  They share no state; a         *)
(* behaviour follows one of them.                                          *)
(***************************************************************************)
EXTENDS Transfer, Director, TLC

CONSTANTS
  MaxParts, MaxSize, max_esi_includes,                           \* of Esi
  Cells, Slots, Names, Requests, Answers, Printed, MaxEdits, MaxRestarts,  \* Headers
  Items, Times, PageSize,                                        \* of BinaryHeap
  Methods, Subs, Returns, VclVars, Legal, Available, Graphs, Ends, Uses,   \* VclXref
  ByteBits, AddrBytes, Family, Written, MaxEntries               \* of VclAcl

\* Two requests, sent together or not, and what is added to a response.
MCRequests == << <<"a">>, <<"b", "a">> >>
MCAnswers == {<<"a", "c">>}
MCPrinted == <<"Age", "Connection">>

\* Hosts of different weight.
MCWeight == 0 :> 1 @@ 1 :> 2 @@ 2 :> 1

\* vcl_recv may end with the return action, and vcl_fetch use the variable.  The
\* bodies of methods only call, and call no method.
MCLegal == [x \in Methods |-> IF x = "recv" THEN Returns ELSE {}]
MCAvailable == [v \in VclVars |-> {"fetch"}]
Bodies2(S) == {f \in [Methods \cup Subs -> SUBSET S] : \A x \in Methods : f[x] = {}}
MCGraphs ==
  {f \in [Methods \cup Subs -> SUBSET (Subs \cup {"recv"})] :
     \A x \in Methods : f[x] \subseteq Subs}
MCEnds == Bodies2(Returns)
MCUses == Bodies2(VclVars)

\* Addresses that share the first byte, and some that do not, under every mask.
MCWritten ==
  [data : {<<2, 0, 0>>, <<2, 0, 1>>, <<2, 1, 0>>, <<2, 1, 3>>, <<2, 2, 1>>, <<2, 3, 3>>},
   mask : 0 .. AddrBytes * ByteBits, not : BOOLEAN]

VARIABLES
  part,                                                          \* the part followed
  doc, cuts, due, phase, p, s, remflg, incmt, bits, todo, http11, pend, got,  \* Esi
  hpc, mem, free, rxbuf, pipeline, rcvd, nreq, ws_req, http, http0, bereq, beresp,
  hobj, resp, edits, restarts, rolled, left,                     \* of Headers
  array, timer_idx, timer_when, op, at, v2, again,               \* of BinaryHeap
  defs, calls, rets, uses, verdict,                              \* of VclXref
  acl, err                                                       \* of VclAcl

esiVars ==
  <<doc, cuts, due, phase, p, s, remflg, incmt, bits, todo, http11, pend, got>>
wsVars == <<hpc, mem, free, rxbuf, pipeline, rcvd, nreq, ws_req, http, http0, bereq,
            beresp, hobj, resp, edits, restarts, rolled, left>>
heapVars == <<array, timer_idx, timer_when, op, at, v2, again>>
vccVars == <<defs, calls, rets, uses, verdict, acl, err>>

Page == INSTANCE Esi WITH pc <- phase, want <- due, client <- got
Ws == INSTANCE Headers WITH pc <- hpc, obj <- hobj, got <- rcvd
Heap == INSTANCE BinaryHeap
Xref == INSTANCE VclXref WITH Vars <- VclVars, Reads <- Uses
Acl == INSTANCE VclAcl

ASSUME
  /\ Page!EsiAssumption /\ Ws!HeadersAssumption /\ Heap!HeapAssumption
  /\ Xref!XrefAssumption /\ Acl!AclAssumption

\* Threads that use a director share nothing but next_host of the round-robin one:
\* the others are followed with one thread.
Second == CHOOSE t \in Callers : TRUE

\* What a part that is not followed begins with does not matter.
PartInit ==
  /\ part \in {"body", "page", "headers", "heap", "director", "xref", "acl"}
  /\ IF part = "xref" THEN Xref!Init
     ELSE /\ defs = [x \in Methods \cup Subs |-> 1] /\ calls = [x \in DOMAIN defs |-> {}]
          /\ rets = calls /\ uses = calls /\ verdict = "none"
  /\ DirectorInit
  /\ part # "director" =>
       kind = "round_robin" /\ retries = NHosts /\ vbe_healthy = [h \in Hosts |-> TRUE]
  /\ IF part = "page" THEN Page!Init
     ELSE doc = <<"t">> /\ due = <<>> /\ cuts = {} /\ Page!Begin
  /\ TransferInit /\ Ws!Init /\ Heap!Init /\ Acl!Init

PartNext ==
  /\ UNCHANGED part
  /\ \/ /\ part = "body" /\ TransferNext
        /\ UNCHANGED <<esiVars, wsVars, heapVars, directorVars, vccVars>>
     \/ /\ part = "page" /\ Page!Next
        /\ UNCHANGED <<transferVars, wsVars, heapVars, directorVars, vccVars>>
     \/ /\ part = "headers" /\ Ws!Next
        /\ UNCHANGED <<transferVars, esiVars, heapVars, directorVars, vccVars>>
     \/ /\ part = "heap" /\ Heap!Next
        /\ UNCHANGED <<transferVars, esiVars, wsVars, directorVars, vccVars>>
     \/ /\ part = "director" /\ DirectorNext
        /\ kind # "round_robin" => pick'[Second] = pick[Second]
        /\ UNCHANGED <<transferVars, esiVars, wsVars, heapVars, vccVars>>
     \/ /\ part = "xref" /\ Xref!Next
        /\ UNCHANGED <<transferVars, esiVars, wsVars, heapVars, directorVars, acl, err>>
     \/ /\ part = "acl" /\ Acl!Next
        /\ UNCHANGED <<transferVars, esiVars, wsVars, heapVars, directorVars, defs, calls, rets, uses,
                       verdict>>

PartSpec ==
  PartInit /\ [][PartNext]_<<part, transferVars, esiVars, wsVars, heapVars, directorVars, vccVars>>

\* EsiExact and EsiFramed of Esi: the bits of a page are its text and includes
\* (ESI_Parse), and they make one chunked body (ESI_Deliver).
EsiExact == part = "page" => Page!EsiExact /\ Page!EsiFramed

\* HeadersIntact of Headers: no header is read after its workspace cell was used
\* again (cache_ws.c, cache_http.c, cache_httpconn.c), ...
HeadersIntact == part = "headers" => Ws!HeadersIntact

\* ... and a request that begins with an empty workspace loses none
\* (RES_BuildHttp).
ResponseKept == Ws!ResponseKept

\* HeapExact of BinaryHeap: binary_heap.c keeps every objcore it was given, and
\* tells each where it is.
HeapExact == part = "heap" => Heap!HeapExact

\* XrefExact of VclXref: vcc_xref.c accepts the programs that are sound.
XrefExact == part = "xref" => Xref!XrefExact

\* AclBytesExact of VclAcl: the code vcc_acl_emit writes for entries of whole bytes
\* answers as the longest entry that covers the address.
AclBytesExact == part = "acl" => Acl!AclBytesExact
=============================================================================
