-------------------------------- MODULE Esi --------------------------------
(***************************************************************************)
(* cache_esi.c: an object's body, spread over storages, is parsed into     *)
(* bits (ESI_Parse): a piece of one storage to be sent as it is, and       *)
(* possibly an include after it.  ESI_Deliver sends the bits in chunks and *)
(* serves each include on the way, which may be an ESI object again.       *)
(*                                                                         *)
(* A symbol of a document stands for a run of characters: "<!--" "esi"     *)
(* opens an ESI comment, "--" ">" ends one, "<esi:" name ">" is an element,*)
(* "<" is any other language element, "t" is text.  A storage may end      *)
(* after any symbol.  A document is made of constructs, each with what the *)
(* client is to get of it.                                                 *)
(***************************************************************************)
EXTENDS Naturals, Sequences, FiniteSets, FiniteSetsExt, SequencesExt

CONSTANTS MaxParts,          \* bound: constructs in a document
          MaxSize,           \* bound: constructs and storages of a document
          max_esi_includes   \* params->max_esi_includes

EsiAssumption == MaxParts \in Nat /\ MaxSize \in Nat /\ max_esi_includes \in Nat

VARIABLES doc,    \* the body
          cuts,   \* where its second and later storages begin
          want,   \* what the client is to get: symbols and "include"
          pc,     \* where the worker is
          p, s,   \* ew->p, ew->s: a place in the body, and the storage
          remflg, \* inside <esi:remove>
          incmt,  \* inside <!--esi
          bits,   \* ew->esibits, later obj->esidata
          todo,   \* for each object being delivered, the bits still to send
          http11, \* sp->http->protover >= 1.1
          pend,   \* written, not flushed
          client  \* what the client has got: chunks, and a last one

parseVars == <<p, s, remflg, incmt, bits>>
sendVars == <<todo, http11, pend, client>>
vars == <<doc, cuts, want, pc, parseVars, sendVars>>

(***************************************************************************)
(* Documents                                                               *)
(***************************************************************************)
Part(src, out) == [src |-> src, out |-> out]
Same(src) == Part(src, src)

Text == Same(<<"t">>)
Other == Same(<<"<", ">">>)
Element(name, out) == Part(<<"<esi:", name, ">">>, out)
Include == Element("include", <<"include">>)
Hidden(open, close) == Same(<<open>> \o Include.src \o <<close, ">">>)

Simple == {Text, Other, Include, Element("comment", <<>>), Element("vars", <<>>),
           Hidden("<!--", "--"), Hidden("<![", "]]")}

Commented(q) ==
  Part(<<"<!--", "esi">> \o q.src \o <<"--", ">">>, q.out)
Removed(q) ==
  Part(Element("remove", <<>>).src \o q.src \o <<"</esi:", "remove", ">">>, <<>>)
Parts == Simple \cup {Commented(q) : q \in Simple} \cup {Removed(q) : q \in Simple}

\* How a document may end: properly, or in the middle of something.
Tails == {<<>>, <<Text>>, <<Same(<<"<esi:", "include">>)>>,
          <<Part(Element("remove", <<>>).src \o <<"t">>, <<>>)>>,
          <<Part(<<"<!--", "esi", "t">>, <<"t">>)>>}

\* CMP reads on past the end of what it looks for when the body ends there
\* too, and finds a difference: an ESI comment that ends with the body is not
\* seen to end.
Unended(parts) ==
  IF parts # <<>> /\ \E q \in Simple : Last(parts) = Commented(q)
  THEN <<"--", ">">> ELSE <<>>

StartsElement == {"<", "<!--", "<esi:", "</esi:", "<!["}

Concat(parts, f(_)) == FlattenSeq([i \in 1..Len(parts) |-> f(parts[i])])

Document(parts) ==
  Part(Concat(parts, LAMBDA q : q.src),
       Concat(parts, LAMBDA q : q.out) \o Unended(parts))

\* Up to m places in n symbols where a storage ends and the next begins.
Cuts(n, m) == {{f[i] : i \in 1..m} \ {1} : f \in [1..m -> 1..n]}

(***************************************************************************)
(* Places: Nep, N, CMP                                                     *)
(***************************************************************************)
StorageEnds == {c - 1 : c \in cuts} \cup {Len(doc)}

\* The storage symbol i is in, 0 behind the last.
StorageOf(i) ==
  IF i > Len(doc) THEN 0 ELSE 1 + Cardinality({c \in cuts : c <= i})

\* Nep keeps a place and its storage together, from storage to storage.
Nep(i) == [p |-> i, st |-> StorageOf(i)]
Finis == Nep(Len(doc) + 1)

\* Is str what stands at i?  Never at the very end of the body (see above).
CMP(i, str) ==
  /\ i + Len(str) <= Len(doc)
  /\ SubSeq(doc, i, i + Len(str) - 1) = str

\* The first place after i, if any, at which one of a set stands, else Finis.
After(i, places) ==
  LET js == {j \in places : j > i} IN IF js = {} THEN Len(doc) + 1 ELSE Min(js)

Closing(c) == {j \in 1..Len(doc) : CMP(j, <<c, ">">>)}
Brackets == {j \in 1..Len(doc) : doc[j] = ">"}

(***************************************************************************)
(* Bits                                                                    *)
(***************************************************************************)
\* The place s points to is in the storage it names.
Sane(q) == q.st = StorageOf(q.p)

\* Mutated form: the rest of the storage that s is in is not added.
Prefix_last(a, b) ==
  IF a.p < b.p /\ b.st # 0
  THEN <<[from |-> Max({a.p} \cup {c \in cuts : c <= b.p}), to |-> b.p - 1,
          include |-> FALSE]>>
  ELSE <<>>

\* The bits between two places, one for each storage.
Prefix(a, b) ==
  LET stops == SetToSortSeq({e \in StorageEnds : e >= a.p /\ e < b.p - 1} \cup
                            (IF a.p < b.p THEN {b.p - 1} ELSE {}),
                            LAMBDA x, y : x < y)
  IN  [i \in 1..Len(stops) |->
         [from |-> IF i = 1 THEN a.p ELSE stops[i - 1] + 1, to |-> stops[i],
          include |-> FALSE]]

\* esi_addpfx: what lies between s and q becomes bits, unless it is removed.
\* With an s that is not in its storage this computes the length of a bit
\* from addresses of two storages: undefined, no step is modelled.
esi_addpfx(q) ==
  IF remflg THEN bits ELSE bits \o Prefix(s, q)
PfxDefined == remflg \/ Sane(s)

\* esi_handle_include: the include goes with the last bit, or with a new and
\* empty one if that has an include.
esi_handle_include(bs) ==
  LET empty == [from |-> 1, to |-> 0, include |-> TRUE]
  IN  IF bs = <<>> \/ Last(bs).include THEN Append(bs, empty)
      ELSE [bs EXCEPT ![Len(bs)].include = TRUE]

(***************************************************************************)
(* ESI_Parse                                                               *)
(***************************************************************************)
Begin ==
  /\ pc = "look"
  /\ p = [p |-> 1, st |-> 1] /\ s = [p |-> 1, st |-> 1]
  /\ remflg = FALSE /\ incmt = FALSE /\ bits = <<>>
  /\ todo = <<>> /\ http11 = TRUE /\ pend = <<>> /\ client = <<>>

Init ==
  /\ \E parts \in BoundedSeq(Parts, MaxParts), tail \in Tails :
       LET d == Document(parts \o tail)
       IN  /\ d.src # <<>>
           /\ doc = d.src /\ want = d.out
           /\ cuts \in Cuts(Len(d.src), MaxSize - Len(parts))
  /\ Begin

looks_like_xml == doc[1] \in StartsElement
contain_esi ==
  \E i \in 1..Len(doc) : \/ doc[i] = "<esi:"
                         \/ doc[i] = "<!--" /\ i < Len(doc) /\ doc[i + 1] = "esi"

\* An object that does not look like XML, or holds nothing for ESI, is left
\* as it is.
Look ==
  /\ pc = "look"
  /\ pc' = IF looks_like_xml /\ contain_esi THEN "parse" ELSE "plain"
  /\ UNCHANGED <<doc, cuts, want, parseVars, sendVars>>

Parsing == pc = "parse" /\ p.st # 0
ParseStep == UNCHANGED <<doc, cuts, want, pc, sendVars>>

EndOfEsiComment == incmt /\ CMP(p.p, <<"--", ">">>)

end_esi_comment ==
  /\ Parsing /\ EndOfEsiComment /\ PfxDefined
  /\ bits' = esi_addpfx(p)
  /\ p' = Nep(p.p + 2) /\ s' = p'
  /\ incmt' = FALSE
  /\ UNCHANGED remflg /\ ParseStep

\* Skip forward to the first "<".
skip_text ==
  /\ Parsing /\ ~EndOfEsiComment
  /\ doc[p.p] \notin StartsElement
  /\ p' = Nep(p.p + 1)
  /\ UNCHANGED <<s, remflg, incmt, bits>> /\ ParseStep

\* s.p follows p.p, and s.st stays.
parse_esi_comment ==
  /\ Parsing /\ CMP(p.p, <<"<!--", "esi">>) /\ PfxDefined
  /\ ~incmt                                                       \* assert
  /\ bits' = esi_addpfx(p)
  /\ p' = Nep(p.p + 2)
  /\ s' = [p |-> p'.p, st |-> p.st]
  /\ incmt' = TRUE
  /\ UNCHANGED remflg /\ ParseStep

\* Up to the end mark, or to the end of the body.
Behind(c) == LET j == After(p.p, Closing(c)) IN IF j > Len(doc) THEN Finis ELSE Nep(j + 2)

parse_comment ==
  /\ Parsing /\ doc[p.p] = "<!--" /\ ~CMP(p.p, <<"<!--", "esi">>)
  /\ p' = Behind("--")
  /\ UNCHANGED <<s, remflg, incmt, bits>> /\ ParseStep

parse_cdata ==
  /\ Parsing /\ doc[p.p] = "<![" /\ PfxDefined
  /\ bits' = esi_addpfx(p)
  /\ s' = p
  /\ p' = Behind("]]")
  /\ UNCHANGED <<remflg, incmt>> /\ ParseStep

\* Elements inside <esi:remove> have no effect, but for its end.
Handled(name, rem) == name = "include" /\ ~rem

parse_esi_tag ==
  /\ Parsing /\ doc[p.p] \in {"<esi:", "</esi:"} /\ PfxDefined
  /\ LET closing == doc[p.p] = "</esi:"
         j == After(p.p, Brackets)
         name == doc[p.p + 1]
     IN  IF j > Len(doc)                   \* incomplete language element
         THEN /\ bits' = IF remflg THEN bits
                         ELSE bits \o Prefix(s, p) \o Prefix(p, Finis)
              /\ p' = Finis /\ s' = Finis
              /\ UNCHANGED remflg
         ELSE /\ p' = Nep(j + 1) /\ s' = p'
              /\ remflg' = IF name = "remove" THEN ~closing ELSE remflg
              /\ bits' = IF Handled(name, remflg)
                         THEN esi_handle_include(esi_addpfx(p)) ELSE esi_addpfx(p)
  /\ UNCHANGED incmt /\ ParseStep

\* Something we don't care about: up to its ">", which is text.
skip_element ==
  /\ Parsing /\ doc[p.p] = "<"
  /\ p' = Nep(After(p.p, Brackets))
  /\ UNCHANGED <<s, remflg, incmt, bits>> /\ ParseStep

\* What is left becomes bits, and the bits are put into a storage.
ParseDone ==
  /\ pc = "parse" /\ p.st = 0 /\ PfxDefined
  /\ bits' = esi_addpfx(Finis)
  /\ s' = Finis
  /\ pc' = "parsed"
  /\ UNCHANGED <<doc, cuts, want, p, remflg, incmt, sendVars>>

(***************************************************************************)
(* ESI_Deliver: chunks are given by their lengths; 0 is the last chunk.    *)
(***************************************************************************)
DeliverStep == UNCHANGED <<doc, cuts, want, parseVars>>

\* WRW_FlushRelease, after c has been written: all or a part gets out, and
\* after a part the session is closed.
Flushed(c, next) ==
  /\ pend' = <<>>
  /\ \/ client' = client \o c /\ pc' = next
     \/ /\ \E n \in 0..Len(c) : client' = client \o SubSeq(c, 1, n)
        /\ pc' = "closed"

esis == Len(todo) - 1
Bit == Head(Last(todo))
BitLen == Bit.to + 1 - Bit.from
Rest == [todo EXCEPT ![Len(todo)] = Tail(@)]
Verbatim == IF BitLen = 0 THEN pend ELSE Append(pend, BitLen)

Deliver ==
  /\ pc = "parsed"
  /\ http11' \in BOOLEAN
  /\ todo' = <<bits>> /\ pend' = <<>> /\ client' = <<>>
  /\ pc' = "send"
  /\ DeliverStep

\* A bit without an include, or with one that is nested too deeply.
SendBit ==
  /\ pc = "send" /\ Last(todo) # <<>>
  /\ Bit.include => esis >= max_esi_includes
  /\ pend' = Verbatim
  /\ todo' = Rest
  /\ UNCHANGED <<pc, http11, client>> /\ DeliverStep

\* RES_WriteObj of an included object without ESI of its own.
RES_WriteObj(len) == IF len = 0 THEN <<>> ELSE <<len>>

\* An include: what was written is flushed, and another object is delivered,
\* which may have ESI bits itself (the same ones, say).
SendInclude ==
  /\ pc = "send" /\ Last(todo) # <<>>
  /\ Bit.include /\ esis < max_esi_includes
  /\ \/ /\ Flushed(Verbatim, "send") /\ todo' = Append(Rest, bits)
     \/ /\ \E len \in 0..1 : Flushed(Verbatim \o RES_WriteObj(len), "send")
        /\ todo' = Rest
  /\ UNCHANGED http11 /\ DeliverStep

\* Only the outermost object's delivery ends the body.
LastChunk == IF http11 /\ esis = 0 THEN <<0>> ELSE <<>>

DeliverDone ==
  /\ pc = "send" /\ Last(todo) = <<>>
  /\ Flushed(pend \o LastChunk, IF esis = 0 THEN "sent" ELSE "send")
  /\ todo' = Front(todo)
  /\ UNCHANGED http11 /\ DeliverStep

Next ==
  \/ Look \/ end_esi_comment \/ skip_text \/ parse_esi_comment \/ parse_comment
  \/ parse_cdata \/ parse_esi_tag \/ skip_element \/ ParseDone
  \/ Deliver \/ SendBit \/ SendInclude \/ DeliverDone

Spec == Init /\ [][Next]_vars

(***************************************************************************)
(* Properties                                                              *)
(***************************************************************************)
\* What the client gets: the symbols of each bit, then its include.
Output ==
  FlattenSeq([i \in 1..Len(bits) |->
    SubSeq(doc, bits[i].from, bits[i].to)
      \o (IF bits[i].include THEN <<"include">> ELSE <<>>)])

(* However the body is spread over storages, parsing it yields exactly the *)
(* text outside the ESI elements, in order, and the includes at their      *)
(* places: an <esi:remove> takes all of its content with it, an ESI        *)
(* comment none of it, comments and CDATA sections hide what is in them,   *)
(* and no bit reaches from one storage into the next, which would send     *)
(* memory that is not the body.                                            *)
EsiExact ==
  /\ pc \in {"parsed", "send", "sent", "closed"} => Output = want
  /\ \A i \in 1..Len(bits) :
       bits[i].from <= bits[i].to => StorageOf(bits[i].from) = StorageOf(bits[i].to)

(* The chunks of an ESI document and of everything it includes make one    *)
(* chunked body: a chunk of length zero, which tells the client that the   *)
(* body is complete, is sent by the outermost delivery only, as the last   *)
(* thing, and always if the session is still open; and to an HTTP/1.0      *)
(* client never.                                                           *)
EsiFramed ==
  /\ \A i \in 1..Len(client) :
       client[i] = 0 => http11 /\ i = Len(client) /\ todo = <<>>
  /\ pc = "sent" /\ http11 => client # <<>> /\ Last(client) = 0

=============================================================================
