------------------------------- MODULE VclAcl -------------------------------
(***************************************************************************)
(* Access control lists in the VCL compiler (lib/libvcl/vcc_acl.c).  The   *)
(* entries of a list are kept in an order in which a longer prefix comes   *)
(* before a shorter one that it extends; from the list the compiler emits  *)
(* C code, nested tests of one byte of the address each, which share the   *)
(* tests of a common prefix.                                               *)
(*                                                                         *)
(* An address is a sequence of bytes whose first is the family, which the  *)
(* code treats "as part of address".  The emitted code is a sequence of    *)
(* instructions, and run by RunAcl.                                        *)
(***************************************************************************)
EXTENDS Naturals, Sequences, SequencesExt

CONSTANTS ByteBits,    \* bits in a byte, 8 in the code
          AddrBytes,   \* bytes of an address, without the family
          Family,      \* PF_INET
          Written,     \* entries a program may write
          MaxEntries   \* bound: entries in a list

VARIABLES acl,         \* tl->acl
          err          \* the compiler has reported an error

vars == <<acl, err>>

Byte == 0 .. 2 ^ ByteBits - 1
Addresses == {<<Family>> \o a : a \in [1 .. AddrBytes -> Byte]}

\* An entry is written as an address, the number of bits of its mask, and the
\* negation mark.
Entries == [data : Addresses, mask : 0 .. AddrBytes * ByteBits, not : BOOLEAN]

AclAssumption == Written \subseteq Entries

Init == acl = <<>> /\ err = FALSE

\* The first m bits of byte b, as a number: b & (0xff00 >> m).
HighBits(b, m) == b - (b % 2 ^ (ByteBits - m))

\* The first m bits of an address, byte by byte.
Prefix(a, m) ==
  [i \in 1 .. AddrBytes + 1 |->
     LET rest == m - (i - 1) * ByteBits
     IN IF m >= i * ByteBits THEN a[i]
        ELSE IF m <= (i - 1) * ByteBits THEN 0
        ELSE HighBits(a[i], rest)]

Shorter(m, n) == IF m < n THEN m ELSE n

\* The first byte in which the bits that both entries have differ, or 0.
FirstDifference(e, f) ==
  LET m == Shorter(e.mask, f.mask)
      differ == [i \in 1 .. AddrBytes + 1 |-> Prefix(e.data, m)[i] # Prefix(f.data, m)[i]]
  IN SelectInSeq(differ, LAMBDA x : x)

\* vcl_acl_cmp: the bits both entries have are compared first; "Long mask is less
\* than short mask".
\* Mutated form: the short mask is less.
vcl_acl_cmp_short(e, f) ==
  LET d == FirstDifference(e, f)
  IN CASE d # 0 /\ e.data[d] < f.data[d] -> "less"
       [] d = 0 /\ e.mask < f.mask -> "less"
       [] d = 0 /\ e.mask = f.mask -> "same"
       [] OTHER -> "more"

vcl_acl_cmp(e, f) ==
  LET d == FirstDifference(e, f)
  IN CASE d # 0 /\ e.data[d] < f.data[d] -> "less"
       [] d = 0 /\ e.mask > f.mask -> "less"
       [] d = 0 /\ e.mask = f.mask -> "same"
       [] OTHER -> "more"

\* vcc_acl_add_entry: the family becomes part of the mask; the entry is put before
\* the first one that it is less than, an entry like one that is there is ignored
\* or, if only one of them is negated, refused.
vcc_acl_add_entry(w) ==
  LET e == [w EXCEPT !.mask = @ + ByteBits]
      at == SelectInSeq(acl, LAMBDA f : vcl_acl_cmp(e, f) # "more")
  IN /\ Len(acl) < MaxEntries /\ ~err
     /\ IF at = 0 THEN acl' = Append(acl, e) /\ UNCHANGED err
        ELSE IF vcl_acl_cmp(e, acl[at]) = "less"
             THEN acl' = InsertAt(acl, at, e) /\ UNCHANGED err
        ELSE err' = (acl[at].not # e.not) /\ UNCHANGED acl

-----------------------------------------------------------------------------
\* Instructions of the emitted code.  A test names the byte and the bits of it it
\* looks at; `els' says that it begins with "else".
If(els, i, m, v) == [op |-> "if", els |-> els, byte |-> i, bits |-> m, value |-> v]
Close == [op |-> "}"]
Return(v) == [op |-> "return", value |-> v]

\* vcc_acl_emit for one entry.  st.at are the whole bytes tested by the open ifs,
\* or None for a fractional one (256 in the code); their number is st.depth + 1.
None == 2 ^ ByteBits

Emit(st, e) ==
  LET open == Len(st.at)
      \* "Find how much common prefix we have": while l <= depth and l * 8 < mask
      differs(l) == l = open \/ l * ByteBits >= e.mask \/ e.data[l + 1] # st.at[l + 1]
      l == CHOOSE k \in 0 .. open : differs(k) /\ \A j \in 0 .. k - 1 : ~differs(j)
      els == l < open                       \* "Back down, if necessary"
      whole == e.mask \div ByteBits         \* whole bytes to compare
      part == IF e.mask > l * ByteBits THEN e.mask % ByteBits ELSE 0
      first(i) == els /\ i = l + 1
  IN [at |-> SubSeq(st.at, 1, l) \o SubSeq(e.data, l + 1, whole)
               \o (IF part > 0 THEN <<None>> ELSE <<>>),
      code |-> st.code
               \o [i \in 1 .. open - l |-> Close]
               \o [i \in 1 .. (IF whole > l THEN whole - l ELSE 0) |->
                     If(first(l + i), l + i, ByteBits, e.data[l + i])]
               \o (IF part > 0
                   THEN <<If(first(whole + 1), whole + 1, part,
                             HighBits(e.data[whole + 1], part))>>
                   ELSE <<>>)
               \o <<Return(~e.not)>>]

\* vcc_acl_emit.  The ifs still open at the end are closed; then "Deny by default".
vcc_acl_emit ==
  LET st == FoldLeft(Emit, [at |-> <<>>, code |-> <<>>], acl)
  IN st.code \o [i \in 1 .. Len(st.at) |-> Close] \o <<Return(FALSE)>>

\* The C semantics of the instructions: `blocks' tells of each open if whether its
\* body runs, and whether its condition or that of an if before its else was true;
\* `chain' is the latter for the if closed last.
Step(a, st, ins) ==
  LET runs == st.blocks = <<>> \/ Last(st.blocks).runs
      true == HighBits(a[ins.byte], ins.bits) = ins.value
      block == [runs |-> runs /\ true /\ ~(ins.els /\ st.chain),
                chain |-> true \/ (ins.els /\ st.chain)]
  IN IF st.result # <<>> THEN st
     ELSE CASE ins.op = "if" -> [st EXCEPT !.blocks = Append(@, block)]
            [] ins.op = "}" -> [st EXCEPT !.blocks = Front(@),
                                          !.chain = Last(st.blocks).chain]
            [] ins.op = "return" -> [st EXCEPT !.result = IF runs THEN <<ins.value>> ELSE @]

\* The verdict of match_acl on an address.
RunAcl(a) ==
  FoldLeft(LAMBDA st, ins : Step(a, st, ins),
           [blocks |-> <<>>, chain |-> FALSE, result |-> <<>>],
           vcc_acl_emit).result[1]

Next == \E w \in Written : vcc_acl_add_entry(w)

Spec == Init /\ [][Next]_vars

-----------------------------------------------------------------------------
\* An address is of an entry's network.
Covers(e, a) == Prefix(e.data, e.mask) = Prefix(a, e.mask)

\* What the list says of an address: the entry with the longest mask decides.
Meant(a) ==
  LET of == {i \in 1 .. Len(acl) : Covers(acl[i], a)}
  IN \E i \in of : ~acl[i].not /\ \A j \in of : acl[j].mask <= acl[i].mask

\* vcc_Acl: the emitted code answers as the list is meant: "192.0.2.0"/24 is
\* "everyone on the local network", ! "192.0.2.23" "except for the dialin router"
\* (man/vcl.7so), in whatever order they are written.
AclExact == ~err => \A a \in Addresses : RunAcl(a) = Meant(a)

\* It does when masks are of whole bytes; and in any case it accepts no address
\* that the list does not, unless a negated entry is there to be missed.
AclBytesExact ==
  /\ (\A i \in 1 .. Len(acl) : acl[i].mask % ByteBits = 0) => AclExact
  /\ (\A i \in 1 .. Len(acl) : ~acl[i].not) /\ ~err =>
       \A a \in Addresses : RunAcl(a) => Meant(a)
=============================================================================
