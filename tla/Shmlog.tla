------------------------------ MODULE Shmlog -------------------------------
(***************************************************************************)
(* The shared memory log: the threads of the child append records to a     *)
(* circular log (shmlog.c), directly (VSL, VSLR) or through the buffer of  *)
(* a worker (WSL, WSL_Flush), and a reader in another process follows them *)
(* without any lock (vsl_nextlog in libvarnishapi/shmlog.c).               *)
(*                                                                         *)
(* The log is an array of cells.  A record is a tag, a length and its      *)
(* data; the header of seven bytes and the NUL are Hdr cells.  Records are *)
(* numbered in the order in which their space is reserved: that is the     *)
(* order in which a reader should see them.                                *)
(***************************************************************************)
EXTENDS Integers, Sequences, FiniteSets, SequencesExt

CONSTANTS
  Writers,     \* threads that call VSL
  Workers,     \* threads that call WSL
  LogSize,        \* loghead->size, in cells
  MaxLen,      \* params->shm_reclen
  BufSize,     \* w->wle - w->wlb
  MaxRecord    \* bound: records written

Hdr == 2       \* SHMLOG_NEXTTAG: the cells of a record without data

LogAssumption ==
  /\ LogSize \in Nat /\ MaxLen \in Nat /\ BufSize \in Nat /\ MaxRecord \in Nat
  /\ Hdr + MaxLen + 1 < LogSize /\ Hdr + MaxLen + 1 < BufSize /\ BufSize < LogSize

VARIABLES
  log,       \* the cells, from logstart
  ptr,       \* loghead->ptr
  n,         \* records reserved so far
  pub,       \* records whose tag has been written
  wr,        \* what each thread has reserved and not yet written
  buf,       \* the records (lengths) in the buffer of each worker
  rp,        \* vd->ptr of the reader
  next,      \* the record the reader has to see next
  lapped,    \* the writers have overtaken the reader
  overrun,   \* ... or a thread that had not filled its space yet
  late       \* a VSLR finished after the record that follows its own, or died

vars == <<log, ptr, n, pub, wr, buf, rp, next, lapped, overrun, late>>

\* Cells.
End == [k |-> "end", r |-> 0]        \* SLT_ENDMARKER
Wrap == [k |-> "wrap", r |-> 0]      \* SLT_WRAPMARKER
Tag(r) == [k |-> "tag", r |-> r]
Length(l) == [k |-> "len", r |-> l]
Data(r) == [k |-> "data", r |-> r]

NoSpace == [kind |-> "none", p |-> 0, recs |-> <<>>, first |-> 0, filled |-> FALSE]

\* The cells of the records recs, the first of them being number r.
CellsOf(r, l) == <<Tag(r), Length(l)>> \o [i \in 1 .. l |-> Data(r)]
Cells(recs, r) == FlattenSeq([i \in 1 .. Len(recs) |-> CellsOf(r + i - 1, recs[i])])
Need(recs) == Len(Cells(recs, 1))

\* The log with the cells c written from position p on.
Put(lg, p, c) == [i \in 0 .. LogSize - 1 |-> IF i \in p .. p + Len(c) - 1 THEN c[i - p + 1] ELSE lg[i]]

Init ==
  /\ log = [i \in 0 .. LogSize - 1 |-> End] /\ ptr = 0 /\ n = 0 /\ pub = {}
  /\ wr = [t \in Writers \cup Workers |-> NoSpace] /\ buf = [t \in Workers |-> <<>>]
  /\ rp = 0 /\ next = 1 /\ lapped = FALSE /\ overrun = FALSE /\ late = FALSE

----------------------------------------------------------------------------
(* Writers. *)

\* Find space for need cells, under vsl_mtx: wrap when it might not fit.
WrapNeeded(need) == ptr + need + 1 >= LogSize
\* Mutated form: the start of the log gets no end marker.
vsl_wrap_keeps_start(lg) == [lg EXCEPT ![ptr] = Wrap]

vsl_wrap(lg) == [lg EXCEPT ![0] = End, ![ptr] = Wrap]
Start(need) == IF WrapNeeded(need) THEN 0 ELSE ptr
Wrapped(need) == IF WrapNeeded(need) THEN vsl_wrap(log) ELSE log

\* The cells a reservation may change, its end marker and those of a wrap
\* included, and the cells a thread has still to write.
Touched(p, need) == (p .. p + need) \cup (IF p # ptr THEN {0, ptr} ELSE {})
Unfinished(t) ==
  IF wr[t].kind = "none" THEN {} ELSE wr[t].p .. wr[t].p + Need(wr[t].recs) - 1

\* Reserving space overtakes the reader when it reaches the position of the
\* reader, unless the reader waits just there, or wraps while the reader has
\* not yet; and it may reach a thread that has still to write.
Overtakes(p, need) ==
  /\ lapped' = (lapped \/ IF p # ptr THEN rp > ptr \/ rp \in p .. p + need
                          ELSE rp # ptr /\ rp \in p .. p + need)
  /\ overrun' = (overrun \/ \E t \in DOMAIN wr : Unfinished(t) \cap Touched(p, need) # {})

\* Records are truncated to params->shm_reclen.
Lengths == {IF l > MaxLen THEN MaxLen ELSE l : l \in 0 .. MaxLen + 1}

\* VSL formats its record into the log while it holds the lock, having made
\* sure that a record of full size fits.
VSL(t) ==
  /\ t \in Writers /\ wr[t].kind = "none" /\ n < MaxRecord
  /\ \E l \in Lengths :
       LET full == Hdr + MaxLen
           p == Start(full)
       IN
       /\ log' = Put(Wrapped(full), p, CellsOf(n + 1, l) \o <<End>>)
       /\ ptr' = p + Hdr + l
       /\ Overtakes(p, Hdr + l)
  /\ n' = n + 1 /\ pub' = pub \cup {n + 1}
  /\ UNCHANGED <<wr, buf, rp, next, late>>

\* VSLR only holds the lock while it finds its space ...
VSLR(t) ==
  /\ t \in Writers /\ wr[t].kind = "none" /\ n < MaxRecord
  /\ \E l \in Lengths :
       LET p == Start(Hdr + l) IN
       /\ log' = Wrapped(Hdr + l)
       /\ ptr' = p + Hdr + l
       /\ wr' = [wr EXCEPT ![t] = [kind |-> "vslr", p |-> p, recs |-> <<l>>,
                                   first |-> n + 1, filled |-> FALSE]]
       /\ Overtakes(p, Hdr + l)
  /\ n' = n + 1
  /\ UNCHANGED <<pub, buf, rp, next, late>>

\* ... and vsl_hdr writes everything but the tag, the end marker behind the
\* record included, which by then may be the tag of another record.
vsl_hdr(t) ==
  /\ wr[t].kind = "vslr" /\ ~wr[t].filled
  /\ LET w == wr[t] IN
     /\ log' = Put(log, w.p + 1, Tail(CellsOf(w.first, w.recs[1])) \o <<End>>)
     /\ late' = (late \/ w.first + 1 \in pub
                  \/ (w.first < n /\ log[w.p + Need(w.recs)].k = "wrap"))
  /\ wr' = [wr EXCEPT ![t].filled = TRUE]
  /\ UNCHANGED <<ptr, n, pub, buf, rp, next, lapped, overrun>>

\* WSL: append to the buffer of the worker, and flush it when a record of full
\* size would not fit.
BufUsed(t) == Need(buf[t])
BufFull(t) == BufUsed(t) + Hdr + MaxLen + 1 >= BufSize
WSL(t) ==
  /\ t \in Workers /\ wr[t].kind = "none" /\ ~BufFull(t)
  /\ n + Len(buf[t]) < MaxRecord
  /\ \E l \in Lengths : buf' = [buf EXCEPT ![t] = Append(@, l)]
  /\ UNCHANGED <<log, ptr, n, pub, wr, rp, next, lapped, overrun, late>>

\* WSL_Flush: reserve the space for the whole buffer and put the end marker
\* behind it, under the lock; then copy everything but the first tag.
WSL_Flush(t) ==
  /\ t \in Workers /\ wr[t].kind = "none" /\ buf[t] # <<>> /\ n + Len(buf[t]) <= MaxRecord
  /\ LET need == BufUsed(t)
         p == Start(need)
     IN
     /\ log' = [Wrapped(need) EXCEPT ![p + need] = End]
     /\ ptr' = p + need
     /\ wr' = [wr EXCEPT ![t] = [kind |-> "wsl", p |-> p, recs |-> buf[t],
                                 first |-> n + 1, filled |-> FALSE]]
     /\ Overtakes(p, need)
  /\ n' = n + Len(buf[t])
  /\ buf' = [buf EXCEPT ![t] = <<>>]
  /\ UNCHANGED <<pub, rp, next, late>>
FlushCopy(t) ==
  /\ wr[t].kind = "wsl" /\ ~wr[t].filled
  /\ log' = Put(log, wr[t].p + 1, Tail(Cells(wr[t].recs, wr[t].first)))
  /\ wr' = [wr EXCEPT ![t].filled = TRUE]
  /\ UNCHANGED <<ptr, n, pub, buf, rp, next, lapped, overrun, late>>

\* The (first) tag is written last: the records become visible.
Publish(t) ==
  /\ wr[t].kind # "none" /\ wr[t].filled
  /\ log' = [log EXCEPT ![wr[t].p] = Tag(wr[t].first)]
  /\ pub' = pub \cup (wr[t].first .. wr[t].first + Len(wr[t].recs) - 1)
  /\ wr' = [wr EXCEPT ![t] = NoSpace]
  /\ UNCHANGED <<ptr, n, buf, rp, next, lapped, overrun, late>>

\* The child dies and the manager starts another one: VSL_Init goes on where
\* the log ends.  What was reserved is never written.
VSL_Init ==
  /\ wr' = [t \in DOMAIN wr |-> NoSpace] /\ buf' = [t \in Workers |-> <<>>]
  /\ late' = (late \/ \E t \in DOMAIN wr : wr[t].kind # "none")
  /\ UNCHANGED <<log, ptr, n, pub, rp, next, lapped, overrun>>

----------------------------------------------------------------------------
(* The reader.  It is followed as long as the writers have not overtaken   *)
(* it, or damaged the log.                                                 *)

Sound == ~lapped /\ ~overrun /\ ~late

\* vsl_nextlog: a wrap marker sends the reader to the start, an end marker lets
\* it wait, everything else is a record.
At == IF log[rp].k = "wrap" THEN 0 ELSE rp
vsl_nextlog ==
  /\ Sound /\ log[At].k = "tag"
  /\ rp' = At + Hdr + log[At + 1].r
  /\ next' = next + 1
  /\ UNCHANGED <<log, ptr, n, pub, wr, buf, lapped, overrun, late>>

\* VSL_OpenLog without -d: a new reader starts at the end of what is there.
\* The end of the chain of complete records from the start of the log:
ChainEnd ==
  LET Go[i \in 0 .. LogSize] ==
        IF i >= LogSize \/ log[i].k # "tag" THEN i ELSE Go[i + Hdr + log[i + 1].r]
  IN Go[0]
VSL_OpenLog ==
  /\ Sound
  /\ rp' = ChainEnd
  /\ next' = LET here == {t \in DOMAIN wr : ChainEnd \in Unfinished(t)} IN
             IF here = {} THEN n + 1 ELSE wr[CHOOSE t \in here : TRUE].first
  /\ UNCHANGED <<log, ptr, n, pub, wr, buf, lapped, overrun, late>>

Next ==
  \/ \E t \in Writers \cup Workers :
       VSL(t) \/ VSLR(t) \/ vsl_hdr(t) \/ WSL(t) \/ WSL_Flush(t) \/ FlushCopy(t) \/ Publish(t)
  \/ VSL_Init \/ vsl_nextlog \/ VSL_OpenLog

Spec == Init /\ [][Next]_vars

----------------------------------------------------------------------------
(* Properties. *)

\* Nobody writes outside the log: with its end marker, everything that has been
\* reserved lies inside it, and so does the next position.
InsideLog ==
  /\ ptr \in 0 .. LogSize - 1
  /\ \A t \in DOMAIN wr : \A i \in Unfinished(t) : i + 1 < LogSize

\* A reader that is not overtaken sees the records in the order in which they
\* were reserved, each once and whole, across the end of the log too.
ReadInOrder ==
  Sound /\ log[At].k = "tag" =>
     /\ log[At].r = next /\ log[At + 1].k = "len"
     /\ \A i \in At + 2 .. At + 1 + log[At + 1].r : log[i] = Data(next)

\* A finished record is only kept from a reader by an earlier one that is not
\* finished - as long as no VSLR fills its space after its successor has been
\* written, putting an end marker over that record's tag.
NothingHidden ==
  Sound /\ next \in pub => log[At].k = "tag"
============================================================================
