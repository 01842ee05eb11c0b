------------------------------ MODULE VclXref ------------------------------
(***************************************************************************)
(* The checks that the VCL compiler makes across subroutines               *)
(* (lib/libvcl/vcc_xref.c): what is named is defined and used, no          *)
(* subroutine recurses, and no method reaches a return or a variable that  *)
(* it may not use.  The generated C is run by the child without any check, *)
(* so these are the only ones.                                             *)
(*                                                                         *)
(* A program is what vcc_Parse has collected in procs and refs: for each   *)
(* subroutine how often it is defined, and the calls, returns and uses of  *)
(* its body.  The bodies of a method are joined to one.                    *)
(***************************************************************************)
EXTENDS Naturals

CONSTANTS Methods,     \* method_tab: vcl_recv, vcl_fetch ...
          Subs,        \* names of other subroutines
          Returns,     \* vcl_returns.h
          Vars,        \* variables
          Legal,       \* ret_bitmap of each method
          Available,   \* methods of each variable: the methods it may be used in
          Graphs,      \* bounds on the programs: the calls, ...
          Ends,        \* ... the returns ...
          Reads        \* ... and the uses of their subroutines

Procs == Methods \cup Subs

\* Each method has its returns and each variable its methods.
XrefAssumption ==
  /\ Methods \cap Subs = {}
  /\ Legal \in [Methods -> SUBSET Returns]
  /\ Available \in [Vars -> SUBSET Methods]
  /\ Graphs \subseteq [Procs -> SUBSET Procs]
  /\ Ends \subseteq [Procs -> SUBSET Returns]
  /\ Reads \subseteq [Procs -> SUBSET Vars]

VARIABLES defs,        \* definitions of each subroutine
          calls,       \* those it calls (vcc_AddCall)
          rets,        \* its return actions (vcc_ProcAction)
          uses,        \* the variables it uses (vcc_AddUses)
          verdict      \* of the compiler: "none" yet, "ok" or "error"

vars == <<defs, calls, rets, uses, verdict>>

\* The default VCL defines every method, and calls no subroutine (Function).
\* A subroutine without a definition has no body.
Init ==
  /\ defs \in {f \in [Procs -> 0 .. 2] : \A m \in Methods : f[m] = 1}
  /\ calls \in Graphs
  /\ rets \in Ends
  /\ uses \in Reads
  /\ \A p \in Subs : defs[p] = 0 => calls[p] = {} /\ rets[p] = {} /\ uses[p] = {}
  /\ verdict = "none"

\* vcc_AddDef and vcc_AddRef: a method has a reference of its own.
Defined(p) == defs[p] > 0
Referenced(p) == p \in Methods \/ \E q \in Procs : p \in calls[q]

\* vcc_AddDef reports the second definition while parsing.
MultiplyDefined == \E p \in Procs : defs[p] > 1

\* vcc_CheckReferences, for subroutines: what is defined is used and the other
\* way round.
vcc_CheckReferences == \A p \in Procs : Defined(p) <=> Referenced(p)

\* vcc_CheckActionRecurse: the subroutines found in order (p->called), or
\* {"error"}.  `active' are the callers: the first error ends the check, so a
\* mark that is not taken back does no harm.
RECURSIVE vcc_CheckActionRecurse(_, _, _)
vcc_CheckActionRecurse(p, legal, active) ==
  LET below ==
        UNION {vcc_CheckActionRecurse(q, legal, active \cup {p}) : q \in calls[p]}
  IN IF ~Defined(p) \/ p \in active \/ ~(rets[p] \subseteq legal) THEN {"error"}
     ELSE IF "error" \in below THEN {"error"}
     ELSE below \cup {p}

\* vcc_CheckAction: from every method, and then nothing is left over.
vcc_CheckAction ==
  LET called == UNION {vcc_CheckActionRecurse(m, Legal[m], {}) : m \in Methods}
  IN /\ "error" \notin called
     /\ \A p \in Procs : Defined(p) \/ Referenced(p) => p \in called

\* vcc_FindIllegalUse
vcc_FindIllegalUse(p, m) == {v \in uses[p] : m \notin Available[v]}

\* vcc_CheckUseRecurse has no mark against recursion: it relies on vcc_CheckAction
\* having been passed.
RECURSIVE vcc_CheckUseRecurse(_, _)
vcc_CheckUseRecurse(p, m) ==
  vcc_FindIllegalUse(p, m) = {} /\ \A q \in calls[p] : vcc_CheckUseRecurse(q, m)

\* Mutated form: only what the method itself uses is looked at.
vcc_CheckUses_direct == \A m \in Methods : vcc_FindIllegalUse(m, m) = {}

vcc_CheckUses == \A m \in Methods : vcc_CheckUseRecurse(m, m)

\* vcc_CompileSource
vcc_CompileSource ==
  /\ verdict = "none"
  /\ verdict' = IF MultiplyDefined THEN "error"
                ELSE IF ~vcc_CheckReferences THEN "error"
                ELSE IF ~vcc_CheckAction THEN "error"
                ELSE IF ~vcc_CheckUses THEN "error" ELSE "ok"
  /\ UNCHANGED <<defs, calls, rets, uses>>

Next == vcc_CompileSource

Spec == Init /\ [][Next]_vars

-----------------------------------------------------------------------------
\* What can be reached from a set of subroutines: what is in every set around it
\* that no call leads out of.
Reach(S) ==
  {p \in Procs : \A T \in SUBSET Procs :
                   S \subseteq T /\ (\A q \in T : calls[q] \subseteq T) => p \in T}

\* vcc_CompileSource accepts the programs that are safe to run, and no other: all
\* that a method can reach is defined once and does not come back to itself,
\* every action it can end with is one that the method's caller in cache_center.c
\* handles, every variable it can touch exists there, and nothing is left over.
XrefExact ==
  verdict # "none" =>
    (verdict = "ok" <=>
       /\ \A p \in Procs : defs[p] <= 1
       /\ \A p \in Procs : Defined(p) \/ Referenced(p) => p \in Reach(Methods)
       /\ \A m \in Methods : \A p \in Reach({m}) :
            /\ Defined(p)
            /\ p \notin Reach(calls[p])
            /\ rets[p] \subseteq Legal[m]
            /\ \A v \in uses[p] : m \in Available[v])
=============================================================================
