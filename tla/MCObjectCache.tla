--------------------------- MODULE MCObjectCache ---------------------------
(* Instances of ObjectCache for TLC. *)
EXTENDS ObjectCache, TLC

\* Sessions are interchangeable, and so is objcore memory.  Used only by the
\* runs that check no liveness.
Symmetric == Permutations(Sess) \cup Permutations(Cores)
=============================================================================
