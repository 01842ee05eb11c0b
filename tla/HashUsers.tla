----------------------------- MODULE HashUsers -----------------------------
(***************************************************************************)
(* What every hash implementation works for and with: the worker threads   *)
(* that look objheads up, and the memory of the objheads.                  *)
(***************************************************************************)
EXTENDS RefCount

CONSTANTS
  Threads,    \* worker threads
  Heads       \* objhead memory

ASSUME UsersAssumption ==
  None \notin Heads \cup Threads /\ IsFiniteSet(Heads) /\ IsFiniteSet(Threads)
=============================================================================
