----------------------------- MODULE MCBanList -----------------------------
(* Instances of BanList for TLC. *)
EXTENDS BanList, TLC

CONSTANTS t1, t2

\* One text every object matches, and one none does.
OneMatches == t1 :> Objects @@ t2 :> {}

Symmetric == Permutations(Clients) \cup Permutations(Objects) \cup Permutations(Purgers)
=============================================================================
