------------------------------ MODULE RefCount ------------------------------
(***************************************************************************)
(* Varnish keeps almost everything alive with reference counters: objheads *)
(* and objcores (cache_hash.c), bans (cache_ban.c), VCL programs           *)
(* (cache_vcl.c), backends (cache_backend_cfg.c).  A counter is right when *)
(* it equals the number of places that hold the pointer it counts.  The    *)
(* component modules record each place as a function from holders to what  *)
(* they hold, and state "right" with Holders and Count below.              *)
(***************************************************************************)
EXTENDS Integers, FiniteSets

\* "No pointer": the NULL of every pointer-valued field in the models.
None == "none"

\* The members of the domain of f that hold a reference to v.
Holders(f, v) == {x \in DOMAIN f : f[x] = v}

\* How many of them there are.
Count(f, v) == Cardinality(Holders(f, v))
=============================================================================
