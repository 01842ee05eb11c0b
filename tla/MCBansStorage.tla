---------------------------- MODULE MCBansStorage ----------------------------
(***************************************************************************)
(* What is done to objects in memory, for TLC: the bans they are tested    *)
(* against and the storage they are allocated from.  The two share no      *)
(* state; a behaviour follows one of them.                                 *)
(***************************************************************************)
EXTENDS BanList, TLC

CONSTANTS
  t1, t2,                                               \* texts of bans
  Sessions, StvObjects, FilePages, InitialFail, MINPAGES, NBUCKET, MallocMax, MaxFail,
  Sizes, MaxStores, MaxLeak                             \* of Stevedore

VARIABLES
  part,                                                 \* the part followed
  todo, fail, order, free, stats, leaked, next, lru, sobj, sheld, req  \* of Stevedore

stvVars == <<todo, fail, order, free, stats, leaked, next, lru, sobj, sheld, req>>

\* One text every object matches, and one none does.
OneMatches == t1 :> Objects @@ t2 :> {}

Store == INSTANCE Stevedore WITH
  Stevedores <- <<"file", "malloc">>, Objects <- StvObjects, obj <- sobj, held <- sheld

ASSUME Store!StevedoreAssumption

PartInit == Init /\ Store!Init /\ part \in {"bans", "storage"}

PartNext ==
  /\ UNCHANGED part
  /\ \/ part = "bans" /\ Next /\ UNCHANGED stvVars
     \/ part = "storage" /\ Store!Next /\ UNCHANGED vars

PartSpec == PartInit /\ [][PartNext]_<<part, vars, stvVars>>

\* StorageExact and NoSpaceWasted of Stevedore: no page is lost or used twice, the
\* statistics are right, and free space is in as few pieces as can be
\* (storage_file.c, storage_malloc.c, stevedore.c).
StorageExact == part = "storage" => Store!StorageExact /\ Store!NoSpaceWasted

\* Clients are also Sessions, and Purgers StvObjects: no behaviour has both.
Symmetric ==
  Permutations(Clients) \cup Permutations(Objects) \cup Permutations(Purgers)
=============================================================================
