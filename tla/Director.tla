------------------------------ MODULE Director ------------------------------
(***************************************************************************)
(* The directors that pick one of several backends: random, hash and       *)
(* client (cache_dir_random.c) and round-robin (cache_dir_round_robin.c).  *)
(* They keep no lock: a backend's health may change between two looks at   *)
(* it, a connection may be refused by a backend that looked healthy        *)
(* (VBE_GetFd), and the round-robin director's next_host is read and       *)
(* written by all worker threads.                                          *)
(***************************************************************************)
EXTENDS Naturals, FiniteSets, FiniteSetsExt

CONSTANTS NHosts,      \* vs->nhosts
          Weight,      \* weight of each host, in tenths or so
          Fractions,   \* how many values r takes in [0, 1)
          Retries,     \* .retries as written in the VCL, a set; 0 is not written
          Callers      \* worker threads

Hosts == 0 .. NHosts - 1

ASSUME DirectorAssumption ==
  /\ NHosts \in Nat \ {0} /\ Fractions \in Nat \ {0}
  /\ Weight \in [Hosts -> Nat \ {0}]
  /\ Retries \subseteq Nat

VARIABLES kind,        \* the director: "random", "hash" (or client), "round_robin"
          retries,     \* vs->retries
          vbe_healthy, \* of each host, what VBE_Healthy_sp says now
          next_host,   \* of the round-robin director
          pick,        \* each thread's call of getfd
          moved        \* threads that have seen another one move next_host

directorVars == <<kind, retries, vbe_healthy, next_host, pick, moved>>

\* A call: where it is, the hash u, health_cache (what is known of each host), the
\* count k or i of rounds, and the host and number it has in hand.
NoCall == [pc |-> "idle", u |-> 0, cache |-> [h \in Hosts |-> "unknown"], k |-> 0,
           host |-> 0, tmp |-> 0]

\* vrt_init: without .retries there is one for each member.  The round-robin
\* director goes once around.
DirectorInit ==
  /\ kind \in {"random", "hash", "round_robin"}
  /\ \E r \in Retries : retries = IF r = 0 \/ kind = "round_robin" THEN NHosts ELSE r
  /\ vbe_healthy \in [Hosts -> BOOLEAN]
  /\ next_host = 0
  /\ pick = [t \in Callers |-> NoCall]
  /\ moved = {}

At(t, pc) == pick[t].pc = pc
Goes(t, c) == pick' = [pick EXCEPT ![t] = c]
Known(t, v) == {h \in Hosts : pick[t].cache[h] = v}

\* s1 in a loop over the hosts that adds up the weights of those in S: what it is
\* before each host, and in the end.  The loops stop where it exceeds r, a fraction
\* u / Fractions of the weight of S.
Sums(S) ==
  LET s1[i \in 0 .. NHosts] ==
        IF i = 0 THEN 0 ELSE s1[i - 1] + (IF i - 1 \in S THEN Weight[i - 1] ELSE 0)
  IN s1
Total(S) == Sums(S)[NHosts]
Chosen(u, S) == Min({h \in S : u * Total(S) < Fractions * Sums(S)[h + 1]})

\* vdi_random_cache_healthy: a host is asked once in a call.
Ask(c, h) ==
  [c EXCEPT !.cache[h] = IF @ # "unknown" THEN @
                         ELSE IF vbe_healthy[h] THEN "healthy" ELSE "sick"]

\* getfd is called.  A hashing director uses the same u in all its rounds; the
\* others draw one in each.
Call(t) ==
  /\ At(t, "idle")
  /\ \E u \in 0 .. Fractions - 1 :
       /\ kind # "hash" => u = 0
       /\ Goes(t, [NoCall EXCEPT !.u = u,
                     !.pc = CASE kind = "hash" -> "canonical"
                              [] kind = "random" -> "sum"
                              [] kind = "round_robin" -> "take"])
  /\ moved' = moved \ {t}
  /\ UNCHANGED <<kind, retries, vbe_healthy, next_host>>

\* vdi_random_getfd: a hashing director first looks at its "canonical backend".
Canonical(t) ==
  /\ At(t, "canonical")
  /\ LET h == Chosen(pick[t].u, Hosts)
         c == Ask(pick[t], h)
     IN Goes(t, [c EXCEPT !.host = h,
                   !.pc = IF c.cache[h] = "healthy" THEN "try_canonical" ELSE "sum"])
  /\ UNCHANGED <<kind, retries, vbe_healthy, next_host, moved>>

TryCanonical(t) ==
  /\ At(t, "try_canonical")
  /\ \E ok \in BOOLEAN :
       Goes(t, IF ok THEN [pick[t] EXCEPT !.pc = "got"]
               ELSE [pick[t] EXCEPT !.pc = "sum", !.cache[pick[t].host] = "sick"])
  /\ UNCHANGED <<kind, retries, vbe_healthy, next_host, moved>>

\* "Sum up the weights of healty backends": the hosts not asked before are.
Sum1(t) ==
  /\ At(t, "sum") /\ Known(t, "unknown") # {}
  /\ Goes(t, Ask(pick[t], Min(Known(t, "unknown"))))
  /\ UNCHANGED <<kind, retries, vbe_healthy, next_host, moved>>

\* Mutated form: a host that refuses is not marked.
Try_again(t) ==
  /\ At(t, "try")
  /\ \E ok \in BOOLEAN :
       Goes(t, IF ok THEN [pick[t] EXCEPT !.pc = "got"]
               ELSE [pick[t] EXCEPT !.k = @ + 1,
                       !.pc = IF pick[t].k + 1 = retries THEN "none" ELSE "sum"])
  /\ UNCHANGED <<kind, retries, vbe_healthy, next_host, moved>>

\* Then one of the healthy ones is chosen, and a connection tried.
Choose1(t) ==
  /\ At(t, "sum") /\ Known(t, "unknown") = {}
  /\ IF Known(t, "healthy") = {} THEN Goes(t, [pick[t] EXCEPT !.pc = "none"])
     ELSE \E u \in 0 .. Fractions - 1 :
            /\ kind = "hash" => u = pick[t].u
            /\ Goes(t, [pick[t] EXCEPT !.pc = "try", !.host = Chosen(u, Known(t, "healthy"))])
  /\ UNCHANGED <<kind, retries, vbe_healthy, next_host, moved>>

Try(t) ==
  /\ At(t, "try")
  /\ \E ok \in BOOLEAN :
       Goes(t, IF ok THEN [pick[t] EXCEPT !.pc = "got"]
               ELSE [pick[t] EXCEPT !.k = @ + 1, !.cache[pick[t].host] = "sick",
                       !.pc = IF pick[t].k + 1 = retries THEN "none" ELSE "sum"])
  /\ UNCHANGED <<kind, retries, vbe_healthy, next_host, moved>>

\* vdi_round_robin_getfd: the next host is taken, and next_host loaded and stored.
Take(t) ==
  /\ At(t, "take")
  /\ Goes(t, [pick[t] EXCEPT !.pc = "load", !.host = next_host])
  /\ UNCHANGED <<kind, retries, vbe_healthy, next_host, moved>>

Load(t) ==
  /\ At(t, "load")
  /\ Goes(t, [pick[t] EXCEPT !.pc = "store", !.tmp = (next_host + 1) % NHosts])
  /\ UNCHANGED <<kind, retries, vbe_healthy, next_host, moved>>

\* Here the cache only records what the call has seen; the code has none.
StoreNext(t) ==
  /\ At(t, "store")
  /\ next_host' = pick[t].tmp
  /\ Goes(t, [pick[t] EXCEPT !.pc = "ask", !.tmp = 0])
  /\ moved' = moved \cup {o \in Callers \ {t} : ~At(o, "idle")}
  /\ UNCHANGED <<kind, retries, vbe_healthy>>

\* A host that is not healthy or gives no connection costs one round of NHosts.
AskAndTry(t) ==
  /\ At(t, "ask")
  /\ \E ok \in BOOLEAN :
       Goes(t, IF vbe_healthy[pick[t].host] /\ ok THEN [pick[t] EXCEPT !.pc = "got"]
               ELSE [pick[t] EXCEPT !.k = @ + 1, !.cache[pick[t].host] = "sick", !.host = 0,
                       !.pc = IF pick[t].k + 1 = retries THEN "none" ELSE "take"])
  /\ UNCHANGED <<kind, retries, vbe_healthy, next_host, moved>>

Return(t) ==
  /\ pick[t].pc \in {"got", "none"}
  /\ Goes(t, NoCall)
  /\ moved' = moved \ {t}
  /\ UNCHANGED <<kind, retries, vbe_healthy, next_host>>

\* A probe finishes or a saint mode entry expires.
HealthChanges ==
  /\ \E h \in Hosts : vbe_healthy' = [vbe_healthy EXCEPT ![h] = ~@]
  /\ UNCHANGED <<kind, retries, next_host, pick, moved>>

DirectorNext ==
  \/ HealthChanges
  \/ \E t \in Callers :
       \/ Call(t) \/ Canonical(t) \/ TryCanonical(t) \/ Sum1(t) \/ Choose1(t) \/ Try(t)
       \/ Take(t) \/ Load(t) \/ StoreNext(t) \/ AskAndTry(t) \/ Return(t)

DirectorSpec == DirectorInit /\ [][DirectorNext]_directorVars

-----------------------------------------------------------------------------
\* No backend is overlooked, whatever changes during the call.  A director gives up
\* (the client gets a 503) only when every host was seen sick or refused in this
\* very call, or, where .retries is less than the number of hosts, when that many
\* refused; a round-robin director may also give up when another thread moved
\* next_host.  A host that was seen sick is not picked, and a hashing director
\* picks another host than the canonical one only when that was seen sick.
NoneOverlooked ==
  \A t \in Callers :
    /\ At(t, "none") =>
         \/ Known(t, "sick") = Hosts
         \/ kind # "round_robin" /\ retries < NHosts /\ pick[t].k = retries
         \/ kind = "round_robin" /\ t \in moved
    /\ At(t, "got") =>
         /\ kind # "round_robin" => pick[t].host \in Known(t, "healthy")
         /\ kind = "hash" =>
              Chosen(pick[t].u, Hosts) \in {pick[t].host} \cup Known(t, "sick")
=============================================================================
