------------------------------ MODULE Backend ------------------------------
(***************************************************************************)
(* VCL programs (cache_vcl.c), the backends they define (cache_backend.c,  *)
(* cache_backend_cfg.c) and the probes of the backends                     *)
(* (cache_backend_poll.c).                                                 *)
(*                                                                         *)
(* Programs are loaded, selected, discarded and freed by the CLI thread,   *)
(* which looks for what can be freed before every command (cli_cb_before). *)
(* Two programs that define the same backend share its struct.  Workers    *)
(* count themselves in the busy counter of the program they run, and count *)
(* their connections in the refcount and n_conn of the backend.  The       *)
(* expiry thread has a program too, and gets it before anything is served. *)
(*                                                                         *)
(* An action is one critical section of vcl_mtx or of a backend's mtx, or  *)
(* what a thread does between two.  A struct is known by the program or    *)
(* backend it is for; a name can be used again once its struct is freed.   *)
(***************************************************************************)
EXTENDS RefCount

CONSTANTS
  Vcls,        \* VCL programs
  Backends,    \* backend definitions: ident and addresses
  Uses,        \* the backends that each program defines
  Probed,      \* those which have a .probe
  Workers,     \* threads that run programs and connect
  Timer,       \* exp_timer: runs programs, never connects
  MaxConn,     \* .max_connections of each; 0: no limit
  Window,      \* .window, .threshold and .initial of the probes
  Threshold,
  Initial

Users == Workers \cup {Timer}

\* vbp_wrk_poll_backend gives window and threshold defaults when they are zero.
BackendAssumption ==
  /\ IsFiniteSet(Vcls) /\ IsFiniteSet(Users) /\ Timer \notin Workers
  /\ None \notin Vcls \cup Backends
  /\ Uses \in [Vcls -> SUBSET Backends] /\ Probed \subseteq Backends
  /\ MaxConn \in [Backends -> Nat]
  /\ Window \in Nat \ {0} /\ Threshold \in Nat \ {0} /\ Initial \in Nat

VARIABLES
  vcl,       \* a program: "free", "loaded", "discarded", "fini" (see BackendTypeOK)
  active,    \* vcl_active
  busy,      \* conf->busy
  started,   \* does the acceptor run?
  be,        \* is the struct backend allocated?
  ref,       \* b->refcount
  nConn,     \* b->n_conn
  idle,      \* length of b->connlist
  healthy,   \* b->healthy
  probe,     \* b->probe # NULL
  stop,      \* vt->stop, and the cancellation that follows it
  poller,    \* the probe's thread: "none", "start", "poll"
  happy,     \* vt->happy: the last Window pokes, newest first
  pc,        \* where a worker or the timer is
  uvcl,      \* its program
  ube,       \* the backend it is busy with
  cli,       \* the CLI thread
  failed,    \* has an assertion failed?
  raced      \* has the unlocked refcount++ of VBE_AddBackend lost an update?

vclVars == <<vcl, active, busy, started>>
connVars == <<ref, nConn, idle>>
probeVars == <<healthy, probe, stop, poller, happy>>
userVars == <<pc, uvcl, ube>>
backendVars == <<vclVars, be, connVars, probeVars, userVars, cli, failed, raced>>

\* The CLI thread waits for a command.
CliIdle == [pc |-> "idle", todo |-> {}, v |-> None, bes |-> {}, b |-> None,
            tmp |-> 0, ret |-> "idle"]

BackendInit ==
  /\ vcl = [v \in Vcls |-> "free"] /\ active = None
  /\ busy = [v \in Vcls |-> 0] /\ started = FALSE
  /\ be = [b \in Backends |-> FALSE]
  /\ ref = [b \in Backends |-> 0] /\ nConn = ref /\ idle = ref
  /\ healthy = be /\ probe = be /\ stop = be
  /\ poller = [b \in Backends |-> "none"]
  /\ happy = [b \in Backends |-> [i \in 1 .. Window |-> FALSE]]
  /\ pc = [u \in Users |-> "idle"] /\ uvcl = [u \in Users |-> None]
  /\ ube = [u \in Users |-> None]
  /\ cli = CliIdle /\ failed = FALSE /\ raced = FALSE
-----------------------------------------------------------------------------
(* Programs and their users. *)

\* VCL_Rel gives the reference back; nothing is freed here.
VCL_Rel(u) ==
  /\ busy' = [busy EXCEPT ![uvcl[u]] = @ - 1]
  /\ failed' = (busy[uvcl[u]] = 0)
  /\ uvcl' = [uvcl EXCEPT ![u] = None]

\* VCL_Refresh releases a program which is not the active one any more; the
\* comparison is made without the lock.
VCL_Refresh(u) ==
  /\ pc[u] = "idle" /\ uvcl[u] \notin {None, active}
  /\ VCL_Rel(u)
  /\ UNCHANGED <<vcl, active, started, be, connVars, probeVars, pc, ube, cli, raced>>

\* VCL_Get; AZ(discard).  exp_timer gets its program as soon as there is one,
\* even before init_func has run.
VCL_Get(u) ==
  /\ pc[u] = "idle" /\ uvcl[u] = None
  /\ u = Timer \/ started
  /\ active # None
  /\ busy' = [busy EXCEPT ![active] = @ + 1]
  /\ uvcl' = [uvcl EXCEPT ![u] = active]
  /\ failed' = (vcl[active] # "loaded")
  /\ pc' = [pc EXCEPT ![u] = IF u = Timer THEN "idle" ELSE "run"]
  /\ UNCHANGED <<vcl, active, started, be, connVars, probeVars, ube, cli, raced>>

\* VCL_Refresh keeps a program that still is the active one.
Fresh(w) ==
  /\ w \in Workers /\ pc[w] = "idle" /\ uvcl[w] # None /\ uvcl[w] = active
  /\ pc' = [pc EXCEPT ![w] = "run"]
  /\ UNCHANGED <<vclVars, be, connVars, probeVars, uvcl, ube, cli, failed, raced>>

\* A request (with its restarts and includes) needs the backends of its program
\* any number of times: VBE_GetFd.  The program may be discarded meanwhile.
VBE_GetFd(w, b) ==
  /\ pc[w] = "run" /\ b \in Uses[uvcl[w]]
  /\ pc' = [pc EXCEPT ![w] = "getvbe"] /\ ube' = [ube EXCEPT ![w] = b]
  /\ UNCHANGED <<vclVars, be, connVars, probeVars, uvcl, cli, failed, raced>>

\* cnt_done: the worker keeps the program for its next request.
Done(w) ==
  /\ pc[w] = "run"
  /\ pc' = [pc EXCEPT ![w] = "idle"]
  /\ UNCHANGED <<vclVars, be, connVars, probeVars, uvcl, ube, cli, failed, raced>>

\* wrk_thread_real: a worker that ends releases its program.
ThreadEnds(w) ==
  /\ w \in Workers /\ pc[w] = "idle" /\ uvcl[w] # None
  /\ VCL_Rel(w)
  /\ UNCHANGED <<vcl, active, started, be, connVars, probeVars, pc, ube, cli, raced>>
-----------------------------------------------------------------------------
(* Connections. *)

Goto(w, label) == pc' = [pc EXCEPT ![w] = label]
Ends(w) == pc' = [pc EXCEPT ![w] = "run"] /\ ube' = [ube EXCEPT ![w] = None]
OthersStay == UNCHANGED <<vclVars, be, probeVars, uvcl, cli, raced>>

\* VBE_DropRefLocked, on behalf of a worker: ASSERT_CLI fails if it was the
\* last reference.
WorkerDrops(b) ==
  /\ ref' = [ref EXCEPT ![b] = @ - 1]
  /\ failed' = (ref[b] <= 1)

\* vbe_GetVbe: an idle connection if there is one, taken under the mutex.
TakeIdle(w) ==
  LET b == ube[w] IN
  /\ pc[w] = "getvbe"
  /\ IF idle[b] > 0
     THEN /\ ref' = [ref EXCEPT ![b] = @ + 1]
          /\ idle' = [idle EXCEPT ![b] = @ - 1]
          /\ Goto(w, "check")
     ELSE Goto(w, "healthy") /\ UNCHANGED <<ref, idle>>
  /\ UNCHANGED <<nConn, ube, failed>> /\ OthersStay

\* VBE_ClosedFd closes it and drops the reference (VBE_DropRefConn).
VBE_ClosedFd(b) ==
  /\ nConn' = [nConn EXCEPT ![b] = @ - 1]
  /\ WorkerDrops(b)
  /\ UNCHANGED idle

\* vbe_CheckFd: the other end may have closed the connection, and then the
\* worker looks for another one.
CheckFd(w) ==
  /\ pc[w] = "check"
  /\ \/ Goto(w, "use") /\ UNCHANGED <<connVars, failed>>
     \/ Goto(w, "getvbe") /\ VBE_ClosedFd(ube[w])
  /\ UNCHANGED ube /\ OthersStay

\* vbe_Healthy, where saint mode may veto a healthy backend, and the comparison
\* of n_conn with max_conn; neither takes the mutex.
HealthyAndVacant(w) ==
  LET b == ube[w] IN
  /\ pc[w] = "healthy"
  /\ \/ healthy[b] /\ (MaxConn[b] = 0 \/ nConn[b] < MaxConn[b])
        /\ Goto(w, "try") /\ UNCHANGED ube
     \/ Ends(w)
  /\ UNCHANGED <<connVars, failed>> /\ OthersStay

\* bes_conn_try, before it connects
ConnTry(w) ==
  LET b == ube[w] IN
  /\ pc[w] = "try"
  /\ ref' = [ref EXCEPT ![b] = @ + 1]
  /\ nConn' = [nConn EXCEPT ![b] = @ + 1]
  /\ Goto(w, "connect")
  /\ UNCHANGED <<idle, ube, failed>> /\ OthersStay

\* Mutated form: a failed connect keeps its reference.
ConnFails_keepsref(b) ==
  nConn' = [nConn EXCEPT ![b] = @ - 1] /\ UNCHANGED ref

\* bes_conn_try, when it could not connect: both counters go back.
ConnFails(b) ==
  /\ nConn' = [nConn EXCEPT ![b] = @ - 1]
  /\ ref' = [ref EXCEPT ![b] = @ - 1]

Connect(w) ==
  /\ pc[w] = "connect"
  /\ \/ Goto(w, "use") /\ UNCHANGED <<ube, ref, nConn>>
     \/ Ends(w) /\ ConnFails(ube[w])
  /\ UNCHANGED <<idle, failed>> /\ OthersStay

\* The fetch or pipe is over: VBE_RecycleFd keeps the connection.
VBE_RecycleFd(w) ==
  LET b == ube[w] IN
  /\ pc[w] = "use"
  /\ idle' = [idle EXCEPT ![b] = @ + 1]
  /\ WorkerDrops(b) /\ Ends(w)
  /\ UNCHANGED nConn /\ OthersStay

\* ... or it is closed: VBE_ClosedFd.
CloseConn(w) ==
  /\ pc[w] = "use"
  /\ VBE_ClosedFd(ube[w]) /\ Ends(w)
  /\ OthersStay
-----------------------------------------------------------------------------
(* Probes. *)

Good(b) == Cardinality({i \in 1 .. Window : happy'[b][i]})

\* vbp_has_poked: enough good pokes in the window make a backend healthy.
vbp_has_poked(b) == healthy' = [healthy EXCEPT ![b] = Good(b) >= Threshold]

\* The poller's first pokes are made up: min(initial, threshold) good ones.
PollerStarts(b) ==
  /\ poller[b] = "start"
  /\ happy' = [happy EXCEPT ![b] =
                 [i \in 1 .. Window |-> i <= Initial /\ i <= Threshold]]
  /\ vbp_has_poked(b)
  /\ poller' = [poller EXCEPT ![b] = IF stop[b] THEN "none" ELSE "poll"]
  /\ UNCHANGED <<vclVars, be, connVars, probe, stop, userVars, cli, failed, raced>>

\* One poke, with any result, and the sleep after it, unless vt->stop is set.
Poke(b) ==
  /\ poller[b] = "poll"
  /\ \E r \in BOOLEAN :
       happy' = [happy EXCEPT ![b] =
                   [i \in 1 .. Window |-> IF i = 1 THEN r ELSE @[i - 1]]]
  /\ vbp_has_poked(b)
  /\ poller' = [poller EXCEPT ![b] = IF stop[b] THEN "none" ELSE @]
  /\ UNCHANGED <<vclVars, be, connVars, probe, stop, userVars, cli, failed, raced>>

\* It is cancelled before it starts, in its sleep or in the calls of a poke.
PollerCancelled(b) ==
  /\ poller[b] # "none" /\ stop[b]
  /\ poller' = [poller EXCEPT ![b] = "none"]
  /\ UNCHANGED <<vclVars, be, connVars, healthy, probe, stop, happy, userVars, cli, failed, raced>>

\* VBP_Start: a backend without a probe is healthy, another one is sick until
\* its poller has started.
VBP_Start(b) ==
  /\ healthy' = [healthy EXCEPT ![b] = b \notin Probed]
  /\ probe' = [probe EXCEPT ![b] = b \in Probed]
  /\ stop' = [stop EXCEPT ![b] = FALSE]
  /\ poller' = [poller EXCEPT ![b] = IF b \in Probed THEN "start" ELSE "none"]
  /\ happy' = [happy EXCEPT ![b] = [i \in 1 .. Window |-> FALSE]]
-----------------------------------------------------------------------------
(* The CLI thread. *)

\* cli_cb_before of the next command: VCL_Poll visits the discarded programs ...
CbBefore ==
  /\ cli.pc = "idle"
  /\ cli' = [CliIdle EXCEPT !.pc = "vclpoll", !.todo = {v \in Vcls : vcl[v] = "discarded"}]
  /\ UNCHANGED <<vclVars, be, connVars, probeVars, userVars, failed, raced>>

\* VCL_Nuke asserts, takes the program off the list and calls fini_func.
VCL_Nuke(v, todo, ret) ==
  /\ failed' = (v = active \/ busy[v] # 0)
  /\ vcl' = [vcl EXCEPT ![v] = "fini"]
  /\ cli' = [CliIdle EXCEPT !.pc = "fini", !.todo = todo, !.v = v,
                            !.bes = Uses[v], !.ret = ret]

\* Mutated form: VCL_Poll frees nothing.
VCL_Poll_blind(v) ==
  /\ cli.pc = "vclpoll" /\ v \in cli.todo
  /\ cli' = [cli EXCEPT !.todo = @ \ {v}]
  /\ UNCHANGED <<vclVars, be, connVars, probeVars, userVars, failed, raced>>

\* ... and frees those which are not busy.
VCL_Poll(v) ==
  /\ cli.pc = "vclpoll" /\ v \in cli.todo
  /\ IF busy[v] = 0
     THEN VCL_Nuke(v, cli.todo \ {v}, "vclpoll")
     ELSE cli' = [cli EXCEPT !.todo = @ \ {v}] /\ UNCHANGED <<vcl, failed>>
  /\ UNCHANGED <<active, busy, started, be, connVars, probeVars, userVars, raced>>

\* VBE_Nuke of the backends in S
Nuked(S) ==
  /\ be' = [b \in Backends |-> be[b] /\ b \notin S]
  /\ nConn' = [b \in Backends |-> IF b \in S THEN 0 ELSE nConn[b]]
  /\ healthy' = [b \in Backends |-> healthy[b] /\ b \notin S]
  /\ stop' = [b \in Backends |-> stop[b] /\ b \notin S]
  /\ happy' = [b \in Backends |-> [i \in 1 .. Window |-> happy[b][i] /\ b \notin S]]

\* VBE_Poll, and the command is about to run.
VBE_Poll ==
  /\ cli.pc = "vclpoll" /\ cli.todo = {}
  /\ Nuked({b \in Backends : be[b] /\ ref[b] = 0 /\ ~probe[b]})
  /\ cli' = [cli EXCEPT !.pc = "run"]
  /\ UNCHANGED <<vclVars, ref, idle, probe, poller, userVars, failed, raced>>

\* The director of b is freed: VBE_DropRef.  The last reference closes the
\* idle connections and stops the probe (its poller is told and cancelled) or
\* frees the struct.
VRT_fini_dir(b) ==
  LET last == ref[b] = 1 IN
  /\ cli.pc = "fini" /\ b \in cli.bes
  /\ ref' = [ref EXCEPT ![b] = @ - 1]
  /\ failed' = (ref[b] = 0)
  /\ idle' = [idle EXCEPT ![b] = IF last THEN 0 ELSE @]
  /\ IF last /\ probe[b]
     THEN /\ stop' = [stop EXCEPT ![b] = TRUE]
          /\ cli' = [cli EXCEPT !.bes = @ \ {b}, !.pc = "join", !.b = b]
          /\ UNCHANGED <<be, nConn, healthy, happy>>
     ELSE /\ Nuked(IF last THEN {b} ELSE {})
          /\ cli' = [cli EXCEPT !.bes = @ \ {b}]
  /\ UNCHANGED <<vclVars, probe, poller, userVars, raced>>

\* Mutated form: VBP_Stop does not wait for the thread.
VBP_Stop_nojoin ==
  /\ cli.pc = "join"
  /\ probe' = [probe EXCEPT ![cli.b] = FALSE]
  /\ cli' = [cli EXCEPT !.pc = "fini", !.b = None]
  /\ UNCHANGED <<vclVars, be, connVars, healthy, stop, poller, happy, userVars, failed, raced>>

\* VBP_Stop waits for the thread and frees the probe.  The struct backend is
\* left to the next VBE_Poll.
VBP_Stop ==
  /\ cli.pc = "join" /\ poller[cli.b] = "none"
  /\ probe' = [probe EXCEPT ![cli.b] = FALSE]
  /\ cli' = [cli EXCEPT !.pc = "fini", !.b = None]
  /\ UNCHANGED <<vclVars, be, connVars, healthy, stop, poller, happy, userVars, failed, raced>>

\* All directors are freed, and then the program.
NukeEnds ==
  /\ cli.pc = "fini" /\ cli.bes = {}
  /\ vcl' = [vcl EXCEPT ![cli.v] = "free"]
  /\ cli' = [CliIdle EXCEPT !.pc = cli.ret, !.todo = cli.todo]
  /\ UNCHANGED <<active, busy, started, be, connVars, probeVars, userVars, failed, raced>>

\* A command without effect here: the manager's ping, for one.
OtherCommand ==
  /\ cli.pc = "run" /\ cli' = CliIdle
  /\ UNCHANGED <<vclVars, be, connVars, probeVars, userVars, failed, raced>>

\* VCL_Load; the first program becomes the active one, and then init_func.
VCL_Load(v) ==
  /\ cli.pc = "run" /\ vcl[v] = "free"
  /\ vcl' = [vcl EXCEPT ![v] = "loaded"]
  /\ busy' = [busy EXCEPT ![v] = 0]
  /\ active' = IF active = None THEN v ELSE active
  /\ cli' = [CliIdle EXCEPT !.pc = "init", !.v = v, !.bes = Uses[v]]
  /\ UNCHANGED <<started, be, connVars, probeVars, userVars, failed, raced>>

\* VBE_AddBackend: a new backend ...
NewBackend(b) ==
  /\ cli.pc = "init" /\ b \in cli.bes /\ ~be[b]
  /\ be' = [be EXCEPT ![b] = TRUE]
  /\ ref' = [ref EXCEPT ![b] = 1]
  /\ nConn' = [nConn EXCEPT ![b] = 0]
  /\ idle' = [idle EXCEPT ![b] = 0]
  /\ VBP_Start(b)
  /\ cli' = [cli EXCEPT !.bes = @ \ {b}]
  /\ UNCHANGED <<vclVars, userVars, failed, raced>>

\* ... or another reference to one that is there already, counted without the
\* mutex: the counter is read, and written back one higher.
AddBackend(b) ==
  /\ cli.pc = "init" /\ b \in cli.bes /\ be[b]
  /\ cli' = [cli EXCEPT !.pc = "add", !.b = b, !.tmp = ref[b]]
  /\ UNCHANGED <<vclVars, be, connVars, probeVars, userVars, failed, raced>>

AddedBackend ==
  /\ cli.pc = "add"
  /\ ref' = [ref EXCEPT ![cli.b] = cli.tmp + 1]
  /\ raced' = (ref[cli.b] # cli.tmp)
  /\ cli' = [cli EXCEPT !.pc = "init", !.bes = @ \ {cli.b}, !.b = None, !.tmp = 0]
  /\ UNCHANGED <<vclVars, be, nConn, idle, probeVars, userVars, failed>>

InitEnds ==
  /\ cli.pc = "init" /\ cli.bes = {} /\ cli' = CliIdle
  /\ UNCHANGED <<vclVars, be, connVars, probeVars, userVars, failed, raced>>

\* ccf_config_use
ccf_config_use(v) ==
  /\ cli.pc = "run" /\ vcl[v] = "loaded"
  /\ active' = v /\ cli' = CliIdle
  /\ UNCHANGED <<vcl, busy, started, be, connVars, probeVars, userVars, failed, raced>>

\* ccf_config_discard: marked under the lock, unless it is the active one ...
ccf_config_discard(v) ==
  /\ cli.pc = "run" /\ vcl[v] = "loaded" /\ v # active
  /\ vcl' = [vcl EXCEPT ![v] = "discarded"]
  /\ cli' = [CliIdle EXCEPT !.pc = "discard", !.v = v]
  /\ UNCHANGED <<active, busy, started, be, connVars, probeVars, userVars, failed, raced>>

\* ... and freed at once if nobody uses it, which is read after the unlock.
DiscardEnds ==
  /\ cli.pc = "discard"
  /\ IF busy[cli.v] = 0
     THEN VCL_Nuke(cli.v, {}, "idle")
     ELSE cli' = CliIdle /\ UNCHANGED <<vcl, failed>>
  /\ UNCHANGED <<active, busy, started, be, connVars, probeVars, userVars, raced>>

\* ccf_start.  The manager loads and selects a program before it sends it.
ccf_start ==
  /\ cli.pc = "run" /\ ~started /\ active # None
  /\ started' = TRUE /\ cli' = CliIdle
  /\ UNCHANGED <<vcl, active, busy, be, connVars, probeVars, userVars, failed, raced>>
-----------------------------------------------------------------------------
ConnStep(w) ==
  \/ TakeIdle(w) \/ CheckFd(w) \/ HealthyAndVacant(w) \/ ConnTry(w)
  \/ Connect(w) \/ VBE_RecycleFd(w) \/ CloseConn(w)

PollerStep(b) == PollerStarts(b) \/ Poke(b) \/ PollerCancelled(b)

PollStep == CbBefore \/ (\E v \in Vcls : VCL_Poll(v)) \/ VBE_Poll

NukeStep == (\E b \in Backends : VRT_fini_dir(b)) \/ VBP_Stop \/ NukeEnds

Command ==
  \/ OtherCommand \/ ccf_start
  \/ \E v \in Vcls : VCL_Load(v) \/ ccf_config_use(v) \/ ccf_config_discard(v)

CommandStep ==
  \/ \E b \in Backends : NewBackend(b) \/ AddBackend(b)
  \/ AddedBackend \/ InitEnds \/ DiscardEnds

CliStep == PollStep \/ NukeStep \/ Command \/ CommandStep

\* Nothing is said about a process that has failed an assertion, or whose
\* counter is already wrong.
Intact == ~failed /\ ~raced

BackendNext ==
  /\ Intact
  /\ \/ \E u \in Users : VCL_Refresh(u) \/ VCL_Get(u)
     \/ \E w \in Workers : \/ Fresh(w) \/ Done(w) \/ ThreadEnds(w) \/ ConnStep(w)
                           \/ \E b \in Backends : VBE_GetFd(w, b)
     \/ \E b \in Backends : PollerStep(b)
     \/ CliStep

BackendSpec == BackendInit /\ [][BackendNext]_backendVars

\* The CLI thread and the pollers run.  The manager sends a ping whenever it has
\* nothing else to say (mgt_child.c), so that there always is another command.
\* Nothing is asked of clients, workers and the expiry thread.
BackendFairness ==
  /\ WF_backendVars(Intact /\ CliStep)
  /\ \A b \in Probed : WF_backendVars(Intact /\ PollerStep(b))
BackendFairSpec == BackendSpec /\ BackendFairness
-----------------------------------------------------------------------------
(* Properties. *)

Connected == {"check", "connect", "use"}

\* Every field has a value of its type; counters are unsigned in effect.
BackendTypeOK ==
  /\ vcl \in [Vcls -> {"free", "loaded", "discarded", "fini"}]
  /\ active \in Vcls \cup {None} /\ busy \in [Vcls -> Nat] /\ started \in BOOLEAN
  /\ be \in [Backends -> BOOLEAN]
  /\ ref \in [Backends -> Nat] /\ nConn \in [Backends -> Nat] /\ idle \in [Backends -> Nat]
  /\ healthy \in [Backends -> BOOLEAN] /\ probe \in [Backends -> BOOLEAN]
  /\ stop \in [Backends -> BOOLEAN]
  /\ poller \in [Backends -> {"none", "start", "poll"}]
  /\ happy \in [Backends -> [1 .. Window -> BOOLEAN]]
  /\ pc \in [Users -> {"idle", "run", "getvbe", "healthy", "try"} \cup Connected]
  /\ uvcl \in [Users -> Vcls \cup {None}] /\ ube \in [Users -> Backends \cup {None}]
  /\ cli \in [pc : {"idle", "vclpoll", "run", "init", "add", "discard", "fini", "join"},
              todo : SUBSET Vcls, v : Vcls \cup {None}, bes : SUBSET Backends,
              b : Backends \cup {None}, tmp : Nat, ret : {"idle", "vclpoll"}]
  /\ failed \in BOOLEAN /\ raced \in BOOLEAN

\* conf->busy counts exactly the threads that have the program, through every
\* change of the active program.
VclBusyExact == \A v \in Vcls : busy[v] = Count(uvcl, v)

\* The programs with a director for b.
Directs(b) ==
  {v \in Vcls : /\ b \in Uses[v] /\ vcl[v] # "free"
                /\ IF vcl[v] = "fini" THEN b \in cli.bes
                   ELSE ~(cli.pc \in {"init", "add"} /\ cli.v = v /\ b \in cli.bes)}
\* The workers with a connection to b, or on their way to one.
Connects(b) == {w \in Workers : ube[w] = b /\ pc[w] \in Connected}

\* b->refcount counts the directors and the connections in use, not the idle
\* ones, as long as no increment of VBE_AddBackend was disturbed.
BackendRefExact ==
  ~raced => \A b \in Backends :
              ref[b] = Cardinality(Directs(b)) + Cardinality(Connects(b))

\* b->n_conn counts the open connections, in use or idle: what a failed
\* connect, a dead idle connection or a closed one leaves is never counted.
ConnExact ==
  \A b \in Backends : ref[b] > 0 => nConn[b] = idle[b] + Cardinality(Connects(b))

\* No backend has more connections than there are workers, idle ones included,
\* because a worker opens one only after it has seen the idle list empty.  This
\* is all that .max_connections guarantees too: n_conn is compared before it is
\* raised, and all workers may pass at once.
ConnBound == \A b \in Backends : nConn[b] <= Cardinality(Workers)

\* No assertion fails: the active program is never discarded or freed, no
\* program is freed while it is used, no counter is lowered below zero, and the
\* last reference to a backend is dropped by the CLI thread ("The last
\* reference must come from the watcher in the CLI thread").
NoPanic == ~failed

\* The counters that cache_vcl.c and cache_backend_cfg.c free by are exact and
\* bounded and no assertion fails, through every race of workers with the CLI.
BackendInv ==
  BackendTypeOK /\ VclBusyExact /\ BackendRefExact /\ ConnExact /\ ConnBound /\ NoPanic

\* Whoever holds a pointer to a backend finds it allocated: a worker at any
\* point of vbe_GetVbe, which takes no reference of its own at first, the
\* directors of a program, and the backend's poller.
PointersValid ==
  ~raced => \A b \in Backends :
    (\E w \in Workers : ube[w] = b) \/ Directs(b) # {} \/ poller[b] # "none" => be[b]

\* A backend that a program can use is probed: VBE_AddBackend never finds a
\* struct whose probe was stopped with the last program that used it.
ProbeKept ==
  ~raced => \A b \in Probed : Directs(b) # {} => probe[b] /\ ~stop[b] /\ poller[b] # "none"

\* A backend lives, and is probed, for as long as anybody can use it.
BackendAlive == PointersValid /\ ProbeKept

\* What is discarded and no longer used is freed, and with it the backends that
\* nobody else refers to: later commands do it, and the pollers can be stopped.
DiscardedIsFreed ==
  \A v \in Vcls :
    vcl[v] = "discarded" /\ busy[v] = 0
      ~> \/ raced
         \/ vcl[v] = "free" /\ \A b \in Backends : be[b] => ref[b] > 0
=============================================================================
