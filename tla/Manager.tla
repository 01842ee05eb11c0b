------------------------------- MODULE Manager -------------------------------
(***************************************************************************)
(* The manager process of varnishd and the cache process it keeps running: *)
(* mgt_child.c (start, stop, ping and reap the child), mgt_cli.c (the CLI  *)
(* pipe to the child), mgt_vcc.c (the manager's own store of VCL programs, *)
(* pushed into every new child), the event loop of vev.c, cli_readres of   *)
(* cli_common.c, and, on the other side of the pipe, the child's CLI       *)
(* thread (cache_cli.c, cache_vcl.c).                                      *)
(*                                                                         *)
(* The manager has one thread.  Between two events it is in its loop       *)
(* ("loop": about to look at timers and signals; "poll": in poll(2)), and  *)
(* a handler that asks the child something blocks in "write" and "read"    *)
(* while the child, its own process, answers, is slow, hangs or dies.      *)
(***************************************************************************)
EXTENDS Naturals, Sequences, FiniteSets, SequencesExt

CONSTANTS Names,          \* the names VCL programs are given
          Boot,           \* the program mgt_vcc_default compiles at startup
          Nil,            \* "no program"
          Pings,          \* may params->ping_interval be zero, or not
          MaxUnanswered   \* bound: questions a child may owe an answer to

ASSUME ManagerAssumption ==
  /\ Boot \in Names
  /\ Nil \notin Names
  /\ Pings \subseteq BOOLEAN /\ Pings # {}
  /\ MaxUnanswered \in Nat \ {0}

VARIABLES m,      \* child_state, child_pid, descriptors and events
          vcls,   \* vclhead and the programs marked active
          job,    \* where the manager's thread is
          sig,    \* signals that have happened and are not yet handled
          child,  \* the cache process
          to,     \* the pipe cli_o -> heritage.cli_in: questions
          from,   \* the pipe heritage.cli_out -> cli_i: answers
          late    \* history: an answer of this child was given up waiting for

vars == <<m, vcls, job, sig, child, to, from, late>>

Cmd(op, n) == [op |-> op, name |-> n]
Contexts == {"none", "push", "load", "use", "discard", "ping", "other"}

\* Where the thread is, the handler that asks the child and its question; nth
\* counts the programs pushed into a new child.
Loop == [at |-> "loop", ctx |-> "none", ask |-> Cmd("none", Nil), nth |-> 0]
Asking(ctx, cmd, n) == [at |-> "write", ctx |-> ctx, ask |-> cmd, nth |-> n]

\* VTAILQ_REMOVE of the program called n.
Unlinked(list, n) == RemoveAt(list, CHOOSE i \in DOMAIN list : list[i] = n)

NoChild == [life |-> "none", loaded |-> <<>>, active |-> Nil, serving |-> FALSE]

(***************************************************************************)
(* Descriptors and events                                                  *)
(***************************************************************************)
\* An assertion of the manager that fails takes the manager down: m.ok.
closex(mm, fd) ==
  [mm EXCEPT !.ok = @ /\ fd \in mm.fds, !.fds = @ \ {fd}]

mgt_cli_stop_child(mm) == [mm EXCEPT !.cli = FALSE]

CloseCli(mm) ==
  closex(closex(mgt_cli_stop_child(mm), "child_cli_out"), "child_cli_in")

\* Mutated form: a child that is already stopping is stopped once more.
mgt_stop_child_again(mm) ==
  IF mm.state \notin {"RUNNING", "STOPPING"} THEN mm
  ELSE CloseCli([mm EXCEPT !.state = "STOPPING", !.poker = FALSE])

\* Only a running child is stopped; its pinger goes before its CLI pipe.
mgt_stop_child(mm) ==
  IF mm.state # "RUNNING" THEN mm
  ELSE CloseCli([mm EXCEPT !.state = "STOPPING", !.poker = FALSE])

(***************************************************************************)
(* Starting a child                                                        *)
(***************************************************************************)
\* What a new child is told: load every program, use the active one as soon
\* as it is loaded (see PushReturns), and only then start to serve.
mgt_push_vcls_and_start(n) ==
  Asking("push", IF n <= Len(vcls.head) THEN Cmd("load", vcls.head[n]) ELSE Cmd("start", Nil), n)

\* The pipes, the fork and the two events of the new child.
Forked(mm, ping) ==
  [mm EXCEPT !.state = "STARTING", !.pid = TRUE, !.cli = TRUE,
             !.fds = @ \cup {"child_cli_in", "child_cli_out", "child_output"},
             !.ok = @ /\ ~mm.listen /\ ~mm.poker,
             !.listen = TRUE, !.poker = ping]

start_child(mm) ==
  /\ mm.state \in {"STOPPED", "DIED"}
  /\ \/ /\ m' = [mm EXCEPT !.state = "STOPPED"]      \* open_sockets failed
        /\ job' = Loop
        /\ child' = NoChild
        /\ UNCHANGED <<to, from, late>>
     \/ /\ \E ping \in Pings : m' = Forked(mm, ping)
        /\ child' = [NoChild EXCEPT !.life = "alive"]
        /\ to' = <<>> /\ from' = <<>> /\ late' = FALSE
        /\ job' = mgt_push_vcls_and_start(1)

(***************************************************************************)
(* Initial state and MGT_Run                                               *)
(***************************************************************************)
Init ==
  /\ m = [state |-> "STOPPED", pid |-> FALSE, cli |-> FALSE, fds |-> {},
          listen |-> FALSE, poker |-> FALSE, ok |-> TRUE]
  /\ vcls \in {[head |-> <<>>, active |-> {}],
               [head |-> <<Boot>>, active |-> {Boot}]}
  /\ job = [Loop EXCEPT !.at = "main"]
  /\ sig = {}
  /\ child = NoChild
  /\ to = <<>> /\ from = <<>> /\ late = FALSE

\* Unless in debug mode (-d) the first child is started at once, and the
\* manager gives up if its sockets cannot be opened.
MGT_Run ==
  /\ job.at = "main"
  /\ UNCHANGED <<vcls, sig>>
  /\ \/ /\ job' = Loop
        /\ UNCHANGED <<m, child, to, from, late>>
     \/ /\ vcls.head # <<>>
        /\ start_child(m)
        /\ m'.state # "STOPPED"
     \/ /\ vcls.head # <<>>
        /\ job' = [Loop EXCEPT !.at = "exit"]
        /\ UNCHANGED <<m, child, to, from, late>>

(***************************************************************************)
(* The event loop                                                          *)
(***************************************************************************)
\* vev_schedule_one saw no expired timer and no signal, and calls poll(2).
vev_schedule_one ==
  /\ job.at = "loop"
  /\ sig = {}
  /\ job' = [job EXCEPT !.at = "poll"]
  /\ UNCHANGED <<m, vcls, sig, child, to, from, late>>

\* Where a signal leaves the manager's thread.  It ends a poll(2), unless it
\* came between the test of evb->psig and the poll; and it ends the poll of
\* read_tmo, which then reads without a time limit.
vev_sighandler(at) ==
  CASE at = "poll" -> {"poll", "loop"}
    [] at = "read" -> {"read", "read_on"}
    [] OTHER -> {at}

Signal(s) ==
  /\ sig' = sig \cup {s}
  /\ \E a \in vev_sighandler(job.at) : job' = [job EXCEPT !.at = a]

SigTerm ==
  /\ job.at \notin {"main", "exit"}
  /\ "TERM" \notin sig
  /\ Signal("TERM")
  /\ UNCHANGED <<m, vcls, child, to, from, late>>

mgt_sigint ==
  /\ job.at = "loop"
  /\ "TERM" \in sig
  /\ sig' = sig \ {"TERM"}
  /\ m' = IF m.pid THEN mgt_stop_child(m) ELSE m
  /\ job' = [Loop EXCEPT !.at = "exit"]
  /\ UNCHANGED <<vcls, child, to, from, late>>

\* What mgt_sigchld does to the manager once the child is reaped.
Reaped(mm) ==
  LET dead == [mm EXCEPT !.pid = FALSE, !.poker = FALSE]
      shut == IF mm.state = "RUNNING"
              THEN CloseCli([dead EXCEPT !.state = "DIED"]) ELSE dead
  IN  closex([shut EXCEPT !.listen = FALSE], "child_output")

\* SIGCHLD.  The pinger is deleted before the manager knows whose death it
\* is: a C compiler's leaves a running child without one.  A child that died
\* while it was running is replaced if params->auto_restart is set.
mgt_sigchld ==
  /\ job.at = "loop"
  /\ "CHLD" \in sig /\ "TERM" \notin sig
  /\ sig' = sig \ {"CHLD"}
  /\ UNCHANGED vcls
  /\ \/ /\ child.life # "zombie"
        /\ m' = [m EXCEPT !.poker = FALSE]
        /\ job' = Loop
        /\ UNCHANGED <<child, to, from, late>>
     \/ /\ child.life = "zombie"
        /\ Reaped(m).state = "DIED"                  \* and auto_restart
        /\ start_child(Reaped(m))
     \/ /\ child.life = "zombie"
        /\ m' = [Reaped(m) EXCEPT !.state =
                   IF @ \in {"DIED", "STOPPING"} THEN "STOPPED" ELSE @]
        /\ child' = NoChild
        /\ job' = Loop
        /\ UNCHANGED <<to, from, late>>

\* The child's stdout has ended: the listener goes, its descriptor stays.
child_listener ==
  /\ job.at = "poll"
  /\ m.listen /\ child.life = "zombie"
  /\ m' = [m EXCEPT !.listen = FALSE]
  /\ job' = Loop
  /\ UNCHANGED <<vcls, sig, child, to, from, late>>

\* The pinger's timer has run out, before or in poll(2).
child_poker ==
  /\ job.at \in {"loop", "poll"}
  /\ m.poker
  /\ Len(to) + Len(from) <= MaxUnanswered
  /\ IF m.state = "RUNNING"
     THEN job' = Asking("ping", Cmd("ping", Nil), 0) /\ UNCHANGED m
     ELSE job' = Loop /\ m' = [m EXCEPT !.ok = FALSE]  \* frees *ev_poker
  /\ UNCHANGED <<vcls, sig, child, to, from, late>>

(***************************************************************************)
(* CLI commands to the manager                                             *)
(***************************************************************************)
Room == m.cli => Len(to) + Len(from) < MaxUnanswered

server_start ==
  /\ job.at = "poll"
  /\ m.state = "STOPPED" /\ vcls.head # <<>>
  /\ start_child(m)
  /\ UNCHANGED <<vcls, sig>>

server_stop ==
  /\ job.at = "poll"
  /\ m.state = "RUNNING"
  /\ m' = mgt_stop_child(m)
  /\ job' = Loop
  /\ UNCHANGED <<vcls, sig, child, to, from, late>>

\* A command that is refused or only reports leaves nothing behind, but
\* the manager has been woken from its poll(2).
mcf_server_status ==
  /\ job.at = "poll"
  /\ job' = Loop
  /\ UNCHANGED <<m, vcls, sig, child, to, from, late>>

mgt_vcc_add(n) == [vcls EXCEPT !.head = Append(@, n)]
mgt_vcc_delbyname(n) == [vcls EXCEPT !.head = Unlinked(@, n)]
SetActive(n) == [vcls EXCEPT !.active = {n}]

\* A handler that asks the child when there is one, and otherwise changes
\* the manager's store alone.  `done` is the store when all is well.
AskOr(ctx, cmd, done) ==
  IF m.pid
  THEN job' = Asking(ctx, cmd, 0) /\ UNCHANGED vcls
  ELSE job' = Loop /\ vcls' = done

\* SUB_run waits for the process it forks; its SIGCHLD is left to the loop.
SUB_run == sig' = sig \cup {"CHLD"}

\* The VCL compiler, the C compiler and a trial dlopen: a shared object or
\* nothing, and no file left behind.
mgt_run_cc(compiled) ==
  /\ compiled \in BOOLEAN
  /\ SUB_run

\* vcl.load and vcl.inline.
mcf_config_load(n) ==
  /\ job.at = "poll" /\ Room
  /\ n \notin Range(vcls.head)
  /\ \E vf \in BOOLEAN :
       /\ mgt_run_cc(vf)
       /\ IF vf THEN AskOr("load", Cmd("load", n), mgt_vcc_add(n))
          ELSE job' = Loop /\ UNCHANGED vcls
  /\ UNCHANGED <<m, child, to, from, late>>

mcf_config_use(n) ==
  /\ job.at = "poll" /\ Room
  /\ n \in Range(vcls.head) \ vcls.active
  /\ AskOr("use", Cmd("use", n), SetActive(n))
  /\ UNCHANGED <<m, sig, child, to, from, late>>

mcf_config_discard(n) ==
  /\ job.at = "poll" /\ Room
  /\ n \in Range(vcls.head) \ vcls.active
  /\ AskOr("discard", Cmd("discard", n), mgt_vcc_delbyname(n))
  /\ UNCHANGED <<m, sig, child, to, from, late>>

\* Any other command is the child's: url.purge, vcl.list, ...
mcf_askchild ==
  /\ job.at = "poll" /\ Room
  /\ m.cli
  /\ job' = Asking("other", Cmd("other", Nil), 0)
  /\ UNCHANGED <<m, vcls, sig, child, to, from, late>>

(***************************************************************************)
(* The answer, in the handler that asked for it                            *)
(***************************************************************************)
\* start_child goes on with the next question, or is done, or fails: then
\* the child counts as running just long enough to be stopped.
PushReturns(ok) ==
  /\ job.ctx = "push"
  /\ UNCHANGED <<vcls, sig, child>>
  /\ \/ /\ ok /\ job.ask.op # "start"
        /\ job' = IF job.ask.op = "load" /\ job.ask.name \in vcls.active
                  THEN Asking("push", Cmd("use", job.ask.name), job.nth)
                  ELSE mgt_push_vcls_and_start(job.nth + 1)
        /\ UNCHANGED m
     \/ /\ ok /\ job.ask.op = "start"
        /\ m' = [m EXCEPT !.state = "RUNNING"]
        /\ job' = Loop
     \/ /\ ~ok
        /\ m' = mgt_stop_child([m EXCEPT !.state = "RUNNING"])
        /\ job' = Loop

\* The manager's store follows the child's, if the child says yes.
StoreReturns(ok) ==
  LET n == job.ask.name IN
  /\ job.ctx \in {"load", "use", "discard", "other"}
  /\ vcls' = IF ~ok THEN vcls
             ELSE CASE job.ctx = "load" -> mgt_vcc_add(n)
                    [] job.ctx = "use" -> SetActive(n)
                    [] job.ctx = "discard" -> mgt_vcc_delbyname(n)
                    [] OTHER -> vcls
  /\ job' = Loop
  /\ UNCHANGED <<m, sig, child>>

\* Mutated form: the child that does not answer a ping is left alone.
PingReturns_mild(ok) ==
  /\ job.ctx = "ping"
  /\ job' = Loop
  /\ UNCHANGED <<m, vcls, sig, child>>

\* A child that does not say yes to a ping is killed.
PingReturns(ok) ==
  /\ job.ctx = "ping"
  /\ job' = Loop
  /\ UNCHANGED <<m, vcls>>
  /\ IF ok \/ child.life \notin {"alive", "hung"}
     THEN UNCHANGED <<sig, child>>
     ELSE sig' = sig \cup {"CHLD"} /\ child' = [child EXCEPT !.life = "zombie"]

Returns(ok) == PushReturns(ok) \/ StoreReturns(ok) \/ PingReturns(ok)

(***************************************************************************)
(* mgt_cli_askchild: write the question, wait for the next answer          *)
(***************************************************************************)
mgt_cli_askchild ==
  /\ job.at = "write"
  /\ UNCHANGED <<from, late>>
  /\ \/ /\ ~m.cli \/ child.life = "zombie"           \* CLIS_CANT, EPIPE
        /\ Returns(FALSE)
        /\ UNCHANGED to
     \/ /\ m.cli /\ child.life # "zombie"
        /\ to' = Append(to, job.ask)
        /\ job' = [job EXCEPT !.at = "read"]
        /\ UNCHANGED <<m, vcls, sig, child>>

\* The next answer in the pipe, whichever question it answers.
cli_readres ==
  /\ job.at \in {"read", "read_on"}
  /\ from # <<>>
  /\ from' = Tail(from)
  /\ Returns(Head(from) = "OK")
  /\ UNCHANGED <<to, late>>

\* No answer: the pipe is closed, or cli_timeout has passed.  The answer to
\* a question given up on is still to come.
read_tmo ==
  /\ from = <<>>
  /\ \/ /\ job.at \in {"read", "read_on"} /\ child.life = "zombie"
        /\ UNCHANGED late
     \/ /\ job.at = "read" /\ child.life \in {"alive", "hung"}
        /\ late' = TRUE
  /\ Returns(FALSE)
  /\ UNCHANGED <<to, from>>

(***************************************************************************)
(* The child's CLI thread                                                  *)
(***************************************************************************)
Answer(c, a) ==
  /\ child' = c
  /\ to' = Tail(to)
  /\ from' = Append(from, a)

VCL_Load(n) ==
  \/ /\ n \notin Range(child.loaded)
     /\ Answer([child EXCEPT !.loaded = Append(@, n),
                             !.active = IF @ = Nil THEN n ELSE @], "OK")
  \/ Answer(child, "PARAM")           \* already loaded, or dlopen failed

ccf_config_use(n) ==
  IF n \in Range(child.loaded)
  THEN Answer([child EXCEPT !.active = n], "OK")
  ELSE Answer(child, "PARAM")

\* Mutated form: the child discards the program it is using.
ccf_config_discard_any(n) ==
  IF n \in Range(child.loaded)
  THEN Answer([child EXCEPT !.loaded = Unlinked(@, n)], "OK")
  ELSE Answer(child, "PARAM")

ccf_config_discard(n) ==
  IF n \in Range(child.loaded) \ {child.active}
  THEN Answer([child EXCEPT !.loaded = Unlinked(@, n)], "OK")
  ELSE Answer(child, "PARAM")

CLI_Run ==
  /\ child.life = "alive"
  /\ m.cli /\ to # <<>>
  /\ LET c == Head(to) IN
       \/ c.op = "load" /\ VCL_Load(c.name)
       \/ c.op = "use" /\ ccf_config_use(c.name)
       \/ c.op = "discard" /\ ccf_config_discard(c.name)
       \/ c.op = "start" /\ Answer([child EXCEPT !.serving = TRUE], "OK")
       \/ c.op = "ping" /\ Answer(child, "OK")
       \/ c.op = "other" /\ \E a \in {"OK", "PARAM"} : Answer(child, a)
  /\ UNCHANGED <<m, vcls, job, sig, late>>

\* The child ends: its CLI was closed, or it dies (a panic, a kill).
ChildGone ==
  /\ child.life \in {"alive", "hung"}
  /\ child' = [child EXCEPT !.life = "zombie"]
  /\ Signal("CHLD")
  /\ UNCHANGED <<m, vcls, to, from, late>>

ChildEnds == child.life = "alive" /\ ~m.cli /\ ChildGone
ChildDies == m.cli /\ ChildGone

ChildHangs ==
  /\ child.life = "alive"
  /\ child' = [child EXCEPT !.life = "hung"]
  /\ UNCHANGED <<m, vcls, job, sig, to, from, late>>

\* The manager has exited and its child, if any, is on its own: the end.
Exited ==
  /\ job.at = "exit"
  /\ child.life # "alive"
  /\ UNCHANGED vars

(***************************************************************************)
(* Specification                                                           *)
(***************************************************************************)
Ask == mgt_cli_askchild \/ cli_readres \/ read_tmo
Signals == mgt_sigint \/ mgt_sigchld
Child == CLI_Run \/ ChildEnds

Operator ==
  \/ server_start \/ server_stop \/ mcf_server_status \/ mcf_askchild
  \/ \E n \in Names :
       mcf_config_load(n) \/ mcf_config_use(n) \/ mcf_config_discard(n)

Next ==
  \/ MGT_Run \/ vev_schedule_one \/ Signals \/ child_listener \/ child_poker
  \/ Operator \/ Ask
  \/ Child \/ SigTerm \/ ChildDies \/ ChildHangs \/ Exited

(* The manager's thread runs; an expired timer and a signal that the loop  *)
(* sees are served before anything else (vev_schedule_one), so neither is  *)
(* put off for ever by CLI traffic.  A child that does not hang runs too.  *)
Fairness ==
  /\ WF_vars(Ask) /\ WF_vars(vev_schedule_one) /\ WF_vars(child_listener)
  /\ SF_vars(child_poker) /\ SF_vars(Signals)
  /\ WF_vars(Child)

Spec == Init /\ [][Next]_vars
FairSpec == Spec /\ Fairness

(***************************************************************************)
(* Properties                                                              *)
(***************************************************************************)
TypeOK ==
  /\ m \in [state : {"STOPPED", "STARTING", "RUNNING", "STOPPING", "DIED"},
            pid : BOOLEAN, cli : BOOLEAN,
            fds : SUBSET {"child_cli_in", "child_cli_out", "child_output"},
            listen : BOOLEAN, poker : BOOLEAN, ok : BOOLEAN]
  /\ vcls.head \in Seq(Names) /\ vcls.active \subseteq Names
  /\ job.at \in {"main", "loop", "poll", "write", "read", "read_on", "exit"}
  /\ job.ctx \in Contexts
  /\ sig \subseteq {"CHLD", "TERM"}
  /\ child.life \in {"none", "alive", "hung", "zombie"}
  /\ child.loaded \in Seq(Names) /\ child.active \in Names \cup {Nil}
  /\ child.serving \in BOOLEAN /\ late \in BOOLEAN

(* No sequence of commands, signals and deaths makes the manager fail an   *)
(* assertion (a descriptor closed twice in closex, AZ(ev_listen) and       *)
(* AZ(ev_poker) in start_child, a pinger freed behind ev_poker's back);    *)
(* between events no state of the child is "starting" or "died", there is  *)
(* a child exactly when there is a pid, its CLI is open exactly while it   *)
(* runs, its output as long as it is unreaped, and a pinger only while it  *)
(* runs; and at most one program is active, one the manager knows.         *)
ManagerInv ==
  /\ TypeOK
  /\ m.ok
  /\ m.pid <=> child.life # "none"
  /\ m.cli <=> m.state \in {"STARTING", "RUNNING"}
  /\ m.fds = (IF m.cli THEN {"child_cli_in", "child_cli_out"} ELSE {})
               \cup (IF m.pid THEN {"child_output"} ELSE {})
  /\ m.poker => m.cli
  /\ m.state = "STARTING" <=> job.ctx = "push"
  /\ m.state = "STOPPED" <=> ~m.pid
  /\ m.state # "DIED"
  /\ Cardinality(vcls.active) <= 1
  /\ vcls.active \subseteq Range(vcls.head)

\* The program the manager believes its child to use.
Believed == CASE vcls.active # {} -> CHOOSE n \in vcls.active : TRUE
              [] vcls.head = <<>> -> Nil
              [] OTHER -> vcls.head[1]

(* As long as no answer of this child was given up on, whatever was loaded,*)
(* put to use or discarded before, while or after it was started, the      *)
(* child and the manager agree, between two commands, on which programs    *)
(* are loaded, in which order, and on the one in use: after every restart  *)
(* the new child serves what the old one did.                              *)
ChildAgrees ==
  m.state = "RUNNING" /\ job.at \in {"loop", "poll"}
    /\ child.life # "zombie" /\ ~late =>
    /\ child.loaded = vcls.head
    /\ child.active = Believed
    /\ child.serving
    /\ to = <<>> /\ from = <<>>

(* A new child starts to serve only when it has every program the manager  *)
(* has and uses the one the manager believes in use, as long as none of    *)
(* its answers was given up on.  (There may be none: late answers of an    *)
(* earlier child can have emptied the store, and auto_restart, unlike the  *)
(* command "start", does not look.)                                        *)
ServesProgrammed ==
  child.serving /\ m.state = "STARTING" /\ ~late =>
    child.loaded = vcls.head /\ child.active = Believed

(* The child has the programs the manager has, and uses the same one, when *)
(* it begins to serve and ever after, until an answer is given up on.      *)
StoresAgree == ChildAgrees /\ ServesProgrammed

(* A watched child is not left to itself: while its pinger is there, a     *)
(* dead child is reaped even if its SIGCHLD came just before poll(2), and  *)
(* a child that hangs is killed, unless the operator stops it, the manager *)
(* exits, a compiler's SIGCHLD takes the pinger away or a signal makes the *)
(* manager wait for the answer without a time limit.                       *)
WatchedChildReplaced ==
  /\ (child.life = "zombie" /\ m.poker)
       ~> (child.life # "zombie" \/ m.state = "STOPPING")
  /\ (child.life = "hung" /\ m.poker)
       ~> (child.life # "hung" \/ ~m.poker \/ job.at = "read_on")
=============================================================================
