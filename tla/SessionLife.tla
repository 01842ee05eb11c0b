---------------------------- MODULE SessionLife ----------------------------
(***************************************************************************)
(* The life of a client session between its requests: the acceptor         *)
(* (cache_acceptor.c), the session memory (cache_session.c), the waiter    *)
(* that watches idle connections (cache_waiter_epoll.c, _kqueue.c, _ports.c *)
(* and _poll.c: the behaviour picks one, as ccf_start does) and the part   *)
(* of cache_center.c that takes a session from and gives it back to the    *)
(* waiter.  What happens to a request in between is module Request.        *)
(*                                                                         *)
(* A session is a piece of memory, a connection is a descriptor: both are  *)
(* reused, the descriptor as soon as it is closed and by another thread,   *)
(* and events, pending changes and table entries of the waiter name them.  *)
(***************************************************************************)
EXTENDS Integers, Sequences, FiniteSets, SequencesExt, FiniteSetsExt

CONSTANTS
  Waiters,    \* the waiters this build offers
  Chunks,     \* the session memory malloc can return
  Fds,        \* the descriptors of client connections
  Workers,    \* worker threads
  MaxSess,    \* params->max_sess
  Timeout,    \* params->sess_timeout, in ticks
  Spare,      \* bound: sessions freed or precreated by SES_Delete
  NKEV        \* changes kqueue collects before it must flush them

ASSUME SessionAssumption ==
  /\ Waiters \subseteq {"epoll", "kqueue", "ports", "poll"}
  /\ IsFiniteSet(Workers) /\ Workers \cap {"acceptor", "waiter"} = {}
  /\ Chunks \subseteq Nat \ {0} /\ Fds \subseteq Nat \ {0}
  /\ MaxSess \in Nat \ {0} /\ Timeout \in Nat \ {0} /\ Spare \in Nat /\ NKEV \in Nat \ {0}

None == 0
Threads == {"acceptor", "waiter"} \cup Workers

VARIABLES
  waiter,    \* vca_act
  mem,       \* the sessmems that are allocated
  nsess,     \* VSL_stats->n_sess_mem
  freeq,     \* ses_free_mem[2]
  qp,        \* ses_qp
  spare,     \* what is left of the bound Spare
  acc,       \* the acceptor: where it is in its loop, the descriptor, the sessmem
  del,       \* where each thread is in SES_Delete
  fd,        \* sp->fd of each session, None when closed
  age,       \* now - sp->t_open
  added,     \* epoll: sessions whose sp->ev.data.ptr is set
  queue,     \* sessions queued for a worker
  work,      \* the session each worker runs, and its sp->step
  pipe,      \* vca_pipes (ports: events sent with port_send)
  sesshead,  \* the waiter's list of idle sessions
  entry,     \* what the kernel's queue knows of a descriptor
  pollfd,    \* poll: the descriptors that are polled
  ki,        \* kqueue: changes not given to the kernel yet
  walk,      \* poll: what is left of its walk over the list
  wpc,       \* where the waiter is in its loop
  events,    \* events it has fetched and not handled yet
  timer,     \* a timer event is due
  in,        \* is there something to read from a descriptor?
  lost       \* sessions nobody points at any more

memVars == <<mem, nsess, freeq, qp, spare>>
sessVars == <<fd, age, added>>
waitVars == <<sesshead, ki, pollfd, walk, wpc, events, timer>>
vars == <<waiter, memVars, acc, del, sessVars, queue, work, pipe, waitVars,
          entry, in, lost>>

NoEntry == [sess |-> None, armed |-> FALSE]
AtPoll == [pc |-> "poll", fd |-> None, sm |-> None]
Idle == [sess |-> None, step |-> "none"]
Closed == "closed"

Init ==
  /\ waiter \in Waiters
  /\ mem = {} /\ nsess = 0 /\ freeq = [q \in 0 .. 1 |-> <<>>] /\ qp = 0 /\ spare = Spare
  /\ acc = AtPoll /\ del = [t \in Threads |-> "idle"]
  /\ fd = [s \in Chunks |-> None] /\ age = [s \in Chunks |-> 0] /\ added = {}
  /\ queue = <<>> /\ work = [w \in Workers |-> Idle] /\ pipe = <<>>
  /\ sesshead = <<>> /\ ki = <<>> /\ pollfd = {} /\ walk = <<>> /\ wpc = "wait" /\ events = {} /\ timer = FALSE
  /\ entry = [f \in Fds |-> NoEntry] /\ in = [f \in Fds |-> Closed] /\ lost = {}

Free(t) == del[t] = "idle"
Holds(q) == ToSet(q)

----------------------------------------------------------------------------
(* Session memory. *)

\* malloc returns some piece that is not in use; the pieces do not differ.
Malloc == Min(Chunks \ mem)

\* The limit is read without a lock ...
Full == nsess >= MaxSess

\* ... and the piece counted under stat_mtx, later.
ses_sm_alloc == mem' = mem \cup {Malloc} /\ nsess' = nsess + 1

\* Mutated form: the session goes to the queue the acceptor works on.
PutBack_own(s) == freeq' = [freeq EXCEPT ![qp] = <<s>> \o @]

\* The queue the acceptor does not look at, under ses_mem_mtx.
PutBack(s) == freeq' = [freeq EXCEPT ![1 - qp] = <<s>> \o @]

\* ses_setup wipes the session, what the waiter keeps in it included.
ses_setup(s) ==
  /\ fd' = [fd EXCEPT ![s] = None] /\ age' = [age EXCEPT ![s] = 0]
  /\ added' = added \ {s}

\* SES_Delete: the session, which its caller t has taken from where it was, is
\* freed when params->sess_workspace is no longer the size of its workspace,
\* and washed and put up for adoption otherwise.
SES_Delete(t, s) ==
  /\ ses_setup(s) /\ del' = [del EXCEPT ![t] = "check"] /\ UNCHANGED qp
  /\ \/ /\ spare > 0 /\ spare' = spare - 1
        /\ mem' = mem \ {s} /\ nsess' = nsess - 1 /\ UNCHANGED freeq
     \/ PutBack(s) /\ UNCHANGED <<mem, nsess, spare>>

\* Then another one is precreated, when there are few.  n_sess, which decides
\* it, is counted without a lock by every thread and may be anything.
DeleteCheck(t) ==
  /\ del[t] = "check"
  /\ \/ del' = [del EXCEPT ![t] = "idle"] /\ UNCHANGED spare
     \/ /\ ~Full /\ spare > 0 /\ spare' = spare - 1
        /\ del' = [del EXCEPT ![t] = "alloc"]
  /\ UNCHANGED <<waiter, mem, nsess, freeq, qp, acc, sessVars, queue, work, pipe,
                 waitVars, entry, in, lost>>
DeletePrecreate(t) ==
  /\ del[t] = "alloc" /\ mem # Chunks
  /\ ses_sm_alloc /\ PutBack(Malloc)
  /\ del' = [del EXCEPT ![t] = "idle"]
  /\ UNCHANGED <<waiter, qp, spare, acc, sessVars, queue, work, pipe, waitVars,
                 entry, in, lost>>

----------------------------------------------------------------------------
(* Descriptors.  accept(2) gives the lowest one that is free; close(2)     *)
(* also removes what epoll, kqueue or a port has for it (external).        *)

FreeFds == {f \in Fds : in[f] = Closed}
Sends(f) == in[f] = "ready"
Close(f) ==
  /\ in' = [in EXCEPT ![f] = Closed]
  /\ entry' = [entry EXCEPT ![f] = NoEntry]

\* vca_close_session, with the SES_Delete that follows it in thread t.
CloseDelete(t, s, f) == Close(f) /\ SES_Delete(t, s) /\ UNCHANGED queue

\* WRK_QueueSession takes the session or, when the pools refuse it, closes and
\* deletes it in the thread that came with it.
WRK_QueueSession(t, s, f, step, input) ==
  \/ /\ queue' = Append(queue, [sess |-> s, step |-> step])
     /\ fd' = [fd EXCEPT ![s] = f] /\ in' = input
     /\ UNCHANGED <<memVars, age, added, entry, del>>
  \/ CloseDelete(t, s, f)

----------------------------------------------------------------------------
(* The acceptor, vca_acct, with SES_New.                                   *)

Accepts == Free("acceptor") /\ UNCHANGED <<waiter, work, pipe, waitVars, lost>>
First(q) == IF q = <<>> THEN None ELSE Head(q)

\* A client connects, and accept(2) has a descriptor for it.  SES_New looks at
\* its own queue, without a lock.
Accept ==
  /\ Accepts /\ acc.pc = "poll" /\ FreeFds # {}
  /\ LET f == Min(FreeFds) IN
     /\ acc' = [pc |-> IF freeq[qp] = <<>> THEN "flip" ELSE "take",
                fd |-> f, sm |-> First(freeq[qp])]
     /\ in' = [in EXCEPT ![f] = "none"]
  /\ UNCHANGED <<memVars, del, sessVars, queue, entry>>

\* It is empty: swap the queues and try the other one.
SesFlip ==
  /\ Accepts /\ acc.pc = "flip"
  /\ qp' = 1 - qp
  /\ acc' = [acc EXCEPT !.pc = IF freeq[qp'] = <<>> THEN "check" ELSE "take",
                        !.sm = First(freeq[qp'])]
  /\ UNCHANGED <<mem, nsess, freeq, spare, del, sessVars, queue, entry, in>>

\* No session to recycle: without memory for a new one the client is dropped.
SesCheck ==
  /\ Accepts /\ acc.pc = "check"
  /\ \/ Full /\ acc' = AtPoll /\ Close(acc.fd)
     \/ ~Full /\ acc' = [acc EXCEPT !.pc = "alloc"] /\ UNCHANGED <<in, entry>>
  /\ UNCHANGED <<memVars, del, sessVars, queue>>
SesAlloc ==
  /\ Accepts /\ acc.pc = "alloc" /\ mem # Chunks
  /\ ses_sm_alloc
  /\ acc' = [acc EXCEPT !.pc = "queue", !.sm = Malloc]
  /\ UNCHANGED <<freeq, qp, spare, del, sessVars, queue, entry, in>>
SesTake ==
  /\ Accepts /\ acc.pc = "take"
  /\ freeq' = [freeq EXCEPT ![qp] = RemoveFirst(@, acc.sm)]
  /\ acc' = [acc EXCEPT !.pc = "queue"]
  /\ UNCHANGED <<mem, nsess, qp, spare, del, sessVars, queue, entry, in>>

\* The session gets the descriptor and its time, and goes to a worker.
AcceptQueue ==
  /\ Accepts /\ acc.pc = "queue" /\ acc' = AtPoll
  /\ WRK_QueueSession("acceptor", acc.sm, acc.fd, "wait", in)

----------------------------------------------------------------------------
(* Workers: CNT_Session, seen from the connection.                         *)

Works(w) == Free(w) /\ UNCHANGED <<waiter, acc, waitVars>>
Keeps == UNCHANGED <<memVars, added, del, queue>>
At(w, step) == work[w].step = step

\* A worker takes a session: one that has no request yet starts in cnt_first
\* and cnt_wait, one the waiter has read a request for in cnt_start.
WorkTake(w) ==
  /\ Works(w) /\ work[w] = Idle /\ queue # <<>>
  /\ work' = [work EXCEPT ![w] = Head(queue)]
  /\ queue' = Tail(queue)
  /\ UNCHANGED <<memVars, del, sessVars, pipe, entry, in, lost>>

Step(w, step) == work' = [work EXCEPT ![w].step = step]
Leave(w) == work' = [work EXCEPT ![w] = Idle]

\* vca_return_session.  Where the descriptor cannot be made non-blocking, the
\* connection having failed, it is closed and the session forgotten.
vca_return_session(w, s) ==
  /\ Leave(w)
  /\ \/ pipe' = Append(pipe, s) /\ UNCHANGED <<fd, entry, in, lost>>
     \/ /\ Sends(fd[s]) /\ Close(fd[s]) /\ fd' = [fd EXCEPT ![s] = None]
        /\ lost' = lost \cup {s} /\ UNCHANGED pipe

\* cnt_done of a session whose connection is closed.
DoneClosed(w, s) ==
  Leave(w) /\ CloseDelete(w, s, fd[s]) /\ UNCHANGED <<pipe, lost>>

\* cnt_wait reads once when params->session_linger allows it and something
\* is there to read: data that completes the request, or does not, or the end.
cnt_wait(w) ==
  /\ Works(w) /\ At(w, "wait")
  /\ LET s == work[w].sess IN
     \/ vca_return_session(w, s) /\ Keeps /\ UNCHANGED age
     \/ /\ Sends(fd[s]) /\ in' = [in EXCEPT ![fd[s]] = "none"]
        /\ \/ Step(w, "start") /\ UNCHANGED pipe
           \/ Leave(w) /\ pipe' = Append(pipe, s)
        /\ Keeps /\ UNCHANGED <<fd, age, entry, lost>>
     \/ Sends(fd[s]) /\ DoneClosed(w, s)

\* The request is handled (module Request), up to and with cnt_done: delete the
\* session when its connection is closed; otherwise go on with a pipelined
\* request, wait for more, or give it to the waiter.
cnt_done(w) ==
  /\ Works(w) /\ At(w, "start")
  /\ LET s == work[w].sess IN
     \/ DoneClosed(w, s)
     \/ /\ age' = [age EXCEPT ![s] = 0] /\ Keeps
        /\ \/ \E step \in {"start", "wait"} : Step(w, step)
              /\ UNCHANGED <<fd, in, entry, pipe, lost>>
           \/ vca_return_session(w, s)

----------------------------------------------------------------------------
(* The waiter: vca_main, vca_kqueue_main.                                  *)

Waits == Free("waiter") /\ UNCHANGED <<waiter, acc, work, lost>>
Pipe == -1    \* the event of the pipe, next to those of sessions

\* What the kernel knows once it has been told of the changes.
Applied(e, changes) ==
  [f \in Fds |-> IF \E i \in 1 .. Len(changes) : changes[i].fd = f
                 THEN LET i == CHOOSE j \in 1 .. Len(changes) : changes[j].fd = f
                      IN [sess |-> changes[i].sess, armed |-> TRUE]
                 ELSE e[f]]

Ready(e) == {f \in Fds : e[f].armed /\ Sends(f)}
Polled == {s \in ToSet(sesshead) : fd[s] \in pollfd /\ Sends(fd[s])}

\* An event is reported once: epoll keeps the descriptor, disarmed; kqueue and
\* the port forget it.
Reported(e) ==
  [f \in Fds |-> IF f \notin Ready(e) THEN e[f]
                 ELSE IF waiter = "epoll" THEN [e[f] EXCEPT !.armed = FALSE]
                 ELSE NoEntry]

\* A port is never waited for longer than 50 ms, and sessions that timed out
\* are looked for after every call; the others have a timer event for it.
dotimer == waiter = "ports" \/ timer

\* epoll_wait, kevent, port_getn or poll returns: with everything that is
\* ready, or because the timer fired.
Wait ==
  /\ Waits /\ wpc = "wait"
  /\ LET e == Applied(entry, ki)
         got == {e[f].sess : f \in Ready(e)} \cup Polled
                \cup {p \in {Pipe} : pipe # <<>>}
     IN
     /\ got # {} \/ timer
     /\ events' = got
     /\ entry' = Reported(e)
  /\ ki' = <<>>
  /\ wpc' = IF waiter = "poll" THEN "walk" ELSE IF dotimer THEN "eventsT" ELSE "events"
  /\ walk' = IF waiter = "poll" THEN sesshead ELSE <<>>
  /\ timer' = FALSE
  /\ UNCHANGED <<memVars, del, sessVars, queue, pipe, sesshead, pollfd, in>>

\* Watch a session.  epoll must be told whether the descriptor is new to it;
\* kqueue's changes are collected, and flushed when the array is full.
Change(s) == [fd |-> fd[s], sess |-> s]
vca_cond_modadd(s) ==
  entry' = Applied(entry, <<Change(s)>>) /\ added' = added \cup {s} /\ UNCHANGED <<ki, pollfd>>
vca_kq_flush == entry' = Applied(entry, ki) /\ ki' = <<>>
vca_kq_sess(s) ==
  /\ IF Len(ki) + 1 = NKEV
     THEN entry' = Applied(entry, Append(ki, Change(s))) /\ ki' = <<>>
     ELSE ki' = Append(ki, Change(s)) /\ UNCHANGED entry
  /\ UNCHANGED <<added, pollfd>>
vca_add(s) == entry' = Applied(entry, <<Change(s)>>) /\ UNCHANGED <<added, ki, pollfd>>
vca_poll(s) == pollfd' = pollfd \cup {fd[s]} /\ UNCHANGED <<added, entry, ki>>
vca_unpoll(s) == pollfd' = pollfd \ {fd[s]}

Watch(s) ==
  CASE waiter = "epoll" -> vca_cond_modadd(s)
    [] waiter = "kqueue" -> vca_kq_sess(s)
    [] waiter = "ports" -> vca_add(s)
    [] waiter = "poll" -> vca_poll(s)

\* Mutated form: sessions are put at the head of the list.
Insert_head(s) == sesshead' = <<s>> \o sesshead

\* A session comes through the pipe.
Insert(s) == sesshead' = Append(sesshead, s)
HandlePipe ==
  /\ Waits /\ Pipe \in events /\ pipe # <<>> /\ wpc \in {"events", "eventsT", "pipe"}
  /\ Insert(Head(pipe)) /\ Watch(Head(pipe))
  /\ pipe' = Tail(pipe)
  /\ events' = IF Len(pipe) = 1 THEN events \ {Pipe} ELSE events
  /\ UNCHANGED <<memVars, del, fd, age, queue, wpc, timer, walk, in>>

\* vca_handover of a session that has left the list.
vca_handover(s, status) ==
  IF status = 1
  THEN WRK_QueueSession("waiter", s, fd[s], "start", [in EXCEPT ![fd[s]] = "none"])
  ELSE CloseDelete("waiter", s, fd[s])

\* What HTC_Rx can return: the client decides.  An overflow takes more data than
\* the buffer of the session holds.
HTC_Rx == {1, 0, -1, -2}
Reads(s) == in' = [in EXCEPT ![fd[s]] = "none"]

\* The waiter handles one of its events for a connection.
Handles(s) == Waits /\ wpc \in {"events", "eventsT"} /\ s \in events
              /\ events' = events \ {s} /\ UNCHANGED <<pipe, wpc, timer, walk>>
TakenOff(s) == sesshead' = RemoveFirst(sesshead, s) /\ UNCHANGED <<ki, pollfd>>
Stays == UNCHANGED <<memVars, fd, age, del, queue, sesshead>>

\* The connection failed or was closed by the client.
Fails(s) == TakenOff(s) /\ CloseDelete("waiter", s, fd[s])

vca_eev(s) ==
  /\ Handles(s) /\ waiter = "epoll"
  /\ \/ \E i \in HTC_Rx : IF i = 0 THEN Reads(s) /\ vca_cond_modadd(s) /\ Stays
                          ELSE TakenOff(s) /\ vca_handover(s, i)
     \/ Fails(s)
vca_kev(s) ==
  /\ Handles(s) /\ waiter = "kqueue"
  /\ \/ \E i \in HTC_Rx : IF i = 0 THEN Reads(s) /\ vca_kq_sess(s) /\ Stays
                          ELSE TakenOff(s) /\ vca_handover(s, i)
     \/ Fails(s)

\* Only for a complete request does a port do anything: it neither closes the
\* connection nor associates it again when HTC_Rx returns something else.
vca_port_ev(s) ==
  /\ Handles(s) /\ waiter = "ports"
  /\ \/ \E i \in HTC_Rx : IF i <= 0 THEN Reads(s) /\ Stays /\ UNCHANGED <<added, entry, ki, pollfd>>
                          ELSE TakenOff(s) /\ vca_handover(s, i)
     \/ Fails(s)

\* All events are handled.  Before kqueue looks for sessions that have been
\* idle for too long it makes sure that no change is pending.
EventsDone ==
  /\ Waits /\ wpc \in {"events", "eventsT"} /\ events = {}
  /\ wpc' = IF wpc = "eventsT" THEN "scan" ELSE "wait"
  /\ IF wpc = "eventsT" /\ waiter = "kqueue" THEN vca_kq_flush ELSE UNCHANGED <<entry, ki>>
  /\ UNCHANGED <<memVars, del, sessVars, queue, pipe, sesshead, events, timer, walk, pollfd, in>>

Aged(s) == age[s] >= Timeout

\* Sessions that timed out are taken from the front of the list, until one has
\* not.
ScanTimeout ==
  /\ Waits /\ wpc = "scan"
  /\ IF sesshead # <<>> /\ Aged(Head(sesshead))
     THEN /\ sesshead' = Tail(sesshead)
          /\ CloseDelete("waiter", Head(sesshead), fd[Head(sesshead)])
          /\ UNCHANGED wpc
     ELSE wpc' = "wait" /\ UNCHANGED <<memVars, sessVars, sesshead, queue, in, entry, del>>
  /\ UNCHANGED <<pipe, ki, pollfd, events, timer, walk>>

\* The poll waiter walks its list as long as events are left, and takes
\* sessions that have an event or have timed out off it.
PollSession ==
  /\ Waits /\ wpc = "walk" /\ walk # <<>> /\ events # {}
  /\ LET s == Head(walk) IN
     \/ /\ s \in events /\ events' = events \ {s}
        /\ \E i \in HTC_Rx :
             IF i = 0
             THEN /\ in' = [in EXCEPT ![fd[s]] = "none"]
                  /\ sesshead' = <<s>> \o RemoveFirst(sesshead, s)
                  /\ UNCHANGED <<memVars, sessVars, del, queue, entry, pollfd>>
             ELSE /\ sesshead' = RemoveFirst(sesshead, s)
                  /\ vca_unpoll(s) /\ vca_handover(s, i)
     \/ /\ s \notin events /\ Aged(s)
        /\ sesshead' = RemoveFirst(sesshead, s)
        /\ vca_unpoll(s) /\ vca_handover(s, -1) /\ UNCHANGED events
     \/ /\ s \notin events /\ ~Aged(s)
        /\ UNCHANGED <<memVars, sessVars, del, queue, in, entry, pollfd, sesshead, events>>
  /\ walk' = Tail(walk)
  /\ UNCHANGED <<pipe, ki, wpc, timer>>
PollWalked ==
  /\ Waits
  /\ \/ wpc = "walk" /\ (walk = <<>> \/ events = {}) /\ wpc' = "pipe"
     \/ wpc = "pipe" /\ Pipe \notin events /\ wpc' = "wait"
  /\ walk' = <<>>
  /\ UNCHANGED <<memVars, del, sessVars, queue, pipe, sesshead, ki, pollfd, events, timer, in, entry>>

----------------------------------------------------------------------------
\* A client sends something, closes its connection or resets it.
Client(f) ==
  /\ in[f] = "none" /\ in' = [in EXCEPT ![f] = "ready"]
  /\ UNCHANGED <<waiter, memVars, acc, del, sessVars, queue, work, pipe, waitVars,
                 entry, lost>>

\* Time passes for every open session, and the timer of the waiter fires.  The
\* deadline of a scan is computed once: to a scan, time stands still.
Tick ==
  /\ wpc \notin {"scan", "walk"}
  /\ age' = [s \in Chunks |-> IF fd[s] = None \/ Aged(s) THEN age[s] ELSE age[s] + 1]
  /\ timer' = TRUE
  /\ UNCHANGED <<waiter, memVars, acc, del, fd, added, queue, work, pipe, sesshead,
                 ki, pollfd, wpc, events, walk, entry, in, lost>>

Delete(t) == DeleteCheck(t) \/ DeletePrecreate(t)
WaiterStep ==
  \/ \E s \in Chunks : vca_eev(s) \/ vca_kev(s) \/ vca_port_ev(s)
  \/ Wait \/ HandlePipe \/ EventsDone \/ ScanTimeout
  \/ PollSession \/ PollWalked \/ Delete("waiter")

Next ==
  \/ Accept \/ SesFlip \/ SesTake \/ SesCheck \/ SesAlloc \/ AcceptQueue
  \/ \E w \in Workers : WorkTake(w) \/ cnt_wait(w) \/ cnt_done(w)
  \/ \E t \in Threads \ {"waiter"} : Delete(t)
  \/ WaiterStep
  \/ \E f \in Fds : Client(f)
  \/ Tick

\* The waiter's thread runs, and time never stops.
Fairness == WF_vars(WaiterStep) /\ SF_vars(Tick)
Spec == Init /\ [][Next]_vars /\ Fairness

----------------------------------------------------------------------------
(* Properties. *)

\* Where session memory can be, and where s is: six lists, the workers (7) and
\* what is lost (8).
AccHas == IF acc.pc = "queue" THEN <<acc.sm>> ELSE <<>>
Queued == [i \in 1 .. Len(queue) |-> queue[i].sess]
Lists == <<freeq[0], freeq[1], AccHas, Queued, pipe, sesshead>>
Spots(s) ==
  (UNION {{<<n, i>> : i \in {j \in DOMAIN Lists[n] : Lists[n][j] = s}} : n \in DOMAIN Lists})
  \cup {<<7, w>> : w \in {x \in Workers : work[x].sess = s}}
  \cup {<<8, x>> : x \in lost \cap {s}}

\* Every piece of session memory is in exactly one place: on one of the two
\* free lists, with the acceptor, a worker, the waiter, on its way between them,
\* or (a descriptor that could not be made non-blocking) lost; and nothing else is.
\* The acceptor works on its own free list without a lock: what it found there
\* first is still there and first when it removes it.
OnePlace ==
  /\ \A s \in mem : \E x \in Spots(s) : Spots(s) = {x}
  /\ \A s \in Chunks \ mem : Spots(s) = {}
  /\ mem \subseteq Chunks /\ \A n \in DOMAIN Lists : ToSet(Lists[n]) \subseteq mem
  /\ acc.pc = "take" => First(freeq[qp]) = acc.sm

\* The waiter's records and the connections agree, whoever closed and reopened
\* a descriptor meanwhile: whatever names a session for a descriptor (the
\* kernel, a pending change, an event, an entry of pollfd) names the session
\* that owns it, a watched or pending one is on the waiter's list, the sessions
\* of open descriptors are different, and epoll is told to add exactly the
\* descriptors that are new to it (the assertions around epoll_ctl, kevent and
\* pollfd hold).
EventsForOwners ==
  /\ \A s, t \in Chunks : s # t /\ fd[s] # None => fd[s] # fd[t]
  /\ \A s \in Chunks : fd[s] # None => in[fd[s]] # Closed
  /\ \A f \in Fds : entry[f].sess # None => fd[entry[f].sess] = f
  /\ \A f \in Fds : entry[f].armed => entry[f].sess \in ToSet(sesshead)
  /\ \A i \in 1 .. Len(ki) : ki[i].sess \in ToSet(sesshead) /\ fd[ki[i].sess] = ki[i].fd
  /\ \A s \in events \ {Pipe} : s \in ToSet(sesshead) /\ fd[s] # None
  /\ \A s \in ToSet(pipe) :
       LET e == entry[fd[s]].sess IN
       IF waiter = "epoll" THEN (s \in added) <=> (e # None) ELSE e = None
  /\ waiter = "poll" => pollfd = {fd[s] : s \in ToSet(sesshead)}
  /\ wpc = "walk" /\ walk = <<>> => events \subseteq {Pipe}

\* The count of session memory is exact, and however many threads look at the
\* limit before one of them is counted, it is exceeded by less than the number
\* of threads.
SessMemBounded ==
  /\ nsess = Cardinality(mem)
  /\ nsess < MaxSess + Cardinality(Threads)

\* Session memory is neither lost, used twice nor without bound (ses_sm_alloc,
\* SES_New, SES_Delete), and no event is handled for a session that has gone
\* (vca_main of each waiter).
SessionInv == OnePlace /\ SessMemBounded /\ EventsForOwners

\* params->sess_timeout: no connection stays with the waiter for ever, whatever
\* its client and the other sessions do.  (The poll waiter breaks this promise:
\* it looks for idle sessions only while events are left to handle.)
Watched(f) == \E s \in ToSet(sesshead) : fd[s] = f
IdleTimesOut == \A f \in Fds : (waiter # "poll" /\ Watched(f)) ~> ~Watched(f)
============================================================================
