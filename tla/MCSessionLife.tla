--------------------------- MODULE MCSessionLife ---------------------------
(* The session model for TLC: two connections, one worker, and memory for   *)
(* as many sessions as three threads can allocate at the limit, and one.    *)
EXTENDS SessionLife

MCChunks == 1 .. 4
MCFds == 1 .. 2
MCWorkers == {"worker"}

\* Two threads at a time free or precreate a session only with the epoll waiter,
\* with the others one does: all that comes before is the same for all of them.
IdleNext == Next /\ (waiter # "epoll" => spare' >= Spare - 1)
IdleSpec == Init /\ [][IdleNext]_vars /\ Fairness

MCWaiters == {"epoll", "kqueue", "ports", "poll"}
============================================================================
