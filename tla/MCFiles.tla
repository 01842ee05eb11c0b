------------------------------ MODULE MCFiles ------------------------------
(***************************************************************************)
(* The two files that outlive a child process, for TLC: the persistent     *)
(* silo and the shared memory log.  They share no state; a behaviour       *)
(* follows one of them.                                                    *)
(***************************************************************************)
EXTENDS Silo

CONSTANTS Writers, Workers, LogSize, MaxLen, BufSize, MaxRecord   \* of Shmlog

VARIABLES file,                                                   \* the one followed
          log, ptr, n, pub, wr, wbuf, rp, next, lapped, overrun, late

logVars == <<log, ptr, n, pub, wr, wbuf, rp, next, lapped, overrun, late>>

Log == INSTANCE Shmlog WITH buf <- wbuf

ASSUME Log!LogAssumption

\* A body that is cut down when it must be, an object, and one that fits no
\* segment.
MCAsked == {[size |-> 2, obj |-> FALSE], [size |-> 2, obj |-> TRUE],
            [size |-> 5, obj |-> TRUE]}

MCWriters == {"acceptor", "cli"}
MCWorkers == {"worker"}

FilesInit == Init /\ Log!Init /\ file \in {"silo", "log"}

FilesNext ==
  /\ UNCHANGED file
  /\ \/ file = "silo" /\ Next /\ UNCHANGED logVars
     \/ file = "log" /\ Log!Next /\ UNCHANGED vars

FilesSpec == FilesInit /\ [][FilesNext]_<<file, vars, logVars>>

\* The search follows a reader of the log until the writers overtake it or
\* damage the log.
Followed == file = "log" => Log!Sound

\* InsideLog, ReadInOrder and NothingHidden of Shmlog: writers stay inside the log,
\* and a reader sees whole records, each of them and in order (VSL, VSLR,
\* WSL_Flush, vsl_nextlog).
ReadInOrder ==
  file = "log" => Log!InsideLog /\ Log!ReadInOrder /\ Log!NothingHidden
=============================================================================
