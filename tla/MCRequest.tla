----------------------------- MODULE MCRequest -----------------------------
(***************************************************************************)
(* A worker's way through a request for TLC, and the VCL programs and      *)
(* backends that workers use while the CLI thread loads and discards them. *)
(* The two parts share no state that their properties are about; a         *)
(* behaviour follows one of them.                                          *)
(***************************************************************************)
EXTENDS Request, Backend

\* The backend p is probed, limited and shared by two programs.  The backends
\* of the third program are not looked at, so that p can be freed while it is
\* the active one.
MCVcls == {"one", "both", "other"}
MCUses == [v \in MCVcls |-> IF v = "other" THEN {} ELSE {"p"}]
MCMaxConn == [b \in {"p"} |-> 1]

ASSUME BackendAssumption

VARIABLE part                                           \* the part followed

allVars == <<part, vars, backendVars>>

\* Either two programs are loaded at a time or one worker works: all three
\* programs with both workers are too many states.
RequestInit ==
  Init /\ BackendInit /\ part \in {"request", "two programs", "one worker"}

RequestOnly == part = "request" /\ UNCHANGED <<part, backendVars>>
BackendOnly == part # "request" /\ UNCHANGED <<part, vars>>

Second == CHOOSE x \in Workers : TRUE

RequestNext ==
  \/ RequestOnly /\ Next
  \/ /\ BackendOnly /\ BackendNext
     /\ part = "two programs" => vcl'["both"] = "free"
     /\ part = "one worker" => pc'[Second] = pc[Second]
  \/ BackendOnly /\ ~Intact /\ UNCHANGED backendVars   \* nothing is said of it

\* The fairness of Request and of Backend, each for its part.
RequestSpec ==
  /\ RequestInit /\ [][RequestNext]_allVars
  /\ WF_allVars(RequestOnly /\ CNT_Session) /\ WF_allVars(RequestOnly /\ SpinAgain)
  /\ WF_allVars(RequestOnly /\ WorkerReturns)
  /\ WF_allVars(RequestOnly /\ at = "parked" /\ (Resume \/ Dropped))
  /\ WF_allVars(BackendOnly /\ Intact /\ CliStep)
  /\ WF_allVars(BackendOnly /\ Intact /\ PollerStep("p"))
=============================================================================
