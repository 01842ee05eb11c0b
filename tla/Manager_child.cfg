\* Two names of programs, and a child that may owe two answers.
SPECIFICATION FairSpec
CONSTANTS
  Names = {boot, v1}
  Boot = boot
  Nil = Nil
  Pings = {TRUE, FALSE}
  MaxUnanswered = 2
INVARIANTS ManagerInv StoresAgree
PROPERTY WatchedChildReplaced
