--------------------------- MODULE ManagerProofs ---------------------------
(***************************************************************************)
(* Proofs about Manager (mgt_child.c, mgt_cli.c, mgt_vcc.c), for any       *)
(* programs and any number of unanswered questions: no order of commands,  *)
(* signals, deaths, hangs and timeouts makes the manager fail an assertion,*)
(* and a child that was never given up on has the manager's programs.      *)
(*                                                                         *)
(* The second needs to know what a child has in the middle of a question:  *)
(* while a new one is being filled (Filling) and while a running one       *)
(* carries out a command before its answer is read (Running).              *)
(***************************************************************************)
EXTENDS Manager, SequenceTheorems, FiniteSetTheorems, TLAPS

Ops == {"none", "load", "use", "discard", "start", "ping", "other"}

\* A question about a program names one.
Questions ==
  {q \in [op : Ops, name : Names \cup {Nil}] :
     q.op \in {"load", "use", "discard"} => q.name \in Names}

Managers ==
  [state : {"STOPPED", "STARTING", "RUNNING", "STOPPING", "DIED"},
   pid : BOOLEAN, cli : BOOLEAN,
   fds : SUBSET {"child_cli_in", "child_cli_out", "child_output"},
   listen : BOOLEAN, poker : BOOLEAN, ok : BOOLEAN]

Jobs ==
  [at : {"main", "loop", "poll", "write", "read", "read_on", "exit"},
   ctx : Contexts, ask : Questions, nth : Nat]

Children ==
  [life : {"none", "alive", "hung", "zombie"},
   loaded : Seq(Names), active : Names \cup {Nil}, serving : BOOLEAN]

Types ==
  /\ m \in Managers
  /\ vcls \in [head : Seq(Names), active : SUBSET Names]
  /\ job \in Jobs
  /\ sig \subseteq {"CHLD", "TERM"}
  /\ child \in Children
  /\ to \in Seq(Questions) /\ from \in Seq({"OK", "PARAM"})
  /\ late \in BOOLEAN

\* The manager's descriptors and events fit its state, and its state the child.
Books ==
  /\ m.ok
  /\ m.pid <=> child.life # "none"
  /\ m.cli <=> m.state \in {"STARTING", "RUNNING"}
  /\ m.fds = (IF m.cli THEN {"child_cli_in", "child_cli_out"} ELSE {})
               \cup (IF m.pid THEN {"child_output"} ELSE {})
  /\ m.poker => m.cli
  /\ m.listen => m.pid
  /\ m.state = "STARTING" <=> job.ctx = "push"
  /\ m.state = "STOPPED" <=> ~m.pid
  /\ m.state # "DIED"

\* A handler knows what it asks about.
Asked ==
  /\ job.at \in {"write", "read", "read_on"} <=> job.ctx # "none"
  /\ job.ctx \in {"load", "use", "discard", "ping", "other"} => job.ask.op = job.ctx
  /\ job.ctx \in {"use", "discard"} => job.ask.name \in Range(vcls.head) \ vcls.active
  /\ job.ctx = "push" =>
       \/ /\ job.ask.op \in {"load", "use"} /\ job.nth \in 1 .. Len(vcls.head)
          /\ job.ask.name = vcls.head[job.nth]
          /\ job.ask.op = "use" => job.ask.name \in vcls.active
       \/ job.ask.op = "start" /\ job.nth = Len(vcls.head) + 1

Store ==
  /\ vcls.active \subseteq Range(vcls.head)
  /\ \A x, y \in vcls.active : x = y

\* The child whose answers count: never given up on, and not dead unless it is
\* still being filled.
Trusted == ~late /\ m.cli /\ (child.life # "zombie" \/ m.state = "STARTING")

\* It owes one answer, while the manager waits for it.
Pipes ==
  Trusted =>
    IF job.at \in {"read", "read_on"}
    THEN (to = <<job.ask>> /\ from = <<>>) \/ (to = <<>> /\ \E a \in {"OK", "PARAM"} : from = <<a>>)
    ELSE to = <<>> /\ from = <<>>

\* The program a child uses that has loaded the first n and no more.
Used(n) ==
  IF \E i \in 1 .. n : vcls.head[i] \in vcls.active THEN CHOOSE x \in vcls.active : TRUE
  ELSE IF n = 0 THEN Nil ELSE vcls.head[1]

\* A child being filled has the first programs, and serves once it has all.
Filling ==
  LET n == job.nth IN
  Trusted /\ m.state = "STARTING" =>
    CASE from = <<>> ->
           /\ ~child.serving
           /\ child.loaded = SubSeq(vcls.head, 1, IF job.ask.op = "use" THEN n ELSE n - 1)
           /\ job.ask.op # "use" => child.active = Used(n - 1)
      [] from = <<"OK">> ->
           /\ child.serving <=> job.ask.op = "start"
           /\ child.loaded = SubSeq(vcls.head, 1, IF job.ask.op = "start" THEN n - 1 ELSE n)
           /\ job.ask.op = "load" /\ job.ask.name \notin vcls.active => child.active = Used(n)
           /\ job.ask.op = "use" => child.active = Used(n)
           /\ job.ask.op = "start" => child.active = Used(n - 1)
      [] OTHER -> ~child.serving

\* A running child has what the manager has, or will have once it reads OK.
Running ==
  LET n == job.ask.name IN
  Trusted /\ m.state = "RUNNING" =>
    /\ child.serving
    /\ IF from = <<"OK">>
       THEN CASE job.ctx = "load" -> /\ child.loaded = Append(vcls.head, n)
                                     /\ child.active = IF Believed = Nil THEN n ELSE Believed
              [] job.ctx = "use" -> child.loaded = vcls.head /\ child.active = n
              [] job.ctx = "discard" -> /\ child.loaded = Unlinked(vcls.head, n)
                                        /\ child.active = Believed /\ n # Believed
              [] OTHER -> child.loaded = vcls.head /\ child.active = Believed
       ELSE child.loaded = vcls.head /\ child.active = Believed

Shape == Types /\ Books /\ Asked /\ Store
Agreement == Pipes /\ Filling /\ Running
IInv == Shape /\ Agreement

(***************************************************************************)
(* Lists of programs                                                       *)
(***************************************************************************)
\* A program that is unlinked is gone; the others stay, the first in its place.
LEMMA UnlinkedKeeps ==
  ASSUME NEW S, NEW s \in Seq(S), NEW n \in Range(s)
  PROVE  /\ Unlinked(s, n) \in Seq(S)
         /\ \A x \in Range(s) : x # n => x \in Range(Unlinked(s, n))
         /\ s[1] # n => Unlinked(s, n) # <<>> /\ Unlinked(s, n)[1] = s[1]
<1>1. PICK i \in 1 .. Len(s) :
        s[i] = n /\ Unlinked(s, n) = SubSeq(s, 1, i - 1) \o SubSeq(s, i + 1, Len(s))
  <2>1. \E i \in DOMAIN s : s[i] = n
    BY DEF Range
  <2>2. DOMAIN s = 1 .. Len(s)
    BY LenProperties
  <2> DEFINE j == CHOOSE i \in DOMAIN s : s[i] = n
  <2>3. j \in DOMAIN s /\ s[j] = n
    BY <2>1
  <2> QED  BY <2>2, <2>3 DEF Unlinked, RemoveAt
<1>2. Len(s) \in Nat /\ i \in Nat
  BY LenProperties
<1> DEFINE a == SubSeq(s, 1, i - 1)
           b == SubSeq(s, i + 1, Len(s))
<1>3. /\ a \in Seq(S) /\ Len(a) = i - 1
      /\ \A k \in 1 .. i - 1 : a[k] = s[k]
  BY <1>2, SubSeqProperties
<1>4. /\ b \in Seq(S) /\ Len(b) = Len(s) - i
      /\ \A k \in 1 .. Len(s) - i : b[k] = s[i + k]
  <2>1. b \in Seq(S) /\ Len(b) = (IF i + 1 <= Len(s) THEN Len(s) - (i + 1) + 1 ELSE 0)
        /\ \A k \in 1 .. Len(s) - (i + 1) + 1 : b[k] = s[i + 1 + k - 1]
    BY <1>2, SubSeqProperties
  <2> HIDE DEF b
  <2> QED  BY <2>1, <1>2
<1> HIDE DEF a, b
<1>5. Unlinked(s, n) = a \o b
  BY <1>1 DEF a, b
<1>6. /\ a \o b \in Seq(S) /\ Len(a \o b) = Len(s) - 1
      /\ \A k \in 1 .. Len(s) - 1 : (a \o b)[k] = IF k <= i - 1 THEN a[k] ELSE b[k - (i - 1)]
  <2>1. a \o b \in Seq(S) /\ Len(a \o b) = Len(a) + Len(b)
        /\ \A k \in 1 .. Len(a) + Len(b) : (a \o b)[k] = IF k <= Len(a) THEN a[k] ELSE b[k - Len(a)]
    BY <1>3, <1>4, ConcatProperties
  <2>2. Len(a) + Len(b) = Len(s) - 1
    BY <1>2, <1>3, <1>4
  <2> QED  BY <2>1, <2>2, <1>3
<1>7. DOMAIN (a \o b) = 1 .. Len(s) - 1
  BY <1>6, LenProperties
<1>8. \A x \in Range(s) : x # n => x \in Range(a \o b)
  <2> SUFFICES ASSUME NEW x \in Range(s), x # n  PROVE \E k \in DOMAIN (a \o b) : (a \o b)[k] = x
    BY DEF Range
  <2>1. PICK j \in 1 .. Len(s) : s[j] = x
    BY LenProperties DEF Range
  <2>2. CASE j < i
    <3>1. j \in 1 .. Len(s) - 1 /\ j <= i - 1 /\ j \in 1 .. i - 1
      BY <1>2, <2>2
    <3> QED  BY <3>1, <2>1, <1>3, <1>6, <1>7
  <2>3. CASE j > i
    <3>1. /\ j - 1 \in 1 .. Len(s) - 1 /\ ~(j - 1 <= i - 1)
          /\ (j - 1) - (i - 1) = j - i /\ j - i \in 1 .. Len(s) - i /\ i + (j - i) = j
      BY <1>2, <2>3
    <3>2. (a \o b)[j - 1] = b[j - i]
      BY <3>1, <1>6
    <3> QED  BY <3>1, <3>2, <2>1, <1>4, <1>7
  <2> QED  BY <2>1, <2>2, <2>3, <1>1, <1>2
<1>9. ASSUME s[1] # n  PROVE a \o b # <<>> /\ (a \o b)[1] = s[1]
  <2>1. i > 1
    BY <1>1, <1>2, <1>9
  <2>2. 1 \in 1 .. Len(s) - 1 /\ 1 <= i - 1 /\ 1 \in 1 .. i - 1
    BY <1>2, <2>1
  <2>3. (a \o b)[1] = s[1] /\ Len(a \o b) # 0
    BY <2>2, <1>2, <1>3, <1>6
  <2> QED  BY <2>3, <1>6, EmptySeq
<1> QED  BY <1>5, <1>6, <1>8, <1>9

\* A list that grows keeps its programs and gets the new one.
LEMMA AppendedRange ==
  ASSUME NEW S, NEW s \in Seq(S), NEW n \in S
  PROVE  /\ Append(s, n) \in Seq(S)
         /\ Range(s) \subseteq Range(Append(s, n)) /\ n \in Range(Append(s, n))
         /\ Append(s, n) # <<>>
         /\ Append(s, n)[1] = IF s = <<>> THEN n ELSE s[1]
<1>1. /\ Append(s, n) \in Seq(S) /\ Len(Append(s, n)) = Len(s) + 1
      /\ \A i \in 1 .. Len(s) : Append(s, n)[i] = s[i]
      /\ Append(s, n)[Len(s) + 1] = n
  BY AppendProperties
<1>2. Len(s) \in Nat /\ DOMAIN s = 1 .. Len(s) /\ DOMAIN Append(s, n) = 1 .. Len(s) + 1
  BY <1>1, LenProperties
<1>3. \A x \in Range(s) : x \in Range(Append(s, n))
  BY <1>1, <1>2 DEF Range
<1>4. n \in Range(Append(s, n))
  <2>1. Len(s) + 1 \in DOMAIN Append(s, n)
    BY <1>2
  <2> QED  BY <2>1, <1>1 DEF Range
<1>5. Append(s, n) # <<>>
  BY <1>1, <1>2, EmptySeq
<1>6. CASE s = <<>>
  <2>1. Len(s) = 0
    BY <1>6, EmptySeq
  <2> QED  BY <2>1, <1>1, <1>3, <1>4, <1>5, <1>6
<1>7. CASE s # <<>>
  <2>1. Len(s) # 0
    BY <1>7, EmptySeq
  <2>2. 1 \in 1 .. Len(s)
    BY <2>1, <1>2
  <2> QED  BY <2>2, <1>1, <1>3, <1>4, <1>5, <1>7
<1> QED  BY <1>6, <1>7

\* The first n programs and the next one are the first n + 1.
LEMMA PrefixGrows ==
  ASSUME NEW S, NEW s \in Seq(S), NEW n \in 1 .. Len(s)
  PROVE  /\ Append(SubSeq(s, 1, n - 1), s[n]) = SubSeq(s, 1, n)
         /\ s[n] \in Range(SubSeq(s, 1, n))
<1>1. Len(s) \in Nat /\ n \in Nat /\ s[n] \in S
  BY LenProperties, ElementOfSeq
<1> DEFINE p == SubSeq(s, 1, n - 1)
           q == SubSeq(s, 1, n)
<1>2. p \in Seq(S) /\ Len(p) = n - 1 /\ \A i \in 1 .. n - 1 : p[i] = s[i]
  BY <1>1, SubSeqProperties
<1>3. q \in Seq(S) /\ Len(q) = n /\ \A i \in 1 .. n : q[i] = s[i]
  BY <1>1, SubSeqProperties
<1> HIDE DEF p, q
<1>4. /\ Append(p, s[n]) \in Seq(S) /\ Len(Append(p, s[n])) = n
      /\ \A i \in 1 .. n - 1 : Append(p, s[n])[i] = s[i]
      /\ Append(p, s[n])[n] = s[n]
  <2>1. /\ Append(p, s[n]) \in Seq(S) /\ Len(Append(p, s[n])) = Len(p) + 1
        /\ \A i \in 1 .. Len(p) : Append(p, s[n])[i] = p[i]
        /\ Append(p, s[n])[Len(p) + 1] = s[n]
    BY <1>1, <1>2, AppendProperties
  <2>2. Len(p) + 1 = n
    BY <1>1, <1>2
  <2> QED  BY <2>1, <2>2, <1>2
<1>5. \A i \in 1 .. n : Append(p, s[n])[i] = q[i]
  <2> TAKE i \in 1 .. n
  <2>1. i \in 1 .. n - 1 \/ i = n
    BY <1>1
  <2> QED  BY <2>1, <1>3, <1>4
<1>6. Append(p, s[n]) = q
  BY <1>3, <1>4, <1>5, SeqEqual
<1>7. n \in DOMAIN q /\ q[n] = s[n]
  BY <1>1, <1>3, LenProperties
<1> QED  BY <1>6, <1>7 DEF p, q, Range

(***************************************************************************)
(* The manager's records                                                   *)
(***************************************************************************)
CliFds == {"child_cli_in", "child_cli_out"}

\* closex on an open descriptor forgets it and fails no assertion.
LEMMA ClosexCloses ==
  ASSUME NEW mm \in Managers, NEW fd \in mm.fds
  PROVE  /\ closex(mm, fd) \in Managers
         /\ closex(mm, fd) = [mm EXCEPT !.fds = mm.fds \ {fd}]
         /\ closex(mm, fd).fds = mm.fds \ {fd}
<1>1. PICK ok \in BOOLEAN : ok = (mm.ok /\ fd \in mm.fds)
  OBVIOUS
<1>2. mm.ok \in BOOLEAN /\ mm = [mm EXCEPT !.ok = mm.ok]
  BY DEF Managers
<1>3. ok = mm.ok
  BY <1>1, <1>2
<1>4. closex(mm, fd) = [mm EXCEPT !.ok = mm.ok, !.fds = mm.fds \ {fd}]
  BY <1>1, <1>3, Zenon DEF closex
<1>5. closex(mm, fd) = [mm EXCEPT !.fds = mm.fds \ {fd}]
  BY <1>2, <1>4 DEF Managers
<1>6. [mm EXCEPT !.fds = mm.fds \ {fd}] \in Managers
  BY DEF Managers
<1>7. [mm EXCEPT !.fds = mm.fds \ {fd}].fds = mm.fds \ {fd}
  BY DEF Managers
<1> QED  BY <1>5, <1>6, <1>7

\* Closing both ends of an open CLI pipe fails no assertion.
LEMMA CloseCliCloses ==
  ASSUME NEW mm \in Managers, CliFds \subseteq mm.fds
  PROVE  /\ CloseCli(mm) \in Managers
         /\ CloseCli(mm) = [mm EXCEPT !.cli = FALSE, !.fds = mm.fds \ CliFds]
<1> DEFINE one == mgt_cli_stop_child(mm)
           two == closex(one, "child_cli_out")
           three == closex(two, "child_cli_in")
<1>1. one \in Managers /\ one = [mm EXCEPT !.cli = FALSE] /\ one.fds = mm.fds
  BY DEF mgt_cli_stop_child, Managers
<1> HIDE DEF one
<1>2. /\ two \in Managers /\ two = [one EXCEPT !.fds = one.fds \ {"child_cli_out"}]
      /\ two.fds = one.fds \ {"child_cli_out"}
  <2>1. "child_cli_out" \in one.fds
    BY <1>1 DEF CliFds
  <2> QED  BY <1>1, <2>1, ClosexCloses
<1> HIDE DEF two
<1>3. three \in Managers /\ three = [two EXCEPT !.fds = two.fds \ {"child_cli_in"}]
  <2>1. "child_cli_in" \in two.fds
    BY <1>1, <1>2 DEF CliFds
  <2> QED  BY <1>2, <2>1, ClosexCloses
<1> HIDE DEF three
<1>4. CloseCli(mm) = three
  BY DEF CloseCli, one, two, three
<1>5. two.fds \ {"child_cli_in"} = mm.fds \ CliFds
  BY <1>1, <1>2 DEF CliFds
<1>6. three = [mm EXCEPT !.cli = FALSE, !.fds = mm.fds \ CliFds]
  BY <1>1, <1>2, <1>3, <1>5 DEF Managers
<1> QED  BY <1>3, <1>4, <1>6

\* Stopping a running child.
LEMMA StopStops ==
  ASSUME NEW mm \in Managers, mm.state = "RUNNING", CliFds \subseteq mm.fds
  PROVE  LET s == mgt_stop_child(mm) IN
         /\ s \in Managers
         /\ s.state = "STOPPING" /\ s.pid = mm.pid /\ s.cli = FALSE /\ s.fds = mm.fds \ CliFds
         /\ s.listen = mm.listen /\ s.poker = FALSE /\ s.ok = mm.ok
<1>1. PICK x \in Managers : x = [mm EXCEPT !.state = "STOPPING", !.poker = FALSE]
  BY DEF Managers
<1>2. /\ x.state = "STOPPING" /\ x.pid = mm.pid /\ x.fds = mm.fds
      /\ x.listen = mm.listen /\ x.poker = FALSE /\ x.ok = mm.ok
  BY <1>1 DEF Managers
<1>3. mgt_stop_child(mm) = CloseCli(x)
  BY <1>1 DEF mgt_stop_child
<1>4. /\ CloseCli(x) \in Managers
      /\ CloseCli(x) = [x EXCEPT !.cli = FALSE, !.fds = x.fds \ CliFds]
  BY <1>2, CloseCliCloses
<1>5. /\ CloseCli(x).state = x.state /\ CloseCli(x).pid = x.pid /\ CloseCli(x).cli = FALSE
      /\ CloseCli(x).fds = x.fds \ CliFds /\ CloseCli(x).listen = x.listen
      /\ CloseCli(x).poker = x.poker /\ CloseCli(x).ok = x.ok
  BY <1>4 DEF Managers
<1> QED  BY <1>2, <1>3, <1>4, <1>5

\* Reaping a child that was running, or one that was being stopped.
LEMMA ReapedIs ==
  ASSUME NEW mm \in Managers, mm.state \in {"RUNNING", "STOPPING"}, "child_output" \in mm.fds,
         mm.state = "RUNNING" => CliFds \subseteq mm.fds
  PROVE  LET r == Reaped(mm) IN
         /\ r \in Managers
         /\ r.state = (IF mm.state = "RUNNING" THEN "DIED" ELSE "STOPPING") /\ r.pid = FALSE
         /\ r.cli = (IF mm.state = "RUNNING" THEN FALSE ELSE mm.cli)
         /\ r.fds = (IF mm.state = "RUNNING" THEN mm.fds \ CliFds ELSE mm.fds) \ {"child_output"}
         /\ r.listen = FALSE /\ r.poker = FALSE /\ r.ok = mm.ok
<1>1. PICK dead \in Managers : dead = [mm EXCEPT !.pid = FALSE, !.poker = FALSE]
  BY DEF Managers
<1>2. /\ dead.state = mm.state /\ dead.pid = FALSE /\ dead.cli = mm.cli /\ dead.fds = mm.fds
      /\ dead.poker = FALSE /\ dead.ok = mm.ok
  BY <1>1 DEF Managers
<1>3. PICK shut \in Managers :
        shut = IF mm.state = "RUNNING" THEN CloseCli([dead EXCEPT !.state = "DIED"]) ELSE dead
  <2>1. CASE mm.state = "RUNNING"
    <3>1. /\ [dead EXCEPT !.state = "DIED"] \in Managers
          /\ [dead EXCEPT !.state = "DIED"].fds = dead.fds
      BY DEF Managers
    <3>2. CliFds \subseteq [dead EXCEPT !.state = "DIED"].fds
      BY <2>1, <3>1, <1>2
    <3>3. CloseCli([dead EXCEPT !.state = "DIED"]) \in Managers
      BY <3>1, <3>2, CloseCliCloses
    <3> QED  BY <2>1, <3>3
  <2>2. CASE mm.state # "RUNNING"
    BY <2>2
  <2> QED  BY <2>1, <2>2
<1>4. /\ shut.state = (IF mm.state = "RUNNING" THEN "DIED" ELSE "STOPPING") /\ shut.pid = FALSE
      /\ shut.cli = (IF mm.state = "RUNNING" THEN FALSE ELSE mm.cli)
      /\ shut.fds = (IF mm.state = "RUNNING" THEN mm.fds \ CliFds ELSE mm.fds)
      /\ shut.poker = FALSE /\ shut.ok = mm.ok
  <2>1. CASE mm.state = "RUNNING"
    <3>1. PICK d \in Managers : d = [dead EXCEPT !.state = "DIED"]
      BY DEF Managers
    <3>2. /\ d.state = "DIED" /\ d.pid = FALSE /\ d.fds = mm.fds
          /\ d.poker = FALSE /\ d.ok = mm.ok
      BY <3>1, <1>2 DEF Managers
    <3>3. shut = [d EXCEPT !.cli = FALSE, !.fds = d.fds \ CliFds]
      BY <2>1, <3>1, <3>2, <1>3, CloseCliCloses
    <3>4. /\ shut.state = d.state /\ shut.pid = d.pid /\ shut.cli = FALSE
          /\ shut.fds = d.fds \ CliFds /\ shut.poker = d.poker /\ shut.ok = d.ok
      BY <3>3 DEF Managers
    <3> QED  BY <2>1, <3>2, <3>4
  <2>2. CASE mm.state = "STOPPING"
    BY <2>2, <1>2, <1>3
  <2> QED  BY <2>1, <2>2
<1>5. PICK y \in Managers : y = [shut EXCEPT !.listen = FALSE]
  BY DEF Managers
<1>6. /\ y.state = shut.state /\ y.pid = shut.pid /\ y.cli = shut.cli /\ y.fds = shut.fds
      /\ y.listen = FALSE /\ y.poker = shut.poker /\ y.ok = shut.ok
  BY <1>5 DEF Managers
<1>7. Reaped(mm) = closex(y, "child_output")
  BY <1>1, <1>3, <1>5 DEF Reaped
<1>8. "child_output" \in y.fds
  BY <1>4, <1>6 DEF CliFds
<1>9. /\ closex(y, "child_output") \in Managers
      /\ closex(y, "child_output") = [y EXCEPT !.fds = y.fds \ {"child_output"}]
  BY <1>8, ClosexCloses
<1>10. LET r == closex(y, "child_output") IN
       /\ r.state = y.state /\ r.pid = y.pid /\ r.cli = y.cli
       /\ r.fds = y.fds \ {"child_output"} /\ r.listen = y.listen /\ r.poker = y.poker /\ r.ok = y.ok
  BY <1>9 DEF Managers
<1> QED  BY <1>4, <1>6, <1>7, <1>9, <1>10

\* A new child finds the descriptors and events of the last one gone.
LEMMA ForkedIs ==
  ASSUME NEW mm \in Managers, NEW ping \in BOOLEAN, mm.listen = FALSE, mm.poker = FALSE
  PROVE  LET f == Forked(mm, ping) IN
         /\ f \in Managers
         /\ f.state = "STARTING" /\ f.pid = TRUE /\ f.cli = TRUE
         /\ f.fds = mm.fds \cup {"child_cli_in", "child_cli_out", "child_output"}
         /\ f.listen = TRUE /\ f.poker = ping /\ f.ok = mm.ok
BY DEF Forked, Managers

(***************************************************************************)
(* The manager's books, its questions and its store                        *)
(***************************************************************************)
\* The records of idle and of asking threads.
LEMMA JobsAre ==
  /\ Loop \in Jobs /\ Loop.at = "loop" /\ Loop.ctx = "none"
  /\ \A a \in {"main", "exit"} :
       LET j == [Loop EXCEPT !.at = a] IN j \in Jobs /\ j.at = a /\ j.ctx = "none"
  /\ \A ctx \in Contexts, q \in Questions, n \in Nat :
       LET j == Asking(ctx, q, n) IN
       j \in Jobs /\ j.at = "write" /\ j.ctx = ctx /\ j.ask = q /\ j.nth = n
<1>1. Cmd("none", Nil) \in Questions
  BY DEF Cmd, Questions, Ops
<1> HIDE DEF Questions
<1>2. Loop \in Jobs /\ Loop.at = "loop" /\ Loop.ctx = "none"
  BY <1>1 DEF Loop, Jobs, Contexts
<1>3. ASSUME NEW a \in {"main", "exit"}
      PROVE  LET j == [Loop EXCEPT !.at = a] IN j \in Jobs /\ j.at = a /\ j.ctx = "none"
  BY <1>1 DEF Loop, Jobs, Contexts
<1>4. ASSUME NEW ctx \in Contexts, NEW q \in Questions, NEW n \in Nat
      PROVE  LET j == Asking(ctx, q, n) IN
             j \in Jobs /\ j.at = "write" /\ j.ctx = ctx /\ j.ask = q /\ j.nth = n
  BY DEF Asking, Jobs
<1> QED  BY <1>2, <1>3, <1>4

\* A thread that goes on with its job elsewhere.
LEMMA JobMoves ==
  ASSUME job \in Jobs,
         NEW a \in {"main", "loop", "poll", "write", "read", "read_on", "exit"}
  PROVE  LET j == [job EXCEPT !.at = a] IN
         j \in Jobs /\ j.at = a /\ j.ctx = job.ctx /\ j.ask = job.ask /\ j.nth = job.nth
BY DEF Jobs

\* The questions.
LEMMA CmdsAre ==
  /\ \A op \in Ops, n \in Names :
       Cmd(op, n) \in Questions /\ Cmd(op, n).op = op /\ Cmd(op, n).name = n
  /\ \A op \in {"none", "start", "ping", "other"} :
       Cmd(op, Nil) \in Questions /\ Cmd(op, Nil).op = op
BY DEF Cmd, Questions, Ops

\* The next question to a new child.
LEMMA NextPush ==
  ASSUME vcls.head \in Seq(Names), NEW n \in 1 .. Len(vcls.head) + 1
  PROVE  LET j == mgt_push_vcls_and_start(n) IN
         /\ j \in Jobs /\ j.at = "write" /\ j.ctx = "push" /\ j.nth = n
         /\ \/ n \in 1 .. Len(vcls.head) /\ j.ask.op = "load" /\ j.ask.name = vcls.head[n]
            \/ n = Len(vcls.head) + 1 /\ j.ask.op = "start"
<1>1. Len(vcls.head) \in Nat /\ n \in Nat /\ "push" \in Contexts
  BY LenProperties DEF Contexts
<1>2. CASE n <= Len(vcls.head)
  <2>1. n \in 1 .. Len(vcls.head) /\ vcls.head[n] \in Names
    BY <1>1, <1>2, ElementOfSeq
  <2>2. mgt_push_vcls_and_start(n) = Asking("push", Cmd("load", vcls.head[n]), n)
    BY <1>2 DEF mgt_push_vcls_and_start
  <2>3. /\ Cmd("load", vcls.head[n]) \in Questions /\ Cmd("load", vcls.head[n]).op = "load"
        /\ Cmd("load", vcls.head[n]).name = vcls.head[n]
    BY <2>1, CmdsAre DEF Ops
  <2> HIDE DEF Contexts
  <2> QED  BY <1>1, <2>1, <2>2, <2>3, JobsAre
<1>3. CASE ~(n <= Len(vcls.head))
  <2>1. n = Len(vcls.head) + 1
    BY <1>1, <1>3
  <2>2. mgt_push_vcls_and_start(n) = Asking("push", Cmd("start", Nil), n)
    BY <1>3 DEF mgt_push_vcls_and_start
  <2>3. Cmd("start", Nil) \in Questions /\ Cmd("start", Nil).op = "start"
    BY CmdsAre
  <2> QED  BY <1>1, <2>1, <2>2, <2>3, JobsAre
<1> QED  BY <1>2, <1>3

\* The children there are at first.
LEMMA ChildrenAre ==
  /\ NoChild \in Children /\ NoChild.life = "none" /\ NoChild.serving = FALSE
  /\ LET c == [NoChild EXCEPT !.life = "alive"] IN
     /\ c \in Children /\ c.life = "alive" /\ c.serving = FALSE
     /\ c.loaded = <<>> /\ c.active = Nil
<1>1. <<>> \in Seq(Names)
  BY EmptySeq
<1> QED  BY <1>1 DEF NoChild, Children

\* Starting a child from a manager that has cleared the last one away.
LEMMA StartShape ==
  ASSUME Shape, NEW mm \in Managers, start_child(mm), UNCHANGED vcls,
         sig' \subseteq {"CHLD", "TERM"},
         mm.pid = FALSE, mm.cli = FALSE, mm.fds = {}, mm.listen = FALSE, mm.poker = FALSE, mm.ok
  PROVE  Shape'
<1>1. Types /\ Store
  BY DEF Shape
<1>2. CASE /\ m' = [mm EXCEPT !.state = "STOPPED"] /\ job' = Loop
           /\ child' = NoChild /\ UNCHANGED <<to, from, late>>
  <2>1. /\ m' \in Managers /\ m'.state = "STOPPED" /\ m'.pid = FALSE /\ m'.cli = FALSE
        /\ m'.fds = {} /\ m'.listen = FALSE /\ m'.poker = FALSE /\ m'.ok
    BY <1>2 DEF Managers
  <2>2. Types'
    BY <1>1, <1>2, <2>1, JobsAre, ChildrenAre DEF Types
  <2>3. job'.at = "loop" /\ job'.ctx = "none" /\ child'.life = "none"
    BY <1>2, JobsAre, ChildrenAre
  <2>4. Books'
    BY <2>1, <2>3 DEF Books
  <2>5. Asked'
    BY <2>3 DEF Asked
  <2>6. Store'
    BY <1>1 DEF Store
  <2> QED  BY <2>2, <2>4, <2>5, <2>6 DEF Shape
<1>3. CASE /\ \E ping \in Pings : m' = Forked(mm, ping)
           /\ child' = [NoChild EXCEPT !.life = "alive"]
           /\ to' = <<>> /\ from' = <<>> /\ late' = FALSE
           /\ job' = mgt_push_vcls_and_start(1)
  <2>1. PICK ping \in BOOLEAN : m' = Forked(mm, ping)
    BY <1>3, ManagerAssumption
  <2>2. /\ m' \in Managers /\ m'.state = "STARTING" /\ m'.pid = TRUE /\ m'.cli = TRUE
        /\ m'.fds = {"child_cli_in", "child_cli_out", "child_output"}
        /\ m'.listen = TRUE /\ m'.poker = ping /\ m'.ok
    BY <2>1, ForkedIs
  <2>3. vcls.head \in Seq(Names) /\ Len(vcls.head) \in Nat /\ 1 \in 1 .. Len(vcls.head) + 1
    BY <1>1, LenProperties DEF Types
  <2>4. /\ job' \in Jobs /\ job'.at = "write" /\ job'.ctx = "push" /\ job'.nth = 1
        /\ \/ 1 \in 1 .. Len(vcls.head) /\ job'.ask.op = "load" /\ job'.ask.name = vcls.head[1]
           \/ 1 = Len(vcls.head) + 1 /\ job'.ask.op = "start"
    BY <1>3, <2>3, NextPush
  <2>5. child' \in Children /\ child'.life = "alive"
    BY <1>3, ChildrenAre
  <2>6. Types'
    <3>1. <<>> \in Seq(Questions) /\ <<>> \in Seq({"OK", "PARAM"})
      BY EmptySeq
    <3> QED  BY <1>1, <1>3, <2>2, <2>4, <2>5, <3>1 DEF Types
  <2>7. Books'
    BY <2>2, <2>4, <2>5 DEF Books
  <2>8. Asked'
    BY <2>4 DEF Asked
  <2>9. Store'
    BY <1>1 DEF Store
  <2> QED  BY <2>6, <2>7, <2>8, <2>9 DEF Shape
<1> QED  BY <1>2, <1>3 DEF start_child

\* A step that leaves the manager, its store and the child alone, and the
\* thread without a question.
LEMMA IdleShape ==
  ASSUME Shape, job.ctx = "none", UNCHANGED <<m, vcls, child, to, from, late>>,
         sig' \subseteq {"CHLD", "TERM"}, job' \in Jobs, job'.ctx = "none",
         job'.at \notin {"write", "read", "read_on"}
  PROVE  Shape'
<1>1. Types'
  BY DEF Shape, Types
<1>2. Books'
  BY DEF Shape, Books
<1>3. Asked'
  BY DEF Asked
<1>4. Store'
  BY DEF Shape, Store
<1> QED  BY <1>1, <1>2, <1>3, <1>4 DEF Shape

\* A thread without a handler is in none, and its child not being started.
LEMMA IdleIs ==
  ASSUME Shape, job.at \notin {"write", "read", "read_on"}
  PROVE  /\ job.ctx = "none" /\ m.state \in {"STOPPED", "RUNNING", "STOPPING"}
         /\ m \in Managers
         /\ m.state = "RUNNING" => CliFds \subseteq m.fds
         /\ m.pid => "child_output" \in m.fds
         /\ m.state = "STOPPED" => /\ m.pid = FALSE /\ m.cli = FALSE /\ m.fds = {}
                                   /\ m.listen = FALSE /\ m.poker = FALSE /\ m.ok
<1>1. job.ctx = "none"
  BY DEF Shape, Asked
<1>2. m.state \in {"STOPPED", "RUNNING", "STOPPING"} /\ m \in Managers
  BY <1>1 DEF Shape, Types, Books, Managers
<1>3. /\ m.state = "RUNNING" => CliFds \subseteq m.fds
      /\ m.pid => "child_output" \in m.fds
  BY DEF Shape, Books, CliFds
<1>4. ASSUME m.state = "STOPPED"
      PROVE  /\ m.pid = FALSE /\ m.cli = FALSE /\ m.fds = {}
             /\ m.listen = FALSE /\ m.poker = FALSE /\ m.ok
  <2>1. m.pid = FALSE /\ m.cli = FALSE
    BY <1>2, <1>4 DEF Shape, Books, Managers
  <2>2. m.fds = {} /\ m.ok
    BY <2>1 DEF Shape, Books
  <2>3. m.listen = FALSE /\ m.poker = FALSE
    BY <1>2, <2>1 DEF Shape, Books, Managers
  <2> QED  BY <2>1, <2>2, <2>3
<1> QED  BY <1>1, <1>2, <1>3, <1>4

\* A running child, or one being filled, is stopped and the thread goes on.
LEMMA StopShape ==
  ASSUME Shape, NEW mm \in Managers, mm.state = "RUNNING", mm.pid = m.pid, mm.fds = m.fds,
         mm.listen = m.listen, mm.ok = m.ok, m.cli,
         m' = mgt_stop_child(mm), UNCHANGED <<vcls, child>>,
         to' \in Seq(Questions), from' \in Seq({"OK", "PARAM"}), late' \in BOOLEAN,
         sig' \subseteq {"CHLD", "TERM"}, job' \in Jobs, job'.ctx = "none",
         job'.at \notin {"write", "read", "read_on"}
  PROVE  Shape'
<1>0. m \in Managers /\ m.pid = TRUE /\ m.ok /\ m.fds = CliFds \cup {"child_output"}
  <2>1. m \in Managers /\ m.ok
    BY DEF Shape, Types, Books
  <2>2. m.pid = TRUE
    BY <2>1 DEF Shape, Books, Managers
  <2> QED  BY <2>1, <2>2 DEF Shape, Books, CliFds
<1>1. /\ m' \in Managers
      /\ m'.state = "STOPPING" /\ m'.pid = TRUE /\ m'.cli = FALSE /\ m'.fds = {"child_output"}
      /\ m'.listen = m.listen /\ m'.poker = FALSE /\ m'.ok
  <2>1. CliFds \subseteq mm.fds
    BY <1>0
  <2>2. /\ m' \in Managers
        /\ m'.state = "STOPPING" /\ m'.pid = mm.pid /\ m'.cli = FALSE /\ m'.fds = mm.fds \ CliFds
        /\ m'.listen = mm.listen /\ m'.poker = FALSE /\ m'.ok = mm.ok
    BY <2>1, StopStops
  <2>3. mm.fds \ CliFds = {"child_output"}
    BY <1>0 DEF CliFds
  <2> QED  BY <2>2, <2>3, <1>0
<1>2. Types'
  BY <1>1 DEF Shape, Types
<1>3. Books'
  <2>1. child'.life # "none"
    BY <1>0 DEF Shape, Books
  <2> QED  BY <1>1, <2>1 DEF Books
<1>4. Asked'
  BY DEF Asked
<1>5. Store'
  BY DEF Shape, Store
<1> QED  BY <1>2, <1>3, <1>4, <1>5 DEF Shape

\* The first step of the manager.
LEMMA RunShape ==
  ASSUME Shape, MGT_Run
  PROVE  Shape'
<1>1. job.at \notin {"write", "read", "read_on"} /\ job.ctx = "none" /\ sig' \subseteq {"CHLD", "TERM"}
  BY IdleIs DEF MGT_Run, Shape, Types
<1>2. CASE job' = Loop /\ UNCHANGED <<m, vcls, child, to, from, late>>
  BY <1>1, <1>2, IdleShape, JobsAre
<1>3. CASE start_child(m) /\ UNCHANGED vcls
  <2>1. m.state = "STOPPED"
    BY <1>1, <1>3, IdleIs DEF start_child
  <2> QED  BY <1>1, <1>3, <2>1, IdleIs, StartShape
<1>4. CASE job' = [Loop EXCEPT !.at = "exit"] /\ UNCHANGED <<m, vcls, child, to, from, late>>
  <2>1. job' \in Jobs /\ job'.at = "exit" /\ job'.ctx = "none"
    BY <1>4, JobsAre
  <2> QED  BY <1>1, <1>4, <2>1, IdleShape
<1> QED  BY <1>2, <1>3, <1>4 DEF MGT_Run

\* The event loop, an operator's question that changes nothing, a signal that
\* comes while the thread is idle.
LEMMA PollShape ==
  ASSUME Shape, vev_schedule_one \/ mcf_server_status
  PROVE  Shape'
<1>1. job.at \notin {"write", "read", "read_on"} /\ job.ctx = "none" /\ sig' \subseteq {"CHLD", "TERM"}
      /\ job \in Jobs
  BY IdleIs DEF vev_schedule_one, mcf_server_status, Shape, Types
<1>2. job' \in Jobs /\ job'.at \in {"loop", "poll"} /\ job'.ctx = "none"
  <2>1. CASE vev_schedule_one
    BY <1>1, <2>1, JobMoves DEF vev_schedule_one
  <2>2. CASE mcf_server_status
    BY <2>2, JobsAre DEF mcf_server_status
  <2> QED  BY <2>1, <2>2
<1> QED  BY <1>1, <1>2, IdleShape DEF vev_schedule_one, mcf_server_status

\* A signal moves the thread only from poll(2) to the loop, or from a read
\* with a time limit to one without.
LEMMA SignalMoves ==
  ASSUME Shape, NEW s \in {"CHLD", "TERM"}, Signal(s)
  PROVE  /\ sig' \subseteq {"CHLD", "TERM"}
         /\ job' \in Jobs /\ job'.ctx = job.ctx /\ job'.ask = job.ask /\ job'.nth = job.nth
         /\ job'.at \in {"write", "read", "read_on"} <=> job.at \in {"write", "read", "read_on"}
         /\ job'.at \in {"read", "read_on"} <=> job.at \in {"read", "read_on"}
         /\ job.at = "main" <=> job'.at = "main"
         /\ job'.at \in {"loop", "poll"} <=> job.at \in {"loop", "poll"}
<1>1. job \in Jobs /\ sig \subseteq {"CHLD", "TERM"}
  BY DEF Shape, Types
<1>2. PICK a \in vev_sighandler(job.at) : job' = [job EXCEPT !.at = a]
  BY DEF Signal
<1>3. job.at \in {"main", "loop", "poll", "write", "read", "read_on", "exit"}
  BY <1>1 DEF Jobs
<1>4. /\ a \in {"main", "loop", "poll", "write", "read", "read_on", "exit"}
      /\ a = job.at \/ (a = "loop" /\ job.at = "poll") \/ (a = "read_on" /\ job.at = "read")
  BY <1>3 DEF vev_sighandler
<1>5. job' \in Jobs /\ job'.at = a /\ job'.ctx = job.ctx /\ job'.ask = job.ask /\ job'.nth = job.nth
  BY <1>1, <1>2, <1>4, JobMoves
<1>6. sig' \subseteq {"CHLD", "TERM"}
  BY <1>1 DEF Signal
<1> QED  BY <1>4, <1>5, <1>6

\* A step of the child, or a signal: the manager and its store stand still.
LEMMA OutsideShape ==
  ASSUME Shape, UNCHANGED <<m, vcls>>, child' \in Children,
         child'.life = "none" <=> child.life = "none",
         sig' \subseteq {"CHLD", "TERM"}, late' \in BOOLEAN,
         to' \in Seq(Questions), from' \in Seq({"OK", "PARAM"}),
         job' \in Jobs, job'.ctx = job.ctx, job'.ask = job.ask, job'.nth = job.nth,
         job'.at \in {"write", "read", "read_on"} <=> job.at \in {"write", "read", "read_on"}
  PROVE  Shape'
<1>1. Types'
  BY DEF Shape, Types
<1>2. Books'
  BY DEF Shape, Books
<1>3. Asked'
  BY DEF Shape, Asked
<1>4. Store'
  BY DEF Shape, Store
<1> QED  BY <1>1, <1>2, <1>3, <1>4 DEF Shape

\* A SIGTERM at any time keeps Shape.
LEMMA TermShape ==
  ASSUME Shape, SigTerm
  PROVE  Shape'
<1>1. Signal("TERM") /\ UNCHANGED <<m, vcls, child, to, from, late>>
  BY DEF SigTerm
<1>2. /\ child \in Children /\ to \in Seq(Questions) /\ from \in Seq({"OK", "PARAM"})
      /\ late \in BOOLEAN
  BY DEF Shape, Types
<1> QED  BY <1>1, <1>2, SignalMoves, OutsideShape

\* A child that ends, dies or hangs keeps everything else it had.
LEMMA LifeMoves ==
  ASSUME Shape, NEW l \in {"none", "alive", "hung", "zombie"}, child' = [child EXCEPT !.life = l]
  PROVE  /\ child' \in Children /\ child'.life = l /\ child'.loaded = child.loaded
         /\ child'.active = child.active /\ child'.serving = child.serving
<1>1. child \in Children
  BY DEF Shape, Types
<1> QED  BY <1>1 DEF Children

\* The child's death (ChildGone) keeps Shape.
LEMMA GoneShape ==
  ASSUME Shape, ChildGone
  PROVE  Shape'
<1>1. /\ Signal("CHLD") /\ UNCHANGED <<m, vcls, to, from, late>>
      /\ child' = [child EXCEPT !.life = "zombie"] /\ child.life # "none"
  BY DEF ChildGone
<1>2. child' \in Children /\ child'.life = "zombie"
  BY <1>1, LifeMoves
<1>3. to \in Seq(Questions) /\ from \in Seq({"OK", "PARAM"}) /\ late \in BOOLEAN
  BY DEF Shape, Types
<1> QED  BY <1>1, <1>2, <1>3, SignalMoves, OutsideShape

\* A child that stops answering (ChildHangs) keeps Shape.
LEMMA HangShape ==
  ASSUME Shape, ChildHangs
  PROVE  Shape'
<1>1. child' = [child EXCEPT !.life = "hung"] /\ child.life # "none"
  BY DEF ChildHangs
<1>2. child' \in Children /\ child'.life = "hung"
  BY <1>1, LifeMoves
<1>3. /\ to \in Seq(Questions) /\ from \in Seq({"OK", "PARAM"}) /\ late \in BOOLEAN
      /\ sig \subseteq {"CHLD", "TERM"} /\ job \in Jobs
  BY DEF Shape, Types
<1> QED  BY <1>1, <1>2, <1>3, OutsideShape DEF ChildHangs

\* SIGTERM stops the child and ends the manager.
LEMMA SigintShape ==
  ASSUME Shape, mgt_sigint
  PROVE  Shape'
<1>1. job.at \notin {"write", "read", "read_on"} /\ sig' \subseteq {"CHLD", "TERM"}
  BY DEF mgt_sigint, Shape, Types
<1>2. job' \in Jobs /\ job'.at = "exit" /\ job'.ctx = "none"
  BY JobsAre DEF mgt_sigint
<1>3. CASE m.pid /\ m.state = "RUNNING"
  <2>1. m' = mgt_stop_child(m) /\ UNCHANGED <<vcls, child, to, from, late>>
    BY <1>3 DEF mgt_sigint
  <2>2. /\ to \in Seq(Questions) /\ from \in Seq({"OK", "PARAM"}) /\ late \in BOOLEAN
        /\ m \in Managers /\ m.cli
    BY <1>3 DEF Shape, Types, Books
  <2> QED  BY <1>1, <1>2, <1>3, <2>1, <2>2, StopShape
<1>4. CASE ~(m.pid /\ m.state = "RUNNING")
  <2>1. UNCHANGED <<m, vcls, child, to, from, late>>
    BY <1>4 DEF mgt_sigint, mgt_stop_child
  <2> QED  BY <1>1, <1>2, <2>1, IdleIs, IdleShape
<1> QED  BY <1>3, <1>4

\* server_stop keeps Shape.
LEMMA ServerStopShape ==
  ASSUME Shape, server_stop
  PROVE  Shape'
<1>1. /\ m.state = "RUNNING" /\ m' = mgt_stop_child(m) /\ UNCHANGED <<vcls, sig, child, to, from, late>>
  BY DEF server_stop
<1>2. /\ to \in Seq(Questions) /\ from \in Seq({"OK", "PARAM"}) /\ late \in BOOLEAN
      /\ m \in Managers /\ m.cli /\ sig \subseteq {"CHLD", "TERM"}
  BY <1>1 DEF Shape, Types, Books
<1>3. job' \in Jobs /\ job'.ctx = "none" /\ job'.at = "loop"
  BY JobsAre DEF server_stop
<1> QED  BY <1>1, <1>2, <1>3, StopShape

\* SIGCHLD: a compiler's, or the child's.
LEMMA SigchldShape ==
  ASSUME Shape, mgt_sigchld
  PROVE  Shape'
<1>1. /\ job.at \notin {"write", "read", "read_on"} /\ sig' \subseteq {"CHLD", "TERM"}
      /\ UNCHANGED vcls
  BY DEF mgt_sigchld, Shape, Types
<1>2. CASE /\ m' = [m EXCEPT !.poker = FALSE] /\ job' = Loop
           /\ UNCHANGED <<child, to, from, late>>
  <2>1. m \in Managers /\ job.ctx = "none"
    BY <1>1, IdleIs
  <2>2. /\ m' \in Managers /\ m'.state = m.state /\ m'.pid = m.pid /\ m'.cli = m.cli
        /\ m'.fds = m.fds /\ m'.listen = m.listen /\ m'.poker = FALSE /\ m'.ok = m.ok
    BY <1>2, <2>1 DEF Managers
  <2>3. job' \in Jobs /\ job'.ctx = "none" /\ job'.at = "loop"
    BY <1>2, JobsAre
  <2>4. Types'
    BY <1>1, <1>2, <2>2, <2>3 DEF Shape, Types
  <2>5. Books'
    BY <1>2, <2>1, <2>2, <2>3 DEF Shape, Books
  <2>6. Asked' /\ Store'
    BY <1>1, <2>3 DEF Asked, Shape, Store
  <2> QED  BY <2>4, <2>5, <2>6 DEF Shape
<1>3. ASSUME child.life = "zombie"
      PROVE  /\ Reaped(m) \in Managers
             /\ Reaped(m).state = (IF m.state = "RUNNING" THEN "DIED" ELSE "STOPPING")
             /\ Reaped(m).pid = FALSE /\ Reaped(m).cli = FALSE /\ Reaped(m).fds = {}
             /\ Reaped(m).listen = FALSE /\ Reaped(m).poker = FALSE /\ Reaped(m).ok
  <2>1. m \in Managers /\ m.pid = TRUE /\ m.ok
    BY <1>3 DEF Shape, Types, Books, Managers
  <2>2. m.state \in {"RUNNING", "STOPPING"} /\ "child_output" \in m.fds
        /\ (m.state = "RUNNING" => CliFds \subseteq m.fds)
    BY <1>1, <2>1, IdleIs
  <2>3. m.cli = (m.state = "RUNNING")
    BY <2>1, <2>2 DEF Shape, Books, Managers
  <2>4. m.fds = IF m.state = "RUNNING" THEN CliFds \cup {"child_output"} ELSE {"child_output"}
    BY <2>1, <2>3 DEF Shape, Books, CliFds
  <2>5. (IF m.state = "RUNNING" THEN m.fds \ CliFds ELSE m.fds) \ {"child_output"} = {}
    BY <2>4
  <2> QED  BY <2>1, <2>2, <2>3, <2>5, ReapedIs
<1>4. CASE child.life = "zombie" /\ start_child(Reaped(m))
  <2>1. UNCHANGED vcls
    BY <1>1
  <2> QED  BY <1>1, <1>3, <1>4, <2>1, StartShape
<1>5. CASE /\ child.life = "zombie"
           /\ m' = [Reaped(m) EXCEPT !.state = IF @ \in {"DIED", "STOPPING"} THEN "STOPPED" ELSE @]
           /\ child' = NoChild /\ job' = Loop /\ UNCHANGED <<to, from, late>>
  <2>1. PICK r \in Managers : r = Reaped(m)
    BY <1>3, <1>5
  <2>2. /\ r.state \in {"DIED", "STOPPING"} /\ r.pid = FALSE /\ r.cli = FALSE /\ r.fds = {}
        /\ r.listen = FALSE /\ r.poker = FALSE /\ r.ok
    BY <1>3, <1>5, <2>1
  <2>3. m' = [r EXCEPT !.state = "STOPPED"]
    BY <1>5, <2>1, <2>2 DEF Managers
  <2>4. /\ m' \in Managers /\ m'.state = "STOPPED" /\ m'.pid = FALSE /\ m'.cli = FALSE
        /\ m'.fds = {} /\ m'.listen = FALSE /\ m'.poker = FALSE /\ m'.ok
    BY <2>2, <2>3 DEF Managers
  <2>5. job' \in Jobs /\ job'.ctx = "none" /\ job'.at = "loop" /\ child' \in Children /\ child'.life = "none"
    BY <1>5, JobsAre, ChildrenAre
  <2>6. Types'
    BY <1>1, <1>5, <2>4, <2>5 DEF Shape, Types
  <2>7. Books'
    BY <2>4, <2>5 DEF Books
  <2>8. Asked' /\ Store'
    BY <1>1, <2>5 DEF Asked, Shape, Store
  <2> QED  BY <2>6, <2>7, <2>8 DEF Shape
<1> QED  BY <1>2, <1>4, <1>5 DEF mgt_sigchld

\* The listener event (child_listener) keeps Shape.
LEMMA ListenerShape ==
  ASSUME Shape, child_listener
  PROVE  Shape'
<1>1. /\ job.at \notin {"write", "read", "read_on"} /\ m' = [m EXCEPT !.listen = FALSE]
      /\ job' = Loop /\ UNCHANGED <<vcls, sig, child, to, from, late>>
  BY DEF child_listener
<1>2. m \in Managers /\ job.ctx = "none"
  BY <1>1, IdleIs
<1>3. /\ m' \in Managers /\ m'.state = m.state /\ m'.pid = m.pid /\ m'.cli = m.cli
      /\ m'.fds = m.fds /\ m'.listen = FALSE /\ m'.poker = m.poker /\ m'.ok = m.ok
  BY <1>1, <1>2 DEF Managers
<1>4. job' \in Jobs /\ job'.ctx = "none" /\ job'.at = "loop"
  BY <1>1, JobsAre
<1>5. Types'
  BY <1>1, <1>3, <1>4 DEF Shape, Types
<1>6. Books'
  BY <1>1, <1>2, <1>3, <1>4 DEF Shape, Books
<1>7. Asked' /\ Store'
  BY <1>1, <1>4 DEF Asked, Shape, Store
<1> QED  BY <1>5, <1>6, <1>7 DEF Shape

\* An idle thread takes up a question; the rest stands still.
LEMMA AskShape ==
  ASSUME Shape, job.at \notin {"write", "read", "read_on"},
         NEW ctx \in {"load", "use", "discard", "ping", "other"}, NEW q \in Questions,
         q.op = ctx, ctx \in {"use", "discard"} => q.name \in Range(vcls.head) \ vcls.active,
         job' = Asking(ctx, q, 0), UNCHANGED <<m, vcls, child, to, from, late>>,
         sig' \subseteq {"CHLD", "TERM"}
  PROVE  Shape'
<1>1. job' \in Jobs /\ job'.at = "write" /\ job'.ctx = ctx /\ job'.ask = q
  BY JobsAre DEF Contexts
<1>2. job.ctx = "none"
  BY IdleIs
<1>3. Types'
  BY <1>1 DEF Shape, Types
<1>4. Books'
  BY <1>1, <1>2 DEF Shape, Books
<1>5. Asked'
  BY <1>1 DEF Asked
<1>6. Store'
  BY DEF Shape, Store
<1> QED  BY <1>3, <1>4, <1>5, <1>6 DEF Shape

\* The ping (child_poker) keeps Shape.
LEMMA PokerShape ==
  ASSUME Shape, child_poker
  PROVE  Shape'
<1>1. /\ job.at \notin {"write", "read", "read_on"} /\ m.poker
      /\ UNCHANGED <<vcls, sig, child, to, from, late>>
  BY DEF child_poker
<1>2. m.cli /\ sig \subseteq {"CHLD", "TERM"}
  BY <1>1 DEF Shape, Books, Types
<1>3. m.state = "RUNNING"
  BY <1>1, <1>2, IdleIs DEF Shape, Books
<1>4. job' = Asking("ping", Cmd("ping", Nil), 0) /\ UNCHANGED m
  BY <1>3 DEF child_poker
<1>5. Cmd("ping", Nil) \in Questions /\ Cmd("ping", Nil).op = "ping"
  BY CmdsAre
<1> QED  BY <1>1, <1>2, <1>4, <1>5, AskShape

\* A command passed on to the child (mcf_askchild) keeps Shape.
LEMMA OtherShape ==
  ASSUME Shape, mcf_askchild
  PROVE  Shape'
<1>1. /\ job.at \notin {"write", "read", "read_on"} /\ job' = Asking("other", Cmd("other", Nil), 0)
      /\ UNCHANGED <<m, vcls, sig, child, to, from, late>>
  BY DEF mcf_askchild
<1>2. sig \subseteq {"CHLD", "TERM"}
  BY DEF Shape, Types
<1>3. Cmd("other", Nil) \in Questions /\ Cmd("other", Nil).op = "other"
  BY CmdsAre
<1> QED  BY <1>1, <1>2, <1>3, AskShape

\* server_start keeps Shape.
LEMMA ServerStartShape ==
  ASSUME Shape, server_start
  PROVE  Shape'
<1>1. /\ job.at \notin {"write", "read", "read_on"} /\ m.state = "STOPPED" /\ start_child(m)
      /\ UNCHANGED vcls /\ sig' \subseteq {"CHLD", "TERM"}
  BY DEF server_start, Shape, Types
<1> QED  BY <1>1, IdleIs, StartShape

\* What the store may become.
LEMMA StoreAfter ==
  ASSUME Shape, NEW n \in Names
  PROVE  /\ mgt_vcc_add(n) = [head |-> Append(vcls.head, n), active |-> vcls.active]
         /\ SetActive(n) = [head |-> vcls.head, active |-> {n}]
         /\ mgt_vcc_delbyname(n) = [head |-> Unlinked(vcls.head, n), active |-> vcls.active]
<1>1. vcls \in [head : Seq(Names), active : SUBSET Names]
  BY DEF Shape, Types
<1>2. mgt_vcc_add(n) = [head |-> Append(vcls.head, n), active |-> vcls.active]
  BY <1>1 DEF mgt_vcc_add
<1>3. SetActive(n) = [head |-> vcls.head, active |-> {n}]
  <2>1. PICK a : a = {n}
    OBVIOUS
  <2>2. [vcls EXCEPT !.active = a] = [head |-> vcls.head, active |-> a]
    BY <1>1
  <2> QED  BY <2>1, <2>2 DEF SetActive
<1>4. mgt_vcc_delbyname(n) = [head |-> Unlinked(vcls.head, n), active |-> vcls.active]
  BY <1>1 DEF mgt_vcc_delbyname
<1> QED  BY <1>2, <1>3, <1>4

\* A store that changes as a handler changes it keeps its active program.
LEMMA StoreChanges ==
  ASSUME Shape, NEW n \in Names,
         \/ vcls' = vcls
         \/ vcls' = mgt_vcc_add(n)
         \/ n \in Range(vcls.head) /\ vcls' = SetActive(n)
         \/ n \in Range(vcls.head) \ vcls.active /\ vcls' = mgt_vcc_delbyname(n)
  PROVE  vcls' \in [head : Seq(Names), active : SUBSET Names] /\ Store'
<1>1. vcls \in [head : Seq(Names), active : SUBSET Names] /\ Store
  BY DEF Shape, Types
<1>2. CASE vcls' = vcls
  BY <1>1, <1>2 DEF Store
<1>3. CASE vcls' = mgt_vcc_add(n)
  <2>1. vcls' = [head |-> Append(vcls.head, n), active |-> vcls.active]
    BY <1>3, StoreAfter
  <2>2. Append(vcls.head, n) \in Seq(Names) /\ Range(vcls.head) \subseteq Range(Append(vcls.head, n))
    BY <1>1, AppendedRange
  <2>3. vcls'.head = Append(vcls.head, n) /\ vcls'.active = vcls.active
    BY <2>1
  <2>4. vcls' \in [head : Seq(Names), active : SUBSET Names]
    BY <1>1, <2>1, <2>2
  <2> QED  BY <1>1, <2>2, <2>3, <2>4 DEF Store
<1>4. CASE n \in Range(vcls.head) /\ vcls' = SetActive(n)
  <2>1. vcls' = [head |-> vcls.head, active |-> {n}]
    BY <1>4, StoreAfter
  <2>2. vcls'.head = vcls.head /\ vcls'.active = {n}
    BY <2>1
  <2>3. vcls' \in [head : Seq(Names), active : SUBSET Names]
    BY <1>1, <2>1
  <2> QED  BY <1>4, <2>2, <2>3 DEF Store
<1>5. CASE n \in Range(vcls.head) \ vcls.active /\ vcls' = mgt_vcc_delbyname(n)
  <2>1. vcls' = [head |-> Unlinked(vcls.head, n), active |-> vcls.active]
    BY <1>5, StoreAfter
  <2>2. /\ Unlinked(vcls.head, n) \in Seq(Names)
        /\ \A x \in Range(vcls.head) : x # n => x \in Range(Unlinked(vcls.head, n))
    BY <1>1, <1>5, UnlinkedKeeps
  <2>3. vcls'.head = Unlinked(vcls.head, n) /\ vcls'.active = vcls.active
    BY <2>1
  <2>4. vcls' \in [head : Seq(Names), active : SUBSET Names]
    BY <1>1, <2>1, <2>2
  <2>5. vcls.active \subseteq Range(Unlinked(vcls.head, n))
    BY <1>1, <1>5, <2>2 DEF Store
  <2> QED  BY <1>1, <2>3, <2>4, <2>5 DEF Store
<1> QED  BY <1>2, <1>3, <1>4, <1>5

\* A handler that is done leaves the thread in its loop and the store changed.
LEMMA DoneShape ==
  ASSUME Shape, m.state # "STARTING", UNCHANGED <<m, child>>, job' = Loop, late' \in BOOLEAN,
         sig' \subseteq {"CHLD", "TERM"}, to' \in Seq(Questions), from' \in Seq({"OK", "PARAM"}),
         vcls' \in [head : Seq(Names), active : SUBSET Names], Store'
  PROVE  Shape'
<1>1. job' \in Jobs /\ job'.ctx = "none" /\ job'.at = "loop"
  BY JobsAre
<1>2. Types'
  BY <1>1 DEF Shape, Types
<1>3. Books'
  BY <1>1 DEF Shape, Books
<1>4. Asked'
  BY <1>1 DEF Asked
<1> QED  BY <1>2, <1>3, <1>4 DEF Shape

\* A command about a program, asked of the child or carried out at once.
LEMMA ConfigShape ==
  ASSUME Shape, NEW n \in Names,
         mcf_config_load(n) \/ mcf_config_use(n) \/ mcf_config_discard(n)
  PROVE  Shape'
<1>1. /\ job.at \notin {"write", "read", "read_on"} /\ sig' \subseteq {"CHLD", "TERM"}
      /\ UNCHANGED <<m, child, to, from, late>> /\ m.state # "STARTING"
  <2>1. job.at = "poll" /\ sig \subseteq {"CHLD", "TERM"}
    BY DEF mcf_config_load, mcf_config_use, mcf_config_discard, Shape, Types
  <2>2. m.state # "STARTING"
    BY <2>1, IdleIs
  <2> QED
    BY <2>1, <2>2 DEF mcf_config_load, mcf_config_use, mcf_config_discard, mgt_run_cc, SUB_run
<1>2. to' \in Seq(Questions) /\ from' \in Seq({"OK", "PARAM"}) /\ late' \in BOOLEAN
  BY <1>1 DEF Shape, Types
<1>3. CASE job' = Loop /\ UNCHANGED vcls
  <2>1. vcls' \in [head : Seq(Names), active : SUBSET Names] /\ Store'
    BY <1>3, StoreChanges
  <2> QED  BY <1>1, <1>2, <1>3, <2>1, DoneShape
<1>4. CASE mcf_config_load(n) /\ AskOr("load", Cmd("load", n), mgt_vcc_add(n))
  <2>1. CASE m.pid
    <3>1. job' = Asking("load", Cmd("load", n), 0) /\ UNCHANGED vcls
      BY <1>4, <2>1 DEF AskOr
    <3>2. Cmd("load", n) \in Questions /\ Cmd("load", n).op = "load"
      BY CmdsAre DEF Ops
    <3> QED  BY <1>1, <3>1, <3>2, AskShape
  <2>2. CASE ~m.pid
    <3>1. job' = Loop /\ vcls' = mgt_vcc_add(n)
      BY <1>4, <2>2 DEF AskOr
    <3>2. vcls' \in [head : Seq(Names), active : SUBSET Names] /\ Store'
      BY <3>1, StoreChanges
    <3> QED  BY <1>1, <1>2, <3>1, <3>2, DoneShape
  <2> QED  BY <2>1, <2>2
<1>5. CASE mcf_config_use(n)
  <2>0. n \in Range(vcls.head) \ vcls.active /\ AskOr("use", Cmd("use", n), SetActive(n))
    BY <1>5 DEF mcf_config_use
  <2>1. CASE m.pid
    <3>1. job' = Asking("use", Cmd("use", n), 0) /\ UNCHANGED vcls
      BY <2>0, <2>1 DEF AskOr
    <3>2. Cmd("use", n) \in Questions /\ Cmd("use", n).op = "use" /\ Cmd("use", n).name = n
      BY CmdsAre DEF Ops
    <3> QED  BY <1>1, <2>0, <3>1, <3>2, AskShape
  <2>2. CASE ~m.pid
    <3>1. job' = Loop /\ vcls' = SetActive(n)
      BY <2>0, <2>2 DEF AskOr
    <3>2. vcls' \in [head : Seq(Names), active : SUBSET Names] /\ Store'
      BY <2>0, <3>1, StoreChanges
    <3> QED  BY <1>1, <1>2, <3>1, <3>2, DoneShape
  <2> QED  BY <2>1, <2>2
<1>6. CASE mcf_config_discard(n)
  <2>0. n \in Range(vcls.head) \ vcls.active /\ AskOr("discard", Cmd("discard", n), mgt_vcc_delbyname(n))
    BY <1>6 DEF mcf_config_discard
  <2>1. CASE m.pid
    <3>1. job' = Asking("discard", Cmd("discard", n), 0) /\ UNCHANGED vcls
      BY <2>0, <2>1 DEF AskOr
    <3>2. Cmd("discard", n) \in Questions /\ Cmd("discard", n).op = "discard" /\ Cmd("discard", n).name = n
      BY CmdsAre DEF Ops
    <3> QED  BY <1>1, <2>0, <3>1, <3>2, AskShape
  <2>2. CASE ~m.pid
    <3>1. job' = Loop /\ vcls' = mgt_vcc_delbyname(n)
      BY <2>0, <2>2 DEF AskOr
    <3>2. vcls' \in [head : Seq(Names), active : SUBSET Names] /\ Store'
      BY <2>0, <3>1, StoreChanges
    <3> QED  BY <1>1, <1>2, <3>1, <3>2, DoneShape
  <2> QED  BY <2>1, <2>2
<1> QED  BY <1>3, <1>4, <1>5, <1>6 DEF mcf_config_load

\* The handler that asked has its answer, or none.
LEMMA ReturnsShape ==
  ASSUME Shape, NEW ok \in BOOLEAN, Returns(ok), job.at \in {"write", "read", "read_on"},
         to' \in Seq(Questions), from' \in Seq({"OK", "PARAM"}), late' \in BOOLEAN
  PROVE  Shape'
<1>0. Types /\ Books /\ Asked /\ Store
  BY DEF Shape
<1>1. CASE PushReturns(ok)
  <2>0. /\ job.ctx = "push" /\ UNCHANGED <<vcls, sig, child>> /\ sig' \subseteq {"CHLD", "TERM"}
        /\ job \in Jobs /\ m \in Managers
    BY <1>0, <1>1 DEF PushReturns, Types
  <2>1. m.state = "STARTING" /\ m.cli
    BY <1>0, <2>0 DEF Books
  <2>2. vcls.head \in Seq(Names) /\ Len(vcls.head) \in Nat
    BY <1>0, LenProperties DEF Types
  <2>3. CASE ok /\ job.ask.op # "start" /\ UNCHANGED m
             /\ job' = IF job.ask.op = "load" /\ job.ask.name \in vcls.active
                       THEN Asking("push", Cmd("use", job.ask.name), job.nth)
                       ELSE mgt_push_vcls_and_start(job.nth + 1)
    <3>1. /\ job.ask.op \in {"load", "use"} /\ job.nth \in 1 .. Len(vcls.head)
          /\ job.ask.name = vcls.head[job.nth]
      BY <1>0, <2>0, <2>3 DEF Asked
    <3>2. CASE job.ask.op = "load" /\ job.ask.name \in vcls.active
      <4>1. job.ask.name \in Names /\ job.nth \in Nat
        BY <2>2, <3>1, ElementOfSeq
      <4>2. /\ Cmd("use", job.ask.name) \in Questions /\ Cmd("use", job.ask.name).op = "use"
            /\ Cmd("use", job.ask.name).name = job.ask.name
        BY <4>1, CmdsAre DEF Ops
      <4>3. /\ job' \in Jobs /\ job'.at = "write" /\ job'.ctx = "push" /\ job'.nth = job.nth
            /\ job'.ask = Cmd("use", job.ask.name)
        BY <2>3, <3>2, <4>1, <4>2, JobsAre DEF Contexts
      <4>4. Types'
        BY <1>0, <2>0, <2>3, <4>3 DEF Types
      <4>5. Books'
        BY <1>0, <2>0, <2>3, <4>3 DEF Books
      <4>6. Asked'
        BY <2>0, <3>1, <3>2, <4>2, <4>3 DEF Asked
      <4>7. Store'
        BY <1>0, <2>0 DEF Store
      <4> QED  BY <4>4, <4>5, <4>6, <4>7 DEF Shape
    <3>3. CASE ~(job.ask.op = "load" /\ job.ask.name \in vcls.active)
      <4>1. job.nth + 1 \in 1 .. Len(vcls.head) + 1
        BY <2>2, <3>1
      <4>2. job' = mgt_push_vcls_and_start(job.nth + 1)
        BY <2>3, <3>3
      <4>3. /\ job' \in Jobs /\ job'.at = "write" /\ job'.ctx = "push" /\ job'.nth = job.nth + 1
            /\ \/ /\ job.nth + 1 \in 1 .. Len(vcls.head) /\ job'.ask.op = "load"
                  /\ job'.ask.name = vcls.head[job.nth + 1]
               \/ job.nth + 1 = Len(vcls.head) + 1 /\ job'.ask.op = "start"
        BY <2>2, <4>1, <4>2, NextPush
      <4>4. Types'
        BY <1>0, <2>0, <2>3, <4>3 DEF Types
      <4>5. Books'
        BY <1>0, <2>0, <2>3, <4>3 DEF Books
      <4>6. Asked'
        BY <2>0, <4>3 DEF Asked
      <4>7. Store'
        BY <1>0, <2>0 DEF Store
      <4> QED  BY <4>4, <4>5, <4>6, <4>7 DEF Shape
    <3> QED  BY <3>2, <3>3
  <2>4. CASE m' = [m EXCEPT !.state = "RUNNING"] /\ job' = Loop
    <3>1. /\ m' \in Managers /\ m'.state = "RUNNING" /\ m'.pid = m.pid /\ m'.cli = m.cli
          /\ m'.fds = m.fds /\ m'.listen = m.listen /\ m'.poker = m.poker /\ m'.ok = m.ok
      BY <2>0, <2>4 DEF Managers
    <3>2. job' \in Jobs /\ job'.ctx = "none" /\ job'.at = "loop"
      BY <2>4, JobsAre
    <3>3. Types'
      BY <1>0, <2>0, <3>1, <3>2 DEF Types
    <3>4. m.pid
      BY <1>0, <2>1 DEF Books
    <3>5. Books'
      BY <1>0, <2>0, <2>1, <3>1, <3>2, <3>4 DEF Books
    <3>6. Asked' /\ Store'
      BY <1>0, <2>0, <3>2 DEF Asked, Store
    <3> QED  BY <3>3, <3>5, <3>6 DEF Shape
  <2>5. CASE m' = mgt_stop_child([m EXCEPT !.state = "RUNNING"]) /\ job' = Loop
    <3>1. PICK mm \in Managers : mm = [m EXCEPT !.state = "RUNNING"]
      BY <2>0 DEF Managers
    <3>2. mm.state = "RUNNING" /\ mm.pid = m.pid /\ mm.fds = m.fds /\ mm.listen = m.listen /\ mm.ok = m.ok
      BY <2>0, <3>1 DEF Managers
    <3>3. job' \in Jobs /\ job'.ctx = "none" /\ job'.at = "loop"
      BY <2>5, JobsAre
    <3>4. m' = mgt_stop_child(mm)
      BY <2>5, <3>1
    <3> QED  BY <2>0, <2>1, <3>2, <3>3, <3>4, StopShape
  <2> QED  BY <1>1, <2>3, <2>4, <2>5 DEF PushReturns
<1>2. CASE StoreReturns(ok)
  <2>1. /\ job.ctx \in {"load", "use", "discard", "other"} /\ job' = Loop
        /\ UNCHANGED <<m, sig, child>> /\ sig' \subseteq {"CHLD", "TERM"}
    BY <1>0, <1>2 DEF StoreReturns, Types
  <2>2. m.state # "STARTING"
    BY <1>0, <2>1 DEF Books
  <2>3. CASE vcls' = vcls
    <3>1. vcls' \in [head : Seq(Names), active : SUBSET Names] /\ Store'
      BY <1>0, <2>3 DEF Types, Store
    <3> QED  BY <2>1, <2>2, <3>1, DoneShape
  <2>4. CASE vcls' # vcls
    <3>1. ok /\ job.ctx \in {"load", "use", "discard"}
      BY <1>2, <2>4 DEF StoreReturns
    <3>2. job.ask.op = job.ctx /\ job.ask \in Questions
      BY <1>0, <3>1 DEF Asked, Types, Jobs
    <3>3. PICK n \in Names : n = job.ask.name
      BY <3>1, <3>2 DEF Questions
    <3>4. \/ job.ctx = "load" /\ vcls' = mgt_vcc_add(n)
          \/ job.ctx = "use" /\ vcls' = SetActive(n)
          \/ job.ctx = "discard" /\ vcls' = mgt_vcc_delbyname(n)
      BY <1>2, <3>1, <3>3 DEF StoreReturns
    <3>5. job.ctx \in {"use", "discard"} => n \in Range(vcls.head) \ vcls.active
      BY <1>0, <3>3 DEF Asked
    <3>6. vcls' \in [head : Seq(Names), active : SUBSET Names] /\ Store'
      BY <3>4, <3>5, StoreChanges
    <3> QED  BY <2>1, <2>2, <3>6, DoneShape
  <2> QED  BY <2>3, <2>4
<1>3. CASE PingReturns(ok)
  <2>1. job.ctx = "ping" /\ job' = Loop /\ UNCHANGED <<m, vcls>>
    BY <1>3 DEF PingReturns
  <2>2. m.state # "STARTING"
    BY <1>0, <2>1 DEF Books
  <2>3. /\ sig' \subseteq {"CHLD", "TERM"}
        /\ child' \in Children /\ (child'.life = "none" <=> child.life = "none")
    <3>1. CASE UNCHANGED <<sig, child>>
      BY <1>0, <3>1 DEF Types
    <3>2. CASE sig' = sig \cup {"CHLD"} /\ child' = [child EXCEPT !.life = "zombie"]
               /\ child.life \in {"alive", "hung"}
      BY <1>0, <3>2, LifeMoves DEF Types
    <3> QED  BY <1>3, <3>1, <3>2 DEF PingReturns
  <2>4. job' \in Jobs /\ job'.ctx = "none" /\ job'.at = "loop"
    BY <2>1, JobsAre
  <2>5. Types'
    BY <1>0, <2>1, <2>3, <2>4 DEF Types
  <2>6. Books'
    BY <1>0, <2>1, <2>2, <2>3, <2>4 DEF Books
  <2>7. Asked' /\ Store'
    BY <1>0, <2>1, <2>4 DEF Asked, Store
  <2> QED  BY <2>5, <2>6, <2>7 DEF Shape
<1> QED  BY <1>1, <1>2, <1>3 DEF Returns

\* The manager asks, waits and reads.
LEMMA AskingShape ==
  ASSUME Shape, Ask
  PROVE  Shape'
<1>0. Types
  BY DEF Shape
<1>1. CASE mgt_cli_askchild
  <2>1. job.at = "write" /\ UNCHANGED <<from, late>>
        /\ from' \in Seq({"OK", "PARAM"}) /\ late' \in BOOLEAN
    BY <1>0, <1>1 DEF mgt_cli_askchild, Types
  <2>2. CASE Returns(FALSE) /\ UNCHANGED to
    <3>1. to' \in Seq(Questions)
      BY <1>0, <2>2 DEF Types
    <3> QED  BY <2>1, <2>2, <3>1, ReturnsShape
  <2>3. CASE /\ to' = Append(to, job.ask) /\ job' = [job EXCEPT !.at = "read"]
             /\ UNCHANGED <<m, vcls, sig, child>>
    <3>1. to \in Seq(Questions) /\ job.ask \in Questions /\ job \in Jobs
      BY <1>0 DEF Types, Jobs
    <3>2. to' \in Seq(Questions)
      BY <2>3, <3>1, AppendProperties
    <3>3. /\ job' \in Jobs /\ job'.at = "read" /\ job'.ctx = job.ctx /\ job'.ask = job.ask
          /\ job'.nth = job.nth
      BY <2>3, <3>1, JobMoves
    <3>4. child \in Children /\ sig \subseteq {"CHLD", "TERM"}
      BY <1>0 DEF Types
    <3> QED  BY <2>1, <2>3, <3>2, <3>3, <3>4, OutsideShape
  <2> QED  BY <1>1, <2>2, <2>3 DEF mgt_cli_askchild
<1>2. CASE cli_readres
  <2>1. /\ job.at \in {"read", "read_on"} /\ from # <<>> /\ from' = Tail(from)
        /\ Returns(Head(from) = "OK") /\ UNCHANGED <<to, late>>
    BY <1>2 DEF cli_readres
  <2>2. from \in Seq({"OK", "PARAM"}) /\ to' \in Seq(Questions) /\ late' \in BOOLEAN
    BY <1>0, <2>1 DEF Types
  <2>3. from' \in Seq({"OK", "PARAM"})
    BY <2>1, <2>2, HeadTailProperties
  <2> QED  BY <2>1, <2>2, <2>3, ReturnsShape
<1>3. CASE read_tmo
  <2>1. /\ job.at \in {"read", "read_on"} /\ Returns(FALSE) /\ UNCHANGED <<to, from>>
        /\ (late' = late \/ late' = TRUE)
    BY <1>3 DEF read_tmo
  <2>2. to' \in Seq(Questions) /\ from' \in Seq({"OK", "PARAM"}) /\ late' \in BOOLEAN
    BY <1>0, <2>1 DEF Types
  <2> QED  BY <2>1, <2>2, ReturnsShape
<1> QED  BY <1>1, <1>2, <1>3 DEF Ask

\* The child's answer.
LEMMA AnswerShape ==
  ASSUME Shape, NEW c \in Children, c.life = child.life, NEW a \in {"OK", "PARAM"},
         Answer(c, a), to # <<>>, UNCHANGED <<m, vcls, job, sig, late>>
  PROVE  Shape'
<1>1. /\ to \in Seq(Questions) /\ from \in Seq({"OK", "PARAM"}) /\ late \in BOOLEAN
      /\ sig \subseteq {"CHLD", "TERM"} /\ job \in Jobs
  BY DEF Shape, Types
<1>2. child' = c /\ to' = Tail(to) /\ from' = Append(from, a)
  BY DEF Answer
<1>3. to' \in Seq(Questions)
  BY <1>1, <1>2, HeadTailProperties
<1>4. from' \in Seq({"OK", "PARAM"})
  BY <1>1, <1>2, AppendProperties
<1> QED  BY <1>1, <1>2, <1>3, <1>4, OutsideShape

\* What the child may become by answering.
LEMMA ChildAfter ==
  ASSUME Shape, NEW n \in Names
  PROVE  /\ LET c == [child EXCEPT !.loaded = Append(@, n), !.active = IF @ = Nil THEN n ELSE @] IN
            /\ c \in Children /\ c.life = child.life /\ c.serving = child.serving
            /\ c.loaded = Append(child.loaded, n)
            /\ c.active = IF child.active = Nil THEN n ELSE child.active
         /\ LET c == [child EXCEPT !.active = n] IN
            /\ c \in Children /\ c.life = child.life /\ c.serving = child.serving
            /\ c.loaded = child.loaded /\ c.active = n
         /\ n \in Range(child.loaded) =>
            LET c == [child EXCEPT !.loaded = Unlinked(@, n)] IN
            /\ c \in Children /\ c.life = child.life /\ c.serving = child.serving
            /\ c.loaded = Unlinked(child.loaded, n) /\ c.active = child.active
         /\ LET c == [child EXCEPT !.serving = TRUE] IN
            /\ c \in Children /\ c.life = child.life /\ c.serving = TRUE
            /\ c.loaded = child.loaded /\ c.active = child.active
<1>1. child \in Children /\ child.loaded \in Seq(Names)
  BY DEF Shape, Types, Children
<1>2. Append(child.loaded, n) \in Seq(Names)
  BY <1>1, AppendedRange
<1>3. n \in Range(child.loaded) => Unlinked(child.loaded, n) \in Seq(Names)
  BY <1>1, UnlinkedKeeps
<1>4. LET c == [child EXCEPT !.loaded = Append(@, n), !.active = IF @ = Nil THEN n ELSE @] IN
      /\ c \in Children /\ c.life = child.life /\ c.serving = child.serving
      /\ c.loaded = Append(child.loaded, n)
      /\ c.active = IF child.active = Nil THEN n ELSE child.active
  BY <1>1, <1>2 DEF Children
<1>5. LET c == [child EXCEPT !.active = n] IN
      /\ c \in Children /\ c.life = child.life /\ c.serving = child.serving
      /\ c.loaded = child.loaded /\ c.active = n
  BY <1>1 DEF Children
<1>6. ASSUME n \in Range(child.loaded)
      PROVE  LET c == [child EXCEPT !.loaded = Unlinked(@, n)] IN
             /\ c \in Children /\ c.life = child.life /\ c.serving = child.serving
             /\ c.loaded = Unlinked(child.loaded, n) /\ c.active = child.active
  BY <1>1, <1>3, <1>6 DEF Children
<1>7. LET c == [child EXCEPT !.serving = TRUE] IN
      /\ c \in Children /\ c.life = child.life /\ c.serving = TRUE
      /\ c.loaded = child.loaded /\ c.active = child.active
  BY <1>1 DEF Children
<1> QED  BY <1>4, <1>5, <1>6, <1>7

\* The child's CLI thread takes one question and answers it.
LEMMA CliRunAnswers ==
  ASSUME Shape, CLI_Run
  PROVE  LET q == Head(to) IN
         /\ q \in Questions /\ child.life = "alive" /\ m.cli /\ to # <<>>
         /\ UNCHANGED <<m, vcls, job, sig, late>>
         /\ child' \in Children /\ child'.life = child.life
         /\ \E a \in {"OK", "PARAM"} :
              /\ to' = Tail(to) /\ from' = Append(from, a)
              /\ a = "PARAM" => child' = child
              /\ a = "OK" =>
                 \/ /\ q.op = "load" /\ child'.loaded = Append(child.loaded, q.name)
                    /\ child'.active = IF child.active = Nil THEN q.name ELSE child.active
                    /\ child'.serving = child.serving
                 \/ /\ q.op = "use" /\ child'.loaded = child.loaded
                    /\ child'.active = q.name /\ child'.serving = child.serving
                 \/ /\ q.op = "discard" /\ q.name # child.active
                    /\ child'.loaded = Unlinked(child.loaded, q.name)
                    /\ child'.active = child.active /\ child'.serving = child.serving
                 \/ /\ q.op = "start" /\ child'.serving = TRUE
                    /\ child'.loaded = child.loaded /\ child'.active = child.active
                 \/ q.op \in {"ping", "other"} /\ child' = child
<1> DEFINE q == Head(to)
<1>1. /\ child.life = "alive" /\ m.cli /\ to # <<>> /\ UNCHANGED <<m, vcls, job, sig, late>>
      /\ \/ q.op = "load" /\ VCL_Load(q.name)
         \/ q.op = "use" /\ ccf_config_use(q.name)
         \/ q.op = "discard" /\ ccf_config_discard(q.name)
         \/ q.op = "start" /\ Answer([child EXCEPT !.serving = TRUE], "OK")
         \/ q.op = "ping" /\ Answer(child, "OK")
         \/ q.op = "other" /\ \E a \in {"OK", "PARAM"} : Answer(child, a)
  BY DEF CLI_Run
<1>2. to \in Seq(Questions) /\ child \in Children
  BY DEF Shape, Types
<1>3. q \in Questions
  BY <1>1, <1>2, HeadTailProperties
<1>4. q.op \in {"load", "use", "discard"} => q.name \in Names
  BY <1>3 DEF Questions
<1> HIDE DEF q
<1>5. CASE \E a \in {"OK", "PARAM"} : Answer(child, a) /\ (a = "OK" => q.op \in {"ping", "other"})
  BY <1>1, <1>2, <1>3, <1>5 DEF Answer, q
<1>6. CASE /\ q.op = "load"
           /\ Answer([child EXCEPT !.loaded = Append(@, q.name),
                                   !.active = IF @ = Nil THEN q.name ELSE @], "OK")
  <2>1. PICK n \in Names : n = q.name
    BY <1>4, <1>6
  <2> HIDE DEF q
  <2>2. /\ child' = [child EXCEPT !.loaded = Append(@, n), !.active = IF @ = Nil THEN n ELSE @]
        /\ to' = Tail(to) /\ from' = Append(from, "OK")
    BY <1>6, <2>1 DEF Answer
  <2>3. /\ child' \in Children /\ child'.life = child.life /\ child'.serving = child.serving
        /\ child'.loaded = Append(child.loaded, n)
        /\ child'.active = IF child.active = Nil THEN n ELSE child.active
    BY <2>2, ChildAfter
  <2>4. to' = Tail(to) /\ from' = Append(from, "OK")
    BY <2>2
  <2> QED  BY <1>1, <1>3, <1>6, <2>1, <2>3, <2>4 DEF q
<1>7. CASE q.op = "use" /\ Answer([child EXCEPT !.active = q.name], "OK")
  <2>1. PICK n \in Names : n = q.name
    BY <1>4, <1>7
  <2>2. child' = [child EXCEPT !.active = n] /\ to' = Tail(to) /\ from' = Append(from, "OK")
    BY <1>7, <2>1 DEF Answer
  <2>3. /\ child' \in Children /\ child'.life = child.life /\ child'.serving = child.serving
        /\ child'.loaded = child.loaded /\ child'.active = n
    BY <2>2, ChildAfter
  <2>4. to' = Tail(to) /\ from' = Append(from, "OK")
    BY <2>2
  <2> QED  BY <1>1, <1>3, <1>7, <2>1, <2>3, <2>4 DEF q
<1>8. CASE /\ q.op = "discard" /\ q.name \in Range(child.loaded) \ {child.active}
           /\ Answer([child EXCEPT !.loaded = Unlinked(@, q.name)], "OK")
  <2>1. PICK n \in Names : n = q.name
    BY <1>4, <1>8
  <2>2. /\ child' = [child EXCEPT !.loaded = Unlinked(@, n)]
        /\ to' = Tail(to) /\ from' = Append(from, "OK")
    BY <1>8, <2>1 DEF Answer
  <2>3. /\ child' \in Children /\ child'.life = child.life /\ child'.serving = child.serving
        /\ child'.loaded = Unlinked(child.loaded, n) /\ child'.active = child.active
    BY <1>8, <2>1, <2>2, ChildAfter
  <2>4. to' = Tail(to) /\ from' = Append(from, "OK")
    BY <2>2
  <2> QED  BY <1>1, <1>3, <1>8, <2>1, <2>3, <2>4 DEF q
<1>9. CASE q.op = "start" /\ Answer([child EXCEPT !.serving = TRUE], "OK")
  <2>2. child' = [child EXCEPT !.serving = TRUE] /\ to' = Tail(to) /\ from' = Append(from, "OK")
    BY <1>9 DEF Answer
  <2>3. /\ child' \in Children /\ child'.life = child.life /\ child'.serving = TRUE
        /\ child'.loaded = child.loaded /\ child'.active = child.active
    BY <1>2, <2>2 DEF Children
  <2>4. to' = Tail(to) /\ from' = Append(from, "OK")
    BY <2>2
  <2> QED  BY <1>1, <1>3, <1>9, <2>3, <2>4 DEF q
<1>10. \/ \E a \in {"OK", "PARAM"} : Answer(child, a) /\ (a = "OK" => q.op \in {"ping", "other"})
       \/ /\ q.op = "load"
          /\ Answer([child EXCEPT !.loaded = Append(@, q.name),
                                  !.active = IF @ = Nil THEN q.name ELSE @], "OK")
       \/ q.op = "use" /\ Answer([child EXCEPT !.active = q.name], "OK")
       \/ /\ q.op = "discard" /\ q.name \in Range(child.loaded) \ {child.active}
          /\ Answer([child EXCEPT !.loaded = Unlinked(@, q.name)], "OK")
       \/ q.op = "start" /\ Answer([child EXCEPT !.serving = TRUE], "OK")
  BY <1>1 DEF VCL_Load, ccf_config_use, ccf_config_discard
<1> QED  BY <1>5, <1>6, <1>7, <1>8, <1>9, <1>10

\* The child that reads and answers a question (CLI_Run) keeps Shape.
LEMMA CliRunShape ==
  ASSUME Shape, CLI_Run
  PROVE  Shape'
<1>1. /\ to # <<>> /\ UNCHANGED <<m, vcls, job, sig, late>>
      /\ child' \in Children /\ child'.life = child.life
      /\ \E a \in {"OK", "PARAM"} : to' = Tail(to) /\ from' = Append(from, a)
  BY CliRunAnswers
<1>2. PICK a \in {"OK", "PARAM"} : Answer(child', a)
  BY <1>1 DEF Answer
<1> QED  BY <1>1, <1>2, AnswerShape

(***************************************************************************)
(* What a trusted child has                                                *)
(***************************************************************************)
\* A child that has every program uses the one the manager believes in use;
\* that one is Nil only when there is no program.
LEMMA UsedAll ==
  ASSUME Shape
  PROVE  /\ Believed = Used(Len(vcls.head))
         /\ Believed = Nil <=> vcls.head = <<>>
         /\ \A x \in vcls.active : Believed = x
         /\ vcls.active = {} /\ vcls.head # <<>> => Believed = vcls.head[1]
<1>1. /\ vcls.head \in Seq(Names) /\ vcls.active \subseteq Names
      /\ vcls.active \subseteq Range(vcls.head) /\ \A x, y \in vcls.active : x = y
  BY DEF Shape, Types, Store
<1>2. Len(vcls.head) \in Nat /\ DOMAIN vcls.head = 1 .. Len(vcls.head)
      /\ (vcls.head = <<>> <=> Len(vcls.head) = 0)
  BY <1>1, LenProperties, EmptySeq
<1>3. CASE vcls.active # {}
  <2>1. PICK x : x \in vcls.active
    BY <1>3
  <2>2. PICK i \in 1 .. Len(vcls.head) : vcls.head[i] = x
    BY <1>1, <1>2, <2>1 DEF Range
  <2>3. (CHOOSE y \in vcls.active : TRUE) = x
    BY <1>1, <2>1
  <2>4. Believed = x
    BY <1>3, <2>3 DEF Believed
  <2>5. Used(Len(vcls.head)) = x
    BY <2>1, <2>2, <2>3 DEF Used
  <2>6. x # Nil /\ vcls.head # <<>>
    BY <1>1, <1>2, <2>1, <2>2, ManagerAssumption
  <2> QED  BY <1>1, <1>3, <2>1, <2>4, <2>5, <2>6
<1>4. CASE vcls.active = {}
  <2>1. Used(Len(vcls.head)) = IF Len(vcls.head) = 0 THEN Nil ELSE vcls.head[1]
    BY <1>4 DEF Used
  <2>2. Believed = IF vcls.head = <<>> THEN Nil ELSE vcls.head[1]
    BY <1>4 DEF Believed
  <2>3. vcls.head # <<>> => vcls.head[1] \in Names
    BY <1>1, <1>2, ElementOfSeq
  <2> QED  BY <1>2, <1>4, <2>1, <2>2, <2>3, ManagerAssumption
<1> QED  BY <1>3, <1>4

\* One program more: it is the one in use if it is active, or the first.
LEMMA UsedNext ==
  ASSUME Shape, NEW n \in 1 .. Len(vcls.head)
  PROVE  /\ vcls.head[n] \in vcls.active => Used(n) = vcls.head[n]
         /\ vcls.head[n] \notin vcls.active =>
              Used(n) = IF Used(n - 1) = Nil THEN vcls.head[n] ELSE Used(n - 1)
<1>1. /\ vcls.head \in Seq(Names) /\ vcls.active \subseteq Names
      /\ \A x, y \in vcls.active : x = y
  BY DEF Shape, Types, Store
<1>2. Len(vcls.head) \in Nat /\ n \in Nat
  BY <1>1, LenProperties
<1>3. ASSUME vcls.head[n] \in vcls.active  PROVE Used(n) = vcls.head[n]
  <2>1. \E i \in 1 .. n : vcls.head[i] \in vcls.active
    BY <1>2, <1>3
  <2>2. (CHOOSE y \in vcls.active : TRUE) = vcls.head[n]
    BY <1>1, <1>3
  <2> QED  BY <2>1, <2>2 DEF Used
<1>4. ASSUME vcls.head[n] \notin vcls.active
      PROVE  Used(n) = IF Used(n - 1) = Nil THEN vcls.head[n] ELSE Used(n - 1)
  <2>1. (\E i \in 1 .. n : vcls.head[i] \in vcls.active)
          <=> (\E i \in 1 .. n - 1 : vcls.head[i] \in vcls.active)
    <3>1. \A i \in 1 .. n : i \in 1 .. n - 1 \/ i = n
      BY <1>2
    <3>2. \A i \in 1 .. n - 1 : i \in 1 .. n
      BY <1>2
    <3> QED  BY <1>4, <3>1, <3>2
  <2>2. CASE \E i \in 1 .. n - 1 : vcls.head[i] \in vcls.active
    <3>1. (CHOOSE y \in vcls.active : TRUE) \in vcls.active
      BY <2>2
    <3>2. Used(n) = (CHOOSE y \in vcls.active : TRUE) /\ Used(n - 1) = (CHOOSE y \in vcls.active : TRUE)
      BY <2>1, <2>2 DEF Used
    <3> QED  BY <1>1, <3>1, <3>2, ManagerAssumption
  <2>3. CASE ~(\E i \in 1 .. n - 1 : vcls.head[i] \in vcls.active)
    <3>1. Used(n) = vcls.head[1]
      BY <1>2, <2>1, <2>3 DEF Used
    <3>2. Used(n - 1) = IF n = 1 THEN Nil ELSE vcls.head[1]
      BY <1>2, <2>3 DEF Used
    <3>3. vcls.head[1] \in Names
      BY <1>1, <1>2, ElementOfSeq
    <3> QED  BY <3>1, <3>2, <3>3, ManagerAssumption
  <2> QED  BY <2>2, <2>3
<1> QED  BY <1>3, <1>4

\* A step after which no trusted child is there.
LEMMA Untrusted ==
  ASSUME ~Trusted'
  PROVE  Agreement'
BY DEF Agreement, Pipes, Filling, Running

\* A step of the manager or the world that leaves the child and what it is
\* asked as they were, the thread with a handler or without.
LEMMA SameAgreement ==
  ASSUME Agreement, UNCHANGED <<m, vcls, to, from, late>>, m.state = "STARTING" => job.ctx = "push",
         child'.loaded = child.loaded, child'.active = child.active, child'.serving = child.serving,
         child.life = "zombie" => child'.life = "zombie",
         job'.ctx = job.ctx, job'.ask = job.ask, job'.nth = job.nth,
         job'.at \in {"read", "read_on"} <=> job.at \in {"read", "read_on"}
  PROVE  Agreement'
<1>1. CASE ~Trusted'
  BY <1>1, Untrusted
<1>2. CASE Trusted'
  <2>1. Trusted
    BY <1>2 DEF Trusted
  <2>2. Used(job.nth)' = Used(job.nth) /\ Used(job.nth - 1)' = Used(job.nth - 1) /\ Believed' = Believed
    BY DEF Used, Believed
  <2>3. Pipes'
    BY <2>1 DEF Agreement, Pipes
  <2>4. Filling'
    BY <2>1, <2>2 DEF Agreement, Filling
  <2>5. Running'
    BY <2>1, <2>2 DEF Agreement, Running
  <2> QED  BY <2>3, <2>4, <2>5 DEF Agreement
<1> QED  BY <1>1, <1>2

\* A running child, no answer of which is in the pipe, before and after.
LEMMA QuietAgreement ==
  ASSUME Agreement, UNCHANGED <<vcls, to, from, late>>, m'.state # "STARTING",
         m'.cli => m.cli, m'.state = "RUNNING" => m.state = "RUNNING",
         child'.loaded = child.loaded, child'.active = child.active, child'.serving = child.serving,
         child.life = "zombie" => child'.life = "zombie",
         m'.cli => m'.state = "RUNNING",
         job.at \notin {"read", "read_on"}, job'.at \notin {"read", "read_on"}
  PROVE  Agreement'
<1>1. CASE ~Trusted'
  BY <1>1, Untrusted
<1>2. CASE Trusted'
  <2>1. Trusted /\ m.state = "RUNNING"
    BY <1>2 DEF Trusted
  <2>2. to = <<>> /\ from = <<>> /\ from # <<"OK">>
    <3>1. to = <<>> /\ from = <<>>
      BY <2>1 DEF Agreement, Pipes
    <3> QED  BY <3>1
  <2>3. child.serving /\ child.loaded = vcls.head /\ child.active = Believed
    BY <2>1, <2>2 DEF Agreement, Running
  <2>4. Believed' = Believed
    BY DEF Believed
  <2>5. Pipes'
    BY <2>2 DEF Pipes
  <2>6. Filling'
    BY DEF Filling
  <2>7. Running'
    BY <2>2, <2>3, <2>4 DEF Running
  <2> QED  BY <2>5, <2>6, <2>7 DEF Agreement
<1> QED  BY <1>1, <1>2

\* A new child has nothing, is asked for nothing and is told of the first
\* program.
LEMMA StartAgreement ==
  ASSUME Shape, NEW mm \in Managers, mm.cli = FALSE, start_child(mm), UNCHANGED vcls,
         Shape'
  PROVE  Agreement'
<1>1. CASE /\ m' = [mm EXCEPT !.state = "STOPPED"] /\ job' = Loop
           /\ child' = NoChild /\ UNCHANGED <<to, from, late>>
  <2>1. m'.cli = FALSE
    BY <1>1 DEF Managers
  <2> QED  BY <2>1, Untrusted DEF Trusted
<1>2. CASE /\ \E ping \in Pings : m' = Forked(mm, ping)
           /\ child' = [NoChild EXCEPT !.life = "alive"]
           /\ to' = <<>> /\ from' = <<>> /\ late' = FALSE
           /\ job' = mgt_push_vcls_and_start(1)
  <2>1. m'.state = "STARTING"
    BY <1>2 DEF Forked, Managers
  <2>2. vcls.head \in Seq(Names) /\ Len(vcls.head) \in Nat /\ 1 \in 1 .. Len(vcls.head) + 1
    BY LenProperties DEF Shape, Types
  <2>3. job'.at = "write" /\ job'.nth = 1 /\ job'.ask.op \in {"load", "start"}
    BY <1>2, <2>2, NextPush
  <2>4. child'.serving = FALSE /\ child'.loaded = <<>> /\ child'.active = Nil
    BY <1>2, ChildrenAre
  <2>5. SubSeq(vcls.head, 1, 1 - 1) = <<>>
    BY <2>2, SubSeqEmpty
  <2>6. Used(1 - 1)' = Nil
    BY DEF Used
  <2>7. Pipes'
    BY <1>2, <2>3 DEF Pipes
  <2>8. Running'
    BY <2>1 DEF Running
  <2>9. Filling'
    <3>1. /\ from' = <<>> /\ ~child'.serving /\ child'.active = Used(1 - 1)'
          /\ child'.loaded = SubSeq(vcls'.head, 1, 1 - 1)
      BY <1>2, <2>4, <2>5, <2>6
    <3> QED  BY <2>3, <3>1 DEF Filling
  <2> QED  BY <2>7, <2>8, <2>9 DEF Agreement
<1> QED  BY <1>1, <1>2 DEF start_child

\* The steps of an idle thread that touch neither the child nor its pipes.
LEMMA IdleAgreement ==
  ASSUME Shape, Agreement, Shape', job.at \notin {"write", "read", "read_on"},
         \/ vev_schedule_one \/ mcf_server_status \/ child_listener \/ child_poker
         \/ mcf_askchild
         \/ \E n \in Names : mcf_config_load(n) \/ mcf_config_use(n) \/ mcf_config_discard(n)
  PROVE  Agreement'
<1>1. m \in Managers /\ m.state # "STARTING" /\ (m.cli => m.state = "RUNNING")
  BY IdleIs DEF Shape, Books
<1>2. UNCHANGED <<child, to, from, late>>
  BY DEF vev_schedule_one, mcf_server_status, child_listener, child_poker, mcf_askchild,
         mcf_config_load, mcf_config_use, mcf_config_discard
<1>3. m'.state = m.state /\ m'.cli = m.cli
  <2>1. child_listener => m'.state = m.state /\ m'.cli = m.cli
    BY <1>1 DEF child_listener, Managers
  <2>2. child_poker => m'.state = m.state /\ m'.cli = m.cli
    BY <1>1 DEF child_poker, Managers
  <2> QED  BY <2>1, <2>2 DEF vev_schedule_one, mcf_server_status, mcf_askchild,
                             mcf_config_load, mcf_config_use, mcf_config_discard
<1>4. job'.at \notin {"read", "read_on"}
  <2>1. vev_schedule_one => job'.at = "poll"
    <3>1. job \in Jobs
      BY DEF Shape, Types
    <3> QED  BY <3>1, JobMoves DEF vev_schedule_one
  <2>2. Loop.at = "loop" /\ \A ctx, q : Asking(ctx, q, 0).at = "write"
    BY DEF Loop, Asking
  <2>3. \/ vev_schedule_one
        \/ job' = Loop
        \/ \E ctx, q : job' = Asking(ctx, q, 0)
    BY DEF mcf_server_status, child_listener, child_poker, mcf_askchild, AskOr,
           mcf_config_load, mcf_config_use, mcf_config_discard
  <2> QED  BY <2>1, <2>2, <2>3
<1>5. m.cli => UNCHANGED vcls
  <2>1. m.cli => m.pid
    BY <1>1 DEF Shape, Books
  <2> QED  BY <2>1 DEF vev_schedule_one, mcf_server_status, child_listener, child_poker, mcf_askchild,
         mcf_config_load, mcf_config_use, mcf_config_discard, AskOr
<1>6. CASE ~m.cli
  BY <1>3, <1>6, Untrusted DEF Trusted
<1>7. CASE m.cli
  BY <1>1, <1>2, <1>3, <1>4, <1>5, <1>7, QuietAgreement
<1> QED  BY <1>6, <1>7

\* The thread stops the child, reaps it or exits.
LEMMA EndAgreement ==
  ASSUME Shape, Agreement, Shape',
         MGT_Run \/ mgt_sigint \/ mgt_sigchld \/ server_start \/ server_stop
  PROVE  Agreement'
<1>1. job.at \notin {"write", "read", "read_on"}
  BY DEF MGT_Run, mgt_sigint, mgt_sigchld, server_start, server_stop
<1>2. m \in Managers /\ m.state # "STARTING" /\ (m.cli => m.state = "RUNNING")
      /\ (m.state = "RUNNING" => CliFds \subseteq m.fds)
      /\ (m.state = "STOPPED" => m.cli = FALSE)
  BY <1>1, IdleIs DEF Shape, Books
<1>3. CASE start_child(m) /\ UNCHANGED vcls
  <2>1. m.cli = FALSE
    BY <1>2, <1>3 DEF start_child, Shape, Books
  <2> QED  BY <1>2, <1>3, <2>1, StartAgreement
<1>4. CASE UNCHANGED <<m, vcls, child, to, from, late>> /\ job'.at \notin {"read", "read_on"}
  BY <1>1, <1>2, <1>4, QuietAgreement
<1>5. CASE m' = mgt_stop_child(m) /\ m.state = "RUNNING"
  <2>1. m'.cli = FALSE
    BY <1>2, <1>5, StopStops
  <2> QED  BY <2>1, Untrusted DEF Trusted
<1>6. CASE MGT_Run
  <2>1. Loop.at = "loop" /\ [Loop EXCEPT !.at = "exit"].at = "exit"
    BY DEF Loop
  <2> QED  BY <1>3, <1>4, <1>6, <2>1 DEF MGT_Run
<1>7. CASE mgt_sigint
  <2>1. [Loop EXCEPT !.at = "exit"].at = "exit"
    BY DEF Loop
  <2>2. job' = [Loop EXCEPT !.at = "exit"] /\ UNCHANGED <<vcls, child, to, from, late>>
        /\ (UNCHANGED m \/ (m' = mgt_stop_child(m) /\ m.state = "RUNNING"))
    BY <1>7 DEF mgt_sigint, mgt_stop_child
  <2> QED  BY <1>4, <1>5, <2>1, <2>2
<1>8. CASE mgt_sigchld
  <2>1. Loop.at = "loop" /\ UNCHANGED vcls
    BY <1>8 DEF Loop, mgt_sigchld
  <2>2. CASE m' = [m EXCEPT !.poker = FALSE] /\ job' = Loop /\ UNCHANGED <<child, to, from, late>>
    <3>1. m'.state = m.state /\ m'.cli = m.cli
      BY <1>2, <2>2 DEF Managers
    <3> QED  BY <1>1, <1>2, <2>1, <2>2, <3>1, QuietAgreement
  <2>3. CASE child.life = "zombie"
    <3>1. m.pid
      BY <2>3 DEF Shape, Books
    <3>2. m.state \in {"RUNNING", "STOPPING"} /\ "child_output" \in m.fds
      BY <1>1, <3>1, IdleIs DEF Shape, Books
    <3>3. Reaped(m) \in Managers /\ Reaped(m).cli = FALSE
      <4>1. /\ Reaped(m) \in Managers
            /\ Reaped(m).cli = (IF m.state = "RUNNING" THEN FALSE ELSE m.cli)
        BY <1>2, <3>2, ReapedIs
      <4>2. m.state = "STOPPING" => m.cli = FALSE
        BY <1>2 DEF Shape, Books, Managers
      <4> QED  BY <3>2, <4>1, <4>2
    <3>4. CASE start_child(Reaped(m))
      BY <2>1, <3>3, <3>4, StartAgreement
    <3>5. CASE m' = [Reaped(m) EXCEPT !.state = IF @ \in {"DIED", "STOPPING"} THEN "STOPPED" ELSE @]
      <4>1. m'.cli = FALSE
        BY <3>3, <3>5 DEF Managers
      <4> QED  BY <4>1, Untrusted DEF Trusted
    <3> QED  BY <1>8, <2>2, <3>4, <3>5 DEF mgt_sigchld
  <2> QED  BY <1>8, <2>2, <2>3 DEF mgt_sigchld
<1>9. CASE server_start
  BY <1>3, <1>9 DEF server_start
<1>10. CASE server_stop
  BY <1>5, <1>10 DEF server_stop
<1> QED  BY <1>6, <1>7, <1>8, <1>9, <1>10

\* Signals, and a child that ends, dies or hangs.
LEMMA WorldAgreement ==
  ASSUME Shape, Agreement, SigTerm \/ ChildGone \/ ChildHangs
  PROVE  Agreement'
<1>1. UNCHANGED <<m, vcls, to, from, late>>
  BY DEF SigTerm, ChildGone, ChildHangs
<1>2. /\ child'.loaded = child.loaded /\ child'.active = child.active
      /\ child'.serving = child.serving /\ (child.life = "zombie" => child'.life = "zombie")
  <2>1. CASE SigTerm
    BY <2>1 DEF SigTerm
  <2>2. CASE ChildGone
    BY <2>2, LifeMoves DEF ChildGone
  <2>3. CASE ChildHangs
    BY <2>3, LifeMoves DEF ChildHangs
  <2> QED  BY <2>1, <2>2, <2>3
<1>3. /\ job'.ctx = job.ctx /\ job'.ask = job.ask /\ job'.nth = job.nth
      /\ job'.at \in {"read", "read_on"} <=> job.at \in {"read", "read_on"}
  BY SignalMoves DEF SigTerm, ChildGone, ChildHangs
<1>4. m.state = "STARTING" => job.ctx = "push"
  BY DEF Shape, Books
<1> QED  BY <1>1, <1>2, <1>3, <1>4, SameAgreement

\* The child answers the one question it was asked.
LEMMA CliRunAgreement ==
  ASSUME Shape, Agreement, CLI_Run
  PROVE  Agreement'
<1>1. CASE ~Trusted'
  BY <1>1, Untrusted
<1>2. CASE Trusted'
  <2>1. /\ UNCHANGED <<m, vcls, job, sig, late>> /\ child.life = "alive" /\ to # <<>> /\ m.cli
        /\ child' \in Children
    BY CliRunAnswers
  <2>2. Trusted
    BY <1>2, <2>1 DEF Trusted
  <2>3. job.at \in {"read", "read_on"} /\ to = <<job.ask>> /\ from = <<>>
    BY <2>1, <2>2 DEF Agreement, Pipes
  <2>4. Head(to) = job.ask /\ Tail(to) = <<>>
    BY <2>3
  <2>5. PICK a \in {"OK", "PARAM"} :
          /\ to' = <<>> /\ from' = <<a>>
          /\ a = "PARAM" => child' = child
          /\ a = "OK" =>
             \/ /\ job.ask.op = "load" /\ child'.loaded = Append(child.loaded, job.ask.name)
                /\ child'.active = IF child.active = Nil THEN job.ask.name ELSE child.active
                /\ child'.serving = child.serving
             \/ /\ job.ask.op = "use" /\ child'.loaded = child.loaded
                /\ child'.active = job.ask.name /\ child'.serving = child.serving
             \/ /\ job.ask.op = "discard" /\ job.ask.name # child.active
                /\ child'.loaded = Unlinked(child.loaded, job.ask.name)
                /\ child'.active = child.active /\ child'.serving = child.serving
             \/ /\ job.ask.op = "start" /\ child'.serving = TRUE
                /\ child'.loaded = child.loaded /\ child'.active = child.active
             \/ job.ask.op \in {"ping", "other"} /\ child' = child
    <3>1. \A a : Append(from, a) = <<a>>
      BY <2>3
    <3> QED  BY <2>4, <3>1, CliRunAnswers
  <2>6. Pipes'
    BY <2>1, <2>3, <2>5 DEF Pipes
  <2>7. from # <<"OK">> /\ from' # <<>> /\ (from' = <<"OK">> <=> a = "OK")
    <3>1. <<a>> # <<>> /\ <<"OK">> # <<>>
      OBVIOUS
    <3>2. <<a>> = <<"OK">> <=> a = "OK"
      OBVIOUS
    <3> QED  BY <2>3, <2>5, <3>1, <3>2
  <2>8. Believed' = Believed /\ \A k : Used(k)' = Used(k)
    BY <2>1 DEF Believed, Used
  <2>9. CASE m.state = "STARTING"
    <3> DEFINE n == job.nth
    <3>1. /\ ~child.serving
          /\ child.loaded = SubSeq(vcls.head, 1, IF job.ask.op = "use" THEN n ELSE n - 1)
          /\ job.ask.op # "use" => child.active = Used(n - 1)
      BY <2>2, <2>3, <2>9 DEF Agreement, Filling
    <3>2. job.ctx = "push"
      BY <2>9 DEF Shape, Books
    <3>3. \/ /\ job.ask.op \in {"load", "use"} /\ n \in 1 .. Len(vcls.head)
             /\ job.ask.name = vcls.head[n]
             /\ job.ask.op = "use" => job.ask.name \in vcls.active
          \/ job.ask.op = "start" /\ n = Len(vcls.head) + 1
      BY <3>2 DEF Shape, Asked
    <3>4. vcls.head \in Seq(Names)
      BY DEF Shape, Types
    <3>5. CASE a = "PARAM"
      <4>1. ~child'.serving /\ from' # <<>> /\ from' # <<"OK">>
        BY <2>5, <2>7, <3>1, <3>5
      <4>2. Filling'
        BY <4>1 DEF Filling
      <4>3. Running'
        BY <2>1, <2>9 DEF Running
      <4> QED  BY <2>6, <4>2, <4>3 DEF Agreement
    <3>6. CASE a = "OK"
      <4>0. Running'
        BY <2>1, <2>9 DEF Running
      <4>1. CASE job.ask.op = "load"
        <5>1. /\ child'.loaded = Append(child.loaded, vcls.head[n])
              /\ child'.active = IF child.active = Nil THEN vcls.head[n] ELSE child.active
              /\ child'.serving = child.serving
          BY <2>5, <3>3, <3>6, <4>1
        <5>2. child'.loaded = SubSeq(vcls.head, 1, n)
          BY <3>1, <3>3, <3>4, <4>1, <5>1, PrefixGrows
        <5>3. vcls.head[n] \notin vcls.active => child'.active = Used(n)
          BY <3>1, <3>3, <4>1, <5>1, UsedNext
        <5>4. Filling'
          BY <2>1, <2>7, <2>8, <3>1, <3>3, <3>6, <4>1, <5>1, <5>2, <5>3 DEF Filling
        <5> QED  BY <2>6, <4>0, <5>4 DEF Agreement
      <4>2. CASE job.ask.op = "use"
        <5>1. /\ child'.loaded = child.loaded /\ child'.active = vcls.head[n]
              /\ child'.serving = child.serving /\ vcls.head[n] \in vcls.active
          BY <2>5, <3>3, <3>6, <4>2
        <5>2. child'.active = Used(n)
          BY <3>3, <4>2, <5>1, UsedNext
        <5>3. child'.loaded = SubSeq(vcls.head, 1, n)
          BY <3>1, <4>2, <5>1
        <5>4. Filling'
          BY <2>1, <2>7, <2>8, <3>1, <3>6, <4>2, <5>1, <5>2, <5>3 DEF Filling
        <5> QED  BY <2>6, <4>0, <5>4 DEF Agreement
      <4>3. CASE job.ask.op = "start"
        <5>1. child'.serving = TRUE /\ child'.loaded = child.loaded /\ child'.active = child.active
          BY <2>5, <3>6, <4>3
        <5>2. child'.loaded = SubSeq(vcls.head, 1, n - 1) /\ child'.active = Used(n - 1)
          BY <3>1, <4>3, <5>1
        <5>3. Filling'
          BY <2>1, <2>7, <2>8, <3>6, <4>3, <5>1, <5>2 DEF Filling
        <5> QED  BY <2>6, <4>0, <5>3 DEF Agreement
      <4> QED  BY <3>3, <4>1, <4>2, <4>3
    <3> QED  BY <3>5, <3>6
  <2>10. CASE m.state = "RUNNING"
    <3>0. Filling'
      BY <2>1, <2>10 DEF Filling
    <3>1. child.serving /\ child.loaded = vcls.head /\ child.active = Believed
      BY <2>2, <2>7, <2>10 DEF Agreement, Running
    <3>2. job.ctx # "push" /\ job.ctx # "none"
      BY <2>3, <2>10 DEF Shape, Books, Asked
    <3>3. job.ctx \in {"load", "use", "discard", "ping", "other"} /\ job.ask.op = job.ctx
      <4>1. job.ctx \in Contexts
        BY DEF Shape, Types, Jobs
      <4> QED  BY <3>2, <4>1 DEF Contexts, Shape, Asked
    <3>4. CASE a = "PARAM"
      <4>1. Running'
        BY <2>1, <2>5, <2>7, <2>8, <3>1, <3>4 DEF Running
      <4> QED  BY <2>6, <3>0, <4>1 DEF Agreement
    <3>5. CASE a = "OK"
      <4>1. child'.serving
        BY <2>5, <3>1, <3>5
      <4>2. CASE job.ctx = "load"
        <5>1. /\ child'.loaded = Append(vcls.head, job.ask.name)
              /\ child'.active = IF Believed = Nil THEN job.ask.name ELSE Believed
          BY <2>5, <3>1, <3>3, <3>5, <4>2
        <5>2. Running'
          BY <2>1, <2>7, <2>8, <3>5, <4>1, <4>2, <5>1 DEF Running
        <5> QED  BY <2>6, <3>0, <5>2 DEF Agreement
      <4>3. CASE job.ctx = "use"
        <5>1. child'.loaded = vcls.head /\ child'.active = job.ask.name
          BY <2>5, <3>1, <3>3, <3>5, <4>3
        <5>2. Running'
          BY <2>1, <2>7, <2>8, <3>5, <4>1, <4>3, <5>1 DEF Running
        <5> QED  BY <2>6, <3>0, <5>2 DEF Agreement
      <4>4. CASE job.ctx = "discard"
        <5>1. /\ child'.loaded = Unlinked(vcls.head, job.ask.name)
              /\ child'.active = Believed /\ job.ask.name # Believed
          BY <2>5, <3>1, <3>3, <3>5, <4>4
        <5>2. Running'
          BY <2>1, <2>7, <2>8, <3>5, <4>1, <4>4, <5>1 DEF Running
        <5> QED  BY <2>6, <3>0, <5>2 DEF Agreement
      <4>5. CASE job.ctx \in {"ping", "other"}
        <5>1. child'.loaded = vcls.head /\ child'.active = Believed
          BY <2>5, <3>1, <3>3, <3>5, <4>5
        <5>2. Running'
          BY <2>1, <2>7, <2>8, <3>5, <4>1, <4>5, <5>1 DEF Running
        <5> QED  BY <2>6, <3>0, <5>2 DEF Agreement
      <4> QED  BY <3>3, <4>2, <4>3, <4>4, <4>5
    <3> QED  BY <3>4, <3>5
  <2> QED  BY <2>1, <2>9, <2>10 DEF Shape, Books
<1> QED  BY <1>1, <1>2

\* A question that was not answered yes, by a child that is still trusted, was
\* answered no: nothing has changed on either side.
LEMMA RefusedAgreement ==
  ASSUME Shape, Agreement, Shape', Returns(FALSE), UNCHANGED to,
         ~late' /\ child.life # "zombie" =>
           UNCHANGED late /\ job.at \in {"read", "read_on"} /\ from = <<"PARAM">> /\ from' = <<>>
  PROVE  Agreement'
<1>1. CASE ~Trusted'
  BY <1>1, Untrusted
<1>2. CASE Trusted'
  <2>1. ~PushReturns(FALSE)
    <3> SUFFICES ASSUME PushReturns(FALSE)  PROVE FALSE
      OBVIOUS
    <3>1. /\ m' = mgt_stop_child([m EXCEPT !.state = "RUNNING"]) /\ job.ctx = "push"
      BY DEF PushReturns
    <3>2. m \in Managers /\ CliFds \subseteq m.fds
      BY <3>1 DEF Shape, Types, Books, CliFds
    <3>3. PICK mm \in Managers : mm = [m EXCEPT !.state = "RUNNING"]
      BY <3>2 DEF Managers
    <3>4. mm.state = "RUNNING" /\ mm.fds = m.fds
      BY <3>2, <3>3 DEF Managers
    <3>5. m'.cli = FALSE
      BY <3>1, <3>2, <3>3, <3>4, StopStops
    <3> QED  BY <1>2, <3>5 DEF Trusted
  <2>2. /\ job.ctx \in {"load", "use", "discard", "ping", "other"} /\ UNCHANGED <<m, vcls>> /\ job' = Loop
        /\ (child' = child \/ child'.life = "zombie")
    <3>1. CASE StoreReturns(FALSE)
      BY <3>1 DEF StoreReturns
    <3>2. CASE PingReturns(FALSE)
      <4>1. child' = child \/ child' = [child EXCEPT !.life = "zombie"]
        BY <3>2 DEF PingReturns
      <4> QED  BY <3>2, <4>1, LifeMoves DEF PingReturns
    <3> QED  BY <2>1, <3>1, <3>2 DEF Returns
  <2>3. m.state = "RUNNING" /\ m.cli
    BY <1>2, <2>2 DEF Trusted, Shape, Books
  <2>4. child' = child /\ child.life # "zombie" /\ ~late'
    BY <1>2, <2>2, <2>3 DEF Trusted
  <2>5. ~late /\ job.at \in {"read", "read_on"} /\ from = <<"PARAM">> /\ from' = <<>>
    BY <2>4
  <2>6. Trusted
    BY <2>3, <2>4, <2>5 DEF Trusted
  <2>7. to = <<>> /\ from # <<"OK">>
    <3>1. <<"PARAM">> # <<"OK">> /\ <<"PARAM">> # <<>>
      OBVIOUS
    <3> QED  BY <2>5, <2>6, <3>1 DEF Agreement, Pipes
  <2>8. child.serving /\ child.loaded = vcls.head /\ child.active = Believed
    BY <2>3, <2>6, <2>7 DEF Agreement, Running
  <2>9. Believed' = Believed /\ job'.at = "loop" /\ <<>> # <<"OK">>
    BY <2>2, JobsAre DEF Believed
  <2>10. Pipes'
    BY <2>5, <2>7, <2>9 DEF Pipes
  <2>11. Filling'
    BY <2>2, <2>3 DEF Filling
  <2>12. Running'
    BY <2>2, <2>4, <2>5, <2>8, <2>9 DEF Running
  <2> QED  BY <2>10, <2>11, <2>12 DEF Agreement
<1> QED  BY <1>1, <1>2

\* A running child that said yes: the store follows it.
LEMMA StoreFollows ==
  ASSUME Shape, Agreement, Shape', StoreReturns(TRUE), Trusted, m.state = "RUNNING",
         from = <<"OK">>
  PROVE  child'.serving /\ child'.loaded = vcls'.head /\ child'.active = Believed'
<1> DEFINE n == job.ask.name
<1>0. /\ \A x \in vcls'.active : Believed' = x
      /\ vcls'.active = {} /\ vcls'.head # <<>> => Believed' = vcls'.head[1]
  <2>1. \A x, y \in vcls'.active : x = y
    BY DEF Shape, Store
  <2>2. ASSUME NEW x \in vcls'.active  PROVE Believed' = x
    <3>1. (CHOOSE y \in vcls'.active : TRUE) = x
      BY <2>1, <2>2
    <3>2. vcls'.active # {} /\ vcls'.head # <<>>
      <4>1. x \in Range(vcls'.head) /\ vcls'.head \in Seq(Names)
        BY <2>2 DEF Shape, Types, Store
      <4> QED  BY <2>2, <4>1, EmptySeq DEF Range
    <3>3. Believed' = CHOOSE y \in vcls'.active : TRUE
      BY <3>2 DEF Believed
    <3> QED  BY <3>1, <3>3
  <2>3. vcls'.active = {} /\ vcls'.head # <<>> => Believed' = vcls'.head[1]
    BY DEF Believed
  <2> QED  BY <2>2, <2>3
<1>1. /\ job.ctx \in {"load", "use", "discard", "other"} /\ UNCHANGED child
      /\ vcls' = CASE job.ctx = "load" -> mgt_vcc_add(n)
                   [] job.ctx = "use" -> SetActive(n)
                   [] job.ctx = "discard" -> mgt_vcc_delbyname(n)
                   [] OTHER -> vcls
  BY DEF StoreReturns
<1>2. /\ child.serving
      /\ job.ctx = "load" => /\ child.loaded = Append(vcls.head, n)
                             /\ child.active = IF Believed = Nil THEN n ELSE Believed
      /\ job.ctx = "use" => child.loaded = vcls.head /\ child.active = n
      /\ job.ctx = "discard" => /\ child.loaded = Unlinked(vcls.head, n)
                                /\ child.active = Believed /\ n # Believed
      /\ job.ctx = "other" => child.loaded = vcls.head /\ child.active = Believed
  BY DEF Agreement, Running
<1>3. /\ job.ask.op = job.ctx /\ job.ask \in Questions
      /\ job.ctx \in {"use", "discard"} => n \in Range(vcls.head) \ vcls.active
  BY <1>1 DEF Shape, Types, Asked, Jobs
<1>4. job.ctx # "other" => n \in Names
  BY <1>1, <1>3 DEF Questions
<1>5. vcls.head \in Seq(Names)
  BY DEF Shape, Types
<1>6. CASE job.ctx = "other"
  <2>1. vcls' = vcls
    BY <1>1, <1>6
  <2>2. Believed' = Believed
    BY <2>1 DEF Believed
  <2> QED  BY <1>1, <1>2, <1>6, <2>1, <2>2
<1>7. CASE job.ctx = "load"
  <2>1. vcls'.head = Append(vcls.head, n) /\ vcls'.active = vcls.active
    <3>1. vcls' = mgt_vcc_add(n) /\ n \in Names
      BY <1>1, <1>4, <1>7
    <3>2. vcls' = [head |-> Append(vcls.head, n), active |-> vcls.active]
      BY <3>1, StoreAfter
    <3> QED  BY <3>2
  <2>2. CASE vcls.active # {}
    <3>1. PICK x : x \in vcls.active
      BY <2>2
    <3>2. Believed = x /\ x # Nil
      BY <3>1, UsedAll, ManagerAssumption DEF Shape, Types
    <3>3. Believed' = x
      BY <2>1, <3>1, <1>0
    <3> QED  BY <1>1, <1>2, <1>7, <2>1, <3>2, <3>3
  <2>3. CASE vcls.active = {}
    <3>1. vcls'.head # <<>> /\ vcls'.head[1] = IF vcls.head = <<>> THEN n ELSE vcls.head[1]
      BY <1>4, <1>5, <1>7, <2>1, AppendedRange
    <3>2. Believed' = vcls'.head[1]
      BY <2>1, <2>3, <3>1, <1>0
    <3>3. (Believed = Nil <=> vcls.head = <<>>) /\ (vcls.head # <<>> => Believed = vcls.head[1])
      BY <2>3, UsedAll
    <3> QED  BY <1>1, <1>2, <1>7, <2>1, <3>1, <3>2, <3>3
  <2> QED  BY <2>2, <2>3
<1>8. CASE job.ctx = "use"
  <2>1. vcls'.head = vcls.head /\ vcls'.active = {n}
    <3>1. vcls' = SetActive(n) /\ n \in Names
      BY <1>1, <1>4, <1>8
    <3>2. vcls' = [head |-> vcls.head, active |-> {n}]
      BY <3>1, StoreAfter
    <3> QED  BY <3>2
  <2>2. n \in vcls'.active
    BY <2>1
  <2>3. Believed' = n
    BY <2>2, <1>0
  <2> QED  BY <1>1, <1>2, <1>8, <2>1, <2>3
<1>9. CASE job.ctx = "discard"
  <2>1. vcls'.head = Unlinked(vcls.head, n) /\ vcls'.active = vcls.active
    <3>1. vcls' = mgt_vcc_delbyname(n) /\ n \in Names
      BY <1>1, <1>4, <1>9
    <3>2. vcls' = [head |-> Unlinked(vcls.head, n), active |-> vcls.active]
      BY <3>1, StoreAfter
    <3> QED  BY <3>2
  <2>2. CASE vcls.active # {}
    <3>1. PICK x : x \in vcls.active
      BY <2>2
    <3>2. Believed = x
      BY <3>1, UsedAll
    <3>3. Believed' = x
      BY <2>1, <3>1, <1>0
    <3> QED  BY <1>1, <1>2, <1>9, <2>1, <3>2, <3>3
  <2>3. CASE vcls.active = {}
    <3>1. n \in Range(vcls.head)
      BY <1>3, <1>9
    <3>2. vcls.head # <<>>
      BY <1>5, <3>1, EmptySeq DEF Range
    <3>3. Believed = vcls.head[1] /\ n # vcls.head[1]
      BY <1>2, <1>9, <2>3, <3>2, UsedAll
    <3>4. vcls'.head # <<>> /\ vcls'.head[1] = vcls.head[1]
      BY <1>5, <2>1, <3>1, <3>3, UnlinkedKeeps
    <3>5. Believed' = vcls'.head[1]
      BY <2>1, <2>3, <3>4, <1>0
    <3> QED  BY <1>1, <1>2, <1>9, <2>1, <3>3, <3>4, <3>5
  <2> QED  BY <2>2, <2>3
<1> QED  BY <1>1, <1>6, <1>7, <1>8, <1>9

\* A question answered yes.
LEMMA AcceptedAgreement ==
  ASSUME Shape, Agreement, Shape', Returns(TRUE), UNCHANGED <<to, late>>,
         job.at \in {"read", "read_on"}, from # <<>>, Head(from) = "OK", from' = Tail(from)
  PROVE  Agreement'
<1>1. CASE ~Trusted'
  BY <1>1, Untrusted
<1>2. CASE Trusted'
  <2>1. /\ UNCHANGED child
        /\ \/ PushReturns(TRUE) \/ StoreReturns(TRUE) \/ PingReturns(TRUE)
    BY DEF Returns, PushReturns, StoreReturns, PingReturns
  <2>2. m.cli
    <3>1. PushReturns(TRUE) => m.state = "STARTING"
      BY DEF PushReturns, Shape, Books
    <3>2. StoreReturns(TRUE) \/ PingReturns(TRUE) => UNCHANGED m
      BY DEF StoreReturns, PingReturns
    <3> QED  BY <1>2, <2>1, <3>1, <3>2 DEF Trusted, Shape, Books
  <2>3. Trusted
    <3>1. CASE PushReturns(TRUE)
      BY <1>2, <2>2, <3>1 DEF Trusted, PushReturns, Shape, Books
    <3>2. CASE StoreReturns(TRUE) \/ PingReturns(TRUE)
      BY <1>2, <2>1, <2>2, <3>2 DEF Trusted, StoreReturns, PingReturns
    <3> QED  BY <2>1, <3>1, <3>2
  <2>4. to = <<>> /\ from = <<"OK">> /\ from' = <<>>
    <3>1. to = <<>> /\ \E a \in {"OK", "PARAM"} : from = <<a>>
      BY <2>3 DEF Agreement, Pipes
    <3> QED  BY <3>1
  <2>5. <<>> # <<"OK">> /\ <<"OK">> # <<>>
    OBVIOUS
  <2>6. CASE PushReturns(TRUE)
    <3> DEFINE n == job.nth
    <3>1. job.ctx = "push" /\ m.state = "STARTING" /\ UNCHANGED <<vcls, child>>
      BY <2>6 DEF PushReturns, Shape, Books
    <3>2. \/ /\ job.ask.op \in {"load", "use"} /\ n \in 1 .. Len(vcls.head)
             /\ job.ask.name = vcls.head[n]
             /\ job.ask.op = "use" => job.ask.name \in vcls.active
          \/ job.ask.op = "start" /\ n = Len(vcls.head) + 1
      BY <3>1 DEF Shape, Asked
    <3>3. /\ child.serving <=> job.ask.op = "start"
          /\ child.loaded = SubSeq(vcls.head, 1, IF job.ask.op = "start" THEN n - 1 ELSE n)
          /\ job.ask.op = "load" /\ job.ask.name \notin vcls.active => child.active = Used(n)
          /\ job.ask.op = "use" => child.active = Used(n)
          /\ job.ask.op = "start" => child.active = Used(n - 1)
      <4>1. from = <<"OK">> /\ from # <<>>
        BY <2>4, <2>5
      <4> QED  BY <2>3, <3>1, <4>1 DEF Agreement, Filling
    <3>4. vcls.head \in Seq(Names) /\ Len(vcls.head) \in Nat
      BY LenProperties DEF Shape, Types
    <3>5. CASE job.ask.op # "start"
      <4>1. UNCHANGED m /\ job.ask.op \in {"load", "use"} /\ n \in 1 .. Len(vcls.head) /\ n \in Nat
        BY <2>6, <3>2, <3>4, <3>5 DEF PushReturns
      <4>2. job' = IF job.ask.op = "load" /\ job.ask.name \in vcls.active
                   THEN Asking("push", Cmd("use", job.ask.name), n)
                   ELSE mgt_push_vcls_and_start(n + 1)
        BY <2>6, <3>5 DEF PushReturns
      <4>3. Running'
        BY <3>1, <4>1 DEF Running
      <4>4. CASE job.ask.op = "load" /\ job.ask.name \in vcls.active
        <5>1. job'.at = "write" /\ job'.ask.op = "use" /\ job'.nth = n
          BY <4>2, <4>4 DEF Asking, Cmd
        <5>2. Pipes'
          BY <2>4, <5>1 DEF Pipes
        <5>3. Filling'
          BY <2>4, <3>1, <3>3, <4>4, <5>1 DEF Filling
        <5> QED  BY <4>3, <5>2, <5>3 DEF Agreement
      <4>5. CASE ~(job.ask.op = "load" /\ job.ask.name \in vcls.active)
        <5>1. n + 1 \in 1 .. Len(vcls.head) + 1 /\ (n + 1) - 1 = n
          BY <3>4, <4>1
        <5>2. job'.at = "write" /\ job'.ask.op \in {"load", "start"} /\ job'.nth = n + 1
          BY <3>4, <4>2, <4>5, <5>1, NextPush
        <5>3. Pipes'
          BY <2>4, <5>2 DEF Pipes
        <5>4. child.active = Used(n) /\ ~child.serving /\ child.loaded = SubSeq(vcls.head, 1, n)
          BY <3>3, <4>1, <4>5
        <5>5. Used(job.nth - 1)' = Used(n)
          BY <3>1, <5>1, <5>2 DEF Used
        <5>6. SubSeq(vcls'.head, 1, job'.nth - 1) = SubSeq(vcls.head, 1, n)
          BY <3>1, <5>1, <5>2
        <5>7. Filling'
          BY <2>4, <3>1, <5>2, <5>4, <5>5, <5>6 DEF Filling
        <5> QED  BY <4>3, <5>3, <5>7 DEF Agreement
      <4> QED  BY <4>4, <4>5
    <3>6. CASE job.ask.op = "start"
      <4>1. m' = [m EXCEPT !.state = "RUNNING"] /\ job' = Loop
        BY <2>6, <3>6 DEF PushReturns
      <4>2. m'.state = "RUNNING" /\ job'.at = "loop"
        BY <4>1, JobsAre DEF Shape, Types, Managers
      <4>3. n - 1 = Len(vcls.head)
        BY <3>2, <3>4, <3>6
      <4>4. SubSeq(vcls.head, 1, n - 1) = vcls.head /\ Used(n - 1) = Believed
        BY <3>4, <4>3, SubSeqFull, UsedAll
      <4>5. child'.serving /\ child'.loaded = vcls'.head /\ child'.active = Believed'
        <5>1. Believed' = Believed
          BY <3>1 DEF Believed
        <5> QED  BY <3>1, <3>3, <3>6, <4>4, <5>1
      <4>6. Pipes'
        BY <2>4, <4>2 DEF Pipes
      <4>7. Filling'
        BY <4>2 DEF Filling
      <4>8. Running'
        BY <2>4, <2>5, <4>5 DEF Running
      <4> QED  BY <4>6, <4>7, <4>8 DEF Agreement
    <3> QED  BY <3>5, <3>6
  <2>7. CASE StoreReturns(TRUE) \/ PingReturns(TRUE)
    <3>1. UNCHANGED m /\ job' = Loop /\ job.ctx # "push"
      BY <2>7 DEF StoreReturns, PingReturns
    <3>2. m.state = "RUNNING" /\ job'.at = "loop"
      BY <2>2, <3>1, JobsAre DEF Shape, Books
    <3>3. child'.serving /\ child'.loaded = vcls'.head /\ child'.active = Believed'
      <4>1. CASE StoreReturns(TRUE)
        BY <2>3, <2>4, <3>2, <4>1, StoreFollows
      <4>2. CASE PingReturns(TRUE)
        <5>1. job.ctx = "ping" /\ UNCHANGED vcls
          BY <4>2 DEF PingReturns
        <5>2. child.serving /\ child.loaded = vcls.head /\ child.active = Believed
          BY <2>3, <2>4, <3>2, <5>1 DEF Agreement, Running
        <5>3. Believed' = Believed
          BY <5>1 DEF Believed
        <5> QED  BY <2>1, <5>1, <5>2, <5>3
      <4> QED  BY <2>7, <4>1, <4>2
    <3>4. Pipes'
      BY <2>4, <3>2 DEF Pipes
    <3>5. Filling'
      BY <3>1, <3>2 DEF Filling
    <3>6. Running'
      BY <2>4, <2>5, <3>3 DEF Running
    <3> QED  BY <3>4, <3>5, <3>6 DEF Agreement
  <2> QED  BY <2>1, <2>6, <2>7
<1> QED  BY <1>1, <1>2

\* The manager asks, waits, and reads or gives up.
LEMMA AskingAgreement ==
  ASSUME Shape, Agreement, Shape', Ask
  PROVE  Agreement'
<1>1. CASE mgt_cli_askchild
  <2>1. CASE ~m.cli /\ Returns(FALSE)
    <3>1. m'.cli = FALSE
      <4>1. ~PushReturns(FALSE)
        BY <2>1 DEF PushReturns, Shape, Books
      <4>2. UNCHANGED m
        BY <2>1, <4>1 DEF Returns, StoreReturns, PingReturns
      <4> QED  BY <2>1, <4>2 DEF Shape, Types, Managers
    <3> QED  BY <3>1, Untrusted DEF Trusted
  <2>2. CASE child.life = "zombie" /\ Returns(FALSE) /\ UNCHANGED to
    BY <2>2, RefusedAgreement
  <2>3. CASE /\ m.cli /\ to' = Append(to, job.ask) /\ job' = [job EXCEPT !.at = "read"]
             /\ UNCHANGED <<m, vcls, sig, child>>
    <3>1. job.at = "write" /\ UNCHANGED <<from, late>>
      BY <1>1 DEF mgt_cli_askchild
    <3>2. job'.at = "read" /\ job'.ctx = job.ctx /\ job'.ask = job.ask /\ job'.nth = job.nth
      BY <2>3, JobMoves DEF Shape, Types
    <3>3. CASE ~Trusted'
      BY <3>3, Untrusted
    <3>4. CASE Trusted'
      <4>1. Trusted
        BY <2>3, <3>1, <3>4 DEF Trusted
      <4>2. to = <<>> /\ from = <<>>
        BY <3>1, <4>1 DEF Agreement, Pipes
      <4>3. to' = <<job'.ask>> /\ from' = <<>>
        BY <2>3, <3>1, <3>2, <4>2
      <4>4. Pipes'
        BY <3>2, <4>3 DEF Pipes
      <4>5. Used(job.nth)' = Used(job.nth) /\ Used(job.nth - 1)' = Used(job.nth - 1) /\ Believed' = Believed
        BY <2>3, <3>2 DEF Used, Believed
      <4>6. Filling'
        BY <2>3, <3>1, <3>2, <4>1, <4>5 DEF Agreement, Filling
      <4>7. Running'
        BY <2>3, <3>1, <3>2, <4>1, <4>5 DEF Agreement, Running
      <4> QED  BY <4>4, <4>6, <4>7 DEF Agreement
    <3> QED  BY <3>3, <3>4
  <2> QED  BY <1>1, <2>1, <2>2, <2>3 DEF mgt_cli_askchild
<1>2. CASE cli_readres
  <2>1. /\ job.at \in {"read", "read_on"} /\ from # <<>> /\ from' = Tail(from)
        /\ Returns(Head(from) = "OK") /\ UNCHANGED <<to, late>>
    BY <1>2 DEF cli_readres
  <2>2. CASE Head(from) = "OK"
    BY <2>1, <2>2, AcceptedAgreement
  <2>3. CASE Head(from) # "OK"
    <3>1. Returns(FALSE)
      BY <2>1, <2>3
    <3>2. ASSUME ~Trusted  PROVE Agreement'
      <4>1. ~Trusted'
        <5>1. PushReturns(FALSE) => m.state = "STARTING" /\ m.cli
          BY DEF PushReturns, Shape, Books
        <5>2. CASE PushReturns(FALSE)
          BY <2>1, <3>2, <5>1, <5>2 DEF Trusted, PushReturns
        <5>3. CASE StoreReturns(FALSE)
          BY <2>1, <3>2, <5>3 DEF Trusted, StoreReturns
        <5>4. CASE PingReturns(FALSE)
          <6>1. child' = child \/ child' = [child EXCEPT !.life = "zombie"]
            BY <5>4 DEF PingReturns
          <6>2. (child' = child \/ child'.life = "zombie") /\ UNCHANGED m
            BY <5>4, <6>1, LifeMoves DEF PingReturns
          <6> QED  BY <2>1, <3>2, <6>2 DEF Trusted
        <5> QED  BY <3>1, <5>2, <5>3, <5>4 DEF Returns
      <4> QED  BY <4>1, Untrusted
    <3>3. ASSUME Trusted  PROVE Agreement'
      <4>1. \E a \in {"OK", "PARAM"} : from = <<a>>
        BY <2>1, <3>3 DEF Agreement, Pipes
      <4>2. from = <<"PARAM">> /\ from' = <<>>
        BY <2>1, <2>3, <4>1
      <4> QED  BY <2>1, <3>1, <4>2, RefusedAgreement
    <3> QED  BY <3>2, <3>3
  <2> QED  BY <2>2, <2>3
<1>3. CASE read_tmo
  <2>1. Returns(FALSE) /\ UNCHANGED <<to, from>> /\ (child.life = "zombie" \/ late' = TRUE)
    BY <1>3 DEF read_tmo
  <2> QED  BY <2>1, RefusedAgreement
<1> QED  BY <1>1, <1>2, <1>3 DEF Ask

(***************************************************************************)
(* The theorems                                                            *)
(***************************************************************************)
LEMMA ShapeInit == Init => IInv
<1> SUFFICES ASSUME Init  PROVE IInv
  OBVIOUS
<1>1. /\ m.state = "STOPPED" /\ m.pid = FALSE /\ m.cli = FALSE /\ m.fds = {}
      /\ m.listen = FALSE /\ m.poker = FALSE /\ m.ok /\ m \in Managers
  BY DEF Init, Managers
<1>2. job \in Jobs /\ job.at = "main" /\ job.ctx = "none" /\ child \in Children /\ child.life = "none"
  BY JobsAre, ChildrenAre DEF Init
<1>3. vcls \in [head : Seq(Names), active : SUBSET Names] /\ Store
  <2>1. CASE vcls = [head |-> <<>>, active |-> {}]
    BY <2>1, EmptySeq DEF Store
  <2>2. CASE vcls = [head |-> <<Boot>>, active |-> {Boot}]
    <3>1. <<Boot>> \in Seq(Names) /\ Boot \in Names /\ Boot \in Range(<<Boot>>)
      BY ManagerAssumption DEF Range
    <3>2. vcls.head = <<Boot>> /\ vcls.active = {Boot}
      BY <2>2
    <3> QED  BY <2>2, <3>1, <3>2 DEF Store
  <2> QED  BY <2>1, <2>2 DEF Init
<1>4. Types
  <2>1. to \in Seq(Questions) /\ from \in Seq({"OK", "PARAM"})
    BY EmptySeq DEF Init
  <2> QED  BY <1>1, <1>2, <1>3, <2>1 DEF Types, Init
<1>5. Books /\ Asked
  BY <1>1, <1>2 DEF Books, Asked
<1>6. Agreement
  BY <1>1 DEF Agreement, Pipes, Filling, Running, Trusted
<1> QED  BY <1>3, <1>4, <1>5, <1>6 DEF IInv, Shape

\* Shape is kept by every step.
LEMMA StepShape ==
  ASSUME Shape, Next
  PROVE  Shape'
<1>1. Operator => Shape'
  BY ServerStartShape, ServerStopShape, PollShape, OtherShape, ConfigShape DEF Operator
<1>2. Signals => Shape'
  BY SigintShape, SigchldShape DEF Signals
<1>3. Child \/ ChildDies => Shape'
  BY CliRunShape, GoneShape DEF Child, ChildEnds, ChildDies
<1>4. Exited => Shape'
  <2> SUFFICES ASSUME Exited  PROVE Shape'
    OBVIOUS
  <2>1. UNCHANGED vars
    BY DEF Exited
  <2> QED  BY <2>1 DEF vars, Shape, Types, Books, Asked, Store
<1> QED
  BY <1>1, <1>2, <1>3, <1>4, RunShape, PollShape, ListenerShape, PokerShape, AskingShape,
     TermShape, HangShape DEF Next

\* Pipes, Filling and Running are kept by every step.
LEMMA StepAgreement ==
  ASSUME Shape, Agreement, Next, Shape'
  PROVE  Agreement'
<1>1. CASE \/ vev_schedule_one \/ mcf_server_status \/ child_listener \/ child_poker \/ mcf_askchild
           \/ \E n \in Names : mcf_config_load(n) \/ mcf_config_use(n) \/ mcf_config_discard(n)
  <2>1. job.at \notin {"write", "read", "read_on"}
    BY <1>1 DEF vev_schedule_one, mcf_server_status, child_listener, child_poker, mcf_askchild,
                mcf_config_load, mcf_config_use, mcf_config_discard
  <2> QED  BY <1>1, <2>1, IdleAgreement
<1>2. CASE MGT_Run \/ mgt_sigint \/ mgt_sigchld \/ server_start \/ server_stop
  BY <1>2, EndAgreement
<1>3. CASE SigTerm \/ ChildEnds \/ ChildDies \/ ChildHangs
  BY <1>3, WorldAgreement DEF ChildEnds, ChildDies
<1>4. CASE Exited
  <2>1. UNCHANGED vars
    BY <1>4 DEF Exited
  <2>2. m.state = "STARTING" => job.ctx = "push"
    BY DEF Shape, Books
  <2> QED  BY <2>1, <2>2, SameAgreement DEF vars
<1> QED  BY <1>1, <1>2, <1>3, <1>4, CliRunAgreement, AskingAgreement
         DEF Next, Operator, Signals, Child

(* The inductive invariant: the manager's books, what each handler asks,   *)
(* and what a child that was never given up on has at every point of its   *)
(* filling and of every command.                                           *)
THEOREM Invariance == Spec => []IInv
<1>1. IInv /\ [Next]_vars => IInv'
  <2> SUFFICES ASSUME IInv, [Next]_vars  PROVE IInv'
    OBVIOUS
  <2>1. CASE Next
    BY <2>1, StepShape, StepAgreement DEF IInv
  <2>2. CASE UNCHANGED vars
    <3>1. Shape'
      BY <2>2 DEF vars, IInv, Shape, Types, Books, Asked, Store
    <3>2. m.state = "STARTING" => job.ctx = "push"
      BY DEF IInv, Shape, Books
    <3>3. Agreement'
      BY <2>2, <3>2, SameAgreement DEF vars, IInv
    <3> QED  BY <3>1, <3>3 DEF IInv
  <2> QED  BY <2>1, <2>2
<1> QED  BY <1>1, ShapeInit, PTL DEF Spec

(* No order of commands, signals, deaths, hangs and timeouts makes the     *)
(* manager fail an assertion of mgt_child.c, leaves it with a descriptor,  *)
(* an event or a state that does not fit its child, or makes two programs  *)
(* active in mgt_vcc.c's list.                                             *)
THEOREM ManagerTheorem == Spec => []ManagerInv
<1>1. IInv => ManagerInv
  <2> SUFFICES ASSUME IInv  PROVE ManagerInv
    OBVIOUS
  <2>1. Types /\ Books /\ Store
    BY DEF IInv, Shape
  <2>2. TypeOK
    BY <2>1 DEF Types, TypeOK, Managers, Jobs, Children
  <2>3. Cardinality(vcls.active) <= 1
    <3>1. CASE vcls.active = {}
      BY <3>1, FS_EmptySet
    <3>2. CASE vcls.active # {}
      <4>1. PICK x : vcls.active = {x}
        BY <2>1, <3>2 DEF Store
      <4> QED  BY <4>1, FS_Singleton
    <3> QED  BY <3>1, <3>2
  <2>4. vcls.active \subseteq Range(vcls.head)
    BY <2>1 DEF Store
  <2> QED  BY <2>1, <2>2, <2>3, <2>4 DEF ManagerInv, Books
<1> QED  BY <1>1, Invariance, PTL

(* Whatever was loaded, put to use or discarded before, while or after a   *)
(* child was started, the child and the manager agree on the programs and  *)
(* on the one in use, when it begins to serve (mgt_push_vcls_and_start)    *)
(* and between two commands, until an answer is given up on.               *)
THEOREM StoresAgreeTheorem == Spec => []StoresAgree
<1>1. IInv => StoresAgree
  <2> SUFFICES ASSUME IInv  PROVE StoresAgree
    OBVIOUS
  <2>0. Shape /\ Agreement
    BY DEF IInv
  <2>1. ChildAgrees
    <3> SUFFICES ASSUME m.state = "RUNNING", job.at \in {"loop", "poll"},
                        child.life # "zombie", ~late
                 PROVE  /\ child.loaded = vcls.head /\ child.active = Believed /\ child.serving
                        /\ to = <<>> /\ from = <<>>
      BY DEF ChildAgrees
    <3>1. Trusted
      BY <2>0 DEF Trusted, Shape, Books
    <3>2. to = <<>> /\ from = <<>>
      BY <2>0, <3>1 DEF Agreement, Pipes
    <3>3. from # <<"OK">>
      BY <3>2
    <3> QED  BY <2>0, <3>1, <3>2, <3>3 DEF Agreement, Running
  <2>2. ServesProgrammed
    <3> SUFFICES ASSUME child.serving, m.state = "STARTING", ~late
                 PROVE  child.loaded = vcls.head /\ child.active = Believed
      BY DEF ServesProgrammed
    <3>1. Trusted /\ job.ctx = "push"
      BY <2>0 DEF Trusted, Shape, Books
    <3>2. from = <<"OK">> /\ from # <<>>
      <4>0. <<"OK">> # <<>>
        OBVIOUS
      <4>1. from # <<>>
        BY <2>0, <3>1, <4>0 DEF Agreement, Filling
      <4>2. from = <<"OK">>
        BY <2>0, <3>1, <4>1 DEF Agreement, Filling
      <4> QED  BY <4>1, <4>2
    <3>3. /\ job.ask.op = "start" /\ child.loaded = SubSeq(vcls.head, 1, job.nth - 1)
          /\ child.active = Used(job.nth - 1)
      BY <2>0, <3>1, <3>2 DEF Agreement, Filling
    <3>4. vcls.head \in Seq(Names) /\ Len(vcls.head) \in Nat
      BY <2>0, LenProperties DEF Shape, Types
    <3>5. job.nth - 1 = Len(vcls.head)
      BY <2>0, <3>1, <3>3, <3>4 DEF Shape, Asked
    <3> QED  BY <2>0, <3>3, <3>4, <3>5, SubSeqFull, UsedAll
  <2> QED  BY <2>1, <2>2 DEF StoresAgree
<1> QED  BY <1>1, Invariance, PTL
=============================================================================
